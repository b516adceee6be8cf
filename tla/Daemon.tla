------------------------------- MODULE Daemon -------------------------------
(***************************************************************************)
(* The life of a virtinjectd process (virtinjectd/main.go) and the socket  *)
(* file its instances share: start, stale-socket removal, listen, the      *)
(* goroutine that waits for a signal, the deferred cleanup.  An instance   *)
(* may be killed between any two steps, and leaves what it had created.    *)
(***************************************************************************)

CONSTANTS
  Instances,  \* the processes started, one after the other or side by side
  NoSocket    \* nothing at listenPath

ASSUME NoSocketAssumption == NoSocket \notin Instances

VARIABLES
  pc,      \* pc[i]: where main is
  closer,  \* closer[i]: the signal goroutine: "none", "waiting", "unlinked", "closed"
  sigCh,   \* sigCh[i]: a signal is in the channel (its capacity is 1)
  stop,    \* stop[i]: SIGINT or SIGTERM was sent while the instance handled it
  inUse,   \* inUse[i]: net.Listen found the address in use
  path,    \* whose socket file is at listenPath
  shared   \* history: shared[i]: another instance was alive during i's life

vars == <<pc, closer, sigCh, stop, inUse, path, shared>>

Running == {"init", "notified", "cleared", "bound", "serving", "deferred"}

TypeOK ==
  /\ pc \in [Instances -> Running \cup {"unborn", "exited", "killed"}]
  /\ closer \in [Instances -> {"none", "waiting", "unlinked", "closed"}]
  /\ sigCh \in [Instances -> BOOLEAN]
  /\ stop \in [Instances -> BOOLEAN]
  /\ inUse \in [Instances -> BOOLEAN]
  /\ path \in Instances \cup {NoSocket}
  /\ shared \in [Instances -> BOOLEAN]
  /\ \A i \in Instances : /\ pc[i] = "serving" => closer[i] # "none"
                          /\ pc[i] = "deferred" => closer[i] = "closed"

Alive(i) == pc[i] \in Running

(* The kernel accepts connections for i at listenPath. *)
Listening(i) == pc[i] = "serving" /\ closer[i] \in {"waiting", "unlinked"}

Init ==
  /\ pc = [i \in Instances |-> "unborn"]
  /\ closer = [i \in Instances |-> "none"]
  /\ sigCh = [i \in Instances |-> FALSE]
  /\ stop = [i \in Instances |-> FALSE]
  /\ inUse = [i \in Instances |-> FALSE]
  /\ path = NoSocket
  /\ shared = [i \in Instances |-> FALSE]

-----------------------------------------------------------------------------
(* Whoever starts and stops the daemon. *)

(* Nothing keeps an instance from being started while another one is alive. *)
Launch(i) ==
  LET others == {j \in Instances : Alive(j)} IN
  /\ pc[i] = "unborn"
  /\ pc' = [pc EXCEPT ![i] = "init"]
  /\ shared' = [j \in Instances |-> shared[j] \/ j \in others \/ (j = i /\ others # {})]
  /\ UNCHANGED <<closer, sigCh, stop, inUse, path>>

(* Mutant: the channel has no buffer, a signal nobody waits for is dropped. *)
Signal_unbuffered(i) ==
  \/ /\ pc[i] = "init"
     /\ pc' = [pc EXCEPT ![i] = "killed"]
     /\ UNCHANGED <<closer, sigCh, stop, inUse, path, shared>>
  \/ /\ Alive(i) /\ pc[i] # "init"
     /\ sigCh' = [sigCh EXCEPT ![i] = @ \/ closer[i] = "waiting"]
     /\ stop' = [stop EXCEPT ![i] = TRUE]
     /\ UNCHANGED <<pc, closer, inUse, path, shared>>

(***************************************************************************)
(* Until signal.Notify a signal kills; afterwards it is put in the         *)
(* channel, or dropped when one is already there.                          *)
(***************************************************************************)
Signal(i) ==
  \/ /\ pc[i] = "init"
     /\ pc' = [pc EXCEPT ![i] = "killed"]
     /\ UNCHANGED <<closer, sigCh, stop, inUse, path, shared>>
  \/ /\ Alive(i) /\ pc[i] # "init"
     /\ sigCh' = [sigCh EXCEPT ![i] = TRUE]
     /\ stop' = [stop EXCEPT ![i] = TRUE]
     /\ UNCHANGED <<pc, closer, inUse, path, shared>>

(* SIGKILL, or a panic in any goroutine. *)
Kill(i) ==
  /\ Alive(i)
  /\ pc' = [pc EXCEPT ![i] = "killed"]
  /\ UNCHANGED <<closer, sigCh, stop, inUse, path, shared>>

-----------------------------------------------------------------------------
(* main *)

(* The flags and the hook chain are checked, then signals are subscribed to. *)
Start(i) ==
  /\ pc[i] = "init"
  /\ pc' \in {[pc EXCEPT ![i] = "notified"], [pc EXCEPT ![i] = "exited"]}
  /\ UNCHANGED <<closer, sigCh, stop, inUse, path, shared>>

(* Mutant: the file a killed instance left is not removed. *)
RemoveStale_skipped(i) ==
  /\ pc[i] = "notified"
  /\ pc' = [pc EXCEPT ![i] = "cleared"]
  /\ UNCHANGED <<closer, sigCh, stop, inUse, path, shared>>

RemoveStale(i) ==
  /\ pc[i] = "notified"
  /\ \/ /\ path' = NoSocket
        /\ pc' = [pc EXCEPT ![i] = "cleared"]
     \/ /\ pc' = [pc EXCEPT ![i] = "exited"]   \* os.Remove failed
        /\ UNCHANGED path
  /\ UNCHANGED <<closer, sigCh, stop, inUse, shared>>

(* net.Listen first binds the address, which makes the file, ... *)
Bind(i) ==
  /\ pc[i] = "cleared"
  /\ \/ /\ path = NoSocket
        /\ path' = i
        /\ pc' = [pc EXCEPT ![i] = "bound"]
        /\ UNCHANGED inUse
     \/ /\ pc' = [pc EXCEPT ![i] = "exited"]
        /\ inUse' = [inUse EXCEPT ![i] = path # NoSocket]
        /\ UNCHANGED path
  /\ UNCHANGED <<closer, sigCh, stop, shared>>

(* Mutant: the stale file is removed after listening. *)
Listen_removesAfter(i) ==
  /\ pc[i] = "bound"
  /\ path' = NoSocket
  /\ pc' = [pc EXCEPT ![i] = "serving"]
  /\ closer' = [closer EXCEPT ![i] = "waiting"]
  /\ UNCHANGED <<sigCh, stop, inUse, shared>>

(* ... and then listens; if that fails the file stays.  The signal goroutine is started. *)
Listen(i) ==
  /\ pc[i] = "bound"
  /\ \/ /\ pc' = [pc EXCEPT ![i] = "serving"]
        /\ closer' = [closer EXCEPT ![i] = "waiting"]
     \/ /\ pc' = [pc EXCEPT ![i] = "exited"]
        /\ UNCHANGED closer
  /\ UNCHANGED <<sigCh, stop, inUse, path, shared>>

(* Mutant: the socket file is left to the deferred function. *)
SignalReceived_keepsFile(i) ==
  /\ Alive(i) /\ closer[i] = "waiting" /\ sigCh[i]
  /\ sigCh' = [sigCh EXCEPT ![i] = FALSE]
  /\ closer' = [closer EXCEPT ![i] = "unlinked"]
  /\ UNCHANGED <<pc, stop, inUse, path, shared>>

(***************************************************************************)
(* The signal goroutine calls listener.Close, which first unlinks          *)
(* listenPath, whoever's socket is there by now, and then closes the       *)
(* descriptor.                                                             *)
(***************************************************************************)
SignalReceived(i) ==
  /\ Alive(i) /\ closer[i] = "waiting" /\ sigCh[i]
  /\ sigCh' = [sigCh EXCEPT ![i] = FALSE]
  /\ path' = NoSocket
  /\ closer' = [closer EXCEPT ![i] = "unlinked"]
  /\ UNCHANGED <<pc, stop, inUse, shared>>

ListenerClosed(i) ==
  /\ Alive(i) /\ closer[i] = "unlinked"
  /\ closer' = [closer EXCEPT ![i] = "closed"]
  /\ UNCHANGED <<pc, sigCh, stop, inUse, path, shared>>

(* Accept fails with "use of closed network connection": Run returns. *)
RunReturns(i) ==
  /\ pc[i] = "serving" /\ closer[i] = "closed"
  /\ pc' = [pc EXCEPT ![i] = "deferred"]
  /\ UNCHANGED <<closer, sigCh, stop, inUse, path, shared>>

(* The deferred function: a second Close, which does nothing, and os.Remove. *)
Cleanup(i) ==
  /\ pc[i] = "deferred"
  /\ path' = NoSocket
  /\ pc' = [pc EXCEPT ![i] = "exited"]
  /\ UNCHANGED <<closer, sigCh, stop, inUse, shared>>

-----------------------------------------------------------------------------
Main(i) == \/ Start(i) \/ RemoveStale(i) \/ Bind(i) \/ Listen(i)
           \/ RunReturns(i) \/ Cleanup(i)

Closer(i) == SignalReceived(i) \/ ListenerClosed(i)

Next == \E i \in Instances : Launch(i) \/ Signal(i) \/ Kill(i) \/ Main(i) \/ Closer(i)

Spec == Init /\ [][Next]_vars

(* Both goroutines are scheduled; nobody has to start, stop or kill the daemon. *)
Fairness == \A i \in Instances : WF_vars(Main(i)) /\ WF_vars(Closer(i))

FairSpec == Spec /\ Fairness

-----------------------------------------------------------------------------
(***************************************************************************)
(* An instance with its time to itself is not disturbed by those before    *)
(* it, wherever they were killed and however many of them ran at once:     *)
(* until it is told to stop, it is the one a client finds at listenPath    *)
(* (main.go:119-128).                                                      *)
(***************************************************************************)
ListenerReachable ==
  \A i \in Instances : pc[i] = "serving" /\ closer[i] = "waiting" /\ ~shared[i] => path = i

(***************************************************************************)
(* A client that finds a socket file finds somebody listening behind it,   *)
(* unless its instance was killed or has bound the address and not yet, or *)
(* not successfully, listened: once net.Listen has returned, the file is   *)
(* gone before the descriptor is closed, whatever way main ends            *)
(* (main.go:125-144).                                                      *)
(***************************************************************************)
NoDeadSocket == \A i \in Instances :
  path = i => Listening(i) \/ pc[i] = "killed" \/ closer[i] = "none"

(***************************************************************************)
(* No file left by those before it makes net.Listen of an instance fail:   *)
(* only one that bound it between its os.Remove and its net.Listen can     *)
(* (main.go:119-125).                                                      *)
(***************************************************************************)
RestartFindsAddressFree == \A i \in Instances : inUse[i] => shared[i]

(***************************************************************************)
(* A SIGINT or SIGTERM sent at any moment from signal.Notify on stops the  *)
(* daemon, also when the listener and the goroutine that waits for the     *)
(* signal did not exist yet (main.go:116, 140-144).                        *)
(***************************************************************************)
SignalStops == \A i \in Instances : stop[i] ~> ~Alive(i)

=============================================================================
