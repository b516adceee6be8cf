---------------------------- MODULE DaemonProofs ----------------------------
(***************************************************************************)
(* The safety properties of Daemon for any number of restarts, with the    *)
(* kills anywhere, and whichever of them run at once.                      *)
(***************************************************************************)
EXTENDS Daemon, TLAPS

(* Whoever's file is at listenPath listens, never did, or was killed. *)
Owned == \A i \in Instances :
  /\ path = i => \/ pc[i] = "serving" /\ closer[i] = "waiting"
                 \/ pc[i] = "killed" \/ closer[i] = "none"
  /\ closer[i] # "none" => pc[i] \notin {"unborn", "init", "notified", "cleared", "bound"}

(* An instance with its time to itself: from the removal of the stale file *)
(* to net.Listen nobody else can put a file there, and none takes its own. *)
Sequential ==
  /\ \A i, j \in Instances : Alive(i) /\ Alive(j) /\ i # j => shared[i]
  /\ \A i \in Instances : /\ pc[i] = "cleared" /\ ~shared[i] => path = NoSocket
                          /\ pc[i] = "bound" /\ ~shared[i] => path = i
  /\ ListenerReachable
  /\ RestartFindsAddressFree

Inv == TypeOK /\ Owned /\ Sequential

LEMMA InitInv == Init => Inv
<1> SUFFICES ASSUME Init PROVE Inv
  OBVIOUS
<1>1. TypeOK
  BY DEF Init, TypeOK, Running
<1>2. Owned
  BY NoSocketAssumption DEF Init, Owned
<1>3. Sequential
  BY DEF Init, Sequential, Alive, Running, ListenerReachable, RestartFindsAddressFree
<1> QED
  BY <1>1, <1>2, <1>3 DEF Inv

LEMMA TypeStep == TypeOK /\ Owned /\ [Next]_vars => TypeOK' /\ Owned'
<1> SUFFICES ASSUME TypeOK, Owned, [Next]_vars PROVE TypeOK' /\ Owned'
  OBVIOUS
<1> USE NoSocketAssumption DEF TypeOK, Owned, Running, Alive
<1>1. ASSUME NEW i \in Instances, Launch(i) \/ Signal(i) \/ Kill(i) PROVE TypeOK' /\ Owned'
  <2>1. CASE Launch(i)
    BY <2>1 DEF Launch
  <2>2. CASE Signal(i)
    BY ZenonT(30), <2>2 DEF Signal
  <2>3. CASE Kill(i)
    BY <2>3 DEF Kill
  <2> QED
    BY <1>1, <2>1, <2>2, <2>3
<1>2. ASSUME NEW i \in Instances, Main(i) PROVE TypeOK' /\ Owned'
  <2>1. CASE Start(i)
    BY <2>1 DEF Start
  <2>2. CASE RemoveStale(i)
    BY <2>2 DEF RemoveStale
  <2>3. CASE Bind(i)
    <3>1. CASE pc' = [pc EXCEPT ![i] = "bound"]
      BY <2>3, <3>1 DEF Bind
    <3>2. CASE pc' = [pc EXCEPT ![i] = "exited"]
      BY ZenonT(30), <2>3, <3>2 DEF Bind
    <3> QED
      BY <2>3, <3>1, <3>2 DEF Bind
  <2>4. CASE Listen(i)
    BY <2>4 DEF Listen
  <2>5. CASE RunReturns(i)
    BY <2>5 DEF RunReturns
  <2>6. CASE Cleanup(i)
    BY <2>6 DEF Cleanup
  <2> QED
    BY <1>2, <2>1, <2>2, <2>3, <2>4, <2>5, <2>6 DEF Main
<1>3. ASSUME NEW i \in Instances, Closer(i) PROVE TypeOK' /\ Owned'
  <2>1. CASE SignalReceived(i)
    BY <1>3, <2>1 DEF SignalReceived
  <2>2. CASE ListenerClosed(i)
    BY <1>3, <2>2 DEF ListenerClosed
  <2> QED
    BY <1>3, <2>1, <2>2 DEF Closer
<1>4. CASE UNCHANGED vars
  BY <1>4 DEF vars
<1> QED
  BY <1>1, <1>2, <1>3, <1>4 DEF Next

LEMMA SequentialStep == TypeOK /\ Owned /\ Sequential /\ [Next]_vars => Sequential'
<1> SUFFICES ASSUME TypeOK, Owned, Sequential, [Next]_vars PROVE Sequential'
  OBVIOUS
<1> USE NoSocketAssumption DEF TypeOK, Owned, Running, Alive, Sequential, ListenerReachable,
        RestartFindsAddressFree
<1>1. ASSUME NEW i \in Instances, Launch(i) \/ Signal(i) \/ Kill(i) PROVE Sequential'
  <2>1. CASE Launch(i)
    BY ZenonT(30), <2>1 DEF Launch
  <2>2. CASE Signal(i)
    BY <2>2 DEF Signal
  <2>3. CASE Kill(i)
    BY <2>3 DEF Kill
  <2> QED
    BY <1>1, <2>1, <2>2, <2>3
<1>2. ASSUME NEW i \in Instances, Main(i) PROVE Sequential'
  <2>1. CASE Start(i)
    BY <2>1 DEF Start
  <2>2. CASE RemoveStale(i)
    BY <2>2 DEF RemoveStale
  <2>3. CASE Bind(i)
    <3>1. CASE path = NoSocket /\ path' = i /\ pc' = [pc EXCEPT ![i] = "bound"]
               /\ UNCHANGED <<closer, inUse, sigCh, stop, shared>>
      BY <2>3, <3>1 DEF Bind
    <3>2. CASE pc' = [pc EXCEPT ![i] = "exited"] /\ inUse' = [inUse EXCEPT ![i] = path # NoSocket]
               /\ UNCHANGED <<closer, path, sigCh, stop, shared>>
      <4>1. pc[i] = "cleared"
        BY <2>3 DEF Bind
      <4>2. \A j \in Instances : j # i => pc'[j] = pc[j] /\ inUse'[j] = inUse[j]
        BY <3>2
      <4>3. ~shared[i] => inUse'[i] = FALSE
        BY <3>2, <4>1
      <4> QED
        BY <3>2, <4>1, <4>2, <4>3
    <3> QED
      BY <2>3, <3>1, <3>2 DEF Bind
  <2>4. CASE Listen(i)
    BY <2>4 DEF Listen
  <2>5. CASE RunReturns(i)
    BY <2>5 DEF RunReturns
  <2>6. CASE Cleanup(i)
    BY <2>6 DEF Cleanup
  <2> QED
    BY SMTT(30), <1>2, <2>1, <2>2, <2>3, <2>4, <2>5, <2>6 DEF Main
<1>3. ASSUME NEW i \in Instances, Closer(i) PROVE Sequential'
  <2>1. CASE SignalReceived(i)
    BY <1>3, <2>1 DEF SignalReceived
  <2>2. CASE ListenerClosed(i)
    BY <1>3, <2>2 DEF ListenerClosed
  <2> QED
    BY <1>3, <2>1, <2>2 DEF Closer
<1>4. CASE UNCHANGED vars
  BY <1>4 DEF vars
<1> QED
  BY <1>1, <1>2, <1>3, <1>4 DEF Next

(* The inductive invariant holds in every reachable state of the daemon. *)
THEOREM Invariance == Spec => []Inv
<1>1. Inv /\ [Next]_vars => Inv'
  BY TypeStep, SequentialStep DEF Inv
<1> QED
  BY <1>1, InitInv, PTL DEF Spec

(* main and its signal goroutine keep step, and the variables their types. *)
THEOREM TypeCorrect == Spec => []TypeOK
<1>1. Inv => TypeOK
  BY DEF Inv
<1> QED
  BY <1>1, Invariance, PTL

(* A socket file nobody listens behind was left by an instance that was    *)
(* killed, or whose net.Listen has not, or not successfully, returned.     *)
THEOREM NoSocketOutlivesItsListener == Spec => []NoDeadSocket
<1>1. Inv => NoDeadSocket
  BY DEF Inv, Owned, NoDeadSocket, Listening
<1> QED
  BY <1>1, Invariance, PTL

(* An instance that runs alone and listens can be reached. *)
THEOREM Reachable == Spec => []ListenerReachable
<1>1. Inv => ListenerReachable
  BY DEF Inv, Sequential
<1> QED
  BY <1>1, Invariance, PTL

(* No instance that runs alone fails on the file of one before it. *)
THEOREM RestartSucceeds == Spec => []RestartFindsAddressFree
<1>1. Inv => RestartFindsAddressFree
  BY DEF Inv, Sequential
<1> QED
  BY <1>1, Invariance, PTL

=============================================================================
