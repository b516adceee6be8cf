-------------------------------- MODULE Proxy -------------------------------
(***************************************************************************)
(* virtinjectd's accept loop, its per-connection handler and the two       *)
(* goroutines that relay each connection (virtinjectd/proxy.go), together  *)
(* with the parts of the kernel, of the clients and of libvirtd they meet: *)
(* stream sockets with a bounded send queue, and peers that send, read and *)
(* hang up whenever they like.                                             *)
(*                                                                         *)
(* The goroutine that runs forward(src, dst) is named after its source:    *)
(* "client" is the client-to-server direction, the one that intercepts,    *)
(* and "upstream" the server-to-client direction.                          *)
(***************************************************************************)
EXTENDS Protocol, Sequences

CONSTANTS
  Conns,    \* the client connections
  Sends,    \* Sends[e]: the messages endpoint e may send
  Chain,    \* Chain[x]: the documents HookChain.Run may return for x
  NoMsg,    \* a goroutine that holds no message
  MaxSent,  \* bound: messages an endpoint sends on one connection
  SockCap   \* messages a socket queues before a write to it blocks

ASSUME SendsAssumption == Sends \in [Ends -> SUBSET Message]
ASSUME ChainAssumption == Chain \in [XML -> SUBSET XML]
(* The chain may leave the document alone: a failing hook, a silent hook,  *)
(* a hook directory that cannot be listed.                                 *)
ASSUME ChainMayKeep == \A x \in XML : x \in Chain[x]
ASSUME NoMsgAssumption == NoMsg \notin Message
ASSUME BoundsAssumption == MaxSent \in Nat /\ SockCap \in Nat \ {0}

VARIABLES
  run,      \* the process: "serving", "closing" (listener closed), "exited"
  handler,  \* handler[c]: where handleConnection(c) is
  pc,       \* pc[c][e]: where the goroutine reading from e is
  held,     \* held[c][e]: the message that goroutine is processing
  err,      \* err[c][e]: the error that ended its forward loop
  nread,    \* nread[c][e]: messages of e the proxy has read
  open,     \* open[c][e]: the proxy's end of the socket to e is open
  sent,     \* sent[c][e]: messages peer e has written
  got,      \* got[c][e]: messages the proxy has written to peer e
  taken,    \* taken[c][e]: how many of got[c][e] the peer has read
  peer      \* peer[c][e]: peer e's end: "open", or how it was closed

goroutines == <<pc, held, err, nread>>
sockets    == <<open, sent, got, taken, peer>>
vars       == <<run, handler, pc, held, err, nread, open, sent, got, taken, peer>>

Causes == {"EOF", "UnexpectedEOF", "ECONNRESET", "EPIPE", "ErrClosed", "BadLength"}

TypeOK ==
  /\ run \in {"serving", "closing", "exited"}
  /\ handler \in [Conns -> {"none", "queued", "dialing", "waiting",
                            "done", "refused", "killed"}]
  /\ pc \in [Conns -> [Ends -> {"off", "read", "hooks", "write",
                                "closeClient", "closeUpstream", "done"}]]
  /\ held \in [Conns -> [Ends -> Message \cup {NoMsg}]]
  /\ err \in [Conns -> [Ends -> Causes \cup {"none"}]]
  /\ nread \in [Conns -> [Ends -> Nat]]
  /\ open \in [Conns -> [Ends -> BOOLEAN]]
  /\ sent \in [Conns -> [Ends -> Seq(Message)]]
  /\ got \in [Conns -> [Ends -> Seq(Message)]]
  /\ taken \in [Conns -> [Ends -> Nat]]
  /\ peer \in [Conns -> [Ends -> {"absent", "open", "eof", "partial", "reset"}]]

PerEnd(v) == [c \in Conns |-> [e \in Ends |-> v]]

Init ==
  /\ run = "serving"
  /\ handler = [c \in Conns |-> "none"]
  /\ pc = PerEnd("off")
  /\ held = PerEnd(NoMsg)
  /\ err = PerEnd("none")
  /\ nread = PerEnd(0)
  /\ open = PerEnd(FALSE)
  /\ sent = PerEnd(<<>>)
  /\ got = PerEnd(<<>>)
  /\ taken = PerEnd(0)
  /\ peer = PerEnd("absent")

-----------------------------------------------------------------------------
(* The peers: a libvirt client and libvirtd. *)

(* A client connects; the connection waits in the listener's queue. *)
ClientConnects(c) ==
  /\ run = "serving"
  /\ handler[c] = "none"
  /\ handler' = [handler EXCEPT ![c] = "queued"]
  /\ open' = [open EXCEPT ![c]["client"] = TRUE]
  /\ peer' = [peer EXCEPT ![c]["client"] = "open"]
  /\ UNCHANGED <<run, goroutines, sent, got, taken>>

PeerSends(c, e) ==
  /\ peer[c][e] = "open"
  /\ open[c][e]
  /\ Len(sent[c][e]) < MaxSent
  /\ \E m \in Sends[e] : sent' = [sent EXCEPT ![c][e] = Append(@, m)]
  /\ UNCHANGED <<run, handler, goroutines, open, got, taken, peer>>

PeerReads(c, e) ==
  /\ peer[c][e] = "open"
  /\ taken[c][e] < Len(got[c][e])
  /\ taken' = [taken EXCEPT ![c][e] = @ + 1]
  /\ UNCHANGED <<run, handler, goroutines, open, sent, got, peer>>

(***************************************************************************)
(* A peer hangs up.  With data it has not read the kernel reports a reset  *)
(* to the other side; otherwise the other side sees the end of the stream, *)
(* on a message boundary ("eof") or within a message ("partial").          *)
(***************************************************************************)
PeerCloses(c, e) ==
  /\ peer[c][e] = "open"
  /\ \E how \in IF taken[c][e] < Len(got[c][e]) THEN {"reset"} ELSE {"eof", "partial"} :
       peer' = [peer EXCEPT ![c][e] = how]
  /\ UNCHANGED <<run, handler, goroutines, open, sent, got, taken>>

-----------------------------------------------------------------------------
(* Run: the accept loop. *)

Accept(c) ==
  /\ run = "serving"
  /\ handler[c] = "queued"
  /\ handler' = [handler EXCEPT ![c] = "dialing"]
  /\ UNCHANGED <<run, goroutines, sockets>>

(* The signal goroutine closes the listener; the queue is reset with it. *)
CloseListener ==
  /\ run = "serving"
  /\ run' = "closing"
  /\ handler' = [c \in Conns |-> IF handler[c] = "queued" THEN "refused" ELSE handler[c]]
  /\ open' = [c \in Conns |-> IF handler[c] = "queued" THEN [e \in Ends |-> FALSE]
                                                       ELSE open[c]]
  /\ UNCHANGED <<goroutines, sent, got, taken, peer>>

(***************************************************************************)
(* Accept fails, Run and then main return.  Nobody waits for the handlers: *)
(* the exit ends every goroutine where it stands and closes every socket.  *)
(***************************************************************************)
RunReturns ==
  /\ run = "closing"
  /\ run' = "exited"
  /\ handler' = [c \in Conns |-> IF handler[c] \in {"dialing", "waiting"}
                                 THEN "killed" ELSE handler[c]]
  /\ pc' = [c \in Conns |-> [e \in Ends |-> IF pc[c][e] = "off" THEN "off" ELSE "done"]]
  /\ held' = PerEnd(NoMsg)
  /\ open' = PerEnd(FALSE)
  /\ UNCHANGED <<err, nread, sent, got, taken, peer>>

-----------------------------------------------------------------------------
(* handleConnection. *)

(* net.Dial succeeds and both goroutines start. *)
DialSucceeds(c) ==
  /\ handler[c] = "dialing"
  /\ handler' = [handler EXCEPT ![c] = "waiting"]
  /\ open' = [open EXCEPT ![c]["upstream"] = TRUE]
  /\ peer' = [peer EXCEPT ![c]["upstream"] = "open"]
  /\ pc' = [pc EXCEPT ![c] = [e \in Ends |-> "read"]]
  /\ UNCHANGED <<run, held, err, nread, sent, got, taken>>

(* Mutant: the client socket is closed only once the dial has succeeded. *)
DialFails_keepsClient(c) ==
  /\ handler[c] = "dialing"
  /\ handler' = [handler EXCEPT ![c] = "done"]
  /\ UNCHANGED <<run, goroutines, sockets>>

(* net.Dial fails: the deferred Close of the client connection runs. *)
DialFails(c) ==
  /\ handler[c] = "dialing"
  /\ handler' = [handler EXCEPT ![c] = "done"]
  /\ open' = [open EXCEPT ![c]["client"] = FALSE]
  /\ UNCHANGED <<run, goroutines, sent, got, taken, peer>>

(* wg.Wait returns, then both deferred Closes run. *)
HandlerReturns(c) ==
  /\ handler[c] = "waiting"
  /\ \A e \in Ends : pc[c][e] = "done"
  /\ handler' = [handler EXCEPT ![c] = "done"]
  /\ open' = [open EXCEPT ![c] = [e \in Ends |-> FALSE]]
  /\ UNCHANGED <<run, goroutines, sent, got, taken, peer>>

-----------------------------------------------------------------------------
(* forward: read a message, process it, write it; stop at the first error. *)

(* Mutant: the end of the stream is reported ahead of the data before it. *)
ReadErrors_endFirst(c, e) ==
  IF ~open[c][e] THEN {"ErrClosed"}
  ELSE CASE peer[c][e] \in {"eof", "partial"} -> {"EOF"}
         [] peer[c][e] = "reset"              -> {"ECONNRESET"}
         [] OTHER                             -> {}

(* What a read by the goroutine of e may fail with; empty when it cannot. *)
ReadErrors(c, e) ==
  IF ~open[c][e] THEN {"ErrClosed"}
  ELSE IF nread[c][e] < Len(sent[c][e])
  THEN IF WellFramed(sent[c][e][nread[c][e] + 1]) THEN {} ELSE {"BadLength"}
  ELSE CASE peer[c][e] = "eof"     -> {"EOF"}
         [] peer[c][e] = "partial" -> {"EOF", "UnexpectedEOF"}
         [] peer[c][e] = "reset"   -> {"ECONNRESET"}
         [] OTHER                  -> {}

(* Mutant: a write does not notice that the other goroutine closed the socket. *)
WriteErrors_afterClose(c, d) ==
  IF peer[c][d] \in {"eof", "partial", "reset"} THEN {"EPIPE"} ELSE {}

(* What a write to d may fail with; empty when it can only succeed or block. *)
WriteErrors(c, d) ==
  IF ~open[c][d] THEN {"ErrClosed"}
  ELSE CASE peer[c][d] \in {"eof", "partial"} -> {"EPIPE"}
         [] peer[c][d] = "reset"              -> {"EPIPE", "ECONNRESET"}
         [] OTHER                             -> {}

(* Mutant: replies and events of the define procedures are patched as well. *)
Intercepted_anyType(e, m) ==
  /\ m.header.Procedure \in {ProcDomainDefineXML, ProcDomainDefineXMLFlags}
  /\ m.xml # NoXML

(* intercept decodes a document and hands it to the hook chain. *)
Intercepted(e, m) == e = "client" /\ IsDomainDefineCall(m.header) /\ m.xml # NoXML

(* Mutant: the next message is read while the last one waits to be written. *)
ReadMessage_readsAhead(c, e) ==
  /\ pc[c][e] \in {"read", "write"}
  /\ ReadErrors(c, e) = {}
  /\ nread[c][e] < Len(sent[c][e])
  /\ LET m == sent[c][e][nread[c][e] + 1] IN
       /\ held' = [held EXCEPT ![c][e] = m]
       /\ pc' = [pc EXCEPT ![c][e] = IF Intercepted(e, m) THEN "hooks" ELSE "write"]
  /\ nread' = [nread EXCEPT ![c][e] = @ + 1]
  /\ UNCHANGED <<run, handler, err, sockets>>

(* Mutant: a message is taken only when another one follows it. *)
ReadMessage_waitsForMore(c, e) ==
  /\ pc[c][e] = "read"
  /\ ReadErrors(c, e) = {}
  /\ nread[c][e] + 1 < Len(sent[c][e])
  /\ LET m == sent[c][e][nread[c][e] + 1] IN
       /\ held' = [held EXCEPT ![c][e] = m]
       /\ pc' = [pc EXCEPT ![c][e] = IF Intercepted(e, m) THEN "hooks" ELSE "write"]
  /\ nread' = [nread EXCEPT ![c][e] = @ + 1]
  /\ UNCHANGED <<run, handler, err, sockets>>

ReadMessage(c, e) ==
  /\ pc[c][e] = "read"
  /\ ReadErrors(c, e) = {}
  /\ nread[c][e] < Len(sent[c][e])
  /\ LET m == sent[c][e][nread[c][e] + 1] IN
       /\ held' = [held EXCEPT ![c][e] = m]
       /\ pc' = [pc EXCEPT ![c][e] = IF Intercepted(e, m) THEN "hooks" ELSE "write"]
  /\ nread' = [nread EXCEPT ![c][e] = @ + 1]
  /\ UNCHANGED <<run, handler, err, sockets>>

(* Mutant: a hook chain that changes nothing ends the connection. *)
PatchDefineXML_givesUp(c, e) ==
  /\ pc[c][e] = "hooks"
  /\ \E y \in Chain[held[c][e].xml] :
       IF y = held[c][e].xml
       THEN /\ held' = [held EXCEPT ![c][e] = NoMsg]
            /\ pc' = [pc EXCEPT ![c][e] = "closeClient"]
       ELSE /\ held' = [held EXCEPT ![c][e] = ReplaceXDRString(@, y)]
            /\ pc' = [pc EXCEPT ![c][e] = "write"]
  /\ UNCHANGED <<run, handler, err, nread, sockets>>

(* hooks.Run returns; the payload is re-encoded around its result. *)
PatchDefineXML(c, e) ==
  /\ pc[c][e] = "hooks"
  /\ \E y \in Chain[held[c][e].xml] :
       held' = [held EXCEPT ![c][e] = ReplaceXDRString(@, y)]
  /\ pc' = [pc EXCEPT ![c][e] = "write"]
  /\ UNCHANGED <<run, handler, err, nread, sockets>>

(* The write blocks while the destination's queue is full. *)
WriteMessage(c, e) ==
  LET d == Other(e) IN
  /\ pc[c][e] = "write"
  /\ WriteErrors(c, d) = {}
  /\ Len(got[c][d]) - taken[c][d] < SockCap
  /\ got' = [got EXCEPT ![c][d] = Append(@, held[c][e])]
  /\ held' = [held EXCEPT ![c][e] = NoMsg]
  /\ pc' = [pc EXCEPT ![c][e] = "read"]
  /\ UNCHANGED <<run, handler, err, nread, open, sent, taken, peer>>

(* forward returns an error. *)
ForwardFails(c, e) ==
  /\ \E x \in CASE pc[c][e] = "read"  -> ReadErrors(c, e)
              [] pc[c][e] = "write" -> WriteErrors(c, Other(e))
              [] OTHER              -> {} :
       err' = [err EXCEPT ![c][e] = x]
  /\ held' = [held EXCEPT ![c][e] = NoMsg]
  /\ pc' = [pc EXCEPT ![c][e] = "closeClient"]
  /\ UNCHANGED <<run, handler, nread, sockets>>

CloseClient(c, e) ==
  /\ pc[c][e] = "closeClient"
  /\ open' = [open EXCEPT ![c]["client"] = FALSE]
  /\ pc' = [pc EXCEPT ![c][e] = "closeUpstream"]
  /\ UNCHANGED <<run, handler, held, err, nread, sent, got, taken, peer>>

(* Mutant: only the client socket is closed. *)
CloseUpstream_forgotten(c, e) ==
  /\ pc[c][e] = "closeUpstream"
  /\ pc' = [pc EXCEPT ![c][e] = "done"]
  /\ UNCHANGED <<run, handler, held, err, nread, sockets>>

(* The second Close, and the deferred wg.Done. *)
CloseUpstream(c, e) ==
  /\ pc[c][e] = "closeUpstream"
  /\ open' = [open EXCEPT ![c]["upstream"] = FALSE]
  /\ pc' = [pc EXCEPT ![c][e] = "done"]
  /\ UNCHANGED <<run, handler, held, err, nread, sent, got, taken, peer>>

Forward(c, e) ==
  \/ ReadMessage(c, e)
  \/ PatchDefineXML(c, e)
  \/ WriteMessage(c, e)
  \/ ForwardFails(c, e)
  \/ CloseClient(c, e)
  \/ CloseUpstream(c, e)

(***************************************************************************)
(* isConnectionClosed compares the error itself with io.EOF and            *)
(* net.ErrClosed, and its text with two phrases.  wrapped is an error that *)
(* fmt.Errorf or net.OpError holds inside another.                         *)
(***************************************************************************)
isConnectionClosed(wrapped, cause) ==
  \/ ~wrapped /\ cause \in {"EOF", "ErrClosed"}
  \/ cause \in {"ErrClosed", "ECONNRESET"}

(* ReadMessage and WriteMessage wrap every error they return. *)
ErrorLogged(c, e) == err[c][e] # "none" /\ ~isConnectionClosed(TRUE, err[c][e])

-----------------------------------------------------------------------------
Peer(c, e) == PeerSends(c, e) \/ PeerReads(c, e) \/ PeerCloses(c, e)

Dial(c) == DialSucceeds(c) \/ DialFails(c)

Next ==
  \/ CloseListener
  \/ RunReturns
  \/ \E c \in Conns : ClientConnects(c) \/ Accept(c) \/ Dial(c) \/ HandlerReturns(c)
  \/ \E c \in Conns, e \in Ends : Peer(c, e) \/ Forward(c, e)

Spec == Init /\ [][Next]_vars

(***************************************************************************)
(* The Go scheduler runs every runnable goroutine, and the hook chain      *)
(* returns (module HookChain).  Nothing makes a peer send, read or hang    *)
(* up, or an operator stop the daemon.                                     *)
(***************************************************************************)
Fairness ==
  /\ WF_vars(RunReturns)
  /\ \A c \in Conns :
       WF_vars(Accept(c)) /\ WF_vars(Dial(c)) /\ WF_vars(HandlerReturns(c))
  /\ \A c \in Conns, e \in Ends : WF_vars(Forward(c, e))

FairSpec == Spec /\ Fairness

-----------------------------------------------------------------------------
(* What the proxy promises; R is the abstract relay it implements. *)

(* The peer at e does not leave its socket unread for ever. *)
KeepsReading(c, e) == WF_vars(PeerReads(c, e))

(* The proxy is finished with the connection. *)
Ended(c) == handler[c] \in {"done", "refused", "killed"}

(* The proxy has had an end towards e, and has closed it. *)
Shut(c, e) == Ended(c) \/ (handler[c] = "waiting" /\ ~open[c][e])

R == INSTANCE Relay WITH shut <- [c \in Conns |-> [e \in Ends |-> Shut(c, e)]]

(***************************************************************************)
(* The proxy implements the relay: on every connection, whatever the peers *)
(* do and whenever the daemon stops, each side is handed a prefix of what  *)
(* the other sent, in order, with only the document of a define call       *)
(* replaced, and nothing after its socket was closed.                      *)
(***************************************************************************)
ImplementsRelay == R!Spec

(***************************************************************************)
(* The i-th message handed to one side is the i-th message of the other,   *)
(* in a form forward() may give it: a slow hook never lets a later message *)
(* overtake, and a document never lands in another call or connection.     *)
(***************************************************************************)
ForwardedInOrder ==
  \A c \in Conns, e \in Ends : \A i \in 1..Len(got[c][Other(e)]) :
     /\ i <= Len(sent[c][e])
     /\ got[c][Other(e)][i] \in R!Forwarded(e, sent[c][e][i])

(***************************************************************************)
(* A goroutine has at most one message in hand (forward() reads the next   *)
(* only after writing the last), so a peer that stops reading is felt by   *)
(* the other side instead of growing the proxy.                            *)
(***************************************************************************)
OneInHand ==
  \A c \in Conns, e \in Ends :
     nread[c][e] - Len(got[c][Other(e)]) \in {0, 1}

(***************************************************************************)
(* A direction that ends because its source reached the end of its stream  *)
(* has handed over everything the source sent before: the end of a stream  *)
(* never overtakes its data.                                               *)
(***************************************************************************)
EndOfStreamLast ==
  \A c \in Conns, e \in Ends :
     err[c][e] \in {"EOF", "UnexpectedEOF"}
        => Len(got[c][Other(e)]) = Len(sent[c][e])

(***************************************************************************)
(* The proxy hangs up on a relayed connection only because a peer hung up, *)
(* a message was misframed, or the process exits; never because a hook or  *)
(* a decoder failed (the comment at proxy.go:89-91).                       *)
(***************************************************************************)
HangupHasCause ==
  \A c \in Conns :
     /\ \E e \in Ends : pc[c][e] \in {"closeClient", "closeUpstream", "done"}
     /\ run # "exited"
     => \E e \in Ends : peer[c][e] # "open" \/ err[c][e] = "BadLength"

(***************************************************************************)
(* When handleConnection is over neither socket nor goroutine is left.     *)
(***************************************************************************)
NothingLeaked ==
  \A c \in Conns : Ended(c) =>
     \A e \in Ends : ~open[c][e] /\ pc[c][e] \in {"off", "done"}

(***************************************************************************)
(* Once a peer hangs up, the whole connection is eventually taken down, if *)
(* the other one reads what was sent before: closing both sockets releases *)
(* a goroutine blocked in a read or a write.                               *)
(***************************************************************************)
HangupEndsConnection ==
  \A c \in Conns, e \in Ends :
     KeepsReading(c, Other(e)) =>
       (peer[c][e] \in {"eof", "partial", "reset"} ~> Ended(c))

(***************************************************************************)
(* Every message sent to a peer that reads is eventually handed over,      *)
(* unless the connection is taken down first, whether the sender reads its *)
(* own end or not: no direction stalls on the other (proxy.go:97-124).     *)
(***************************************************************************)
SentIsForwarded ==
  \A c \in Conns, e \in Ends :
     KeepsReading(c, Other(e)) =>
       \A i \in 1..MaxSent :
          Len(sent[c][e]) >= i ~> (Len(got[c][Other(e)]) >= i \/ Ended(c))

(***************************************************************************)
(* "bidirectionally forwards all traffic between the client and upstream"  *)
(* (proxy.go:42-43): a connection the proxy took down while the client was *)
(* still there has handed the client every reply libvirtd had sent.        *)
(***************************************************************************)
RepliesForwarded ==
  \A c \in Conns :
     handler[c] = "done" /\ peer[c]["client"] = "open"
        => Len(got[c]["client"]) = Len(sent[c]["upstream"])

(***************************************************************************)
(* "Only log if it's not a normal connection close." (proxy.go:100): a     *)
(* peer that hangs up on a message boundary is not reported as an error.   *)
(***************************************************************************)
NormalCloseNotLogged ==
  \A c \in Conns, e \in Ends :
     err[c][e] = "EOF" /\ peer[c][e] = "eof" => ~ErrorLogged(c, e)

=============================================================================
