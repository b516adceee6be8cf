----------------------------- MODULE ProxyProofs ----------------------------
(***************************************************************************)
(* Proofs about module Proxy, for any number of connections, any messages  *)
(* and any socket capacity.                                                *)
(*                                                                         *)
(* Inv is the inductive invariant.  It is a conjunction over connections,  *)
(* because the goroutines of one connection touch nothing of another, and  *)
(* within a connection over the two directions.  ForwardedInOrder says     *)
(* nothing of the message a goroutine has in hand, so Direction adds where *)
(* that message comes from and how many were read.  HangupHasCause needs   *)
(* to know that a socket is closed only by a goroutine on its way out, and *)
(* NothingLeaked that goroutines exist only after the dial: both are in    *)
(* Lifetime.                                                               *)
(***************************************************************************)
EXTENDS Proxy, TLAPS

Busy    == {"read", "hooks", "write"}
Leaving == {"closeClient", "closeUpstream", "done"}
HungUp  == {"eof", "partial", "reset"}

(* What was written for the messages of e is what Relay allows for them. *)
Relayed(c, e) ==
  \A i \in 1..Len(got[c][Other(e)]) : got[c][Other(e)][i] \in R!Forwarded(e, sent[c][e][i])

(* What is about to be written is what Relay allows for the last message read. *)
Relayable(c, e) == held[c][e] \in R!Forwarded(e, sent[c][e][nread[c][e]])

(* What the goroutine that reads from e has read, has in hand, has written. *)
Direction(c, e) ==
  LET out == got[c][Other(e)] IN
  /\ Len(out) <= nread[c][e]
  /\ nread[c][e] <= Len(out) + 1
  /\ nread[c][e] <= Len(sent[c][e])
  /\ pc[c][e] \in {"off", "read"} => nread[c][e] = Len(out)
  /\ pc[c][e] \in {"hooks", "write"} =>
       nread[c][e] = Len(out) + 1 /\ held[c][e] \in Message
  /\ pc[c][e] = "hooks" =>
       held[c][e] = sent[c][e][nread[c][e]] /\ Intercepted(e, held[c][e])
  /\ pc[c][e] = "write" => Relayable(c, e)
  /\ Relayed(c, e)
  /\ err[c][e] # "none" => pc[c][e] \in Leaving
  /\ err[c][e] \in {"EOF", "UnexpectedEOF"} =>
       peer[c][e] \in HungUp /\ Len(out) = Len(sent[c][e])

(* A peer hung up, or a message was misframed. *)
HasCause(c) == \E e \in Ends : peer[c][e] # "open" \/ err[c][e] = "BadLength"

(* How far the handler, its goroutines and its sockets have come. *)
Lifetime(c) ==
  /\ handler[c] \in {"none", "queued", "dialing", "refused"} =>
       (\A e \in Ends : pc[c][e] = "off") /\ ~open[c]["upstream"]
  /\ handler[c] \in {"none", "refused"} => ~open[c]["client"]
  /\ handler[c] = "queued" => run = "serving"
  /\ handler[c] \in {"queued", "dialing"} =>
       open[c]["client"] /\ peer[c]["client"] # "absent"
  /\ handler[c] = "waiting" => \A e \in Ends : pc[c][e] # "off" /\ peer[c][e] # "absent"
  /\ Ended(c) => \A e \in Ends : ~open[c][e] /\ pc[c][e] \in {"off", "done"}
  /\ handler[c] = "waiting" /\ (\E e \in Ends : ~open[c][e]) =>
       \E f \in Ends : pc[c][f] \in {"closeUpstream", "done"}
  /\ run # "exited" /\ (\E e \in Ends : pc[c][e] \in Leaving) => HasCause(c)

Inv == /\ TypeOK
       /\ \A c \in Conns : Lifetime(c)
       /\ \A c \in Conns, e \in Ends : Direction(c, e)

-----------------------------------------------------------------------------
(* Facts about the operators of Protocol and Relay. *)

(* The endpoint opposite to an endpoint. *)
LEMMA OtherEnd ==
  /\ "client" \in Ends /\ "upstream" \in Ends
  /\ \A e \in Ends : Other(e) \in Ends /\ Other(Other(e)) = e /\ Other(e) # e
  /\ \A e, f \in Ends : Other(e) = Other(f) => e = f
  /\ \A e, f \in Ends : f # e => f = Other(e)
BY DEF Ends, Other

(* Replacing the document of a message yields a message. *)
LEMMA ReplaceType ==
  ASSUME NEW m \in Message, NEW y \in XML
  PROVE  ReplaceXDRString(m, y) \in Message
BY DEF Message, ReplaceXDRString

(* The relay reads headers and replaces documents as the proxy does. *)
LEMMA SameProtocol ==
  /\ \A h : R!IsDomainDefineCall(h) <=> IsDomainDefineCall(h)
  /\ \A m, y : R!ReplaceXDRString(m, y) = ReplaceXDRString(m, y)
  /\ R!Ends = Ends
  /\ \A e : R!Other(e) = Other(e)
BY DEF R!IsDomainDefineCall, IsDomainDefineCall, R!RemoteProgram, RemoteProgram,
       R!RemoteProtocolVersion, RemoteProtocolVersion, R!TypeCall, TypeCall,
       R!ProcDomainDefineXML, ProcDomainDefineXML,
       R!ProcDomainDefineXMLFlags, ProcDomainDefineXMLFlags,
       R!ReplaceXDRString, ReplaceXDRString, R!Ends, Ends, R!Other, Other

(* A message that is not intercepted may be forwarded as it is. *)
LEMMA ForwardedAsIs ==
  ASSUME NEW e \in Ends, NEW m \in Message, ~Intercepted(e, m)
  PROVE  m \in R!Forwarded(e, m)
BY SameProtocol DEF R!Forwarded, Intercepted

(* An intercepted message may be forwarded with a document of the chain. *)
LEMMA ForwardedPatched ==
  ASSUME NEW e \in Ends, NEW m \in Message, Intercepted(e, m), NEW y \in Chain[m.xml]
  PROVE  /\ y \in XML
         /\ ReplaceXDRString(m, y) \in Message
         /\ ReplaceXDRString(m, y) \in R!Forwarded(e, m)
<1>1. m.xml \in XML
  BY DEF Message, Intercepted
<1>2. y \in XML
  BY <1>1, ChainAssumption
<1> QED
  BY <1>2, ReplaceType, SameProtocol DEF R!Forwarded, Intercepted

-----------------------------------------------------------------------------
(* Steps that leave a connection, or a direction of it, alone. *)

(* Relayed(c, e) depends on these values only. *)
LEMMA RelayedFrame ==
  ASSUME NEW c \in Conns, NEW e \in Ends, Relayed(c, e),
         sent'[c][e] = sent[c][e], got'[c][Other(e)] = got[c][Other(e)]
  PROVE  Relayed(c, e)'
BY DEF Relayed

(* Direction(c, e) depends on these values only. *)
LEMMA DirectionFrame ==
  ASSUME NEW c \in Conns, NEW e \in Ends, Direction(c, e),
         pc'[c][e] = pc[c][e], held'[c][e] = held[c][e], err'[c][e] = err[c][e],
         nread'[c][e] = nread[c][e], sent'[c][e] = sent[c][e],
         got'[c][Other(e)] = got[c][Other(e)],
         \/ peer'[c][e] = peer[c][e]
         \/ peer'[c][e] \in HungUp
         \/ err[c][e] = "none"
  PROVE  Direction(c, e)'
<1>1. Relayed(c, e)'
  BY SMTT(30), RelayedFrame DEF Direction
<1>2. pc'[c][e] = "write" => Relayable(c, e)'
  BY DEF Direction, Relayable
<1> QED
  BY SMTT(30), <1>1, <1>2 DEF Direction

(* Lifetime(c) depends on these values only. *)
LEMMA LifetimeFrame ==
  ASSUME NEW c \in Conns, Lifetime(c),
         handler'[c] = handler[c], pc'[c] = pc[c], open'[c] = open[c],
         peer'[c] = peer[c], err'[c] = err[c],
         run' = run
  PROVE  Lifetime(c)'
BY DEF Lifetime, HasCause, Ended

(* A goroutine that moves on within its loop does not disturb Lifetime. *)
LEMMA LifetimeBusy ==
  ASSUME NEW c \in Conns, NEW e \in Ends, TypeOK, TypeOK', Lifetime(c),
         pc[c][e] \in Busy, pc'[c][e] \in Busy, pc'[c][Other(e)] = pc[c][Other(e)],
         handler'[c] = handler[c], open'[c] = open[c],
         peer'[c] = peer[c], err'[c] = err[c], run' = run
  PROVE  Lifetime(c)'
BY OtherEnd DEF Lifetime, HasCause, Ended, Ends, Busy, Leaving, Other

-----------------------------------------------------------------------------
(* Inv is inductive. *)

(* What remains to be shown of Lifetime for a handler that waits. *)
LEMMA LifetimeWaiting ==
  ASSUME NEW c \in Conns, handler'[c] = "waiting",
         \A e \in Ends : pc'[c][e] # "off" /\ peer'[c][e] # "absent",
         (\E e \in Ends : ~open'[c][e]) =>
            \E f \in Ends : pc'[c][f] \in {"closeUpstream", "done"},
         run' # "exited" => HasCause(c)'
  PROVE  Lifetime(c)'
BY DEF Lifetime, Ended

(* The initial states satisfy the inductive invariant. *)
LEMMA InitInv == Init => Inv
<1> SUFFICES ASSUME Init PROVE Inv
  OBVIOUS
<1>1. TypeOK
  BY DEF Init, PerEnd, TypeOK
<1>2. \A c \in Conns : Lifetime(c)
  BY OtherEnd DEF Init, PerEnd, Lifetime, Ended, Leaving
<1>3. \A c \in Conns, e \in Ends : Direction(c, e)
  BY OtherEnd DEF Init, PerEnd, Direction, Relayed
<1> QED
  BY <1>1, <1>2, <1>3 DEF Inv

(* A client connects to an unused slot. *)
LEMMA ClientConnectsInv ==
  ASSUME Inv, NEW c \in Conns, ClientConnects(c)
  PROVE  Inv'
<1>1. TypeOK'
  BY SMTT(30), ZenonT(20), OtherEnd DEF Inv, TypeOK, ClientConnects, goroutines, sockets
<1>2. ASSUME NEW d \in Conns PROVE Lifetime(d)'
  <2>1. CASE d = c
    BY SMTT(30), <2>1, OtherEnd DEF Inv, TypeOK, ClientConnects, goroutines, Lifetime, Ended, Leaving
  <2>2. CASE d # c
    BY <2>2, LifetimeFrame DEF Inv, TypeOK, ClientConnects, goroutines
  <2> QED
    BY <2>1, <2>2
<1>3. ASSUME NEW d \in Conns, NEW e \in Ends PROVE Direction(d, e)'
  <2>1. pc[c][e] = "off"
    BY DEF Inv, ClientConnects, Lifetime
  <2>2. err[c][e] = "none"
    BY SMTT(30), <2>1 DEF Inv, Direction, Leaving
  <2> QED
    BY <2>2, DirectionFrame DEF Inv, TypeOK, ClientConnects, goroutines
<1> QED
  BY <1>1, <1>2, <1>3 DEF Inv

(* Accept hands the connection to a handler. *)
LEMMA AcceptInv ==
  ASSUME Inv, NEW c \in Conns, Accept(c)
  PROVE  Inv'
<1>1. TypeOK'
  BY SMTT(30), OtherEnd DEF Inv, TypeOK, Accept, goroutines, sockets
<1>2. ASSUME NEW d \in Conns PROVE Lifetime(d)'
  <2>1. CASE d = c
    BY SMTT(30), <2>1, OtherEnd DEF Inv, TypeOK, Accept, goroutines, sockets, Lifetime, Ended, Leaving
  <2>2. CASE d # c
    BY <2>2, LifetimeFrame DEF Inv, TypeOK, Accept, goroutines, sockets
  <2> QED
    BY <2>1, <2>2
<1>3. ASSUME NEW d \in Conns, NEW e \in Ends PROVE Direction(d, e)'
  BY DirectionFrame DEF Inv, Accept, goroutines, sockets
<1> QED
  BY <1>1, <1>2, <1>3 DEF Inv

(* The handler reaches libvirtd and starts its two goroutines. *)
LEMMA DialSucceedsInv ==
  ASSUME Inv, NEW c \in Conns, DialSucceeds(c)
  PROVE  Inv'
<1>1. TypeOK'
  BY SMTT(30), OtherEnd DEF Inv, TypeOK, DialSucceeds, goroutines, sockets
<1>2. ASSUME NEW d \in Conns PROVE Lifetime(d)'
  <2>1. CASE d = c
    <3>1. handler'[c] = "waiting" /\ \A e \in Ends : pc'[c][e] = "read"
      BY DEF Inv, TypeOK, DialSucceeds
    <3>2. \A e \in Ends : peer'[c][e] # "absent" /\ open'[c][e]
      BY SMTT(30), ZenonT(20) DEF Inv, TypeOK, DialSucceeds, Lifetime, Ends
    <3> QED
      BY <2>1, <3>1, <3>2 DEF Inv, TypeOK, DialSucceeds, Lifetime, Ended, Leaving
  <2>2. CASE d # c
    BY <2>2, LifetimeFrame DEF Inv, TypeOK, DialSucceeds
  <2> QED
    BY <2>1, <2>2
<1>3. ASSUME NEW d \in Conns, NEW e \in Ends PROVE Direction(d, e)'
  <2>1. CASE d = c
    <3>1. pc[c][e] = "off" /\ pc'[c][e] = "read"
      BY DEF Inv, TypeOK, DialSucceeds, Lifetime
    <3>2. err[c][e] = "none" /\ nread[c][e] = Len(got[c][Other(e)])
      BY SMTT(30), <3>1 DEF Inv, Direction, Leaving
    <3>3. Direction(c, e) /\ Relayed(c, e)'
      BY SMTT(30), RelayedFrame DEF Inv, DialSucceeds, Direction
    <3> QED
      BY SMTT(30), <2>1, <3>1, <3>2, <3>3 DEF DialSucceeds, Direction
  <2>2. CASE d # c
    BY <2>2, DirectionFrame DEF Inv, TypeOK, DialSucceeds
  <2> QED
    BY <2>1, <2>2
<1> QED
  BY <1>1, <1>2, <1>3 DEF Inv

(* libvirtd cannot be reached. *)
LEMMA DialFailsInv ==
  ASSUME Inv, NEW c \in Conns, DialFails(c)
  PROVE  Inv'
<1>1. TypeOK'
  BY SMTT(30), OtherEnd DEF Inv, TypeOK, DialFails, goroutines, sockets
<1>2. ASSUME NEW d \in Conns PROVE Lifetime(d)'
  <2>1. CASE d = c
    BY SMTT(30), <2>1 DEF Inv, TypeOK, DialFails, goroutines, Lifetime, HasCause, Ended, Leaving, Ends
  <2>2. CASE d # c
    BY <2>2, LifetimeFrame DEF Inv, TypeOK, DialFails, goroutines
  <2> QED
    BY <2>1, <2>2
<1>3. ASSUME NEW d \in Conns, NEW e \in Ends PROVE Direction(d, e)'
  BY DirectionFrame DEF Inv, DialFails, goroutines
<1> QED
  BY <1>1, <1>2, <1>3 DEF Inv

(* Both goroutines are done and the handler returns. *)
LEMMA HandlerReturnsInv ==
  ASSUME Inv, NEW c \in Conns, HandlerReturns(c)
  PROVE  Inv'
<1>1. TypeOK'
  BY SMTT(30), OtherEnd DEF Inv, TypeOK, HandlerReturns, goroutines, sockets
<1>2. ASSUME NEW d \in Conns PROVE Lifetime(d)'
  <2>1. CASE d = c
    BY SMTT(30), <2>1 DEF Inv, TypeOK, HandlerReturns, goroutines, Lifetime, HasCause, Ended, Leaving, Ends
  <2>2. CASE d # c
    BY <2>2, LifetimeFrame DEF Inv, TypeOK, HandlerReturns, goroutines
  <2> QED
    BY <2>1, <2>2
<1>3. ASSUME NEW d \in Conns, NEW e \in Ends PROVE Direction(d, e)'
  BY DirectionFrame DEF Inv, HandlerReturns, goroutines
<1> QED
  BY <1>1, <1>2, <1>3 DEF Inv

(* The listener is closed. *)
LEMMA CloseListenerInv ==
  ASSUME Inv, CloseListener
  PROVE  Inv'
<1>1. TypeOK'
  BY DEF Inv, TypeOK, CloseListener, goroutines
<1>2. ASSUME NEW d \in Conns PROVE Lifetime(d)'
  BY SMTT(30) DEF Inv, TypeOK, CloseListener, goroutines, Lifetime, HasCause, Ended, Leaving, Ends
<1>3. ASSUME NEW d \in Conns, NEW e \in Ends PROVE Direction(d, e)'
  BY SMTT(30), DirectionFrame DEF Inv, CloseListener, goroutines
<1> QED
  BY <1>1, <1>2, <1>3 DEF Inv

(* The process exits. *)
LEMMA RunReturnsInv ==
  ASSUME Inv, RunReturns
  PROVE  Inv'
<1>1. TypeOK'
  BY DEF Inv, TypeOK, RunReturns, PerEnd
<1>2. ASSUME NEW d \in Conns PROVE Lifetime(d)'
  BY SMTT(30) DEF Inv, TypeOK, RunReturns, PerEnd, Lifetime, Ended, Ends
<1>3. ASSUME NEW d \in Conns, NEW e \in Ends PROVE Direction(d, e)'
  <2>1. Direction(d, e) /\ Relayed(d, e)'
    BY SMTT(30), ZenonT(20), RelayedFrame DEF Inv, RunReturns, Direction
  <2>2. pc'[d][e] \in {"off", "done"} /\ (pc'[d][e] = "off" => pc[d][e] = "off")
    BY DEF Inv, TypeOK, RunReturns, PerEnd
  <2> QED
    BY SMTT(30), ZenonT(20), <2>1, <2>2 DEF RunReturns, Direction, Leaving
<1> QED
  BY <1>1, <1>2, <1>3 DEF Inv

(* A peer sends a message. *)
LEMMA PeerSendsInv ==
  ASSUME Inv, NEW c \in Conns, NEW e \in Ends, PeerSends(c, e)
  PROVE  Inv'
<1> PICK m \in Message : sent' = [sent EXCEPT ![c][e] = Append(@, m)]
  BY ZenonT(30), SendsAssumption DEF PeerSends
<1>1. TypeOK'
  BY SMTT(30) DEF Inv, TypeOK, PeerSends, goroutines
<1>2. ASSUME NEW d \in Conns PROVE Lifetime(d)'
  BY LifetimeFrame DEF Inv, PeerSends, goroutines
<1>3. ASSUME NEW d \in Conns, NEW f \in Ends PROVE Direction(d, f)'
  <2>1. CASE d = c /\ f = e
    <3>1. /\ sent'[c][e] = Append(sent[c][e], m)
          /\ Len(sent'[c][e]) = Len(sent[c][e]) + 1
          /\ \A i \in 1..Len(sent[c][e]) : sent'[c][e][i] = sent[c][e][i]
      <4>1. sent \in [Conns -> [Ends -> Seq(Message)]]
        BY DEF Inv, TypeOK
      <4>2. sent[c][e] \in Seq(Message)
        BY <4>1
      <4>3. sent'[c][e] = Append(sent[c][e], m)
        BY <4>1
      <4> QED
        BY <4>2, <4>3
    <3>2. err[c][e] \notin {"EOF", "UnexpectedEOF"}
      BY SMTT(30), ZenonT(20) DEF Inv, PeerSends, Direction, HungUp
    <3>3. got[c][Other(e)] \in Seq(Message)
      BY OtherEnd DEF Inv, TypeOK
    <3>4. Direction(c, e) /\ nread[c][e] \in Nat /\ sent[c][e] \in Seq(Message)
      BY DEF Inv, TypeOK
    <3>5. /\ pc' = pc /\ held' = held /\ err' = err /\ nread' = nread
          /\ got' = got
      BY DEF PeerSends, goroutines
    <3>6. /\ Len(got[c][Other(e)]) \in Nat /\ Len(sent[c][e]) \in Nat
          /\ Len(got[c][Other(e)]) <= nread[c][e]
          /\ nread[c][e] <= Len(sent[c][e])
      BY SMTT(30), <3>3, <3>4 DEF Direction
    <3>7. Relayed(c, e)'
      <4>1. \A i \in 1..Len(got[c][Other(e)]) : i \in 1..Len(sent[c][e])
        BY SMTT(30), <3>4, <3>6
      <4>2. Relayed(c, e)
        BY SMTT(30), <3>4 DEF Direction
      <4> QED
        BY SMTT(30), <3>1, <3>5, <4>1, <4>2 DEF Relayed
    <3>8. nread[c][e] > 0 => sent'[c][e][nread[c][e]] = sent[c][e][nread[c][e]]
      BY SMTT(30), <3>1, <3>4, <3>6
    <3>9. pc[c][e] \in {"hooks", "write"} => nread[c][e] > 0
      BY SMTT(30), <3>4, <3>6 DEF Direction
    <3>10. /\ pc[c][e] = "write" => Relayable(c, e)'
           /\ pc[c][e] = "hooks" => held[c][e] = sent'[c][e][nread[c][e]]
      BY SMTT(30), <3>4, <3>5, <3>8, <3>9 DEF Direction, Relayable
    <3>11. nread[c][e] <= Len(sent'[c][e])
      BY SMTT(30), <3>1, <3>4, <3>6
    <3> QED
      BY SMTT(30), ZenonT(20), <2>1, <3>2, <3>4, <3>5, <3>7, <3>10, <3>11 DEF Direction
  <2>2. CASE ~(d = c /\ f = e)
    BY SMTT(30), <2>2, DirectionFrame DEF Inv, TypeOK, PeerSends, goroutines
  <2> QED
    BY <2>1, <2>2
<1> QED
  BY <1>1, <1>2, <1>3 DEF Inv

(* A peer reads a message. *)
LEMMA PeerReadsInv ==
  ASSUME Inv, NEW c \in Conns, NEW e \in Ends, PeerReads(c, e)
  PROVE  Inv'
<1>1. TypeOK'
  BY SMTT(30) DEF Inv, TypeOK, PeerReads, goroutines
<1>2. ASSUME NEW d \in Conns PROVE Lifetime(d)'
  BY LifetimeFrame DEF Inv, PeerReads, goroutines
<1>3. ASSUME NEW d \in Conns, NEW f \in Ends PROVE Direction(d, f)'
  BY DirectionFrame DEF Inv, PeerReads, goroutines
<1> QED
  BY <1>1, <1>2, <1>3 DEF Inv

(* A peer hangs up. *)
LEMMA PeerClosesInv ==
  ASSUME Inv, NEW c \in Conns, NEW e \in Ends, PeerCloses(c, e)
  PROVE  Inv'
<1> PICK how \in HungUp : peer' = [peer EXCEPT ![c][e] = how]
  BY ZenonT(30) DEF PeerCloses, HungUp
<1>1. TypeOK'
  BY SMTT(30) DEF Inv, TypeOK, PeerCloses, goroutines, HungUp
<1>2. ASSUME NEW d \in Conns PROVE Lifetime(d)'
  <2>1. /\ peer'[c][e] = how
        /\ \A f \in Ends : peer'[c][f] = peer[c][f] \/ peer'[c][f] \in HungUp
    BY DEF Inv, TypeOK
  <2>2. CASE d = c
    BY SMTT(30), <2>1, <2>2 DEF Inv, PeerCloses, goroutines, Lifetime, HasCause, Ended, HungUp
  <2>3. CASE d # c
    BY <2>3, LifetimeFrame DEF Inv, TypeOK, PeerCloses, goroutines
  <2> QED
    BY <2>2, <2>3
<1>3. ASSUME NEW d \in Conns, NEW f \in Ends PROVE Direction(d, f)'
  <2>1. peer'[d][f] = peer[d][f] \/ peer'[d][f] \in HungUp
    BY DEF Inv, TypeOK
  <2> QED
    BY <2>1, DirectionFrame DEF Inv, PeerCloses, goroutines
<1> QED
  BY <1>1, <1>2, <1>3 DEF Inv

(* The goroutine of e reads a message. *)
LEMMA ReadMessageInv ==
  ASSUME Inv, NEW c \in Conns, NEW e \in Ends, ReadMessage(c, e)
  PROVE  Inv'
<1> DEFINE m == sent[c][e][nread[c][e] + 1]
<1>0. m \in Message
  BY SMTT(30) DEF Inv, TypeOK, ReadMessage
<1>1. TypeOK'
  BY SMTT(30), <1>0 DEF Inv, TypeOK, ReadMessage, sockets
<1>2. ASSUME NEW d \in Conns PROVE Lifetime(d)'
  <2>1. CASE d = c
    <3>1. pc[c][e] \in Busy /\ pc'[c][e] \in Busy /\ pc'[c][Other(e)] = pc[c][Other(e)]
      BY SMTT(30), OtherEnd DEF Inv, TypeOK, ReadMessage, Busy
    <3> QED
      BY SMTT(30), <1>1, <2>1, <3>1, LifetimeBusy DEF Inv, ReadMessage, sockets
  <2>2. CASE d # c
    BY SMTT(30), <2>2, LifetimeFrame DEF Inv, TypeOK, ReadMessage, sockets
  <2> QED
    BY <2>1, <2>2
<1>3. ASSUME NEW d \in Conns, NEW f \in Ends PROVE Direction(d, f)'
  <2>1. CASE d = c /\ f = e
    <3>1. /\ pc[c][e] = "read"
          /\ pc'[c][e] = IF Intercepted(e, m) THEN "hooks" ELSE "write"
          /\ held'[c][e] = m
          /\ nread'[c][e] = nread[c][e] + 1
          /\ nread[c][e] < Len(sent[c][e])
      BY SMTT(30), ZenonT(20) DEF Inv, TypeOK, ReadMessage
    <3>2. got[c][Other(e)] \in Seq(Message) /\ sent[c][e] \in Seq(Message)
      BY OtherEnd DEF Inv, TypeOK
    <3>3. ~Intercepted(e, m) => m \in R!Forwarded(e, m)
      BY SMTT(30), <1>0, ForwardedAsIs
    <3>4. Direction(c, e) /\ nread[c][e] \in Nat
      BY DEF Inv, TypeOK
    <3>5. nread[c][e] = Len(got[c][Other(e)]) /\ err[c][e] = "none"
      BY SMTT(30), <3>1, <3>4 DEF Direction, Leaving
    <3>6. got' = got /\ sent' = sent /\ err' = err /\ peer' = peer
      BY SMTT(30) DEF ReadMessage, sockets
    <3>7. Relayed(c, e)'
      BY SMTT(30), <3>4, <3>6, RelayedFrame DEF Direction
    <3> HIDE DEF m
    <3>8. m = sent[c][e][nread[c][e] + 1]
      BY DEF m
    <3>9. /\ Len(got[c][Other(e)]) \in Nat /\ Len(sent[c][e]) \in Nat
          /\ nread'[c][e] = Len(got[c][Other(e)]) + 1
          /\ nread'[c][e] <= Len(sent[c][e])
      BY SMTT(30), <3>1, <3>2, <3>4, <3>5
    <3>10. m = sent[c][e][nread'[c][e]]
      BY SMTT(30), <3>1, <3>8
    <3>11. /\ pc'[c][e] \notin {"off", "read"}
           /\ pc'[c][e] = "hooks" => Intercepted(e, m)
           /\ pc'[c][e] = "write" => ~Intercepted(e, m)
      BY SMTT(30), <3>1
    <3>12. err'[c][e] = "none"
      BY <3>5, <3>6
    <3>13. /\ Len(got'[c][Other(e)]) <= nread'[c][e]
           /\ nread'[c][e] <= Len(got'[c][Other(e)]) + 1
           /\ nread'[c][e] <= Len(sent'[c][e])
           /\ nread'[c][e] = Len(got'[c][Other(e)]) + 1
      BY <3>6, <3>9
    <3>14. /\ held'[c][e] \in Message
           /\ pc'[c][e] = "hooks" =>
                held'[c][e] = sent'[c][e][nread'[c][e]] /\ Intercepted(e, held'[c][e])
      BY SMTT(30), <1>0, <3>1, <3>6, <3>10, <3>11
    <3>15. pc'[c][e] = "write" => Relayable(c, e)'
      BY SMTT(30), <3>1, <3>3, <3>6, <3>10, <3>11 DEF Relayable
    <3> QED
      BY SMTT(30), ZenonT(20), <2>1, <3>7, <3>11, <3>12, <3>13, <3>14, <3>15 DEF Direction
  <2>2. CASE ~(d = c /\ f = e)
    <3>1. /\ pc'[d][f] = pc[d][f] /\ held'[d][f] = held[d][f]
          /\ err'[d][f] = err[d][f] /\ nread'[d][f] = nread[d][f]
      BY SMTT(30), <2>2 DEF Inv, TypeOK, ReadMessage
    <3>2. got'[d][Other(f)] = got[d][Other(f)] /\ sent' = sent /\ peer' = peer
      BY SMTT(30), <2>2, OtherEnd DEF Inv, TypeOK, ReadMessage, sockets
    <3> QED
      BY SMTT(30), <3>1, <3>2, DirectionFrame DEF Inv
  <2> QED
    BY <2>1, <2>2
<1> QED
  BY <1>1, <1>2, <1>3 DEF Inv

(* The hook chain returns. *)
LEMMA PatchDefineXMLInv ==
  ASSUME Inv, NEW c \in Conns, NEW e \in Ends, PatchDefineXML(c, e)
  PROVE  Inv'
<1> DEFINE m == held[c][e]
<1> PICK y \in Chain[m.xml] : held' = [held EXCEPT ![c][e] = ReplaceXDRString(@, y)]
  BY ZenonT(30) DEF PatchDefineXML
<1>0. /\ m \in Message
      /\ m = sent[c][e][nread[c][e]]
      /\ ReplaceXDRString(m, y) \in Message
      /\ ReplaceXDRString(m, y) \in R!Forwarded(e, m)
  <2>1. m \in Message /\ m = sent[c][e][nread[c][e]] /\ Intercepted(e, m)
    BY SMTT(30), ZenonT(20) DEF Inv, Direction, PatchDefineXML
  <2> QED
    BY SMTT(30), ZenonT(20), <2>1, ForwardedPatched
<1>1. TypeOK'
  BY ZenonT(30), <1>0 DEF Inv, TypeOK, PatchDefineXML, sockets
<1>2. ASSUME NEW d \in Conns PROVE Lifetime(d)'
  <2>1. CASE d = c
    <3>1. pc[c][e] \in Busy /\ pc'[c][e] \in Busy /\ pc'[c][Other(e)] = pc[c][Other(e)]
      BY SMTT(30), OtherEnd DEF Inv, TypeOK, PatchDefineXML, Busy
    <3> QED
      BY SMTT(30), <1>1, <2>1, <3>1, LifetimeBusy DEF Inv, PatchDefineXML, sockets
  <2>2. CASE d # c
    BY SMTT(30), <2>2, LifetimeFrame DEF Inv, TypeOK, PatchDefineXML, sockets
  <2> QED
    BY <2>1, <2>2
<1>3. ASSUME NEW d \in Conns, NEW f \in Ends PROVE Direction(d, f)'
  <2>1. CASE d = c /\ f = e
    <3>1. /\ pc[c][e] = "hooks"
          /\ pc'[c][e] = "write"
          /\ held'[c][e] = ReplaceXDRString(m, y)
      BY SMTT(30) DEF Inv, TypeOK, PatchDefineXML
    <3>2. Direction(c, e)
      BY DEF Inv
    <3>3. /\ err' = err /\ nread' = nread
          /\ got' = got /\ sent' = sent /\ peer' = peer
      BY DEF PatchDefineXML, sockets
    <3>4. Relayed(c, e)'
      BY SMTT(30), <3>2, <3>3, RelayedFrame DEF Direction
    <3>5. Relayable(c, e)'
      BY SMTT(30), <1>0, <3>1, <3>3 DEF Relayable
    <3>6. err[c][e] = "none"
      BY SMTT(30), <3>1, <3>2 DEF Direction, Leaving
    <3> QED
      BY SMTT(30), ZenonT(20), <1>0, <2>1, <3>1, <3>2, <3>3, <3>4, <3>5, <3>6 DEF Direction
  <2>2. CASE ~(d = c /\ f = e)
    <3>1. /\ pc'[d][f] = pc[d][f] /\ held'[d][f] = held[d][f]
          /\ err'[d][f] = err[d][f] /\ nread'[d][f] = nread[d][f]
      BY <2>2 DEF Inv, TypeOK, PatchDefineXML
    <3>2. got'[d][Other(f)] = got[d][Other(f)] /\ sent' = sent /\ peer' = peer
      BY SMTT(30), <2>2, OtherEnd DEF Inv, TypeOK, PatchDefineXML, sockets
    <3> QED
      BY SMTT(30), <3>1, <3>2, DirectionFrame DEF Inv
  <2> QED
    BY <2>1, <2>2
<1> QED
  BY <1>1, <1>2, <1>3 DEF Inv

(* The goroutine of e writes its message to the other end. *)
LEMMA WriteMessageInv ==
  ASSUME Inv, NEW c \in Conns, NEW e \in Ends, WriteMessage(c, e)
  PROVE  Inv'
<1>0. pc[c][e] = "write" /\ held[c][e] \in Message /\ Other(e) \in Ends
  BY SMTT(30), OtherEnd DEF Inv, Direction, WriteMessage
<1>1. TypeOK'
  BY SMTT(30), ZenonT(20), <1>0 DEF Inv, TypeOK, WriteMessage
<1>2. ASSUME NEW d \in Conns PROVE Lifetime(d)'
  <2>1. CASE d = c
    <3>1. pc[c][e] \in Busy /\ pc'[c][e] \in Busy /\ pc'[c][Other(e)] = pc[c][Other(e)]
      BY SMTT(30), OtherEnd DEF Inv, TypeOK, WriteMessage, Busy
    <3> QED
      BY SMTT(30), <1>1, <2>1, <3>1, LifetimeBusy DEF Inv, WriteMessage
  <2>2. CASE d # c
    BY SMTT(30), <2>2, LifetimeFrame DEF Inv, TypeOK, WriteMessage, sockets
  <2> QED
    BY <2>1, <2>2
<1>3. ASSUME NEW d \in Conns, NEW f \in Ends PROVE Direction(d, f)'
  <2>1. CASE d = c /\ f = e
    <3> DEFINE out == got[c][Other(e)]
    <3>1. out \in Seq(Message) /\ sent[c][e] \in Seq(Message) /\ nread[c][e] \in Nat
      BY <1>0 DEF Inv, TypeOK
    <3>2. got'[c][Other(e)] = Append(out, held[c][e]) /\ pc'[c][e] = "read"
      BY ZenonT(30), <1>0 DEF Inv, TypeOK, WriteMessage
    <3>3. /\ Len(Append(out, held[c][e])) = Len(out) + 1
          /\ \A i \in 1..Len(out) : Append(out, held[c][e])[i] = out[i]
          /\ Append(out, held[c][e])[Len(out) + 1] = held[c][e]
      BY SMTT(30), <1>0, <3>1
    <3>4. Direction(c, e)
      BY DEF Inv
    <3> HIDE DEF out
    <3>5. /\ nread[c][e] = Len(out) + 1
          /\ Relayable(c, e) /\ Relayed(c, e)
          /\ err[c][e] = "none"
          /\ nread[c][e] <= Len(sent[c][e])
      BY SMTT(30), ZenonT(20), <1>0, <3>4 DEF Direction, Leaving, out
    <3>6. \A i \in 1..Len(out) + 1 :
             Append(out, held[c][e])[i] \in R!Forwarded(e, sent[c][e][i])
      <4>1. \A i \in 1..Len(out) : out[i] \in R!Forwarded(e, sent[c][e][i])
        BY SMTT(30), <3>5 DEF Relayed, out
      <4>2. held[c][e] \in R!Forwarded(e, sent[c][e][Len(out) + 1])
        BY SMTT(30), <3>5 DEF Relayable
      <4>3. \A i \in 1..Len(out) + 1 : i \in 1..Len(out) \/ i = Len(out) + 1
        BY <3>1 DEF out
      <4> QED
        BY SMTT(30), <3>3, <4>1, <4>2, <4>3
    <3>7. err' = err /\ nread' = nread /\ sent' = sent /\ peer' = peer
      BY DEF WriteMessage
    <3>8. Relayed(c, e)'
      BY SMTT(30), <3>2, <3>3, <3>6, <3>7 DEF Relayed
    <3>9. /\ Len(got'[c][Other(e)]) = nread'[c][e]
          /\ nread'[c][e] <= Len(got'[c][Other(e)]) + 1
          /\ nread'[c][e] <= Len(sent'[c][e])
      BY SMTT(30), <3>1, <3>2, <3>3, <3>5, <3>7
    <3> QED
      BY SMTT(30), <2>1, <3>1, <3>2, <3>5, <3>7, <3>8, <3>9 DEF Direction
  <2>2. CASE ~(d = c /\ f = e)
    <3>1. /\ pc'[d][f] = pc[d][f] /\ held'[d][f] = held[d][f]
          /\ err'[d][f] = err[d][f] /\ nread'[d][f] = nread[d][f]
      BY SMTT(30), ZenonT(20), <2>2 DEF Inv, TypeOK, WriteMessage
    <3>2. got'[d][Other(f)] = got[d][Other(f)] /\ sent' = sent /\ peer' = peer
      BY SMTT(30), <2>2, OtherEnd DEF Inv, TypeOK, WriteMessage, sockets
    <3> QED
      BY <3>1, <3>2, DirectionFrame DEF Inv
  <2> QED
    BY <2>1, <2>2
<1> QED
  BY <1>1, <1>2, <1>3 DEF Inv

(* What an error of a read says about the socket. *)
LEMMA ReadErrorsFacts ==
  ASSUME NEW c \in Conns, NEW e \in Ends, NEW x \in ReadErrors(c, e)
  PROVE  /\ x \in Causes
         /\ ~open[c][e] \/ x = "BadLength" \/ peer[c][e] \in HungUp
         /\ x \in {"EOF", "UnexpectedEOF"} =>
              peer[c][e] \in HungUp /\ ~(nread[c][e] < Len(sent[c][e]))
BY DEF ReadErrors, Causes, HungUp

(* What an error of a write says about the socket. *)
LEMMA WriteErrorsFacts ==
  ASSUME NEW c \in Conns, NEW d \in Ends, NEW x \in WriteErrors(c, d)
  PROVE  /\ x \in Causes
         /\ ~open[c][d] \/ peer[c][d] \in HungUp
         /\ x \notin {"EOF", "UnexpectedEOF"}
BY DEF WriteErrors, Causes, HungUp

(* The loop of the goroutine of e ends with an error. *)
LEMMA ForwardFailsInv ==
  ASSUME Inv, NEW c \in Conns, NEW e \in Ends, ForwardFails(c, e)
  PROVE  Inv'
<1> PICK x \in Causes :
      /\ err' = [err EXCEPT ![c][e] = x]
      /\ x = "BadLength" \/ \E f \in Ends : ~open[c][f] \/ peer[c][f] \in HungUp
      /\ x \in {"EOF", "UnexpectedEOF"} =>
           /\ pc[c][e] = "read"
           /\ peer[c][e] \in HungUp
           /\ ~(nread[c][e] < Len(sent[c][e]))
  <2>1. CASE pc[c][e] = "read"
    <3>1. PICK x \in ReadErrors(c, e) : err' = [err EXCEPT ![c][e] = x]
      BY ZenonT(30), <2>1 DEF ForwardFails
    <3> QED
      BY ZenonT(30), <2>1, <3>1, ReadErrorsFacts
  <2>2. CASE pc[c][e] = "write"
    <3>1. PICK x \in WriteErrors(c, Other(e)) : err' = [err EXCEPT ![c][e] = x]
      BY ZenonT(30), <2>2 DEF ForwardFails
    <3> QED
      BY ZenonT(30), <2>2, <3>1, OtherEnd, WriteErrorsFacts
  <2> QED
    BY ZenonT(30), <2>1, <2>2 DEF ForwardFails
<1>0. pc[c][e] \in Busy /\ pc'[c][e] = "closeClient"
  BY DEF ForwardFails, Inv, TypeOK, Busy
<1>1. TypeOK'
  BY SMTT(30) DEF Inv, TypeOK, ForwardFails, sockets
<1>2. ASSUME NEW d \in Conns PROVE Lifetime(d)'
  <2>1. CASE d = c
    <3>1. handler[c] = "waiting"
      BY ZenonT(30), <1>0 DEF Inv, TypeOK, Lifetime, Ended, Busy
    <3>2. err[c][e] = "none" /\ err'[c][e] = x
      <4>1. Direction(c, e)
        BY DEF Inv
      <4>2. err[c][e] = "none"
        BY SMTT(30), <1>0, <4>1 DEF Direction, Busy, Leaving
      <4> QED
        BY SMTT(30), <4>2 DEF Inv, TypeOK
    <3>3. \A f \in Ends : f # e => pc'[c][f] = pc[c][f] /\ err'[c][f] = err[c][f]
      BY DEF Inv, TypeOK, ForwardFails
    <3>4. run # "exited" => HasCause(c)'
      <4>1. CASE \E f \in Ends : ~open[c][f]
        <5>1. run # "exited" => HasCause(c)
          BY SMTT(30), <3>1, <4>1 DEF Inv, Lifetime, Leaving
        <5> QED
          BY <3>2, <3>3, <5>1 DEF HasCause, ForwardFails, sockets
      <4>2. CASE x = "BadLength"
        BY <3>2, <4>2 DEF HasCause
      <4>3. CASE \E f \in Ends : peer[c][f] \in HungUp
        BY <4>3 DEF HasCause, HungUp, ForwardFails, sockets
      <4> QED
        BY <4>1, <4>2, <4>3
    <3>5. Lifetime(c) /\ handler' = handler /\ open' = open /\ peer' = peer /\ run' = run
      BY DEF Inv, ForwardFails, sockets
    <3>6. \A f \in Ends : pc[c][f] # "off" /\ peer[c][f] # "absent"
      BY SMTT(30), <3>1, <3>5 DEF Lifetime
    <3>7. \A f \in Ends : pc'[c][f] # "off" /\ peer'[c][f] # "absent"
      BY SMTT(30), <1>0, <3>3, <3>5, <3>6
    <3>8. ASSUME \E f \in Ends : ~open[c][f]
          PROVE  \E f \in Ends : pc'[c][f] \in {"closeUpstream", "done"}
      <4>1. PICK f \in Ends : pc[c][f] \in {"closeUpstream", "done"}
        BY SMTT(30), <3>1, <3>5, <3>8 DEF Lifetime
      <4>2. f # e
        BY <1>0, <4>1 DEF Busy
      <4> QED
        BY <3>3, <4>1, <4>2
    <3> QED
      BY SMTT(30), <2>1, <3>1, <3>4, <3>5, <3>7, <3>8, LifetimeWaiting
  <2>2. CASE d # c
    BY <2>2, LifetimeFrame DEF Inv, TypeOK, ForwardFails, sockets
  <2> QED
    BY <2>1, <2>2
<1>3. ASSUME NEW d \in Conns, NEW f \in Ends PROVE Direction(d, f)'
  <2>1. CASE d = c /\ f = e
    <3>1. err'[c][e] = x /\ nread' = nread /\ got' = got /\ sent' = sent /\ peer' = peer
      BY DEF Inv, TypeOK, ForwardFails, sockets
    <3>2. Direction(c, e) /\ nread[c][e] \in Nat /\ sent[c][e] \in Seq(Message)
      BY SMTT(30) DEF Inv, TypeOK
    <3>3. got[c][Other(e)] \in Seq(Message)
      BY SMTT(30), OtherEnd DEF Inv, TypeOK
    <3>4. Relayed(c, e)'
      BY SMTT(30), <3>1, <3>2, RelayedFrame DEF Direction
    <3>5. /\ Len(got[c][Other(e)]) <= nread[c][e]
          /\ nread[c][e] <= Len(got[c][Other(e)]) + 1
          /\ nread[c][e] <= Len(sent[c][e])
          /\ pc[c][e] = "read" => nread[c][e] = Len(got[c][Other(e)])
      BY SMTT(30), <3>2 DEF Direction
    <3>6. x \in {"EOF", "UnexpectedEOF"} =>
             peer[c][e] \in HungUp /\ Len(got[c][Other(e)]) = Len(sent[c][e])
      BY SMTT(30), <3>2, <3>3, <3>5
    <3> QED
      BY SMTT(30), <1>0, <2>1, <3>1, <3>4, <3>5, <3>6 DEF Direction, Leaving
  <2>2. CASE ~(d = c /\ f = e)
    <3>1. /\ pc'[d][f] = pc[d][f] /\ held'[d][f] = held[d][f]
          /\ err'[d][f] = err[d][f] /\ nread'[d][f] = nread[d][f]
      BY SMTT(30), <2>2 DEF Inv, TypeOK, ForwardFails
    <3>2. got'[d][Other(f)] = got[d][Other(f)] /\ sent' = sent /\ peer' = peer
      BY <2>2, OtherEnd DEF Inv, TypeOK, ForwardFails, sockets
    <3> QED
      BY SMTT(30), <3>1, <3>2, DirectionFrame DEF Inv
  <2> QED
    BY <2>1, <2>2
<1> QED
  BY <1>1, <1>2, <1>3 DEF Inv

(* A leaving goroutine closes the client socket. *)
LEMMA CloseClientInv ==
  ASSUME Inv, NEW c \in Conns, NEW e \in Ends, CloseClient(c, e)
  PROVE  Inv'
<1>0. pc[c][e] \in Leaving \ {"done"} /\ pc'[c][e] = "closeUpstream"
  BY SMTT(30) DEF Inv, TypeOK, CloseClient, Leaving
<1>1. TypeOK'
  BY SMTT(30), ZenonT(20), OtherEnd DEF Inv, TypeOK, CloseClient
<1>2. ASSUME NEW d \in Conns PROVE Lifetime(d)'
  <2>1. CASE d = c
    <3>1. handler[c] = "waiting"
      BY ZenonT(30), <1>0 DEF Inv, TypeOK, Lifetime, Ended, Leaving
    <3>2. \A f \in Ends : f # e => pc'[c][f] = pc[c][f]
      BY SMTT(30) DEF Inv, TypeOK, CloseClient
    <3>3. run # "exited" => HasCause(c)'
      BY SMTT(30), <1>0 DEF Inv, Lifetime, HasCause, CloseClient
    <3>4. Lifetime(c) /\ handler' = handler /\ peer' = peer /\ run' = run
      BY DEF Inv, CloseClient
    <3>5. \A f \in Ends : pc[c][f] # "off" /\ peer[c][f] # "absent"
      BY SMTT(30), <3>1, <3>4 DEF Lifetime
    <3>6. \A f \in Ends : pc'[c][f] # "off" /\ peer'[c][f] # "absent"
      BY SMTT(30), <1>0, <3>2, <3>4, <3>5
    <3>7. \E f \in Ends : pc'[c][f] \in {"closeUpstream", "done"}
      BY SMTT(30), <1>0
    <3> QED
      BY SMTT(30), <2>1, <3>1, <3>3, <3>4, <3>6, <3>7, LifetimeWaiting
  <2>2. CASE d # c
    BY SMTT(30), <2>2, LifetimeFrame DEF Inv, TypeOK, CloseClient, sockets
  <2> QED
    BY <2>1, <2>2
<1>3. ASSUME NEW d \in Conns, NEW f \in Ends PROVE Direction(d, f)'
  <2>1. CASE d = c /\ f = e
    <3>1. /\ held' = held /\ err' = err /\ nread' = nread
          /\ got' = got /\ sent' = sent /\ peer' = peer
      BY DEF CloseClient
    <3>2. Direction(c, e)
      BY DEF Inv
    <3>3. Relayed(c, e)'
      BY SMTT(30), ZenonT(20), <3>1, <3>2, RelayedFrame DEF Direction
    <3> QED
      BY SMTT(30), ZenonT(20), <1>0, <2>1, <3>1, <3>2, <3>3 DEF Direction, Leaving
  <2>2. CASE ~(d = c /\ f = e)
    <3>1. /\ pc'[d][f] = pc[d][f] /\ held'[d][f] = held[d][f]
          /\ err'[d][f] = err[d][f] /\ nread'[d][f] = nread[d][f]
      BY SMTT(30), <2>2 DEF Inv, TypeOK, CloseClient
    <3>2. got'[d][Other(f)] = got[d][Other(f)] /\ sent' = sent /\ peer' = peer
      BY SMTT(30), <2>2, OtherEnd DEF Inv, TypeOK, CloseClient, sockets
    <3> QED
      BY <3>1, <3>2, DirectionFrame DEF Inv
  <2> QED
    BY <2>1, <2>2
<1> QED
  BY <1>1, <1>2, <1>3 DEF Inv

(* A leaving goroutine closes the libvirtd socket. *)
LEMMA CloseUpstreamInv ==
  ASSUME Inv, NEW c \in Conns, NEW e \in Ends, CloseUpstream(c, e)
  PROVE  Inv'
<1>0. pc[c][e] \in Leaving \ {"done"} /\ pc'[c][e] = "done"
  BY SMTT(30) DEF Inv, TypeOK, CloseUpstream, Leaving
<1>1. TypeOK'
  BY SMTT(30), ZenonT(20), OtherEnd DEF Inv, TypeOK, CloseUpstream
<1>2. ASSUME NEW d \in Conns PROVE Lifetime(d)'
  <2>1. CASE d = c
    <3>1. handler[c] = "waiting"
      BY ZenonT(30), <1>0 DEF Inv, TypeOK, Lifetime, Ended, Leaving
    <3>2. \A f \in Ends : f # e => pc'[c][f] = pc[c][f]
      BY SMTT(30) DEF Inv, TypeOK, CloseUpstream
    <3>3. run # "exited" => HasCause(c)'
      BY SMTT(30), <1>0 DEF Inv, Lifetime, HasCause, CloseUpstream
    <3>4. Lifetime(c) /\ handler' = handler /\ peer' = peer /\ run' = run
      BY DEF Inv, CloseUpstream
    <3>5. \A f \in Ends : pc[c][f] # "off" /\ peer[c][f] # "absent"
      BY <3>1, <3>4 DEF Lifetime
    <3>6. \A f \in Ends : pc'[c][f] # "off" /\ peer'[c][f] # "absent"
      BY SMTT(30), <1>0, <3>2, <3>4, <3>5
    <3>7. \E f \in Ends : pc'[c][f] \in {"closeUpstream", "done"}
      BY <1>0
    <3> QED
      BY <2>1, <3>1, <3>3, <3>4, <3>6, <3>7, LifetimeWaiting
  <2>2. CASE d # c
    BY SMTT(30), <2>2, LifetimeFrame DEF Inv, TypeOK, CloseUpstream, sockets
  <2> QED
    BY <2>1, <2>2
<1>3. ASSUME NEW d \in Conns, NEW f \in Ends PROVE Direction(d, f)'
  <2>1. CASE d = c /\ f = e
    <3>1. /\ held' = held /\ err' = err /\ nread' = nread
          /\ got' = got /\ sent' = sent /\ peer' = peer
      BY DEF CloseUpstream
    <3>2. Direction(c, e)
      BY DEF Inv
    <3>3. Relayed(c, e)'
      BY SMTT(30), ZenonT(20), <3>1, <3>2, RelayedFrame DEF Direction
    <3> QED
      BY SMTT(30), ZenonT(20), <1>0, <2>1, <3>1, <3>2, <3>3 DEF Direction, Leaving
  <2>2. CASE ~(d = c /\ f = e)
    <3>1. /\ pc'[d][f] = pc[d][f] /\ held'[d][f] = held[d][f]
          /\ err'[d][f] = err[d][f] /\ nread'[d][f] = nread[d][f]
      BY SMTT(30), <2>2 DEF Inv, TypeOK, CloseUpstream
    <3>2. got'[d][Other(f)] = got[d][Other(f)] /\ sent' = sent /\ peer' = peer
      BY SMTT(30), <2>2, OtherEnd DEF Inv, TypeOK, CloseUpstream, sockets
    <3> QED
      BY <3>1, <3>2, DirectionFrame DEF Inv
  <2> QED
    BY <2>1, <2>2
<1> QED
  BY <1>1, <1>2, <1>3 DEF Inv

(* Every step of the proxy, and every stuttering step, preserves Inv. *)
LEMMA NextInv == Inv /\ [Next]_vars => Inv'
<1> SUFFICES ASSUME Inv, [Next]_vars PROVE Inv'
  OBVIOUS
<1>1. CASE CloseListener
  BY <1>1, CloseListenerInv
<1>2. CASE RunReturns
  BY <1>2, RunReturnsInv
<1>3. ASSUME NEW c \in Conns,
             ClientConnects(c) \/ Accept(c) \/ Dial(c) \/ HandlerReturns(c)
      PROVE  Inv'
  BY <1>3, ClientConnectsInv, AcceptInv, DialSucceedsInv, DialFailsInv, HandlerReturnsInv
     DEF Dial
<1>4. ASSUME NEW c \in Conns, NEW e \in Ends, Peer(c, e)
      PROVE  Inv'
  BY <1>4, PeerSendsInv, PeerReadsInv, PeerClosesInv DEF Peer
<1>5. ASSUME NEW c \in Conns, NEW e \in Ends, Forward(c, e)
      PROVE  Inv'
  BY <1>5, ReadMessageInv, PatchDefineXMLInv, WriteMessageInv, ForwardFailsInv,
     CloseClientInv, CloseUpstreamInv DEF Forward
<1>6. CASE UNCHANGED vars
  <2>1. TypeOK'
    BY SMTT(30), ZenonT(20), <1>6 DEF Inv, TypeOK, vars
  <2>2. \A c \in Conns : Lifetime(c)'
    BY SMTT(30), <1>6, LifetimeFrame DEF Inv, vars
  <2>3. \A c \in Conns, e \in Ends : Direction(c, e)'
    BY SMTT(30), <1>6, DirectionFrame DEF Inv, vars
  <2> QED
    BY <2>1, <2>2, <2>3 DEF Inv
<1> QED
  BY <1>1, <1>2, <1>3, <1>4, <1>5, <1>6 DEF Next

-----------------------------------------------------------------------------
(* The theorems. *)

(***************************************************************************)
(* The inductive invariant holds in every reachable state.                 *)
(***************************************************************************)
THEOREM Invariance == Spec => []Inv
BY InitInv, NextInv, PTL DEF Spec

(***************************************************************************)
(* Every variable of the proxy keeps its type; in particular a goroutine   *)
(* that is writing holds a message.                                        *)
(***************************************************************************)
THEOREM TypeCorrect == Spec => []TypeOK
<1>1. Inv => TypeOK
  BY DEF Inv
<1> QED
  BY <1>1, Invariance, PTL

(***************************************************************************)
(* forward() hands over messages in order, each once, none invented, and   *)
(* rewrites only the documents of define calls (ForwardedInOrder).         *)
(***************************************************************************)
THEOREM InOrder == Spec => []ForwardedInOrder
<1>1. Inv => ForwardedInOrder
  <2> SUFFICES ASSUME Inv, NEW c \in Conns, NEW e \in Ends,
                      NEW i \in 1..Len(got[c][Other(e)])
               PROVE  /\ i <= Len(sent[c][e])
                      /\ got[c][Other(e)][i] \in R!Forwarded(e, sent[c][e][i])
    BY SMTT(30) DEF ForwardedInOrder
  <2>1. Direction(c, e) /\ nread[c][e] \in Nat /\ sent[c][e] \in Seq(Message)
    BY SMTT(30) DEF Inv, TypeOK
  <2>2. got[c][Other(e)] \in Seq(Message)
    BY SMTT(30), OtherEnd DEF Inv, TypeOK
  <2>3. Relayed(c, e) /\ Len(got[c][Other(e)]) <= Len(sent[c][e])
    BY SMTT(30), ZenonT(20), <2>1, <2>2 DEF Direction
  <2> QED
    BY SMTT(30), <2>1, <2>2, <2>3 DEF Relayed
<1> QED
  BY <1>1, Invariance, PTL

(***************************************************************************)
(* forward() never reads ahead of what it has written (OneInHand).         *)
(***************************************************************************)
THEOREM BoundedBuffering == Spec => []OneInHand
<1>1. Inv => OneInHand
  <2> SUFFICES ASSUME Inv, NEW c \in Conns, NEW e \in Ends
               PROVE  nread[c][e] - Len(got[c][Other(e)]) \in {0, 1}
    BY DEF OneInHand
  <2>1. Direction(c, e) /\ nread[c][e] \in Nat
    BY SMTT(30) DEF Inv, TypeOK
  <2>2. got[c][Other(e)] \in Seq(Message)
    BY SMTT(30), OtherEnd DEF Inv, TypeOK
  <2> QED
    BY SMTT(30), ZenonT(20), <2>1, <2>2 DEF Direction
<1> QED
  BY <1>1, Invariance, PTL

(***************************************************************************)
(* The end of a stream never overtakes its data (EndOfStreamLast).         *)
(***************************************************************************)
THEOREM StreamDrained == Spec => []EndOfStreamLast
<1>1. Inv => EndOfStreamLast
  BY SMTT(30) DEF Inv, Direction, EndOfStreamLast
<1> QED
  BY <1>1, Invariance, PTL

(***************************************************************************)
(* The proxy never hangs up on two healthy peers (HangupHasCause).         *)
(***************************************************************************)
THEOREM HangupCaused == Spec => []HangupHasCause
<1>1. Inv => HangupHasCause
  BY SMTT(30) DEF Inv, Lifetime, HasCause, HangupHasCause, Leaving
<1> QED
  BY <1>1, Invariance, PTL

(***************************************************************************)
(* A finished handler leaves neither socket nor goroutine (NothingLeaked). *)
(***************************************************************************)
THEOREM NoLeak == Spec => []NothingLeaked
<1>1. Inv => NothingLeaked
  BY SMTT(30) DEF Inv, Lifetime, NothingLeaked
<1> QED
  BY <1>1, Invariance, PTL

-----------------------------------------------------------------------------
(* The proxy implements the relay of module Relay. *)

(* A step that changes no message history can only shut outlets. *)
LEMMA ShutStep ==
  ASSUME sent' = sent, got' = got,
         \A c \in Conns, e \in Ends : Shut(c, e) => Shut(c, e)'
  PROVE  R!Shut
BY ZenonT(30), SameProtocol DEF R!Shut, Shut, Ended

(* A handler whose goroutines have not finished is still waiting for them. *)
LEMMA BusyWaits ==
  ASSUME Inv, NEW c \in Conns, NEW e \in Ends, pc[c][e] \notin {"off", "done"}
  PROVE  handler[c] = "waiting"
BY ZenonT(30) DEF Inv, TypeOK, Lifetime, Ended

(* The histories stay, and no shut outlet is opened again. *)
Quiet ==
  /\ sent' = sent /\ got' = got
  /\ \A c \in Conns : \/ handler'[c] = handler[c]
                      \/ handler[c] \in {"none", "queued", "dialing"}
                      \/ handler[c] = "waiting" /\ Ended(c)'
  /\ \A c \in Conns, e \in Ends :
        handler[c] = "waiting" /\ ~open[c][e] => ~open'[c][e]

(* A quiet step shuts outlets of the relay, or changes nothing of it. *)
LEMMA QuietStep == Quiet => R!Next
<1> SUFFICES ASSUME Quiet PROVE R!Next
  OBVIOUS
<1>1. \A c \in Conns, e \in Ends : Shut(c, e) => Shut(c, e)'
  BY SMTT(30) DEF Quiet, Shut, Ended
<1> QED
  BY SMTT(30), ZenonT(20), <1>1, ShutStep DEF Quiet, R!Next

(* A message of a peer is a step of the relay. *)
LEMMA SendStep ==
  ASSUME Inv, NEW c \in Conns, NEW e \in Ends, PeerSends(c, e)
  PROVE  R!Next
<1>1. [d \in Conns |-> [f \in Ends |-> Shut(d, f)]]' = [d \in Conns |-> [f \in Ends |-> Shut(d, f)]]
  BY SMTT(30) DEF PeerSends, Shut, Ended
<1>2. R!Send(c, e)
  BY ZenonT(30), <1>1 DEF PeerSends, R!Send
<1> QED
  BY <1>2, SameProtocol DEF R!Next

(* A write of a goroutine is a delivery of the relay. *)
LEMMA DeliverStep ==
  ASSUME Inv, NEW c \in Conns, NEW e \in Ends, WriteMessage(c, e)
  PROVE  R!Next
<1> DEFINE d == Other(e)
           n == Len(got[c][d]) + 1
<1>1. d \in Ends /\ Other(d) = e
  BY OtherEnd
<1>2. [a \in Conns |-> [f \in Ends |-> Shut(a, f)]]' = [a \in Conns |-> [f \in Ends |-> Shut(a, f)]]
  BY SMTT(30) DEF WriteMessage, Shut, Ended
<1>3. pc[c][e] = "write" /\ handler[c] = "waiting"
  BY SMTT(30), BusyWaits DEF WriteMessage
<1>4. open[c][d]
  BY DEF WriteMessage, WriteErrors
<1>5. ~Shut(c, d)
  BY SMTT(30), <1>3, <1>4 DEF Shut, Ended
<1>6. Direction(c, e) /\ nread[c][e] \in Nat /\ sent[c][e] \in Seq(Message)
  BY SMTT(30) DEF Inv, TypeOK
<1>7. got[c][d] \in Seq(Message)
  BY SMTT(30), ZenonT(20), <1>1 DEF Inv, TypeOK
<1>8. n \in 1..Len(sent[c][e]) /\ held[c][e] \in R!Forwarded(e, sent[c][e][n])
  <2>1. Relayable(c, e) /\ nread[c][e] = n /\ nread[c][e] <= Len(sent[c][e])
    BY SMTT(30), <1>3, <1>6 DEF Direction
  <2> QED
    BY SMTT(30), <1>6, <1>7, <2>1 DEF Relayable
<1>9. got' = [got EXCEPT ![c][d] = Append(@, held[c][e])] /\ sent' = sent
  BY SMTT(30) DEF WriteMessage
<1>10. R!Deliver(c, d)
  <2> HIDE DEF d
  <2>1. R!Other(d) = e
    BY <1>1, SameProtocol
  <2>2. ~[a \in Conns |-> [f \in Ends |-> Shut(a, f)]][c][d]
    BY <1>1, <1>5
  <2> QED
    BY ZenonT(30), <1>2, <1>8, <1>9, <2>1, <2>2 DEF R!Deliver
<1> QED
  BY <1>1, <1>10, SameProtocol DEF R!Next

(* Every step of the proxy is a step of the relay, or changes nothing of it. *)
LEMMA RelayStep == Inv /\ Inv' /\ [Next]_vars => [R!Next]_R!vars
<1> SUFFICES ASSUME Inv, Inv', [Next]_vars PROVE [R!Next]_R!vars
  OBVIOUS
<1>1. CASE CloseListener
  BY SMTT(30), <1>1, QuietStep DEF Quiet, Ended, Inv, TypeOK, CloseListener
<1>2. CASE RunReturns
  BY SMTT(30), <1>2, QuietStep DEF Quiet, Ended, Inv, TypeOK, RunReturns, PerEnd
<1>3. ASSUME NEW c \in Conns,
             ClientConnects(c) \/ Accept(c) \/ Dial(c) \/ HandlerReturns(c)
      PROVE  [R!Next]_R!vars
  <2>1. CASE ClientConnects(c)
    BY SMTT(30), <2>1, QuietStep DEF Quiet, Ended, Inv, TypeOK, ClientConnects
  <2>2. CASE Accept(c)
    BY SMTT(30), ZenonT(20), <2>2, QuietStep DEF Quiet, Ended, Inv, TypeOK, Accept, sockets
  <2>3. CASE DialSucceeds(c)
    <3>1. handler \in [Conns -> {"none", "queued", "dialing", "refused", "waiting", "done", "killed"}]
      BY SMTT(30) DEF Inv, TypeOK
    <3>2. open \in [Conns -> [Ends -> BOOLEAN]]
      BY SMTT(30) DEF Inv, TypeOK
    <3>3. /\ sent' = sent /\ got' = got /\ handler[c] = "dialing"
          /\ handler' = [handler EXCEPT ![c] = "waiting"]
          /\ open' = [open EXCEPT ![c]["upstream"] = TRUE]
      BY <2>3 DEF DialSucceeds
    <3>4. \A d \in Conns : handler'[d] = handler[d] \/ handler[d] = "dialing"
      BY <3>1, <3>3
    <3>5. \A d \in Conns, f \in Ends : d # c => open'[d][f] = open[d][f]
      BY <3>2, <3>3
    <3> QED
      BY SMTT(30), <3>3, <3>4, <3>5, QuietStep DEF Quiet
  <2>4. CASE DialFails(c)
    BY SMTT(30), <2>4, QuietStep DEF Quiet, Ended, Inv, TypeOK, DialFails
  <2>5. CASE HandlerReturns(c)
    BY SMTT(30), <2>5, QuietStep DEF Quiet, Ended, Inv, TypeOK, HandlerReturns
  <2> QED
    BY <1>3, <2>1, <2>2, <2>3, <2>4, <2>5 DEF Dial
<1>4. ASSUME NEW c \in Conns, NEW e \in Ends, Peer(c, e)
      PROVE  [R!Next]_R!vars
  <2>1. CASE PeerSends(c, e)
    BY <2>1, SendStep
  <2>2. CASE PeerReads(c, e)
    BY SMTT(30), <2>2, QuietStep DEF Quiet, Ended, PeerReads
  <2>3. CASE PeerCloses(c, e)
    BY SMTT(30), <2>3, QuietStep DEF Quiet, Ended, PeerCloses
  <2> QED
    BY <1>4, <2>1, <2>2, <2>3 DEF Peer
<1>5. ASSUME NEW c \in Conns, NEW e \in Ends, Forward(c, e)
      PROVE  [R!Next]_R!vars
  <2>1. CASE ReadMessage(c, e)
    BY SMTT(30), <2>1, QuietStep DEF Quiet, Ended, ReadMessage, sockets
  <2>2. CASE PatchDefineXML(c, e)
    BY SMTT(30), <2>2, QuietStep DEF Quiet, Ended, PatchDefineXML, sockets
  <2>3. CASE WriteMessage(c, e)
    BY <2>3, DeliverStep
  <2>4. CASE ForwardFails(c, e)
    BY SMTT(30), ZenonT(20), <2>4, QuietStep DEF Quiet, Ended, ForwardFails, sockets
  <2>5. CASE CloseClient(c, e)
    <3>1. open \in [Conns -> [Ends -> BOOLEAN]]
      BY SMTT(30) DEF Inv, TypeOK
    <3>2. /\ sent' = sent /\ got' = got /\ handler' = handler
          /\ open' = [open EXCEPT ![c]["client"] = FALSE]
      BY SMTT(30), <2>5 DEF CloseClient
    <3>3. \A d \in Conns, f \in Ends : ~open[d][f] => ~open'[d][f]
      BY <3>1, <3>2
    <3> QED
      BY <3>2, <3>3, QuietStep DEF Quiet
  <2>6. CASE CloseUpstream(c, e)
    <3>1. open \in [Conns -> [Ends -> BOOLEAN]]
      BY DEF Inv, TypeOK
    <3>2. /\ sent' = sent /\ got' = got /\ handler' = handler
          /\ open' = [open EXCEPT ![c]["upstream"] = FALSE]
      BY <2>6 DEF CloseUpstream
    <3>3. \A d \in Conns, f \in Ends : ~open[d][f] => ~open'[d][f]
      BY <3>1, <3>2
    <3> QED
      BY SMTT(30), <3>2, <3>3, QuietStep DEF Quiet
  <2> QED
    BY <1>5, <2>1, <2>2, <2>3, <2>4, <2>5, <2>6 DEF Forward
<1>6. CASE UNCHANGED vars
  BY SMTT(30), <1>6, QuietStep DEF Quiet, Ended, vars
<1> QED
  BY <1>1, <1>2, <1>3, <1>4, <1>5, <1>6 DEF Next

(***************************************************************************)
(* The proxy implements the abstract relay: whatever the peers, the hooks  *)
(* and the operator do, each end is handed a prefix of what the other end  *)
(* sent, in the forms Relay allows, and nothing once its socket is closed. *)
(***************************************************************************)
THEOREM Refinement == Spec => ImplementsRelay
<1>1. Init => R!Init
  BY ZenonT(30), SameProtocol DEF Init, PerEnd, R!Init, Shut, Ended
<1> QED
  BY <1>1, RelayStep, Invariance, PTL DEF Spec, ImplementsRelay, R!Spec

=============================================================================
