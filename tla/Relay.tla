-------------------------------- MODULE Relay -------------------------------
(***************************************************************************)
(* What the proxy promises, connection by connection: two one-way streams, *)
(* each of which hands over a prefix of what was sent into it, in order,   *)
(* nothing twice and nothing invented.  Every message arrives as sent,     *)
(* except that the domain document of a define call may be replaced by one *)
(* of the documents the hook chain yields for it.  An outlet, once shut,   *)
(* receives nothing more.                                                  *)
(***************************************************************************)
EXTENDS Protocol, Sequences

CONSTANTS
  Conns,    \* the proxied connections
  Sends,    \* Sends[e]: the messages endpoint e may send
  Chain     \* Chain[x]: the documents the hook chain may return for x

VARIABLES
  sent,     \* sent[c][e]: what endpoint e has sent on connection c
  got,      \* got[c][e]: what endpoint e has been handed on connection c
  shut      \* shut[c][e]: nothing more will be handed to e on connection c

vars == <<sent, got, shut>>

(***************************************************************************)
(* The forms in which message m of endpoint e may arrive at the other      *)
(* endpoint.  Only the client's define calls are ever rewritten.           *)
(***************************************************************************)
Forwarded(e, m) ==
  IF e = "client" /\ IsDomainDefineCall(m.header) /\ m.xml # NoXML
  THEN {ReplaceXDRString(m, y) : y \in Chain[m.xml]}
  ELSE {m}

Init ==
  /\ sent = [c \in Conns |-> [e \in Ends |-> <<>>]]
  /\ got  = [c \in Conns |-> [e \in Ends |-> <<>>]]
  /\ shut = [c \in Conns |-> [e \in Ends |-> FALSE]]

Send(c, e) ==
  /\ \E m \in Sends[e] : sent' = [sent EXCEPT ![c][e] = Append(@, m)]
  /\ UNCHANGED <<got, shut>>

(* Endpoint e is handed the next message of the other endpoint. *)
Deliver(c, e) ==
  LET n == Len(got[c][e]) + 1 IN
  /\ ~shut[c][e]
  /\ n \in 1..Len(sent[c][Other(e)])
  /\ \E m \in Forwarded(Other(e), sent[c][Other(e)][n]) :
       got' = [got EXCEPT ![c][e] = Append(@, m)]
  /\ UNCHANGED <<sent, shut>>

(* Any number of outlets are shut at once: a process exit shuts them all. *)
Shut ==
  /\ \A c \in Conns, e \in Ends : shut[c][e] => shut'[c][e]
  /\ shut' \in [Conns -> [Ends -> BOOLEAN]]
  /\ UNCHANGED <<sent, got>>

Next == Shut \/ \E c \in Conns, e \in Ends : Send(c, e) \/ Deliver(c, e)

Spec == Init /\ [][Next]_vars

=============================================================================
