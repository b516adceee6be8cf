------------------------------ MODULE MCProxy -------------------------------
(***************************************************************************)
(* Instances of Proxy for TLC.  The client's messages are a define call,   *)
(* a define call with flags, a define call whose payload does not decode   *)
(* and frames with a bad length; libvirtd's is a reply to the define call, *)
(* which differs from it in its type only.                                 *)
(***************************************************************************)
EXTENDS Proxy

CONSTANTS x1, x2, y1, y2, flags, none

MCXML  == {x1, x2, y1, y2}
MCRest == {flags, none}
MCChain == [x \in MCXML |-> CASE x = x1 -> {x1, y1}
                              [] x = x2 -> {x2, y2}
                              [] OTHER  -> {x}]

Hdr(proc, type, serial) ==
  [Program |-> RemoteProgram, Version |-> RemoteProtocolVersion,
   Procedure |-> proc, Type |-> type, Serial |-> serial, Status |-> 0]

Msg(h, x, r, l) == [header |-> h, xml |-> x, rest |-> r, length |-> l]

define  == Msg(Hdr(ProcDomainDefineXML, TypeCall, 1), x1, none, "ok")
defineF == Msg(Hdr(ProcDomainDefineXMLFlags, TypeCall, 2), x2, flags, "ok")
garbled == Msg(Hdr(ProcDomainDefineXML, TypeCall, 3), NoXML, none, "ok")
short   == Msg(Hdr(0, TypeCall, 4), NoXML, none, "short")
reply   == Msg(Hdr(ProcDomainDefineXML, TypeReply, 1), x1, none, "ok")

(* What the proxy rewrites, what it passes on, and what it refuses. *)
SendsAll == [e \in Ends |-> IF e = "client" THEN {defineF, garbled, short} ELSE {reply}]
(* A define call one way, its reply the other. *)
SendsDefine == [e \in Ends |-> IF e = "client" THEN {define} ELSE {reply}]

=============================================================================
