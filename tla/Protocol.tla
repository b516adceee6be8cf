------------------------------ MODULE Protocol ------------------------------
(***************************************************************************)
(* The libvirt RPC messages virtinjectd relays (virtinjectd/protocol.go,   *)
(* virtinjectd/xdr.go), with their bytes abstracted away.                  *)
(*                                                                         *)
(* A message is its header, the domain document its payload starts with,   *)
(* and whatever follows that document (the flags word of a                 *)
(* DomainDefineXMLFlags call).  A payload whose first field is not a       *)
(* well-formed XDR string carries the value NoXML.  How a document is laid *)
(* out in bytes is the subject of module Xdr.                              *)
(***************************************************************************)
EXTENDS Naturals

CONSTANTS
  XML,      \* the domain documents
  NoXML,    \* stands for a payload that DecodeXDRString rejects
  Rest      \* what a payload holds after its first XDR string

ASSUME NoXMLAssumption == NoXML \notin XML

RemoteProgram            == 536903814        \* 0x20008086
RemoteProtocolVersion    == 1
ProcDomainDefineXML      == 11
ProcDomainDefineXMLFlags == 350

TypeCall    == 0
TypeReply   == 1
TypeMessage == 2

(* The six words of virNetMessageHeader. *)
Header == [Program : Nat, Version : Nat, Procedure : Nat,
           Type : Nat, Serial : Nat, Status : Nat]

(***************************************************************************)
(* What a peer puts on the wire.  length is the class of the length word   *)
(* that precedes the header: "short" is below LengthPrefixSize+HeaderSize, *)
(* "large" announces more than MaxMessageSize bytes.                       *)
(***************************************************************************)
Message == [header : Header, xml : XML \cup {NoXML}, rest : Rest,
            length : {"ok", "short", "large"}]

(* The length word passes the two sanity checks of ReadMessage. *)
WellFramed(m) == m.length = "ok"

(* A virDomainDefineXML or virDomainDefineXMLFlags call. *)
IsDomainDefineCall(h) ==
  /\ h.Program = RemoteProgram
  /\ h.Version = RemoteProtocolVersion
  /\ h.Type = TypeCall
  /\ h.Procedure \in {ProcDomainDefineXML, ProcDomainDefineXMLFlags}

(* The two endpoints of a proxied connection. *)
Ends == {"client", "upstream"}
Other(e) == IF e = "client" THEN "upstream" ELSE "client"

(* The payload with its first string replaced, all that follows kept. *)
ReplaceXDRString(m, newXML) == [m EXCEPT !.xml = newXML]

=============================================================================
