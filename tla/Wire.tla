-------------------------------- MODULE Wire --------------------------------
(***************************************************************************)
(* One direction of a proxied connection at the level of bytes: what       *)
(* forward, ReadMessage, intercept, patchDefineXML and WriteMessage do to  *)
(* the stream of the client (virtinjectd/protocol.go, virtinjectd/xdr.go). *)
(* Bytes arrive one by one and the client may stop in the middle of a      *)
(* message.  Module Proxy takes whole messages for granted; this one shows *)
(* that the stream is cut into them correctly.                             *)
(***************************************************************************)
EXTENDS Xdr

CONSTANTS
  MaxMessageSize,  \* header and payload; 33554432 in the code
  Messages,        \* what the client may send
  MaxMessages,     \* bound: messages in the client's stream
  Patched          \* Patched[s]: what the hook chain makes of the document s

HeaderSize       == 24
LengthPrefixSize == 4

RemoteProgram            == 536903814        \* 0x20008086
RemoteProtocolVersion    == 1
ProcDomainDefineXML      == 11
ProcDomainDefineXMLFlags == 350
TypeCall                 == 0

VARIABLES
  msgs,     \* the messages the client sends
  eof,      \* the client has closed its end of the stream
  arrived,  \* bytes that have reached the socket
  nread,    \* bytes ReadMessage has consumed
  phase,    \* "length", "data" (within ReadMessage), "write", "closed"
  need,     \* dataLength
  header,   \* the header read
  payload,  \* the payload read; once written, the one written
  out,      \* bytes written upstream
  written   \* messages written upstream

vars == <<msgs, eof, arrived, nread, phase, need, header, payload, out, written>>

-----------------------------------------------------------------------------
(* The six words of a header, program first. *)
ParseHeader(data) == [w \in 1 .. 6 |-> Uint32(data, 4 * w - 3)]

MarshalHeader(h) ==
  PutUint32(h[1]) \o PutUint32(h[2]) \o PutUint32(h[3]) \o
  PutUint32(h[4]) \o PutUint32(h[5]) \o PutUint32(h[6])

IsDomainDefineCall(h) ==
  /\ h[1] = RemoteProgram
  /\ h[2] = RemoteProtocolVersion
  /\ h[3] \in {ProcDomainDefineXML, ProcDomainDefineXMLFlags}
  /\ h[4] = TypeCall

(* Six uint32 words. *)
IsHeader(h) == h \in [1 .. 6 -> Nat] /\ \A w \in 1 .. 6 : IsUint32(h[w])

(* The bytes of a message whose length word is n. *)
Frame(n, h, p) == PutUint32(n) \o MarshalHeader(h) \o p

(* Mutant: the length word does not count itself. *)
WriteMessage_short(h, p) == Frame(HeaderSize + Len(p), h, p)

WriteMessage(h, p) == Frame(LengthPrefixSize + HeaderSize + Len(p), h, p)

(* The payload with its document run through the hooks, if it has one. *)
patchDefineXML(p) ==
  LET xml == DecodeXDRString(p) IN
  IF ~xml.ok \/ Patched[xml.str] = xml.str THEN p
  ELSE ReplaceXDRString(p, Patched[xml.str])

intercept(h, p) == IF IsDomainDefineCall(h) THEN patchDefineXML(p) ELSE p

(* The XDR string s, after RFC 4506 section 4.11. *)
XDRString(s) ==
  PutUint32(Len(s)) \o s \o Zeros(CHOOSE k \in 0 .. 3 : (Len(s) + k) % 4 = 0)

(***************************************************************************)
(* A message of the client: the words of its header, what it says its      *)
(* length is, and its payload, the bytes that follow if the length counts  *)
(* the header at all.  A define call (define) carries its document doc as  *)
(* an XDR string, and after it rest; any other message is not a define     *)
(* call or has no document that can be decoded.                            *)
(***************************************************************************)
IsMessage(m) ==
  /\ IsHeader(m.words) /\ IsUint32(m.length)
  /\ m.payload \in Seq(Byte) /\ m.doc \in Seq(Byte) /\ m.rest \in Seq(Byte)
  /\ m.length >= LengthPrefixSize + HeaderSize
       => m.length = LengthPrefixSize + HeaderSize + Len(m.payload)
  /\ m.define \in BOOLEAN
  /\ m.define => /\ IsDomainDefineCall(m.words)
                 /\ Len(m.doc) <= xdrStringMaxLen /\ m.doc \in DOMAIN Patched
                 /\ m.payload = XDRString(m.doc) \o m.rest
  /\ ~m.define => ~IsDomainDefineCall(m.words) \/ ~DecodeXDRString(m.payload).ok

ASSUME MessagesAssumption == \A m \in Messages : IsMessage(m)

ASSUME PatchedAssumption == \A s \in DOMAIN Patched : Patched[s] \in Seq(Byte)

ASSUME BoundsAssumption == MaxMessageSize \in Nat /\ MaxMessages \in Nat

(* The first n of the byte sequences in parts, one after the other. *)
Joined(parts, n) ==
  LET upTo[k \in 0 .. n] == IF k = 0 THEN <<>> ELSE upTo[k - 1] \o parts[k] IN upTo[n]

Frames == [i \in DOMAIN msgs |-> Frame(msgs[i].length, msgs[i].words, msgs[i].payload)]

Stream == Joined(Frames, Len(msgs))

-----------------------------------------------------------------------------
Init ==
  /\ msgs \in UNION {[1 .. n -> Messages] : n \in 1 .. MaxMessages}
  /\ eof = FALSE
  /\ arrived = 0
  /\ nread = 0
  /\ phase = "length"
  /\ need = 0
  /\ header = <<0, 0, 0, 0, 0, 0>>
  /\ payload = <<>>
  /\ out = <<>>
  /\ written = 0

Arrive ==
  /\ ~eof
  /\ arrived < Len(Stream)
  /\ arrived' = arrived + 1
  /\ UNCHANGED <<msgs, eof, nread, phase, need, header, payload, out, written>>

(* After the last byte or in the middle of a message. *)
ClientCloses ==
  /\ ~eof
  /\ eof' = TRUE
  /\ UNCHANGED <<msgs, arrived, nread, phase, need, header, payload, out, written>>

Available(n) == arrived - nread >= n

(* Mutant: only the lower bound is checked. *)
LengthOK_unbounded(n) == n >= LengthPrefixSize + HeaderSize

(* The length word passes the two sanity checks. *)
LengthOK(n) == n >= LengthPrefixSize + HeaderSize /\ n - LengthPrefixSize <= MaxMessageSize

(* Mutant: the length word is taken to count only what follows it. *)
ReadLength_exclusive ==
  /\ phase = "length"
  /\ Available(LengthPrefixSize)
  /\ nread' = nread + LengthPrefixSize
  /\ LET totalLength == Uint32(Stream, nread + 1) IN
     \/ LengthOK(totalLength) /\ phase' = "data" /\ need' = totalLength
     \/ ~LengthOK(totalLength) /\ phase' = "closed" /\ need' = need
  /\ UNCHANGED <<msgs, eof, arrived, header, payload, out, written>>

ReadLength ==
  /\ phase = "length"
  /\ Available(LengthPrefixSize)
  /\ nread' = nread + LengthPrefixSize
  /\ LET totalLength == Uint32(Stream, nread + 1) IN
     \/ /\ LengthOK(totalLength)
        /\ phase' = "data"
        /\ need' = totalLength - LengthPrefixSize
     \/ /\ ~LengthOK(totalLength)
        /\ phase' = "closed"
        /\ need' = need
  /\ UNCHANGED <<msgs, eof, arrived, header, payload, out, written>>

(* Mutant: one Read in place of io.ReadFull, which may return fewer bytes. *)
ReadData_oneRead ==
  /\ phase = "data"
  /\ Available(HeaderSize)
  /\ LET n    == IF Available(need) THEN need ELSE arrived - nread
         data == SubSeq(Stream, nread + 1, nread + n) \o Zeros(need - n)
     IN  /\ nread' = nread + n
         /\ header' = ParseHeader(data)
         /\ payload' = SubSeq(data, HeaderSize + 1, need)
  /\ phase' = "write"
  /\ UNCHANGED <<msgs, eof, arrived, need, out, written>>

ReadData ==
  /\ phase = "data"
  /\ Available(need)
  /\ LET data == SubSeq(Stream, nread + 1, nread + need) IN
     /\ header' = ParseHeader(data)
     /\ payload' = SubSeq(data, HeaderSize + 1, need)
  /\ nread' = nread + need
  /\ phase' = "write"
  /\ UNCHANGED <<msgs, eof, arrived, need, out, written>>

(* io.ReadFull meets the end of the stream, at its first byte or later. *)
ReadFails ==
  /\ phase \in {"length", "data"}
  /\ eof
  /\ ~Available(IF phase = "length" THEN LengthPrefixSize ELSE need)
  /\ phase' = "closed"
  /\ UNCHANGED <<msgs, eof, arrived, nread, need, header, payload, out, written>>

Write ==
  /\ phase = "write"
  /\ payload' = intercept(header, payload)
  /\ out' = out \o WriteMessage(header, payload')
  /\ written' = written + 1
  /\ phase' = "length"
  /\ UNCHANGED <<msgs, eof, arrived, nread, need, header>>

Next == Arrive \/ ClientCloses \/ ReadLength \/ ReadData \/ ReadFails \/ Write

Spec == Init /\ [][Next]_vars

-----------------------------------------------------------------------------
TypeOK ==
  /\ eof \in BOOLEAN /\ arrived \in Nat /\ nread \in 0 .. arrived
  /\ phase \in {"length", "data", "write", "closed"}
  /\ need \in 0 .. MaxMessageSize
  /\ header \in [1 .. 6 -> Nat]
  /\ payload \in Seq(Byte)
  /\ out \in Seq(Byte)
  /\ written \in 0 .. Len(msgs)

(***************************************************************************)
(* What the client's message m should look like upstream, told from how    *)
(* the client made it up: doc is its document, rest what follows, and the  *)
(* two are <<>> and the whole payload when it has no document to patch.    *)
(***************************************************************************)
Expected(m) ==
  LET p == IF m.define THEN XDRString(Patched[m.doc]) \o m.rest ELSE m.payload IN
  Frame(LengthPrefixSize + HeaderSize + Len(p), m.words, p)

(***************************************************************************)
(* Upstream receives exactly the client's messages, one for one, the       *)
(* documents of define calls patched and re-encoded, the flags after them  *)
(* kept, the length words right: the framing never slips, however the      *)
(* bytes arrive and whatever size the hooks give a document.               *)
(***************************************************************************)
FramingKept == out = Joined([i \in DOMAIN msgs |-> Expected(msgs[i])], written)

(* The messages that arrived complete before the first with a bad length. *)
Complete ==
  {n \in DOMAIN msgs :
     /\ \A i \in 1 .. n : LengthOK(msgs[i].length)
     /\ Len(Joined(Frames, n)) <= arrived}

(***************************************************************************)
(* When forward gives up on the stream, every message that had arrived     *)
(* complete and in good order before has been written, and none after.     *)
(***************************************************************************)
AllBeforeDamage == phase = "closed" => Complete = 1 .. written

=============================================================================
