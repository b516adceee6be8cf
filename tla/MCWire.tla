------------------------------- MODULE MCWire -------------------------------
(***************************************************************************)
(* Instances of Wire for TLC.  The limits are scaled down so that strings  *)
(* and messages reach them; documents have every length modulo 4.          *)
(***************************************************************************)
EXTENDS Wire

(* Documents by length; the bytes are those of "<" and "/", and a zero. *)
Doc(n) == [i \in 1 .. n |-> IF i = 1 THEN 60 ELSE IF i = 2 THEN 0 ELSE 47]

(* The hooks grow, shrink, keep the size of, or leave alone a document. *)
MCPatched == [s \in {Doc(n) : n \in 0 .. 5} |->
  CASE Len(s) = 1 -> Doc(4)
    [] Len(s) = 2 -> Doc(5)
    [] Len(s) = 3 -> <<47, 62, 60>>
    [] Len(s) = 5 -> Doc(1)
    [] OTHER      -> s]

Words(proc, type) == <<RemoteProgram, RemoteProtocolVersion, proc, type, 7, 0>>

Flags == <<0, 0, 0, 2>>

Define(n) == LET p == XDRString(Doc(n)) IN
  [words |-> Words(ProcDomainDefineXML, TypeCall), payload |-> p, length |-> 28 + Len(p),
   define |-> TRUE, doc |-> Doc(n), rest |-> <<>>]

DefineFlags(n) == LET p == XDRString(Doc(n)) \o Flags IN
  [words |-> Words(ProcDomainDefineXMLFlags, TypeCall), payload |-> p, length |-> 28 + Len(p),
   define |-> TRUE, doc |-> Doc(n), rest |-> Flags]

(* A message the proxy must not look into. *)
Plain(words, p) ==
  [words |-> words, payload |-> p, length |-> 28 + Len(p), define |-> FALSE, doc |-> <<>>, rest |-> p]

MCMessages ==
  {Define(n) : n \in {0, 1, 5}} \cup {DefineFlags(n) : n \in 2 .. 4} \cup
  { Plain(Words(ProcDomainDefineXML, 1), XDRString(Doc(1))),       \* a reply
    Plain(Words(10, TypeCall), <<>>),                                    \* another call
    Plain(Words(ProcDomainDefineXML, TypeCall), <<0, 0>>),               \* no length word
    Plain(Words(ProcDomainDefineXML, TypeCall), PutUint32(5) \o <<60>>), \* string cut off
    Plain(Words(ProcDomainDefineXML, TypeCall), PutUint32(6) \o Doc(6) \o Zeros(2)), \* too long
    [Plain(Words(10, TypeCall), <<>>) EXCEPT !.length = 27],
    Plain(Words(10, TypeCall), Zeros(17)) }                              \* above MaxMessageSize

=============================================================================
