-------------------------------- MODULE Xdr ---------------------------------
(***************************************************************************)
(* The byte-level conversions of virtinjectd/xdr.go: an XDR string is a    *)
(* big-endian length word, that many bytes, and zero bytes up to a         *)
(* multiple of four.                                                       *)
(***************************************************************************)
EXTENDS Naturals, Sequences

CONSTANT xdrStringMaxLen  \* longest string accepted; 4194304 in the code

Byte == 0 .. 255

(* n is a uint32: its highest byte is one. *)
IsUint32(n) == n \in Nat /\ n \div 16777216 \in Byte

ASSUME MaxLenAssumption == IsUint32(xdrStringMaxLen)

(* binary.BigEndian.PutUint32; n is already a uint32. *)
PutUint32(n) == <<(n \div 16777216) % 256, (n \div 65536) % 256, (n \div 256) % 256, n % 256>>

(* binary.BigEndian.Uint32 of the four bytes of data from position i on. *)
Uint32(data, i) ==
  16777216 * data[i] + 65536 * data[i + 1] + 256 * data[i + 2] + data[i + 3]

(* Mutant: no special case for a multiple of four. *)
xdrPad_always(n) == 4 - (n % 4)

xdrPad(n) ==
  LET remainder == n % 4 IN
  IF remainder = 0 THEN 0 ELSE 4 - remainder

Zeros(n) == [i \in 1 .. n |-> 0]

DecodeError == [ok |-> FALSE, str |-> <<>>, consumed |-> 0]

(* Mutant: the padding is not consumed. *)
DecodeXDRString_unpadded(data) ==
  IF Len(data) < 4 THEN DecodeError
  ELSE LET strLen == Uint32(data, 1) IN
       IF strLen > xdrStringMaxLen \/ Len(data) < 4 + strLen THEN DecodeError
       ELSE [ok |-> TRUE, str |-> SubSeq(data, 5, 4 + strLen), consumed |-> 4 + strLen]

(* The string data starts with, and the bytes it takes up. *)
DecodeXDRString(data) ==
  IF Len(data) < 4 THEN DecodeError
  ELSE LET strLen        == Uint32(data, 1)
           totalConsumed == 4 + strLen + xdrPad(strLen)
       IN  IF strLen > xdrStringMaxLen \/ Len(data) < totalConsumed THEN DecodeError
           ELSE [ok |-> TRUE, str |-> SubSeq(data, 5, 4 + strLen), consumed |-> totalConsumed]

EncodeXDRString(s) == PutUint32(Len(s)) \o s \o Zeros(xdrPad(Len(s)))

(* The first string replaced and what follows it kept, or payload itself. *)
ReplaceXDRString(payload, newStr) ==
  LET old == DecodeXDRString(payload) IN
  IF ~old.ok THEN payload
  ELSE EncodeXDRString(newStr) \o SubSeq(payload, old.consumed + 1, Len(payload))

=============================================================================
