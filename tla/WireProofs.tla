----------------------------- MODULE WireProofs -----------------------------
(***************************************************************************)
(* Proofs about Xdr and Wire: the conversions undo each other, and the     *)
(* stream is cut into messages and put together again, for any messages,   *)
(* any limits and any documents the hooks return.                          *)
(***************************************************************************)
EXTENDS Wire, SequenceTheorems, TLAPS

-----------------------------------------------------------------------------
(* Sequences. *)

(* What a concatenation consists of. *)
LEMMA CatSeq ==
  ASSUME NEW S, NEW x \in Seq(S), NEW y \in Seq(S)
  PROVE  x \o y \in Seq(S) /\ Len(x \o y) = Len(x) + Len(y)
BY ConcatProperties, Zenon

(* The first part of a concatenation, item by item. *)
LEMMA CatLeft ==
  ASSUME NEW S, NEW x \in Seq(S), NEW y \in Seq(S), NEW k \in 1 .. Len(x)
  PROVE  (x \o y)[k] = x[k]
BY ConcatProperties

(* The second part of a concatenation, item by item. *)
LEMMA CatRight ==
  ASSUME NEW S, NEW x \in Seq(S), NEW y \in Seq(S), NEW k \in 1 .. Len(y)
  PROVE  (x \o y)[Len(x) + k] = y[k]
<1>1. Len(x) \in Nat /\ Len(y) \in Nat
  OBVIOUS
<1> QED BY <1>1, ConcatProperties

(* Joining three sequences; a predicate, as the provers look for an atom. *)
Associates(x, y, z) == (x \o y) \o z = x \o (y \o z)

(* The order in which three sequences are joined does not matter. *)
LEMMA CatAssociates ==
  ASSUME NEW S, NEW x \in Seq(S), NEW y \in Seq(S), NEW z \in Seq(S)
  PROVE  Associates(x, y, z)
BY SMTT(30) DEF Associates

(* The middle of three sequences. *)
LEMMA MiddleOf ==
  ASSUME NEW S, NEW x \in Seq(S), NEW y \in Seq(S), NEW z \in Seq(S)
  PROVE  SubSeq(x \o (y \o z), Len(x) + 1, Len(x) + Len(y)) = y
<1> DEFINE t == x \o (y \o z)
           u == SubSeq(t, Len(x) + 1, Len(x) + Len(y))
<1>1. Len(x) \in Nat /\ Len(y) \in Nat /\ Len(z) \in Nat
  OBVIOUS
<1>2. /\ y \o z \in Seq(S) /\ Len(y \o z) = Len(y) + Len(z)
      /\ \A i \in 1 .. Len(y) : (y \o z)[i] = y[i]
  BY <1>1, ConcatProperties
<1>3. \A i \in 1 .. Len(y) : t[Len(x) + 1 + i - 1] = y[i]
  <2>1. \A i \in 1 .. Len(x) + Len(y \o z) :
           t[i] = IF i <= Len(x) THEN x[i] ELSE (y \o z)[i - Len(x)]
    BY <1>2, ConcatProperties
  <2> HIDE DEF t
  <2>2. ASSUME NEW i \in 1 .. Len(y) PROVE t[Len(x) + i] = y[i]
    BY SMTT(30), <1>1, <1>2, <2>1
  <2>3. \A i \in 1 .. Len(y) : Len(x) + 1 + i - 1 = Len(x) + i
    BY <1>1
  <2> QED BY <2>2, <2>3
<1> HIDE DEF t
<1>4. \A i \in Len(x) + 1 .. Len(x) + Len(y) : t[i] \in S
  <2> TAKE i \in Len(x) + 1 .. Len(x) + Len(y)
  <2>1. i - Len(x) \in 1 .. Len(y) /\ i = Len(x) + 1 + (i - Len(x)) - 1
    BY <1>1
  <2>2. y[i - Len(x)] \in S
    BY <2>1, ElementOfSeq
  <2> QED BY ZenonT(30), <2>1, <2>2, <1>3
<1>5. /\ u \in Seq(S) /\ Len(u) = Len(y)
      /\ \A i \in 1 .. Len(y) : u[i] = y[i]
  <2>1. /\ u \in Seq(S)
        /\ Len(u) = IF Len(x) + 1 <= Len(x) + Len(y) THEN Len(x) + Len(y) - (Len(x) + 1) + 1 ELSE 0
        /\ \A i \in 1 .. Len(x) + Len(y) - (Len(x) + 1) + 1 : u[i] = t[Len(x) + 1 + i - 1]
    BY <1>1, <1>4, SubSeqProperties
  <2>2. Len(x) + Len(y) - (Len(x) + 1) + 1 = Len(y)
    BY <1>1
  <2> QED BY <1>1, <1>3, <2>1, <2>2
<1> HIDE DEF u
<1>6. u = y
  BY <1>5, SeqEqual
<1> QED BY <1>6 DEF t, u

(* The last of two sequences. *)
LEMMA EndOf ==
  ASSUME NEW S, NEW x \in Seq(S), NEW y \in Seq(S)
  PROVE  SubSeq(x \o y, Len(x) + 1, Len(x) + Len(y)) = y
<1>1. <<>> \in Seq(S) /\ y \o <<>> = y
  BY ConcatEmptySeq
<1> QED BY <1>1, MiddleOf

-----------------------------------------------------------------------------
(* The conversions of Xdr. *)

(* A word is four bytes. *)
LEMMA PutUint32Bytes ==
  ASSUME NEW n \in Nat
  PROVE  PutUint32(n) \in Seq(Byte) /\ Len(PutUint32(n)) = 4
BY SMT DEF PutUint32, Byte

(* A uint32 is what its four bytes say, wherever they stand. *)
LEMMA Uint32OfPut ==
  ASSUME NEW n, IsUint32(n), NEW data, NEW i \in Nat,
         \A k \in 1 .. 4 : data[i + k - 1] = PutUint32(n)[k]
  PROVE  Uint32(data, i) = n
<1>1. /\ data[i] = (n \div 16777216) % 256
      /\ data[i + 1] = (n \div 65536) % 256
      /\ data[i + 2] = (n \div 256) % 256
      /\ data[i + 3] = n % 256
  BY SMT DEF PutUint32, IsUint32
<1>2. n \in Nat /\ n \div 16777216 <= 255
  BY SMT DEF IsUint32, Byte
<1>3. 16777216 * ((n \div 16777216) % 256) + 65536 * ((n \div 65536) % 256)
      + 256 * ((n \div 256) % 256) + (n % 256) = n
  BY <1>2, SMT
<1> QED BY <1>1, <1>3, SMT DEF Uint32

(* xdrPad is the padding below four that will do. *)
LEMMA PadIsUnique ==
  ASSUME NEW n \in Nat
  PROVE  xdrPad(n) \in 0 .. 3 /\ (CHOOSE k \in 0 .. 3 : (n + k) % 4 = 0) = xdrPad(n)
<1>1. xdrPad(n) \in 0 .. 3 /\ (n + xdrPad(n)) % 4 = 0
  BY DEF xdrPad
<1>2. \A k \in 0 .. 3 : (n + k) % 4 = 0 => k = xdrPad(n)
  BY DEF xdrPad
<1> QED BY <1>1, <1>2, Zenon

(* EncodeXDRString pads as the RFC says. *)
LEMMA EncodeIsXDR == ASSUME NEW s \in Seq(Byte) PROVE EncodeXDRString(s) = XDRString(s)
<1>1. (CHOOSE k \in 0 .. 3 : (Len(s) + k) % 4 = 0) = xdrPad(Len(s))
  BY PadIsUnique
<1> QED BY <1>1, Zenon DEF EncodeXDRString, XDRString

(* A word in the middle of other bytes. *)
LEMMA WordAt ==
  ASSUME NEW x \in Seq(Byte), NEW n, IsUint32(n), NEW y \in Seq(Byte)
  PROVE  Uint32(x \o (PutUint32(n) \o y), Len(x) + 1) = n
<1> DEFINE b == PutUint32(n)
           data == x \o (b \o y)
<1>1. n \in Nat
  BY SMT DEF IsUint32
<1>2. b \in Seq(Byte) /\ Len(b) = 4
  BY <1>1, PutUint32Bytes, Zenon
<1> HIDE DEF b
<1>3. b \o y \in Seq(Byte) /\ Len(b \o y) = Len(b) + Len(y)
  BY <1>2, CatSeq, Zenon
<1>4. Len(x) \in Nat /\ Len(y) \in Nat
  BY SMT
<1>5. ASSUME NEW k \in 1 .. 4 PROVE data[(Len(x) + 1) + k - 1] = b[k]
  <2>1. k \in 1 .. Len(b) /\ k \in 1 .. Len(b \o y) /\ (Len(x) + 1) + k - 1 = Len(x) + k
    <3> HIDE DEF data
    <3> QED BY <1>2, <1>3, <1>4, SMT
  <2>2. (b \o y)[k] = b[k]
    BY <2>1, <1>2, CatLeft, Zenon
  <2>3. data[Len(x) + k] = (b \o y)[k]
    BY <2>1, <1>3, CatRight, ZenonT(30)
  <2> HIDE DEF data
  <2> QED BY <2>1, <2>2, <2>3, Zenon
<1> HIDE DEF data
<1>6. Len(x) + 1 \in Nat
  BY <1>4, SMT
<1> QED BY <1>5, <1>6, Uint32OfPut, Zenon DEF b, data

(* n zeros are n bytes. *)
LEMMA ZerosBytes == ASSUME NEW n \in Nat PROVE Zeros(n) \in Seq(Byte) /\ Len(Zeros(n)) = n
BY SMT DEF Zeros, Byte

(* A length that is accepted fits into the length word. *)
LEMMA LengthFits == ASSUME NEW n \in Nat, n <= xdrStringMaxLen PROVE IsUint32(n)
BY MaxLenAssumption, SMT DEF MaxLenAssumption, IsUint32, Byte

(* What an encoded string is made of. *)
LEMMA EncodeBytes ==
  ASSUME NEW s \in Seq(Byte)
  PROVE  /\ EncodeXDRString(s) \in Seq(Byte)
         /\ Len(EncodeXDRString(s)) = 4 + Len(s) + xdrPad(Len(s))
<1> DEFINE b == PutUint32(Len(s))
           z == Zeros(xdrPad(Len(s)))
<1>1. Len(s) \in Nat
  BY SMT
<1>2. xdrPad(Len(s)) \in Nat
  <2>1. xdrPad(Len(s)) \in 0 .. 3
    BY <1>1, PadIsUnique, Zenon
  <2> QED BY <2>1, SMT
<1>3. b \in Seq(Byte) /\ Len(b) = 4 /\ z \in Seq(Byte) /\ Len(z) = xdrPad(Len(s))
  BY <1>1, <1>2, PutUint32Bytes, ZerosBytes, Zenon
<1>4. EncodeXDRString(s) = (b \o s) \o z
  BY Zenon DEF EncodeXDRString
<1> HIDE DEF b, z
<1>5. b \o s \in Seq(Byte) /\ Len(b \o s) = Len(b) + Len(s)
  BY <1>3, CatSeq, Zenon
<1>6. (b \o s) \o z \in Seq(Byte) /\ Len((b \o s) \o z) = Len(b \o s) + Len(z)
  BY <1>3, <1>5, CatSeq, Zenon
<1> QED BY <1>3, <1>4, <1>5, <1>6, Zenon

(***************************************************************************)
(* DecodeXDRString undoes EncodeXDRString, and consumes what that wrote,   *)
(* whatever follows (xdr.go).                                              *)
(***************************************************************************)
THEOREM DecodeOfEncode ==
  ASSUME NEW s \in Seq(Byte), Len(s) <= xdrStringMaxLen, NEW rest \in Seq(Byte)
  PROVE  DecodeXDRString(EncodeXDRString(s) \o rest)
           = [ok |-> TRUE, str |-> s, consumed |-> Len(EncodeXDRString(s))]
<1> DEFINE b == PutUint32(Len(s))
           z == Zeros(xdrPad(Len(s)))
           e == EncodeXDRString(s)
           data == e \o rest
<1>1. Len(s) \in Nat /\ IsUint32(Len(s)) /\ xdrPad(Len(s)) \in Nat
  <2>1. Len(s) \in Nat
    BY SMT
  <2>2. IsUint32(Len(s))
    BY <2>1, LengthFits, Zenon
  <2>3. xdrPad(Len(s)) \in 0 .. 3
    BY <2>1, PadIsUnique, Zenon
  <2> QED BY <2>1, <2>2, <2>3, SMT
<1>2. b \in Seq(Byte) /\ Len(b) = 4 /\ z \in Seq(Byte) /\ Len(z) = xdrPad(Len(s))
  BY <1>1, PutUint32Bytes, ZerosBytes, Zenon
<1>3. e = (b \o s) \o z
  BY Zenon DEF EncodeXDRString
<1> HIDE DEF b, z, e
<1>4. z \o rest \in Seq(Byte) /\ s \o (z \o rest) \in Seq(Byte) /\ b \o s \in Seq(Byte)
  BY <1>2, CatSeq, Zenon
<1>5. e \in Seq(Byte) /\ Len(e) = 4 + Len(s) + xdrPad(Len(s))
  BY EncodeBytes, Zenon DEF e
<1>6. data = b \o (s \o (z \o rest))
  <2>1. data = (b \o s) \o (z \o rest)
    <3>1. PICK c \in Seq(Byte) : c = b \o s
      BY <1>4, Zenon
    <3>2. Associates(c, z, rest)
      BY <1>2, CatAssociates, Zenon
    <3> QED BY <1>3, <3>1, <3>2, Zenon DEF Associates
  <2>2. Associates(b, s, z \o rest)
    BY <1>2, <1>4, CatAssociates, Zenon
  <2> QED BY <2>1, <2>2, Zenon DEF Associates
<1>7. Len(data) = Len(e) + Len(rest) /\ Len(rest) \in Nat
  <2>1. Len(data) = Len(e) + Len(rest)
    BY <1>5, CatSeq, Zenon
  <2>2. Len(rest) \in Nat
    BY SMT
  <2> QED BY <2>1, <2>2, Zenon
<1>8. Uint32(data, 1) = Len(s)
  <2>1. b \o (s \o (z \o rest)) \in Seq(Byte)
    BY <1>2, <1>4, CatSeq, Zenon
  <2>2. data = <<>> \o (b \o (s \o (z \o rest)))
    BY <1>6, <2>1, ConcatEmptySeq, Zenon
  <2>3. <<>> \in Seq(Byte) /\ Len(<<>>) + 1 = 1
    BY SMT
  <2>4. Uint32(<<>> \o (b \o (s \o (z \o rest))), Len(<<>>) + 1) = Len(s)
    BY <1>1, <1>4, <2>3, WordAt, Zenon DEF b
  <2> HIDE DEF data
  <2> QED BY <2>2, <2>3, <2>4, Zenon
<1>9. SubSeq(data, 5, 4 + Len(s)) = s
  <2>1. SubSeq(b \o (s \o (z \o rest)), Len(b) + 1, Len(b) + Len(s)) = s
    BY <1>2, <1>4, MiddleOf, Zenon
  <2>2. Len(b) + 1 = 5 /\ Len(b) + Len(s) = 4 + Len(s)
    BY <1>2, SMT
  <2> HIDE DEF data
  <2> QED BY <1>6, <2>1, <2>2, Zenon
<1> HIDE DEF data
<1>10. DecodeXDRString(data) = [ok |-> TRUE, str |-> s, consumed |-> Len(e)]
  <2>1. ~(Len(data) < 4) /\ ~(Len(s) > xdrStringMaxLen) /\ ~(Len(data) < Len(e))
    BY <1>1, <1>5, <1>7, MaxLenAssumption, SMTT(30) DEF MaxLenAssumption, IsUint32
  <2> QED BY <2>1, <1>5, <1>8, <1>9, Zenon DEF DecodeXDRString
<1> QED BY <1>10, Zenon DEF data, e

(***************************************************************************)
(* ReplaceXDRString puts the new string in the place of the first one, and *)
(* keeps what follows (the flags of a define call).                        *)
(***************************************************************************)
THEOREM ReplaceReplaces ==
  ASSUME NEW s \in Seq(Byte), Len(s) <= xdrStringMaxLen, NEW rest \in Seq(Byte), NEW t
  PROVE  ReplaceXDRString(EncodeXDRString(s) \o rest, t) = EncodeXDRString(t) \o rest
<1> DEFINE e == EncodeXDRString(s)
<1>1. e \in Seq(Byte)
  BY EncodeBytes, Zenon
<1> HIDE DEF e
<1>2. SubSeq(e \o rest, Len(e) + 1, Len(e \o rest)) = rest
  <2>1. Len(e \o rest) = Len(e) + Len(rest)
    BY <1>1, ConcatProperties, Zenon
  <2> QED BY <1>1, <2>1, EndOf, Zenon
<1>3. DecodeXDRString(e \o rest) = [ok |-> TRUE, str |-> s, consumed |-> Len(e)]
  BY DecodeOfEncode, Zenon DEF e
<1>4. DecodeXDRString(e \o rest).ok /\ DecodeXDRString(e \o rest).consumed = Len(e)
  BY <1>3, SMT
<1> QED BY <1>2, <1>4, Zenon DEF ReplaceXDRString, e

-----------------------------------------------------------------------------
(* Headers and frames. *)

(* A uint32 is four bytes. *)
LEMMA WordBytes ==
  ASSUME NEW n, IsUint32(n)
  PROVE  PutUint32(n) \in Seq(Byte) /\ Len(PutUint32(n)) = 4
<1>1. n \in Nat
  BY SMT DEF IsUint32
<1> QED BY <1>1, PutUint32Bytes, Zenon

(* A word between x and y. *)
LEMMA WordBetween ==
  ASSUME NEW x \in Seq(Byte), NEW n, IsUint32(n), NEW y \in Seq(Byte)
  PROVE  /\ x \o PutUint32(n) \in Seq(Byte) /\ Len(x \o PutUint32(n)) = Len(x) + 4
         /\ PutUint32(n) \o y \in Seq(Byte)
         /\ (x \o PutUint32(n)) \o y = x \o (PutUint32(n) \o y)
         /\ Uint32((x \o PutUint32(n)) \o y, Len(x) + 1) = n
<1>2. PICK b \in Seq(Byte) : b = PutUint32(n) /\ Len(b) = 4
  BY WordBytes, Zenon
<1>3. x \o b \in Seq(Byte) /\ Len(x \o b) = Len(x) + Len(b) /\ b \o y \in Seq(Byte)
  BY CatSeq, Zenon
<1>4. (x \o b) \o y = x \o (b \o y)
  <2>1. Associates(x, b, y)
    BY CatAssociates, Zenon
  <2> QED BY <2>1, Zenon DEF Associates
<1>5. Uint32(x \o (b \o y), Len(x) + 1) = n
  BY <1>2, WordAt, Zenon
<1> QED BY <1>2, <1>3, <1>4, <1>5, Zenon

(* ParseHeader undoes MarshalHeader, whatever follows (protocol.go). *)
THEOREM ParseOfMarshal ==
  ASSUME NEW h, IsHeader(h), NEW p \in Seq(Byte)
  PROVE  /\ MarshalHeader(h) \in Seq(Byte) /\ Len(MarshalHeader(h)) = 24
         /\ ParseHeader(MarshalHeader(h) \o p) = h
<1>0. /\ IsUint32(h[1]) /\ IsUint32(h[2]) /\ IsUint32(h[3])
      /\ IsUint32(h[4]) /\ IsUint32(h[5]) /\ IsUint32(h[6])
  BY SMT DEF IsHeader
<1> DEFINE x1 == <<>>
           x2 == x1 \o PutUint32(h[1])
           x3 == x2 \o PutUint32(h[2])
           x4 == x3 \o PutUint32(h[3])
           x5 == x4 \o PutUint32(h[4])
           x6 == x5 \o PutUint32(h[5])
           x7 == x6 \o PutUint32(h[6])
           y6 == p
           y5 == PutUint32(h[6]) \o y6
           y4 == PutUint32(h[5]) \o y5
           y3 == PutUint32(h[4]) \o y4
           y2 == PutUint32(h[3]) \o y3
           y1 == PutUint32(h[2]) \o y2
           data == MarshalHeader(h) \o p
<1>1. x1 \in Seq(Byte) /\ Len(x1) = 0
  BY SMT
<1>2. MarshalHeader(h) = x7
  <2>1. PutUint32(h[1]) \in Seq(Byte)
    BY <1>0, WordBytes, Zenon
  <2>2. x2 = PutUint32(h[1])
    BY <2>1, ConcatEmptySeq, Zenon
  <2> HIDE DEF x2
  <2> QED BY <2>2, Zenon DEF MarshalHeader
<1> HIDE DEF data, x1, x2, x3, x4, x5, x6, x7, y1, y2, y3, y4, y5, y6
<1>3. x2 \in Seq(Byte) /\ Len(x2) = 4
  <2>1. x2 \in Seq(Byte) /\ Len(x2) = Len(x1) + 4
    BY <1>0, <1>1, WordBetween, Zenon DEF x2
  <2> QED BY <2>1, <1>1, SMT
<1>4. x3 \in Seq(Byte) /\ Len(x3) = 8
  <2>1. x3 \in Seq(Byte) /\ Len(x3) = Len(x2) + 4
    BY <1>0, <1>3, WordBetween, Zenon DEF x3
  <2> QED BY <2>1, <1>3, SMT
<1>5. x4 \in Seq(Byte) /\ Len(x4) = 12
  <2>1. x4 \in Seq(Byte) /\ Len(x4) = Len(x3) + 4
    BY <1>0, <1>4, WordBetween, Zenon DEF x4
  <2> QED BY <2>1, <1>4, SMT
<1>6. x5 \in Seq(Byte) /\ Len(x5) = 16
  <2>1. x5 \in Seq(Byte) /\ Len(x5) = Len(x4) + 4
    BY <1>0, <1>5, WordBetween, Zenon DEF x5
  <2> QED BY <2>1, <1>5, SMT
<1>7. x6 \in Seq(Byte) /\ Len(x6) = 20
  <2>1. x6 \in Seq(Byte) /\ Len(x6) = Len(x5) + 4
    BY <1>0, <1>6, WordBetween, Zenon DEF x6
  <2> QED BY <2>1, <1>6, SMT
<1>8. x7 \in Seq(Byte) /\ Len(x7) = 24
  <2>1. x7 \in Seq(Byte) /\ Len(x7) = Len(x6) + 4
    BY <1>0, <1>7, WordBetween, Zenon DEF x7
  <2> QED BY <2>1, <1>7, SMT
<1>9. y6 \in Seq(Byte) /\ data = x7 \o y6
  BY <1>2, Zenon DEF y6, data
<1>10. Uint32(data, 21) = h[6] /\ y5 \in Seq(Byte) /\ data = x6 \o y5
  <2>1. Uint32((x6 \o PutUint32(h[6])) \o y6, Len(x6) + 1) = h[6]
    BY <1>0, <1>7, <1>9, WordBetween, ZenonT(30)
  <2>2. Len(x6) + 1 = 21
    BY <1>7, SMT
  <2>3. PICK b \in Seq(Byte) : b = PutUint32(h[6])
    BY <1>0, WordBytes, Zenon
  <2>4. (x6 \o b) \o y6 = x6 \o (b \o y6)
    <3>1. Associates(x6, b, y6)
      BY <1>7, <1>9, CatAssociates, Zenon
    <3> QED BY <3>1, Zenon DEF Associates
  <2>5. b \o y6 \in Seq(Byte)
    BY <1>9, CatSeq, Zenon
  <2> QED BY <2>1, <2>2, <2>3, <2>4, <2>5, <1>9, Zenon DEF x7, y5
<1>11. Uint32(data, 17) = h[5] /\ y4 \in Seq(Byte) /\ data = x5 \o y4
  <2>1. Uint32((x5 \o PutUint32(h[5])) \o y5, Len(x5) + 1) = h[5]
    BY <1>0, <1>6, <1>10, WordBetween, ZenonT(30)
  <2>2. Len(x5) + 1 = 17
    BY <1>6, SMT
  <2>3. PICK b \in Seq(Byte) : b = PutUint32(h[5])
    BY <1>0, WordBytes, Zenon
  <2>4. (x5 \o b) \o y5 = x5 \o (b \o y5)
    <3>1. Associates(x5, b, y5)
      BY <1>6, <1>10, CatAssociates, Zenon
    <3> QED BY <3>1, Zenon DEF Associates
  <2>5. b \o y5 \in Seq(Byte)
    BY <1>10, CatSeq, Zenon
  <2> QED BY <2>1, <2>2, <2>3, <2>4, <2>5, <1>10, Zenon DEF x6, y4
<1>12. Uint32(data, 13) = h[4] /\ y3 \in Seq(Byte) /\ data = x4 \o y3
  <2>1. Uint32((x4 \o PutUint32(h[4])) \o y4, Len(x4) + 1) = h[4]
    BY <1>0, <1>5, <1>11, WordBetween, Zenon
  <2>2. Len(x4) + 1 = 13
    BY <1>5, SMT
  <2>3. PICK b \in Seq(Byte) : b = PutUint32(h[4])
    BY <1>0, WordBytes, Zenon
  <2>4. (x4 \o b) \o y4 = x4 \o (b \o y4)
    <3>1. Associates(x4, b, y4)
      BY <1>5, <1>11, CatAssociates, Zenon
    <3> QED BY <3>1, Zenon DEF Associates
  <2>5. b \o y4 \in Seq(Byte)
    BY <1>11, CatSeq, Zenon
  <2> QED BY <2>1, <2>2, <2>3, <2>4, <2>5, <1>11, Zenon DEF x5, y3
<1>13. Uint32(data, 9) = h[3] /\ y2 \in Seq(Byte) /\ data = x3 \o y2
  <2>1. Uint32((x3 \o PutUint32(h[3])) \o y3, Len(x3) + 1) = h[3]
    BY <1>0, <1>4, <1>12, WordBetween, ZenonT(30)
  <2>2. Len(x3) + 1 = 9
    BY <1>4, SMT
  <2>3. PICK b \in Seq(Byte) : b = PutUint32(h[3])
    BY <1>0, WordBytes, Zenon
  <2>4. (x3 \o b) \o y3 = x3 \o (b \o y3)
    <3>1. Associates(x3, b, y3)
      BY <1>4, <1>12, CatAssociates, Zenon
    <3> QED BY <3>1, Zenon DEF Associates
  <2>5. b \o y3 \in Seq(Byte)
    BY <1>12, CatSeq, Zenon
  <2> QED BY <2>1, <2>2, <2>3, <2>4, <2>5, <1>12, Zenon DEF x4, y2
<1>14. Uint32(data, 5) = h[2] /\ y1 \in Seq(Byte) /\ data = x2 \o y1
  <2>1. Uint32((x2 \o PutUint32(h[2])) \o y2, Len(x2) + 1) = h[2]
    BY <1>0, <1>3, <1>13, WordBetween, ZenonT(30)
  <2>2. Len(x2) + 1 = 5
    BY <1>3, SMT
  <2>3. PICK b \in Seq(Byte) : b = PutUint32(h[2])
    BY <1>0, WordBytes, Zenon
  <2>4. (x2 \o b) \o y2 = x2 \o (b \o y2)
    <3>1. Associates(x2, b, y2)
      BY <1>3, <1>13, CatAssociates, Zenon
    <3> QED BY <3>1, Zenon DEF Associates
  <2>5. b \o y2 \in Seq(Byte)
    BY <1>13, CatSeq, Zenon
  <2> QED BY <2>1, <2>2, <2>3, <2>4, <2>5, <1>13, Zenon DEF x3, y1
<1>15. Uint32(data, 1) = h[1]
  <2>1. Uint32((x1 \o PutUint32(h[1])) \o y1, Len(x1) + 1) = h[1]
    BY <1>0, <1>1, <1>14, WordBetween, ZenonT(30)
  <2>2. Len(x1) + 1 = 1
    BY <1>1, SMT
  <2> QED BY <2>1, <2>2, <1>14, Zenon DEF x2
<1>16. \A w \in 1 .. 6 : Uint32(data, 4 * w - 3) = h[w]
  <2> TAKE w \in 1 .. 6
  <2>1. w \in {1, 2, 3, 4, 5, 6}
    BY SMT
  <2>2. 4 * 1 - 3 = 1 /\ 4 * 2 - 3 = 5 /\ 4 * 3 - 3 = 9 /\ 4 * 4 - 3 = 13
        /\ 4 * 5 - 3 = 17 /\ 4 * 6 - 3 = 21
    BY SMT
  <2> QED BY <2>1, <2>2, <1>10, <1>11, <1>12, <1>13, <1>14, <1>15, Zenon
<1>17. ParseHeader(data) = h
  BY <1>16, Zenon DEF ParseHeader, IsHeader
<1> QED BY <1>2, <1>8, <1>17, Zenon DEF data

(* A frame: its length word, its header and its payload. *)
LEMMA FrameParts ==
  ASSUME NEW n \in Nat, NEW h, IsHeader(h), NEW p \in Seq(Byte)
  PROVE  /\ Frame(n, h, p) \in Seq(Byte) /\ Len(Frame(n, h, p)) = 28 + Len(p)
         /\ Frame(n, h, p) = PutUint32(n) \o (MarshalHeader(h) \o p)
         /\ MarshalHeader(h) \o p \in Seq(Byte) /\ Len(MarshalHeader(h) \o p) = 24 + Len(p)
<1>1. PICK b \in Seq(Byte) : b = PutUint32(n) /\ Len(b) = 4
  BY PutUint32Bytes, Zenon
<1>2. PICK c \in Seq(Byte) : c = MarshalHeader(h) /\ Len(c) = 24
  BY ParseOfMarshal, Zenon
<1>3. (b \o c) \o p = b \o (c \o p)
  <2>1. Associates(b, c, p)
    BY CatAssociates, Zenon
  <2> QED BY <2>1, Zenon DEF Associates
<1>4. c \o p \in Seq(Byte) /\ Len(c \o p) = Len(c) + Len(p)
  BY CatSeq, Zenon
<1>5. b \o (c \o p) \in Seq(Byte) /\ Len(b \o (c \o p)) = Len(b) + Len(c \o p)
  BY <1>4, CatSeq, Zenon
<1>6. Len(p) \in Nat
  BY LenProperties, Zenon
<1>7. 4 + (24 + Len(p)) = 28 + Len(p)
  BY ONLY <1>6, SMT
<1>8. Frame(n, h, p) = (b \o c) \o p
  BY <1>1, <1>2, Zenon DEF Frame
<1> QED BY <1>1, <1>2, <1>3, <1>4, <1>5, <1>7, <1>8, Zenon

(* After i bytes of stream comes a message: length word n, header h, payload p. *)
MessageAt(stream, i, n, h, p) ==
  LET data == SubSeq(stream, i + 4 + 1, i + 4 + (24 + Len(p))) IN
  /\ Uint32(stream, i + 1) = n
  /\ ParseHeader(data) = h
  /\ SubSeq(data, 24 + 1, 24 + Len(p)) = p

(* What ReadMessage makes of a frame in the middle of the stream. *)
LEMMA FrameRead ==
  ASSUME NEW n, IsUint32(n), NEW h, IsHeader(h), NEW p \in Seq(Byte),
         NEW x \in Seq(Byte), NEW y \in Seq(Byte)
  PROVE  MessageAt(x \o (Frame(n, h, p) \o y), Len(x), n, h, p)
<1> DEFINE stream == x \o (Frame(n, h, p) \o y)
           data == SubSeq(stream, Len(x) + 4 + 1, Len(x) + 4 + (24 + Len(p)))
<1>0. n \in Nat
  BY SMT DEF IsUint32
<1>1. PICK b \in Seq(Byte) : b = PutUint32(n) /\ Len(b) = 4
  BY <1>0, PutUint32Bytes, Zenon
<1>2. PICK c \in Seq(Byte) : c = MarshalHeader(h) /\ Len(c) = 24
  BY ParseOfMarshal, Zenon
<1>3. PICK d \in Seq(Byte) : d = c \o p /\ Len(d) = 24 + Len(p)
  BY <1>0, <1>2, FrameParts, ZenonT(30)
<1>4. Frame(n, h, p) = b \o d
  <2>1. Frame(n, h, p) = PutUint32(n) \o (MarshalHeader(h) \o p)
    BY <1>0, FrameParts, Zenon
  <2> QED BY <1>1, <1>2, <1>3, <2>1, Zenon
<1>5. d \o y \in Seq(Byte) /\ x \o b \in Seq(Byte) /\ Len(x \o b) = Len(x) + Len(b)
  BY CatSeq, Zenon
<1>6. (b \o d) \o y = b \o (d \o y) /\ (x \o b) \o (d \o y) = x \o (b \o (d \o y))
  <2>1. Associates(b, d, y) /\ Associates(x, b, d \o y)
    BY <1>5, CatAssociates, Zenon
  <2> QED BY <2>1, Zenon DEF Associates
<1>7. Uint32(stream, Len(x) + 1) = n
  <2>1. Uint32(x \o (PutUint32(n) \o (d \o y)), Len(x) + 1) = n
    BY <1>5, WordAt, Zenon
  <2> QED BY <2>1, <1>1, <1>4, <1>6, Zenon
<1>8. data = d
  <2>1. SubSeq((x \o b) \o (d \o y), Len(x \o b) + 1, Len(x \o b) + Len(d)) = d
    BY <1>5, MiddleOf, Zenon
  <2> QED BY <2>1, <1>1, <1>3, <1>4, <1>5, <1>6, Zenon
<1>9. ParseHeader(c \o p) = h
  BY <1>2, ParseOfMarshal, Zenon
<1>10. SubSeq(c \o p, Len(c) + 1, Len(c) + Len(p)) = p
  BY EndOf, Zenon
<1> HIDE DEF stream, data
<1>11. Uint32(stream, Len(x) + 1) = n /\ ParseHeader(data) = h /\ SubSeq(data, 24 + 1, 24 + Len(p)) = p
  BY <1>2, <1>3, <1>7, <1>8, <1>9, <1>10, Zenon
<1> QED BY <1>11, Zenon DEF MessageAt, stream, data

(* The payload that should go upstream for m. *)
PayloadOf(m) == IF m.define THEN XDRString(Patched[m.doc]) \o m.rest ELSE m.payload

(* What is known of a message. *)
LEMMA MessageParts ==
  ASSUME NEW m, IsMessage(m)
  PROVE  /\ IsHeader(m.words) /\ IsUint32(m.length) /\ m.length \in Nat
         /\ m.payload \in Seq(Byte) /\ m.doc \in Seq(Byte) /\ m.rest \in Seq(Byte)
         /\ LengthOK(m.length) => m.length = 28 + Len(m.payload)
<1>1. /\ IsHeader(m.words) /\ IsUint32(m.length)
      /\ m.payload \in Seq(Byte) /\ m.doc \in Seq(Byte) /\ m.rest \in Seq(Byte)
      /\ m.length >= LengthPrefixSize + HeaderSize
           => m.length = LengthPrefixSize + HeaderSize + Len(m.payload)
  BY Zenon DEF IsMessage
<1>2. m.length \in Nat
  BY <1>1, SMT DEF IsUint32
<1>3. LengthPrefixSize + HeaderSize = 28
  BY SMT DEF LengthPrefixSize, HeaderSize
<1>4. LengthOK(m.length) => m.length >= LengthPrefixSize + HeaderSize
  BY Zenon DEF LengthOK
<1> QED BY <1>1, <1>2, <1>3, <1>4, Zenon

(***************************************************************************)
(* intercept patches the document of a define call, keeps what follows it, *)
(* and leaves any other message alone (protocol.go).                       *)
(***************************************************************************)
THEOREM InterceptPatches ==
  ASSUME NEW m, IsMessage(m)
  PROVE  /\ intercept(m.words, m.payload) = PayloadOf(m)
         /\ PayloadOf(m) \in Seq(Byte)
<1>1. m.payload \in Seq(Byte) /\ m.doc \in Seq(Byte) /\ m.rest \in Seq(Byte)
  BY MessageParts, Zenon
<1>2. CASE m.define
  <2>1. /\ IsDomainDefineCall(m.words) /\ Len(m.doc) <= xdrStringMaxLen
        /\ m.doc \in DOMAIN Patched /\ m.payload = XDRString(m.doc) \o m.rest
    BY <1>2, Zenon DEF IsMessage
  <2>2. PICK t \in Seq(Byte) : t = Patched[m.doc]
    BY <2>1, PatchedAssumption, Zenon DEF PatchedAssumption
  <2>3. m.payload = EncodeXDRString(m.doc) \o m.rest /\ XDRString(t) = EncodeXDRString(t)
    BY <1>1, <2>1, EncodeIsXDR, Zenon
  <2>4. DecodeXDRString(m.payload)
          = [ok |-> TRUE, str |-> m.doc, consumed |-> Len(EncodeXDRString(m.doc))]
    BY <1>1, <2>1, <2>3, DecodeOfEncode, Zenon
  <2>5. DecodeXDRString(m.payload).ok /\ DecodeXDRString(m.payload).str = m.doc
    BY <2>4, SMT
  <2>6. ReplaceXDRString(m.payload, t) = EncodeXDRString(t) \o m.rest
    <3>1. ReplaceXDRString(EncodeXDRString(m.doc) \o m.rest, t) = EncodeXDRString(t) \o m.rest
      BY <1>1, <2>1, ReplaceReplaces, ZenonT(30)
    <3> QED BY <2>3, <3>1, Zenon
  <2>7. patchDefineXML(m.payload) = IF t = m.doc THEN m.payload ELSE ReplaceXDRString(m.payload, t)
    BY <2>2, <2>5, Zenon DEF patchDefineXML
  <2>8. PayloadOf(m) = EncodeXDRString(t) \o m.rest
    BY <1>2, <2>2, <2>3, Zenon DEF PayloadOf
  <2>9. patchDefineXML(m.payload) = PayloadOf(m)
    BY <2>3, <2>6, <2>7, <2>8, Zenon
  <2>10. EncodeXDRString(t) \in Seq(Byte)
    BY EncodeBytes, Zenon
  <2>11. PayloadOf(m) \in Seq(Byte)
    BY <1>1, <2>8, <2>10, CatSeq, Zenon
  <2> QED BY <2>1, <2>9, <2>11, Zenon DEF intercept
<1>3. CASE ~m.define
  <2>1. ~IsDomainDefineCall(m.words) \/ ~DecodeXDRString(m.payload).ok
    BY <1>3, Zenon DEF IsMessage
  <2>2. intercept(m.words, m.payload) = m.payload
    BY <2>1, Zenon DEF intercept, patchDefineXML
  <2> QED BY <1>1, <1>3, <2>2, Zenon DEF PayloadOf
<1> QED BY <1>2, <1>3

(* What is written for m is what is expected. *)
LEMMA WriteIsExpected ==
  ASSUME NEW m, IsMessage(m)
  PROVE  /\ WriteMessage(m.words, intercept(m.words, m.payload)) = Expected(m)
         /\ Expected(m) \in Seq(Byte)
<1>1. intercept(m.words, m.payload) = PayloadOf(m) /\ PayloadOf(m) \in Seq(Byte)
  BY InterceptPatches, Zenon
<1>2. Expected(m) = Frame(LengthPrefixSize + HeaderSize + Len(PayloadOf(m)), m.words, PayloadOf(m))
  BY Zenon DEF Expected, PayloadOf
<1>3. LengthPrefixSize + HeaderSize + Len(PayloadOf(m)) \in Nat
  <2>1. Len(PayloadOf(m)) \in Nat
    BY <1>1, LenProperties, Zenon
  <2> QED BY ONLY <2>1, SMT DEF LengthPrefixSize, HeaderSize
<1>4. IsHeader(m.words)
  BY MessageParts, Zenon
<1>5. Expected(m) \in Seq(Byte)
  BY <1>1, <1>2, <1>3, <1>4, FrameParts, ZenonT(30)
<1> QED BY <1>1, <1>2, <1>5, Zenon DEF WriteMessage

-----------------------------------------------------------------------------
(* Induction. *)

LOCAL INSTANCE WellFoundedInduction

(* A set of naturals that is not empty has a least member. *)
LEMMA Least ==
  ASSUME NEW T, T \subseteq Nat, T # {}
  PROVE  \E x \in T : \A y \in T : x <= y
<1> DEFINE R == OpToRel(<, Nat)
<1>1. IsWellFoundedOn(R, Nat)
  BY NatLessThanWellFounded
<1>2. \A x, y \in Nat : <<y, x>> \notin R => x <= y
  BY DEF OpToRel
<1> HIDE DEF R
<1>3. PICK x \in T : \A y \in T : <<y, x>> \notin R
  BY ZenonT(30), <1>1, WFMin
<1>4. \A y \in T : x <= y
  BY <1>2, <1>3, Zenon
<1> QED BY <1>4

(* The natural numbers are in every set that has 0 and successors. *)
LEMMA Induction ==
  ASSUME NEW S, 0 \in S, \A n \in Nat : n \in S => n + 1 \in S
  PROVE  Nat \subseteq S
<1> SUFFICES ASSUME Nat \ S # {} PROVE FALSE
  OBVIOUS
<1> DEFINE T == Nat \ S
<1>1. T \subseteq Nat /\ T # {}
  OBVIOUS
<1> HIDE DEF T
<1>2. PICK x \in T : \A y \in T : x <= y
  BY ZenonT(30), <1>1, Least
<1>3. x \in Nat /\ x # 0 /\ x - 1 \in Nat /\ x = (x - 1) + 1
  BY <1>2 DEF T
<1>4. x - 1 \in T
  BY <1>2, <1>3 DEF T
<1> QED BY <1>2, <1>3, <1>4

-----------------------------------------------------------------------------
(* Joined. *)

(* g has the joins of the first 0 to n parts. *)
IsJoin(g, parts, n) == g = [k \in 0 .. n |-> IF k = 0 THEN <<>> ELSE g[k - 1] \o parts[k]]

(* The joins, one part after the other. *)
LEMMA JoinSteps ==
  ASSUME NEW g, NEW parts, NEW n \in Nat, IsJoin(g, parts, n)
  PROVE  g[0] = <<>> /\ \A k \in 0 .. n - 1 : g[k + 1] = g[k] \o parts[k + 1]
<1>1. \A k \in 0 .. n : g[k] = IF k = 0 THEN <<>> ELSE g[k - 1] \o parts[k]
  BY Zenon DEF IsJoin
<1>2. 0 \in 0 .. n /\ \A k \in 0 .. n - 1 : k + 1 \in 0 .. n /\ k + 1 # 0 /\ (k + 1) - 1 = k
  BY SMT
<1>3. g[0] = <<>>
  BY <1>1, <1>2, Zenon
<1>4. ASSUME NEW k \in 0 .. n - 1 PROVE g[k + 1] = g[k] \o parts[k + 1]
  <2>1. g[k + 1] = g[(k + 1) - 1] \o parts[k + 1]
    BY <1>1, <1>2, Zenon
  <2>2. (k + 1) - 1 = k
    BY <1>2
  <2> QED BY <2>1, <2>2, Zenon
<1> QED BY ZenonT(30), <1>3, <1>4

(* There are such joins for any number of parts. *)
LEMMA JoinExists == ASSUME NEW parts, NEW n \in Nat PROVE \E g : IsJoin(g, parts, n)
<1> DEFINE S == {m \in Nat : \E g : IsJoin(g, parts, m)}
<1>1. 0 \in S
  <2> DEFINE g == [k \in 0 .. 0 |-> <<>>]
  <2>1. \A k \in 0 .. 0 : k = 0
    BY SMT
  <2>2. g = [k \in 0 .. 0 |-> IF k = 0 THEN <<>> ELSE g[k - 1] \o parts[k]]
    BY <2>1, Zenon
  <2>3. IsJoin(g, parts, 0)
    BY <2>2, Zenon DEF IsJoin
  <2> QED BY <2>3
<1>2. ASSUME NEW m \in Nat, m \in S PROVE m + 1 \in S
  <2>1. PICK g : IsJoin(g, parts, m)
    BY <1>2
  <2> DEFINE h == [k \in 0 .. m + 1 |-> IF k <= m THEN g[k] ELSE g[m] \o parts[m + 1]]
  <2>2. \A k \in 0 .. m : g[k] = IF k = 0 THEN <<>> ELSE g[k - 1] \o parts[k]
    BY <2>1, Zenon DEF IsJoin
  <2>3. ASSUME NEW k \in 0 .. m + 1
        PROVE  h[k] = IF k = 0 THEN <<>> ELSE h[k - 1] \o parts[k]
    <3>1. h[k] = IF k <= m THEN g[k] ELSE g[m] \o parts[m + 1]
      BY Zenon
    <3>2. k # 0 => h[k - 1] = g[k - 1]
      <4>1. k # 0 => k - 1 \in 0 .. m + 1 /\ k - 1 <= m
        BY SMT
      <4> QED BY <4>1, Zenon
    <3> HIDE DEF h
    <3>3. CASE k <= m
      <4>1. k \in 0 .. m
        BY <3>3, SMT
      <4> QED BY <4>1, <3>1, <3>2, <3>3, <2>2, Zenon
    <3>4. CASE ~(k <= m)
      <4>1. k = m + 1 /\ k # 0 /\ k - 1 = m
        BY <3>4, SMT
      <4> QED BY <4>1, <3>1, <3>2, <3>4, Zenon
    <3> QED BY <3>3, <3>4
  <2>4. h = [k \in 0 .. m + 1 |-> IF k = 0 THEN <<>> ELSE h[k - 1] \o parts[k]]
    <3>1. h = [k \in 0 .. m + 1 |-> h[k]]
      BY Zenon
    <3> HIDE DEF h
    <3> QED BY <2>3, <3>1, Zenon
  <2>5. IsJoin(h, parts, m + 1)
    <3> HIDE DEF h
    <3> QED BY <2>4, Zenon DEF IsJoin
  <2> QED BY <2>5
<1>3. n \in S
  <2> HIDE DEF S
  <2> QED BY <1>1, <1>2, Induction
<1> QED BY <1>3

(* They are the same however many parts follow. *)
LEMMA JoinUnique ==
  ASSUME NEW parts, NEW n \in Nat, NEW g, NEW h, IsJoin(g, parts, n), IsJoin(h, parts, n + 1)
  PROVE  g[n] = h[n]
<1> DEFINE S == {k \in Nat : k <= n => g[k] = h[k]}
<1>1. /\ g[0] = <<>> /\ \A k \in 0 .. n - 1 : g[k + 1] = g[k] \o parts[k + 1]
      /\ h[0] = <<>> /\ \A k \in 0 .. (n + 1) - 1 : h[k + 1] = h[k] \o parts[k + 1]
  <2>1. g[0] = <<>> /\ \A k \in 0 .. n - 1 : g[k + 1] = g[k] \o parts[k + 1]
    BY JoinSteps, Zenon
  <2>2. n + 1 \in Nat
    BY SMT
  <2>3. h[0] = <<>> /\ \A k \in 0 .. (n + 1) - 1 : h[k + 1] = h[k] \o parts[k + 1]
    BY <2>2, JoinSteps, ZenonT(30)
  <2> QED BY ZenonT(30), <2>1, <2>3
<1>2. 0 \in S
  BY SMTT(30), <1>1
<1>3. ASSUME NEW k \in Nat, k \in S PROVE k + 1 \in S
  <2> SUFFICES ASSUME k + 1 <= n PROVE g[k + 1] = h[k + 1]
    OBVIOUS
  <2>1. k <= n /\ k \in 0 .. n - 1 /\ k \in 0 .. (n + 1) - 1
    BY SMT
  <2> QED BY <2>1, <1>1, <1>3, Zenon
<1>4. n \in S
  <2> HIDE DEF S
  <2> QED BY <1>2, <1>3, Induction
<1> QED BY <1>4

(* Joined, one part at a time. *)
LEMMA JoinedParts ==
  ASSUME NEW parts
  PROVE  /\ Joined(parts, 0) = <<>>
         /\ \A n \in Nat : Joined(parts, n + 1) = Joined(parts, n) \o parts[n + 1]
<1>1. ASSUME NEW n \in Nat PROVE \E g : IsJoin(g, parts, n) /\ Joined(parts, n) = g[n]
  <2> DEFINE upTo[k \in 0 .. n] == IF k = 0 THEN <<>> ELSE upTo[k - 1] \o parts[k]
  <2>1. upTo = CHOOSE g : g = [k \in 0 .. n |-> IF k = 0 THEN <<>> ELSE g[k - 1] \o parts[k]]
    BY DEF upTo
  <2>2. Joined(parts, n) = upTo[n]
    BY DEF Joined, upTo
  <2> HIDE DEF upTo
  <2>3. \E g : g = [k \in 0 .. n |-> IF k = 0 THEN <<>> ELSE g[k - 1] \o parts[k]]
    BY JoinExists, Zenon DEF IsJoin
  <2>4. IsJoin(upTo, parts, n)
    BY <2>1, <2>3, Zenon DEF IsJoin
  <2> QED BY <2>2, <2>4
<1>2. Joined(parts, 0) = <<>>
  <2>1. PICK g : IsJoin(g, parts, 0) /\ Joined(parts, 0) = g[0]
    BY <1>1
  <2> QED BY ZenonT(30), <2>1, JoinSteps
<1>3. ASSUME NEW n \in Nat PROVE Joined(parts, n + 1) = Joined(parts, n) \o parts[n + 1]
  <2>1. PICK g : IsJoin(g, parts, n) /\ Joined(parts, n) = g[n]
    BY <1>1
  <2>2. n + 1 \in Nat /\ n \in 0 .. (n + 1) - 1
    BY SMT
  <2>3. PICK h : IsJoin(h, parts, n + 1) /\ Joined(parts, n + 1) = h[n + 1]
    BY <1>1, <2>2
  <2>4. h[n + 1] = h[n] \o parts[n + 1]
    BY <2>2, <2>3, JoinSteps, ZenonT(30)
  <2>5. g[n] = h[n]
    BY <2>1, <2>3, JoinUnique, ZenonT(30)
  <2> QED BY <2>1, <2>3, <2>4, <2>5, Zenon
<1> QED BY ZenonT(30), <1>2, <1>3

(* What the joins of byte sequences are made of. *)
LEMMA JoinedBytes ==
  ASSUME NEW parts, NEW n \in Nat, \A i \in 1 .. n : parts[i] \in Seq(Byte)
  PROVE  \A k \in 0 .. n : Joined(parts, k) \in Seq(Byte)
<1> DEFINE S == {k \in Nat : k <= n => Joined(parts, k) \in Seq(Byte)}
<1>1. 0 \in S
  <2>1. Joined(parts, 0) = <<>> /\ <<>> \in Seq(Byte) /\ 0 \in Nat
    BY JoinedParts, EmptySeq, Zenon
  <2> QED BY <2>1, Zenon
<1>2. ASSUME NEW k \in Nat, k \in S PROVE k + 1 \in S
  <2> SUFFICES ASSUME k + 1 <= n PROVE Joined(parts, k + 1) \in Seq(Byte)
    <3>1. k + 1 \in Nat
      BY SMT
    <3> QED BY <3>1, Zenon
  <2>1. k <= n /\ k + 1 \in 1 .. n
    BY SMT
  <2>2. Joined(parts, k) \in Seq(Byte) /\ parts[k + 1] \in Seq(Byte)
    BY <1>2, <2>1, Zenon
  <2>3. Joined(parts, k) \o parts[k + 1] \in Seq(Byte)
    BY <2>2, CatSeq, Zenon
  <2> QED BY <2>3, JoinedParts, Zenon
<1>3. Nat \subseteq S
  <2> HIDE DEF S
  <2> QED BY <1>1, <1>2, Induction, Zenon
<1>4. \A k \in 0 .. n : k \in Nat /\ k <= n
  BY SMT
<1> QED BY <1>3, <1>4, Zenon

(* A longer join starts with the shorter one. *)
LEMMA JoinedPrefix ==
  ASSUME NEW parts, NEW n \in Nat, \A i \in 1 .. n : parts[i] \in Seq(Byte), NEW k \in 0 .. n
  PROVE  \E y \in Seq(Byte) : Joined(parts, n) = Joined(parts, k) \o y
<1> DEFINE j(i) == Joined(parts, i)
           S == {d \in Nat : k + d <= n => \E y \in Seq(Byte) : j(k + d) = j(k) \o y}
<1>1. \A i \in 0 .. n : j(i) \in Seq(Byte)
  BY JoinedBytes, Zenon
<1>2. \A i \in Nat : j(i + 1) = j(i) \o parts[i + 1]
  BY JoinedParts, Zenon
<1> HIDE DEF j
<1>3. 0 \in S
  <2>1. <<>> \in Seq(Byte) /\ j(k) \o <<>> = j(k)
    BY <1>1, EmptySeq, ConcatEmptySeq, Zenon
  <2>2. k + 0 = k
    BY SMT
  <2> QED BY <2>1, <2>2, Zenon
<1>4. ASSUME NEW d \in Nat, d \in S PROVE d + 1 \in S
  <2>0. d + 1 \in Nat
    BY SMT
  <2> SUFFICES ASSUME k + (d + 1) <= n
               PROVE  \E y \in Seq(Byte) : j(k + (d + 1)) = j(k) \o y
    BY <2>0, Zenon
  <2>1. k + d <= n /\ k + d \in Nat /\ k + (d + 1) = (k + d) + 1 /\ (k + d) + 1 \in 1 .. n
    BY SMT
  <2>2. PICK y \in Seq(Byte) : j(k + d) = j(k) \o y
    BY <1>4, <2>1, Zenon
  <2>3. j((k + d) + 1) = j(k + d) \o parts[(k + d) + 1]
    BY <1>2, <2>1, Zenon
  <2>4. PICK b \in Seq(Byte) : b = parts[(k + d) + 1]
    BY <2>1, Zenon
  <2>5. PICK x \in Seq(Byte) : x = j(k)
    BY <1>1, Zenon
  <2>6. (x \o y) \o b = x \o (y \o b)
    <3>1. Associates(x, y, b)
      BY CatAssociates, Zenon
    <3> QED BY <3>1, Zenon DEF Associates
  <2>7. y \o b \in Seq(Byte)
    BY CatSeq, Zenon
  <2> QED BY <2>1, <2>2, <2>3, <2>4, <2>5, <2>6, <2>7, Zenon
<1>5. Nat \subseteq S
  <2> HIDE DEF S
  <2> QED BY <1>3, <1>4, Induction, Zenon
<1>6. n - k \in Nat /\ k + (n - k) = n /\ n <= n
  BY SMT
<1>7. n - k \in S
  BY <1>5, <1>6, Zenon
<1>8. \E y \in Seq(Byte) : j(n) = j(k) \o y
  BY <1>6, <1>7, Zenon
<1> QED BY <1>8, Zenon DEF j

(* The parts in a join, and where they start. *)
LEMMA JoinedAt ==
  ASSUME NEW parts, NEW n \in Nat, \A i \in 1 .. n : parts[i] \in Seq(Byte), NEW k \in 0 .. n - 1
  PROVE  /\ \E y \in Seq(Byte) : Joined(parts, n) = Joined(parts, k) \o (parts[k + 1] \o y)
         /\ Len(Joined(parts, k + 1)) = Len(Joined(parts, k)) + Len(parts[k + 1])
<1>1. k \in Nat /\ k + 1 \in 0 .. n /\ k \in 0 .. n /\ k + 1 \in 1 .. n
  BY SMT
<1>2. PICK y \in Seq(Byte) : Joined(parts, n) = Joined(parts, k + 1) \o y
  BY <1>1, JoinedPrefix, Zenon
<1>3. Joined(parts, k + 1) = Joined(parts, k) \o parts[k + 1]
  BY <1>1, JoinedParts, Zenon
<1>4. PICK x \in Seq(Byte) : x = Joined(parts, k)
  BY <1>1, JoinedBytes, Zenon
<1>5. PICK b \in Seq(Byte) : b = parts[k + 1]
  BY <1>1, Zenon
<1>6. (x \o b) \o y = x \o (b \o y)
  <2>1. Associates(x, b, y)
    BY CatAssociates, Zenon
  <2> QED BY <2>1, Zenon DEF Associates
<1>7. Len(x \o b) = Len(x) + Len(b)
  BY CatSeq, Zenon
<1> QED BY <1>2, <1>3, <1>4, <1>5, <1>6, <1>7, Zenon

(* A longer join has no fewer bytes. *)
LEMMA JoinedLonger ==
  ASSUME NEW parts, NEW n \in Nat, \A i \in 1 .. n : parts[i] \in Seq(Byte), NEW k \in 0 .. n
  PROVE  Len(Joined(parts, k)) <= Len(Joined(parts, n))
<1>1. PICK y \in Seq(Byte) : Joined(parts, n) = Joined(parts, k) \o y
  BY JoinedPrefix, Zenon
<1>2. PICK x \in Seq(Byte) : x = Joined(parts, k)
  BY JoinedBytes, Zenon
<1>3. Len(x \o y) = Len(x) + Len(y)
  BY CatSeq, Zenon
<1>4. Len(x) \in Nat /\ Len(y) \in Nat
  BY LenProperties, Zenon
<1>5. Len(x) <= Len(x) + Len(y)
  BY ONLY <1>4, SMT
<1> QED BY <1>1, <1>2, <1>3, <1>5, Zenon

-----------------------------------------------------------------------------
(* The inductive invariant. *)

Input == msgs \in Seq(Messages)

(* Where the frame after the first n starts in the stream. *)
Start(n) == Len(Joined(Frames, n))

(* The message being read. *)
Current == msgs[written + 1]

(* How far ReadMessage has come, and what it has read. *)
Reading ==
  /\ phase = "length" => nread = Start(written)
  /\ phase \in {"data", "write"} => written < Len(msgs) /\ LengthOK(Current.length)
  /\ phase = "data" => /\ nread = Start(written) + LengthPrefixSize
                       /\ need = Current.length - LengthPrefixSize
  /\ phase = "write" => /\ nread = Start(written + 1)
                        /\ header = Current.words /\ payload = Current.payload

(* Why the stream was given up, and that nothing was written too early. *)
GivenUp ==
  phase = "closed" =>
    /\ Start(written) <= arrived
    /\ \/ written < Len(msgs) /\ ~LengthOK(Current.length)
       \/ eof /\ (written < Len(msgs) => arrived < Start(written + 1))

Accepted == \A i \in 1 .. written : LengthOK(msgs[i].length)

Inv == /\ Input /\ TypeOK /\ arrived <= Len(Stream)
       /\ Accepted /\ FramingKept /\ Reading /\ GivenUp

(* The frames of the stream and where they start. *)
LEMMA StreamParts ==
  ASSUME Input
  PROVE  /\ Len(msgs) \in Nat /\ DOMAIN msgs = 1 .. Len(msgs)
         /\ \A i \in 1 .. Len(msgs) : IsMessage(msgs[i]) /\ Frames[i] \in Seq(Byte)
         /\ \A n \in 0 .. Len(msgs) : Start(n) \in Nat
         /\ Start(0) = 0 /\ Start(Len(msgs)) = Len(Stream)
         /\ \A n \in 0 .. Len(msgs) - 1 : Start(n + 1) = Start(n) + (28 + Len(msgs[n + 1].payload))
         /\ \A n \in 0 .. Len(msgs), k \in 0 .. Len(msgs) : k <= n => Start(k) <= Start(n)
<1>1. Len(msgs) \in Nat /\ DOMAIN msgs = 1 .. Len(msgs)
  BY LenProperties, Zenon DEF Input
<1>2. ASSUME NEW i \in 1 .. Len(msgs)
      PROVE  /\ IsMessage(msgs[i]) /\ Frames[i] \in Seq(Byte)
             /\ Len(Frames[i]) = 28 + Len(msgs[i].payload)
  <2>1. msgs[i] \in Messages
    BY ElementOfSeq, Zenon DEF Input
  <2>2. IsMessage(msgs[i])
    BY <2>1, MessagesAssumption, Zenon DEF MessagesAssumption
  <2>3. Frames[i] = Frame(msgs[i].length, msgs[i].words, msgs[i].payload)
    BY <1>1, Zenon DEF Frames
  <2>4. /\ IsHeader(msgs[i].words) /\ msgs[i].length \in Nat
        /\ msgs[i].payload \in Seq(Byte)
    BY <2>2, MessageParts, Zenon
  <2>5. /\ Frame(msgs[i].length, msgs[i].words, msgs[i].payload) \in Seq(Byte)
        /\ Len(Frame(msgs[i].length, msgs[i].words, msgs[i].payload)) = 28 + Len(msgs[i].payload)
    BY <2>4, FrameParts, Zenon
  <2> QED BY <2>2, <2>3, <2>5, Zenon
<1>3. \A i \in 1 .. Len(msgs) : Frames[i] \in Seq(Byte)
  BY <1>2
<1>4. ASSUME NEW n \in 0 .. Len(msgs) PROVE Start(n) \in Nat
  <2>1. Joined(Frames, n) \in Seq(Byte)
    BY <1>1, <1>3, JoinedBytes, Zenon
  <2> QED BY <2>1, LenProperties, Zenon DEF Start
<1>5. Start(0) = 0
  <2>1. Joined(Frames, 0) = <<>>
    BY JoinedParts, Zenon
  <2>2. Len(<<>>) = 0
    BY SMT
  <2> QED BY <2>1, <2>2, Zenon DEF Start
<1>6. Start(Len(msgs)) = Len(Stream)
  BY Zenon DEF Start, Stream
<1>7. ASSUME NEW n \in 0 .. Len(msgs) - 1
      PROVE  Start(n + 1) = Start(n) + (28 + Len(msgs[n + 1].payload))
  <2>1. n + 1 \in 1 .. Len(msgs)
    BY <1>1, SMT
  <2>2. Len(Joined(Frames, n + 1)) = Len(Joined(Frames, n)) + Len(Frames[n + 1])
    BY <1>1, <1>3, JoinedAt, Zenon
  <2> QED BY <1>2, <2>1, <2>2, Zenon DEF Start
<1>8. ASSUME NEW n \in 0 .. Len(msgs), NEW k \in 0 .. Len(msgs), k <= n PROVE Start(k) <= Start(n)
  <2>1. n \in Nat /\ k \in 0 .. n /\ \A i \in 1 .. n : i \in 1 .. Len(msgs)
    BY <1>1, <1>8, SMT
  <2> QED BY <1>3, <2>1, JoinedLonger, Zenon DEF Start
<1> QED BY <1>1, <1>2, <1>4, <1>5, <1>6, <1>7, <1>8

(* What ReadMessage finds after the first n messages. *)
LEMMA StreamRead ==
  ASSUME Input, NEW n \in 0 .. Len(msgs) - 1
  PROVE  MessageAt(Stream, Start(n), msgs[n + 1].length, msgs[n + 1].words, msgs[n + 1].payload)
<1>0. PICK m : m = msgs[n + 1]
  OBVIOUS
<1>1. /\ Len(msgs) \in Nat /\ DOMAIN msgs = 1 .. Len(msgs)
      /\ \A i \in 1 .. Len(msgs) : IsMessage(msgs[i]) /\ Frames[i] \in Seq(Byte)
  BY StreamParts, Zenon
<1>2. n + 1 \in 1 .. Len(msgs) /\ n \in 0 .. Len(msgs)
  BY <1>1, SMT
<1>3. PICK x \in Seq(Byte) : x = Joined(Frames, n)
  BY <1>1, <1>2, JoinedBytes, Zenon
<1>4. PICK y \in Seq(Byte) : Stream = x \o (Frames[n + 1] \o y)
  BY <1>1, <1>3, JoinedAt, Zenon DEF Stream
<1>5. Frames[n + 1] = Frame(m.length, m.words, m.payload)
  BY <1>0, <1>1, <1>2, Zenon DEF Frames
<1>6. IsHeader(m.words) /\ IsUint32(m.length) /\ m.payload \in Seq(Byte)
  BY <1>0, <1>1, <1>2, MessageParts, Zenon
<1>7. Start(n) = Len(x)
  BY <1>3, Zenon DEF Start
<1>8. MessageAt(x \o (Frame(m.length, m.words, m.payload) \o y), Len(x), m.length, m.words, m.payload)
  BY <1>6, FrameRead, Zenon
<1> QED BY <1>0, <1>4, <1>5, <1>7, <1>8, Zenon

(* Nothing has been read at the start. *)
LEMMA InitInv == Init => Inv
<1> SUFFICES ASSUME Init PROVE Inv
  OBVIOUS
<1>1. Input
  <2>1. PICK n \in 1 .. MaxMessages : msgs \in [1 .. n -> Messages]
    BY Zenon DEF Init
  <2>2. n \in Nat
    BY BoundsAssumption, SMT DEF BoundsAssumption
  <2>3. msgs \in UNION {[1 .. k -> Messages] : k \in Nat}
    BY <2>1, <2>2, Zenon
  <2>4. Seq(Messages) = UNION {[1 .. k -> Messages] : k \in Nat}
    BY SeqDef, Zenon
  <2> QED BY <2>3, <2>4, Zenon DEF Input
<1>2. Len(msgs) \in Nat /\ Start(0) = 0 /\ \A n \in 0 .. Len(msgs) : Start(n) \in Nat
  BY <1>1, StreamParts, Zenon
<1>3. /\ eof = FALSE /\ arrived = 0 /\ nread = 0 /\ phase = "length" /\ need = 0
      /\ header = <<0, 0, 0, 0, 0, 0>> /\ payload = <<>> /\ out = <<>> /\ written = 0
  BY Zenon DEF Init
<1>4. TypeOK
  <2>1. eof \in BOOLEAN /\ phase \in {"length", "data", "write", "closed"}
    BY <1>3, Zenon
  <2>2. /\ arrived \in Nat /\ nread \in 0 .. arrived /\ need \in 0 .. MaxMessageSize
        /\ written \in 0 .. Len(msgs)
    BY <1>2, <1>3, BoundsAssumption, SMT DEF BoundsAssumption
  <2>3. payload \in Seq(Byte) /\ out \in Seq(Byte)
    BY <1>3, EmptySeq, Zenon
  <2>4. header \in [1 .. 6 -> Nat]
    BY <1>3, SMT
  <2> QED BY <2>1, <2>2, <2>3, <2>4, Zenon DEF TypeOK
<1>5. arrived <= Len(Stream)
  <2>1. Len(Stream) \in Nat
    <3>1. Len(msgs) \in 0 .. Len(msgs)
      BY <1>2, SMT
    <3> QED BY <1>1, <1>2, <3>1, StreamParts, Zenon
  <2> QED BY ONLY <1>3, <2>1, SMT
<1>6. Accepted
  <2>1. 1 .. written = {}
    BY ONLY <1>3, SMT
  <2> QED BY <2>1, Zenon DEF Accepted
<1>7. FramingKept
  BY <1>3, JoinedParts, Zenon DEF FramingKept
<1>8. Reading /\ GivenUp
  <2>1. phase = "length" /\ phase # "data" /\ phase # "write" /\ phase # "closed"
    BY ONLY <1>3, SMT
  <2> QED BY <1>2, <1>3, <2>1, Zenon DEF Reading, GivenUp
<1> QED BY <1>1, <1>4, <1>5, <1>6, <1>7, <1>8, Zenon DEF Inv

(* The stream stays, and with it where its frames start. *)
LEMMA Kept ==
  ASSUME msgs' = msgs
  PROVE  /\ Input <=> Input'
         /\ Len(Stream)' = Len(Stream)
         /\ written' = written => /\ Start(written)' = Start(written)
                                  /\ Start(written + 1)' = Start(written + 1)
                                  /\ Current' = Current
                                  /\ Accepted <=> Accepted'
                                  /\ out' = out => (FramingKept <=> FramingKept')
<1>1. Frames' = Frames
  BY Zenon DEF Frames
<1>2. Len(Stream)' = Len(Stream)
  BY <1>1, Zenon DEF Stream
<1>3. ASSUME written' = written
      PROVE  /\ Start(written)' = Start(written)
             /\ Start(written + 1)' = Start(written + 1)
             /\ Current' = Current
  BY <1>1, <1>3, Zenon DEF Start, Current
<1>4. ASSUME written' = written PROVE Accepted <=> Accepted'
  BY <1>4, Zenon DEF Accepted
<1>5. ASSUME written' = written, out' = out PROVE FramingKept <=> FramingKept'
  <2>1. [i \in DOMAIN msgs |-> Expected(msgs[i])]' = [i \in DOMAIN msgs |-> Expected(msgs[i])]
    BY Zenon
  <2> QED BY <1>5, <2>1, Zenon DEF FramingKept
<1> QED BY <1>2, <1>3, <1>4, <1>5, Zenon DEF Input

(* A byte arrives: what was missing may no longer be. *)
LEMMA ArriveStep == Inv /\ Arrive => Inv'
<1> SUFFICES ASSUME Inv, Arrive PROVE Inv'
  OBVIOUS
<1>1. /\ ~eof /\ arrived < Len(Stream) /\ arrived' = arrived + 1
      /\ msgs' = msgs /\ eof' = eof /\ nread' = nread /\ phase' = phase /\ need' = need
      /\ header' = header /\ payload' = payload /\ out' = out /\ written' = written
  BY Zenon DEF Arrive
<1>2. Input /\ TypeOK /\ Accepted /\ FramingKept /\ Reading /\ GivenUp
  BY Zenon DEF Inv
<1>3. /\ Input' /\ Accepted' /\ FramingKept' /\ Len(Stream)' = Len(Stream)
      /\ Start(written)' = Start(written) /\ Start(written + 1)' = Start(written + 1)
      /\ Current' = Current
  BY <1>1, <1>2, Kept, Zenon
<1>4. TypeOK'
  <2>1. arrived' \in Nat /\ nread' \in 0 .. arrived'
    <3>1. arrived \in Nat /\ nread \in 0 .. arrived
      BY <1>2, Zenon DEF TypeOK
    <3> QED BY ONLY <1>1, <3>1, SMT
  <2> QED BY <1>1, <1>2, <2>1, Zenon DEF TypeOK
<1>5. (arrived <= Len(Stream))'
  <2>1. arrived \in Nat /\ Len(Stream) \in Nat
    <3>1. Len(msgs) \in Nat
      BY <1>2, StreamParts, Zenon
    <3>2. Len(msgs) \in 0 .. Len(msgs)
      BY <3>1, SMT
    <3> QED BY <1>2, <3>2, StreamParts, Zenon DEF TypeOK
  <2>2. arrived' <= Len(Stream)
    BY ONLY <1>1, <2>1, SMT
  <2> QED BY <1>3, <2>2, Zenon
<1>6. Reading'
  BY <1>1, <1>2, <1>3, Zenon DEF Reading
<1>7. GivenUp'
  <2> SUFFICES ASSUME phase = "closed" PROVE GivenUp'
    BY <1>1, Zenon DEF GivenUp
  <2>1. Start(written) <= arrived /\ written < Len(msgs) /\ ~LengthOK(Current.length)
    BY <1>1, <1>2, Zenon DEF GivenUp
  <2>2. Start(written) <= arrived'
    <3>1. written \in 0 .. Len(msgs) /\ arrived \in Nat
      BY <1>2, Zenon DEF TypeOK
    <3>2. Start(written) \in Nat
      BY <1>2, <3>1, StreamParts, Zenon
    <3> QED BY ONLY <1>1, <2>1, <3>1, <3>2, SMT
  <2> QED BY <1>1, <1>3, <2>1, <2>2, Zenon DEF GivenUp
<1> QED BY <1>3, <1>4, <1>5, <1>6, <1>7, Zenon DEF Inv

(* The client closes its end. *)
LEMMA ClientClosesStep == Inv /\ ClientCloses => Inv'
<1> SUFFICES ASSUME Inv, ClientCloses PROVE Inv'
  OBVIOUS
<1>1. /\ ~eof /\ eof' = TRUE /\ arrived' = arrived
      /\ msgs' = msgs /\ nread' = nread /\ phase' = phase /\ need' = need
      /\ header' = header /\ payload' = payload /\ out' = out /\ written' = written
  BY Zenon DEF ClientCloses
<1>2. Input /\ TypeOK /\ arrived <= Len(Stream) /\ Accepted /\ FramingKept /\ Reading /\ GivenUp
  BY Zenon DEF Inv
<1>3. /\ Input' /\ Accepted' /\ FramingKept' /\ Len(Stream)' = Len(Stream)
      /\ Start(written)' = Start(written) /\ Start(written + 1)' = Start(written + 1)
      /\ Current' = Current
  BY <1>1, <1>2, Kept, Zenon
<1>4. TypeOK'
  BY <1>1, <1>2, Zenon DEF TypeOK
<1>5. (arrived <= Len(Stream))'
  BY <1>1, <1>2, <1>3, Zenon
<1>6. Reading' /\ GivenUp'
  BY <1>1, <1>2, <1>3, Zenon DEF Reading, GivenUp
<1> QED BY <1>3, <1>4, <1>5, <1>6, Zenon DEF Inv

(* The numbers of a state, and what they are compared with. *)
LEMMA Numbers ==
  ASSUME Inv
  PROVE  /\ Len(msgs) \in Nat /\ Len(Stream) \in Nat /\ arrived \in Nat /\ nread \in 0 .. arrived
         /\ need \in 0 .. MaxMessageSize /\ written \in 0 .. Len(msgs)
         /\ arrived <= Len(Stream) /\ Start(written) \in Nat
         /\ written = Len(msgs) => Start(written) = Len(Stream)
         /\ written < Len(msgs) =>
              /\ written \in 0 .. Len(msgs) - 1 /\ written + 1 \in 1 .. Len(msgs)
              /\ IsMessage(Current) /\ Current.length \in Nat /\ Len(Current.payload) \in Nat
              /\ Start(written + 1) = Start(written) + (28 + Len(Current.payload))
              /\ LengthOK(Current.length) => Current.length = 28 + Len(Current.payload)
              /\ MessageAt(Stream, Start(written), Current.length, Current.words, Current.payload)
<1>1. /\ Input /\ arrived \in Nat /\ nread \in 0 .. arrived
      /\ need \in 0 .. MaxMessageSize /\ written \in 0 .. Len(msgs) /\ arrived <= Len(Stream)
  BY Zenon DEF Inv, TypeOK
<1>2. Len(msgs) \in Nat
  BY <1>1, StreamParts, Zenon
<1>3. Len(Stream) \in Nat
  <2>1. Len(msgs) \in 0 .. Len(msgs)
    BY <1>2, SMT
  <2> QED BY <1>1, <2>1, StreamParts, Zenon
<1>4. Start(written) \in Nat /\ (written = Len(msgs) => Start(written) = Len(Stream))
  BY <1>1, StreamParts, Zenon
<1>5. ASSUME written < Len(msgs)
      PROVE  /\ written \in 0 .. Len(msgs) - 1 /\ written + 1 \in 1 .. Len(msgs)
             /\ IsMessage(Current) /\ Current.length \in Nat /\ Len(Current.payload) \in Nat
             /\ Start(written + 1) = Start(written) + (28 + Len(Current.payload))
             /\ LengthOK(Current.length) => Current.length = 28 + Len(Current.payload)
             /\ MessageAt(Stream, Start(written), Current.length, Current.words, Current.payload)
  <2>1. written \in 0 .. Len(msgs) - 1 /\ written + 1 \in 1 .. Len(msgs)
    BY <1>1, <1>2, <1>5, SMT
  <2>2. IsMessage(Current)
    BY <1>1, <2>1, StreamParts, Zenon DEF Current
  <2>3. /\ Current.length \in Nat /\ Current.payload \in Seq(Byte)
        /\ LengthOK(Current.length) => Current.length = 28 + Len(Current.payload)
    BY <2>2, MessageParts, Zenon
  <2>4. Len(Current.payload) \in Nat
    BY <2>3, LenProperties, Zenon
  <2>5. Start(written + 1) = Start(written) + (28 + Len(Current.payload))
    BY <1>1, <2>1, StreamParts, Zenon DEF Current
  <2>6. MessageAt(Stream, Start(written), Current.length, Current.words, Current.payload)
    BY <1>1, <2>1, StreamRead, Zenon DEF Current
  <2> QED BY <2>1, <2>2, <2>3, <2>4, <2>5, <2>6
<1> QED BY <1>1, <1>2, <1>3, <1>4, <1>5

(* ReadMessage reads the length word of the next message, and it is that one. *)
LEMMA ReadLengthStep == Inv /\ ReadLength => Inv'
<1> SUFFICES ASSUME Inv, ReadLength PROVE Inv'
  OBVIOUS
<1> DEFINE totalLength == Uint32(Stream, nread + 1)
<1>1. /\ phase = "length" /\ Available(LengthPrefixSize) /\ nread' = nread + LengthPrefixSize
      /\ \/ LengthOK(totalLength) /\ phase' = "data" /\ need' = totalLength - LengthPrefixSize
         \/ ~LengthOK(totalLength) /\ phase' = "closed" /\ need' = need
      /\ msgs' = msgs /\ eof' = eof /\ arrived' = arrived
      /\ header' = header /\ payload' = payload /\ out' = out /\ written' = written
  BY Zenon DEF ReadLength
<1> HIDE DEF totalLength
<1>2. Input /\ TypeOK /\ arrived <= Len(Stream) /\ Accepted /\ FramingKept /\ Reading /\ GivenUp
  BY Zenon DEF Inv
<1>3. /\ Input' /\ Accepted' /\ FramingKept' /\ Len(Stream)' = Len(Stream)
      /\ Start(written)' = Start(written) /\ Start(written + 1)' = Start(written + 1)
      /\ Current' = Current
  BY <1>1, <1>2, Kept, Zenon
<1>4. /\ Len(msgs) \in Nat /\ Len(Stream) \in Nat /\ arrived \in Nat /\ nread \in 0 .. arrived
      /\ need \in 0 .. MaxMessageSize /\ written \in 0 .. Len(msgs) /\ arrived <= Len(Stream)
      /\ written = Len(msgs) => Start(written) = Len(Stream)
  BY Numbers, Zenon
<1>5. nread = Start(written)
  BY <1>1, <1>2, Zenon DEF Reading
<1>6. arrived - nread >= 4 /\ nread' = nread + 4
  BY <1>1, Zenon DEF Available, LengthPrefixSize
<1>7. written < Len(msgs)
  BY ONLY <1>4, <1>5, <1>6, SMTT(30)
<1>8. totalLength = Current.length /\ Current.length \in Nat
  BY <1>5, <1>7, Numbers, Zenon DEF totalLength, MessageAt
<1>9. nread' \in 0 .. arrived /\ Start(written) <= arrived
  BY ONLY <1>4, <1>5, <1>6, SMTT(30)
<1>10. need' \in 0 .. MaxMessageSize
  <2>1. CASE LengthOK(totalLength) /\ need' = totalLength - LengthPrefixSize
    BY ONLY <1>8, <2>1, BoundsAssumption, SMT
       DEF LengthOK, LengthPrefixSize, HeaderSize, BoundsAssumption
  <2> QED BY <1>1, <1>4, <2>1, Zenon
<1>11. TypeOK'
  <2>1. phase' \in {"length", "data", "write", "closed"}
    BY <1>1, Zenon
  <2> QED BY <1>1, <1>2, <1>9, <1>10, <2>1, Zenon DEF TypeOK
<1>12. Reading' /\ GivenUp'
  <2>1. CASE LengthOK(totalLength) /\ phase' = "data" /\ need' = totalLength - LengthPrefixSize
    <3>1. phase' # "length" /\ phase' # "write" /\ phase' # "closed"
      BY ONLY <2>1, SMT
    <3> QED BY <1>1, <1>3, <1>5, <1>7, <1>8, <2>1, <3>1, Zenon DEF Reading, GivenUp
  <2>2. CASE ~LengthOK(totalLength) /\ phase' = "closed"
    <3>1. phase' # "length" /\ phase' # "write" /\ phase' # "data"
      BY ONLY <2>2, SMT
    <3> QED BY <1>1, <1>3, <1>7, <1>8, <1>9, <2>2, <3>1, Zenon DEF Reading, GivenUp
  <2> QED BY <1>1, <2>1, <2>2, Zenon
<1>13. (arrived <= Len(Stream))'
  BY <1>1, <1>2, <1>3, Zenon
<1> QED BY <1>3, <1>11, <1>12, <1>13, Zenon DEF Inv

(* ReadMessage reads the header and the payload of that message. *)
LEMMA ReadDataStep == Inv /\ ReadData => Inv'
<1> SUFFICES ASSUME Inv, ReadData PROVE Inv'
  OBVIOUS
<1> DEFINE data == SubSeq(Stream, nread + 1, nread + need)
<1>1. /\ phase = "data" /\ Available(need) /\ nread' = nread + need /\ phase' = "write"
      /\ header' = ParseHeader(data) /\ payload' = SubSeq(data, HeaderSize + 1, need)
      /\ msgs' = msgs /\ eof' = eof /\ arrived' = arrived /\ need' = need
      /\ out' = out /\ written' = written
  BY Zenon DEF ReadData
<1> HIDE DEF data
<1>2. Input /\ TypeOK /\ arrived <= Len(Stream) /\ Accepted /\ FramingKept /\ Reading /\ GivenUp
  BY Zenon DEF Inv
<1>3. /\ Input' /\ Accepted' /\ FramingKept' /\ Len(Stream)' = Len(Stream)
      /\ Start(written)' = Start(written) /\ Start(written + 1)' = Start(written + 1)
      /\ Current' = Current
  BY <1>1, <1>2, Kept, Zenon
<1>4. /\ written < Len(msgs) /\ LengthOK(Current.length)
      /\ nread = Start(written) + 4 /\ need = Current.length - 4
  BY <1>1, <1>2, Zenon DEF Reading, LengthPrefixSize
<1>5. /\ arrived \in Nat /\ nread \in 0 .. arrived /\ need \in 0 .. MaxMessageSize
      /\ Start(written) \in Nat /\ Len(Current.payload) \in Nat
      /\ Start(written + 1) = Start(written) + (28 + Len(Current.payload))
      /\ Current.length = 28 + Len(Current.payload) /\ IsMessage(Current)
      /\ MessageAt(Stream, Start(written), Current.length, Current.words, Current.payload)
  BY <1>4, Numbers, Zenon
<1>6. need = 24 + Len(Current.payload)
  BY ONLY <1>4, <1>5, SMT
<1>7. data = SubSeq(Stream, Start(written) + 4 + 1, Start(written) + 4 + (24 + Len(Current.payload)))
  BY <1>4, <1>6, Zenon DEF data
<1>8. header' = Current.words /\ payload' = Current.payload
  BY <1>1, <1>5, <1>6, <1>7, Zenon DEF MessageAt, HeaderSize
<1>9. nread' = Start(written + 1) /\ nread' \in 0 .. arrived
  <2>1. arrived - nread >= need /\ nread' = nread + need
    BY <1>1, Zenon DEF Available
  <2>2. nread' = Start(written + 1)
    <3>1. /\ Start(written) \in Nat /\ Len(Current.payload) \in Nat
          /\ Start(written + 1) = Start(written) + (28 + Len(Current.payload))
          /\ nread = Start(written) + 4
      BY <1>4, <1>5, Zenon
    <3> QED BY ONLY <1>6, <2>1, <3>1, SMTT(30)
  <2>3. nread' \in 0 .. arrived
    BY ONLY <1>5, <2>1, SMT
  <2> QED BY <2>2, <2>3
<1>10. TypeOK'
  <2>1. phase' \in {"length", "data", "write", "closed"}
    BY <1>1, Zenon
  <2>2. header' \in [1 .. 6 -> Nat] /\ payload' \in Seq(Byte)
    BY <1>5, <1>8, MessageParts, Zenon DEF IsHeader
  <2> QED BY <1>1, <1>2, <1>9, <2>1, <2>2, Zenon DEF TypeOK
<1>11. Reading' /\ GivenUp'
  <2>1. phase' # "length" /\ phase' # "data" /\ phase' # "closed"
    BY ONLY <1>1, SMT
  <2> QED BY <1>1, <1>3, <1>4, <1>8, <1>9, <2>1, Zenon DEF Reading, GivenUp
<1>12. (arrived <= Len(Stream))'
  BY <1>1, <1>2, <1>3, Zenon
<1> QED BY <1>3, <1>10, <1>11, <1>12, Zenon DEF Inv

(* The end of the stream comes before the end of the next message. *)
LEMMA ReadFailsStep == Inv /\ ReadFails => Inv'
<1> SUFFICES ASSUME Inv, ReadFails PROVE Inv'
  OBVIOUS
<1>1. /\ phase \in {"length", "data"} /\ eof /\ phase' = "closed"
      /\ ~Available(IF phase = "length" THEN LengthPrefixSize ELSE need)
      /\ msgs' = msgs /\ eof' = eof /\ arrived' = arrived /\ nread' = nread /\ need' = need
      /\ header' = header /\ payload' = payload /\ out' = out /\ written' = written
  BY Zenon DEF ReadFails
<1>2. Input /\ TypeOK /\ arrived <= Len(Stream) /\ Accepted /\ FramingKept /\ Reading /\ GivenUp
  BY Zenon DEF Inv
<1>3. /\ Input' /\ Accepted' /\ FramingKept' /\ Len(Stream)' = Len(Stream)
      /\ Start(written)' = Start(written) /\ Start(written + 1)' = Start(written + 1)
      /\ Current' = Current
  BY <1>1, <1>2, Kept, Zenon
<1>4. arrived \in Nat /\ nread \in 0 .. arrived /\ Start(written) \in Nat
  BY Numbers, Zenon
<1>5. Start(written) <= arrived /\ (written < Len(msgs) => arrived < Start(written + 1))
  <2>1. CASE phase = "length"
    <3>1. nread = Start(written) /\ ~(arrived - nread >= 4)
      BY <1>1, <1>2, <2>1, Zenon DEF Reading, Available, LengthPrefixSize
    <3>2. Start(written) <= arrived
      BY ONLY <1>4, <3>1, SMT
    <3>3. ASSUME written < Len(msgs) PROVE arrived < Start(written + 1)
      <4>1. /\ Len(Current.payload) \in Nat
            /\ Start(written + 1) = Start(written) + (28 + Len(Current.payload))
        BY <3>3, Numbers, Zenon
      <4> QED BY ONLY <1>4, <3>1, <4>1, SMT
    <3> QED BY <3>2, <3>3
  <2>2. CASE phase = "data"
    <3>0. phase # "length"
      BY ONLY <2>2, SMT
    <3>1. /\ nread = Start(written) + 4 /\ need = Current.length - 4 /\ ~(arrived - nread >= need)
          /\ written < Len(msgs) /\ LengthOK(Current.length)
      BY <1>1, <1>2, <2>2, <3>0, Zenon DEF Reading, Available, LengthPrefixSize
    <3>2. Start(written) <= arrived
      BY ONLY <1>4, <3>1, SMT
    <3>3. /\ Len(Current.payload) \in Nat
          /\ Start(written + 1) = Start(written) + (28 + Len(Current.payload))
          /\ Current.length = 28 + Len(Current.payload)
      BY <3>1, Numbers, Zenon
    <3>4. arrived < Start(written + 1)
      BY ONLY <1>4, <3>1, <3>3, SMTT(30)
    <3> QED BY <3>2, <3>4
  <2> QED BY <1>1, <2>1, <2>2, Zenon
<1>6. TypeOK'
  BY <1>1, <1>2, Zenon DEF TypeOK
<1>7. Reading' /\ GivenUp'
  <2>1. phase' # "length" /\ phase' # "data" /\ phase' # "write"
    BY ONLY <1>1, SMT
  <2> QED BY <1>1, <1>3, <1>5, <2>1, Zenon DEF Reading, GivenUp
<1>8. (arrived <= Len(Stream))'
  BY <1>1, <1>2, <1>3, Zenon
<1> QED BY <1>3, <1>6, <1>7, <1>8, Zenon DEF Inv

(* forward writes the message, patched if it is a define call. *)
LEMMA WriteStep == Inv /\ Write => Inv'
<1> SUFFICES ASSUME Inv, Write PROVE Inv'
  OBVIOUS
<1>1. /\ phase = "write" /\ payload' = intercept(header, payload)
      /\ out' = out \o WriteMessage(header, intercept(header, payload))
      /\ written' = written + 1 /\ phase' = "length"
      /\ msgs' = msgs /\ eof' = eof /\ arrived' = arrived /\ nread' = nread /\ need' = need
      /\ header' = header
  BY Zenon DEF Write
<1>2. Input /\ TypeOK /\ arrived <= Len(Stream) /\ Accepted /\ FramingKept /\ Reading /\ GivenUp
  BY Zenon DEF Inv
<1>3. Input' /\ Len(Stream)' = Len(Stream)
  BY <1>1, <1>2, Kept, Zenon
<1>4. /\ written < Len(msgs) /\ LengthOK(Current.length) /\ nread = Start(written + 1)
      /\ header = Current.words /\ payload = Current.payload
  BY <1>1, <1>2, Zenon DEF Reading
<1>5. /\ Len(msgs) \in Nat /\ written \in 0 .. Len(msgs)
      /\ IsMessage(Current) /\ written + 1 \in 1 .. Len(msgs)
  BY <1>4, Numbers, Zenon
<1>6. out' = out \o Expected(Current) /\ Expected(Current) \in Seq(Byte)
  <2>1. WriteMessage(Current.words, intercept(Current.words, Current.payload)) = Expected(Current)
    BY <1>5, WriteIsExpected, Zenon
  <2>2. Expected(Current) \in Seq(Byte)
    BY <1>5, WriteIsExpected, Zenon
  <2> QED BY <1>1, <1>4, <2>1, <2>2, Zenon
<1>7. TypeOK'
  <2>1. phase' \in {"length", "data", "write", "closed"}
    BY <1>1, Zenon
  <2>2. payload' \in Seq(Byte)
    <3>1. intercept(Current.words, Current.payload) = PayloadOf(Current)
      BY <1>5, InterceptPatches, Zenon
    <3>2. PayloadOf(Current) \in Seq(Byte)
      BY <1>5, InterceptPatches, Zenon
    <3> QED BY <1>1, <1>4, <3>1, <3>2, Zenon
  <2>3. out' \in Seq(Byte)
    <3>1. out \in Seq(Byte)
      BY <1>2, Zenon DEF TypeOK
    <3>2. out \o Expected(Current) \in Seq(Byte)
      BY <1>6, <3>1, CatSeq, Zenon
    <3> QED BY <1>6, <3>2, Zenon
  <2>4. written' \in 0 .. Len(msgs)
    BY ONLY <1>1, <1>5, SMT
  <2> QED BY <1>1, <1>2, <2>1, <2>2, <2>3, <2>4, Zenon DEF TypeOK
<1>8. Accepted'
  <2>1. \A i \in 1 .. written + 1 : i \in 1 .. written \/ i = written + 1
    BY ONLY <1>5, SMT
  <2> QED BY <1>1, <1>2, <1>4, <2>1, Zenon DEF Accepted, Current
<1>9. FramingKept'
  <2> DEFINE parts == [i \in DOMAIN msgs |-> Expected(msgs[i])]
  <2>1. parts' = parts
    BY <1>1, Zenon
  <2>2. parts[written + 1] = Expected(Current)
    <3>1. DOMAIN msgs = 1 .. Len(msgs)
      BY <1>2, StreamParts, Zenon
    <3> QED BY <1>5, <3>1, Zenon DEF Current
  <2>3. out = Joined(parts, written)
    BY <1>2, Zenon DEF FramingKept
  <2>4. FramingKept' = (out' = Joined(parts', written'))
    BY Zenon DEF FramingKept
  <2> HIDE DEF parts
  <2>5. written \in Nat
    BY ONLY <1>5, SMT
  <2>6. Joined(parts, written + 1) = Joined(parts, written) \o parts[written + 1]
    BY <2>5, JoinedParts, Zenon
  <2> QED BY <1>1, <1>6, <2>1, <2>2, <2>3, <2>4, <2>6, Zenon
<1>10. Reading' /\ GivenUp'
  <2>1. phase' # "closed" /\ phase' # "data" /\ phase' # "write"
    BY ONLY <1>1, SMT
  <2>2. Start(written)' = Start(written + 1)
    <3>1. Frames' = Frames
      BY <1>1, Zenon DEF Frames
    <3> QED BY <1>1, <3>1, Zenon DEF Start
  <2> QED BY <1>1, <1>4, <2>1, <2>2, Zenon DEF Reading, GivenUp
<1>11. (arrived <= Len(Stream))'
  BY <1>1, <1>2, <1>3, Zenon
<1> QED BY <1>3, <1>7, <1>8, <1>9, <1>10, <1>11, Zenon DEF Inv

(***************************************************************************)
(* The inductive invariant: ReadMessage is where the client's messages     *)
(* begin and end, however the bytes arrive.                                *)
(***************************************************************************)
THEOREM Invariance == Spec => []Inv
<1>1. Inv /\ [Next]_vars => Inv'
  <2> SUFFICES ASSUME Inv, [Next]_vars PROVE Inv'
    OBVIOUS
  <2>1. CASE UNCHANGED vars
    <3>1. /\ msgs' = msgs /\ eof' = eof /\ arrived' = arrived /\ nread' = nread
          /\ phase' = phase /\ need' = need /\ header' = header /\ payload' = payload
          /\ out' = out /\ written' = written
      BY <2>1, Zenon DEF vars
    <3>2. /\ Input /\ TypeOK /\ arrived <= Len(Stream)
          /\ Accepted /\ FramingKept /\ Reading /\ GivenUp
      BY Zenon DEF Inv
    <3>3. /\ Input' /\ Accepted' /\ FramingKept' /\ Len(Stream)' = Len(Stream)
          /\ Start(written)' = Start(written) /\ Start(written + 1)' = Start(written + 1)
          /\ Current' = Current
      BY <3>1, <3>2, Kept, Zenon
    <3>4. TypeOK' /\ (arrived <= Len(Stream))'
      BY <3>1, <3>2, <3>3, Zenon DEF TypeOK
    <3>5. Reading' /\ GivenUp'
      BY <3>1, <3>2, <3>3, Zenon DEF Reading, GivenUp
    <3> QED BY <3>3, <3>4, <3>5, Zenon DEF Inv
  <2>2. CASE Next
    BY <2>2, ArriveStep, ClientClosesStep, ReadLengthStep, ReadDataStep, ReadFailsStep, WriteStep,
       Zenon DEF Next
  <2> QED BY <2>1, <2>2
<1> QED BY <1>1, InitInv, PTL DEF Spec

(* Nothing out of range is read, kept or written (protocol.go). *)
THEOREM TypeCorrect == Spec => []TypeOK
<1>1. Inv => TypeOK
  BY Zenon DEF Inv
<1> QED BY <1>1, Invariance, PTL

(***************************************************************************)
(* Whatever the client sends and however it arrives, upstream receives its *)
(* messages one for one, documents patched and length words right.         *)
(***************************************************************************)
THEOREM FramingHolds == Spec => []FramingKept
<1>1. Inv => FramingKept
  BY Zenon DEF Inv
<1> QED BY <1>1, Invariance, PTL

(***************************************************************************)
(* When forward gives up on the stream, what had arrived complete and in   *)
(* good order has been written.                                            *)
(***************************************************************************)
THEOREM NothingLostBeforeDamage == Spec => []AllBeforeDamage
<1>1. Inv => AllBeforeDamage
  <2> SUFFICES ASSUME Inv, phase = "closed" PROVE Complete = 1 .. written
    BY Zenon DEF AllBeforeDamage
  <2>1. Input /\ Accepted /\ written \in 0 .. Len(msgs) /\ arrived \in Nat
    BY Zenon DEF Inv, TypeOK
  <2>2. /\ Len(msgs) \in Nat /\ DOMAIN msgs = 1 .. Len(msgs)
        /\ \A n \in 0 .. Len(msgs) : Start(n) \in Nat
        /\ \A n \in 0 .. Len(msgs), k \in 0 .. Len(msgs) : k <= n => Start(k) <= Start(n)
    BY <2>1, StreamParts, Zenon
  <2>3. /\ Start(written) <= arrived
        /\ \/ written < Len(msgs) /\ ~LengthOK(Current.length)
           \/ written < Len(msgs) => arrived < Start(written + 1)
    BY Zenon DEF Inv, GivenUp
  <2>4. \A n : n \in Complete <=> /\ n \in 1 .. Len(msgs)
                                  /\ \A i \in 1 .. n : LengthOK(msgs[i].length)
                                  /\ Start(n) <= arrived
    BY <2>2, Zenon DEF Complete, Start
  <2>5. ASSUME NEW n \in 1 .. written PROVE n \in Complete
    <3>1. n \in 1 .. Len(msgs) /\ n \in 0 .. Len(msgs) /\ n <= written
      BY ONLY <2>1, <2>2, SMT
    <3>2. \A i \in 1 .. n : i \in 1 .. written
      BY ONLY <2>1, SMT
    <3>3. Start(n) <= Start(written)
      BY <2>1, <2>2, <3>1, Zenon
    <3>4. Start(n) \in Nat /\ Start(written) \in Nat
      BY <2>1, <2>2, <3>1, Zenon
    <3>5. Start(n) <= arrived
      BY ONLY <2>1, <2>3, <3>3, <3>4, SMT
    <3> QED BY <2>1, <2>4, <3>1, <3>2, <3>5, Zenon DEF Accepted
  <2>6. ASSUME NEW n, n \in Complete, n \notin 1 .. written PROVE FALSE
    <3>1. n \in 1 .. Len(msgs) /\ (\A i \in 1 .. n : LengthOK(msgs[i].length)) /\ Start(n) <= arrived
      BY <2>4, <2>6, Zenon
    <3>2. /\ written < Len(msgs) /\ written + 1 \in 1 .. n /\ written + 1 \in 0 .. Len(msgs)
          /\ written + 1 <= n /\ n \in 0 .. Len(msgs)
      BY ONLY <2>1, <2>2, <2>6, <3>1, SMT
    <3>3. LengthOK(Current.length)
      BY <3>1, <3>2, Zenon DEF Current
    <3>4. Start(written + 1) <= Start(n) /\ arrived < Start(written + 1)
      BY <2>2, <2>3, <3>2, <3>3, Zenon
    <3>5. Start(written + 1) \in Nat /\ Start(n) \in Nat
      BY <2>2, <3>2, Zenon
    <3> QED BY ONLY <2>1, <3>1, <3>4, <3>5, SMT
  <2>7. Complete = 1 .. written
    BY <2>5, <2>6, Zenon
  <2> QED BY <2>7
<1> QED BY <1>1, Invariance, PTL

=============================================================================
