--------------------------- MODULE HugepagesProofs --------------------------
(***************************************************************************)
(* Proofs about Hugepages: for any files, any number of NUMA nodes and any *)
(* number of runs, what a run is done with is in place.                    *)
(***************************************************************************)
EXTENDS Hugepages, WellFoundedInduction, TLAPS

-----------------------------------------------------------------------------
(* Induction. *)

(* A set of naturals that is not empty has a least member. *)
LEMMA Least ==
  ASSUME NEW T, T \subseteq Nat, T # {}
  PROVE  \E x \in T : \A y \in T : x <= y
<1> DEFINE R == OpToRel(<, Nat)
<1>1. IsWellFoundedOn(R, Nat)
  BY NatLessThanWellFounded
<1>2. \A x, y \in Nat : <<y, x>> \notin R => x <= y
  BY DEF OpToRel
<1> HIDE DEF R
<1>3. PICK x \in T : \A y \in T : <<y, x>> \notin R
  BY ZenonT(30), <1>1, WFMin
<1>4. \A y \in T : x <= y
  BY <1>2, <1>3, Zenon
<1> QED BY <1>4

(* The natural numbers are in every set that has 0 and successors. *)
LEMMA Induction ==
  ASSUME NEW S, 0 \in S, \A n \in Nat : n \in S => n + 1 \in S
  PROVE  Nat \subseteq S
<1> SUFFICES ASSUME Nat \ S # {} PROVE FALSE
  OBVIOUS
<1> DEFINE T == Nat \ S
<1>1. T \subseteq Nat /\ T # {}
  OBVIOUS
<1> HIDE DEF T
<1>2. PICK x \in T : \A y \in T : x <= y
  BY ZenonT(30), <1>1, Least
<1>3. x \in Nat /\ x # 0 /\ x - 1 \in Nat /\ x = (x - 1) + 1
  BY <1>2 DEF T
<1>4. x - 1 \in T
  BY <1>2, <1>3 DEF T
<1> QED BY <1>2, <1>3, <1>4

-----------------------------------------------------------------------------
(* The sum over the nodes. *)

(* r + q on the first of z nodes and q on the others are z * q + r. *)
LEMMA SumOfParts ==
  ASSUME NEW z \in Nat \ {0}, NEW q \in Int, NEW r \in Int, NEW h,
         h[0] = q + r, \A n \in 1 .. z - 1 : h[n] = q
  PROVE  Sum(h, z) = z * q + r
<1> DEFINE sum[n \in 0 .. z] == IF n = 0 THEN 0 ELSE sum[n - 1] + h[n - 1]
           f == [n \in 0 .. z |-> IF n = 0 THEN 0 ELSE n * q + r]
<1>0. sum = CHOOSE s : s = [n \in 0 .. z |-> IF n = 0 THEN 0 ELSE s[n - 1] + h[n - 1]]
  BY DEF sum
<1>1. \A n \in 1 .. z : f[n] = f[n - 1] + h[n - 1]
  <2> SUFFICES ASSUME NEW n \in 1 .. z PROVE f[n] = f[n - 1] + h[n - 1]
    OBVIOUS
  <2>1. CASE n = 1
    BY <2>1
  <2>2. CASE n # 1
    <3>1. f[n - 1] = (n - 1) * q + r /\ h[n - 1] = q /\ f[n] = n * q + r
      BY <2>2
    <3>2. n * q = (n - 1) * q + q
      OBVIOUS
    <3> QED BY <3>1, <3>2
  <2> QED BY <2>1, <2>2
<1>2. f = [n \in 0 .. z |-> IF n = 0 THEN 0 ELSE f[n - 1] + h[n - 1]]
  <2>1. \A n \in 0 .. z : f[n] = IF n = 0 THEN 0 ELSE f[n - 1] + h[n - 1]
    BY <1>1
  <2> QED BY ZenonT(30), <2>1
<1> HIDE DEF f, sum
<1>3. sum = [n \in 0 .. z |-> IF n = 0 THEN 0 ELSE sum[n - 1] + h[n - 1]]
  BY <1>0, <1>2, Zenon
<1> DEFINE S == {n \in Nat : n <= z => sum[n] = f[n]}
<1>4. 0 \in S
  BY <1>3, <1>2
<1>5. ASSUME NEW n \in Nat, n \in S PROVE n + 1 \in S
  <2> SUFFICES ASSUME n + 1 <= z PROVE sum[n + 1] = f[n + 1]
    OBVIOUS
  <2>1. sum[n + 1] = sum[n] + h[n]
    BY <1>3
  <2>2. f[n + 1] = f[n] + h[n]
    BY <1>1
  <2> QED BY <2>1, <2>2, <1>5
<1>6. z \in S
  <2> HIDE DEF S
  <2> QED BY <1>4, <1>5, Induction
<1>7. sum[z] = z * q + r
  BY <1>6 DEF f
<1>8. Sum(h, z) = sum[z]
  BY DEF Sum, sum
<1> QED BY <1>7, <1>8

(* Go's division of a number of pages by a number of nodes. *)
LEMMA QuoRem ==
  ASSUME NEW m \in Nat, NEW z \in Nat \ {0}
  PROVE  /\ Quo(m, z) \in Nat
         /\ Rem(m, z) \in 0 .. z - 1
         /\ z * Quo(m, z) + Rem(m, z) = m
<1>1. m \div z \in Nat /\ m - z * (m \div z) \in 0 .. z - 1
  OBVIOUS
<1> QED BY <1>1 DEF Quo, Rem

(* With a negative count, what the first node gets is negative. *)
LEMMA NegativeShows ==
  ASSUME NEW m \in Int, m < 0, NEW z \in Nat \ {0}
  PROVE  Quo(m, z) + Rem(m, z) < 0
<1> DEFINE k == (-m) \div z
<1>1. k \in Nat /\ (-m) - z * k \in 0 .. z - 1
  OBVIOUS
<1>2. Quo(m, z) = -k
  BY DEF Quo
<1>3. Rem(m, z) = -((-m) - z * k)
  <2>1. Rem(m, z) = m - z * (-k)
    BY <1>2 DEF Rem
  <2>2. z * (-k) = -(z * k) /\ z * k \in Int
    BY <1>1
  <2> HIDE DEF k
  <2> QED BY <2>1, <2>2
<1> HIDE DEF k
<1>4. CASE k = 0
  BY <1>2, <1>3, <1>4
<1>5. CASE k # 0
  <2>1. z * k \in Int
    BY <1>1
  <2> QED BY <1>1, <1>2, <1>3, <1>5, <2>1
<1> QED BY <1>4, <1>5

(* Every node has its part: they make up the count, evenly, and it was not negative. *)
LEMMA PartsAddUp ==
  ASSUME NEW z \in Nat \ {0}, NEW m \in Int, NEW h, h[0] \in Nat,
         z = 1 => h[0] = m,
         z # 1 => /\ h[0] = Quo(m, z) + Rem(m, z)
                  /\ \A n \in 1 .. z - 1 : h[n] = Quo(m, z)
  PROVE  /\ m >= 0
         /\ Sum(h, z) = m
         /\ \A k, n \in 1 .. z - 1 : h[k] = h[n]
         /\ \A n \in 1 .. z - 1 : h[0] - h[n] \in 0 .. z - 1
<1>1. CASE z = 1
  <2>1. h[0] = m + 0 /\ m >= 0 /\ 0 \in Int
    BY <1>1
  <2>2. 1 .. z - 1 = {}
    BY <1>1
  <2>3. Sum(h, z) = z * m + 0
    BY <2>1, <2>2, SumOfParts, Zenon
  <2>4. Sum(h, z) = m
    BY <2>3, <1>1
  <2> QED BY <2>1, <2>2, <2>4
<1>2. CASE z # 1
  <2>1. PICK q, r : q = Quo(m, z) /\ r = Rem(m, z)
    OBVIOUS
  <2>2. h[0] = q + r /\ (\A n \in 1 .. z - 1 : h[n] = q)
    BY <1>2, <2>1
  <2>3. m \in Nat
    <3>1. ~(q + r < 0)
      <4>1. q \in Int /\ r \in Int
        BY <2>1 DEF Quo, Rem
      <4> QED BY <2>2, <4>1
    <3>2. m < 0 => q + r < 0
      BY <2>1, NegativeShows, Zenon
    <3> QED BY <3>1, <3>2
  <2>4. q \in Nat /\ r \in 0 .. z - 1 /\ z * q + r = m
    BY <2>1, <2>3, QuoRem
  <2>5. q \in Int /\ r \in Int
    BY <2>4
  <2>6. Sum(h, z) = z * q + r
    BY <2>2, <2>5, SumOfParts, Zenon
  <2>7. \A k, n \in 1 .. z - 1 : h[k] = h[n]
    BY <2>2
  <2>8. \A n \in 1 .. z - 1 : h[0] - h[n] \in 0 .. z - 1
    BY <2>2, <2>4
  <2> QED BY <2>3, <2>4, <2>6, <2>7, <2>8
<1> QED BY <1>1, <1>2

-----------------------------------------------------------------------------
(* The inductive invariant. *)

Input == numaZones \in Nat \ {0} /\ args \in Seq({Bad} \cup Seq(HugePage))

(* Where the run is in the files, all of which it could read so far. *)
Placed ==
  /\ \A i \in 1 .. a - 1 : args[i] # Bad
  /\ pc \in {"groups", "write"} => a <= Len(args) /\ args[a] # Bad /\ g <= Len(args[a]) + 1
  /\ pc = "write" => g <= Len(args[a])
  /\ pc = "read" => g = 1
  /\ pc = "ok" => a = Len(args) + 1

(* Of the group being written, the nodes up to the current one have their part. *)
Partial ==
  pc = "write" /\ numaZones > 1 =>
     \A n \in 0 .. node - 1 : nr[n][Size(<<a, g>>)] = pages(conf, n)

DoneValid == \A p \in Done : Size(p) # "" /\ Group(p).Count >= 0

Inv == /\ Input /\ TypeOK /\ Placed /\ Partial
       /\ DoneValid /\ DoneGroupsProvisioned

(* Listed, as pairs. *)
LEMMA ListedPairs ==
  ASSUME Input
  PROVE  /\ \A i, j : <<i, j>> \in Listed
                     <=> i \in 1 .. Len(args) /\ args[i] # Bad /\ j \in 1 .. Len(args[i])
         /\ \A p \in Listed : p = <<p[1], p[2]>> /\ p[1] \in Nat /\ p[2] \in Nat
         /\ \A p \in Listed : Group(p) \in HugePage
<1>1. /\ DOMAIN args = 1 .. Len(args) /\ Len(args) \in Nat
      /\ \A i \in DOMAIN args : args[i] # Bad => args[i] \in Seq(HugePage)
  BY DEF Input
<1>2. \A i \in DOMAIN args : Groups(i) = IF args[i] = Bad THEN {} ELSE 1 .. Len(args[i])
  BY <1>1 DEF Groups
<1>3. \A p : p \in Listed <=> \E i \in DOMAIN args : \E j \in Groups(i) : p = <<i, j>>
  BY DEF Listed
<1>4. \A i, j : <<i, j>> \in Listed
                     <=> i \in 1 .. Len(args) /\ args[i] # Bad /\ j \in 1 .. Len(args[i])
  BY <1>1, <1>2, <1>3
<1>5. ASSUME NEW p \in Listed
      PROVE  p = <<p[1], p[2]>> /\ p[1] \in Nat /\ p[2] \in Nat /\ Group(p) \in HugePage
  <2>1. PICK i \in DOMAIN args : \E j \in Groups(i) : p = <<i, j>>
    BY <1>3
  <2> PICK j \in Groups(i) : p = <<i, j>>
    BY <2>1
  <2>2. args[i] # Bad /\ j \in 1 .. Len(args[i]) /\ args[i] \in Seq(HugePage)
    BY <1>1, <1>2
  <2>3. args[i][j] \in HugePage
    BY <2>2
  <2> QED BY <1>1, <2>2, <2>3 DEF Group
<1> QED BY <1>4, <1>5

(* The names of sizes. *)
LEMMA SizeNames == \A x : ValidateHugePageSize(x) \in sysfsSizes \cup {""}
BY DEF ValidateHugePageSize, sysfsSizes

(* A step that is done with nothing more and writes nothing. *)
LEMMA NothingDone ==
  ASSUME Inv, UNCHANGED <<numaZones, args, nr>>, Done' = Done,
         \A w : Writing(w) => Writing(w)'
  PROVE  Input' /\ DoneValid' /\ DoneGroupsProvisioned'
<1>1. Listed' = Listed
  BY DEF Listed, Groups
<1>2. \A p : Group(p)' = Group(p) /\ Size(p)' = Size(p)
  BY DEF Group, Size
<1>3. Input'
  BY DEF Inv, Input
<1>4. DoneValid'
  BY <1>2 DEF Inv, DoneValid
<1>5. \A p : LastDone(p)' => LastDone(p)
  BY <1>2 DEF LastDone
<1>6. \A w, c : Provisioned(w, c) => Provisioned(w, c)'
  BY DEF Provisioned, Online
<1>7. ASSUME NEW p \in Listed, LastDone(p)', ~Writing(Size(p))' PROVE Provisioned(Size(p), Group(p))'
  <2>1. LastDone(p) /\ ~Writing(Size(p))
    BY <1>2, <1>5, <1>7
  <2>2. Provisioned(Size(p), Group(p))
    BY <2>1 DEF Inv, DoneGroupsProvisioned
  <2> QED BY <1>2, <1>6, <2>2
<1> QED BY <1>1, <1>3, <1>4, <1>7 DEF DoneGroupsProvisioned

(* A run starts with nothing done. *)
LEMMA NoneBefore == Input => \A p \in Listed : ~Before(p, <<1, 1>>)
<1> SUFFICES ASSUME Input, NEW p \in Listed PROVE ~Before(p, <<1, 1>>)
  OBVIOUS
<1>1. p = <<p[1], p[2]>>
  BY ListedPairs
<1>2. p[1] \in 1 .. Len(args) /\ p[2] \in 1 .. Len(args[p[1]])
  BY <1>1, ListedPairs
<1> QED BY <1>2 DEF Before

(* The first run starts with nothing done. *)
LEMMA InitInv == Init => Inv
<1> SUFFICES ASSUME Init PROVE Inv
  OBVIOUS
<1>1. Input
  BY ArgsAssumption, ZonesAssumption DEF ArgsAssumption, ZonesAssumption, Init, Input
<1>2. TypeOK
  <2>1. nr \in [Online -> [sysfsSizes -> Nat]]
    BY DEF Init
  <2>2. 0 \in Online
    BY <1>1 DEF Input, Online
  <2>3. 1 \in 1 .. MaxRuns
    BY RunsAssumption DEF RunsAssumption
  <2> QED BY <1>1, <2>1, <2>2, <2>3 DEF Init, Input, TypeOK
<1>3. Placed /\ Partial
  BY DEF Init, Placed, Partial
<1>4. Done = {}
  BY <1>1, NoneBefore DEF Init, Done
<1>5. DoneValid /\ DoneGroupsProvisioned
  BY <1>4, Zenon DEF DoneValid, DoneGroupsProvisioned, LastDone
<1> QED BY <1>1, <1>2, <1>3, <1>5 DEF Inv

(* A file is read: no group of it is done yet. *)
LEMMA ReadConfigurationStep == Inv /\ ReadConfiguration => Inv'
<1> SUFFICES ASSUME Inv, ReadConfiguration PROVE Inv'
  OBVIOUS
<1>1. Done' = Done
  BY DEF ReadConfiguration, Done, Listed, Groups
<1>2. \A w : ~Writing(w)
  BY DEF ReadConfiguration, Writing
<1>3. Input' /\ DoneValid' /\ DoneGroupsProvisioned'
  BY <1>1, <1>2, NothingDone DEF ReadConfiguration
<1>4. Len(args) \in Nat
  BY DEF Inv, Input
<1>5. TypeOK'
  BY <1>4 DEF Inv, TypeOK, Ended, Online, ReadConfiguration
<1>6. Placed'
  <2>1. a <= Len(args) /\ args[a] # Bad => Len(args[a]) \in Nat
    BY DEF Inv, Input, TypeOK
  <2> QED BY <1>4, <2>1 DEF Inv, TypeOK, Placed, ReadConfiguration
<1>7. Partial'
  BY DEF Partial, ReadConfiguration
<1> QED BY <1>3, <1>5, <1>6, <1>7 DEF Inv

(* A group is checked and its first part is about to be written, or the file is over. *)
LEMMA RuntimeHugepagesStep == Inv /\ RuntimeHugepages => Inv'
<1> SUFFICES ASSUME Inv, RuntimeHugepages PROVE Inv'
  OBVIOUS
<1>0. /\ Len(args) \in Nat /\ a \in 1 .. Len(args) /\ args[a] \in Seq(HugePage)
      /\ args[a] # Bad /\ Len(args[a]) \in Nat /\ g \in 1 .. Len(args[a]) + 1
  BY DEF Inv, Input, TypeOK, Placed, RuntimeHugepages
<1>1. Listed' = Listed
  BY DEF RuntimeHugepages, Listed, Groups
<1>2. \A w : ~Writing(w)
  BY DEF RuntimeHugepages, Writing
<1>3. Done' = Done
  <2>1. CASE a' = a /\ g' = g
    BY <2>1, <1>1 DEF Done, Before
  <2>2. CASE g = Len(args[a]) + 1 /\ a' = a + 1 /\ g' = 1
    <3>1. ASSUME NEW p \in Listed PROVE Before(p, <<a', g'>>) <=> Before(p, <<a, g>>)
      <4>1. p = <<p[1], p[2]>> /\ p[1] \in Nat
        BY ListedPairs DEF Inv
      <4>2. p[2] \in 1 .. Len(args[p[1]])
        BY <4>1, ListedPairs DEF Inv
      <4> QED BY SMTT(30), <4>1, <4>2, <1>0, <2>2 DEF Before
    <3> QED BY <3>1, <1>1 DEF Done
  <2> QED BY <2>1, <2>2, <1>0 DEF RuntimeHugepages
<1>4. Input' /\ DoneValid' /\ DoneGroupsProvisioned'
  BY <1>2, <1>3, NothingDone DEF RuntimeHugepages
<1>5. TypeOK'
  <2>1. pc' \in {"read", "write"} /\ a' \in 1 .. Len(args) + 1 /\ g' \in Nat \ {0}
    BY SMTT(30), <1>0 DEF Inv, TypeOK, RuntimeHugepages
  <2>2. node' \in Int /\ (numaZones > 1 => node' \in Online)
    <3>1. CASE g <= Len(args[a])
      <4>1. conf.Node \in Int \cup {NoNode}
        <5>1. g \in 1 .. Len(args[a])
          BY <1>0, <3>1
        <5>2. conf \in HugePage
          BY <1>0, <5>1 DEF conf
        <5> QED BY <5>2 DEF HugePage
      <4> QED BY <1>0, <3>1, <4>1 DEF RuntimeHugepages, pickNode, Online, Inv, Input
    <3>2. CASE g > Len(args[a])
      BY <1>0, <3>2 DEF RuntimeHugepages, Inv, TypeOK
    <3> QED BY <3>1, <3>2, <1>0
  <2> QED BY <2>1, <2>2 DEF Inv, TypeOK, RuntimeHugepages, Online
<1>6. Placed'
  BY SMTT(30), <1>0 DEF Inv, TypeOK, Placed, RuntimeHugepages
<1>7. Partial'
  <2> SUFFICES ASSUME pc' = "write", numaZones' > 1 PROVE 0 .. node' - 1 = {}
    BY Zenon DEF Partial
  <2> QED BY DEF RuntimeHugepages, Inv, Input
<1> QED BY <1>4, <1>5, <1>6, <1>7 DEF Inv

(* A part is written: the group is done when it was the last one. *)
LEMMA provisionOnNodeStep == Inv /\ provisionOnNode => Inv'
<1> SUFFICES ASSUME Inv, provisionOnNode PROVE Inv'
  OBVIOUS
<1> DEFINE last == ~(numaZones > 1 /\ node + 1 < numaZones)
<1>0. pc = "write" /\ UNCHANGED <<numaZones, args, a, runs>>
  BY DEF provisionOnNode
<1>1. /\ numaZones \in Nat \ {0} /\ Len(args) \in Nat /\ a \in 1 .. Len(args)
      /\ args[a] # Bad /\ args[a] \in Seq(HugePage)
      /\ Len(args[a]) \in Nat /\ g \in 1 .. Len(args[a])
  BY <1>0 DEF Inv, Input, TypeOK, Placed
<1>2. PICK c : c = conf
  OBVIOUS
<1>3. PICK size : size = ValidateHugePageSize(c.Size)
  OBVIOUS
<1>4. PICK here : here = <<a, g>>
  OBVIOUS
<1>5. c \in HugePage /\ c.Count \in Int
  <2>1. c \in HugePage
    BY <1>1, <1>2 DEF conf
  <2> QED BY <2>1 DEF HugePage
<1>6. here \in Listed /\ Group(here) = c /\ Size(here) = size
  <2>1. here \in Listed
    BY <1>1, <1>4, ListedPairs DEF Inv
  <2> QED BY <2>1, <1>2, <1>3, <1>4 DEF Group, Size, conf
<1>7. /\ size \in sysfsSizes /\ size # "" /\ node \in Online /\ pages(c, node) >= 0
      /\ nr' = [nr EXCEPT ![node][size] = pages(c, node)]
  BY <1>2, <1>3, SizeNames DEF provisionOnNode
<1>8. pages(c, node) \in Nat
  <2>1. pages(c, node) \in Int
    BY SMTT(30), <1>1, <1>5 DEF pages, Quo, Rem
  <2>2. pages(c, node) >= 0
    BY <1>7
  <2> QED BY <2>1, <2>2
<1>9. Listed' = Listed /\ (\A p : Group(p)' = Group(p) /\ Size(p)' = Size(p)) /\ Online' = Online
  <2>1. Listed' = Listed
    BY <1>0 DEF Listed, Groups
  <2> QED BY <1>0, <2>1 DEF Group, Size, Online
<1>10. /\ nr' \in [Online -> [sysfsSizes -> Nat]]
       /\ nr'[node][size] = pages(c, node)
       /\ \A n \in Online, w \in sysfsSizes : n # node \/ w # size => nr'[n][w] = nr[n][w]
  BY <1>7, <1>8 DEF Inv, TypeOK
<1>11. Input'
  BY <1>0 DEF Inv, Input
<1>12. \A n : pages(c, n)' = pages(c, n)
  BY <1>0 DEF pages
(* Another size is as it was. *)
<1>13. ASSUME NEW w \in sysfsSizes, w # size, NEW d, Provisioned(w, d) PROVE Provisioned(w, d)'
  <2>1. \A n \in Online : nr'[n][w] = nr[n][w]
    BY <1>10, <1>13
  <2>2. [n \in Online |-> nr'[n][w]] = [n \in Online |-> nr[n][w]]
    BY <2>1
  <2>3. Sum([n \in Online |-> nr'[n][w]], numaZones) = d.Count
    BY <2>2, <1>13 DEF Provisioned
  <2>4. 0 \in Online
    BY <1>1 DEF Online
  <2>5. (Sum([n \in Online |-> nr[n][w]], numaZones) = d.Count)'
    BY <1>0, <1>9, <2>3
  <2>6. (\A m, n \in Online \ {0} : nr[m][w] = nr[n][w])'
    BY <1>9, <1>13, <2>1 DEF Provisioned
  <2>7. (\A n \in Online \ {0} : nr[0][w] - nr[n][w] \in 0 .. numaZones - 1)'
    BY <1>0, <1>9, <1>13, <2>1, <2>4 DEF Provisioned
  <2> QED BY <2>5, <2>6, <2>7 DEF Provisioned
<1>14. \A p \in Done : Size(p) \in sysfsSizes
  <2>1. \A p \in Done : Size(p) # ""
    BY DEF Inv, DoneValid
  <2>2. \A p : Size(p) \in sysfsSizes \cup {""}
    BY SizeNames, Zenon DEF Size
  <2> QED BY <2>1, <2>2
<1>15. node \in 0 .. numaZones - 1
  BY <1>7 DEF Online
<1>16. CASE ~last
  <2>1. node' = node + 1 /\ UNCHANGED <<pc, g>> /\ pc = "write" /\ numaZones > 1
        /\ node + 1 < numaZones
    BY <1>16 DEF provisionOnNode
  <2>2. TypeOK'
    <3>1. node' \in Online' /\ node' \in Int
      BY <1>0, <1>1, <1>15, <2>1 DEF Online
    <3> QED BY <3>1, <1>0, <1>9, <1>10, <2>1 DEF Inv, TypeOK
  <2>3. Placed'
    BY <1>0, <2>1 DEF Inv, Placed
  <2>4. Partial'
    <3> SUFFICES ASSUME NEW n \in 0 .. node' - 1
                 PROVE  (nr[n][Size(<<a, g>>)])' = pages(conf, n)'
      BY Zenon DEF Partial
    <3>1. n \in Online /\ (n = node \/ n \in 0 .. node - 1)
      BY <1>1, <1>15, <2>1 DEF Online
    <3>2. Size(<<a, g>>)' = size /\ conf' = c
      BY <1>0, <1>2, <1>4, <1>6, <1>9, <2>1 DEF conf
    <3>3. nr'[n][size] = pages(c, n)
      <4>1. CASE n = node
        BY <4>1, <1>10
      <4>2. CASE n # node
        <5>1. nr[n][size] = pages(c, n)
          BY <4>2, <3>1, <2>1, <1>2, <1>4, <1>6 DEF Inv, Partial
        <5> QED BY <5>1, <4>2, <3>1, <1>7, <1>10
      <4> QED BY <4>1, <4>2
    <3> QED BY <3>2, <3>3, <1>12
  <2>5. Done' = Done /\ (\A w : Writing(w)' <=> Writing(w)) /\ Writing(size)
    BY <1>0, <1>4, <1>6, <1>9, <2>1 DEF Done, Writing
  <2>6. DoneValid'
    BY <1>9, <2>5 DEF Inv, DoneValid
  <2>7. DoneGroupsProvisioned'
    <3> SUFFICES ASSUME NEW p \in Listed, LastDone(p)', ~Writing(Size(p))'
                 PROVE  Provisioned(Size(p), Group(p))'
      BY <1>9 DEF DoneGroupsProvisioned
    <3>1. LastDone(p)
      BY <1>9, <2>5 DEF LastDone
    <3>2. Size(p) # size /\ ~Writing(Size(p))
      BY <1>9, <2>5
    <3>3. Size(p) \in sysfsSizes
      BY <3>1, <1>14 DEF LastDone
    <3>4. Provisioned(Size(p), Group(p))
      BY <3>1, <3>2 DEF Inv, DoneGroupsProvisioned
    <3> QED BY <3>2, <3>3, <3>4, <1>9, <1>13
  <2> QED BY <1>11, <2>2, <2>3, <2>4, <2>6, <2>7 DEF Inv
<1>17. CASE last
  <2>1. pc' = "groups" /\ g' = g + 1 /\ node' = node /\ pc = "write"
    BY <1>17 DEF provisionOnNode
  <2>2. TypeOK'
    BY SMTT(30), <1>0, <1>1, <1>9, <1>10, <2>1 DEF Inv, TypeOK
  <2>3. Placed'
    BY <1>0, <1>1, <2>1 DEF Inv, Placed
  <2>4. Partial'
    BY <2>1 DEF Partial
  <2>5. ASSUME NEW n \in Online PROVE nr'[n][size] = pages(c, n)
    <3>1. CASE n = node
      BY <3>1, <1>10
    <3>2. CASE n # node
      <4>1. numaZones > 1 /\ n \in 0 .. node - 1
        BY <1>1, <1>17, <1>15, <3>2 DEF Online
      <4>2. nr[n][size] = pages(c, n)
        BY <4>1, <1>0, <1>2, <1>4, <1>6 DEF Inv, Partial
      <4> QED BY <4>2, <3>2, <1>7, <1>10
    <3> QED BY <3>1, <3>2
  <2>6. c.Count >= 0 /\ Provisioned(size, c)'
    <3> DEFINE h == [n \in Online |-> nr'[n][size]]
               z == numaZones
               m == c.Count
    <3>1. 0 \in Online /\ (\A n \in 1 .. z - 1 : n \in Online) /\ Online \ {0} = 1 .. z - 1
      BY <1>1 DEF Online
    <3>2. h[0] \in Nat
      <4>1. size \in sysfsSizes
        BY <1>7
      <4> QED BY <4>1, <3>1, <1>10
    <3>3. z = 1 => h[0] = m
      BY <3>1, <2>5 DEF pages
    <3>4. z # 1 => h[0] = Quo(m, z) + Rem(m, z)
      BY <3>1, <2>5 DEF pages
    <3>5. z # 1 => \A n \in 1 .. z - 1 : h[n] = Quo(m, z)
      <4>1. Quo(m, z) \in Int
        BY <1>1, <1>5 DEF Quo
      <4>2. z # 1 => \A n \in Online \ {0} : pages(c, n) = Quo(m, z)
        BY <4>1 DEF pages
      <4> QED BY <3>1, <4>2, <2>5
    <3>6. z \in Nat \ {0} /\ m \in Int
      BY <1>1, <1>5
    <3> HIDE DEF h, z, m
    <3>7. /\ m >= 0
          /\ Sum(h, z) = m
          /\ \A k, n \in 1 .. z - 1 : h[k] = h[n]
          /\ \A n \in 1 .. z - 1 : h[0] - h[n] \in 0 .. z - 1
      BY <3>2, <3>3, <3>4, <3>5, <3>6, PartsAddUp, Zenon
    <3>8. \A n \in Online : nr'[n][size] = h[n]
      BY DEF h
    <3>9. Sum([n \in Online' |-> nr'[n][size]], numaZones') = c.Count
      BY <1>0, <1>9, <3>7 DEF h, z, m
    <3>10. \A k, n \in Online' \ {0} : nr'[k][size] = nr'[n][size]
      BY <1>9, <3>1, <3>7, <3>8
    <3>11. \A n \in Online' \ {0} : nr'[0][size] - nr'[n][size] \in 0 .. numaZones' - 1
      BY <1>0, <1>9, <3>1, <3>7, <3>8 DEF z
    <3> QED BY <3>7, <3>9, <3>10, <3>11 DEF Provisioned, m
  <2>7. Done' = Done \cup {here}
    <3>1. ASSUME NEW p \in Listed PROVE Before(p, <<a, g + 1>>) <=> Before(p, <<a, g>>) \/ p = here
      <4>1. p = <<p[1], p[2]>> /\ p[1] \in Nat /\ p[2] \in Nat
        BY ListedPairs DEF Inv
      <4> QED BY <4>1, <1>1, <1>4 DEF Before
    <3> QED BY <3>1, <1>0, <1>6, <1>9, <2>1 DEF Done
  <2>8. DoneValid'
    BY <1>6, <1>7, <1>9, <2>6, <2>7 DEF Inv, DoneValid
  <2>9. DoneGroupsProvisioned'
    <3> SUFFICES ASSUME NEW p \in Listed, LastDone(p)'
                 PROVE  Provisioned(Size(p), Group(p))'
      BY <1>9 DEF DoneGroupsProvisioned
    <3>1. CASE p = here
      <4>1. Size(p)' = size /\ Group(p)' = c
        BY <3>1, <1>6, <1>9
      <4> QED BY <4>1, <2>6
    <3>2. CASE p # here
      <4>1. p \in Done
        BY <3>2, <2>7 DEF LastDone
      <4>2. Before(p, here)
        BY <4>1, <1>4 DEF Done
      <4>3. Size(p) # size
        BY <4>2, <2>7, <1>6, <1>9 DEF LastDone
      <4>4. LastDone(p)
        BY <4>1, <1>9, <2>7 DEF LastDone
      <4>5. ~Writing(Size(p))
        BY <4>3, <1>4, <1>6 DEF Writing
      <4>6. Provisioned(Size(p), Group(p))
        BY <4>4, <4>5 DEF Inv, DoneGroupsProvisioned
      <4> QED BY <4>1, <4>3, <4>6, <1>9, <1>13, <1>14
    <3> QED BY <3>1, <3>2
  <2> QED BY <1>11, <2>2, <2>3, <2>4, <2>8, <2>9 DEF Inv
<1> QED BY <1>16, <1>17

(* A failure, a kill, or nothing at all. *)
LEMMA EndStep == Inv /\ (provisionOnNodeFails \/ Kill \/ UNCHANGED vars) => Inv'
<1> SUFFICES ASSUME Inv, provisionOnNodeFails \/ Kill \/ UNCHANGED vars PROVE Inv'
  OBVIOUS
<1>1. /\ UNCHANGED <<numaZones, args, a, g, node, nr, runs>>
      /\ pc' = pc \/ (pc \notin Ended /\ pc' \in {"err", "killed"})
  BY DEF provisionOnNodeFails, Kill, vars, Ended
<1>2. Done' = Done /\ Listed' = Listed
  BY <1>1 DEF Done, Listed, Groups
<1>3. \A w : Writing(w) => Writing(w)'
  BY <1>1, <1>2 DEF Writing, Size, Group
<1>4. Input' /\ DoneValid' /\ DoneGroupsProvisioned'
  BY <1>1, <1>2, <1>3, NothingDone
<1>5. TypeOK'
  BY <1>1 DEF Inv, TypeOK, Ended, Online
<1>6. Placed'
  BY <1>1 DEF Inv, Placed
<1>7. Partial'
  BY SMTT(30), <1>1 DEF Inv, Partial, Size, Group, conf, pages
<1> QED BY <1>4, <1>5, <1>6, <1>7 DEF Inv

(* A new run starts with nothing done. *)
LEMMA RerunStep == Inv /\ Rerun => Inv'
<1> SUFFICES ASSUME Inv, Rerun PROVE Inv'
  OBVIOUS
<1>1. Listed' = Listed
  BY DEF Rerun, Listed, Groups
<1>2. Done' = {}
  BY <1>1, NoneBefore DEF Rerun, Done, Inv
<1>3. DoneValid' /\ DoneGroupsProvisioned'
  BY <1>2, Zenon DEF DoneValid, DoneGroupsProvisioned, LastDone
<1>4. Input'
  BY DEF Inv, Input, Rerun
<1>5. TypeOK'
  <2>1. Len(args) \in Nat
    BY DEF Inv, Input
  <2>2. runs' \in 1 .. MaxRuns
    BY RunsAssumption DEF RunsAssumption, Inv, TypeOK, Rerun
  <2> QED BY <2>1, <2>2 DEF Inv, TypeOK, Online, Rerun
<1>6. Placed' /\ Partial'
  BY DEF Placed, Partial, Rerun
<1> QED BY <1>3, <1>4, <1>5, <1>6 DEF Inv

(***************************************************************************)
(* The inductive invariant: how far the run is in its files (main.go), and *)
(* that the nodes before the current one have their part of the group that *)
(* is being written (provisionOnMultiNode).                                *)
(***************************************************************************)
THEOREM Invariance == Spec => []Inv
<1>1. Inv /\ [Next]_vars => Inv'
  BY ReadConfigurationStep, RuntimeHugepagesStep, provisionOnNodeStep, EndStep, RerunStep DEF Next
<1> QED BY InitInv, <1>1, PTL DEF Spec

(* The variables keep their types: the loop over the nodes stays in range,  *)
(* and no negative number is ever written.                                  *)
THEOREM TypeCorrect == Spec => []TypeOK
BY Invariance, PTL DEF Inv

(***************************************************************************)
(* The last group of every size a run is done with is in place, whole and  *)
(* evenly spread, for every number of NUMA nodes and every list of files,  *)
(* however the run ends (RuntimeHugepages, provisionOnMultiNode).          *)
(***************************************************************************)
THEOREM GroupsProvisioned == Spec => []DoneGroupsProvisioned
BY Invariance, PTL DEF Inv

(***************************************************************************)
(* A run of setup-hugepages that exits with 0 has read every file and      *)
(* written every group.                                                    *)
(***************************************************************************)
THEOREM SuccessComplete == Spec => []SuccessIsComplete
<1>1. Inv => SuccessIsComplete
  <2> SUFFICES ASSUME Inv, pc = "ok"
               PROVE  /\ \A i \in DOMAIN args : args[i] # Bad
                      /\ Done = Listed
                      /\ \A p \in Listed : Size(p) # "" /\ Group(p).Count >= 0
    BY DEF SuccessIsComplete
  <2>1. a = Len(args) + 1 /\ Len(args) \in Nat /\ DOMAIN args = 1 .. Len(args)
    BY DEF Inv, Placed, Input
  <2>2. \A i \in DOMAIN args : args[i] # Bad
    BY <2>1 DEF Inv, Placed
  <2>3. ASSUME NEW p \in Listed PROVE Before(p, <<a, g>>)
    <3>1. p = <<p[1], p[2]>>
      BY ListedPairs DEF Inv
    <3>2. p[1] \in 1 .. Len(args)
      BY <3>1, ListedPairs DEF Inv
    <3> QED BY <2>1, <3>2 DEF Before
  <2>4. Done = Listed
    BY <2>3 DEF Done
  <2> QED BY <2>2, <2>4 DEF Inv, DoneValid
<1> QED BY <1>1, Invariance, PTL

=============================================================================
