------------------------------ MODULE Hugepages -----------------------------
(***************************************************************************)
(* setup-hugepages (setup/hugepages/main.go and                            *)
(* setup/pkg/hugepages/provision): for every group of pages in every       *)
(* configuration file, write the number of pages each NUMA node shall have *)
(* to sysfs.  Each write is a step; one may fail, which ends the run where *)
(* it is, and the tool may be killed and run again.                        *)
(***************************************************************************)
EXTENDS Integers, Sequences

CONSTANTS
  Args,      \* the command lines: sequences of files
  Bad,       \* a file that cannot be read or parsed
  Zones,     \* the numbers of NUMA nodes a machine may have
  NoNode,    \* HugePage.Node is nil
  MaxRuns    \* bound: times the tool is run

HugePage == [Size : STRING, Count : Int, Node : Int \cup {NoNode}]

ASSUME ArgsAssumption == \A files \in Args : files \in Seq({Bad} \cup Seq(HugePage))

ASSUME ZonesAssumption == Zones \subseteq Nat \ {0}   \* "can't be lower" (provision.go:36)

ASSUME RunsAssumption == MaxRuns \in Nat \ {0}

VARIABLES
  numaZones, \* NUMA nodes the topology reports
  args,   \* the files: each Bad or a sequence of groups [Size, Count, Node]
  pc,     \* "read", "groups", "write", or how the run ended
  a,      \* the file
  g,      \* conf: the group in it
  node,   \* numaNode
  nr,     \* nr[n][s]: what was last written for node n and sysfs size s
  runs    \* runs so far

vars == <<numaZones, args, pc, a, g, node, nr, runs>>

Ended == {"ok", "err", "killed"}

sysfsSizes == {"1048576kB", "2048kB"}

(* The nodes, from 0, whose nr_hugepages files exist. *)
Online == 0 .. numaZones - 1

(* The name of a size in sysfs, "" if it is not supported. *)
ValidateHugePageSize(s) ==
  CASE s \in {"1G", "1Gi", "1g"} -> "1048576kB"
    [] s \in {"2M", "2Mi", "2m"} -> "2048kB"
    [] OTHER                     -> ""

Init ==
  /\ numaZones \in Zones
  /\ args \in Args
  /\ pc = "read"
  /\ a = 1
  /\ g = 1
  /\ node = 0
  /\ nr = [n \in Online |-> [s \in sysfsSizes |-> 0]]
  /\ runs = 1

-----------------------------------------------------------------------------
(* Go's division, which truncates toward zero, and its remainder. *)
Quo(m, n) == IF m >= 0 THEN m \div n ELSE -((-m) \div n)
Rem(m, n) == m - n * Quo(m, n)

pickNode(hp) == IF hp.Node = NoNode THEN 0 ELSE hp.Node

(* Mutant: the excess goes to every node. *)
pages_extraEverywhere(hp, n) ==
  IF numaZones = 1 THEN hp.Count
  ELSE Quo(hp.Count, numaZones) + Rem(hp.Count, numaZones)

(* The pages of a group for node n: all, or its part with the excess on 0. *)
pages(hp, n) ==
  IF numaZones = 1 THEN hp.Count
  ELSE Quo(hp.Count, numaZones) + (IF n = 0 THEN Rem(hp.Count, numaZones) ELSE 0)

(* The group RuntimeHugepages is at. *)
conf == args[a][g]

(* Mutant: a file that cannot be read is passed over. *)
ReadConfiguration_skips ==
  /\ pc = "read"
  /\ pc' = IF a > Len(args) THEN "ok" ELSE IF args[a] = Bad THEN "read" ELSE "groups"
  /\ a' = IF a <= Len(args) /\ args[a] = Bad THEN a + 1 ELSE a
  /\ UNCHANGED <<numaZones, args, g, node, nr, runs>>

ReadConfiguration ==
  /\ pc = "read"
  /\ pc' = IF a > Len(args) THEN "ok" ELSE IF args[a] = Bad THEN "err" ELSE "groups"
  /\ UNCHANGED <<numaZones, args, a, g, node, nr, runs>>

(* The loop of RuntimeHugepages: the next group, or the next file. *)
RuntimeHugepages ==
  /\ pc = "groups"
  /\ \/ /\ g <= Len(args[a])
        /\ node' = IF numaZones = 1 THEN pickNode(conf) ELSE 0
        /\ pc' = "write"
        /\ UNCHANGED <<a, g>>
     \/ /\ g > Len(args[a])
        /\ a' = a + 1
        /\ g' = 1
        /\ pc' = "read"
        /\ UNCHANGED node
  /\ UNCHANGED <<numaZones, args, nr, runs>>

(* Mutant: the loop over the nodes runs once too often. *)
provisionOnNode_fencepost ==
  LET size == ValidateHugePageSize(conf.Size) IN
  /\ pc = "write"
  /\ size # "" /\ node \in Online /\ pages(conf, node) >= 0
  /\ nr' = [nr EXCEPT ![node][size] = pages(conf, node)]
  /\ \/ /\ numaZones > 1 /\ node + 1 <= numaZones
        /\ node' = node + 1
        /\ UNCHANGED <<pc, g>>
     \/ /\ ~(numaZones > 1 /\ node + 1 <= numaZones)
        /\ pc' = "groups"
        /\ g' = g + 1
        /\ UNCHANGED node
  /\ UNCHANGED <<numaZones, args, a, runs>>

(* One write, and on to the next node or the next group. *)
provisionOnNode ==
  LET size == ValidateHugePageSize(conf.Size) IN
  /\ pc = "write"
  /\ size # "" /\ node \in Online /\ pages(conf, node) >= 0
  /\ nr' = [nr EXCEPT ![node][size] = pages(conf, node)]
  /\ \/ /\ numaZones > 1 /\ node + 1 < numaZones
        /\ node' = node + 1
        /\ UNCHANGED <<pc, g>>
     \/ /\ ~(numaZones > 1 /\ node + 1 < numaZones)
        /\ pc' = "groups"
        /\ g' = g + 1
        /\ UNCHANGED node
  /\ UNCHANGED <<numaZones, args, a, runs>>

(* An unsupported size, no such file, or the kernel rejects the number. *)
provisionOnNodeFails ==
  /\ pc = "write"
  /\ pc' = "err"
  /\ UNCHANGED <<numaZones, args, a, g, node, nr, runs>>

Kill ==
  /\ pc \notin Ended
  /\ pc' = "killed"
  /\ UNCHANGED <<numaZones, args, a, g, node, nr, runs>>

(* Somebody runs the tool again, with the same files. *)
Rerun ==
  /\ pc \in Ended
  /\ runs < MaxRuns
  /\ runs' = runs + 1
  /\ pc' = "read"
  /\ a' = 1
  /\ g' = 1
  /\ UNCHANGED <<numaZones, args, node, nr>>

Next ==
  \/ ReadConfiguration \/ RuntimeHugepages
  \/ provisionOnNode \/ provisionOnNodeFails
  \/ Kill \/ Rerun

Spec == Init /\ [][Next]_vars

-----------------------------------------------------------------------------
TypeOK ==
  /\ pc \in {"read", "groups", "write"} \cup Ended
  /\ a \in 1 .. Len(args) + 1
  /\ g \in Nat \ {0}
  /\ node \in Int /\ (numaZones > 1 => node \in Online)
  /\ nr \in [Online -> [sysfsSizes -> Nat]]
  /\ runs \in 1 .. MaxRuns

(* The groups of all files, as pairs of a file and a place in it. *)
Groups(i) == IF args[i] = Bad THEN {} ELSE DOMAIN args[i]
Listed == UNION {{<<i, j>> : j \in Groups(i)} : i \in DOMAIN args}

(* The tool comes to p before q. *)
Before(p, q) == p[1] < q[1] \/ (p[1] = q[1] /\ p[2] < q[2])

Done == {p \in Listed : Before(p, <<a, g>>)}

Group(p) == args[p[1]][p[2]]
Size(p)  == ValidateHugePageSize(Group(p).Size)

(* p is the last group of its size the run is done with. *)
LastDone(p) ==
  /\ p \in Done
  /\ \A q \in Done : Size(q) = Size(p) => ~Before(p, q)

(* A group of size s may have been written in part. *)
Writing(s) ==
  /\ pc \notin {"read", "groups"}
  /\ <<a, g>> \in Listed /\ Size(<<a, g>>) = s

(* h[0] + ... + h[z - 1] *)
Sum(h, z) ==
  LET sum[n \in 0 .. z] == IF n = 0 THEN 0 ELSE sum[n - 1] + h[n - 1]
  IN  sum[z]

(* The pages of group c are all there, spread evenly, the excess on node 0. *)
Provisioned(s, c) ==
  /\ Sum([n \in Online |-> nr[n][s]], numaZones) = c.Count
  /\ \A m, n \in Online \ {0} : nr[m][s] = nr[n][s]
  /\ \A n \in Online \ {0} : nr[0][s] - nr[n][s] \in 0 .. numaZones - 1

(***************************************************************************)
(* Of the groups a run is done with, the last one of every size is in      *)
(* place, whole and evenly spread: whether the run goes on, has failed in  *)
(* a later group, or was killed, and whatever earlier runs left behind     *)
(* (provision.go:30-68).                                                   *)
(***************************************************************************)
DoneGroupsProvisioned ==
  \A p \in Listed : LastDone(p) /\ ~Writing(Size(p)) => Provisioned(Size(p), Group(p))

(***************************************************************************)
(* Exit status 0 means that every file was read and every group written.   *)
(***************************************************************************)
SuccessIsComplete ==
  pc = "ok" => /\ \A i \in DOMAIN args : args[i] # Bad
               /\ Done = Listed
               /\ \A p \in Listed : Size(p) # "" /\ Group(p).Count >= 0

(***************************************************************************)
(* "Node defines the NUMA node where hugepages will be allocated"          *)
(* (types.go:31): after a run that succeeds, a group that names a node has *)
(* its pages there.                                                        *)
(***************************************************************************)
NodeHonoured ==
  pc = "ok" => \A p \in Listed :
     LastDone(p) /\ Group(p).Node # NoNode => nr[Group(p).Node][Size(p)] = Group(p).Count

=============================================================================
