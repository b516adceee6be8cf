--------------------------- MODULE SriovVFProofs ----------------------------
(***************************************************************************)
(* Proofs about SriovVF, for any number of invocations, devices, VFs and   *)
(* NUMA nodes: the inductive invariant; and that handing out the NUMA      *)
(* nodes in turn is as even as can be, so that the invariant means that a  *)
(* PF is as asked for.                                                     *)
(***************************************************************************)
EXTENDS SriovVF, FiniteSetTheorems, TLAPS

Making  == {"reset", "resetting", "create", "creating"}
Filling == {"pfnuma", "list", "links", "nodes", "assign"}
Chosen  == Making \cup Filling
Active(p) == pc[p] \notin Ended \cup {"idle"}

(* Of overlapping runs, some have listed part of the VFs only. *)
Torn == Overlap /\ \E p \in Runs : pc[p] # "links" /\ vfs[p] \notin {{}, 1 .. cfg[p].num}

(* The nodes for VFs under configuration c, with the nodes ns, and the one for the i-th VF. *)
Spread(c, ns)   == IF c.node >= 0 THEN {c.node} ELSE Range(ns)
Share(c, ns, i) == IF c.node >= 0 THEN c.node ELSE ns[1 + ((i - 1) % Len(ns))]

(* The i-th VF of d is on the node that is its turn, or another one if VFs were miscounted. *)
Right(d, c, ns, i) ==
  /\ vfnode[d][i] \in Spread(c, ns)
  /\ Torn \/ vfnode[d][i] = Share(c, ns, i)

(* The types, with the domains TypeOK leaves open. *)
TypeInv ==
  /\ TypeOK
  /\ last \in Runs
  /\ DOMAIN nodes = Runs
  /\ DOMAIN numvfs = Devices
  /\ DOMAIN vfnode = Devices
  /\ DOMAIN pfnode = Devices
  /\ Overlap => \A p, q \in Runs : cfg[p] = cfg[q]

(* A run past Resolve has a PF, which has room. *)
ChoiceInv ==
  \A p \in Runs :
    /\ pc[p] \in Chosen => dev[p] # NoAddr
    /\ dev[p] # NoAddr => /\ dev[p] \in resolvePF(p)
                          /\ 0 <= cfg[p].num /\ cfg[p].num <= TotalVFs[dev[p]]

(* VFs are only created where there are none, or just as many. *)
CreateInv ==
  /\ ~busy
  /\ \A p \in Runs : pc[p] = "create" => numvfs[dev[p]] \in {0, cfg[p].num}

(***************************************************************************)
(* VFs are listed once; the loop over them is entered at the first one,    *)
(* with nodes to choose from.                                              *)
(***************************************************************************)
LoopInv ==
  \A p \in Runs :
    /\ IsFiniteSet(vfs[p])
    /\ pc[p] \notin Ended \cup {"links", "nodes", "assign"} => vfs[p] = {}
    /\ pc[p] \notin Ended \cup {"assign"} => idx[p] = 1 /\ nodes[p] = <<>>
    /\ pc[p] = "nodes" => cfg[p].node < 0 /\ vfs[p] # {}
    /\ pc[p] = "assign" => idx[p] \in 1 .. Cardinality(vfs[p])
    /\ pc[p] = "assign" /\ cfg[p].node < 0 => nodes[p] \in OnlineNodes /\ nodes[p] # <<>>

OneAtATime == Faults => \A p \in Runs : Active(p) => p = last

(* The device is as p asks for, up to the VF p sets next. *)
Sound(p) ==
  /\ numvfs[dev[p]] = cfg[p].num
  /\ pc[p] # "pfnuma" /\ cfg[p].node >= 0 => pfnode[dev[p]] = cfg[p].node
  /\ pc[p] = "links" => entries[p] \cup vfs[p] = 1 .. cfg[p].num
  /\ pc[p] \in {"nodes", "assign"} => vfs[p] = 1 .. cfg[p].num
  /\ pc[p] = "assign" => \A i \in 1 .. (idx[p] - 1) : Right(dev[p], cfg[p], nodes[p], i)

Complete(d, c, ns) ==
  /\ d \in Devices
  /\ numvfs[d] = c.num
  /\ c.node >= 0 => pfnode[d] = c.node
  /\ c.node >= 0 \/ ns # <<>> => \A i \in 1 .. c.num : Right(d, c, ns, i)

(* The nodes run p spreads its VFs over. *)
Target(p) == IF Faults THEN nodes[p] ELSE Nodes

(* A run on its own, which stops at the first failure, loses nothing. *)
SequentialInv ==
  Faults /\ ~cfg[last].try =>
    /\ pc[last] \in Filling => Sound(last)
    /\ pc[last] = "ok" => Complete(dev[last], cfg[last], nodes[last])

(***************************************************************************)
(* Of runs side by side there is always one that will leave the device as  *)
(* asked: it has yet to create the VFs, or is filling them in, and no      *)
(* other takes them away.  A run that does take them away is that one from *)
(* then on.                                                                *)
(***************************************************************************)
Responsible(p) == pc[p] \in Making \/ (pc[p] \in Filling /\ Sound(p))

OverlapInv ==
  Overlap /\ (\E p \in Runs : dev[p] # NoAddr) =>
    \/ \E p \in Runs : Responsible(p)
    \/ \A p \in Runs : dev[p] # NoAddr => Complete(dev[p], cfg[p], Nodes)

Inv ==
  /\ TypeInv /\ ChoiceInv /\ CreateInv /\ LoopInv /\ OneAtATime
  /\ SequentialInv /\ OverlapInv

-----------------------------------------------------------------------------
(* The inductive invariant, one lemma for each of its parts. *)

LEMMA InitInv == Init => Inv
<1> SUFFICES ASSUME Init PROVE Inv
  OBVIOUS
<1> USE DevicesAssumption, TotalVFsAssumption, InitVFsAssumption
       DEF DevicesAssumption, TotalVFsAssumption, InitVFsAssumption
<1>1. TypeInv
  <2>1. \A d \in Devices : /\ numvfs[d] \in 0 .. TotalVFs[d]
                           /\ DOMAIN vfnode[d] = 1 .. numvfs[d]
    <3>1. /\ numvfs \in [Devices -> InitVFs] /\ \A d \in Devices : numvfs[d] <= TotalVFs[d]
          /\ vfnode = [d \in Devices |-> [i \in 1 .. numvfs[d] |-> NoNode]]
      BY DEF Init
    <3>2. ASSUME NEW d \in Devices PROVE numvfs[d] \in Nat /\ TotalVFs[d] \in Nat
      BY <3>1, Zenon
    <3> QED
      BY <3>1, <3>2
  <2>2. \A p \in Runs : nodes[p] \in OnlineNodes \cup {<<>>}
    BY DEF Init
  <2> QED
    BY <2>1, <2>2 DEF Init, TypeInv, TypeOK, NoAddr
<1>2. ChoiceInv /\ CreateInv /\ LoopInv /\ OneAtATime
  BY FS_EmptySet DEF Init, ChoiceInv, CreateInv, LoopInv, OneAtATime, Chosen, Making, Filling,
     Active, Ended
<1>3. SequentialInv /\ OverlapInv
  BY DEF Init, SequentialInv, OverlapInv, Filling
<1> QED
  BY <1>1, <1>2, <1>3 DEF Inv

(* The types of what the steps below use. *)
LEMMA Types ==
  ASSUME TypeInv, NEW p \in Runs
  PROVE  /\ cfg[p] \in Configs /\ cfg[p].num \in Int /\ cfg[p].node \in Int
         /\ cfg[p].try \in BOOLEAN
         /\ idx[p] \in Nat
         /\ \A d \in Devices : numvfs[d] \in Nat /\ TotalVFs[d] \in Nat
BY SMTT(30), ConfigsAssumption, TotalVFsAssumption DEF TypeInv, TypeOK, ConfigsAssumption,
   TotalVFsAssumption

(* A run past Resolve has a PF. *)
LEMMA HasPF ==
  ASSUME ChoiceInv, NEW p \in Runs, pc[p] \in Chosen
  PROVE  /\ dev[p] \in Devices /\ dev[p] \in resolvePF(p)
         /\ 0 <= cfg[p].num /\ cfg[p].num <= TotalVFs[dev[p]]
BY DEF ChoiceInv, resolvePF

(* Overlapping runs are on the same PF. *)
LEMMA SamePF ==
  ASSUME TypeInv, ChoiceInv, Overlap, NEW p \in Runs, NEW q \in Runs,
         dev[p] # NoAddr, dev[q] # NoAddr
  PROVE  dev[p] = dev[q] /\ cfg[p] = cfg[q]
<1>1. cfg[p] = cfg[q]
  BY DEF TypeInv
<1>2. dev[p] \in resolvePF(p) /\ dev[q] \in resolvePF(q) /\ ~Faults
  BY DEF ChoiceInv, Overlap, Faults
<1>3. dev[p] \in Nat /\ dev[q] \in Nat
  BY <1>2, DevicesAssumption, Zenon DEF resolvePF, DevicesAssumption
<1> QED
  BY <1>1, <1>2, <1>3 DEF resolvePF

(* A step leaves the settings alone. *)
LEMMA Settings ==
  ASSUME NEW p \in Runs, Launch(p) \/ Kill(p) \/ Run(p)
  PROVE  /\ UNCHANGED <<mode, cfg>>
         /\ (Faults' <=> Faults) /\ (Overlap' <=> Overlap) /\ OnlineNodes' = OnlineNodes
<1>1. UNCHANGED <<mode, cfg>>
  BY ZenonT(30) DEF Launch, Kill, Run, Resolve, ResolveFails, Reset, Resetting, Create,
     Creating, setNumVFsFails, setPFNUMANode, ReadDir, EvalSymlinks, listVFPathsFails,
     listNUMANodes, AssignVF, WriteNumVFs, local
<1> QED
  BY <1>1 DEF Faults, Overlap, OnlineNodes

(* A run that takes a step has been started and has not ended. *)
LEMMA Acts ==
  ASSUME NEW p \in Runs, Kill(p) \/ Run(p)
  PROVE  last' = last /\ Active(p)
BY ZenonT(30) DEF Launch, Kill, Run, Resolve, ResolveFails, Reset, Resetting, Create, Creating,
   setNumVFsFails, setPFNUMANode, ReadDir, EvalSymlinks, listVFPathsFails, listNUMANodes,
   AssignVF, WriteNumVFs, local, Active, Ended, Steps

(* A step of one run is its next one. *)
LEMMA Goes ==
  ASSUME TypeInv, NEW p \in Runs, Launch(p) \/ Kill(p) \/ Run(p)
  PROVE  \E l \in Steps \cup Ended : pc' = [pc EXCEPT ![p] = l]
<1> USE DEF Steps, Ended, Goto
<1>1. CASE Launch(p) \/ Kill(p)
  BY <1>1, Zenon DEF Launch, Kill
<1>2. CASE Resolve(p)
  <2>1. PICK d \in Devices :
          Goto(p, IF numvfs[d] = cfg[p].num THEN Numbered(p)
                  ELSE IF numvfs[d] > 0 THEN "reset" ELSE "create")
    BY <1>2, Zenon DEF Resolve, resolvePF
  <2> QED
    BY <2>1, Zenon DEF Numbered
<1>3. CASE ResolveFails(p) \/ setNumVFsFails(p) \/ listVFPathsFails(p)
  BY <1>3, ZenonT(30) DEF ResolveFails, setNumVFsFails, listVFPathsFails, handleFailure,
     finishTryMode, Numbered
<1>4. CASE Reset(p) \/ Create(p)
  BY <1>4, Zenon DEF Reset, Create
<1>5. CASE Resetting(p) \/ Creating(p)
  <2>1. CASE pc' = pc
    BY <1>5, <2>1, ZenonT(30) DEF Resetting, Creating, TypeInv, TypeOK
  <2>2. CASE pc' # pc
    BY <1>5, <2>2, ZenonT(30) DEF Resetting, Creating, WriteNumVFs, Numbered
  <2> QED
    BY <2>1, <2>2
<1>6. CASE setPFNUMANode(p) \/ listNUMANodes(p)
  BY <1>6, ZenonT(30) DEF setPFNUMANode, listNUMANodes, handleFailure, finishTryMode
<1>7. CASE ReadDir(p) \/ EvalSymlinks(p)
  BY <1>7, ZenonT(30) DEF ReadDir, EvalSymlinks, Listed, finishTryMode
<1>8. CASE AssignVF(p)
  BY <1>8, ZenonT(30) DEF AssignVF, handleFailure, finishTryMode
<1> QED
  BY <1>1, <1>2, <1>3, <1>4, <1>5, <1>6, <1>7, <1>8, Zenon DEF Run

(* It leaves the state of the other runs alone. *)
LEMMA Frame ==
  ASSUME TypeInv, NEW p \in Runs, Launch(p) \/ Kill(p) \/ Run(p)
  PROVE  \A q \in Runs \ {p} : /\ pc'[q] = pc[q] /\ dev'[q] = dev[q] /\ entries'[q] = entries[q]
                               /\ vfs'[q] = vfs[q] /\ idx'[q] = idx[q] /\ nodes'[q] = nodes[q]
<1>1. ASSUME NEW q \in Runs \ {p} PROVE pc'[q] = pc[q]
  <2>1. PICK l \in Steps \cup Ended : pc' = [pc EXCEPT ![p] = l]
    BY Goes
  <2> QED
    BY <2>1, Zenon DEF TypeInv, TypeOK
<1>2. ASSUME NEW q \in Runs \ {p} PROVE dev'[q] = dev[q] /\ nodes'[q] = nodes[q]
  BY ZenonT(30) DEF Launch, Kill, Run, Resolve, ResolveFails, Reset, Resetting, Create,
     Creating, setNumVFsFails, setPFNUMANode, ReadDir, EvalSymlinks, listVFPathsFails,
     listNUMANodes, AssignVF, WriteNumVFs, local, TypeInv, TypeOK
<1>3. ASSUME NEW q \in Runs \ {p}
      PROVE  entries'[q] = entries[q] /\ vfs'[q] = vfs[q] /\ idx'[q] = idx[q]
  BY ZenonT(30) DEF Launch, Kill, Run, Resolve, ResolveFails, Reset, Resetting, Create,
     Creating, setNumVFsFails, setPFNUMANode, ReadDir, EvalSymlinks, listVFPathsFails,
     listNUMANodes, AssignVF, WriteNumVFs, local, TypeInv, TypeOK
<1> QED
  BY <1>1, <1>2, <1>3

(* What the devices look like, of TypeInv. *)
Sizes ==
  /\ DOMAIN numvfs = Devices /\ DOMAIN vfnode = Devices /\ DOMAIN pfnode = Devices
  /\ \A d \in Devices : /\ numvfs[d] \in 0 .. TotalVFs[d]
                        /\ DOMAIN vfnode[d] \subseteq 1 .. TotalVFs[d]
                        /\ ~Locked(d) => DOMAIN vfnode[d] = 1 .. numvfs[d]

(* The kernel's part of a write to sriov_numvfs. *)
LEMMA WriteStep ==
  ASSUME TypeInv, NEW p \in Runs, pc[p] \in {"resetting", "creating"}, dev[p] \in Devices,
         NEW n \in 0 .. TotalVFs[dev[p]], NEW next, WriteNumVFs(p, n, next)
  PROVE  Sizes'
<1> DEFINE d == dev[p]
<1>1. dev' = dev /\ pfnode' = pfnode /\ TotalVFs[d] \in Nat
  BY SMTT(30), TotalVFsAssumption DEF WriteNumVFs, local, TotalVFsAssumption
<1>2. CASE UNCHANGED <<numvfs, pc>>
  <2>1. \/ \E i \in DOMAIN vfnode[d] :
             vfnode' = [vfnode EXCEPT ![d] = Restrict(@, DOMAIN @ \ {i})]
        \/ \E i \in 1 .. n :
             vfnode' = [vfnode EXCEPT ![d] = [j \in DOMAIN @ \cup {i} |->
                                                IF j = i THEN NoNode ELSE @[j]]]
        \/ vfnode' = vfnode
    BY ZenonT(30) DEF WriteNumVFs
  <2>2. DOMAIN vfnode' = Devices /\ \A e \in Devices \ {d} : vfnode'[e] = vfnode[e]
    BY <2>1, ZenonT(30) DEF TypeInv
  <2>3. DOMAIN vfnode'[d] \subseteq 1 .. TotalVFs[d]
    <3>1. DOMAIN vfnode[d] \subseteq 1 .. TotalVFs[d] /\ 1 .. n \subseteq 1 .. TotalVFs[d]
      BY <1>1, SMTT(30) DEF TypeInv, TypeOK
    <3> QED
      <4>1. ASSUME NEW i \in DOMAIN vfnode[d],
                   vfnode' = [vfnode EXCEPT ![d] = Restrict(@, DOMAIN @ \ {i})]
            PROVE  DOMAIN vfnode'[d] \subseteq DOMAIN vfnode[d]
        BY <4>1, SMTT(30) DEF TypeInv, Restrict
      <4>2. ASSUME NEW i \in 1 .. n,
                   vfnode' = [vfnode EXCEPT ![d] = [j \in DOMAIN @ \cup {i} |->
                                                      IF j = i THEN NoNode ELSE @[j]]]
            PROVE  DOMAIN vfnode'[d] \subseteq DOMAIN vfnode[d] \cup (1 .. n)
        BY <4>2, SMTT(30) DEF TypeInv
      <4> QED
        BY <2>1, <3>1, <4>1, <4>2, Zenon
  <2>4. Locked(d) /\ \A e \in Devices : Locked(e)' <=> Locked(e)
    BY <1>1, <1>2, Zenon DEF Locked
  <2> QED
    BY <1>1, <1>2, <2>2, <2>3, <2>4, ZenonT(30) DEF Sizes, TypeInv, TypeOK
<1>3. CASE /\ DOMAIN vfnode[d] = 1 .. n /\ UNCHANGED vfnode
           /\ numvfs' = [numvfs EXCEPT ![d] = n] /\ pc' = [pc EXCEPT ![p] = next]
  <2>1. /\ DOMAIN numvfs' = Devices /\ numvfs'[d] = n
        /\ \A e \in Devices \ {d} : numvfs'[e] = numvfs[e]
    BY <1>3, ZenonT(30) DEF TypeInv
  <2>2. \A e \in Devices \ {d} : Locked(e)' <=> Locked(e)
    BY <1>1, <1>3, ZenonT(30) DEF Locked, TypeInv, TypeOK
  <2>3. \A e \in Devices \ {d} : /\ numvfs[e] \in 0 .. TotalVFs[e]
                                 /\ DOMAIN vfnode[e] \subseteq 1 .. TotalVFs[e]
                                 /\ ~Locked(e) => DOMAIN vfnode[e] = 1 .. numvfs[e]
    BY Zenon DEF TypeInv, TypeOK
  <2>4. DOMAIN vfnode[d] \subseteq 1 .. TotalVFs[d]
    BY Zenon DEF TypeInv, TypeOK
  <2> QED
    BY <1>1, <1>3, <2>1, <2>2, <2>3, <2>4, ZenonT(30) DEF Sizes, TypeInv
<1> QED
  BY <1>2, <1>3, Zenon DEF WriteNumVFs, Goto

(* The other steps do not add or remove VFs. *)
LEMMA OtherSteps ==
  ASSUME TypeInv, NEW p \in Runs, Launch(p) \/ Kill(p) \/ Run(p), ~Resetting(p), ~Creating(p)
  PROVE  /\ numvfs' = numvfs /\ DOMAIN vfnode' = Devices /\ DOMAIN pfnode' = Devices
         /\ \A d \in Devices : DOMAIN vfnode'[d] = DOMAIN vfnode[d]
         /\ pc[p] \notin {"resetting", "creating"}
<1>1. CASE AssignVF(p)
  <2>1. numvfs' = numvfs /\ pfnode' = pfnode /\ pc[p] = "assign"
    BY <1>1, Zenon DEF AssignVF
  <2>2. DOMAIN vfnode' = Devices /\ \A d \in Devices : DOMAIN vfnode'[d] = DOMAIN vfnode[d]
    BY <1>1, SMTT(30) DEF AssignVF, TypeInv
  <2> QED
    BY <2>1, <2>2, Zenon DEF TypeInv
<1>2. CASE ~AssignVF(p)
  <2>1. UNCHANGED <<numvfs, vfnode>> /\ DOMAIN pfnode' = DOMAIN pfnode
    BY <1>2, ZenonT(30) DEF Launch, Kill, Run, Resolve, ResolveFails, Reset, Resetting, Create,
       Creating, setNumVFsFails, setPFNUMANode, ReadDir, EvalSymlinks, listVFPathsFails,
       listNUMANodes, AssignVF, WriteNumVFs, local, sysfs
  <2>2. pc[p] \notin {"resetting", "creating"}
    BY <1>2, ZenonT(30) DEF Launch, Kill, Run, Resolve, ResolveFails, Reset, Resetting, Create,
       Creating, setNumVFsFails, setPFNUMANode, ReadDir, EvalSymlinks, listVFPathsFails,
       listNUMANodes, AssignVF, WriteNumVFs, Steps
  <2> QED
    BY <2>1, <2>2, Zenon DEF TypeInv
<1> QED
  BY <1>1, <1>2

LEMMA TypeStep ==
  ASSUME TypeInv, ChoiceInv, NEW p \in Runs, Launch(p) \/ Kill(p) \/ Run(p)
  PROVE  TypeInv'
<1>1. pc' \in [Runs -> Steps \cup Ended \cup {"idle"}]
  <2>1. PICK l \in Steps \cup Ended : pc' = [pc EXCEPT ![p] = l]
    BY Goes
  <2> QED
    BY <2>1, Zenon DEF TypeInv, TypeOK
<1>2. dev' \in [Runs -> Devices \cup {NoAddr}] /\ last' \in Runs
  <2>1. dev' = dev \/ \E d \in Devices : dev' = [dev EXCEPT ![p] = d]
    <3>1. CASE Resolve(p)
      BY <3>1, Zenon DEF Resolve, resolvePF
    <3>2. CASE ~Resolve(p)
      BY <3>2, ZenonT(30) DEF Launch, Kill, Run, ResolveFails, Reset, Resetting, Create,
         Creating, setNumVFsFails, setPFNUMANode, ReadDir, EvalSymlinks, listVFPathsFails,
         listNUMANodes, AssignVF, WriteNumVFs, local
    <3> QED
      BY <3>1, <3>2
  <2>2. last' \in Runs
    BY Acts, Zenon DEF Launch, TypeInv
  <2> QED
    BY SMTT(30), <2>1, <2>2 DEF TypeInv, TypeOK
<1>3. DOMAIN nodes' = Runs /\ \A q \in Runs : nodes'[q] \in OnlineNodes \cup {<<>>}
  <2>1. nodes' = nodes \/ \E ns \in OnlineNodes : nodes' = [nodes EXCEPT ![p] = ns]
    BY ZenonT(30) DEF Launch, Kill, Run, Resolve, ResolveFails, Reset, Resetting, Create,
       Creating, setNumVFsFails, setPFNUMANode, ReadDir, EvalSymlinks, listVFPathsFails,
       listNUMANodes, AssignVF, WriteNumVFs, local
  <2> QED
    BY <2>1, ZenonT(30) DEF TypeInv, TypeOK
<1>4. idx' \in [Runs -> Nat]
  <2>1. idx' = idx \/ idx' = [idx EXCEPT ![p] = idx[p] + 1]
    BY ZenonT(30) DEF Launch, Kill, Run, Resolve, ResolveFails, Reset, Resetting, Create,
       Creating, setNumVFsFails, setPFNUMANode, ReadDir, EvalSymlinks, listVFPathsFails,
       listNUMANodes, AssignVF, WriteNumVFs, local
  <2>2. idx \in [Runs -> Nat]
    BY DEF TypeInv, TypeOK
  <2> QED
    BY <2>1, <2>2, SMTT(30)
<1>5. entries' \in [Runs -> SUBSET Nat] /\ vfs' \in [Runs -> SUBSET Nat]
  <2>1. entries \in [Runs -> SUBSET Nat] /\ vfs \in [Runs -> SUBSET Nat]
    BY DEF TypeInv, TypeOK
  <2>2. CASE ReadDir(p)
    <3>1. dev[p] \in Devices
      BY <2>2, HasPF, Zenon DEF ReadDir, Chosen, Filling
    <3>2. DOMAIN vfnode[dev[p]] \subseteq Nat
      BY <3>1, Types, SMTT(30) DEF TypeInv, TypeOK
    <3> QED
      BY <2>1, <2>2, <3>2, Zenon DEF ReadDir
  <2>3. CASE ~ReadDir(p)
    <3>1. \/ entries' = entries /\ vfs' = vfs
          \/ EvalSymlinks(p)
          \/ entries' = [entries EXCEPT ![p] = {}] /\ vfs' = [vfs EXCEPT ![p] = {}]
      BY <2>3, ZenonT(30) DEF Launch, Kill, Run, Resolve, ResolveFails, Reset, Resetting,
         Create, Creating, setNumVFsFails, setPFNUMANode, ReadDir, EvalSymlinks,
         listVFPathsFails, listNUMANodes, AssignVF, WriteNumVFs, local
    <3>2. CASE EvalSymlinks(p)
      <4>1. PICK i \in entries[p] : /\ entries' = [entries EXCEPT ![p] = @ \ {i}]
                                    /\ vfs' = [vfs EXCEPT ![p] = @ \cup {i}]
        BY <3>2, Zenon DEF EvalSymlinks
      <4> QED
        BY <2>1, <4>1, SMTT(30)
    <3> QED
      BY <2>1, <3>1, <3>2, SMTT(30)
  <2> QED
    BY <2>2, <2>3
<1>6. Sizes'
  <2>1. CASE Resetting(p)
    <3>1. dev[p] \in Devices /\ pc[p] = "resetting"
      BY <2>1, HasPF, Zenon DEF Resetting, Chosen, Making
    <3>2. 0 \in 0 .. TotalVFs[dev[p]]
      BY <3>1, Types
    <3> QED
      BY <2>1, <3>1, <3>2, WriteStep, Zenon DEF Resetting
  <2>2. CASE Creating(p)
    <3>1. /\ dev[p] \in Devices /\ pc[p] = "creating"
          /\ 0 <= cfg[p].num /\ cfg[p].num <= TotalVFs[dev[p]]
      BY <2>2, HasPF, Zenon DEF Creating, Chosen, Making
    <3>2. cfg[p].num \in 0 .. TotalVFs[dev[p]]
      BY <3>1, Types
    <3> QED
      BY <2>2, <3>1, <3>2, WriteStep, Zenon DEF Creating
  <2>3. CASE ~Resetting(p) /\ ~Creating(p)
    <3>1. \A d \in Devices : Locked(d) => Locked(d)'
      BY <2>3, OtherSteps, Frame, ZenonT(30) DEF Locked
    <3> QED
      BY <2>3, <3>1, OtherSteps, ZenonT(30) DEF Sizes, TypeInv, TypeOK
  <2> QED
    BY <2>1, <2>2, <2>3
<1> QED
  BY <1>1, <1>2, <1>3, <1>4, <1>5, <1>6, Settings, ZenonT(30) DEF TypeInv, TypeOK, Sizes

LEMMA OneAtATimeStep ==
  ASSUME TypeInv, OneAtATime, NEW p \in Runs, Launch(p) \/ Kill(p) \/ Run(p)
  PROVE  OneAtATime'
<1>1. CASE Launch(p)
  BY SMTT(30), <1>1, Settings, Frame DEF Launch, OneAtATime, Active, Overlap, Faults
<1>2. CASE Kill(p) \/ Run(p)
  <2>1. last' = last /\ Active(p)
    BY <1>2, Acts
  <2> QED
    BY <2>1, Settings, Frame DEF OneAtATime, Active
<1> QED
  BY <1>1, <1>2

LEMMA ChoiceStep ==
  ASSUME TypeInv, ChoiceInv, NEW p \in Runs, Launch(p) \/ Kill(p) \/ Run(p)
  PROVE  ChoiceInv'
<1> DEFINE Good(q) ==
      /\ pc[q] \in Chosen => dev[q] # NoAddr
      /\ dev[q] # NoAddr => /\ dev[q] \in resolvePF(q)
                            /\ 0 <= cfg[q].num /\ cfg[q].num <= TotalVFs[dev[q]]
<1>1. \A q \in Runs : resolvePF(q)' = resolvePF(q)
  BY Settings, SMTT(30) DEF resolvePF, Faults
<1>2. \A q \in Runs \ {p} : Good(q)'
  BY <1>1, Settings, Frame DEF ChoiceInv
<1>3. Good(p)'
  <2>1. CASE Resolve(p)
    <3>1. PICK d \in resolvePF(p) : /\ cfg[p].num <= TotalVFs[d] /\ cfg[p].num >= 0
                                    /\ dev' = [dev EXCEPT ![p] = d]
      BY <2>1, Zenon DEF Resolve
    <3>2. dev'[p] = d /\ d # NoAddr
      BY <3>1, DevicesAssumption DEF TypeInv, TypeOK, resolvePF, DevicesAssumption
    <3> QED
      BY SMTT(30), <1>1, <3>1, <3>2, Settings, Types
  <2>2. CASE Launch(p) \/ Kill(p) \/ ResolveFails(p)
    <3>1. dev' = dev /\ pc'[p] \notin Chosen
      BY SMTT(30), <2>2 DEF Launch, Kill, ResolveFails, Goto, handleFailure, finishTryMode,
         local, Chosen, Making, Filling, TypeInv, TypeOK
    <3> QED
      BY <1>1, <3>1, Settings, Zenon DEF ChoiceInv
  <2>3. CASE Run(p) /\ ~Resolve(p) /\ ~ResolveFails(p)
    <3>1. dev' = dev /\ pc[p] \in Chosen
      BY <2>3, ZenonT(30) DEF Launch, Kill, Run, Resolve, ResolveFails, Reset, Resetting,
         Create, Creating, setNumVFsFails, setPFNUMANode, ReadDir, EvalSymlinks,
         listVFPathsFails, listNUMANodes, AssignVF, WriteNumVFs, local, Chosen, Making, Filling
    <3> QED
      BY <1>1, <3>1, Settings, Zenon DEF ChoiceInv
  <2> QED
    BY SMTT(30), <2>1, <2>2, <2>3
<1> QED
  BY <1>2, <1>3, SMTT(30) DEF ChoiceInv

(* What a step does to the number of VFs of a device. *)
LEMMA NumVFsStep ==
  ASSUME TypeInv, NEW p \in Runs, Launch(p) \/ Kill(p) \/ Run(p)
  PROVE  \/ numvfs' = numvfs
         \/ Resetting(p) /\ numvfs' = [numvfs EXCEPT ![dev[p]] = 0]
         \/ Creating(p) /\ numvfs' = [numvfs EXCEPT ![dev[p]] = cfg[p].num]
<1>1. CASE Resetting(p) \/ Creating(p)
  BY <1>1, Zenon DEF Resetting, Creating, WriteNumVFs
<1> QED
  BY <1>1, OtherSteps, Zenon

LEMMA CreateStep ==
  ASSUME TypeInv, ChoiceInv, OneAtATime, CreateInv, NEW p \in Runs, Launch(p) \/ Kill(p) \/ Run(p)
  PROVE  CreateInv'
<1>1. ~busy'
  <2>1. pc[p] = "create" => Accepted(dev[p], cfg[p].num)
    BY DEF CreateInv, Accepted
  <2> QED
    BY <2>1, ZenonT(30) DEF CreateInv, Launch, Kill, Run, Resolve, ResolveFails, Reset,
       Resetting, Create, Creating, setNumVFsFails, setPFNUMANode, ReadDir, EvalSymlinks,
       listVFPathsFails, listNUMANodes, AssignVF, WriteNumVFs, sysfs
<1>2. ASSUME NEW q \in Runs, pc'[q] = "create" PROVE numvfs'[dev'[q]] \in {0, cfg'[q].num}
  <2>1. CASE q = p
    <3>1. CASE Resolve(p)
      <4>1. PICK d \in resolvePF(p) :
              /\ dev' = [dev EXCEPT ![p] = d]
              /\ Goto(p, IF numvfs[d] = cfg[p].num THEN Numbered(p)
                         ELSE IF numvfs[d] > 0 THEN "reset" ELSE "create")
        BY <3>1, Zenon DEF Resolve
      <4>2. dev'[p] = d /\ numvfs' = numvfs /\ numvfs[d] \in Nat
        BY <3>1, <4>1, Types, Zenon DEF Resolve, sysfs, resolvePF, TypeInv, TypeOK
      <4>3. ~(numvfs[d] = cfg[p].num) /\ ~(numvfs[d] > 0)
        BY <1>2, <2>1, <4>1, Zenon DEF Goto, Numbered, TypeInv, TypeOK
      <4> QED
        BY <2>1, <4>2, <4>3
    <3>2. CASE Resetting(p)
      <4>1. dev[p] \in Devices /\ dev' = dev
        BY SMTT(30), <3>2, HasPF DEF Resetting, WriteNumVFs, Chosen, Making, local
      <4>2. pc[p] = "resetting"
        BY <3>2, Zenon DEF Resetting
      <4>3. numvfs' = [numvfs EXCEPT ![dev[p]] = 0]
        BY <1>2, <2>1, <3>2, <4>2, ZenonT(30) DEF Resetting, WriteNumVFs
      <4> QED
        BY <2>1, <4>1, <4>3 DEF TypeInv
    <3>3. CASE ~Resolve(p) /\ ~Resetting(p)
      <4>1. pc'[p] # "create"
        BY <3>3, ZenonT(30) DEF Launch, Kill, Run, Resolve, ResolveFails, Reset, Resetting,
           Create, Creating, setNumVFsFails, setPFNUMANode, ReadDir, EvalSymlinks,
           listVFPathsFails, listNUMANodes, AssignVF, WriteNumVFs, Goto, handleFailure,
           finishTryMode, Numbered, Listed, TypeInv, TypeOK
      <4> QED
        BY <1>2, <2>1, <4>1
    <3> QED
      BY <3>1, <3>2, <3>3
  <2>2. CASE q # p
    <3>1. pc[q] = "create" /\ dev'[q] = dev[q] /\ cfg'[q] = cfg[q]
      BY <1>2, <2>2, Settings, Frame, Zenon
    <3>2. numvfs[dev[q]] \in {0, cfg[q].num} /\ dev[q] \in Devices /\ dev[q] # NoAddr
      BY SMTT(30), <3>1, HasPF DEF CreateInv, ChoiceInv, Chosen, Making
    <3>3. CASE numvfs' = numvfs
      BY <3>1, <3>2, <3>3
    <3>4. CASE Resetting(p) /\ numvfs' = [numvfs EXCEPT ![dev[p]] = 0]
      BY SMTT(30), <3>1, <3>2, <3>4 DEF TypeInv
    <3>5. CASE Creating(p) /\ numvfs' = [numvfs EXCEPT ![dev[p]] = cfg[p].num]
      <4>1. dev[p] \in Devices /\ dev[p] # NoAddr /\ Active(p) /\ Active(q)
        BY <3>1, <3>5, HasPF, Zenon DEF Creating, ChoiceInv, Chosen, Making, Active, Ended
      <4>2. Overlap
        BY <2>2, <4>1, Zenon DEF OneAtATime, TypeInv, TypeOK, Faults, Overlap
      <4>3. cfg[p] = cfg[q]
        BY <3>2, <4>1, <4>2, SamePF, Zenon
      <4> QED
        BY SMTT(30), <3>1, <3>2, <3>5, <4>3 DEF TypeInv
    <3> QED
      BY <3>3, <3>4, <3>5, NumVFsStep, Zenon
  <2> QED
    BY SMTT(30), <2>1, <2>2
<1> QED
  BY SMTT(30), <1>1, <1>2 DEF CreateInv

LEMMA LoopStep ==
  ASSUME TypeInv, ChoiceInv, LoopInv, NEW p \in Runs, Launch(p) \/ Kill(p) \/ Run(p)
  PROVE  LoopInv'
<1> DEFINE Good(q) ==
      /\ IsFiniteSet(vfs[q])
      /\ pc[q] \notin Ended \cup {"links", "nodes", "assign"} => vfs[q] = {}
      /\ pc[q] \notin Ended \cup {"assign"} => idx[q] = 1 /\ nodes[q] = <<>>
      /\ pc[q] = "nodes" => cfg[q].node < 0 /\ vfs[q] # {}
      /\ pc[q] = "assign" => idx[q] \in 1 .. Cardinality(vfs[q])
      /\ pc[q] = "assign" /\ cfg[q].node < 0 => nodes[q] \in OnlineNodes /\ nodes[q] # <<>>
<1>1. \A q \in Runs \ {p} : Good(q)'
  <2>1. ASSUME NEW q \in Runs \ {p} PROVE Good(q)'
    <3>1. /\ pc'[q] = pc[q] /\ vfs'[q] = vfs[q] /\ idx'[q] = idx[q] /\ nodes'[q] = nodes[q]
          /\ cfg'[q] = cfg[q] /\ OnlineNodes' = OnlineNodes
      BY Frame, Settings, Zenon
    <3>2. Good(q)
      BY SMTT(30) DEF LoopInv
    <3> QED
      BY <3>1, <3>2, Zenon
  <2> QED
    BY <2>1, Zenon
<1>2. Good(p)'
  <2> USE DEF Ended
  <2>1. CASE /\ ~ReadDir(p) /\ ~EvalSymlinks(p) /\ ~listVFPathsFails(p) /\ ~listNUMANodes(p)
             /\ ~AssignVF(p)
    <3>1. idx' = idx /\ nodes' = nodes /\ vfs' = vfs
      BY <2>1, ZenonT(30) DEF Launch, Kill, Run, Resolve, ResolveFails, Reset, Resetting,
         Create, Creating, setNumVFsFails, setPFNUMANode, ReadDir, EvalSymlinks,
         listVFPathsFails, listNUMANodes, AssignVF, WriteNumVFs, local
    <3>2. \/ pc'[p] \in Ended
          \/ /\ pc[p] \notin Ended \cup {"links", "nodes", "assign"}
             /\ pc'[p] \notin {"links", "nodes", "assign"}
      BY <2>1, ZenonT(30) DEF Launch, Kill, Run, Resolve, ResolveFails, Reset, Resetting,
         Create, Creating, setNumVFsFails, setPFNUMANode, ReadDir, EvalSymlinks,
         listVFPathsFails, listNUMANodes, AssignVF, WriteNumVFs, Goto, handleFailure,
         finishTryMode, Numbered, TypeInv, TypeOK
    <3> QED
      BY <3>1, <3>2, Zenon DEF LoopInv
  <2>2. CASE ReadDir(p)
    <3>1. idx' = idx /\ nodes' = nodes /\ vfs' = vfs /\ pc[p] = "list"
      BY <2>2, Zenon DEF ReadDir
    <3>2. pc'[p] \in {"ok", "links"}
      BY <2>2, Zenon DEF ReadDir, Goto, finishTryMode, TypeInv, TypeOK
    <3> QED
      BY <3>1, <3>2, Zenon DEF LoopInv
  <2>3. CASE EvalSymlinks(p)
    <3>1. PICK i \in entries[p] : /\ vfs' = [vfs EXCEPT ![p] = @ \cup {i}]
                                  /\ Goto(p, IF entries[p] = {i} THEN Listed(p) ELSE "links")
      BY <2>3, Zenon DEF EvalSymlinks
    <3>2. idx' = idx /\ nodes' = nodes /\ pc[p] = "links" /\ cfg' = cfg
      BY <2>3, Zenon DEF EvalSymlinks
    <3>3. vfs'[p] = vfs[p] \cup {i}
      BY <3>1, Zenon DEF TypeInv, TypeOK
    <3>4. IsFiniteSet(vfs'[p]) /\ Cardinality(vfs'[p]) \in Nat /\ Cardinality(vfs'[p]) # 0
      <4>1. IsFiniteSet(vfs'[p])
        <5>1. IsFiniteSet(vfs[p])
          BY Zenon DEF LoopInv
        <5>2. IsFiniteSet(vfs[p] \cup {i})
          BY SMTT(30), <5>1, FS_AddElement
        <5> QED
          BY <3>3, <5>2, Zenon
      <4> QED
        BY <3>3, <4>1, FS_CardinalityType, FS_EmptySet, Zenon
    <3>5. 1 \in 1 .. Cardinality(vfs'[p])
      BY <3>4, SMTT(30)
    <3>6. \/ pc'[p] \in {"ok", "links"}
          \/ pc'[p] = "assign" /\ cfg[p].node >= 0
          \/ pc'[p] = "nodes" /\ ~(cfg[p].node >= 0)
      BY <3>1, ZenonT(30) DEF Goto, Listed, finishTryMode, TypeInv, TypeOK
    <3>7. ~(cfg[p].node >= 0) <=> cfg[p].node < 0
      BY Types
    <3>8. idx[p] = 1 /\ nodes[p] = <<>>
      BY <3>2, Zenon DEF LoopInv
    <3> QED
      BY <3>2, <3>3, <3>4, <3>5, <3>6, <3>7, <3>8, Zenon
  <2>4. CASE listVFPathsFails(p)
    <3>1. pc'[p] \in Ended /\ vfs'[p] = {}
      BY <2>4, ZenonT(30) DEF listVFPathsFails, handleFailure, finishTryMode, TypeInv, TypeOK
    <3> QED
      BY <3>1, FS_EmptySet, Zenon
  <2>5. CASE listNUMANodes(p)
    <3>1. /\ UNCHANGED <<idx, vfs, cfg>> /\ idx[p] = 1 /\ vfs[p] # {} /\ IsFiniteSet(vfs[p])
      BY <2>5, Zenon DEF listNUMANodes, LoopInv
    <3>2. CASE pc'[p] \in Ended
      BY <3>1, <3>2, Zenon
    <3>3. CASE pc'[p] \notin Ended
      <4>1. pc'[p] = "assign" /\ nodes'[p] \in OnlineNodes /\ nodes'[p] # <<>>
        BY SMTT(30), <2>5, <3>3 DEF listNUMANodes, Goto, handleFailure, finishTryMode, TypeInv,
           TypeOK
      <4>2. Cardinality(vfs[p]) \in Nat /\ Cardinality(vfs[p]) # 0
        BY <3>1, FS_CardinalityType, FS_EmptySet, Zenon
      <4>3. 1 \in 1 .. Cardinality(vfs[p])
        BY <4>2, SMTT(30)
      <4> QED
        BY <3>1, <4>1, <4>3, Settings, Zenon
    <3> QED
      BY <3>2, <3>3, Zenon
  <2>6. CASE AssignVF(p)
    <3>1. UNCHANGED <<vfs, nodes, cfg>> /\ idx[p] \in 1 .. Cardinality(vfs[p]) /\ IsFiniteSet(vfs[p])
      BY <2>6, Zenon DEF AssignVF, LoopInv
    <3>2. CASE pc'[p] \in Ended
      BY <3>1, <3>2, Zenon
    <3>3. CASE pc'[p] \notin Ended
      <4>1. pc'[p] = "assign" /\ idx'[p] = idx[p] + 1 /\ idx[p] # Cardinality(vfs[p])
        BY <2>6, <3>3, ZenonT(30) DEF AssignVF, Goto, handleFailure, finishTryMode, TypeInv,
           TypeOK
      <4>2. cfg[p].node < 0 => nodes[p] \in OnlineNodes /\ nodes[p] # <<>>
        BY <2>6 DEF AssignVF, LoopInv
      <4>3. OnlineNodes' = OnlineNodes
        BY Settings, Zenon
      <4>4. idx'[p] \in 1 .. Cardinality(vfs[p])
        <5>1. Cardinality(vfs[p]) \in Nat
          BY <3>1, FS_CardinalityType, Zenon
        <5> QED
          BY SMTT(30), <3>1, <4>1, <5>1
      <4> QED
        BY <3>1, <4>1, <4>2, <4>3, <4>4, Zenon
    <3> QED
      BY SMTT(30), <3>2, <3>3
  <2> QED
    BY <2>1, <2>2, <2>3, <2>4, <2>5, <2>6, Zenon
<1> QED
  BY <1>1, <1>2, Zenon DEF LoopInv

(* What the nodes a run has found are. *)
LEMMA NodesFound ==
  ASSUME NEW ns \in OnlineNodes
  PROVE  ns \in Seq(Nat) /\ Increasing(ns)
<1>1. Nodes \in Seq(Nat) /\ Increasing(Nodes) /\ Range(Nodes) \subseteq Nat
  BY NodesAssumption DEF NodesAssumption, Range
<1>2. CASE Faults
  <2>1. PICK k \in 0 .. Len(Nodes) : ns \in [1 .. k -> Range(Nodes)] /\ Increasing(ns)
    BY <1>2 DEF OnlineNodes
  <2>2. ns \in [1 .. k -> Nat] /\ k \in Nat
    BY <1>1, <2>1
  <2> QED
    BY <2>1, <2>2
<1>3. CASE ~Faults
  BY <1>1, <1>3 DEF OnlineNodes
<1> QED
  BY <1>2, <1>3

(* The k-th of all VFs, in the order of their paths. *)
LEMMA NthOfAll ==
  ASSUME NEW n \in Nat, NEW k \in 1 .. n
  PROVE  Nth(1 .. n, k) = k
<1>1. ASSUME NEW i \in 1 .. n PROVE Cardinality({j \in 1 .. n : j <= i}) = i
  <2>1. {j \in 1 .. n : j <= i} = 1 .. i
    OBVIOUS
  <2>2. Cardinality(1 .. i) = i
    BY FS_Interval
  <2> QED
    BY <2>1, <2>2, Zenon
<1> QED
  BY <1>1, Zenon DEF Nth

(* Once VFs have been miscounted, that is on record. *)
LEMMA TornStep ==
  ASSUME TypeInv, LoopInv, Torn, NEW p \in Runs, Launch(p) \/ Kill(p) \/ Run(p)
  PROVE  Torn'
<1>1. PICK q \in Runs : pc[q] # "links" /\ vfs[q] \notin {{}, 1 .. cfg[q].num}
  BY DEF Torn
<1>2. Overlap' /\ cfg' = cfg
  BY Settings DEF Torn
<1>3. CASE q # p
  BY <1>1, <1>2, <1>3, Frame, ZenonT(30) DEF Torn
<1>4. CASE q = p
  <2>1. pc[p] \in Ended \cup {"nodes", "assign"}
    BY <1>1, <1>4, Zenon DEF LoopInv
  <2>2. pc'[p] # "links" /\ vfs' = vfs
    BY <2>1, ZenonT(30) DEF Launch, Kill, Run, Resolve, ResolveFails, Reset, Resetting, Create,
       Creating, setNumVFsFails, setPFNUMANode, ReadDir, EvalSymlinks, listVFPathsFails,
       listNUMANodes, AssignVF, WriteNumVFs, Goto, handleFailure, finishTryMode, local, Ended,
       TypeInv, TypeOK
  <2> QED
    BY <1>1, <1>2, <1>4, <2>2, Zenon DEF Torn
<1> QED
  BY <1>3, <1>4

(* A round of the loop puts a VF where it belongs, as far as p has counted right. *)
LEMMA AssignStep ==
  ASSUME TypeInv, ChoiceInv, LoopInv, NEW p \in Runs, AssignVF(p),
         Overlap \/ vfs[p] = 1 .. cfg[p].num
  PROVE  LET i == Nth(vfs[p], idx[p]) IN
         /\ NodeOf(p, idx[p]) \in Spread(cfg[p], nodes[p])
         /\ Torn' \/ NodeOf(p, idx[p]) = Share(cfg[p], nodes[p], i)
<1>1. /\ pc[p] = "assign" /\ idx[p] \in 1 .. Cardinality(vfs[p]) /\ idx[p] \in Nat
      /\ cfg[p].num \in Nat /\ cfg[p].node \in Int
  <2>1. pc[p] = "assign" /\ idx[p] \in 1 .. Cardinality(vfs[p])
    BY Zenon DEF AssignVF, LoopInv
  <2>2. 0 <= cfg[p].num
    BY <2>1, HasPF, Zenon DEF Chosen, Filling
  <2> QED
    BY <2>1, <2>2, Types, SMTT(30)
<1>2. NodeOf(p, idx[p]) \in Spread(cfg[p], nodes[p])
  <2>1. CASE cfg[p].node >= 0
    BY <2>1 DEF NodeOf, Spread
  <2>2. CASE ~(cfg[p].node >= 0)
    <3>1. nodes[p] \in Seq(Nat) /\ nodes[p] # <<>>
      <4>1. cfg[p].node < 0
        BY <1>1, <2>2
      <4>2. nodes[p] \in OnlineNodes /\ nodes[p] # <<>>
        BY <1>1, <4>1, Zenon DEF LoopInv
      <4> QED
        BY <4>2, NodesFound
    <3>2. 1 + ((idx[p] - 1) % Len(nodes[p])) \in DOMAIN nodes[p]
      BY <1>1, <3>1, SMTT(30)
    <3> QED
      BY <2>2, <3>2, Zenon DEF NodeOf, Spread, Range
  <2> QED
    BY <2>1, <2>2
<1>3. Torn' \/ vfs[p] = 1 .. cfg[p].num
  <2> SUFFICES ASSUME ~Torn', Overlap PROVE vfs[p] = 1 .. cfg[p].num
    OBVIOUS
  <2>1. /\ cfg' = cfg /\ vfs' = vfs /\ pc'[p] # "links" /\ Overlap'
    <3>1. cfg' = cfg /\ vfs' = vfs /\ Overlap'
      BY Zenon DEF AssignVF, Overlap
    <3>2. pc'[p] # "links"
      BY ZenonT(30) DEF AssignVF, Goto, handleFailure, finishTryMode, TypeInv, TypeOK
    <3> QED
      BY <3>1, <3>2
  <2>2. vfs[p] \in {{}, 1 .. cfg[p].num}
    BY <2>1, Zenon DEF Torn
  <2>3. vfs[p] # {}
    BY <1>1, FS_EmptySet, SMTT(30)
  <2> QED
    BY <2>2, <2>3
<1>4. CASE vfs[p] = 1 .. cfg[p].num
  <2>1. Cardinality(1 .. cfg[p].num) = cfg[p].num
    BY SMTT(30), <1>1, FS_Interval
  <2>2. idx[p] \in 1 .. cfg[p].num
    BY <1>1, <1>4, <2>1, Zenon
  <2>3. Nth(vfs[p], idx[p]) = idx[p]
    BY <1>1, <1>4, <2>2, NthOfAll, Zenon
  <2> QED
    BY <1>2, <2>3, Zenon DEF NodeOf, Share
<1> QED
  BY <1>2, <1>3, <1>4, Zenon

(* While nobody writes a number of VFs, they are all there. *)
LEMMA AllThere ==
  ASSUME TypeInv, \A q \in Runs : pc[q] \notin Making, NEW d \in Devices
  PROVE  DOMAIN vfnode[d] = 1 .. numvfs[d]
BY Zenon DEF TypeInv, TypeOK, Locked, Making

(***************************************************************************)
(* A step of a run that has found the device as it left it, and does not   *)
(* fail, leaves it as the next step expects, or as asked.                  *)
(***************************************************************************)
LEMMA OwnStep ==
  ASSUME TypeInv, ChoiceInv, CreateInv, LoopInv, NEW p \in Runs, Run(p), ~ResolveFails(p),
         \A q \in Runs \ {p} : pc[q] \notin Making,
         pc[p] \in Filling => Sound(p),
         Overlap \/ (~cfg[p].try /\ pc'[p] # "err")
  PROVE  Responsible(p)' \/ (pc'[p] = "ok" /\ Complete(dev[p], cfg[p], Target(p))')
<1>1. /\ cfg' = cfg /\ (Faults' <=> Faults) /\ (Overlap' <=> Overlap) /\ OnlineNodes' = OnlineNodes
      /\ ~(Faults /\ Overlap)
  BY Settings, Zenon DEF Faults, Overlap
<1>2. pc'[p] = "err" \/ cfg[p].try => ~Faults
  BY <1>1
<1>3. cfg[p].num \in Int /\ cfg[p].node \in Int /\ idx[p] \in Nat
  BY Types
<1>a. ASSUME pc[p] \in Filling
      PROVE  /\ dev[p] \in Devices /\ numvfs[dev[p]] = cfg[p].num
             /\ DOMAIN vfnode[dev[p]] = 1 .. cfg[p].num
             /\ pc[p] # "pfnuma" /\ cfg[p].node >= 0 => pfnode[dev[p]] = cfg[p].node
  <2>1. dev[p] \in Devices
    BY <1>a, HasPF, Zenon DEF Chosen
  <2>2. \A q \in Runs : pc[q] \notin Making
    BY <1>a, Zenon DEF Making, Filling
  <2> QED
    BY <1>a, <2>1, <2>2, AllThere, Zenon DEF Sound
<1>4. CASE Resolve(p)
  <2>1. PICK d \in resolvePF(p) :
          /\ dev' = [dev EXCEPT ![p] = d]
          /\ Goto(p, IF numvfs[d] = cfg[p].num THEN Numbered(p)
                     ELSE IF numvfs[d] > 0 THEN "reset" ELSE "create")
    BY <1>4, Zenon DEF Resolve
  <2>2. dev'[p] = d /\ numvfs' = numvfs
    BY <1>4, <2>1, Zenon DEF Resolve, sysfs, TypeInv, TypeOK
  <2>3. CASE numvfs[d] = cfg[p].num
    <3>1. pc'[p] = IF cfg[p].node >= 0 THEN "pfnuma" ELSE "list"
      BY <2>1, <2>3, Zenon DEF Goto, Numbered, TypeInv, TypeOK
    <3> QED
      BY <1>1, <2>2, <2>3, <3>1, Zenon DEF Responsible, Sound, Filling
  <2>4. CASE numvfs[d] # cfg[p].num
    BY <2>1, <2>4, Zenon DEF Goto, TypeInv, TypeOK, Responsible, Making
  <2> QED
    BY SMTT(30), <2>3, <2>4
<1>5. CASE Reset(p) \/ Create(p)
  BY <1>5, Zenon DEF Reset, Create, Goto, TypeInv, TypeOK, Responsible, Making
<1>6. CASE Resetting(p)
  <2>1. pc[p] = "resetting" /\ (pc' = pc \/ pc' = [pc EXCEPT ![p] = "create"])
    BY <1>6, Zenon DEF Resetting, WriteNumVFs, Goto
  <2> QED
    BY <2>1, Zenon DEF Responsible, Making, TypeInv, TypeOK
<1>7. CASE Creating(p)
  <2>1. pc[p] = "creating"
    BY <1>7, Zenon DEF Creating
  <2>2. CASE pc' = pc
    BY <2>1, <2>2, Zenon DEF Responsible, Making
  <2>3. CASE pc' # pc
    <3>1. /\ pc' = [pc EXCEPT ![p] = Numbered(p)] /\ dev' = dev
          /\ numvfs' = [numvfs EXCEPT ![dev[p]] = cfg[p].num]
      BY <1>7, <2>3, Zenon DEF Creating, WriteNumVFs, Goto, local
    <3>2. pc'[p] = IF cfg[p].node >= 0 THEN "pfnuma" ELSE "list"
      BY <3>1, Zenon DEF Numbered, TypeInv, TypeOK
    <3>3. dev[p] \in Devices
      BY <2>1, HasPF, Zenon DEF Chosen, Making
    <3>4. numvfs'[dev[p]] = cfg[p].num
      BY <3>1, <3>3, Zenon DEF TypeInv
    <3>5. dev' = dev
      BY SMTT(30), <3>1
    <3> QED
      BY <1>1, <3>2, <3>4, <3>5, Zenon DEF Responsible, Sound, Filling
  <2> QED
    BY SMTT(30), <2>2, <2>3
<1>8. CASE setNumVFsFails(p)
  <2>1. pc[p] = "create" => Accepted(dev[p], cfg[p].num)
    BY DEF CreateInv, Accepted
  <2>2. Faults
    BY <1>8, <2>1, Zenon DEF setNumVFsFails
  <2>3. pc'[p] = "err" \/ cfg[p].try
    BY <1>8, Zenon DEF setNumVFsFails, handleFailure, TypeInv, TypeOK
  <2> QED
    BY <1>2, <2>2, <2>3, Zenon
<1>9. CASE setPFNUMANode(p)
  <2>1. /\ pfnode' = [pfnode EXCEPT ![dev[p]] = cfg[p].node] /\ pc'[p] = "list"
        /\ UNCHANGED <<numvfs, dev>>
    BY <1>2, <1>9, Zenon DEF setPFNUMANode, Goto, handleFailure, local, TypeInv, TypeOK
  <2>2. dev[p] \in Devices /\ numvfs[dev[p]] = cfg[p].num
    BY <1>9, <1>a, Zenon DEF setPFNUMANode, Filling
  <2>3. pfnode'[dev[p]] = cfg[p].node
    BY <2>1, <2>2, Zenon DEF TypeInv
  <2> QED
    BY <1>1, <2>1, <2>2, <2>3, Zenon DEF Responsible, Sound, Filling
<1>10. CASE ReadDir(p)
  <2>1. pc[p] = "list" /\ vfs[p] = {} /\ UNCHANGED <<numvfs, vfnode, pfnode, dev, vfs, nodes>>
    BY <1>10, Zenon DEF ReadDir, LoopInv, Ended, sysfs
  <2>2. /\ dev[p] \in Devices /\ numvfs[dev[p]] = cfg[p].num
        /\ DOMAIN vfnode[dev[p]] = 1 .. cfg[p].num
        /\ cfg[p].node >= 0 => pfnode[dev[p]] = cfg[p].node
    BY <2>1, <1>a, Zenon DEF Filling
  <2>3. /\ entries'[p] = 1 .. cfg[p].num
        /\ pc'[p] = IF 1 .. cfg[p].num = {} THEN "ok" ELSE "links"
    BY <1>10, <2>2, Zenon DEF ReadDir, Goto, finishTryMode, TypeInv, TypeOK
  <2>4. CASE 1 .. cfg[p].num = {}
    BY <1>1, <2>1, <2>2, <2>3, <2>4, Zenon DEF Complete
  <2>5. CASE 1 .. cfg[p].num # {}
    <3>1. pc'[p] = "links" /\ entries'[p] \cup vfs'[p] = 1 .. cfg[p].num
      BY <2>1, <2>3, <2>5, Zenon
    <3> QED
      BY <1>1, <2>1, <2>2, <3>1, Zenon DEF Responsible, Sound, Filling
  <2> QED
    BY SMTT(30), <2>4, <2>5
<1>11. CASE EvalSymlinks(p)
  <2>1. PICK i \in entries[p] : /\ entries' = [entries EXCEPT ![p] = @ \ {i}]
                                /\ vfs' = [vfs EXCEPT ![p] = @ \cup {i}]
                                /\ Goto(p, IF entries[p] = {i} THEN Listed(p) ELSE "links")
    BY <1>11, Zenon DEF EvalSymlinks
  <2>2. /\ pc[p] = "links" /\ UNCHANGED <<numvfs, vfnode, pfnode, dev, idx, nodes>>
    BY <1>11, Zenon DEF EvalSymlinks, sysfs
  <2>3. /\ dev[p] \in Devices /\ numvfs[dev[p]] = cfg[p].num
        /\ cfg[p].node >= 0 => pfnode[dev[p]] = cfg[p].node
    BY <2>2, <1>a, Zenon DEF Filling
  <2>4. entries[p] \cup vfs[p] = 1 .. cfg[p].num
    BY <2>2, Zenon DEF Sound, Filling
  <2>5. /\ entries'[p] \cup vfs'[p] = 1 .. cfg[p].num
        /\ entries[p] = {i} => vfs'[p] = 1 .. cfg[p].num
    BY <2>1, <2>4, ZenonT(30) DEF TypeInv, TypeOK
  <2>6. CASE entries[p] # {i}
    <3>1. pc'[p] = "links"
      BY <2>1, <2>6, Zenon DEF Goto, TypeInv, TypeOK
    <3> QED
      BY <1>1, <2>2, <2>3, <2>5, <3>1, Zenon DEF Responsible, Sound, Filling
  <2>7. CASE entries[p] = {i} /\ cfg[p].num = 0
    <3>1. 1 .. cfg[p].num = {}
      BY SMTT(30), <2>7
    <3> QED
      BY <2>1, <2>4, <3>1, Zenon
  <2>8. CASE entries[p] = {i} /\ cfg[p].num # 0
    <3>1. pc'[p] \in {"assign", "nodes"}
      BY <2>1, <2>8, Zenon DEF Goto, Listed, TypeInv, TypeOK
    <3>2. 1 .. (idx'[p] - 1) = {}
      <4>1. idx[p] = 1
        BY <2>2, Zenon DEF LoopInv, Ended
      <4> QED
        BY <2>2, <4>1
    <3> QED
      BY <1>1, <2>2, <2>3, <2>5, <2>8, <3>1, <3>2, Zenon DEF Responsible, Sound, Filling
  <2> QED
    BY <2>6, <2>7, <2>8, Zenon
<1>12. CASE listVFPathsFails(p)
  <2>1. pc[p] = "links" => entries[p] \subseteq DOMAIN vfnode[dev[p]]
    BY <1>a, Zenon DEF Filling, Sound
  <2>2. Faults
    BY <1>12, <2>1, Zenon DEF listVFPathsFails
  <2>3. pc'[p] = "err" \/ cfg[p].try
    BY <1>12, Zenon DEF listVFPathsFails, handleFailure, TypeInv, TypeOK
  <2> QED
    BY <1>2, <2>2, <2>3, Zenon
<1>13. CASE listNUMANodes(p)
  <2>1. PICK ns \in OnlineNodes : /\ nodes' = [nodes EXCEPT ![p] = ns]
                                  /\ pc'[p] = IF ns = <<>> THEN finishTryMode ELSE "assign"
    BY <1>2, <1>13, Zenon DEF listNUMANodes, Goto, handleFailure, TypeInv, TypeOK
  <2>2. nodes'[p] = ns /\ UNCHANGED <<numvfs, vfnode, pfnode, dev, idx, vfs>> /\ pc[p] = "nodes"
    BY <1>13, <2>1, Zenon DEF listNUMANodes, sysfs, TypeInv
  <2>3. /\ dev[p] \in Devices /\ numvfs[dev[p]] = cfg[p].num /\ vfs[p] = 1 .. cfg[p].num
        /\ cfg[p].node >= 0 => pfnode[dev[p]] = cfg[p].node
    BY <2>2, <1>a, Zenon DEF Filling, Sound
  <2>4. idx[p] = 1 /\ cfg[p].node < 0
    BY <2>2, Zenon DEF LoopInv, Ended
  <2>5. CASE ns = <<>>
    <3>1. Target(p)' = <<>>
      BY <1>1, <2>1, <2>2, <2>5, Zenon DEF Target, OnlineNodes
    <3>2. ~(cfg[p].node >= 0)
      BY <1>3, <2>4, SMTT(30)
    <3> QED
      BY <1>1, <2>1, <2>2, <2>3, <2>5, <3>1, <3>2, Zenon DEF Complete, finishTryMode
  <2>6. CASE ns # <<>>
    <3>1. 1 .. (idx'[p] - 1) = {}
      BY <2>2, <2>4, SMTT(30)
    <3> QED
      BY <1>1, <2>1, <2>2, <2>3, <2>6, <3>1, Zenon DEF Responsible, Sound, Filling
  <2> QED
    BY <2>5, <2>6, Zenon
<1>14. CASE AssignVF(p)
  <2>1. /\ pc[p] = "assign" /\ dev[p] \in Devices /\ numvfs[dev[p]] = cfg[p].num
        /\ vfs[p] = 1 .. cfg[p].num /\ DOMAIN vfnode[dev[p]] = 1 .. cfg[p].num
        /\ cfg[p].node >= 0 => pfnode[dev[p]] = cfg[p].node
        /\ \A i \in 1 .. (idx[p] - 1) : Right(dev[p], cfg[p], nodes[p], i)
    BY <1>14, <1>a, Zenon DEF AssignVF, Filling, Sound
  <2>2. cfg[p].num \in Nat /\ Cardinality(vfs[p]) = cfg[p].num /\ idx[p] \in 1 .. cfg[p].num
    <3>1. 0 <= cfg[p].num
      BY <2>1, HasPF, Zenon DEF Chosen, Filling
    <3>2. cfg[p].num \in Nat
      BY <1>3, <3>1
    <3>3. Cardinality(1 .. cfg[p].num) = cfg[p].num
      BY <3>2, FS_Interval
    <3> QED
      BY <2>1, <3>2, <3>3, Zenon DEF LoopInv
  <2>3. Nth(vfs[p], idx[p]) = idx[p]
    BY <2>1, <2>2, NthOfAll, Zenon
  <2>4. /\ vfnode' = [vfnode EXCEPT ![dev[p]][idx[p]] = NodeOf(p, idx[p])]
        /\ idx' = [idx EXCEPT ![p] = @ + 1]
        /\ pc'[p] = IF idx[p] = cfg[p].num THEN finishTryMode ELSE "assign"
        /\ UNCHANGED <<numvfs, pfnode, dev, nodes, vfs>>
    <3>1. idx[p] \in DOMAIN vfnode[dev[p]]
      BY <2>1, <2>2, Zenon
    <3>2. \/ /\ vfnode' = [vfnode EXCEPT ![dev[p]][idx[p]] = NodeOf(p, idx[p])]
             /\ idx' = [idx EXCEPT ![p] = @ + 1]
             /\ Goto(p, IF idx[p] = cfg[p].num THEN finishTryMode ELSE "assign")
          \/ Faults /\ handleFailure(p, finishTryMode)
      BY <1>14, <2>2, <2>3, <3>1, Zenon DEF AssignVF
    <3>3. UNCHANGED <<numvfs, pfnode, dev, nodes, vfs>>
      BY <1>14, Zenon DEF AssignVF
    <3> QED
      BY <1>2, <3>2, <3>3, Zenon DEF Goto, handleFailure, TypeInv, TypeOK
  <2>5. /\ NodeOf(p, idx[p]) \in Spread(cfg[p], nodes[p])
        /\ Torn' \/ NodeOf(p, idx[p]) = Share(cfg[p], nodes[p], idx[p])
    BY <1>14, <2>1, <2>3, AssignStep, Zenon
  <2>6. idx'[p] = idx[p] + 1
    BY SMTT(30), <2>4 DEF TypeInv, TypeOK
  <2>7. \A i \in 1 .. idx[p] : /\ vfnode'[dev[p]][i] \in Spread(cfg[p], nodes[p])
                               /\ Torn' \/ vfnode'[dev[p]][i] = Share(cfg[p], nodes[p], i)
    <3>1. vfnode'[dev[p]][idx[p]] = NodeOf(p, idx[p])
      BY <2>1, <2>2, <2>4, SMTT(30) DEF TypeInv
    <3>2. ASSUME NEW i \in 1 .. idx[p], i # idx[p]
          PROVE  i \in 1 .. (idx[p] - 1) /\ vfnode'[dev[p]][i] = vfnode[dev[p]][i]
      BY <1>3, <2>1, <2>2, <2>4, <3>2, SMTT(30) DEF TypeInv
    <3>3. Torn => Torn'
      BY TornStep
    <3> QED
      BY <2>1, <2>5, <3>1, <3>2, <3>3, Zenon DEF Right
  <2>8. CASE idx[p] = cfg[p].num
    <3>1. cfg[p].node >= 0 \/ Target(p)' = nodes[p]
      <4>1. cfg[p].node < 0 => nodes[p] \in OnlineNodes
        BY <2>1, Zenon DEF LoopInv
      <4> QED
        BY SMTT(30), <1>1, <1>3, <2>4, <4>1 DEF Target, OnlineNodes
    <3>2. /\ Spread(cfg[p], nodes[p]) = Spread(cfg[p], Target(p)')
          /\ \A i \in 1 .. cfg[p].num : Share(cfg[p], nodes[p], i) = Share(cfg[p], Target(p)', i)
      BY <3>1, Zenon DEF Share, Spread
    <3> QED
      BY <1>1, <2>1, <2>4, <2>7, <2>8, <3>2, ZenonT(30) DEF Complete, Right, Share, Spread,
         finishTryMode
  <2>9. CASE idx[p] # cfg[p].num
    <3>1. pc'[p] = "assign" /\ idx'[p] - 1 = idx[p]
      BY SMTT(30), <1>3, <2>4, <2>6, <2>9
    <3> QED
      BY <1>1, <2>1, <2>4, <2>7, <3>1, ZenonT(30) DEF Responsible, Sound, Filling, Right,
         Share, Spread
  <2> QED
    BY <2>8, <2>9, Zenon
<1> QED
  BY <1>4, <1>5, <1>6, <1>7, <1>8, <1>9, <1>10, <1>11, <1>12, <1>13, <1>14, Zenon DEF Run

LEMMA SequentialStep ==
  ASSUME TypeInv, ChoiceInv, CreateInv, LoopInv, OneAtATime, SequentialInv,
         NEW p \in Runs, Launch(p) \/ Kill(p) \/ Run(p)
  PROVE  SequentialInv'
<1> SUFFICES ASSUME Faults', ~cfg'[last'].try
             PROVE  /\ pc'[last'] \in Filling => Sound(last)'
                    /\ pc'[last'] = "ok" => Complete(dev[last], cfg[last], nodes[last])'
  BY Zenon DEF SequentialInv
<1>1. Faults /\ cfg' = cfg
  BY Settings, Zenon
<1>2. CASE Launch(p)
  BY <1>2, Zenon DEF Launch, Goto, Filling, TypeInv, TypeOK
<1>3. CASE Kill(p) \/ Run(p)
  <2>1. last' = last /\ Active(p)
    BY <1>3, Acts
  <2>2. p = last /\ ~cfg[p].try
    BY <1>1, <2>1 DEF OneAtATime
  <2>3. CASE pc'[p] \in {"err", "killed"}
    BY <2>1, <2>2, <2>3, Zenon DEF Filling
  <2>4. CASE pc'[p] \notin {"err", "killed"}
    <3>1. Run(p) /\ ~ResolveFails(p)
      BY <1>3, <2>2, <2>4, Zenon DEF Kill, ResolveFails, Goto, handleFailure, TypeInv, TypeOK
    <3>2. pc[p] \in Filling => Sound(p)
      BY <1>1, <2>2, Zenon DEF SequentialInv
    <3>3. Responsible(p)' \/ (pc'[p] = "ok" /\ Complete(dev[p], cfg[p], Target(p))')
      <4>1. \A q \in Runs \ {p} : pc[q] \notin Making
        BY <1>1, <2>2, Zenon DEF OneAtATime, Active, Making, Ended
      <4> QED
        BY <2>2, <2>4, <3>1, <3>2, <4>1, OwnStep, Zenon
    <3>4. Target(p)' = nodes'[p]
      BY DEF Target
    <3>5. CASE Responsible(p)'
      BY <2>1, <2>2, <3>5, Zenon DEF Responsible, Making, Filling
    <3>6. CASE pc'[p] = "ok" /\ Complete(dev[p], cfg[p], Target(p))'
      BY <2>1, <2>2, <3>4, <3>6, ZenonT(30) DEF Filling, Complete, Right, Share, Spread
    <3> QED
      BY <3>3, <3>5, <3>6, Zenon
  <2> QED
    BY <2>3, <2>4, Zenon
<1> QED
  BY <1>2, <1>3, Zenon

(* While nobody writes a number of VFs, a step takes away nothing of what p needs. *)
LEMMA Undisturbed ==
  ASSUME TypeInv, ChoiceInv, CreateInv, LoopInv, Overlap, \A r \in Runs : pc[r] \notin Making,
         NEW p \in Runs, dev[p] # NoAddr, numvfs[dev[p]] = cfg[p].num,
         NEW q \in Runs, Launch(q) \/ Kill(q) \/ Run(q)
  PROVE  /\ numvfs'[dev[p]] = cfg[p].num
         /\ cfg[p].node >= 0 /\ pfnode[dev[p]] = cfg[p].node => pfnode'[dev[p]] = cfg[p].node
         /\ \A i \in 1 .. cfg[p].num :
              Right(dev[p], cfg[p], Nodes, i)
                => /\ vfnode'[dev[p]][i] \in Spread(cfg[p], Nodes)
                   /\ Torn' \/ vfnode'[dev[p]][i] = Share(cfg[p], Nodes, i)
<1>1. dev[p] \in Devices /\ ~Faults
  BY Zenon DEF ChoiceInv, resolvePF, Overlap, Faults
<1>2. pc[q] \in Chosen => dev[q] = dev[p] /\ cfg[q] = cfg[p]
  BY SamePF, Zenon DEF ChoiceInv
<1>3. Torn => Torn'
  BY SMTT(30), TornStep
<1>4. CASE setPFNUMANode(q)
  <2>1. dev[q] = dev[p] /\ cfg[q] = cfg[p]
    BY <1>2, <1>4, Zenon DEF setPFNUMANode, Chosen, Filling
  <2>2. numvfs' = numvfs /\ vfnode' = vfnode
    BY <1>4, Zenon DEF setPFNUMANode
  <2>3. pfnode' = pfnode \/ pfnode' = [pfnode EXCEPT ![dev[p]] = cfg[p].node]
    BY <1>4, <2>1, Zenon DEF setPFNUMANode
  <2> QED
    BY <1>1, <1>3, <2>2, <2>3, ZenonT(30) DEF Right, TypeInv
<1>5. CASE AssignVF(q)
  <2> DEFINE j == Nth(vfs[q], idx[q])
  <2>1. pc[q] = "assign" /\ dev[q] = dev[p] /\ cfg[q] = cfg[p]
    BY <1>2, <1>5, Zenon DEF AssignVF, Chosen, Filling
  <2>2. cfg[p].node \in Int /\ (cfg[p].node < 0 => nodes[q] = Nodes)
    BY <1>1, <2>1, Types, Zenon DEF LoopInv, OnlineNodes
  <2>3. /\ NodeOf(q, idx[q]) \in Spread(cfg[p], Nodes)
        /\ Torn' \/ NodeOf(q, idx[q]) = Share(cfg[p], Nodes, j)
    <3>1. /\ NodeOf(q, idx[q]) \in Spread(cfg[q], nodes[q])
          /\ Torn' \/ NodeOf(q, idx[q]) = Share(cfg[q], nodes[q], j)
      BY <1>5, AssignStep, Zenon
    <3>2. cfg[p].node >= 0 \/ nodes[q] = Nodes
      BY <2>2
    <3> QED
      BY <2>1, <3>1, <3>2, Zenon DEF Spread, Share
  <2>4. numvfs' = numvfs /\ pfnode' = pfnode
    BY <1>5, Zenon DEF AssignVF
  <2>5. \/ vfnode' = vfnode
        \/ vfnode' = [vfnode EXCEPT ![dev[p]][j] = NodeOf(q, idx[q])]
    BY <1>5, <2>1, Zenon DEF AssignVF
  <2>6. \A i \in 1 .. cfg[p].num : i \in DOMAIN vfnode[dev[p]]
    BY <1>1, AllThere, Zenon
  <2> HIDE DEF j
  <2>7. \A i \in 1 .. cfg[p].num : \/ vfnode'[dev[p]][i] = vfnode[dev[p]][i]
                                   \/ i = j /\ vfnode'[dev[p]][i] = NodeOf(q, idx[q])
    BY <1>1, <2>5, <2>6, SMTT(30) DEF TypeInv
  <2>8. ASSUME NEW i \in 1 .. cfg[p].num, Right(dev[p], cfg[p], Nodes, i)
        PROVE  /\ vfnode'[dev[p]][i] \in Spread(cfg[p], Nodes)
               /\ Torn' \/ vfnode'[dev[p]][i] = Share(cfg[p], Nodes, i)
    BY <1>3, <2>3, <2>7, <2>8, Zenon DEF Right
  <2> QED
    BY <2>4, <2>8, Zenon
<1>6. CASE ~setPFNUMANode(q) /\ ~AssignVF(q)
  <2>1. UNCHANGED <<numvfs, vfnode, pfnode>>
    BY <1>6, ZenonT(30) DEF Launch, Kill, Run, Resolve, ResolveFails, Reset, Resetting, Create,
       Creating, setNumVFsFails, setPFNUMANode, ReadDir, EvalSymlinks, listVFPathsFails,
       listNUMANodes, AssignVF, WriteNumVFs, Making, sysfs
  <2> QED
    BY <1>3, <2>1, Zenon DEF Right
<1> QED
  BY <1>4, <1>5, <1>6, Zenon

LEMMA OverlapStep ==
  ASSUME TypeInv, ChoiceInv, CreateInv, LoopInv, OverlapInv, TypeInv', ChoiceInv',
         NEW p \in Runs, Launch(p) \/ Kill(p) \/ Run(p)
  PROVE  OverlapInv'
<1> SUFFICES ASSUME Overlap', \E q \in Runs : dev'[q] # NoAddr
             PROVE  \/ \E q \in Runs : Responsible(q)'
                    \/ \A q \in Runs : dev'[q] # NoAddr => Complete(dev[q], cfg[q], Nodes)'
  BY Zenon DEF OverlapInv
<1>1. Overlap /\ ~Faults /\ cfg' = cfg
  BY Settings, Zenon DEF Overlap, Faults
<1>2. ASSUME Complete(dev[p], cfg[p], Target(p))'
      PROVE  \A q \in Runs : dev'[q] # NoAddr => Complete(dev[q], cfg[q], Nodes)'
  <2>1. Complete(dev[p], cfg[p], Nodes)' /\ dev'[p] # NoAddr
    BY <1>2, DevicesAssumption, ZenonT(30) DEF Target, Complete, Right, Share, Spread, Overlap,
       Faults, DevicesAssumption
  <2>2. \A q \in Runs : dev'[q] # NoAddr => dev'[q] = dev'[p] /\ cfg'[q] = cfg'[p]
    <3>1. \A q \in Runs : /\ cfg'[q] = cfg'[p]
                          /\ dev'[q] # NoAddr => dev'[q] \in resolvePF(q)'
      BY Zenon DEF TypeInv, ChoiceInv
    <3>2. \A q \in Runs : dev'[q] # NoAddr => dev'[q] \in Nat
      BY <3>1, DevicesAssumption, Zenon DEF resolvePF, DevicesAssumption
    <3>3. ~Faults'
      BY DEF Overlap, Faults
    <3> QED
      BY <2>1, <3>1, <3>2, <3>3, SMTT(30) DEF resolvePF
  <2> QED
    BY ZenonT(30), <2>1, <2>2 DEF Complete, Right, Share, Spread
<1>3. CASE \E q \in Runs \ {p} : pc[q] \in Making
  <2>1. PICK q \in Runs \ {p} : pc[q] \in Making
    BY SMTT(30), <1>3
  <2>2. Responsible(q)'
    BY <2>1, Frame, Zenon DEF Responsible
  <2> QED
    BY <2>2, Zenon
<1>4. CASE /\ \A q \in Runs \ {p} : pc[q] \notin Making
           /\ Resolve(p) \/ Responsible(p)
  <2>1. Run(p) /\ ~ResolveFails(p)
    <3>1. CASE Resolve(p)
      <4>1. Resolve(p) => pc'[p] \notin {"ok", "err"}
        BY ZenonT(30) DEF Resolve, Goto, Numbered, TypeInv, TypeOK
      <4>2. ResolveFails(p) => pc'[p] \in {"ok", "err"}
        BY ZenonT(30) DEF ResolveFails, handleFailure, finishTryMode, TypeInv, TypeOK
      <4> QED
        BY <3>1, <4>1, <4>2, Zenon DEF Run
    <3>2. CASE Responsible(p)
      BY <1>1, <3>2, Zenon DEF Responsible, Making, Filling, Launch, Kill, ResolveFails
    <3> QED
      BY <1>4, <3>1, <3>2
  <2>2. pc[p] \in Filling => Sound(p)
    BY <1>4, Zenon DEF Resolve, Responsible, Making, Filling
  <2>3. Responsible(p)' \/ (pc'[p] = "ok" /\ Complete(dev[p], cfg[p], Target(p))')
    BY <1>1, <1>4, <2>1, <2>2, OwnStep, Zenon
  <2> QED
    BY <1>2, <2>3, Zenon
<1>5. ASSUME \A q \in Runs : pc[q] \notin Making, NEW q \in Runs \ {p}, Responsible(q)
      PROVE  Responsible(q)'
  <2>1. /\ pc'[q] = pc[q] /\ dev'[q] = dev[q] /\ entries'[q] = entries[q] /\ vfs'[q] = vfs[q]
        /\ idx'[q] = idx[q] /\ nodes'[q] = nodes[q]
    BY Frame, Zenon
  <2>2. pc[q] \in Filling /\ Sound(q)
    BY <1>5, Zenon DEF Responsible
  <2>3. dev[q] # NoAddr /\ numvfs[dev[q]] = cfg[q].num
    BY <2>2, Zenon DEF ChoiceInv, Chosen, Sound
  <2>4. /\ numvfs'[dev[q]] = cfg[q].num
        /\ cfg[q].node >= 0 /\ pfnode[dev[q]] = cfg[q].node => pfnode'[dev[q]] = cfg[q].node
        /\ \A i \in 1 .. cfg[q].num :
             Right(dev[q], cfg[q], Nodes, i)
               => /\ vfnode'[dev[q]][i] \in Spread(cfg[q], Nodes)
                  /\ Torn' \/ vfnode'[dev[q]][i] = Share(cfg[q], Nodes, i)
    BY <1>1, <1>5, <2>3, Undisturbed, Zenon
  <2>5. pc[q] = "assign" => \A i \in 1 .. (idx[q] - 1) :
          /\ vfnode'[dev[q]][i] \in Spread(cfg[q], nodes[q])
          /\ Torn' \/ vfnode'[dev[q]][i] = Share(cfg[q], nodes[q], i)
    <3> SUFFICES ASSUME pc[q] = "assign", NEW i \in 1 .. (idx[q] - 1)
                 PROVE  /\ vfnode'[dev[q]][i] \in Spread(cfg[q], nodes[q])
                        /\ Torn' \/ vfnode'[dev[q]][i] = Share(cfg[q], nodes[q], i)
      BY Zenon
    <3>1. /\ idx[q] \in 1 .. Cardinality(vfs[q]) /\ vfs[q] = 1 .. cfg[q].num
          /\ cfg[q].node < 0 => nodes[q] = Nodes
      BY <1>1, <2>2, Zenon DEF LoopInv, Sound, OnlineNodes
    <3>2. cfg[q].node \in Int /\ cfg[q].num \in Int /\ 0 <= cfg[q].num
      BY <2>2, Types, HasPF, Zenon DEF Chosen
    <3>3. Cardinality(1 .. cfg[q].num) = cfg[q].num
      BY SMTT(30), <3>2, FS_Interval
    <3>4. /\ Share(cfg[q], nodes[q], i) = Share(cfg[q], Nodes, i)
          /\ Spread(cfg[q], nodes[q]) = Spread(cfg[q], Nodes)
      BY <3>1, <3>2, SMTT(30) DEF Share, Spread
    <3>5. i \in 1 .. cfg[q].num
      BY <3>1, <3>2, <3>3, SMTT(30)
    <3>6. Right(dev[q], cfg[q], nodes[q], i)
      BY <2>2, Zenon DEF Sound
    <3> QED
      BY <2>4, <3>4, <3>5, <3>6, Zenon DEF Right
  <2> QED
    BY <1>1, <2>1, <2>2, <2>4, <2>5, ZenonT(30) DEF Responsible, Sound, Right, Share, Spread
<1>6. CASE ~Resolve(p) /\ \A q \in Runs : ~Responsible(q)
  <2>1. dev' = dev
    BY <1>6, ZenonT(30) DEF Launch, Kill, Run, Resolve, ResolveFails, Reset, Resetting, Create,
       Creating, setNumVFsFails, setPFNUMANode, ReadDir, EvalSymlinks, listVFPathsFails,
       listNUMANodes, AssignVF, WriteNumVFs, local
  <2>2. ASSUME NEW q \in Runs, dev[q] # NoAddr PROVE Complete(dev[q], cfg[q], Nodes)'
    <3>1. Complete(dev[q], cfg[q], Nodes)
      BY SMTT(30), <1>1, <1>6, <2>2 DEF OverlapInv
    <3>2. \A r \in Runs : pc[r] \notin Making
      BY <1>6, Zenon DEF Responsible
    <3>3. /\ numvfs'[dev[q]] = cfg[q].num
          /\ cfg[q].node >= 0 /\ pfnode[dev[q]] = cfg[q].node => pfnode'[dev[q]] = cfg[q].node
          /\ \A i \in 1 .. cfg[q].num :
               Right(dev[q], cfg[q], Nodes, i)
                 => /\ vfnode'[dev[q]][i] \in Spread(cfg[q], Nodes)
                    /\ Torn' \/ vfnode'[dev[q]][i] = Share(cfg[q], Nodes, i)
      BY <1>1, <2>2, <3>1, <3>2, Undisturbed, Zenon DEF Complete
    <3> QED
      BY <1>1, <2>1, <3>1, <3>3, ZenonT(30) DEF Complete, Right, Share, Spread
  <2> QED
    BY <2>1, <2>2, Zenon
<1> QED
  BY <1>3, <1>4, <1>5, <1>6, Zenon DEF Responsible

LEMMA InvStep == Inv /\ [Next]_vars => Inv'
<1>1. ASSUME Inv, UNCHANGED vars PROVE Inv'
  <2> USE <1>1 DEF vars, Inv, Overlap, Faults
  <2>1. TypeInv' /\ ChoiceInv'
    BY ZenonT(30) DEF TypeInv, TypeOK, ChoiceInv, OnlineNodes, resolvePF, Locked
  <2>2. CreateInv' /\ LoopInv' /\ OneAtATime'
    BY ZenonT(30) DEF CreateInv, LoopInv, OneAtATime, OnlineNodes, Active
  <2>3. SequentialInv'
    BY ZenonT(30) DEF SequentialInv, Sound, Complete, Right, Torn, Share, Spread
  <2>4. OverlapInv'
    <3>1. (\E p \in Runs : Responsible(p)) => \E p \in Runs : Responsible(p)'
      <4>1. ASSUME NEW p \in Runs, Sound(p) PROVE Sound(p)'
        BY <4>1, ZenonT(30) DEF Sound, Right, Torn, Share, Spread
      <4> QED
        BY <4>1, Zenon DEF Responsible
    <3>2. (\A p \in Runs : dev[p] # NoAddr => Complete(dev[p], cfg[p], Nodes))
            => \A p \in Runs : dev'[p] # NoAddr => Complete(dev[p], cfg[p], Nodes)'
      BY ZenonT(30) DEF Complete, Right, Torn, Share, Spread
    <3> QED
      BY <3>1, <3>2, Zenon DEF OverlapInv
  <2> QED
    BY <2>1, <2>2, <2>3, <2>4
<1>2. ASSUME Inv, NEW p \in Runs, Launch(p) \/ Kill(p) \/ Run(p) PROVE Inv'
  <2>1. TypeInv' /\ ChoiceInv'
    BY <1>2, TypeStep, ChoiceStep DEF Inv, Next
  <2>2. CreateInv' /\ LoopInv' /\ OneAtATime'
    BY <1>2, CreateStep, LoopStep, OneAtATimeStep DEF Inv
  <2>3. SequentialInv' /\ OverlapInv'
    BY <1>2, <2>1, SequentialStep, OverlapStep DEF Inv
  <2> QED
    BY <2>1, <2>2, <2>3 DEF Inv
<1> QED
  BY <1>1, <1>2 DEF Next

-----------------------------------------------------------------------------
(* The theorems. *)

(***************************************************************************)
(* The inductive invariant of setup/sriovvf holds throughout.              *)
(***************************************************************************)
THEOREM Invariance == Spec => []Inv
BY InitInv, InvStep, PTL DEF Spec

(***************************************************************************)
(* The state stays within its types: no device ever has more VFs than      *)
(* sriov_totalvfs (setNumVFs after resolvePF).                             *)
(***************************************************************************)
THEOREM TypeCorrect == Spec => []TypeOK
<1>1. Inv => TypeOK
  BY DEF Inv, TypeInv
<1> QED
  BY <1>1, Invariance, PTL

(***************************************************************************)
(* setNumVFs never asks the kernel to replace VFs that exist, killed runs  *)
(* and runs side by side with the same settings included.                  *)
(***************************************************************************)
THEOREM NeverReplaces == Spec => []NeverBusy
<1>1. Inv => NeverBusy
  BY DEF Inv, CreateInv, NeverBusy
<1> QED
  BY <1>1, Invariance, PTL

(***************************************************************************)
(* In try mode run never returns an error (handleFailure at every step).   *)
(***************************************************************************)
THEOREM TryNeverFails == Spec => []TryModeSucceeds
<1>1. Init => TryModeSucceeds
  BY DEF Init, TryModeSucceeds
<1>2. Inv /\ TryModeSucceeds /\ [Next]_vars => TryModeSucceeds'
  <2>1. ASSUME UNCHANGED vars, TryModeSucceeds PROVE TryModeSucceeds'
    BY <2>1 DEF vars, TryModeSucceeds
  <2>2. ASSUME Inv, TryModeSucceeds, NEW p \in Runs, Launch(p) \/ Kill(p) \/ Run(p)
        PROVE  TryModeSucceeds'
    <3>1. cfg' = cfg /\ \A q \in Runs \ {p} : pc'[q] = pc[q]
      BY SMTT(30), <2>2, Frame, Settings DEF Inv
    <3>2. cfg[p].try => pc'[p] # "err"
      <4> USE <2>2 DEF Inv, TypeInv, TypeOK
      <4>1. Launch(p) \/ Kill(p) => pc'[p] # "err"
        BY Zenon DEF Launch, Kill, Goto
      <4>2. Resolve(p) \/ Reset(p) \/ Create(p) => pc'[p] # "err"
        BY ZenonT(30) DEF Resolve, Reset, Create, Goto, Numbered
      <4>3. Resetting(p) \/ Creating(p) => pc'[p] # "err"
        BY ZenonT(30) DEF Resetting, Creating, WriteNumVFs, Goto, Numbered
      <4>4. cfg[p].try /\ (ResolveFails(p) \/ setNumVFsFails(p)) => pc'[p] # "err"
        BY ZenonT(30) DEF ResolveFails, setNumVFsFails, handleFailure, finishTryMode, Numbered
      <4>5. cfg[p].try /\ setPFNUMANode(p) => pc'[p] # "err"
        BY Zenon DEF setPFNUMANode, handleFailure, Goto
      <4>6. ReadDir(p) \/ EvalSymlinks(p) => pc'[p] # "err"
        BY ZenonT(30) DEF ReadDir, EvalSymlinks, Listed, Goto, finishTryMode
      <4>7. cfg[p].try /\ (listVFPathsFails(p) \/ listNUMANodes(p)) => pc'[p] # "err"
        BY ZenonT(30) DEF listVFPathsFails, listNUMANodes, Goto, handleFailure, finishTryMode
      <4>8. cfg[p].try /\ AssignVF(p) => pc'[p] # "err"
        BY ZenonT(30) DEF AssignVF, Goto, handleFailure, finishTryMode
      <4> QED
        BY <4>1, <4>2, <4>3, <4>4, <4>5, <4>6, <4>7, <4>8, Zenon DEF Run
    <3> QED
      BY <2>2, <3>1, <3>2 DEF TryModeSucceeds
  <2> QED
    BY <2>1, <2>2 DEF Next
<1> QED
  BY <1>1, <1>2, Invariance, PTL DEF Spec

-----------------------------------------------------------------------------
(* Round robin is balanced. *)

(* A quotient and a remainder determine what % returns. *)
LEMMA Remainder ==
  ASSUME NEW L \in Nat \ {0}, NEW q \in Int, NEW r \in 0 .. (L - 1)
  PROVE  (q * L + r) % L = r
<1> DEFINE x == q * L + r
<1> DEFINE d == x \div L
<1> DEFINE m == x % L
<1>1. x \in Int /\ d \in Int /\ m \in 0 .. (L - 1) /\ x = L * d + m
  BY SMT
<1>2. q - d \in Int /\ L * (q - d) = m - r
  BY <1>1, SMT
<1> HIDE DEF x, d, m
<1>3. CASE q - d >= 1
  <2>1. L * (q - d) >= L
    BY <1>1, <1>3, SMT
  <2> QED
    BY <2>1, <1>1, <1>2, SMT
<1>4. CASE q - d <= -1
  <2>1. L * (q - d) <= -L
    BY <1>1, <1>4, SMT
  <2> QED
    BY <2>1, <1>1, <1>2, SMT
<1>5. CASE q - d = 0
  <2>1. m = r
    BY <1>1, <1>2, <1>5, SMT
  <2> QED
    BY <2>1 DEF m, x
<1> QED
  BY <1>1, <1>3, <1>4, <1>5, SMT

(* In a round robin over L places, place a is taken at most once more than place b. *)
LEMMA RoundRobin ==
  ASSUME NEW L \in Nat \ {0}, NEW k \in Nat, NEW a \in 1 .. L, NEW b \in 1 .. L
  PROVE  Cardinality({i \in 1 .. k : (i - 1) % L = a - 1})
            <= Cardinality({i \in 1 .. k : (i - 1) % L = b - 1}) + 1
<1> DEFINE A == {i \in 1 .. k : (i - 1) % L = a - 1}
<1> DEFINE B == {i \in 1 .. k : (i - 1) % L = b - 1}
<1> DEFINE rest == A \ {a}
<1> DEFINE g == [i \in rest |-> i - L + b - a]
<1>1. IsFiniteSet(1 .. k) /\ A \in SUBSET (1 .. k) /\ B \in SUBSET (1 .. k)
  BY FS_Interval
<1>2. IsFiniteSet(A) /\ IsFiniteSet(B)
  BY <1>1, FS_Subset
<1>3. ASSUME NEW i \in rest PROVE i - L + b - a \in B
  <2> DEFINE q == (i - 1) \div L
  <2>1. i \in 1 .. k /\ (i - 1) % L = a - 1 /\ i # a
    OBVIOUS
  <2>2. q \in Int /\ i - 1 = L * q + (a - 1)
    BY <2>1, SMT
  <2> HIDE DEF q
  <2>3. q # 0
    BY <2>1, <2>2, SMT
  <2>4. q >= 0
    <3>1. SUFFICES ASSUME q <= -1 PROVE FALSE
      BY <2>2, SMT
    <3>2. L * q <= -L
      BY <2>2, <3>1, SMT
    <3> QED
      BY <2>1, <2>2, <3>2, SMT
  <2>5. L * q >= L
    BY <2>2, <2>3, <2>4, SMT
  <2>6. (i - L + b - a) - 1 = (q - 1) * L + (b - 1)
    BY <2>1, <2>2, SMT
  <2>7. ((i - L + b - a) - 1) % L = b - 1
    <3>1. b - 1 \in 0 .. (L - 1) /\ q - 1 \in Int
      BY <2>2, SMT
    <3> QED
      BY <3>1, <2>6, Remainder, ZenonT(30)
  <2>8. i - L + b - a \in 1 .. k
    BY <2>1, <2>2, <2>5, SMT
  <2> QED
    BY <2>7, <2>8
<1>4. g \in Injection(rest, B)
  <2>1. g \in [rest -> B]
    BY <1>3
  <2>2. \A i, j \in rest : g[i] = g[j] => i = j
    BY <1>1, SMT
  <2> QED
    BY SMTT(30), <2>1, <2>2 DEF Injection, IsInjective
<1>5. Cardinality(rest) <= Cardinality(B)
  BY SMTT(30), <1>2, <1>4, FS_Injection
<1>6. Cardinality(A) <= Cardinality(rest) + 1
  <2>1. Cardinality(rest) = IF a \in A THEN Cardinality(A) - 1 ELSE Cardinality(A)
    BY <1>2, FS_RemoveElement, Zenon
  <2>2. Cardinality(A) \in Nat
    BY <1>2, FS_CardinalityType
  <2> QED
    BY <2>1, <2>2
<1>7. Cardinality(A) \in Nat /\ Cardinality(B) \in Nat /\ IsFiniteSet(rest)
  BY <1>2, FS_CardinalityType, FS_RemoveElement, Zenon
<1>8. Cardinality(rest) \in Nat
  BY <1>7, FS_CardinalityType
<1> QED
  BY SMTT(30), <1>5, <1>6, <1>7, <1>8

(* What the loop over the VFs leaves behind is as even as can be. *)
LEMMA ShareIsBalanced ==
  ASSUME NEW d, NEW k \in Nat, NEW ns \in Seq(Nat), ns # <<>>, Increasing(ns),
         DOMAIN vfnode[d] = 1 .. k,
         \A i \in 1 .. k : vfnode[d][i] = ns[1 + ((i - 1) % Len(ns))]
  PROVE  Balanced(d, ns)
<1> DEFINE L == Len(ns)
<1>1. L \in Nat \ {0} /\ DOMAIN ns = 1 .. L
  BY SMT
<1>2. \A i \in 1 .. k : 1 + ((i - 1) % L) \in 1 .. L
  BY <1>1, SMT
<1>3. \A i \in DOMAIN vfnode[d] : vfnode[d][i] \in Range(ns)
  BY <1>1, <1>2, Zenon DEF Range
<1>4. ASSUME NEW a \in 1 .. L, NEW b \in 1 .. L PROVE ns[a] = ns[b] => a = b
  <2>1. a < b => ns[a] < ns[b]
    BY <1>1, Zenon DEF Increasing
  <2>2. b < a => ns[b] < ns[a]
    BY <1>1, Zenon DEF Increasing
  <2>3. ns[a] \in Nat /\ ns[b] \in Nat
    BY SMTT(30), <1>1
  <2> QED
    BY SMTT(30), <1>1, <2>1, <2>2, <2>3
<1>5. ASSUME NEW a \in 1 .. L
      PROVE  {i \in DOMAIN vfnode[d] : vfnode[d][i] = ns[a]}
                = {i \in 1 .. k : (i - 1) % L = a - 1}
  <2>1. ASSUME NEW i \in 1 .. k PROVE vfnode[d][i] = ns[a] <=> (i - 1) % L = a - 1
    <3>1. vfnode[d][i] = ns[a] <=> 1 + ((i - 1) % L) = a
      BY <1>2, <1>4, ZenonT(30)
    <3>2. (i - 1) % L \in Int
      BY <1>1, SMT
    <3> HIDE DEF L
    <3> QED
      BY SMTT(30), <1>1, <3>1, <3>2
  <2> QED
    BY <2>1, Zenon
<1>6. ASSUME NEW m \in Range(ns), NEW n \in Range(ns) PROVE Count(d, m) <= Count(d, n) + 1
  <2>1. PICK a \in 1 .. L : ns[a] = m
    BY SMTT(30), <1>1 DEF Range
  <2>2. PICK b \in 1 .. L : ns[b] = n
    BY SMTT(30), <1>1 DEF Range
  <2> HIDE DEF L
  <2>3. Count(d, m) = Cardinality({i \in 1 .. k : (i - 1) % L = a - 1})
    BY <1>5, <2>1, Zenon DEF Count
  <2>4. Count(d, n) = Cardinality({i \in 1 .. k : (i - 1) % L = b - 1})
    BY <1>5, <2>2, Zenon DEF Count
  <2> QED
    BY <1>1, <2>3, <2>4, RoundRobin, ZenonT(30)
<1> QED
  BY SMTT(30), <1>3, <1>6 DEF Balanced

-----------------------------------------------------------------------------
(* From the invariant to the configuration. *)

LEMMA CompleteIsConfigured ==
  ASSUME TypeInv, NEW d, NEW c \in Configs, NEW ns \in OnlineNodes \cup {<<>>}, Complete(d, c, ns),
         ~Locked(d), c.node >= 0 \/ ~Torn
  PROVE  Configured(d, c, ns)
<1>1. d \in Devices /\ numvfs[d] = c.num /\ DOMAIN vfnode[d] = 1 .. c.num /\ c.num \in Nat
  BY TotalVFsAssumption, SMTT(30) DEF Complete, TypeInv, TypeOK, TotalVFsAssumption
<1>2. c.node \in Int
  BY ConfigsAssumption DEF ConfigsAssumption
<1>3. c.node >= 0 => pfnode[d] = c.node /\ \A i \in DOMAIN vfnode[d] : vfnode[d][i] = c.node
  BY <1>1, SMTT(30) DEF Complete, Right, Spread
<1>4. ASSUME c.node < 0, ns # <<>> PROVE Balanced(d, ns)
  <2>1. ns \in Seq(Nat) /\ Increasing(ns)
    BY <1>4, NodesFound
  <2>2. ~(c.node >= 0)
    BY <1>2, <1>4
  <2>3. \A i \in 1 .. c.num : vfnode[d][i] = ns[1 + ((i - 1) % Len(ns))]
    BY <1>4, <2>2, Zenon DEF Complete, Right, Share
  <2> QED
    BY <1>1, <1>4, <2>1, <2>3, ShareIsBalanced, Zenon
<1> QED
  BY <1>1, <1>3, <1>4, Zenon DEF Configured

(***************************************************************************)
(* A run that exits with 0 has left its PF as asked, for any number of VFs *)
(* and NUMA nodes; balanceVFNUMA's round robin is even to within one VF.   *)
(***************************************************************************)
THEOREM SuccessConfigures == Spec => []SuccessMeansConfigured
<1>1. Inv => SuccessMeansConfigured
  <2> SUFFICES ASSUME Inv, ~Overlap, pc[last] = "ok", ~cfg[last].try
               PROVE  Configured(dev[last], cfg[last], nodes[last])
    BY Zenon DEF SuccessMeansConfigured
  <2>1. Faults /\ last \in Runs /\ TypeInv
    BY Zenon DEF Inv, TypeInv, TypeOK, Overlap, Faults
  <2>2. Complete(dev[last], cfg[last], nodes[last])
    BY <2>1, Zenon DEF Inv, SequentialInv
  <2>3. cfg[last] \in Configs /\ nodes[last] \in OnlineNodes \cup {<<>>}
    BY SMTT(30), <2>1 DEF TypeInv, TypeOK
  <2>4. ~Locked(dev[last]) /\ ~Torn
    BY <2>1, Zenon DEF Inv, OneAtATime, Active, Ended, Locked, Torn
  <2> QED
    BY SMTT(30), <2>1, <2>2, <2>3, <2>4, CompleteIsConfigured
<1> QED
  BY <1>1, Invariance, PTL

(***************************************************************************)
(* Any number of runs with the same settings may overlap, one removing VFs *)
(* while another lists them or sets their nodes: once all have ended, the  *)
(* PF has the VFs asked for, pinned as asked or on online nodes; these are *)
(* balanced if every run that listed VFs found them all.                   *)
(***************************************************************************)
THEOREM OverlapSettles == Spec => []OverlapConverges
<1>1. Inv => OverlapConverges
  <2> DEFINE d == dev[last]
  <2> DEFINE c == cfg[last]
  <2> SUFFICES ASSUME Inv, Overlap, \A p \in Runs : pc[p] \in Ended, d # NoAddr
               PROVE  /\ numvfs[d] = c.num
                      /\ c.node < 0 /\ Nodes # <<>> => Range(vfnode[d]) \subseteq Range(Nodes)
                      /\ c.node >= 0 \/ (\A p \in Runs : vfs[p] \in {{}, 1 .. c.num})
                           => Configured(d, c, Nodes)
    BY Zenon DEF OverlapConverges
  <2>1. last \in Runs /\ TypeInv /\ c \in Configs /\ c.node \in Int
    <3>1. last \in Runs /\ TypeInv
      BY SMTT(30) DEF Inv, TypeInv
    <3> QED
      BY <3>1, Types, Zenon
  <2>2. \A p \in Runs : ~Responsible(p)
    BY DEF Responsible, Making, Filling, Ended
  <2>3. Complete(d, c, Nodes)
    BY <2>1, <2>2, Zenon DEF Inv, OverlapInv
  <2>4. Nodes \in OnlineNodes
    BY DEF OnlineNodes, Overlap, Faults
  <2>5. ~Locked(d)
    BY Zenon DEF Locked, Ended
  <2>6. d \in Devices /\ numvfs[d] = c.num /\ DOMAIN vfnode[d] = 1 .. c.num
    BY <2>1, <2>3, <2>5, ZenonT(30) DEF Complete, TypeInv, TypeOK
  <2>7. ASSUME c.node < 0, Nodes # <<>> PROVE Range(vfnode[d]) \subseteq Range(Nodes)
    <3>1. ~(c.node >= 0)
      BY <2>1, <2>7
    <3>2. \A i \in DOMAIN vfnode[d] : vfnode[d][i] \in Range(Nodes)
      BY <2>3, <2>6, <2>7, <3>1, Zenon DEF Complete, Right, Spread
    <3> QED
      BY <3>2, Zenon DEF Range
  <2>8. (\A p \in Runs : vfs[p] \in {{}, 1 .. c.num}) => ~Torn
    <3>1. \A p \in Runs : cfg[p] = c
      BY <2>1, Zenon DEF TypeInv
    <3> QED
      BY <3>1, Zenon DEF Torn
  <2>9. c.node >= 0 \/ ~Torn => Configured(d, c, Nodes)
    BY <2>1, <2>3, <2>4, <2>5, CompleteIsConfigured, Zenon
  <2> QED
    BY <2>6, <2>7, <2>8, <2>9, Zenon
<1> QED
  BY <1>1, Invariance, PTL

=============================================================================
