------------------------------- MODULE SriovVF ------------------------------
(***************************************************************************)
(* setup/sriovvf/main.go: choose an SR-IOV physical function (PF), give it *)
(* the requested number of virtual functions (VFs), and set the NUMA node  *)
(* of each through sysfs.  Every write to sysfs is a step of its own, or   *)
(* several where the kernel takes the VFs away or adds them one by one:    *)
(* the tool may be killed between any two and run again, on a node whose   *)
(* devices are as the killed run left them.                                *)
(***************************************************************************)
EXTENDS Integers, Sequences, FiniteSets, Functions

CONSTANTS
  Runs,      \* invocations of the tool
  Configs,   \* what they may be asked: [num, node, try, addr]
  Devices,   \* PCI addresses, as numbers: < is the order of their names
  TotalVFs,  \* TotalVFs[d]: sriov_totalvfs, 0 for what validatePFDevice rejects
  InitVFs,   \* VF counts a device may have at the start
  Nodes,     \* the online NUMA nodes, in increasing order
  NoNode     \* the NUMA node of a VF nobody has set

NoAddr == 0

ASSUME DevicesAssumption == Devices \subseteq Nat \ {NoAddr}
ASSUME TotalVFsAssumption == TotalVFs \in [Devices -> Nat]
ASSUME ConfigsAssumption ==
  Configs \subseteq [num : Int, node : Int, try : BOOLEAN, addr : Nat]
ASSUME InitVFsAssumption == InitVFs \subseteq Nat

VARIABLES
  mode,     \* how the tool is used: see Faults and Overlap
  cfg,      \* cfg[p]: the flags and argument of p
  pc,       \* pc[p]: "idle", the next step of run, or how it ended
  dev,      \* dev[p]: pf.pciAddr
  entries,  \* entries[p]: virtfn links that listVFPaths has read and not resolved yet
  vfs,      \* vfs[p]: the VFs of vfPaths, by their place among all VFs of the device
  idx,      \* idx[p]: place in vfPaths of the VF whose NUMA node is set next
  nodes,    \* nodes[p]: the NUMA nodes listNUMANodes found
  last,     \* the invocation started last
  numvfs,   \* numvfs[d]: sriov_numvfs
  vfnode,   \* vfnode[d][i]: numa_node of the i-th VF, in the order of their paths;
            \* the domain is the VFs that are there
  pfnode,   \* pfnode[d]: numa_node of the PF
  busy      \* the kernel has refused to replace VFs that exist

local == <<mode, cfg, dev, entries, vfs, idx, nodes, last>>
sysfs == <<numvfs, vfnode, pfnode, busy>>
vars  == <<mode, cfg, pc, dev, entries, vfs, idx, nodes, last,
           numvfs, vfnode, pfnode, busy>>

Ended == {"ok", "err", "killed"}

(* The steps of run; in "resetting" and "creating" it waits for the kernel. *)
Steps == {"start", "reset", "resetting", "create", "creating", "pfnuma", "list", "links",
          "nodes", "assign"}

(***************************************************************************)
(* Invocations follow one another, and any read or write may fail and any  *)
(* of them be killed; or they run side by side, with the same settings.    *)
(***************************************************************************)
Faults  == mode = "faults"
Overlap == mode = "overlap"

Increasing(s) == \A i, j \in DOMAIN s : i < j => s[i] < s[j]

ASSUME NodesAssumption == Nodes \in Seq(Nat) /\ Increasing(Nodes)

(***************************************************************************)
(* What listNUMANodes may find, sorted: a node whose online file cannot be *)
(* read is left out.                                                       *)
(***************************************************************************)
OnlineNodes ==
  IF Faults THEN {ns \in UNION {[1 .. k -> Range(Nodes)] : k \in 0 .. Len(Nodes)} :
                    Increasing(ns)}
  ELSE {Nodes}

(* A write to sriov_numvfs of d is under way, and keeps others waiting. *)
Locked(d) == \E p \in Runs : pc[p] \in {"resetting", "creating"} /\ dev[p] = d

TypeOK ==
  /\ mode \in {"faults", "overlap"}
  /\ cfg \in [Runs -> Configs]
  /\ pc \in [Runs -> Steps \cup Ended \cup {"idle"}]
  /\ dev \in [Runs -> Devices \cup {NoAddr}]
  /\ entries \in [Runs -> SUBSET Nat]
  /\ vfs \in [Runs -> SUBSET Nat]
  /\ idx \in [Runs -> Nat]
  /\ \A p \in Runs : nodes[p] \in OnlineNodes \cup {<<>>}
  /\ \A d \in Devices : /\ numvfs[d] \in 0 .. TotalVFs[d]
                        /\ DOMAIN vfnode[d] \subseteq 1 .. TotalVFs[d]
                        /\ ~Locked(d) => DOMAIN vfnode[d] = 1 .. numvfs[d]

Init ==
  /\ mode \in {"faults", "overlap"}
  /\ cfg \in [Runs -> Configs]
  /\ Overlap => \A p, q \in Runs : cfg[p] = cfg[q]
  /\ pc = [p \in Runs |-> "idle"]
  /\ dev = [p \in Runs |-> NoAddr]
  /\ entries = [p \in Runs |-> {}]
  /\ vfs = [p \in Runs |-> {}]
  /\ idx = [p \in Runs |-> 1]
  /\ nodes = [p \in Runs |-> <<>>]
  /\ last \in Runs
  /\ numvfs \in {f \in [Devices -> InitVFs] : \A d \in Devices : f[d] <= TotalVFs[d]}
  /\ vfnode = [d \in Devices |-> [i \in 1 .. numvfs[d] |-> NoNode]]
  /\ pfnode = [d \in Devices |-> NoNode]
  /\ busy = FALSE

-----------------------------------------------------------------------------
(* Where run goes when a step fails: handleFailure, then cont in try mode. *)
handleFailure(p, cont) == pc' = [pc EXCEPT ![p] = IF cfg[p].try THEN cont ELSE "err"]

(* finishTryMode: nil, whatever failed. *)
finishTryMode == "ok"

Goto(p, l) == pc' = [pc EXCEPT ![p] = l]

(* The kernel refuses to write a number of VFs over another one. *)
Accepted(d, n) == n = numvfs[d] \/ n = 0 \/ numvfs[d] = 0

(***************************************************************************)
(* The kernel's side of the write of n to sriov_numvfs: VFs, with their    *)
(* virtfn links, go or come one by one, in whatever order, then the number *)
(* changes and the write returns.                                          *)
(***************************************************************************)
WriteNumVFs(p, n, next) ==
  LET d == dev[p] IN
  /\ \/ /\ \E i \in DOMAIN vfnode[d] \ (1 .. n) :
             vfnode' = [vfnode EXCEPT ![d] = Restrict(@, DOMAIN @ \ {i})]
        /\ UNCHANGED <<numvfs, pc>>
     \/ /\ \E i \in (1 .. n) \ DOMAIN vfnode[d] :
             vfnode' = [vfnode EXCEPT ![d] = [j \in DOMAIN @ \cup {i} |->
                                                IF j = i THEN NoNode ELSE @[j]]]
        /\ UNCHANGED <<numvfs, pc>>
     \/ /\ DOMAIN vfnode[d] = 1 .. n
        /\ numvfs' = [numvfs EXCEPT ![d] = n]
        /\ Goto(p, next)
        /\ UNCHANGED vfnode
  /\ UNCHANGED <<local, pfnode, busy>>

-----------------------------------------------------------------------------
Launch(p) ==
  /\ pc[p] = "idle"
  /\ Overlap \/ \A q \in Runs : pc[q] \in Ended \cup {"idle"}
  /\ Goto(p, "start")
  /\ last' = p
  /\ UNCHANGED <<mode, cfg, dev, entries, vfs, idx, nodes, sysfs>>

(* A write to sriov_numvfs is not interrupted. *)
Kill(p) ==
  /\ Faults
  /\ pc[p] \in Steps \ {"resetting", "creating"}
  /\ Goto(p, "killed")
  /\ UNCHANGED <<local, sysfs>>

(* A network device, no VF itself, with room for VFs. *)
validatePFDevice(d) == TotalVFs[d] > 0

(***************************************************************************)
(* The device asked for, or the first one in the order of the addresses;   *)
(* one that cannot be read is passed over.                                 *)
(***************************************************************************)
resolvePF(p) ==
  {d \in Devices :
     /\ validatePFDevice(d)
     /\ IF cfg[p].addr # NoAddr THEN d = cfg[p].addr
        ELSE Faults \/ \A e \in Devices : validatePFDevice(e) => d <= e}

(* The step after setNumVFs. *)
Numbered(p) == IF cfg[p].node >= 0 THEN "pfnuma" ELSE "list"

(* Mutant: nothing is left to do when the number of VFs is right. *)
Resolve_shortcut(p) ==
  /\ pc[p] = "start"
  /\ cfg[p].num >= 0
  /\ \E d \in resolvePF(p) :
       /\ cfg[p].num <= TotalVFs[d]
       /\ dev' = [dev EXCEPT ![p] = d]
       /\ Goto(p, IF numvfs[d] = cfg[p].num THEN finishTryMode
                  ELSE IF numvfs[d] > 0 THEN "reset" ELSE "create")
  /\ UNCHANGED <<mode, cfg, entries, vfs, idx, nodes, last, sysfs>>

Resolve(p) ==
  /\ pc[p] = "start"
  /\ cfg[p].num >= 0
  /\ \E d \in resolvePF(p) :
       /\ cfg[p].num <= TotalVFs[d]
       /\ dev' = [dev EXCEPT ![p] = d]
       /\ Goto(p, IF numvfs[d] = cfg[p].num THEN Numbered(p)
                  ELSE IF numvfs[d] > 0 THEN "reset" ELSE "create")
  /\ UNCHANGED <<mode, cfg, entries, vfs, idx, nodes, last, sysfs>>

(* Mutant: the error is returned before try mode is looked at. *)
ResolveFails_returns(p) ==
  /\ pc[p] = "start"
  /\ \/ cfg[p].num < 0
     \/ Faults
     \/ \A d \in resolvePF(p) : cfg[p].num > TotalVFs[d]
  /\ Goto(p, "err")
  /\ UNCHANGED <<local, sysfs>>

(* A bad --num-vfs or --sysfs, no PF, or a PF with too few VFs. *)
ResolveFails(p) ==
  /\ pc[p] = "start"
  /\ \/ cfg[p].num < 0
     \/ Faults
     \/ \A d \in resolvePF(p) : cfg[p].num > TotalVFs[d]
  /\ handleFailure(p, finishTryMode)
  /\ UNCHANGED <<local, sysfs>>

(* Mutant: the VFs are not given up before the new number is written. *)
Reset_skipped(p) ==
  /\ pc[p] = "reset"
  /\ Goto(p, "create")
  /\ UNCHANGED <<local, sysfs>>

Reset(p) ==
  /\ pc[p] = "reset" /\ ~Locked(dev[p])
  /\ Goto(p, "resetting")
  /\ UNCHANGED <<local, sysfs>>

Resetting(p) == pc[p] = "resetting" /\ WriteNumVFs(p, 0, "create")

Create(p) ==
  /\ pc[p] = "create" /\ ~Locked(dev[p])
  /\ Accepted(dev[p], cfg[p].num)
  /\ Goto(p, "creating")
  /\ UNCHANGED <<local, sysfs>>

(* Mutant: one VF more than asked for. *)
Creating_oneMore(p) == pc[p] = "creating" /\ WriteNumVFs(p, cfg[p].num + 1, Numbered(p))

Creating(p) == pc[p] = "creating" /\ WriteNumVFs(p, cfg[p].num, Numbered(p))

(* A write to sriov_numvfs fails, by a fault or because VFs exist. *)
setNumVFsFails(p) ==
  /\ \/ pc[p] \in {"reset", "create"} /\ Faults /\ UNCHANGED busy
     \/ /\ pc[p] = "create" /\ ~Locked(dev[p])
        /\ ~Accepted(dev[p], cfg[p].num)
        /\ busy' = TRUE
  /\ handleFailure(p, Numbered(p))
  /\ UNCHANGED <<local, numvfs, vfnode, pfnode>>

setPFNUMANode(p) ==
  /\ pc[p] = "pfnuma"
  /\ \/ /\ pfnode' = [pfnode EXCEPT ![dev[p]] = cfg[p].node]
        /\ Goto(p, "list")
     \/ /\ Faults
        /\ handleFailure(p, "list")
        /\ UNCHANGED pfnode
  /\ UNCHANGED <<local, numvfs, vfnode, busy>>

(***************************************************************************)
(* listVFPaths, while another run may be taking VFs away or adding them:   *)
(* os.ReadDir finds the links there are (since these come and go in any    *)
(* order, one that comes or goes while it reads is found or is not) ...    *)
(***************************************************************************)
ReadDir(p) ==
  /\ pc[p] = "list"
  /\ entries' = [entries EXCEPT ![p] = DOMAIN vfnode[dev[p]]]
  /\ Goto(p, IF DOMAIN vfnode[dev[p]] = {} THEN finishTryMode ELSE "links")
  /\ UNCHANGED <<mode, cfg, dev, vfs, idx, nodes, last, sysfs>>

(* The step after listVFPaths, when it has found VFs. *)
Listed(p) == IF cfg[p].num = 0 THEN finishTryMode
             ELSE IF cfg[p].node >= 0 THEN "assign" ELSE "nodes"

(* ... and filepath.EvalSymlinks follows them one by one (here in any order) ... *)
EvalSymlinks(p) ==
  /\ pc[p] = "links"
  /\ \E i \in entries[p] \cap DOMAIN vfnode[dev[p]] :
       /\ entries' = [entries EXCEPT ![p] = @ \ {i}]
       /\ vfs' = [vfs EXCEPT ![p] = @ \cup {i}]
       /\ Goto(p, IF entries[p] = {i} THEN Listed(p) ELSE "links")
  /\ UNCHANGED <<mode, cfg, dev, idx, nodes, last, sysfs>>

(* ... unless one has gone away since. *)
listVFPathsFails(p) ==
  /\ \/ pc[p] \in {"list", "links"} /\ Faults
     \/ pc[p] = "links" /\ ~(entries[p] \subseteq DOMAIN vfnode[dev[p]])
  /\ handleFailure(p, finishTryMode)
  /\ entries' = [entries EXCEPT ![p] = {}]
  /\ vfs' = [vfs EXCEPT ![p] = {}]
  /\ UNCHANGED <<mode, cfg, dev, idx, nodes, last, sysfs>>

listNUMANodes(p) ==
  /\ pc[p] = "nodes"
  /\ \/ \E ns \in OnlineNodes :
          /\ nodes' = [nodes EXCEPT ![p] = ns]
          /\ Goto(p, IF ns = <<>> THEN finishTryMode ELSE "assign")
     \/ /\ Faults
        /\ handleFailure(p, finishTryMode)
        /\ UNCHANGED nodes
  /\ UNCHANGED <<mode, cfg, dev, entries, vfs, idx, last, sysfs>>

(***************************************************************************)
(* Mutant: the VFs are taken in the order of the directory, unsorted, and  *)
(* the run started last finds them in another order.                       *)
(***************************************************************************)
NodeOf_unsorted(p, i) ==
  LET pos == IF p = last THEN 1 + (i % Cardinality(vfs[p])) ELSE i
  IN  IF cfg[p].node >= 0 THEN cfg[p].node ELSE nodes[p][1 + ((pos - 1) % Len(nodes[p]))]

(* The node for the i-th of vfPaths: pinned to the PF's, or round robin. *)
NodeOf(p, i) ==
  IF cfg[p].node >= 0 THEN cfg[p].node ELSE nodes[p][1 + ((i - 1) % Len(nodes[p]))]

(* The k-th of vfPaths, sorted. *)
Nth(S, k) == CHOOSE i \in S : Cardinality({j \in S : j <= i}) = k

(* One round of the loop of pinVFNUMA or balanceVFNUMA. *)
AssignVF(p) ==
  LET i == Nth(vfs[p], idx[p]) IN
  /\ pc[p] = "assign"
  /\ \/ /\ i \in DOMAIN vfnode[dev[p]]
        /\ vfnode' = [vfnode EXCEPT ![dev[p]][i] = NodeOf(p, idx[p])]
        /\ idx' = [idx EXCEPT ![p] = @ + 1]
        /\ Goto(p, IF idx[p] = Cardinality(vfs[p]) THEN finishTryMode ELSE "assign")
     \/ /\ Faults \/ i \notin DOMAIN vfnode[dev[p]]   \* the VF has gone away
        /\ handleFailure(p, finishTryMode)
        /\ UNCHANGED <<vfnode, idx>>
  /\ UNCHANGED <<mode, cfg, dev, entries, vfs, nodes, last, numvfs, pfnode, busy>>

-----------------------------------------------------------------------------
Run(p) ==
  \/ Resolve(p) \/ ResolveFails(p)
  \/ Reset(p) \/ Resetting(p) \/ Create(p) \/ Creating(p) \/ setNumVFsFails(p)
  \/ setPFNUMANode(p)
  \/ ReadDir(p) \/ EvalSymlinks(p) \/ listVFPathsFails(p)
  \/ listNUMANodes(p) \/ AssignVF(p)

Next == \E p \in Runs : Launch(p) \/ Kill(p) \/ Run(p)

Spec == Init /\ [][Next]_vars

-----------------------------------------------------------------------------
Count(d, n) == Cardinality({i \in DOMAIN vfnode[d] : vfnode[d][i] = n})

(* The VFs of d are spread over the nodes ns as evenly as can be. *)
Balanced(d, ns) ==
  /\ \A i \in DOMAIN vfnode[d] : vfnode[d][i] \in Range(ns)
  /\ \A m, n \in Range(ns) : Count(d, m) <= Count(d, n) + 1

(* Device d is as configuration c asks for, as far as nodes ns go. *)
Configured(d, c, ns) ==
  /\ numvfs[d] = c.num
  /\ c.node >= 0 => pfnode[d] = c.node /\ \A i \in DOMAIN vfnode[d] : vfnode[d][i] = c.node
  /\ c.node < 0 /\ ns # <<>> => Balanced(d, ns)

(***************************************************************************)
(* A run that exits with 0 (and was not told to ignore failures) has left  *)
(* its PF as asked: the number of VFs, and their NUMA nodes pinned or      *)
(* balanced.  Earlier runs with other settings, killed between any two     *)
(* writes, do not matter (setNumVFs and its currentVFs shortcut).          *)
(***************************************************************************)
SuccessMeansConfigured ==
  ~Overlap /\ pc[last] = "ok" /\ ~cfg[last].try => Configured(dev[last], cfg[last], nodes[last])

(***************************************************************************)
(* sriov_numvfs is never written over VFs that exist, which the kernel     *)
(* would refuse (setNumVFs resets first).                                  *)
(***************************************************************************)
NeverBusy == ~busy

(***************************************************************************)
(* "attempt operations and always exit successfully even on failures"      *)
(* (main.go:65): run returns no error in try mode, whichever steps failed. *)
(***************************************************************************)
TryModeSucceeds == \A p \in Runs : cfg[p].try => pc[p] # "err"

(***************************************************************************)
(* Runs with the same settings may overlap: when all have ended, however   *)
(* their steps interleaved and even if some of them failed on a VF or a    *)
(* link the others had just removed, the PF has the VFs asked for, and     *)
(* they are all pinned, or each is on one of the online nodes.  They are   *)
(* balanced as well, unless some run listed part of the VFs while another  *)
(* one was replacing them, and took the first it saw for the first there   *)
(* is (listVFPaths, balanceVFNUMA).                                        *)
(***************************************************************************)
OverlapConverges ==
  LET d == dev[last]
      c == cfg[last]
  IN  Overlap /\ (\A p \in Runs : pc[p] \in Ended) /\ d # NoAddr =>
        /\ numvfs[d] = c.num
        /\ c.node < 0 /\ Nodes # <<>> => Range(vfnode[d]) \subseteq Range(Nodes)
        /\ c.node >= 0 \/ (\A p \in Runs : vfs[p] \in {{}, 1 .. c.num}) => Configured(d, c, Nodes)

=============================================================================
