----------------------------- MODULE WorkerSetup ----------------------------
(***************************************************************************)
(* setup-workernode (setup/workernode/main.go) prints a Job with as many   *)
(* pods as there are worker nodes when it asks; each pod runs the script   *)
(* of module RuntimeConfig on the node it is put on.  That the Job reaches *)
(* every worker is left to the spread constraint of its pods.              *)
(***************************************************************************)
EXTENDS RuntimeConfig, FiniteSets, Integers

CONSTANT Pods   \* those of Installers that are pods of the Job; the bound on retries

ASSUME PodsAssumption == Pods \subseteq Installers
ASSUME FiniteAssumption == IsFiniteSet(Nodes) /\ IsFiniteSet(Installers)

VARIABLES
  workers,  \* the nodes labelled as workers
  listed,   \* the workers setup-workernode was given
  job,      \* the Job
  pending,  \* pods created and not yet put on a node
  early     \* a pod was put on a node when another one was over already

setup == <<workers, listed, job, pending, early>>
allVars == <<orig, file, loaded, pc, on, buf, hurt, workers, listed, job, pending, early>>

(* Mutant: Completions is left at its default. *)
makeSetupRuntimeJob_oneCompletion(w) ==
  [Parallelism |-> Cardinality(w), Completions |-> 1, MaxSkew |-> 1]

(* Mutant: no two nodes may differ. *)
makeSetupRuntimeJob_noSkew(w) ==
  [Parallelism |-> Cardinality(w), Completions |-> Cardinality(w), MaxSkew |-> 0]

(* Mutant: the spread constraint is left out. *)
makeSetupRuntimeJob_noSpread(w) ==
  [Parallelism |-> Cardinality(w), Completions |-> Cardinality(w), MaxSkew |-> Cardinality(w)]

makeSetupRuntimeJob(w) ==
  [Parallelism |-> Cardinality(w), Completions |-> Cardinality(w), MaxSkew |-> 1]

NoJob == [Parallelism |-> 0, Completions |-> 0, MaxSkew |-> 0]

Placed(n)   == {p \in Pods : on[p] = n}
Running(n)  == {p \in Placed(n) : pc[p] \in Busy}
Ended       == {p \in Pods : pc[p] \in Over}
Succeeded   == {p \in Pods : pc[p] \in {"restarted", "skipped"}}
Active      == pending \cup {p \in Pods : pc[p] \in Busy}

SetupTypeOK ==
  /\ TypeOK
  /\ workers \subseteq Nodes
  /\ listed \subseteq workers
  /\ job \in {NoJob, makeSetupRuntimeJob(listed)}
  /\ pending \subseteq {p \in Pods : pc[p] = "idle"}
  /\ Cardinality(Active) + Cardinality(Succeeded) <= job.Completions
  /\ early \in BOOLEAN

SetupInit ==
  /\ Init
  /\ workers \in SUBSET Nodes
  /\ listed = {}
  /\ job = NoJob
  /\ pending = {}
  /\ early = FALSE

-----------------------------------------------------------------------------
getWorkerNodes == workers

(* When a check or a request fails, nothing is printed. *)
main ==
  /\ job = NoJob
  /\ listed' = getWorkerNodes
  /\ job' = makeSetupRuntimeJob(getWorkerNodes)
  /\ UNCHANGED <<vars, workers, pending, early>>

(* kubectl label node *)
Label(n) ==
  /\ workers' = workers \cup {n}
  /\ UNCHANGED <<vars, listed, job, pending, early>>

-----------------------------------------------------------------------------
(***************************************************************************)
(* The cluster.  The Job controller replaces pods that failed.  The        *)
(* scheduler weighs the nodes the selector admits by the Job's pods that   *)
(* are not over, and the kubelet starts the pod.  Init containers of the   *)
(* driver pods may be at work on any node.                                 *)
(***************************************************************************)
CreatePod(p) ==
  /\ p \notin pending /\ pc[p] = "idle"
  /\ Cardinality(Active) < job.Parallelism
  /\ Cardinality(Active) + Cardinality(Succeeded) < job.Completions
  /\ pending' = pending \cup {p}
  /\ UNCHANGED <<vars, workers, listed, job, early>>

Fits(n) == \A m \in workers : Cardinality(Running(n)) + 1 - Cardinality(Running(m)) <= job.MaxSkew

Schedule(p, n) ==
  /\ p \in pending
  /\ n \in workers /\ Fits(n)
  /\ Start(p, n)
  /\ pending' = pending \ {p}
  /\ early' = (early \/ Ended # {})
  /\ UNCHANGED <<workers, listed, job>>

StartInitContainer(i, n) ==
  /\ i \notin Pods
  /\ Start(i, n)
  /\ UNCHANGED setup

RunScript(i) == Script(i) /\ UNCHANGED setup

KillContainer(i) == Kill(i) /\ UNCHANGED setup

Cluster == \E p \in Pods : CreatePod(p) \/ \E n \in Nodes : Schedule(p, n)

SetupNext ==
  \/ main
  \/ \E n \in Nodes : Label(n)
  \/ Cluster
  \/ \E i \in Installers :
       \/ \E n \in Nodes : StartInitContainer(i, n)
       \/ RunScript(i)
       \/ KillContainer(i)

SetupSpec == SetupInit /\ [][SetupNext]_allVars

(* The cluster makes and places the pods it can; scripts that run go on. *)
SetupFairness == WF_allVars(Cluster) /\ \A i \in Installers : WF_allVars(RunScript(i))

SetupFairSpec == SetupSpec /\ SetupFairness

-----------------------------------------------------------------------------
JobCompleted == job # NoJob /\ Cardinality(Succeeded) = job.Completions

(***************************************************************************)
(* The spread constraint does what the Job is made for                     *)
(* (makeSetupRuntimeJob): as long as no pod was over before the last one   *)
(* was placed, and no node became a worker after the workers were listed,  *)
(* no worker gets two of the pods, and nobody else gets one.               *)
(***************************************************************************)
OnePodPerWorker ==
  ~early /\ listed = workers =>
     \A n \in Nodes : Cardinality(Placed(n)) <= IF n \in listed THEN 1 ELSE 0

(***************************************************************************)
(* A completed Job means configured workers, provided the spread worked,   *)
(* no tool failed (the script's status hides it), nothing touched the file *)
(* at the wrong moment and no other script is half done.                   *)
(***************************************************************************)
CompletedMeansConfigured ==
  JobCompleted /\ ~early /\ listed = workers =>
     \A n \in listed :
        ~hurt[n] /\ Unfinished(n) = {} /\ (\A p \in Placed(n) : pc[p] # "skipped") =>
           Parses(orig[n]) /\ loaded[n] # Down /\ Configured(orig[n], loaded[n])

(***************************************************************************)
(* The Job comes to an end: the spread constraint never keeps a pod        *)
(* waiting for good, and the script never waits for anybody.               *)
(***************************************************************************)
JobEnds == job # NoJob ~> JobCompleted \/ \E p \in Pods : pc[p] \in {"failed", "killed"}

=============================================================================
