--------------------------- MODULE DriverLifecycle --------------------------
(***************************************************************************)
(* The entry points of the three DRA drivers: driver/cpu/main.go,          *)
(* driver/memory/main.go and driver/sriov/main.go.  One process of one of  *)
(* the drivers, the goroutines main starts, and the signals it is sent.    *)
(* The drivers proper are libraries; of them the model has what the entry  *)
(* points see: calls that return or fail, a background failure that        *)
(* cancels the context, and, since each is given the context main cancels, *)
(* that it may wind down as soon as that is cancelled.                     *)
(***************************************************************************)
EXTENDS Naturals

CONSTANT MaxSignals   \* bound: signals sent to the process

ASSUME SignalsAssumption == MaxSignals \in Nat

Signals == {"INT", "TERM", "HUP"}

VARIABLES
  driver,    \* which of the programs this is
  pc,        \* where main is
  status,    \* how the process ended: "none", "ok" (0), "error", "signal", "panic"
  traps,     \* the signals that do not have their default effect
  sent,      \* signals sent so far
  signalCh,  \* cpu: signals in the channel, of capacity 2
  asked,     \* a signal it traps was sent
  ctx,       \* the context: "live" or "cancelled"
  ready,     \* cpu: what /healthz reports
  http,      \* cpu: the HTTP server
  plugin,    \* the driver main started: "none", "running", "stopped"
  callback,  \* sriov: the republish callback is set
  mgr,       \* sriov: the controller manager's goroutine
  nri        \* sriov: the NRI plugin is running

env       == <<driver, sent, asked>>
cpuVars   == <<signalCh, ready, http>>
sriovVars == <<callback, mgr, nri>>
vars == <<driver, pc, status, traps, sent, signalCh, asked, ctx, ready, http,
          plugin, callback, mgr, nri>>

Steps == [cpu    |-> {"init", "setup", "starting", "started", "serving", "draining",
                      "stopping", "closed"},
          memory |-> {"init", "starting", "serving"},
          sriov  |-> {"init", "setup", "starting", "started", "configuring", "syncing",
                      "synced", "serving", "stoppingNRI", "stopping", "returning"}]

Alive == pc # "exited"

TypeOK ==
  /\ driver \in DOMAIN Steps
  /\ pc \in Steps[driver] \cup {"exited"}
  /\ status \in {"none", "ok", "error", "signal", "panic"}
  /\ Alive <=> status = "none"
  /\ traps \subseteq Signals
  /\ sent \in 0..MaxSignals
  /\ signalCh \in 0..2
  /\ asked \in BOOLEAN
  /\ ctx \in {"live", "cancelled"}
  /\ ready \in BOOLEAN
  /\ http \in {"none", "opening", "listening", "failed", "closed"}
  /\ plugin \in {"none", "running", "stopped"}
  /\ callback \in BOOLEAN
  /\ mgr \in {"none", "running", "failed", "returned"}
  /\ nri \in BOOLEAN

Init ==
  /\ driver \in DOMAIN Steps
  /\ pc = "init" /\ status = "none"
  /\ traps = {} /\ sent = 0 /\ asked = FALSE
  /\ ctx = "live" /\ plugin = "none"
  /\ signalCh = 0 /\ ready = FALSE /\ http = "none"
  /\ callback = FALSE /\ mgr = "none" /\ nri = FALSE

(* A step of main in driver d. *)
Step(d, from, to) ==
  /\ driver = d /\ pc = from /\ pc' = to
  /\ UNCHANGED <<env, status>>

Return(d, from, s) ==
  /\ driver = d /\ pc = from /\ pc' = "exited"
  /\ status' = s
  /\ UNCHANGED env

(* klog.Fatalf, os.Exit(1), or RunPlugin returns an error: no deferred Stop. *)
Fail(d, from) ==
  /\ Return(d, from, "error")
  /\ UNCHANGED <<traps, ctx, plugin, cpuVars, sriovVars>>

-----------------------------------------------------------------------------
(* Signals. *)

(* Mutant: the channel has no buffer. *)
Trapped_unbuffered ==
  IF driver = "cpu"
  THEN /\ signalCh' = IF pc = "serving" THEN 1 ELSE signalCh
       /\ UNCHANGED ctx
  ELSE ctx' = "cancelled" /\ UNCHANGED signalCh

(* Mutant: the channel has no end. *)
Trapped_unbounded ==
  IF driver = "cpu"
  THEN signalCh' = signalCh + 1 /\ UNCHANGED ctx
  ELSE ctx' = "cancelled" /\ UNCHANGED signalCh

(***************************************************************************)
(* The cpu driver queues signals, and drops those that do not fit;         *)
(* signal.NotifyContext of the others cancels the context.                 *)
(***************************************************************************)
Trapped ==
  IF driver = "cpu"
  THEN /\ signalCh' = IF signalCh < 2 THEN signalCh + 1 ELSE 2
       /\ UNCHANGED ctx
  ELSE ctx' = "cancelled" /\ UNCHANGED signalCh

(* A send on the channel main has closed panics. *)
Signal(s) ==
  /\ Alive /\ sent < MaxSignals
  /\ sent' = sent + 1
  /\ \/ /\ s \notin traps \/ pc = "closed"
        /\ pc' = "exited"
        /\ status' = IF s \in traps THEN "panic" ELSE "signal"
        /\ UNCHANGED <<asked, signalCh, ctx>>
     \/ /\ s \in traps /\ pc # "closed"
        /\ asked' = TRUE
        /\ Trapped
        /\ UNCHANGED <<pc, status>>
  /\ UNCHANGED <<driver, traps, ready, http, plugin, sriovVars>>

-----------------------------------------------------------------------------
(* driver/cpu: main *)

(* The flags are parsed, and the goroutine of the HTTP server started. *)
CpuInit ==
  \/ /\ Step("cpu", "init", "setup")
     /\ http' = "opening"
     /\ UNCHANGED <<traps, ctx, plugin, signalCh, ready, sriovVars>>
  \/ Fail("cpu", "init")

(* Its failure is only logged; shut down before it could open, it never does. *)
ListenAndServe ==
  /\ Alive /\ http = "opening"
  /\ http' \in {"listening", "failed"}
  /\ UNCHANGED <<env, pc, status, traps, ctx, plugin, signalCh, ready, sriovVars>>

(* Client configuration, client and node name; then signal.Notify. *)
CpuSetup ==
  \/ /\ Step("cpu", "setup", "starting")
     /\ traps' = {"INT"}
     /\ UNCHANGED <<ctx, plugin, cpuVars, sriovVars>>
  \/ Fail("cpu", "setup")

CpuStart ==
  \/ /\ Step("cpu", "starting", "started")
     /\ plugin' = "running"
     /\ UNCHANGED <<traps, ctx, cpuVars, sriovVars>>
  \/ Fail("cpu", "starting")

CpuReady ==
  /\ Step("cpu", "started", "serving")
  /\ ready' = TRUE
  /\ UNCHANGED <<traps, ctx, plugin, signalCh, http, sriovVars>>

(* The select; nobody but main cancels the context, which is the driver's too. *)
CpuWakes ==
  /\ Step("cpu", "serving", "draining")
  /\ signalCh > 0 /\ signalCh' = signalCh - 1
  /\ ctx' = "cancelled"
  /\ UNCHANGED <<traps, plugin, ready, http, sriovVars>>

(* Mutant: the driver is stopped while the server is still there. *)
CpuShutdown_stopsFirst ==
  /\ Step("cpu", "draining", "stopping")
  /\ plugin' = "stopped"
  /\ UNCHANGED <<traps, ctx, cpuVars, sriovVars>>

(* server.Shutdown closes the listener at once, and gives up on the rest after 5 s. *)
CpuShutdown ==
  /\ Step("cpu", "draining", "stopping")
  /\ http' = IF http = "failed" THEN http ELSE "closed"
  /\ UNCHANGED <<traps, ctx, plugin, signalCh, ready, sriovVars>>

(* The deferred calls: dracpu.Stop, close(signalCh) and the second cancel. *)
CpuStop ==
  /\ Step("cpu", "stopping", "closed")
  /\ plugin' = "stopped"
  /\ UNCHANGED <<traps, ctx, cpuVars, sriovVars>>

CpuReturns ==
  /\ Return("cpu", "closed", "ok")
  /\ UNCHANGED <<traps, ctx, plugin, cpuVars, sriovVars>>

-----------------------------------------------------------------------------
(* driver/memory: main *)

MemoryInit ==
  /\ Step("memory", "init", "starting")
  /\ traps' = {"INT", "TERM"}
  /\ UNCHANGED <<ctx, plugin, cpuVars, sriovVars>>

(* The version, an inspection, a validation or the manifests, and no daemon. *)
MemoryOneShot ==
  /\ Return("memory", "starting", "ok")
  /\ UNCHANGED <<traps, ctx, plugin, cpuVars, sriovVars>>

(* RunDaemon starts the driver ... *)
MemoryRunDaemon ==
  \/ /\ Step("memory", "starting", "serving")
     /\ plugin' = "running"
     /\ UNCHANGED <<traps, ctx, cpuVars, sriovVars>>
  \/ Fail("memory", "starting")

(* ... and returns when the context is cancelled, ... *)
MemoryReturns ==
  /\ ctx = "cancelled"
  /\ Return("memory", "serving", "ok")
  /\ plugin' = "stopped"
  /\ UNCHANGED <<traps, ctx, cpuVars, sriovVars>>

(* ... or with an error, at any time, whatever it left running: main only exits. *)
MemoryFails ==
  /\ Return("memory", "serving", "error")
  /\ plugin' \in {plugin, "stopped"}
  /\ UNCHANGED <<traps, ctx, cpuVars, sriovVars>>

-----------------------------------------------------------------------------
(* driver/sriov: newApp and RunPlugin *)

(* Flags, clients and directories; then signal.NotifyContext. *)
SriovInit ==
  \/ /\ Step("sriov", "init", "setup")
     /\ traps' = Signals
     /\ UNCHANGED <<ctx, plugin, cpuVars, sriovVars>>
  \/ Fail("sriov", "init")

(* The CDI handler, the device state manager and the pod manager. *)
SriovSetup ==
  \/ /\ Step("sriov", "setup", "starting")
     /\ UNCHANGED <<traps, ctx, plugin, cpuVars, sriovVars>>
  \/ Fail("sriov", "setup")

SriovStart ==
  \/ /\ Step("sriov", "starting", "started")
     /\ plugin' = "running"
     /\ UNCHANGED <<traps, ctx, cpuVars, sriovVars>>
  \/ Fail("sriov", "starting")

(* Mutant: the callback is forgotten. *)
SetRepublishCallback_forgotten ==
  /\ Step("sriov", "started", "configuring")
  /\ UNCHANGED <<traps, ctx, plugin, cpuVars, sriovVars>>

SetRepublishCallback ==
  /\ Step("sriov", "started", "configuring")
  /\ callback' = TRUE
  /\ UNCHANGED <<traps, ctx, plugin, cpuVars, mgr, nri>>

(* The manager and the controller are made; a goroutine starts the manager. *)
SriovManager ==
  \/ /\ Step("sriov", "configuring", "syncing")
     /\ mgr' = "running"
     /\ UNCHANGED <<traps, ctx, plugin, cpuVars, callback, nri>>
  \/ Fail("sriov", "configuring")

(* mgr.Start fails, and its goroutine cancels the context ... *)
ManagerFails ==
  /\ Alive /\ mgr = "running"
  /\ mgr' = "failed"
  /\ ctx' = "cancelled"
  /\ UNCHANGED <<env, pc, status, traps, plugin, cpuVars, callback, nri>>

(* ... or returns when the context is cancelled; main does not wait for it. *)
ManagerReturns ==
  /\ Alive /\ mgr = "running" /\ ctx = "cancelled"
  /\ mgr' = "returned"
  /\ UNCHANGED <<env, pc, status, traps, ctx, plugin, cpuVars, callback, nri>>

(* The driver reports a fatal error through config.CancelMainCtx. *)
DriverCancels ==
  /\ Alive /\ driver = "sriov" /\ plugin = "running"
  /\ ctx' = "cancelled"
  /\ UNCHANGED <<env, pc, status, traps, plugin, cpuVars, sriovVars>>

(* WaitForCacheSync returns false when the context is cancelled. *)
SriovSync ==
  \/ /\ Step("sriov", "syncing", "synced")
     /\ mgr = "running"
     /\ UNCHANGED <<traps, ctx, plugin, cpuVars, sriovVars>>
  \/ ctx = "cancelled" /\ Fail("sriov", "syncing")

SriovNRI ==
  \/ /\ Step("sriov", "synced", "serving")
     /\ nri' = TRUE
     /\ UNCHANGED <<traps, ctx, plugin, cpuVars, callback, mgr>>
  \/ Fail("sriov", "synced")

(* <-ctx.Done(), and stop() *)
SriovDone ==
  /\ ctx = "cancelled"
  /\ Step("sriov", "serving", "stoppingNRI")
  /\ traps' = {}
  /\ UNCHANGED <<ctx, plugin, cpuVars, sriovVars>>

SriovStopNRI ==
  /\ Step("sriov", "stoppingNRI", "stopping")
  /\ nri' = FALSE
  /\ UNCHANGED <<traps, ctx, plugin, cpuVars, callback, mgr>>

(* Mutant: the driver is not shut down when the manager has failed. *)
SriovShutdown_onlyAfterSignal ==
  /\ Step("sriov", "stopping", "returning")
  /\ plugin' = IF mgr = "failed" THEN plugin ELSE "stopped"
  /\ UNCHANGED <<traps, ctx, cpuVars, sriovVars>>

(* An error of dvr.Shutdown is only logged. *)
SriovShutdown ==
  /\ Step("sriov", "stopping", "returning")
  /\ plugin' = "stopped"
  /\ UNCHANGED <<traps, ctx, cpuVars, sriovVars>>

SriovReturns ==
  /\ Return("sriov", "returning", "ok")
  /\ UNCHANGED <<traps, ctx, plugin, cpuVars, sriovVars>>

-----------------------------------------------------------------------------
(* A driver, or the NRI plugin, sees the context it was started with cancelled. *)
WindsDown ==
  /\ Alive /\ ctx = "cancelled"
  /\ \/ plugin = "running" /\ plugin' = "stopped" /\ UNCHANGED nri
     \/ nri /\ nri' = FALSE /\ UNCHANGED plugin
  /\ UNCHANGED <<env, pc, status, traps, ctx, cpuVars, callback, mgr>>

Cpu == \/ CpuInit \/ CpuSetup \/ CpuStart \/ CpuReady
       \/ CpuWakes \/ CpuShutdown \/ CpuStop \/ CpuReturns

Memory == MemoryInit \/ MemoryOneShot \/ MemoryRunDaemon \/ MemoryReturns

Sriov == \/ SriovInit \/ SriovSetup \/ SriovStart \/ SetRepublishCallback
         \/ SriovManager \/ SriovSync \/ SriovNRI
         \/ SriovDone \/ SriovStopNRI \/ SriovShutdown \/ SriovReturns

Main == Cpu \/ Memory \/ Sriov

Next ==
  \/ Main
  \/ \E s \in Signals : Signal(s)
  \/ MemoryFails
  \/ WindsDown
  \/ ListenAndServe
  \/ ManagerFails
  \/ ManagerReturns
  \/ DriverCancels

Spec == Init /\ [][Next]_vars

(* main is scheduled, and the calls it makes into the libraries return. *)
FairSpec == Spec /\ WF_vars(Main)

-----------------------------------------------------------------------------
(***************************************************************************)
(* /healthz of the cpu driver answers 200 only while the driver runs,      *)
(* although ready is never reset: not before driver.Start has returned,    *)
(* and not while or after it is stopped (main.go:122-128, 196-197,         *)
(* 209-213).  The one exception is the moment between cancel(), which the  *)
(* driver may act on at once, and server.Shutdown (main.go:203, 211).      *)
(***************************************************************************)
HealthzHonest ==
  Alive /\ http = "listening" /\ ready => plugin = "running" \/ pc = "draining"

(***************************************************************************)
(* A process ends with its driver or NRI plugin running only when a signal *)
(* it does not trap kills it, when RunDaemon of the memory driver returns  *)
(* an error, after which main only exits (memory/main.go:84-87), or when,  *)
(* in the sriov driver, a step between driver.Start and the start of the   *)
(* NRI plugin fails.  In the cpu driver, and in the sriov driver once it   *)
(* serves, no signal it traps, no failure of the manager or of the driver, *)
(* and no panic on the closed channel leaves one behind.                   *)
(***************************************************************************)
AbandonedHasCause ==
  ~Alive /\ (plugin = "running" \/ nri) =>
     \/ status = "signal"
     \/ status = "error" /\ driver = "memory"
     \/ status = "error" /\ driver = "sriov" /\ ~nri

(***************************************************************************)
(* The reconciler of the sriov driver finds the republish callback set     *)
(* from the first moment, and behind it a driver that runs, unless the     *)
(* process is on its way out (RunPlugin:175-225).                          *)
(***************************************************************************)
RepublishFindsDriver ==
  mgr = "running" => callback /\ (plugin = "running" \/ ctx = "cancelled")

(***************************************************************************)
(* A signal a driver traps, sent at any moment from then on, ends it, also *)
(* before the driver was started or the select reached, and so does, in    *)
(* the sriov driver, a failure of the manager or of the driver itself.     *)
(***************************************************************************)
CancelEnds == asked \/ ctx = "cancelled" \/ mgr = "failed" ~> ~Alive

=============================================================================
