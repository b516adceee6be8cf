------------------------ MODULE DriverLifecycleProofs -----------------------
(***************************************************************************)
(* Proofs about DriverLifecycle: what a driver's process has running at    *)
(* each point of its main, for any number of signals at any moments.       *)
(***************************************************************************)
EXTENDS DriverLifecycle, TLAPS

(* Main is between the start and the stop of its driver. *)
Holding ==
  \/ driver = "cpu" /\ pc \in {"started", "serving", "draining", "stopping"}
  \/ driver = "memory" /\ pc = "serving"
  \/ driver = "sriov" /\ pc \in {"started", "configuring", "syncing", "synced", "serving",
                                 "stoppingNRI", "stopping"}

PluginInv ==
  /\ pc \in {"init", "setup", "starting"} => plugin = "none"
  /\ Holding => plugin = "running" \/ (plugin = "stopped" /\ ctx = "cancelled")
  /\ pc \in {"closed", "returning"} => plugin = "stopped"

(* ready is set after the start, the context cancelled just before the server is shut down, *)
(* and the server gone before the stop.                                                     *)
HttpInv ==
  /\ driver = "cpu" /\ ctx = "cancelled" => pc \in {"draining", "stopping", "closed", "exited"}
  /\ ready => driver = "cpu" /\ pc \notin {"init", "setup", "starting", "started"}
  /\ driver = "cpu" /\ pc \in {"stopping", "closed"} => http \in {"failed", "closed"}

(* When the manager, the NRI plugin and the callback are there, and why main is leaving. *)
SriovInv ==
  /\ driver = "sriov" /\ pc \in {"configuring", "syncing"} => callback
  /\ mgr # "none" => /\ driver = "sriov" /\ callback
                     /\ pc \in {"syncing", "synced", "serving", "stoppingNRI", "stopping",
                                "returning", "exited"}
  /\ nri => driver = "sriov" /\ pc \in {"serving", "stoppingNRI", "exited"}
  /\ driver = "sriov" /\ pc \in {"stoppingNRI", "stopping", "returning"} => ctx = "cancelled"

(* TypeOK, in three parts: where main is, the counters, and the rest. *)
Located == \/ pc = "exited" /\ driver \in {"cpu", "memory", "sriov"}
           \/ driver = "cpu" /\ pc \in {"init", "setup", "starting", "started", "serving",
                                        "draining", "stopping", "closed"}
           \/ driver = "memory" /\ pc \in {"init", "starting", "serving"}
           \/ driver = "sriov" /\ pc \in {"init", "setup", "starting", "started", "configuring",
                                          "syncing", "synced", "serving", "stoppingNRI",
                                          "stopping", "returning"}

Typed == /\ status \in {"none", "ok", "error", "signal", "panic"}
         /\ Alive <=> status = "none"
         /\ traps \subseteq Signals
         /\ asked \in BOOLEAN
         /\ ctx \in {"live", "cancelled"}
         /\ ready \in BOOLEAN
         /\ http \in {"none", "opening", "listening", "failed", "closed"}
         /\ plugin \in {"none", "running", "stopped"}
         /\ callback \in BOOLEAN
         /\ mgr \in {"none", "running", "failed", "returned"}
         /\ nri \in BOOLEAN

Counted == sent \in 0..MaxSignals /\ signalCh \in 0..2

Inv == /\ Located /\ Typed /\ Counted /\ PluginInv /\ HttpInv /\ SriovInv
       /\ AbandonedHasCause /\ RepublishFindsDriver

(* TypeOK, in parts the provers can take one by one. *)
LEMMA TypeParts == TypeOK <=> Located /\ Typed /\ Counted
<1>1. driver \in DOMAIN Steps /\ pc \in Steps[driver] \cup {"exited"} <=> Located
  BY DEF Steps, Located
<1> QED BY <1>1 DEF TypeOK, Typed, Counted

USE SignalsAssumption DEF SignalsAssumption, Alive, Signals

(* Nothing is started at the start. *)
LEMMA InitInv == Init => Inv
<1> SUFFICES ASSUME Init PROVE Inv
  OBVIOUS
<1>1. Located
  BY DEF Init, Steps, Located
<1>2. Typed
  BY ZenonT(30) DEF Init, Typed
<1>3. Counted
  BY DEF Init, Counted
<1>4. PluginInv /\ HttpInv /\ SriovInv /\ AbandonedHasCause /\ RepublishFindsDriver
  BY DEF Init, PluginInv, Holding, HttpInv, SriovInv, AbandonedHasCause, RepublishFindsDriver
<1> QED BY <1>1, <1>2, <1>3, <1>4 DEF Inv

(* The steps of the main of the CPU driver. *)
LEMMA CpuStep == Inv /\ Cpu => Inv'
<1> SUFFICES ASSUME Inv, Cpu PROVE Inv'
  OBVIOUS
<1> USE DEF Inv, Step, Return, Fail, env, cpuVars, sriovVars
<1>1. CASE CpuInit
  <2>1. Located'
    BY <1>1 DEF CpuInit, Located
  <2>2. Typed'
    BY ZenonT(30), <1>1 DEF CpuInit, Typed
  <2>3. Counted'
    BY <1>1 DEF CpuInit, Counted
  <2>4. PluginInv' /\ HttpInv'
    BY <1>1 DEF CpuInit, Located, Typed, PluginInv, Holding, HttpInv
  <2>5. SriovInv' /\ AbandonedHasCause' /\ RepublishFindsDriver'
    BY <1>1 DEF CpuInit, Located, Typed, PluginInv, Holding, SriovInv, AbandonedHasCause,
                 RepublishFindsDriver
  <2> QED BY <2>1, <2>2, <2>3, <2>4, <2>5
<1>2. CASE CpuSetup
  <2>1. Located'
    BY <1>2 DEF CpuSetup, Located
  <2>2. Typed'
    BY ZenonT(30), <1>2 DEF CpuSetup, Typed
  <2>3. Counted'
    BY <1>2 DEF CpuSetup, Counted
  <2>4. PluginInv' /\ HttpInv'
    BY <1>2 DEF CpuSetup, Located, Typed, PluginInv, Holding, HttpInv
  <2>5. SriovInv' /\ AbandonedHasCause' /\ RepublishFindsDriver'
    BY <1>2 DEF CpuSetup, Located, Typed, PluginInv, Holding, SriovInv, AbandonedHasCause,
                 RepublishFindsDriver
  <2> QED BY <2>1, <2>2, <2>3, <2>4, <2>5
<1>3. CASE CpuStart
  <2>1. Located'
    BY <1>3 DEF CpuStart, Located
  <2>2. Typed'
    BY ZenonT(30), <1>3 DEF CpuStart, Typed
  <2>3. Counted'
    BY <1>3 DEF CpuStart, Counted
  <2>4. PluginInv' /\ HttpInv'
    <3>1. PluginInv'
      BY <1>3 DEF CpuStart, Located, Typed, PluginInv, Holding
    <3>2. HttpInv'
      BY <1>3 DEF CpuStart, Located, Typed, HttpInv
    <3> QED BY <3>1, <3>2
  <2>5. SriovInv' /\ AbandonedHasCause' /\ RepublishFindsDriver'
    BY <1>3 DEF CpuStart, Located, Typed, PluginInv, Holding, SriovInv, AbandonedHasCause,
                 RepublishFindsDriver
  <2> QED BY <2>1, <2>2, <2>3, <2>4, <2>5
<1>4. CASE CpuReady
  <2>1. Located'
    BY <1>4 DEF CpuReady, Located
  <2>2. Typed'
    BY <1>4 DEF CpuReady, Typed
  <2>3. Counted'
    BY <1>4 DEF CpuReady, Counted
  <2>4. PluginInv' /\ HttpInv'
    BY <1>4 DEF CpuReady, Located, Typed, PluginInv, Holding, HttpInv
  <2>5. SriovInv' /\ AbandonedHasCause' /\ RepublishFindsDriver'
    BY <1>4 DEF CpuReady, Located, Typed, PluginInv, Holding, SriovInv, AbandonedHasCause,
                 RepublishFindsDriver
  <2> QED BY <2>1, <2>2, <2>3, <2>4, <2>5
<1>5. CASE CpuWakes
  <2>1. Located'
    BY <1>5 DEF CpuWakes, Located
  <2>2. Typed'
    BY <1>5 DEF CpuWakes, Typed
  <2>3. Counted'
    BY <1>5 DEF CpuWakes, Counted
  <2>4. PluginInv' /\ HttpInv'
    BY <1>5 DEF CpuWakes, Located, Typed, PluginInv, Holding, HttpInv
  <2>5. SriovInv' /\ AbandonedHasCause' /\ RepublishFindsDriver'
    BY <1>5 DEF CpuWakes, Located, Typed, PluginInv, Holding, SriovInv, AbandonedHasCause,
                 RepublishFindsDriver
  <2> QED BY <2>1, <2>2, <2>3, <2>4, <2>5
<1>6. CASE CpuShutdown
  <2>1. Located'
    BY <1>6 DEF CpuShutdown, Located
  <2>2. Typed'
    BY <1>6 DEF CpuShutdown, Typed
  <2>3. Counted'
    BY <1>6 DEF CpuShutdown, Counted
  <2>4. PluginInv' /\ HttpInv'
    BY <1>6 DEF CpuShutdown, Located, Typed, PluginInv, Holding, HttpInv
  <2>5. SriovInv' /\ AbandonedHasCause' /\ RepublishFindsDriver'
    BY <1>6 DEF CpuShutdown, Located, Typed, PluginInv, Holding, SriovInv, AbandonedHasCause,
                 RepublishFindsDriver
  <2> QED BY <2>1, <2>2, <2>3, <2>4, <2>5
<1>7. CASE CpuStop
  <2>1. Located'
    BY <1>7 DEF CpuStop, Located
  <2>2. Typed'
    BY <1>7 DEF CpuStop, Typed
  <2>3. Counted'
    BY <1>7 DEF CpuStop, Counted
  <2>4. PluginInv' /\ HttpInv'
    BY <1>7 DEF CpuStop, Located, Typed, PluginInv, Holding, HttpInv
  <2>5. SriovInv' /\ AbandonedHasCause' /\ RepublishFindsDriver'
    BY <1>7 DEF CpuStop, Located, Typed, PluginInv, Holding, SriovInv, AbandonedHasCause,
                 RepublishFindsDriver
  <2> QED BY <2>1, <2>2, <2>3, <2>4, <2>5
<1>8. CASE CpuReturns
  <2>1. Located'
    BY <1>8 DEF CpuReturns, Located
  <2>2. Typed'
    BY <1>8 DEF CpuReturns, Typed
  <2>3. Counted'
    BY <1>8 DEF CpuReturns, Counted
  <2>4. PluginInv' /\ HttpInv'
    BY <1>8 DEF CpuReturns, Located, Typed, PluginInv, Holding, HttpInv
  <2>5. SriovInv' /\ AbandonedHasCause' /\ RepublishFindsDriver'
    BY <1>8 DEF CpuReturns, Located, Typed, PluginInv, Holding, SriovInv, AbandonedHasCause,
                 RepublishFindsDriver
  <2> QED BY <2>1, <2>2, <2>3, <2>4, <2>5
<1> QED BY <1>1, <1>2, <1>3, <1>4, <1>5, <1>6, <1>7, <1>8 DEF Cpu

(* The steps of the main of the memory driver. *)
LEMMA MemoryStep == Inv /\ Memory => Inv'
<1> SUFFICES ASSUME Inv, Memory PROVE Inv'
  OBVIOUS
<1> USE DEF Inv, Step, Return, Fail, env, cpuVars, sriovVars
<1>1. CASE MemoryInit
  <2>1. Located'
    BY <1>1 DEF MemoryInit, Located
  <2>2. Typed'
    BY <1>1 DEF MemoryInit, Typed
  <2>3. Counted'
    BY <1>1 DEF MemoryInit, Counted
  <2>4. PluginInv' /\ HttpInv'
    BY <1>1 DEF MemoryInit, Located, Typed, PluginInv, Holding, HttpInv
  <2>5. SriovInv' /\ AbandonedHasCause' /\ RepublishFindsDriver'
    BY <1>1 DEF MemoryInit, Located, Typed, PluginInv, Holding, SriovInv, AbandonedHasCause,
                 RepublishFindsDriver
  <2> QED BY <2>1, <2>2, <2>3, <2>4, <2>5
<1>2. CASE MemoryOneShot
  <2>1. Located'
    BY <1>2 DEF MemoryOneShot, Located
  <2>2. Typed'
    BY <1>2 DEF MemoryOneShot, Typed
  <2>3. Counted'
    BY <1>2 DEF MemoryOneShot, Counted
  <2>4. PluginInv' /\ HttpInv'
    BY <1>2 DEF MemoryOneShot, Located, Typed, PluginInv, Holding, HttpInv
  <2>5. SriovInv' /\ AbandonedHasCause' /\ RepublishFindsDriver'
    BY <1>2 DEF MemoryOneShot, Located, Typed, PluginInv, Holding, SriovInv, AbandonedHasCause,
                 RepublishFindsDriver
  <2> QED BY <2>1, <2>2, <2>3, <2>4, <2>5
<1>3. CASE MemoryRunDaemon
  <2>1. Located'
    BY <1>3 DEF MemoryRunDaemon, Located
  <2>2. Typed'
    BY ZenonT(30), <1>3 DEF MemoryRunDaemon, Typed
  <2>3. Counted'
    BY <1>3 DEF MemoryRunDaemon, Counted
  <2>4. PluginInv' /\ HttpInv'
    <3>1. PluginInv'
      BY <1>3 DEF MemoryRunDaemon, Located, Typed, PluginInv, Holding
    <3>2. HttpInv'
      BY <1>3 DEF MemoryRunDaemon, Located, Typed, HttpInv
    <3> QED BY <3>1, <3>2
  <2>5. SriovInv' /\ AbandonedHasCause' /\ RepublishFindsDriver'
    BY <1>3 DEF MemoryRunDaemon, Located, Typed, PluginInv, Holding, SriovInv, AbandonedHasCause,
                 RepublishFindsDriver
  <2> QED BY <2>1, <2>2, <2>3, <2>4, <2>5
<1>4. CASE MemoryReturns
  <2>1. Located'
    BY <1>4 DEF MemoryReturns, Located
  <2>2. Typed'
    BY <1>4 DEF MemoryReturns, Typed
  <2>3. Counted'
    BY <1>4 DEF MemoryReturns, Counted
  <2>4. PluginInv' /\ HttpInv'
    BY <1>4 DEF MemoryReturns, Located, Typed, PluginInv, Holding, HttpInv
  <2>5. SriovInv' /\ AbandonedHasCause' /\ RepublishFindsDriver'
    BY <1>4 DEF MemoryReturns, Located, Typed, PluginInv, Holding, SriovInv, AbandonedHasCause,
                 RepublishFindsDriver
  <2> QED BY <2>1, <2>2, <2>3, <2>4, <2>5
<1> QED BY <1>1, <1>2, <1>3, <1>4 DEF Memory

(* The steps of the main of the SR-IOV driver. *)
LEMMA SriovStep == Inv /\ Sriov => Inv'
<1> SUFFICES ASSUME Inv, Sriov PROVE Inv'
  OBVIOUS
<1> USE DEF Inv, Step, Return, Fail, env, cpuVars, sriovVars
<1>1. CASE SriovInit
  <2>1. Located'
    BY <1>1 DEF SriovInit, Located
  <2>2. Typed'
    BY ZenonT(30), <1>1 DEF SriovInit, Typed
  <2>3. Counted'
    BY <1>1 DEF SriovInit, Counted
  <2>4. PluginInv' /\ HttpInv'
    BY <1>1 DEF SriovInit, Located, Typed, PluginInv, Holding, HttpInv
  <2>5. SriovInv' /\ AbandonedHasCause' /\ RepublishFindsDriver'
    BY <1>1 DEF SriovInit, Located, Typed, PluginInv, Holding, SriovInv, AbandonedHasCause,
                 RepublishFindsDriver
  <2> QED BY <2>1, <2>2, <2>3, <2>4, <2>5
<1>2. CASE SriovSetup
  <2>1. Located'
    BY <1>2 DEF SriovSetup, Located
  <2>2. Typed'
    BY ZenonT(30), <1>2 DEF SriovSetup, Typed
  <2>3. Counted'
    BY <1>2 DEF SriovSetup, Counted
  <2>4. PluginInv' /\ HttpInv'
    BY <1>2 DEF SriovSetup, Located, Typed, PluginInv, Holding, HttpInv
  <2>5. SriovInv' /\ AbandonedHasCause' /\ RepublishFindsDriver'
    BY <1>2 DEF SriovSetup, Located, Typed, PluginInv, Holding, SriovInv, AbandonedHasCause,
                 RepublishFindsDriver
  <2> QED BY <2>1, <2>2, <2>3, <2>4, <2>5
<1>3. CASE SriovStart
  <2>1. Located'
    BY <1>3 DEF SriovStart, Located
  <2>2. Typed'
    BY ZenonT(30), <1>3 DEF SriovStart, Typed
  <2>3. Counted'
    BY <1>3 DEF SriovStart, Counted
  <2>4. PluginInv' /\ HttpInv'
    <3>1. PluginInv'
      BY <1>3 DEF SriovStart, Located, Typed, PluginInv, Holding
    <3>2. HttpInv'
      BY <1>3 DEF SriovStart, Located, Typed, HttpInv
    <3> QED BY <3>1, <3>2
  <2>5. SriovInv' /\ AbandonedHasCause' /\ RepublishFindsDriver'
    BY <1>3 DEF SriovStart, Located, Typed, PluginInv, Holding, SriovInv, AbandonedHasCause,
                 RepublishFindsDriver
  <2> QED BY <2>1, <2>2, <2>3, <2>4, <2>5
<1>4. CASE SetRepublishCallback
  <2>1. Located'
    BY <1>4 DEF SetRepublishCallback, Located
  <2>2. Typed'
    BY <1>4 DEF SetRepublishCallback, Typed
  <2>3. Counted'
    BY <1>4 DEF SetRepublishCallback, Counted
  <2>4. PluginInv' /\ HttpInv'
    BY <1>4 DEF SetRepublishCallback, Located, Typed, PluginInv, Holding, HttpInv
  <2>5. SriovInv' /\ AbandonedHasCause' /\ RepublishFindsDriver'
    BY <1>4 DEF SetRepublishCallback, Located, Typed, PluginInv, Holding, SriovInv, AbandonedHasCause,
                 RepublishFindsDriver
  <2> QED BY <2>1, <2>2, <2>3, <2>4, <2>5
<1>5. CASE SriovManager
  <2>1. Located'
    BY <1>5 DEF SriovManager, Located
  <2>2. Typed'
    BY ZenonT(30), <1>5 DEF SriovManager, Typed
  <2>3. Counted'
    BY <1>5 DEF SriovManager, Counted
  <2>4. PluginInv' /\ HttpInv'
    BY <1>5 DEF SriovManager, Located, Typed, PluginInv, Holding, HttpInv
  <2>5. SriovInv' /\ AbandonedHasCause' /\ RepublishFindsDriver'
    BY <1>5 DEF SriovManager, Located, Typed, PluginInv, Holding, SriovInv, AbandonedHasCause,
                 RepublishFindsDriver
  <2> QED BY <2>1, <2>2, <2>3, <2>4, <2>5
<1>6. CASE SriovSync
  <2>1. Located'
    BY <1>6 DEF SriovSync, Located
  <2>2. Typed'
    BY ZenonT(30), <1>6 DEF SriovSync, Typed
  <2>3. Counted'
    BY <1>6 DEF SriovSync, Counted
  <2>4. PluginInv' /\ HttpInv'
    BY <1>6 DEF SriovSync, Located, Typed, PluginInv, Holding, HttpInv
  <2>5. SriovInv' /\ AbandonedHasCause' /\ RepublishFindsDriver'
    BY <1>6 DEF SriovSync, Located, Typed, PluginInv, Holding, SriovInv, AbandonedHasCause,
                 RepublishFindsDriver
  <2> QED BY <2>1, <2>2, <2>3, <2>4, <2>5
<1>7. CASE SriovNRI
  <2>1. Located'
    BY <1>7 DEF SriovNRI, Located
  <2>2. Typed'
    BY ZenonT(30), <1>7 DEF SriovNRI, Typed
  <2>3. Counted'
    BY <1>7 DEF SriovNRI, Counted
  <2>4. PluginInv' /\ HttpInv'
    BY <1>7 DEF SriovNRI, Located, Typed, PluginInv, Holding, HttpInv
  <2>5. SriovInv' /\ AbandonedHasCause' /\ RepublishFindsDriver'
    BY <1>7 DEF SriovNRI, Located, Typed, PluginInv, Holding, SriovInv, AbandonedHasCause,
                 RepublishFindsDriver
  <2> QED BY <2>1, <2>2, <2>3, <2>4, <2>5
<1>8. CASE SriovDone
  <2>1. Located'
    BY <1>8 DEF SriovDone, Located
  <2>2. Typed'
    BY <1>8 DEF SriovDone, Typed
  <2>3. Counted'
    BY <1>8 DEF SriovDone, Counted
  <2>4. PluginInv' /\ HttpInv'
    BY <1>8 DEF SriovDone, Located, Typed, PluginInv, Holding, HttpInv
  <2>5. SriovInv' /\ AbandonedHasCause' /\ RepublishFindsDriver'
    BY <1>8 DEF SriovDone, Located, Typed, PluginInv, Holding, SriovInv, AbandonedHasCause,
                 RepublishFindsDriver
  <2> QED BY <2>1, <2>2, <2>3, <2>4, <2>5
<1>9. CASE SriovStopNRI
  <2>1. Located'
    BY <1>9 DEF SriovStopNRI, Located
  <2>2. Typed'
    BY ZenonT(30), <1>9 DEF SriovStopNRI, Typed
  <2>3. Counted'
    BY <1>9 DEF SriovStopNRI, Counted
  <2>4. PluginInv' /\ HttpInv'
    BY <1>9 DEF SriovStopNRI, Located, Typed, PluginInv, Holding, HttpInv
  <2>5. SriovInv' /\ AbandonedHasCause' /\ RepublishFindsDriver'
    BY <1>9 DEF SriovStopNRI, Located, Typed, PluginInv, Holding, SriovInv, AbandonedHasCause,
                 RepublishFindsDriver
  <2> QED BY <2>1, <2>2, <2>3, <2>4, <2>5
<1>10. CASE SriovShutdown
  <2>1. Located'
    BY <1>10 DEF SriovShutdown, Located
  <2>2. Typed'
    BY <1>10 DEF SriovShutdown, Typed
  <2>3. Counted'
    BY <1>10 DEF SriovShutdown, Counted
  <2>4. PluginInv' /\ HttpInv'
    BY <1>10 DEF SriovShutdown, Located, Typed, PluginInv, Holding, HttpInv
  <2>5. SriovInv' /\ AbandonedHasCause' /\ RepublishFindsDriver'
    BY <1>10 DEF SriovShutdown, Located, Typed, PluginInv, Holding, SriovInv, AbandonedHasCause,
                 RepublishFindsDriver
  <2> QED BY <2>1, <2>2, <2>3, <2>4, <2>5
<1>11. CASE SriovReturns
  <2>1. Located'
    BY <1>11 DEF SriovReturns, Located
  <2>2. Typed'
    BY <1>11 DEF SriovReturns, Typed
  <2>3. Counted'
    BY <1>11 DEF SriovReturns, Counted
  <2>4. PluginInv' /\ HttpInv'
    BY <1>11 DEF SriovReturns, Located, Typed, PluginInv, Holding, HttpInv
  <2>5. SriovInv' /\ AbandonedHasCause' /\ RepublishFindsDriver'
    BY <1>11 DEF SriovReturns, Located, Typed, PluginInv, Holding, SriovInv, AbandonedHasCause,
                 RepublishFindsDriver
  <2> QED BY <2>1, <2>2, <2>3, <2>4, <2>5
<1> QED BY SMTT(30), <1>1, <1>2, <1>3, <1>4, <1>5, <1>6, <1>7, <1>8, <1>9, <1>10, <1>11 DEF Sriov

(* Signals, the driver, and what the goroutines do beside main. *)
Beside == \/ \E s \in Signals : Signal(s)
          \/ MemoryFails \/ WindsDown
          \/ ListenAndServe \/ ManagerFails \/ ManagerReturns \/ DriverCancels

(* The steps beside main: signals, the driver, the HTTP server, the manager. *)
LEMMA BesideStep == Inv /\ (Beside \/ UNCHANGED vars) => Inv'
<1> SUFFICES ASSUME Inv, Beside \/ UNCHANGED vars PROVE Inv'
  OBVIOUS
<1> USE DEF Inv, env, cpuVars, sriovVars
<1>1. ASSUME NEW s \in Signals, Signal(s) PROVE Inv'
  <2>1. Located'
    BY <1>1 DEF Signal, Trapped, Located
  <2>2. Typed'
    BY ZenonT(30), <1>1 DEF Signal, Trapped, Typed
  <2>3. Counted'
    BY <1>1 DEF Signal, Trapped, Counted
  <2>4. PluginInv' /\ HttpInv'
    <3>1. PluginInv'
      BY <1>1 DEF Signal, Trapped, Located, Typed, PluginInv, Holding
    <3>2. HttpInv'
      BY <1>1 DEF Signal, Trapped, Located, Typed, HttpInv
    <3> QED BY <3>1, <3>2
  <2>5. SriovInv' /\ AbandonedHasCause' /\ RepublishFindsDriver'
    BY <1>1 DEF Signal, Trapped, Located, Typed, PluginInv, Holding, SriovInv, AbandonedHasCause,
                 RepublishFindsDriver
  <2> QED BY <2>1, <2>2, <2>3, <2>4, <2>5
<1>2. CASE ListenAndServe
  <2>1. Located'
    BY <1>2 DEF ListenAndServe, Located
  <2>2. Typed'
    BY <1>2 DEF ListenAndServe, Typed
  <2>3. Counted'
    BY <1>2 DEF ListenAndServe, Counted
  <2>4. PluginInv' /\ HttpInv'
    <3>1. PluginInv'
      BY <1>2 DEF ListenAndServe, Located, Typed, PluginInv, Holding
    <3>2. HttpInv'
      BY <1>2 DEF ListenAndServe, Located, Typed, HttpInv
    <3> QED BY <3>1, <3>2
  <2>5. SriovInv' /\ AbandonedHasCause' /\ RepublishFindsDriver'
    BY <1>2 DEF ListenAndServe, Located, Typed, PluginInv, Holding, SriovInv, AbandonedHasCause,
                 RepublishFindsDriver
  <2> QED BY <2>1, <2>2, <2>3, <2>4, <2>5
<1>3. CASE ManagerFails
  <2>1. Located'
    BY <1>3 DEF ManagerFails, Located
  <2>2. Typed'
    BY <1>3 DEF ManagerFails, Typed
  <2>3. Counted'
    BY <1>3 DEF ManagerFails, Counted
  <2>4. PluginInv' /\ HttpInv'
    BY <1>3 DEF ManagerFails, Located, Typed, PluginInv, Holding, HttpInv, SriovInv
  <2>5. SriovInv' /\ AbandonedHasCause' /\ RepublishFindsDriver'
    BY <1>3 DEF ManagerFails, Located, Typed, PluginInv, Holding, SriovInv, AbandonedHasCause,
                 RepublishFindsDriver
  <2> QED BY <2>1, <2>2, <2>3, <2>4, <2>5
<1>4. CASE ManagerReturns
  <2>1. Located'
    BY <1>4 DEF ManagerReturns, Located
  <2>2. Typed'
    BY <1>4 DEF ManagerReturns, Typed
  <2>3. Counted'
    BY <1>4 DEF ManagerReturns, Counted
  <2>4. PluginInv' /\ HttpInv'
    BY <1>4 DEF ManagerReturns, Located, Typed, PluginInv, Holding, HttpInv
  <2>5. SriovInv' /\ AbandonedHasCause' /\ RepublishFindsDriver'
    BY <1>4 DEF ManagerReturns, Located, Typed, PluginInv, Holding, SriovInv, AbandonedHasCause,
                 RepublishFindsDriver
  <2> QED BY <2>1, <2>2, <2>3, <2>4, <2>5
<1>5. CASE DriverCancels
  <2>1. Located'
    BY <1>5 DEF DriverCancels, Located
  <2>2. Typed'
    BY <1>5 DEF DriverCancels, Typed
  <2>3. Counted'
    BY <1>5 DEF DriverCancels, Counted
  <2>4. PluginInv' /\ HttpInv'
    BY <1>5 DEF DriverCancels, Located, Typed, PluginInv, Holding, HttpInv
  <2>5. SriovInv' /\ AbandonedHasCause' /\ RepublishFindsDriver'
    BY <1>5 DEF DriverCancels, Located, Typed, PluginInv, Holding, SriovInv, AbandonedHasCause,
                 RepublishFindsDriver
  <2> QED BY <2>1, <2>2, <2>3, <2>4, <2>5
<1>6. CASE UNCHANGED vars
  <2>1. Located'
    BY <1>6 DEF vars, Located
  <2>2. Typed'
    BY <1>6 DEF vars, Typed
  <2>3. Counted'
    BY <1>6 DEF vars, Counted
  <2>4. PluginInv' /\ HttpInv'
    BY <1>6 DEF vars, Located, Typed, PluginInv, Holding, HttpInv
  <2>5. SriovInv' /\ AbandonedHasCause' /\ RepublishFindsDriver'
    BY <1>6 DEF vars, Located, Typed, PluginInv, Holding, SriovInv, AbandonedHasCause,
                 RepublishFindsDriver
  <2> QED BY <2>1, <2>2, <2>3, <2>4, <2>5
<1>7. CASE MemoryFails
  <2>1. Located'
    BY <1>7 DEF MemoryFails, Return, Located
  <2>2. Typed'
    BY <1>7 DEF MemoryFails, Return, Typed
  <2>3. Counted'
    BY <1>7 DEF MemoryFails, Return, Counted
  <2>4. PluginInv' /\ HttpInv'
    BY <1>7 DEF MemoryFails, Return, Located, Typed, PluginInv, Holding, HttpInv
  <2>5. SriovInv' /\ AbandonedHasCause' /\ RepublishFindsDriver'
    BY <1>7 DEF MemoryFails, Return, Located, Typed, PluginInv, Holding, SriovInv, AbandonedHasCause,
                 RepublishFindsDriver
  <2> QED BY <2>1, <2>2, <2>3, <2>4, <2>5
<1>8. CASE WindsDown
  <2>1. Located'
    BY <1>8 DEF WindsDown, Located
  <2>2. Typed'
    BY ZenonT(30), <1>8 DEF WindsDown, Typed
  <2>3. Counted'
    BY <1>8 DEF WindsDown, Counted
  <2>4. PluginInv' /\ HttpInv'
    BY <1>8 DEF WindsDown, Located, Typed, PluginInv, Holding, HttpInv
  <2>5. SriovInv' /\ AbandonedHasCause' /\ RepublishFindsDriver'
    BY <1>8 DEF WindsDown, Located, Typed, PluginInv, Holding, SriovInv, AbandonedHasCause,
                 RepublishFindsDriver
  <2> QED BY <2>1, <2>2, <2>3, <2>4, <2>5
<1> QED BY <1>1, <1>2, <1>3, <1>4, <1>5, <1>6, <1>7, <1>8 DEF Beside

(* The invariant holds of every reachable state. *)
THEOREM Invariance == Spec => []Inv
<1>1. Inv /\ [Next]_vars => Inv'
  BY CpuStep, MemoryStep, SriovStep, BesideStep DEF Next, Main, Beside
<1> QED BY InitInv, <1>1, PTL DEF Spec

(* The variables keep their types; the channel of the cpu driver never     *)
(* holds more than its two signals.                                        *)
THEOREM TypeCorrect == Spec => []TypeOK
<1>1. Inv => TypeOK
  BY TypeParts DEF Inv
<1> QED BY <1>1, Invariance, PTL

(***************************************************************************)
(* /healthz of the cpu driver reports a driver that runs, although ready   *)
(* is never reset: main.go:196-213 closes the server before the stop, and  *)
(* just after the cancel.                                                  *)
(***************************************************************************)
THEOREM HealthReported == Spec => []HealthzHonest
<1>1. Inv => HealthzHonest
  BY DEF Inv, Located, Typed, PluginInv, HttpInv, Holding, HealthzHonest
<1> QED BY <1>1, Invariance, PTL

(***************************************************************************)
(* A process that ends leaves its driver or NRI plugin running only for    *)
(* one of the reasons AbandonedHasCause lists.                             *)
(***************************************************************************)
THEOREM NothingAbandoned == Spec => []AbandonedHasCause
BY Invariance, PTL DEF Inv

(***************************************************************************)
(* The reconciler that RunPlugin starts at sriov/main.go:219 has its       *)
(* callback, and a driver behind it until the process is on its way out.   *)
(***************************************************************************)
THEOREM CallbackFindsDriver == Spec => []RepublishFindsDriver
BY Invariance, PTL DEF Inv

=============================================================================
