------------------------- MODULE WorkerSetupProofs --------------------------
(***************************************************************************)
(* The safety properties of RuntimeConfig, for any number of nodes and of  *)
(* runs of the script on each of them, and for any configuration; and      *)
(* those of WorkerSetup, for any number of workers.                        *)
(*                                                                         *)
(* The argument: process is idempotent, so that outside the window of a    *)
(* truncated file every run that reads it comes to the same document, and  *)
(* it does not matter which of them writes last.  The setup Job does       *)
(* nothing to the nodes but run the script, so that what holds of any runs *)
(* of it holds for the Job; and the spread constraint gives every worker   *)
(* its pod.                                                                *)
(***************************************************************************)
EXTENDS WorkerSetup, FiniteSetTheorems, TLAPS

-----------------------------------------------------------------------------
(* process *)

(* What process makes of a configuration is a configuration. *)
LEMMA ProcessConf == ASSUME NEW c \in Confs PROVE process(c) \in Confs
<1>1. CASE "plugins" \notin c
  BY <1>1 DEF process
<1>2. CASE "plugins" \in c /\ "cri" \notin c
  BY <1>2 DEF process, processNRI, Confs, Settings, NRIKeys, CRIKeys
<1>3. CASE "plugins" \in c /\ "cri" \in c
  BY <1>3 DEF process, processNRI, processCDI, processHugepages, Confs, Settings, NRIKeys, CRIKeys
<1> QED
  BY <1>1, <1>2, <1>3

(* A second run of the tool changes nothing. *)
LEMMA ProcessIdempotent == ASSUME NEW c \in Confs PROVE process(process(c)) = process(c)
<1>1. CASE "plugins" \notin c
  BY <1>1 DEF process
<1>2. CASE "plugins" \in c /\ "cri" \notin c
  <2>1. process(c) = (c \ {"oldNRI"}) \cup {"NRI"}
    BY <1>2 DEF process, processNRI
  <2>2. "plugins" \in process(c) /\ "cri" \notin process(c)
    BY <1>2, <2>1
  <2>3. process(process(c)) = (process(c) \ {"oldNRI"}) \cup {"NRI"}
    BY <2>2 DEF process, processNRI
  <2> QED
    BY <2>1, <2>3
<1>3. CASE "plugins" \in c /\ "cri" \in c
  <2> DEFINE f(d) == (((((d \ {"oldNRI"}) \cup {"NRI"}) \ {"oldCDI"}) \cup {"CDI"})
                        \ {"oldHugepages"}) \cup {"hugepages"}
  <2>1. process(c) = f(c)
    BY <1>3 DEF process, processNRI, processCDI, processHugepages
  <2>2. "plugins" \in process(c) /\ "cri" \in process(c)
    BY <1>3, <2>1
  <2>3. process(process(c)) = f(process(c))
    BY <2>2 DEF process, processNRI, processCDI, processHugepages
  <2> QED
    BY <2>1, <2>3
<1> QED
  BY <1>1, <1>2, <1>3

(* The tool does what it is for, and nothing else. *)
LEMMA ProcessConfigures == ASSUME NEW c \in Confs PROVE Configured(c, process(c))
<1>1. CASE "plugins" \notin c
  <2>1. c \cap NRIKeys = {} /\ "cri" \notin c /\ c \cap CRIKeys = {}
    BY <1>1 DEF Confs
  <2> QED
    BY <1>1, <2>1 DEF process, Configured
<1>2. CASE "plugins" \in c /\ "cri" \notin c
  <2>1. c \cap CRIKeys = {}
    BY <1>2 DEF Confs
  <2> QED
    BY <1>2, <2>1 DEF process, processNRI, Configured, NRIKeys, CRIKeys
<1>3. CASE "plugins" \in c /\ "cri" \in c
  BY <1>3 DEF process, processNRI, processCDI, processHugepages, Configured, NRIKeys, CRIKeys
<1> QED
  BY <1>1, <1>2, <1>3

(* What is not Unparsable and not Missing is a configuration. *)
LEMMA ParsedIsConf == ASSUME NEW f \in Files, Parses(f) PROVE f \in Confs
  BY DEF Files, Parses

-----------------------------------------------------------------------------
(* The inductive invariant *)

(* Runs that have truncated the file. *)
Touched(n) == {i \in On(n) : pc[i] \in {"truncated", "written", "restarted", "failed"}}

Done(n)  == Parses(orig[n]) /\ file[n] = process(orig[n])
Empty(n) == file[n] = {} /\ Truncated(n) # {}

(* What a run is about to write is the original, configured once. *)
BufInv == \A i \in Installers :
  pc[i] \in {"processed", "truncated"} /\ ~hurt[on[i]] =>
     Parses(orig[on[i]]) /\ buf[i] = process(orig[on[i]])

(* The file is the original, the original configured once, or truncated. *)
FileInv == \A n \in Nodes : ~hurt[n] => file[n] = orig[n] \/ Done(n) \/ Empty(n)

(* Once it was truncated it is not the original any more. *)
TouchInv == \A n \in Nodes :
  ~hurt[n] /\ Touched(n) # {} => Parses(orig[n]) /\ (Done(n) \/ Empty(n))

(* A containerd restarted on anything else will be restarted again. *)
LoadInv == \A n \in Nodes :
  ~hurt[n] /\ (\E i \in On(n) : pc[i] = "restarted") =>
     loaded[n] = process(orig[n]) \/ Unfinished(n) # {}

Inv == TypeOK /\ BufInv /\ FileInv /\ TouchInv /\ LoadInv

(* The node of a run that was started, and what is on it. *)
LEMMA OnNode ==
  ASSUME TypeOK, NEW i \in Installers, pc[i] # "idle"
  PROVE  on[i] \in Nodes /\ i \in On(on[i]) /\ file[on[i]] \in Files /\ orig[on[i]] \in Files
<1>1. on[i] \in Nodes
  BY DEF TypeOK
<1> QED
  BY <1>1, OriginalsAssumption DEF TypeOK, On

LEMMA LoadType == ASSUME NEW f \in Files PROVE Load(f) \in {Down} \cup Confs
<1>1. {} \in Confs
  BY DEF Confs
<1> QED
  BY <1>1 DEF Load, Parses, Files

LEMMA OverlayType == ASSUME NEW b \in Confs, NEW f \in Files PROVE Overlay(b, f) \subseteq Files
  BY DEF Overlay, Torn, Files

LEMMA TornType == ASSUME NEW b, NEW f PROVE Torn(b, f) \subseteq Files
  BY DEF Torn, Files

LEMMA InitInv == Init => Inv
<1> SUFFICES ASSUME Init PROVE Inv
  OBVIOUS
<1>1. TypeOK
  <2>1. {} \in Confs
    BY DEF Confs
  <2>2. loaded \in [Nodes -> {Down} \cup Confs]
    BY LoadType, OriginalsAssumption DEF Init
  <2> QED
    BY <2>1, <2>2, OriginalsAssumption DEF Init, TypeOK
<1>2. BufInv /\ FileInv
  BY DEF Init, BufInv, FileInv
<1>3. TouchInv /\ LoadInv
  BY DEF Init, TouchInv, LoadInv, Touched, On
<1> QED
  BY <1>1, <1>2, <1>3 DEF Inv

(* A step of run i from one place to another. *)
LEMMA StepEffect ==
  ASSUME TypeOK, NEW i \in Installers, NEW from, NEW to, Step(i, from, to)
  PROVE  /\ pc[i] = from /\ pc'[i] = to
         /\ \A j \in Installers \ {i} : pc'[j] = pc[j]
  BY DEF TypeOK, Step

LEMMA TypeStep == TypeOK /\ [Next]_vars => TypeOK'
<1> SUFFICES ASSUME TypeOK, [Next]_vars PROVE TypeOK'
  OBVIOUS
<1>0. {} \in Confs
  BY DEF Confs
<1>1. ASSUME NEW i \in Installers, NEW n \in Nodes, Start(i, n) PROVE TypeOK'
  BY <1>1, NodesAssumption DEF TypeOK, Start, Step, Busy, Over
<1>2. ASSUME NEW i \in Installers, Read(i) PROVE TypeOK'
  <2>1. pc[i] = "started"
    BY <1>2 DEF Read, Step
  <2>2. process(file[on[i]]) \in Confs
    BY <1>2, <2>1, OnNode, ParsedIsConf, ProcessConf DEF Read
  <2> QED
    BY <1>2, <2>1, <2>2 DEF TypeOK, Read, Step, Busy, Over
<1>3. ASSUME NEW i \in Installers, ToolFails(i) PROVE TypeOK'
  BY <1>0, <1>3 DEF TypeOK, ToolFails, Step, Busy, Over
<1>4. ASSUME NEW i \in Installers, Truncate(i) PROVE TypeOK'
  BY <1>0, <1>4 DEF TypeOK, Truncate, Step, Busy, Over, Files
<1>5. ASSUME NEW i \in Installers, Write(i) PROVE TypeOK'
  <2>1. pc[i] = "truncated"
    BY <1>5 DEF Write, Step
  <2>2. PICK f \in Files : file' = [file EXCEPT ![on[i]] = f]
    BY ZenonT(30), <1>5, <2>1, OnNode, OverlayType DEF Write, TypeOK
  <2> QED
    BY <1>0, <1>5, <2>1, <2>2 DEF TypeOK, Write, Step, Busy, Over
<1>6. ASSUME NEW i \in Installers, WriteFails(i) PROVE TypeOK'
  <2>1. PICK f \in Files : file' = [file EXCEPT ![on[i]] = f]
    BY ZenonT(30), <1>6, TornType DEF WriteFails
  <2> QED
    BY <1>0, <1>6, <2>1 DEF TypeOK, WriteFails, Step, Busy, Over
<1>7. ASSUME NEW i \in Installers, Restart(i) PROVE TypeOK'
  <2>1. pc[i] = "written"
    BY <1>7 DEF Restart, Step
  <2>2. Load(file[on[i]]) \in {Down} \cup Confs
    BY <2>1, OnNode, LoadType
  <2> QED
    BY <1>7, <2>1, <2>2 DEF TypeOK, Restart, Step, Busy, Over
<1>8. ASSUME NEW i \in Installers, RestartFails(i) PROVE TypeOK'
  BY <1>8 DEF TypeOK, RestartFails, Step, Busy, Over
<1>9. ASSUME NEW i \in Installers, Kill(i) PROVE TypeOK'
  BY <1>0, <1>9 DEF TypeOK, Kill, Busy, Over
<1>10. CASE UNCHANGED vars
  BY <1>10 DEF vars, TypeOK
<1> QED
  BY <1>1, <1>2, <1>3, <1>4, <1>5, <1>6, <1>7, <1>8, <1>9, <1>10 DEF Next, Script

(* The invariant, but for the types, at one node and for one run. *)
BufInvAt(i) == pc[i] \in {"processed", "truncated"} /\ ~hurt[on[i]] =>
                 Parses(orig[on[i]]) /\ buf[i] = process(orig[on[i]])
NodeInvAt(n) ==
  ~hurt[n] =>
     /\ file[n] = orig[n] \/ Done(n) \/ Empty(n)
     /\ Touched(n) # {} => Parses(orig[n]) /\ (Done(n) \/ Empty(n))
     /\ (\E i \in On(n) : pc[i] = "restarted") =>
            loaded[n] = process(orig[n]) \/ Unfinished(n) # {}

LEMMA InvAt == Inv <=> /\ TypeOK
                       /\ \A i \in Installers : BufInvAt(i)
                       /\ \A n \in Nodes : NodeInvAt(n)
  BY DEF Inv, BufInv, FileInv, TouchInv, LoadInv, BufInvAt, NodeInvAt

(* A step of a run on another node leaves a node alone. *)
LEMMA ElsewhereStep ==
  ASSUME TypeOK, NEW i \in Installers, NEW n \in Nodes, on[i] # n, NodeInvAt(n), on' = on,
         \A j \in Installers \ {i} : pc'[j] = pc[j],
         orig' = orig, file'[n] = file[n], loaded'[n] = loaded[n], hurt[n] => hurt'[n]
  PROVE  NodeInvAt(n)'
<1>1. On(n)' = On(n) /\ \A j \in On(n) : pc'[j] = pc[j]
  BY DEF On
<1>2. Truncated(n)' = Truncated(n) /\ Touched(n)' = Touched(n) /\ Unfinished(n)' = Unfinished(n)
  BY <1>1 DEF Truncated, Touched, Unfinished
<1> QED
  BY <1>1, <1>2 DEF NodeInvAt, Done, Empty

(* A step of one run leaves what another one has read alone. *)
LEMMA OtherRunStep ==
  ASSUME NEW j \in Installers, BufInvAt(j), on'[j] = on[j], pc'[j] = pc[j], buf'[j] = buf[j],
         orig' = orig, hurt[on[j]] => hurt'[on[j]]
  PROVE  BufInvAt(j)'
  BY DEF BufInvAt

(* A step that neither truncates nor writes the file, nor restarts containerd. *)
LEMMA QuietStep ==
  ASSUME TypeOK, NEW i \in Installers, NEW n \in Nodes, NodeInvAt(n),
         \A j \in Installers \ {i} : pc'[j] = pc[j] /\ on'[j] = on[j],
         on[i] = n => on'[i] = n,
         pc[i] # "truncated", pc'[i] \notin {"truncated", "written", "restarted", "failed"},
         pc[i] \in {"written", "failed", "killed"} => pc'[i] = "killed",
         orig' = orig, file' = file, loaded' = loaded, hurt[n] => hurt'[n]
  PROVE  NodeInvAt(n)'
<1>1. Truncated(n)' = Truncated(n)
  BY DEF On, Truncated
<1>2. Touched(n)' \subseteq Touched(n)
  BY DEF On, Touched
<1>3. Unfinished(n) \subseteq Unfinished(n)'
  BY DEF On, Unfinished
<1>4. (\E j \in On(n)' : pc'[j] = "restarted") => \E j \in On(n) : pc[j] = "restarted"
  BY DEF On
<1> QED
  BY SMTT(30), <1>1, <1>2, <1>3, <1>4 DEF NodeInvAt, Done, Empty

LEMMA InvStep == Inv /\ [Next]_vars => Inv'
<1> SUFFICES ASSUME Inv, [Next]_vars PROVE Inv'
  OBVIOUS
<1>0. /\ TypeOK
      /\ \A i \in Installers : BufInvAt(i)
      /\ \A n \in Nodes : NodeInvAt(n)
  BY InvAt
<1>a. TypeOK'
  BY <1>0, TypeStep
<1> SUFFICES (\A j \in Installers : BufInvAt(j)') /\ (\A n \in Nodes : NodeInvAt(n)')
  BY SMTT(30), <1>a DEF Inv, BufInv, FileInv, TouchInv, LoadInv, BufInvAt, NodeInvAt
<1> DEFINE Kept == (\A j \in Installers : BufInvAt(j)') /\ (\A n \in Nodes : NodeInvAt(n)')
<1>1. ASSUME NEW i \in Installers, NEW m \in Nodes, Start(i, m) PROVE Kept
  <2>1. /\ pc[i] = "idle" /\ pc'[i] = "started" /\ on[i] = NoNode /\ on'[i] = m
        /\ \A j \in Installers \ {i} : pc'[j] = pc[j] /\ on'[j] = on[j]
        /\ orig' = orig /\ file' = file /\ loaded' = loaded /\ buf' = buf /\ hurt' = hurt
    BY <1>0, <1>1 DEF Start, Step, TypeOK
  <2>2. ASSUME NEW j \in Installers PROVE BufInvAt(j)'
    <3>1. CASE j = i
      BY <2>1, <3>1 DEF BufInvAt
    <3> QED
      BY SMTT(30), <1>0, <2>1, <3>1, OtherRunStep
  <2>3. ASSUME NEW n \in Nodes PROVE NodeInvAt(n)'
    BY <1>0, <2>1, NodesAssumption, QuietStep
  <2> QED
    BY <2>2, <2>3
<1>2. ASSUME NEW i \in Installers, Read(i) PROVE Kept
  <2>1. /\ pc[i] = "started" /\ pc'[i] = "processed" /\ on' = on
        /\ \A j \in Installers \ {i} : pc'[j] = pc[j] /\ buf'[j] = buf[j]
        /\ orig' = orig /\ file' = file /\ loaded' = loaded
    BY <1>0, <1>2 DEF Read, Step, TypeOK
  <2>2. on[i] \in Nodes /\ file[on[i]] \in Files /\ orig[on[i]] \in Files
    BY <1>0, <2>1, OnNode
  <2>3. /\ \A n \in Nodes : hurt[n] => hurt'[n]
        /\ ~hurt'[on[i]] => ~hurt[on[i]] /\ Truncated(on[i]) = {}
        /\ buf'[i] = process(file[on[i]]) /\ Parses(file[on[i]])
    BY ZenonT(30), <1>0, <1>2, <2>2 DEF Read, TypeOK
  <2>4. BufInvAt(i)'
    <3> SUFFICES ASSUME ~hurt'[on[i]]
                 PROVE  Parses(orig[on[i]]) /\ buf'[i] = process(orig[on[i]])
      BY <2>1 DEF BufInvAt
    <3>1. file[on[i]] = orig[on[i]] \/ Done(on[i])
      BY <1>0, <2>2, <2>3 DEF NodeInvAt, Empty
    <3>2. CASE file[on[i]] = orig[on[i]]
      BY <2>3, <3>2
    <3>3. CASE Done(on[i])
      <4>1. orig[on[i]] \in Confs
        BY <2>2, <3>3, ParsedIsConf DEF Done
      <4> QED
        BY SMTT(30), <2>3, <3>3, <4>1, ProcessIdempotent DEF Done
    <3> QED
      BY <3>1, <3>2, <3>3
  <2>5. ASSUME NEW j \in Installers PROVE BufInvAt(j)'
    <3>1. CASE j = i
      BY <2>4, <3>1
    <3>2. CASE j # i /\ pc[j] = "idle"
      BY <2>1, <3>2 DEF BufInvAt
    <3>3. CASE j # i /\ pc[j] # "idle"
      <4>1. on[j] \in Nodes
        BY <1>0, <3>3, OnNode
      <4>2. on'[j] = on[j] /\ pc'[j] = pc[j] /\ buf'[j] = buf[j]
        BY <2>1, <3>3
      <4> QED
        BY SMTT(30), <1>0, <2>1, <2>3, <4>1, <4>2, OtherRunStep
    <3> QED
      BY <3>1, <3>2, <3>3
  <2>6. ASSUME NEW n \in Nodes PROVE NodeInvAt(n)'
    BY <1>0, <2>1, <2>3, QuietStep
  <2> QED
    BY <2>5, <2>6
<1>3. ASSUME NEW i \in Installers, ToolFails(i) PROVE Kept
  <2>1. /\ pc[i] \in {"started", "processed"} /\ pc'[i] = "skipped" /\ on' = on
        /\ \A j \in Installers \ {i} : pc'[j] = pc[j] /\ buf'[j] = buf[j]
        /\ orig' = orig /\ file' = file /\ loaded' = loaded /\ hurt' = hurt
    BY <1>0, <1>3 DEF ToolFails, Step, TypeOK
  <2>2. ASSUME NEW j \in Installers PROVE BufInvAt(j)'
    <3>1. CASE j = i
      BY <2>1, <3>1 DEF BufInvAt
    <3> QED
      BY <1>0, <2>1, <3>1, OtherRunStep
  <2>3. ASSUME NEW n \in Nodes PROVE NodeInvAt(n)'
    BY <1>0, <2>1, QuietStep
  <2> QED
    BY <2>2, <2>3
<1>4. ASSUME NEW i \in Installers, Truncate(i) PROVE Kept
  <2>1. /\ pc[i] = "processed" /\ pc'[i] = "truncated" /\ on' = on
        /\ \A j \in Installers \ {i} : pc'[j] = pc[j]
        /\ orig' = orig /\ loaded' = loaded /\ buf' = buf /\ hurt' = hurt
    BY <1>0, <1>4 DEF Truncate, Step, TypeOK
  <2>2. on[i] \in Nodes
    BY <1>0, <2>1, OnNode
  <2>3. file'[on[i]] = {} /\ \A n \in Nodes \ {on[i]} : file'[n] = file[n]
    BY <1>0, <1>4, <2>2 DEF Truncate, TypeOK
  <2>4. ASSUME NEW j \in Installers PROVE BufInvAt(j)'
    <3>1. CASE j = i
      BY <1>0, <2>1, <3>1 DEF BufInvAt
    <3> QED
      BY <1>0, <2>1, <3>1, OtherRunStep
  <2>5. ASSUME NEW n \in Nodes, on[i] = n PROVE NodeInvAt(n)'
    <3>1. i \in Truncated(n)' /\ i \in Unfinished(n)'
      BY <2>5, <2>1 DEF Truncated, Unfinished, On
    <3>2. ~hurt[n] => Parses(orig[n])
      BY SMTT(30), <2>5, <1>0, <2>1 DEF BufInvAt
    <3> QED
      BY <2>5, <2>1, <2>3, <3>1, <3>2 DEF NodeInvAt, Empty
  <2>6. ASSUME NEW n \in Nodes, on[i] # n PROVE NodeInvAt(n)'
    BY <1>0, <2>1, <2>3, <2>6, ElsewhereStep
  <2> QED
    BY <2>4, <2>5, <2>6
<1>5. ASSUME NEW i \in Installers, Write(i) PROVE Kept
  <2>1. /\ pc[i] = "truncated" /\ pc'[i] = "written" /\ on' = on
        /\ \A j \in Installers \ {i} : pc'[j] = pc[j] /\ buf'[j] = buf[j]
        /\ orig' = orig /\ loaded' = loaded /\ hurt' = hurt
    BY <1>0, <1>5 DEF Write, Step, TypeOK
  <2>2. on[i] \in Nodes
    BY <1>0, <2>1, OnNode
  <2>3. PICK f \in Overlay(buf[i], file[on[i]]) : file' = [file EXCEPT ![on[i]] = f]
    BY ZenonT(30), <1>5 DEF Write
  <2>4. file'[on[i]] = f /\ \A n \in Nodes \ {on[i]} : file'[n] = file[n]
    BY <1>0, <2>2, <2>3 DEF TypeOK
  <2>5. ASSUME NEW j \in Installers PROVE BufInvAt(j)'
    <3>1. CASE j = i
      BY <2>1, <3>1 DEF BufInvAt
    <3> QED
      BY <1>0, <2>1, <3>1, OtherRunStep
  <2>6. ASSUME NEW n \in Nodes, on[i] = n PROVE NodeInvAt(n)'
    <3> SUFFICES ASSUME ~hurt[n] PROVE NodeInvAt(n)'
      BY SMTT(30), <2>6, <2>1 DEF NodeInvAt
    <3>1. i \in Unfinished(n)'
      BY <2>6, <2>1 DEF Unfinished, On
    <3>2. Parses(orig[n]) /\ buf[i] = process(orig[n])
      BY SMTT(30), <2>6, <1>0, <2>1 DEF BufInvAt
    <3>3. file[n] \in {{}, process(orig[n])}
      <4>1. i \in Touched(n)
        BY SMTT(30), <2>6, <2>1 DEF Touched, On
      <4> QED
        BY SMTT(30), <2>6, <1>0, <2>2, <4>1 DEF NodeInvAt, Done, Empty
    <3>4. f = process(orig[n])
      BY SMTT(30), <2>6, <3>2, <3>3 DEF Overlay
    <3>5. Done(n)'
      BY SMTT(30), <2>6, <2>1, <2>4, <3>2, <3>4 DEF Done
    <3> QED
      BY SMTT(30), <2>6, <2>1, <3>1, <3>2, <3>5 DEF NodeInvAt
  <2>7. ASSUME NEW n \in Nodes, on[i] # n PROVE NodeInvAt(n)'
    BY SMTT(30), <1>0, <2>1, <2>4, <2>7, ElsewhereStep
  <2> QED
    BY <2>5, <2>6, <2>7
<1>6. ASSUME NEW i \in Installers, WriteFails(i) PROVE Kept
  <2>1. /\ pc[i] = "truncated" /\ pc'[i] = "skipped" /\ on' = on
        /\ \A j \in Installers \ {i} : pc'[j] = pc[j] /\ buf'[j] = buf[j]
        /\ orig' = orig /\ loaded' = loaded
    BY <1>0, <1>6 DEF WriteFails, Step, TypeOK
  <2>2. on[i] \in Nodes
    BY <1>0, <2>1, OnNode
  <2>3. /\ hurt'[on[i]] /\ \A n \in Nodes : hurt[n] => hurt'[n]
        /\ \A n \in Nodes \ {on[i]} : file'[n] = file[n]
    BY <1>0, <1>6, <2>2 DEF WriteFails, TypeOK
  <2>4. ASSUME NEW j \in Installers PROVE BufInvAt(j)'
    <3>1. CASE j = i
      BY SMTT(30), <2>1, <3>1 DEF BufInvAt
    <3>2. CASE j # i /\ pc[j] = "idle"
      BY <2>1, <3>2 DEF BufInvAt
    <3>3. CASE j # i /\ pc[j] # "idle"
      <4>1. on[j] \in Nodes
        BY <1>0, <3>3, OnNode
      <4>2. on'[j] = on[j] /\ pc'[j] = pc[j] /\ buf'[j] = buf[j]
        BY <2>1, <3>3
      <4> QED
        BY SMTT(30), <1>0, <2>1, <2>3, <4>1, <4>2, OtherRunStep
    <3> QED
      BY <3>1, <3>2, <3>3
  <2>5. ASSUME NEW n \in Nodes, on[i] = n PROVE NodeInvAt(n)'
    BY SMTT(30), <2>5, <2>1, <2>3 DEF NodeInvAt
  <2>6. ASSUME NEW n \in Nodes, on[i] # n PROVE NodeInvAt(n)'
    BY SMTT(30), <1>0, <2>1, <2>3, <2>6, ElsewhereStep
  <2> QED
    BY <2>4, <2>5, <2>6
<1>7. ASSUME NEW i \in Installers, Restart(i) PROVE Kept
  <2>1. /\ pc[i] = "written" /\ pc'[i] = "restarted" /\ on' = on
        /\ \A j \in Installers \ {i} : pc'[j] = pc[j]
        /\ orig' = orig /\ file' = file /\ buf' = buf /\ hurt' = hurt
    BY <1>0, <1>7 DEF Restart, Step, TypeOK
  <2>2. on[i] \in Nodes /\ orig[on[i]] \in Files
    BY SMTT(30), <1>0, <2>1, OnNode
  <2>3. /\ loaded'[on[i]] = Load(file[on[i]])
        /\ \A n \in Nodes \ {on[i]} : loaded'[n] = loaded[n]
    BY <1>0, <1>7, <2>2 DEF Restart, TypeOK
  <2>4. ASSUME NEW j \in Installers PROVE BufInvAt(j)'
    <3>1. CASE j = i
      BY <2>1, <3>1 DEF BufInvAt
    <3> QED
      BY <1>0, <2>1, <3>1, OtherRunStep
  <2>5. ASSUME NEW n \in Nodes, on[i] = n PROVE NodeInvAt(n)'
    <3> SUFFICES ASSUME ~hurt[n] PROVE NodeInvAt(n)'
      BY SMTT(30), <2>5, <2>1 DEF NodeInvAt
    <3>1. Truncated(n)' = Truncated(n)
      BY <2>5, <2>1 DEF Truncated, On
    <3>2. Parses(orig[n]) /\ (Done(n) \/ Empty(n))
      <4>1. i \in Touched(n)
        BY <2>5, <2>1 DEF Touched, On
      <4> QED
        BY SMTT(30), <2>5, <1>0, <2>2, <4>1 DEF NodeInvAt
    <3>3. (Done(n) \/ Empty(n))'
      BY SMTT(30), <2>5, <2>1, <3>1, <3>2 DEF Done, Empty
    <3>4. loaded'[n] = process(orig[n]) \/ Unfinished(n)' # {}
      <4>1. CASE Done(n)
        <5>1. process(orig[n]) \in Confs
          BY SMTT(30), <2>5, <2>2, <3>2, ParsedIsConf, ProcessConf
        <5>2. Parses(process(orig[n]))
          BY <2>5, <5>1, FilesAssumption DEF Parses
        <5> QED
          BY <2>5, <2>3, <4>1, <5>2 DEF Done, Load
      <4>2. CASE Empty(n)
        <5>1. PICK j : j \in Truncated(n)
          BY <2>5, <4>2 DEF Empty
        <5>2. j \in Unfinished(n)'
          BY <2>5, <2>1, <5>1 DEF Truncated, Unfinished, On
        <5> QED
          BY <2>5, <5>2
      <4> QED
        BY SMTT(30), <2>5, <3>2, <4>1, <4>2
    <3> QED
      BY SMTT(30), <2>5, <2>1, <3>2, <3>3, <3>4 DEF NodeInvAt
  <2>6. ASSUME NEW n \in Nodes, on[i] # n PROVE NodeInvAt(n)'
    BY SMTT(30), <1>0, <2>1, <2>3, <2>6, ElsewhereStep
  <2> QED
    BY <2>4, <2>5, <2>6
<1>8. ASSUME NEW i \in Installers, RestartFails(i) PROVE Kept
  <2>1. /\ pc[i] = "written" /\ pc'[i] = "failed" /\ on' = on
        /\ \A j \in Installers \ {i} : pc'[j] = pc[j]
        /\ orig' = orig /\ file' = file /\ buf' = buf /\ hurt' = hurt
    BY <1>0, <1>8 DEF RestartFails, Step, TypeOK
  <2>2. \A n \in Nodes \ {on[i]} : loaded'[n] = loaded[n]
    BY <1>0, <1>8 DEF RestartFails, TypeOK
  <2>3. ASSUME NEW j \in Installers PROVE BufInvAt(j)'
    <3>1. CASE j = i
      BY SMTT(30), <2>1, <3>1 DEF BufInvAt
    <3> QED
      BY SMTT(30), <1>0, <2>1, <3>1, OtherRunStep
  <2>4. ASSUME NEW n \in Nodes, on[i] = n PROVE NodeInvAt(n)'
    <3>1. i \in Unfinished(n)' /\ i \in Touched(n)
      BY <2>1, <2>4 DEF Unfinished, Touched, On
    <3>2. Truncated(n)' = Truncated(n)
      BY <2>1 DEF Truncated, On
    <3> QED
      BY SMTT(30), <1>0, <2>1, <3>1, <3>2 DEF NodeInvAt, Done, Empty
  <2>5. ASSUME NEW n \in Nodes, on[i] # n PROVE NodeInvAt(n)'
    BY SMTT(30), <1>0, <2>1, <2>2, <2>5, ElsewhereStep
  <2> QED
    BY <2>3, <2>4, <2>5
<1>9. ASSUME NEW i \in Installers, Kill(i) PROVE Kept
  <2>1. /\ pc[i] \in Busy /\ pc'[i] = "killed" /\ on' = on
        /\ \A j \in Installers \ {i} : pc'[j] = pc[j] /\ buf'[j] = buf[j]
        /\ orig' = orig /\ file' = file /\ loaded' = loaded
    BY <1>0, <1>9 DEF Kill, TypeOK
  <2>2. on[i] \in Nodes
    BY SMTT(30), <1>0, <2>1, OnNode DEF Busy
  <2>3. /\ \A n \in Nodes : hurt[n] => hurt'[n]
        /\ pc[i] = "truncated" => hurt'[on[i]]
    BY ZenonT(30), <1>0, <1>9, <2>2 DEF Kill, TypeOK
  <2>4. ASSUME NEW j \in Installers PROVE BufInvAt(j)'
    <3>1. CASE j = i
      BY SMTT(30), <2>1, <3>1 DEF BufInvAt
    <3>2. CASE j # i /\ pc[j] = "idle"
      BY <2>1, <3>2 DEF BufInvAt
    <3>3. CASE j # i /\ pc[j] # "idle"
      <4>1. on[j] \in Nodes
        BY <1>0, <3>3, OnNode
      <4>2. on'[j] = on[j] /\ pc'[j] = pc[j] /\ buf'[j] = buf[j]
        BY <2>1, <3>3
      <4> QED
        BY SMTT(30), <1>0, <2>1, <2>3, <4>1, <4>2, OtherRunStep
    <3> QED
      BY <3>1, <3>2, <3>3
  <2>5. ASSUME NEW n \in Nodes, on[i] # n PROVE NodeInvAt(n)'
    BY SMTT(30), <1>0, <2>1, <2>3, <2>5, ElsewhereStep
  <2>6. ASSUME NEW n \in Nodes, on[i] = n, pc[i] = "truncated" PROVE NodeInvAt(n)'
    BY SMTT(30), <2>3, <2>6 DEF NodeInvAt
  <2>7. ASSUME NEW n \in Nodes, pc[i] # "truncated" PROVE NodeInvAt(n)'
    BY SMTT(30), <1>0, <2>1, <2>3, <2>7, QuietStep
  <2> QED
    BY <2>4, <2>5, <2>6, <2>7
<1>10. CASE UNCHANGED vars
  <2>1. ASSUME NEW j \in Installers PROVE BufInvAt(j)'
    BY SMTT(30), <1>0, <1>10 DEF vars, BufInvAt
  <2>2. ASSUME NEW n \in Nodes PROVE NodeInvAt(n)'
    <3>1. /\ On(n)' = On(n) /\ Truncated(n)' = Truncated(n)
          /\ Touched(n)' = Touched(n) /\ Unfinished(n)' = Unfinished(n)
      BY <1>10, Zenon DEF vars, Truncated, Touched, Unfinished, On
    <3> QED
      BY SMTT(30), <1>0, <1>10, <3>1 DEF vars, NodeInvAt, Done, Empty
  <2> QED
    BY <2>1, <2>2
<1> QED
  BY <1>1, <1>2, <1>3, <1>4, <1>5, <1>6, <1>7, <1>8, <1>9, <1>10 DEF Next, Script

-----------------------------------------------------------------------------
(* The inductive invariant holds in every reachable state. *)
THEOREM Invariance == Spec => []Inv
  BY InitInv, InvStep, PTL DEF Spec

(* The variables have their types, and only runs that were started have a node. *)
THEOREM TypeCorrect == Spec => []TypeOK
<1>1. Inv => TypeOK
  BY DEF Inv
<1> QED
  BY <1>1, Invariance, PTL

(***************************************************************************)
(* Runs of setup-runtime that overlap, fail or are killed lose no setting, *)
(* unless they meet in the window between the truncation and the write.    *)
(***************************************************************************)
THEOREM NoSettingLost == Spec => []SettingsKept
<1>1. Inv => SettingsKept
  <2> SUFFICES ASSUME Inv, NEW n \in Nodes, ~hurt[n], Truncated(n) = {}, file[n] # orig[n]
               PROVE  Parses(file[n]) /\ Parses(orig[n]) /\ Configured(orig[n], file[n])
    BY SMTT(30) DEF SettingsKept
  <2>1. Done(n)
    BY DEF Inv, FileInv, Empty
  <2>2. orig[n] \in Confs
    BY <2>1, ParsedIsConf, OriginalsAssumption DEF Inv, TypeOK, Done
  <2> QED
    BY SMTT(30), <2>1, <2>2, ProcessConf, ProcessConfigures, FilesAssumption DEF Done, Parses
<1> QED
  BY <1>1, Invariance, PTL

(***************************************************************************)
(* The last of the runs of setup-runtime on a node leaves containerd with  *)
(* the configured file, in whichever order they wrote and restarted it.    *)
(***************************************************************************)
THEOREM UpToDate == Spec => []ContainerdUpToDate
<1>1. Inv => ContainerdUpToDate
  <2> SUFFICES ASSUME Inv, NEW n \in Nodes, ~hurt[n], Unfinished(n) = {},
                      NEW i \in On(n), pc[i] = "restarted"
               PROVE  loaded[n] # Down /\ Parses(orig[n]) /\ Configured(orig[n], loaded[n])
    BY DEF ContainerdUpToDate
  <2>1. i \in Touched(n)
    BY DEF Touched
  <2>2. Parses(orig[n]) /\ loaded[n] = process(orig[n])
    BY <2>1 DEF Inv, TouchInv, LoadInv
  <2>3. orig[n] \in Confs
    BY <2>2, ParsedIsConf, OriginalsAssumption DEF Inv, TypeOK
  <2> QED
    BY SMTT(30), <2>2, <2>3, ProcessConf, ProcessConfigures, FilesAssumption
<1> QED
  BY <1>1, Invariance, PTL

-----------------------------------------------------------------------------
(* The setup Job. *)

LEMMA SetupStepImplements == [SetupNext]_allVars => [Next]_vars
<1> SUFFICES ASSUME [SetupNext]_allVars PROVE [Next]_vars
  OBVIOUS
<1>1. CASE main \/ (\E n \in Nodes : Label(n)) \/ (\E p \in Pods : CreatePod(p))
  BY SMTT(30), <1>1 DEF main, Label, CreatePod
<1>2. ASSUME NEW p \in Pods, NEW n \in Nodes, Schedule(p, n) PROVE Next
  BY <1>2, PodsAssumption DEF Schedule, Next
<1>3. ASSUME NEW i \in Installers, NEW n \in Nodes, StartInitContainer(i, n) PROVE Next
  BY <1>3 DEF StartInitContainer, Next
<1>4. ASSUME NEW i \in Installers, RunScript(i) \/ KillContainer(i) PROVE Next
  BY <1>4 DEF RunScript, KillContainer, Next
<1>5. CASE UNCHANGED allVars
  BY <1>5 DEF allVars, vars
<1> QED
  BY <1>1, <1>2, <1>3, <1>4, <1>5 DEF SetupNext, Cluster

(***************************************************************************)
(* The composition implements its component: every step of the Job, the    *)
(* cluster and the init containers is a step of some run of the script, or *)
(* leaves the nodes alone.                                                 *)
(***************************************************************************)
THEOREM SetupImplementsRuntimeConfig == SetupSpec => Spec
<1>1. SetupInit => Init
  BY DEF SetupInit
<1> QED
  BY <1>1, SetupStepImplements, PTL DEF SetupSpec, Spec

(***************************************************************************)
(* The pods of the Job and the init containers of the drivers, at work on  *)
(* the same config.toml, lose no setting and leave containerd up to date,  *)
(* as far as any runs of the script do.                                    *)
(***************************************************************************)
THEOREM SetupKeepsSettings == SetupSpec => [](SettingsKept /\ ContainerdUpToDate)
  BY SetupImplementsRuntimeConfig, NoSettingLost, UpToDate, PTL

-----------------------------------------------------------------------------
(* The pods that count towards the completions of the Job. *)
Engaged == pending \cup {p \in Pods : pc[p] \in Busy \cup {"restarted", "skipped"}}

JobInv ==
  /\ workers \subseteq Nodes
  /\ listed \subseteq workers
  /\ job \in {NoJob, makeSetupRuntimeJob(listed)}
  /\ job = NoJob => \A p \in Pods : on[p] = NoNode
  /\ pending \subseteq {p \in Pods : pc[p] = "idle"}
  /\ Cardinality(Engaged) <= job.Completions
  /\ early \in BOOLEAN

SetupInv == TypeOK /\ JobInv /\ OnePodPerWorker

LEMMA PodsFinite == ASSUME NEW S \in SUBSET Pods PROVE IsFiniteSet(S) /\ Cardinality(S) \in Nat
<1>1. S \in SUBSET Installers
  BY PodsAssumption
<1>2. IsFiniteSet(S)
  BY <1>1, FiniteAssumption, FS_Subset
<1> QED
  BY <1>2, FS_CardinalityType

LEMMA NodesFinite == ASSUME NEW S \in SUBSET Nodes PROVE IsFiniteSet(S) /\ Cardinality(S) \in Nat
<1>1. IsFiniteSet(S)
  BY FiniteAssumption, FS_Subset
<1> QED
  BY <1>1, FS_CardinalityType

LEMMA EngagedCount ==
  ASSUME JobInv
  PROVE  /\ Engaged \in SUBSET Pods
         /\ Cardinality(Engaged) = Cardinality(Active) + Cardinality(Succeeded)
<1>1. Engaged = Active \cup Succeeded /\ Active \cap Succeeded = {}
  BY DEF JobInv, Engaged, Active, Succeeded, Busy
<1>2. Engaged \in SUBSET Pods /\ Active \in SUBSET Pods /\ Succeeded \in SUBSET Pods
  BY DEF JobInv, Engaged, Active, Succeeded
<1>3. IsFiniteSet(Active) /\ IsFiniteSet(Succeeded)
      /\ Cardinality(Active) \in Nat /\ Cardinality(Succeeded) \in Nat
  BY <1>2, PodsFinite
<1>4. Cardinality(Active \cup Succeeded)
        = Cardinality(Active) + Cardinality(Succeeded) - Cardinality(Active \cap Succeeded)
  BY <1>3, FS_Union
<1> QED
  BY <1>1, <1>2, <1>3, <1>4, FS_EmptySet

LEMMA JobFields ==
  ASSUME JobInv
  PROVE  /\ job = NoJob => job.Parallelism = 0 /\ job.Completions = 0
         /\ job # NoJob => job.Completions = Cardinality(listed) /\ job.MaxSkew = 1
         /\ job.Completions \in Nat
  BY SMTT(30), NodesFinite DEF JobInv, NoJob, makeSetupRuntimeJob

(***************************************************************************)
(* Were a second pod to fit on a worker, every worker would have one, and  *)
(* the pods would be more than the workers.                                *)
(***************************************************************************)
LEMMA FitsIsFree ==
  ASSUME TypeOK, JobInv, OnePodPerWorker, ~early, Ended = {}, listed = workers, job # NoJob,
         NEW n \in workers, Fits(n), NEW p \in pending
  PROVE  Placed(n) = {}
<1> SUFFICES ASSUME Placed(n) # {} PROVE FALSE
  OBVIOUS
<1> DEFINE R == {q \in Pods : pc[q] \in Busy}
<1>1. \A m \in Nodes : Placed(m) = Running(m) /\ Placed(m) \in SUBSET Pods /\ Placed(m) \subseteq R
  <2> SUFFICES ASSUME NEW m \in Nodes, NEW q \in Placed(m) PROVE pc[q] \in Busy
    BY DEF Placed, Running
  <2>1. q \in Installers /\ q \in Pods /\ on[q] = m
    BY PodsAssumption DEF Placed
  <2>2. pc[q] # "idle" /\ pc[q] \notin Over
    BY <2>1, NodesAssumption DEF TypeOK, Ended
  <2> QED
    BY SMTT(30), <2>1, <2>2 DEF TypeOK
<1>2. \A m \in Nodes : IsFiniteSet(Placed(m)) /\ Cardinality(Placed(m)) \in Nat
  BY <1>1, PodsFinite
<1>3. n \in Nodes /\ workers \subseteq Nodes
  BY DEF JobInv
<1>4. Cardinality(Placed(n)) >= 1
  BY <1>2, <1>3, FS_EmptySet
<1>5. \A m \in workers : Placed(m) # {}
  <2> SUFFICES ASSUME NEW m \in workers, Placed(m) = {} PROVE FALSE
    OBVIOUS
  <2>1. Cardinality(Running(m)) = 0
    BY <1>1, <1>3, FS_EmptySet
  <2>2. Cardinality(Running(n)) + 1 - Cardinality(Running(m)) <= 1
    BY JobFields DEF Fits
  <2> QED
    BY <1>1, <1>2, <1>3, <1>4, <2>1, <2>2
<1> DEFINE f == [m \in workers |-> CHOOSE q \in R : on[q] = m]
<1>6. \A m \in workers : f[m] \in R /\ on[f[m]] = m
  BY <1>1, <1>3, <1>5 DEF Placed
<1>7. f \in Injection(workers, R)
  BY <1>6 DEF Injection, IsInjective
<1>8. IsFiniteSet(R) /\ Cardinality(R) \in Nat
  BY PodsFinite
<1>9. Cardinality(workers) <= Cardinality(R)
  BY <1>7, <1>8, FS_Injection
<1>10. Cardinality(R \cup {p}) = Cardinality(R) + 1
  <2>1. p \notin R
    BY DEF JobInv, Busy
  <2> QED
    BY SMTT(30), <1>8, <2>1, FS_AddElement
<1>11. Cardinality(R \cup {p}) <= Cardinality(Engaged)
  <2>1. R \cup {p} \in SUBSET Engaged
    BY DEF Engaged
  <2>2. IsFiniteSet(Engaged)
    BY EngagedCount, PodsFinite
  <2> QED
    BY <2>1, <2>2, FS_Subset
<1>12. Cardinality(Engaged) <= Cardinality(workers)
  BY SMTT(30), JobFields DEF JobInv
<1>13. Cardinality(workers) \in Nat /\ Cardinality(Engaged) \in Nat
  BY <1>3, NodesFinite, EngagedCount, PodsFinite
<1> QED
  BY <1>8, <1>9, <1>10, <1>11, <1>12, <1>13

(* A step of the script, wherever it is, ends nothing but its own run. *)
LEMMA ScriptStep ==
  ASSUME TypeOK, NEW i \in Installers, Script(i) \/ Kill(i)
  PROVE  /\ on' = on
         /\ pc[i] \in Busy
         /\ pc'[i] \in Busy \cup Over
         /\ \A j \in Installers \ {i} : pc'[j] = pc[j]
<1> USE DEF TypeOK, Step, Busy, Over
<1>1. CASE Read(i) \/ ToolFails(i) \/ Truncate(i)
  BY ZenonT(30), <1>1 DEF Read, ToolFails, Truncate
<1>2. CASE Write(i) \/ WriteFails(i)
  BY SMTT(30), <1>2 DEF Write, WriteFails
<1>3. CASE Restart(i) \/ RestartFails(i)
  BY SMTT(30), <1>3 DEF Restart, RestartFails
<1>4. CASE Kill(i)
  BY SMTT(30), <1>4 DEF Kill
<1> QED
  BY SMTT(30), <1>1, <1>2, <1>3, <1>4 DEF Script

(* Pods that neither come nor go keep the Job within its completions. *)
LEMMA EngagedShrinks ==
  ASSUME JobInv, NEW S \in SUBSET Engaged
  PROVE  Cardinality(S) <= job.Completions
<1>1. IsFiniteSet(Engaged) /\ Cardinality(Engaged) \in Nat
  BY EngagedCount, PodsFinite
<1>2. Cardinality(S) \in Nat /\ Cardinality(S) <= Cardinality(Engaged)
  BY <1>1, FS_Subset, FS_CardinalityType
<1> QED
  BY SMTT(30), <1>1, <1>2, JobFields DEF JobInv

LEMMA SetupInitInv == SetupInit => SetupInv
<1> SUFFICES ASSUME SetupInit PROVE SetupInv
  OBVIOUS
<1>1. TypeOK /\ \A p \in Pods : on[p] = NoNode /\ pc[p] = "idle"
  BY InitInv, PodsAssumption DEF SetupInit, Inv, Init
<1>2. Engaged = {}
  BY <1>1 DEF SetupInit, Engaged, Busy
<1>3. JobInv
  <2>1. Cardinality(Engaged) <= job.Completions
    <3>1. Cardinality(Engaged) = 0
      BY <1>2, FS_EmptySet
    <3>2. job.Completions = 0
      BY DEF SetupInit, NoJob
    <3> QED
      BY <3>1, <3>2
  <2> QED
    BY ZenonT(30), <1>1, <2>1 DEF SetupInit, JobInv
<1>4. OnePodPerWorker
  <2>1. \A n \in Nodes : Cardinality(Placed(n)) = 0
    <3>1. \A n \in Nodes : Placed(n) = {}
      BY <1>1, NodesAssumption DEF Placed
    <3> QED
      BY <3>1, FS_EmptySet
  <2>2. ASSUME NEW n \in Nodes PROVE Cardinality(Placed(n)) <= IF n \in listed THEN 1 ELSE 0
    <3>1. CASE n \in listed
      BY <2>1, <3>1
    <3>2. CASE n \notin listed
      BY <2>1, <3>2
    <3> QED
      BY <3>1, <3>2
  <2> QED
    BY <2>2 DEF OnePodPerWorker
<1> QED
  BY <1>1, <1>3, <1>4 DEF SetupInv

LEMMA SetupInvStep == SetupInv /\ [SetupNext]_allVars => SetupInv'
<1> SUFFICES ASSUME SetupInv, [SetupNext]_allVars PROVE SetupInv'
  OBVIOUS
<1>0. TypeOK /\ JobInv /\ OnePodPerWorker
  BY DEF SetupInv
<1>a. TypeOK'
  BY <1>0, SetupStepImplements, TypeStep
<1>1. CASE main
  <2>1. /\ job = NoJob /\ listed' = workers /\ job' = makeSetupRuntimeJob(workers)
        /\ pc' = pc /\ on' = on /\ workers' = workers /\ pending' = pending /\ early' = early
    BY <1>1 DEF main, vars, getWorkerNodes
  <2>2. Engaged' = Engaged
    BY <2>1 DEF Engaged
  <2>3. job'.Completions \in Nat /\ job' # NoJob /\ Cardinality(Engaged) <= job'.Completions
    <3>1. job'.Completions = Cardinality(workers) /\ job'.MaxSkew = 1
      BY <2>1 DEF makeSetupRuntimeJob
    <3>2. Cardinality(workers) \in Nat
      BY <1>0, NodesFinite DEF JobInv
    <3>3. Cardinality(Engaged) \in Nat /\ Cardinality(Engaged) <= 0
      BY SMTT(30), <1>0, <2>1, EngagedCount, PodsFinite, JobFields DEF JobInv
    <3> QED
      BY <3>1, <3>2, <3>3 DEF NoJob
  <2>4. JobInv'
    BY SMTT(30), <1>0, <2>1, <2>2, <2>3 DEF JobInv
  <2>5. \A n \in Nodes : Placed(n)' = {}
    BY SMTT(30), <1>0, <2>1, NodesAssumption DEF JobInv, Placed
  <2>6. OnePodPerWorker'
    <3>1. \A n \in Nodes : Cardinality(Placed(n)') = 0
      BY <2>5, FS_EmptySet
    <3> QED
      BY <3>1 DEF OnePodPerWorker
  <2> QED
    BY <1>a, <2>4, <2>6 DEF SetupInv
<1>2. ASSUME NEW n \in Nodes, Label(n) PROVE SetupInv'
  <2>1. /\ workers' = workers \cup {n} /\ listed' = listed /\ job' = job
        /\ pc' = pc /\ on' = on /\ pending' = pending /\ early' = early
    BY <1>2 DEF Label, vars
  <2>2. Engaged' = Engaged /\ \A m \in Nodes : Placed(m)' = Placed(m)
    BY <2>1 DEF Engaged, Placed
  <2>3. JobInv'
    BY SMTT(30), <1>0, <2>1, <2>2 DEF JobInv
  <2>4. listed' = workers' => listed = workers
    BY SMTT(30), <1>0, <2>1 DEF JobInv
  <2>5. OnePodPerWorker'
    BY <1>0, <2>1, <2>2, <2>4 DEF OnePodPerWorker
  <2> QED
    BY <1>a, <2>3, <2>5 DEF SetupInv
<1>3. ASSUME NEW p \in Pods, CreatePod(p) PROVE SetupInv'
  <2>1. /\ p \notin pending /\ pc[p] = "idle" /\ pending' = pending \cup {p}
        /\ Cardinality(Active) + Cardinality(Succeeded) < job.Completions
        /\ workers' = workers /\ listed' = listed /\ job' = job
        /\ pc' = pc /\ on' = on /\ early' = early
    BY SMTT(30), <1>3 DEF CreatePod, vars
  <2>2. Engaged' = Engaged \cup {p} /\ \A m \in Nodes : Placed(m)' = Placed(m)
    BY <2>1 DEF Engaged, Placed
  <2>3. Cardinality(Engaged \cup {p}) <= job.Completions
    <3>1. IsFiniteSet(Engaged) /\ Cardinality(Engaged) \in Nat
      BY <1>0, EngagedCount, PodsFinite
    <3>2. Cardinality(Engaged) < job.Completions
      BY <1>0, <2>1, EngagedCount
    <3>3. Cardinality(Engaged \cup {p}) \in {Cardinality(Engaged), Cardinality(Engaged) + 1}
      BY SMTT(30), <3>1, FS_AddElement
    <3> QED
      BY <1>0, <3>1, <3>2, <3>3, JobFields
  <2>4. JobInv'
    BY SMTT(30), <1>0, <2>1, <2>2, <2>3 DEF JobInv
  <2>5. OnePodPerWorker'
    BY SMTT(30), <1>0, <2>1, <2>2 DEF OnePodPerWorker
  <2> QED
    BY <1>a, <2>4, <2>5 DEF SetupInv
<1>4. ASSUME NEW p \in Pods, NEW n \in Nodes, Schedule(p, n) PROVE SetupInv'
  <2>1. /\ p \in pending /\ pending' = pending \ {p} /\ n \in workers /\ Fits(n)
        /\ early' = (early \/ Ended # {})
        /\ workers' = workers /\ listed' = listed /\ job' = job
    BY <1>4 DEF Schedule
  <2>2. /\ pc[p] = "idle" /\ pc'[p] = "started" /\ on'[p] = n
        /\ \A q \in Pods \ {p} : pc'[q] = pc[q] /\ on'[q] = on[q]
    BY SMTT(30), <1>0, <1>4, PodsAssumption DEF Schedule, Start, Step, TypeOK
  <2>3. Engaged' \subseteq Engaged
    BY SMTT(30), <1>0, <2>1, <2>2 DEF Engaged, JobInv
  <2>4. job # NoJob
    <3> SUFFICES ASSUME job = NoJob PROVE FALSE
      OBVIOUS
    <3>1. p \in Engaged /\ Engaged \in SUBSET Pods
      <4>1. p \in Engaged
        BY <2>1, Zenon DEF Engaged
      <4>2. Engaged \in SUBSET Pods
        BY <1>0, EngagedCount, Zenon
      <4> QED BY <4>1, <4>2
    <3>2. IsFiniteSet(Engaged) /\ Cardinality(Engaged) \in Nat
      BY <3>1, PodsFinite
    <3>3. Cardinality(Engaged) <= 0
      <4>1. Cardinality(Engaged) <= job.Completions
        BY <1>0, Zenon DEF JobInv
      <4>2. job.Completions = 0
        BY <1>0, JobFields, Zenon
      <4> QED BY <4>1, <4>2, Zenon
    <3>4. Cardinality(Engaged) = 0
      BY ONLY <3>2, <3>3, SMT
    <3>5. Engaged = {}
      BY <3>2, <3>4, FS_EmptySet, Zenon
    <3> QED BY <3>1, <3>5, Zenon
  <2>5. JobInv'
    <3>1. Cardinality(Engaged') <= job.Completions
      BY <1>0, <2>3, EngagedShrinks
    <3>2. pending' \subseteq {q \in Pods : pc'[q] = "idle"}
      BY SMTT(30), <1>0, <2>1, <2>2 DEF JobInv
    <3>3. early' \in BOOLEAN
      BY <2>1
    <3>4. /\ workers \subseteq Nodes /\ listed \subseteq workers
          /\ job \in {NoJob, makeSetupRuntimeJob(listed)}
      BY <1>0, Zenon DEF JobInv
    <3>5. job'.Completions = job.Completions /\ makeSetupRuntimeJob(listed)' = makeSetupRuntimeJob(listed)
      BY <2>1, Zenon DEF makeSetupRuntimeJob
    <3> QED
      BY <2>1, <2>4, <3>1, <3>2, <3>3, <3>4, <3>5, Zenon DEF JobInv
  <2>6. OnePodPerWorker'
    <3> SUFFICES ASSUME ~early', listed = workers, NEW m \in Nodes
                 PROVE  Cardinality(Placed(m)') <= IF m \in listed THEN 1 ELSE 0
      BY <2>1 DEF OnePodPerWorker
    <3>1. ~early /\ Ended = {}
      BY ZenonT(30), <2>1
    <3>2. CASE m = n
      <4>1. Placed(n) = {}
        BY <1>0, <2>1, <2>4, <3>1, FitsIsFree
      <4>2. Placed(m)' = {p}
        BY <2>2, <3>2, <4>1 DEF Placed
      <4>3. Cardinality(Placed(m)') = 1
        BY ZenonT(30), <4>2, FS_Singleton
      <4> QED
        BY <2>1, <3>2, <4>3
    <3>3. CASE m # n
      <4>1. on[p] = NoNode
        BY SMTT(30), <1>0, <2>2, PodsAssumption DEF TypeOK
      <4>2. Placed(m)' = Placed(m)
        BY <2>2, <3>3, <4>1, NodesAssumption DEF Placed
      <4> QED
        BY <1>0, <3>1, <4>2 DEF OnePodPerWorker
    <3> QED
      BY <3>2, <3>3
  <2> QED
    BY <1>a, <2>5, <2>6 DEF SetupInv
<1>5. ASSUME UNCHANGED setup, \A q \in Pods : on'[q] = on[q],
             \A q \in Pods : pc'[q] = pc[q] \/ pc[q] \in Busy
      PROVE  SetupInv'
  <2>1. /\ workers' = workers /\ listed' = listed /\ job' = job
        /\ pending' = pending /\ early' = early
    BY SMTT(30), <1>5 DEF setup
  <2>2. \A m \in Nodes : Placed(m)' = Placed(m)
    BY <1>5 DEF Placed
  <2>3. Engaged' \subseteq Engaged
    BY <1>5, <2>1 DEF Engaged, Busy
  <2>4. Cardinality(Engaged') <= job.Completions
    BY <1>0, <2>3, EngagedShrinks
  <2>5. pending' \subseteq {q \in Pods : pc'[q] = "idle"}
    BY SMTT(30), <1>0, <1>5, <2>1 DEF JobInv, Busy
  <2>6. JobInv'
    BY SMTT(30), <1>0, <1>5, <2>1, <2>4, <2>5 DEF JobInv
  <2>7. OnePodPerWorker'
    BY <1>0, <2>1, <2>2 DEF OnePodPerWorker
  <2> QED
    BY <1>a, <2>6, <2>7 DEF SetupInv
<1>6. ASSUME NEW i \in Installers, NEW n \in Nodes, StartInitContainer(i, n) PROVE SetupInv'
  <2>1. \A q \in Pods : on'[q] = on[q] /\ pc'[q] = pc[q]
    BY <1>0, <1>6, PodsAssumption DEF StartInitContainer, Start, Step, TypeOK
  <2> QED
    BY <1>5, <1>6, <2>1 DEF StartInitContainer
<1>7. ASSUME NEW i \in Installers, RunScript(i) \/ KillContainer(i) PROVE SetupInv'
  <2>1. /\ on' = on /\ pc[i] \in Busy /\ \A j \in Installers \ {i} : pc'[j] = pc[j]
        /\ UNCHANGED setup
    BY <1>0, <1>7, ScriptStep DEF RunScript, KillContainer
  <2>2. \A q \in Pods : pc'[q] = pc[q] \/ pc[q] \in Busy
    BY SMTT(30), <2>1, PodsAssumption
  <2> QED
    BY SMTT(30), <1>5, <2>1, <2>2
<1>8. CASE UNCHANGED allVars
  <2>1. UNCHANGED setup /\ on' = on /\ pc' = pc
    BY <1>8 DEF allVars, setup
  <2> QED
    BY <1>5, <2>1
<1> QED
  BY <1>1, <1>2, <1>3, <1>4, <1>6, <1>7, <1>8 DEF SetupNext, Cluster

(* The inductive invariant holds in every reachable state of the setup. *)
THEOREM SetupInvariance == SetupSpec => []SetupInv
  BY SetupInitInv, SetupInvStep, PTL DEF SetupSpec

(***************************************************************************)
(* The Job never has more pods, running or successful, than the workers it *)
(* was made for.                                                           *)
(***************************************************************************)
THEOREM SetupTypeCorrect == SetupSpec => []SetupTypeOK
<1>1. SetupInv => SetupTypeOK
  BY SMTT(30), EngagedCount DEF SetupInv, JobInv, SetupTypeOK
<1> QED
  BY <1>1, SetupInvariance, PTL

(***************************************************************************)
(* The spread constraint gives no worker a second pod before every worker  *)
(* has one, provided no pod was over by then.                              *)
(***************************************************************************)
THEOREM SpreadReachesEveryWorker == SetupSpec => []OnePodPerWorker
<1>1. SetupInv => OnePodPerWorker
  BY DEF SetupInv
<1> QED
  BY <1>1, SetupInvariance, PTL

(* As many pods as workers, one on each: every worker has one. *)
LEMMA CompletedCovers ==
  ASSUME SetupInv, JobCompleted, ~early, listed = workers, NEW n \in listed
  PROVE  \E p \in Succeeded : on[p] = n
<1>0. TypeOK /\ JobInv /\ OnePodPerWorker
  BY DEF SetupInv
<1>1. \A m \in Nodes : Placed(m) \in SUBSET Pods /\ IsFiniteSet(Placed(m)) /\ Cardinality(Placed(m)) \in Nat
  BY PodsFinite DEF Placed
<1>2. \A p \in Succeeded : p \in Pods /\ on[p] \in Nodes /\ p \in Placed(on[p])
  BY SMTT(30), <1>0, PodsAssumption DEF Succeeded, Placed, TypeOK
<1>3. \A p \in Succeeded : on[p] \in listed
  <2> SUFFICES ASSUME NEW p \in Succeeded, on[p] \notin listed PROVE FALSE
    OBVIOUS
  <2>1. Cardinality(Placed(on[p])) <= 0
    BY <1>0, <1>2 DEF OnePodPerWorker
  <2>2. Placed(on[p]) = {}
    BY <1>1, <1>2, <2>1, FS_EmptySet
  <2> QED
    BY <1>2, <2>2
<1>4. ASSUME NEW p \in Succeeded, NEW q \in Succeeded, on[p] = on[q] PROVE p = q
  <2>1. Cardinality(Placed(on[p])) <= 1
    BY <1>0, <1>2, <1>3 DEF OnePodPerWorker
  <2>2. Placed(on[p]) # {}
    BY <1>2
  <2>3. Cardinality(Placed(on[p])) # 0
    BY <1>1, <1>2, <2>2, FS_EmptySet
  <2>4. Cardinality(Placed(on[p])) = 1
    BY <1>1, <1>2, <2>1, <2>3
  <2>5. PICK x : Placed(on[p]) = {x}
    BY ZenonT(30), <1>1, <1>2, <2>4, FS_Singleton
  <2> QED
    BY <1>2, <1>4, <2>5
<1> DEFINE g == [p \in Succeeded |-> on[p]]
<1>5. g \in Injection(Succeeded, listed)
  BY <1>3, <1>4 DEF Injection, IsInjective
<1>6. IsFiniteSet(listed) /\ Cardinality(Succeeded) = Cardinality(listed)
  BY SMTT(30), <1>0, NodesFinite, JobFields DEF JobInv, JobCompleted
<1>7. g \in Surjection(Succeeded, listed)
  BY <1>5, <1>6, FS_Injection
<1> QED
  BY ZenonT(30), <1>7 DEF Surjection

(***************************************************************************)
(* A Job that completed has configured every worker it was made for, as    *)
(* far as the statuses of its pods can be trusted.                         *)
(***************************************************************************)
THEOREM CompletedJobConfigures == SetupSpec => []CompletedMeansConfigured
<1>1. SetupInv /\ ContainerdUpToDate => CompletedMeansConfigured
  <2> SUFFICES ASSUME SetupInv, ContainerdUpToDate, JobCompleted, ~early, listed = workers,
                      NEW n \in listed, ~hurt[n], Unfinished(n) = {},
                      \A p \in Placed(n) : pc[p] # "skipped"
               PROVE  Parses(orig[n]) /\ loaded[n] # Down /\ Configured(orig[n], loaded[n])
    BY SMTT(30) DEF CompletedMeansConfigured
  <2>1. PICK p \in Succeeded : on[p] = n
    BY SMTT(30), CompletedCovers
  <2>2. n \in Nodes /\ p \in On(n) /\ pc[p] = "restarted"
    BY SMTT(30), <2>1, PodsAssumption DEF Succeeded, Placed, On, SetupInv, JobInv
  <2> QED
    BY SMTT(30), <2>2 DEF ContainerdUpToDate
<1> QED
  BY <1>1, SetupInvariance, SetupKeepsSettings, PTL

=============================================================================
