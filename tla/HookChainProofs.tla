-------------------------- MODULE HookChainProofs ---------------------------
(***************************************************************************)
(* The safety properties of HookChain hold for every set of hooks, of      *)
(* documents and of calls, and for every number of changes to the files.   *)
(* dramachine.py is idempotent and does all or nothing; therefore so is a  *)
(* chain of hooks made of it, whatever becomes of their processes: only    *)
(* this second part, at the end, uses NodeHooksAssumption.                 *)
(***************************************************************************)
EXTENDS NodeHooks, TLAPS

(***************************************************************************)
(* What holds of one call.  A hook that succeeded has printed a document   *)
(* it may print for the current one; the hooks not yet started are all     *)
(* those after the last one started.                                       *)
(***************************************************************************)
CallInv(r) ==
  /\ current[r] \in Chain[input[r]]
  /\ child[r] = "ok" => out[r] \in Prints[hook[r]][current[r]]
  /\ child[r] # "none" => at[r] = "cmd"
  /\ hooks[r] \subseteq listed[r]
  /\ \A h \in hooks[r], g \in listed[r] : h <= g => g \in hooks[r]
  /\ at[r] = "cmd" => /\ hook[r] \in listed[r]
                      /\ hooks[r] = {h \in listed[r] : h > hook[r]}
  /\ at[r] = "done" => hooks[r] = {}
  /\ at[r] = "idle" => listed[r] = {} /\ current[r] = input[r]
  /\ failed[r] => /\ at[r] = "done"
                  /\ current[r] = input[r]
                  /\ listed[r] = {}

Inv == TypeOK /\ \A r \in Runs : CallInv(r)

(* The values a call's invariant is about. *)
State(r) == <<at[r], input[r], current[r], listed[r], hooks[r], failed[r],
              hook[r], child[r], out[r]>>

LEMMA CallFrame ==
  ASSUME NEW r \in Runs, CallInv(r), State(r)' = State(r)
  PROVE  CallInv(r)'
  BY DEF CallInv, State

LEMMA HooksNat == Hooks \subseteq Nat
  BY HooksAssumption DEF Hooks, Single

LEMMA InitInv == Init => Inv
<1> SUFFICES ASSUME Init PROVE Inv
  OBVIOUS
<1>1. input \in [Runs -> XML]
  BY InputsAssumption DEF Init
<1>2. TypeOK
  BY <1>1, ConfiguredAssumption DEF Init, NewHookChain, TypeOK, Hooks
<1>3. ASSUME NEW r \in Runs PROVE CallInv(r)
  BY <1>1, ChainAssumption DEF Init, CallInv
<1> QED
  BY <1>2, <1>3 DEF Inv

(* The operator touches only the files. *)
LEMMA OperatorInv ==
  ASSUME Inv, ChangeDir \/ \E h \in Hooks : ChangeFile(h)
  PROVE  Inv'
<1>1. UNCHANGED <<call, proc>>
  BY DEF ChangeDir, ChangeFile
<1>2. files' \in [Hooks -> {"exec", "none"}] /\ dir' \in BOOLEAN /\ changes' \in Nat
  <2>1. changes' \in Nat
    BY DEF ChangeDir, ChangeFile, Inv, TypeOK
  <2>2. files' \in [Hooks -> {"exec", "none"}]
    BY DEF ChangeDir, ChangeFile, Inv, TypeOK
  <2>3. dir' \in BOOLEAN
    BY Zenon DEF ChangeDir, ChangeFile, Inv, TypeOK
  <2> QED
    BY <2>1, <2>2, <2>3
<1>3. TypeOK'
  BY <1>1, <1>2 DEF Inv, TypeOK, call, proc
<1>4. ASSUME NEW r \in Runs PROVE CallInv(r)'
  BY <1>1, CallFrame DEF Inv, State, call, proc
<1> QED
  BY <1>3, <1>4 DEF Inv

LEMMA DiscoverInv ==
  ASSUME Inv, NEW r \in Runs, Discover(r)
  PROVE  Inv'
<1> DEFINE found == (IF UseHook THEN {Single} ELSE {}) \cup (IF UseDir THEN listHookDir ELSE {})
<1>1. found \subseteq Hooks
  BY DEF listHookDir, Hooks
<1>2. /\ at[r] = "idle"
      /\ listed' = [listed EXCEPT ![r] = found]
      /\ hooks' = [hooks EXCEPT ![r] = found]
      /\ at' = [at EXCEPT ![r] = "loop"]
      /\ UNCHANGED <<files, dir, changes, input, current, failed, hook, child, out, orphan>>
  BY DEF Discover, fs, proc
<1> HIDE DEF found
<1>3. TypeOK'
  BY <1>1, <1>2 DEF Inv, TypeOK
<1>4. CallInv(r)'
  BY <1>2 DEF Inv, TypeOK, CallInv
<1>5. ASSUME NEW q \in Runs, q # r PROVE CallInv(q)'
  BY <1>2, <1>5, CallFrame DEF Inv, TypeOK, State
<1> QED
  BY <1>3, <1>4, <1>5 DEF Inv

LEMMA DiscoverFailsInv ==
  ASSUME Inv, NEW r \in Runs, DiscoverFails(r)
  PROVE  Inv'
<1>1. TypeOK'
  BY DEF DiscoverFails, Inv, TypeOK, fs, proc
<1>2. CallInv(r)'
  BY DEF DiscoverFails, Inv, TypeOK, CallInv, proc
<1>3. ASSUME NEW q \in Runs, q # r PROVE CallInv(q)'
  BY ZenonT(30), <1>3, CallFrame DEF DiscoverFails, Inv, TypeOK, State, proc
<1> QED
  BY <1>1, <1>2, <1>3 DEF Inv

LEMMA StartHookInv ==
  ASSUME Inv, NEW r \in Runs, StartHook(r)
  PROVE  Inv'
<1>1. PICK h \in hooks[r] :
        /\ IsNext(r, h)
        /\ hooks' = [hooks EXCEPT ![r] = @ \ {h}]
        /\ hook' = [hook EXCEPT ![r] = h]
        /\ child' = [child EXCEPT ![r] = IF files[h] = "exec" THEN "running" ELSE "failed"]
  BY ZenonT(30) DEF StartHook
<1>2. /\ at[r] = "loop"
      /\ out' = [out EXCEPT ![r] = Blank]
      /\ at' = [at EXCEPT ![r] = "cmd"]
      /\ UNCHANGED <<files, dir, changes, input, current, listed, failed, orphan>>
  BY DEF StartHook, fs
<1>3. h \in Hooks /\ Hooks \subseteq Nat /\ listed[r] \subseteq Hooks /\ hooks[r] \subseteq Hooks
  BY HooksNat DEF Inv, TypeOK
<1>4. TypeOK'
  BY <1>1, <1>2, <1>3 DEF Inv, TypeOK
<1>5. hooks'[r] = {g \in listed'[r] : g > hook'[r]} /\ hook'[r] \in listed'[r]
  <2>1. hooks'[r] = hooks[r] \ {h} /\ hook'[r] = h /\ listed'[r] = listed[r]
    BY <1>1, <1>2 DEF Inv, TypeOK
  <2>2. h \in listed[r] /\ hooks[r] \subseteq listed[r]
    BY DEF Inv, CallInv
  <2>3. (\A g \in hooks[r] : h <= g) /\ (\A g \in listed[r] : h <= g => g \in hooks[r])
    BY <1>1 DEF Inv, CallInv, IsNext
  <2>4. ASSUME NEW g \in listed[r] PROVE g \in hooks[r] \ {h} <=> g > h
    <3>1. g \in Nat /\ h \in Nat
      BY ZenonT(30), <1>3
    <3> QED
      BY <2>3, <3>1
  <2> QED
    BY <2>1, <2>2, <2>4
<1>6. CallInv(r)'
  <2>1. ASSUME NEW f \in hooks'[r], NEW g \in listed'[r], f <= g PROVE g \in hooks'[r]
    <3>1. f > hook'[r] /\ f \in listed'[r]
      BY <1>5
    <3>2. f \in Nat /\ g \in Nat /\ hook'[r] \in Nat
      BY ZenonT(30), <1>2, <1>3, <1>5, <3>1
    <3>3. g > hook'[r]
      BY <2>1, <3>1, <3>2
    <3> QED
      BY <1>5, <3>3
  <2> QED
    BY SMTT(30), <1>1, <1>2, <1>5, <2>1 DEF Inv, TypeOK, CallInv
<1>7. ASSUME NEW q \in Runs, q # r PROVE CallInv(q)'
  BY <1>1, <1>2, <1>7, CallFrame DEF Inv, TypeOK, State
<1> QED
  BY <1>4, <1>6, <1>7 DEF Inv

(* The hook's process changes only itself. *)
LEMMA ProcessInv ==
  ASSUME Inv, NEW r \in Runs, KillHook(r) \/ Process(r)
  PROVE  Inv'
<1>1. TypeOK'
  <2>1. UNCHANGED <<files, dir, changes, at, input, current, listed, hooks, failed, hook>>
    BY SMTT(30) DEF KillHook, Process, HookPrints, HookExits, HookForks, OrphanExits, fs, call
  <2>2. child' \in [Runs -> {"none", "running", "ok", "failed"}] /\ orphan' \in [Runs -> BOOLEAN]
    BY ZenonT(30) DEF KillHook, Process, HookPrints, HookExits, HookForks, OrphanExits, Inv, TypeOK
  <2>3. Prints[hook[r]][current[r]] \subseteq XML \cup {Blank}
    BY PrintsAssumption DEF Inv, TypeOK
  <2>4. out' \in [Runs -> XML \cup {Blank, Torn}]
    BY <2>3 DEF KillHook, Process, HookPrints, HookExits, HookForks, OrphanExits, Inv, TypeOK
  <2> QED
    BY <2>1, <2>2, <2>4 DEF Inv, TypeOK
<1>2. CallInv(r)'
  BY SMTT(30) DEF KillHook, Process, HookPrints, HookExits, HookForks, OrphanExits,
         Inv, TypeOK, CallInv, call
<1>3. ASSUME NEW q \in Runs, q # r PROVE CallInv(q)'
  BY SMTT(30), <1>3, CallFrame DEF KillHook, Process, HookPrints, HookExits, HookForks, OrphanExits,
         Inv, TypeOK, State, call
<1> QED
  BY <1>1, <1>2, <1>3 DEF Inv

LEMMA HookReturnsInv ==
  ASSUME Inv, NEW r \in Runs, HookReturns(r)
  PROVE  Inv'
<1> DEFINE new == IF child[r] = "ok" /\ out[r] # Blank THEN out[r] ELSE current[r]
<1>1. new \in Chain[input[r]] /\ new \in XML
  <2>1. input[r] \in XML /\ hook[r] \in Hooks /\ current[r] \in XML
    BY DEF Inv, TypeOK
  <2>2. current[r] \in Chain[input[r]] /\ Chain[input[r]] \subseteq XML
    BY <2>1, ChainAssumption DEF Inv, CallInv
  <2>3. Prints[hook[r]][current[r]] \ {Blank} \subseteq Chain[input[r]]
    BY SMTT(30), <2>1, <2>2, ChainAssumption
  <2>4. child[r] = "ok" => out[r] \in Prints[hook[r]][current[r]]
    BY DEF Inv, CallInv
  <2> QED
    BY SMTT(30), <2>2, <2>3, <2>4
<1>2. /\ at[r] = "cmd"
      /\ current' = [current EXCEPT ![r] = new]
      /\ child' = [child EXCEPT ![r] = "none"]
      /\ at' = [at EXCEPT ![r] = "loop"]
      /\ UNCHANGED <<files, dir, changes, input, listed, hooks, failed, hook, out, orphan>>
  BY DEF HookReturns, fs
<1> HIDE DEF new
<1>3. TypeOK'
  BY SMTT(30), <1>1, <1>2 DEF Inv, TypeOK
<1>4. CallInv(r)'
  BY SMTT(30), <1>1, <1>2 DEF Inv, TypeOK, CallInv
<1>5. ASSUME NEW q \in Runs, q # r PROVE CallInv(q)'
  BY <1>2, <1>5, CallFrame DEF Inv, TypeOK, State
<1> QED
  BY <1>3, <1>4, <1>5 DEF Inv

LEMMA RunReturnsInv ==
  ASSUME Inv, NEW r \in Runs, RunReturns(r)
  PROVE  Inv'
<1>1. TypeOK'
  BY DEF RunReturns, Inv, TypeOK, fs, proc
<1>2. CallInv(r)'
  BY SMTT(30) DEF RunReturns, Inv, TypeOK, CallInv, proc
<1>3. ASSUME NEW q \in Runs, q # r PROVE CallInv(q)'
  BY <1>3, CallFrame DEF RunReturns, Inv, TypeOK, State, proc
<1> QED
  BY <1>1, <1>2, <1>3 DEF Inv

LEMMA NextInv == Inv /\ [Next]_vars => Inv'
<1> SUFFICES ASSUME Inv, [Next]_vars PROVE Inv'
  OBVIOUS
<1>1. CASE ChangeDir \/ \E h \in Hooks : ChangeFile(h)
  BY <1>1, OperatorInv
<1>2. CASE \E r \in Runs : Run(r) \/ KillHook(r) \/ Process(r)
  BY <1>2, DiscoverInv, DiscoverFailsInv, StartHookInv, HookReturnsInv, RunReturnsInv,
     ProcessInv DEF Run
<1>3. CASE UNCHANGED vars
  <2>1. TypeOK'
    BY <1>3 DEF Inv, TypeOK, vars
  <2>2. ASSUME NEW r \in Runs PROVE CallInv(r)'
    BY SMTT(30), <1>3, CallFrame DEF Inv, State, vars
  <2> QED
    BY <2>1, <2>2 DEF Inv
<1> QED
  BY <1>1, <1>2, <1>3 DEF Next

(* The inductive invariant holds in every reachable state of HookChain.Run. *)
THEOREM Invariance == Spec => []Inv
  BY InitInv, NextInv, PTL DEF Spec

(* Every variable keeps its type: the current document is one, never torn. *)
THEOREM TypeCorrect == Spec => []TypeOK
<1>1. Inv => TypeOK
  BY DEF Inv
<1> QED
  BY <1>1, Invariance, PTL

(* Run returns only what successful hooks made of its input (hook.go:147-156). *)
THEOREM ResultIsFromHooks == Spec => []ResultFromHooks
<1>1. Inv => ResultFromHooks
  BY ZenonT(30) DEF Inv, CallInv, ResultFromHooks
<1> QED
  BY <1>1, Invariance, PTL

(* Every listed hook is run, in alphabetical order, one at a time. *)
THEOREM OrderKept == Spec => []AlphabeticalAndComplete
<1>1. Inv => AlphabeticalAndComplete
  BY DEF Inv, CallInv, AlphabeticalAndComplete
<1> QED
  BY <1>1, Invariance, PTL

(* A listing that fails leaves the input as it was (hook.go:135-137). *)
THEOREM ErrorHarmless == Spec => []ErrorReturnsInput
<1>1. Inv => ErrorReturnsInput
  BY DEF Inv, CallInv, ErrorReturnsInput
<1> QED
  BY <1>1, Invariance, PTL

-----------------------------------------------------------------------------
(* The chain of minikube. *)

(* A document of a worker comes out fit, with an interface only if it had none. *)
LEMMA ProcessedIsFit ==
  ASSUME NEW d \in Documents
  PROVE  LET e == process_xml_stream(d) IN
         e = d \/ /\ d.worker /\ e.worker
                  /\ Fit(e)
                  /\ Interfaces(e) = IF Interfaces(d) = 0 THEN 1 ELSE Interfaces(d)
<1> DEFINE a == ensure_iommu(ensure_ioapic(ensure_machine_type(d)))
           b == ensure_igb_interface(a)
           e == process_xml_stream(d)
<1>1. /\ a \in Documents
      /\ a.worker = d.worker /\ a.igb = d.igb /\ a.igbElse = d.igbElse
      /\ a.ioapic = "qemu" /\ a.iommu = "intel"
      /\ a.machine \in {"none", "q35", "q35versioned"}
  BY ZenonT(30) DEF Documents, Machines, ensure_machine_type, ensure_ioapic, ensure_iommu
<1>2. /\ b \in Documents
      /\ b.worker = a.worker /\ b.ioapic = a.ioapic /\ b.iommu = a.iommu /\ b.machine = a.machine
      /\ b.igbElse = a.igbElse
      /\ b.igb = IF a.igb + a.igbElse > 0 THEN a.igb ELSE a.igb + 1
  BY <1>1 DEF Documents, Interfaces, ensure_igb_interface
<1>3. e = d \/ (d.worker /\ e = [b EXCEPT !.written = TRUE])
  BY DEF process_xml_stream
<1>4. CASE d.worker /\ e = [b EXCEPT !.written = TRUE]
  <2>1. /\ e.worker /\ e.ioapic = "qemu" /\ e.iommu = "intel"
        /\ e.machine \in {"none", "q35", "q35versioned"}
        /\ e.igb = b.igb /\ e.igbElse = b.igbElse
    BY ZenonT(30), <1>1, <1>2, <1>4 DEF Documents
  <2>2. d.igb \in Nat /\ d.igbElse \in Nat
    BY DEF Documents
  <2> QED
    BY <1>1, <1>2, <1>4, <2>1, <2>2 DEF Fit, Interfaces
<1> QED
  BY <1>3, <1>4

(* The script finds nothing to do in a document that is fit. *)
LEMMA FitIsKept ==
  ASSUME NEW d \in Documents, Fit(d)
  PROVE  process_xml_stream(d) = d
<1>1. ensure_machine_type(d) = d
  BY DEF Documents, Fit, ensure_machine_type
<1>2. ensure_ioapic(d) = d /\ ensure_iommu(d) = d
  BY DEF Documents, Fit, ensure_ioapic, ensure_iommu
<1>3. ensure_igb_interface(d) = d
  BY DEF Fit, Interfaces, ensure_igb_interface
<1> QED
  BY <1>1, <1>2, <1>3 DEF process_xml_stream

(* A second run of the script changes nothing. *)
THEOREM DramachineIdempotent ==
  ASSUME NEW d \in Documents, process_xml_stream(d) \in Documents
  PROVE  process_xml_stream(process_xml_stream(d)) = process_xml_stream(d)
  BY ProcessedIsFit, FitIsKept

-----------------------------------------------------------------------------
(* The document is the call's input, or what the script makes of it. *)
OnceOrNever == \A r \in Runs : current[r] \in {input[r], process_xml_stream(input[r])}

(* Only the return of a hook changes a document, and only its own call's. *)
LEMMA DocumentStep ==
  ASSUME TypeOK, [Next]_vars, NEW r \in Runs
  PROVE  input'[r] = input[r] /\ (current'[r] = current[r] \/ HookReturns(r))
<1>1. CASE ChangeDir \/ \E h \in Hooks : ChangeFile(h)
  BY SMTT(30), <1>1 DEF ChangeDir, ChangeFile, call
<1>2. ASSUME NEW q \in Runs, Discover(q) \/ DiscoverFails(q) \/ StartHook(q) \/ RunReturns(q)
      PROVE  input' = input /\ current' = current
  BY <1>2 DEF Discover, DiscoverFails, StartHook, RunReturns
<1>3. ASSUME NEW q \in Runs, HookReturns(q)
      PROVE  input' = input /\ (q # r => current'[r] = current[r])
  BY <1>3 DEF HookReturns, TypeOK
<1>4. ASSUME NEW q \in Runs, KillHook(q) \/ Process(q) PROVE input' = input /\ current' = current
  BY SMTT(30), <1>4 DEF KillHook, Process, HookPrints, HookExits, HookForks, OrphanExits, call
<1>5. CASE UNCHANGED vars
  BY <1>5 DEF vars
<1> QED
  BY SMTT(30), <1>1, <1>2, <1>3, <1>4, <1>5 DEF Next, Run

LEMMA OnceOrNeverStep == Inv /\ OnceOrNever /\ [Next]_vars => OnceOrNever'
<1> SUFFICES ASSUME Inv, OnceOrNever, [Next]_vars, NEW r \in Runs
             PROVE  current'[r] \in {input'[r], process_xml_stream(input'[r])}
  BY SMTT(30) DEF OnceOrNever
<1>0. TypeOK /\ CallInv(r)
  BY DEF Inv
<1>1. /\ input'[r] = input[r]
      /\ current'[r] = current[r] \/ HookReturns(r)
      /\ current[r] \in {input[r], process_xml_stream(input[r])}
  BY SMTT(30), <1>0, DocumentStep DEF OnceOrNever
<1>2. ASSUME HookReturns(r), current'[r] # current[r]
      PROVE  current'[r] = process_xml_stream(current[r])
  <2>1. child[r] = "ok" /\ out[r] # Blank /\ current'[r] = out[r]
    BY <1>0, <1>2 DEF HookReturns, TypeOK
  <2>2. out[r] \in Prints[hook[r]][current[r]]
    BY <1>0, <2>1 DEF CallInv
  <2>3. hook[r] \in Hooks /\ current[r] \in XML
    BY <1>0 DEF TypeOK
  <2> QED
    BY <1>2, <2>1, <2>2, <2>3, NodeHooksAssumption
<1>3. input[r] \in Documents /\ current[r] \in Documents
  BY SMTT(30), <1>0, NodeHooksAssumption DEF TypeOK
<1>4. current[r] = process_xml_stream(input[r]) => process_xml_stream(current[r]) = current[r]
  BY <1>3, DramachineIdempotent
<1> QED
  BY SMTT(30), <1>1, <1>2, <1>4

(***************************************************************************)
(* libvirtd gets every domain either as it was sent or as one run of       *)
(* dramachine.py makes it, with every change it is for.                    *)
(***************************************************************************)
THEOREM AllOrNothing == Spec => []FitOrUntouched
<1>1. Init => OnceOrNever
  BY DEF Init, OnceOrNever
<1>2. Inv /\ OnceOrNever => FitOrUntouched
  <2> SUFFICES ASSUME Inv, OnceOrNever, NEW r \in Runs, current[r] # input[r]
               PROVE  /\ input[r].worker
                      /\ Fit(current[r])
                      /\ Interfaces(current[r]) =
                           IF Interfaces(input[r]) = 0 THEN 1 ELSE Interfaces(input[r])
    BY DEF FitOrUntouched
  <2>1. current[r] = process_xml_stream(input[r]) /\ input[r] \in Documents
    BY NodeHooksAssumption DEF OnceOrNever, Inv, TypeOK
  <2> QED
    BY <2>1, ProcessedIsFit
<1> QED
  BY <1>1, <1>2, OnceOrNeverStep, Invariance, PTL DEF Spec

=============================================================================
