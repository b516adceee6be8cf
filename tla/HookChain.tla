------------------------------ MODULE HookChain -----------------------------
(***************************************************************************)
(* HookChain.Run and the hook processes it starts (virtinjectd/hook.go).   *)
(*                                                                         *)
(* Each call of Run is made by the goroutine of one connection, so calls   *)
(* run side by side; they share only the hook files, which an operator may *)
(* add, remove or make unexecutable at any time.  A hook is a process of   *)
(* its own: it prints when it likes, exits with any status, hangs, or      *)
(* leaves a process of its own behind.                                     *)
(***************************************************************************)
EXTENDS Naturals

CONSTANTS
  Runs,       \* the calls of Run
  Inputs,     \* the documents Run may be called with
  XML,        \* the domain documents
  Blank,      \* standard output that is empty or all white space
  Torn,       \* standard output cut off in the middle
  DirHooks,   \* names in the hook directory; < is the alphabetical order
  UseHook,    \* --hook was given
  UseDir,     \* --hook-dir was given
  Prints,     \* Prints[h][x]: what hook h may print for x and then succeed
  Chain,      \* Chain[x]: the documents the hooks can make of x, in any way
  Forks,      \* hooks may leave a process behind that holds their output
  MaxChanges  \* bound: changes the operator makes to the hook files

(* The hook of --hook comes first; its place in the list is 0. *)
Single == 0
Hooks  == DirHooks \cup {Single}

ASSUME HooksAssumption == DirHooks \subseteq Nat \ {0}
ASSUME ConfiguredAssumption == UseHook \in BOOLEAN /\ UseDir \in BOOLEAN /\ (UseHook \/ UseDir)
ASSUME OutputAssumption == Blank \notin XML /\ Torn \notin XML \cup {Blank}
ASSUME InputsAssumption == Inputs \subseteq XML
ASSUME PrintsAssumption == Prints \in [Hooks -> [XML -> SUBSET (XML \cup {Blank})]]
ASSUME ChainAssumption ==
  /\ Chain \in [XML -> SUBSET XML]
  /\ \A x \in XML : x \in Chain[x]
  /\ \A x \in XML, h \in Hooks : \A y \in Chain[x] : Prints[h][y] \ {Blank} \subseteq Chain[x]
ASSUME ForksAssumption == Forks \in BOOLEAN /\ MaxChanges \in Nat

VARIABLES
  files,    \* files[h]: "exec" a regular executable file, "none" another one or no file
  dir,      \* the hook directory can be read
  changes,  \* changes made so far
  at,       \* at[r]: "idle", "loop", "cmd" (within runHook), "done"
  input,    \* input[r]: xmlInput of Run
  current,  \* current[r]: currentXML
  listed,   \* listed[r]: the hooks found when the call began
  hooks,    \* hooks[r]: those not yet started
  failed,   \* failed[r]: Run returned an error
  hook,     \* hook[r]: the hook being run
  child,    \* child[r]: its process: "none", "running", "ok", "failed"
  out,      \* out[r]: what it has printed
  orphan    \* orphan[r]: a process it left behind holds its output open

fs   == <<files, dir, changes>>
call == <<at, input, current, listed, hooks, failed>>
proc == <<hook, child, out, orphan>>
vars == <<files, dir, changes, at, input, current, listed, hooks, failed,
          hook, child, out, orphan>>

TypeOK ==
  /\ files \in [Hooks -> {"exec", "none"}]
  /\ dir \in BOOLEAN
  /\ changes \in Nat
  /\ at \in [Runs -> {"idle", "loop", "cmd", "done"}]
  /\ input \in [Runs -> XML]
  /\ current \in [Runs -> XML]
  /\ listed \in [Runs -> SUBSET Hooks]
  /\ hooks \in [Runs -> SUBSET Hooks]
  /\ failed \in [Runs -> BOOLEAN]
  /\ hook \in [Runs -> Hooks]
  /\ child \in [Runs -> {"none", "running", "ok", "failed"}]
  /\ out \in [Runs -> XML \cup {Blank, Torn}]
  /\ orphan \in [Runs -> BOOLEAN]

(* NewHookChain has accepted the hook file and the directory. *)
NewHookChain ==
  /\ files \in [Hooks -> {"exec", "none"}]
  /\ UseHook => files[Single] = "exec"
  /\ dir = UseDir

Init ==
  /\ NewHookChain
  /\ changes = 0
  /\ at = [r \in Runs |-> "idle"]
  /\ input \in [Runs -> Inputs]
  /\ current = input
  /\ listed = [r \in Runs |-> {}]
  /\ hooks = [r \in Runs |-> {}]
  /\ failed = [r \in Runs |-> FALSE]
  /\ hook = [r \in Runs |-> Single]
  /\ child = [r \in Runs |-> "none"]
  /\ out = [r \in Runs |-> Blank]
  /\ orphan = [r \in Runs |-> FALSE]

-----------------------------------------------------------------------------
(* The operator. *)

ChangeFile(h) ==
  /\ changes < MaxChanges
  /\ \E a \in {"exec", "none"} \ {files[h]} : files' = [files EXCEPT ![h] = a]
  /\ changes' = changes + 1
  /\ UNCHANGED <<dir, call, proc>>

ChangeDir ==
  /\ changes < MaxChanges
  /\ UseDir
  /\ dir' = ~dir
  /\ changes' = changes + 1
  /\ UNCHANGED <<files, call, proc>>

-----------------------------------------------------------------------------
(* HookChain.Run. *)

(* The executable regular files of the directory. *)
listHookDir == {h \in DirHooks : files[h] = "exec"}

(* The hooks are collected before any of them is run. *)
Discover(r) ==
  LET found == (IF UseHook THEN {Single} ELSE {}) \cup (IF UseDir THEN listHookDir ELSE {}) IN
  /\ at[r] = "idle"
  /\ UseDir => dir
  /\ listed' = [listed EXCEPT ![r] = found]
  /\ hooks' = [hooks EXCEPT ![r] = found]
  /\ at' = [at EXCEPT ![r] = "loop"]
  /\ UNCHANGED <<fs, input, current, failed, proc>>

(* Mutant: the --hook script has already been applied when the listing fails. *)
DiscoverFails_late(r) ==
  /\ at[r] = "idle"
  /\ UseDir /\ ~dir
  /\ failed' = [failed EXCEPT ![r] = TRUE]
  /\ \E y \in {current[r]} \cup IF UseHook THEN Prints[Single][current[r]] \ {Blank} ELSE {} :
       current' = [current EXCEPT ![r] = y]
  /\ at' = [at EXCEPT ![r] = "done"]
  /\ UNCHANGED <<fs, input, listed, hooks, proc>>

(* The directory cannot be listed: Run returns before running any hook. *)
DiscoverFails(r) ==
  /\ at[r] = "idle"
  /\ UseDir /\ ~dir
  /\ failed' = [failed EXCEPT ![r] = TRUE]
  /\ at' = [at EXCEPT ![r] = "done"]
  /\ UNCHANGED <<fs, input, current, listed, hooks, proc>>

(* Mutant: the hooks are run in the order the directory happens to yield. *)
IsNext_unsorted(r, h) == h \in hooks[r]

(* The next hook, in alphabetical order. *)
IsNext(r, h) == h \in hooks[r] /\ \A g \in hooks[r] : h <= g

(***************************************************************************)
(* cmd.Start: a file that is gone or not executable by now cannot be       *)
(* started, and runHook fails with the document unchanged.                 *)
(***************************************************************************)
StartHook(r) ==
  /\ at[r] = "loop"
  /\ \E h \in hooks[r] :
       /\ IsNext(r, h)
       /\ hooks' = [hooks EXCEPT ![r] = @ \ {h}]
       /\ hook' = [hook EXCEPT ![r] = h]
       /\ child' = [child EXCEPT ![r] = IF files[h] = "exec" THEN "running" ELSE "failed"]
  /\ out' = [out EXCEPT ![r] = Blank]
  /\ at' = [at EXCEPT ![r] = "cmd"]
  /\ UNCHANGED <<fs, input, current, listed, failed, orphan>>

(* Mutant: the command is run without the context's deadline. *)
KillHook_never(r) ==
  /\ FALSE
  /\ UNCHANGED vars

(* hookTimeout expires: the context kills the hook's process. *)
KillHook(r) ==
  /\ child[r] = "running"
  /\ child' = [child EXCEPT ![r] = "failed"]
  /\ UNCHANGED <<fs, call, hook, out, orphan>>

(* Mutant: the output buffer belongs to the chain and is shared by its calls. *)
HookReturns_sharedBuffer(r) ==
  /\ at[r] = "cmd"
  /\ child[r] \in {"ok", "failed"}
  /\ ~orphan[r]
  /\ \E q \in Runs :
       current' = [current EXCEPT ![r] = IF child[r] = "ok" /\ child[q] = "ok" /\ out[q] # Blank
                                         THEN out[q] ELSE @]
  /\ child' = [child EXCEPT ![r] = "none"]
  /\ at' = [at EXCEPT ![r] = "loop"]
  /\ UNCHANGED <<fs, input, listed, hooks, failed, hook, out, orphan>>

(* Mutant: blank output is taken for a document. *)
HookReturns_takesBlank(r) ==
  /\ at[r] = "cmd"
  /\ child[r] \in {"ok", "failed"}
  /\ ~orphan[r]
  /\ current' = [current EXCEPT ![r] = IF child[r] = "ok" THEN out[r] ELSE @]
  /\ child' = [child EXCEPT ![r] = "none"]
  /\ at' = [at EXCEPT ![r] = "loop"]
  /\ UNCHANGED <<fs, input, listed, hooks, failed, hook, out, orphan>>

(***************************************************************************)
(* cmd.Run returns: the process has been waited for, and the goroutines    *)
(* that copy its output have seen the end of their pipes, which they do    *)
(* when nobody holds the write ends any more.                              *)
(***************************************************************************)
HookReturns(r) ==
  /\ at[r] = "cmd"
  /\ child[r] \in {"ok", "failed"}
  /\ ~orphan[r]
  /\ current' = [current EXCEPT ![r] = IF child[r] = "ok" /\ out[r] # Blank THEN out[r] ELSE @]
  /\ child' = [child EXCEPT ![r] = "none"]
  /\ at' = [at EXCEPT ![r] = "loop"]
  /\ UNCHANGED <<fs, input, listed, hooks, failed, hook, out, orphan>>

RunReturns(r) ==
  /\ at[r] = "loop"
  /\ hooks[r] = {}
  /\ at' = [at EXCEPT ![r] = "done"]
  /\ UNCHANGED <<fs, input, current, listed, hooks, failed, proc>>

-----------------------------------------------------------------------------
(* The hook's process, and a process it leaves behind. *)

HookPrints(r) ==
  /\ child[r] = "running"
  /\ out[r] \in {Blank, Torn}
  /\ \E o \in Prints[hook[r]][current[r]] \cup {Torn} : out' = [out EXCEPT ![r] = o]
  /\ UNCHANGED <<fs, call, hook, child, orphan>>

HookExits(r) ==
  /\ child[r] = "running"
  /\ \/ /\ out[r] \in Prints[hook[r]][current[r]]
        /\ child' = [child EXCEPT ![r] = "ok"]
     \/ child' = [child EXCEPT ![r] = "failed"]
  /\ UNCHANGED <<fs, call, hook, out, orphan>>

HookForks(r) ==
  /\ Forks
  /\ child[r] = "running"
  /\ orphan' = [orphan EXCEPT ![r] = TRUE]
  /\ UNCHANGED <<fs, call, hook, child, out>>

OrphanExits(r) ==
  /\ orphan[r]
  /\ orphan' = [orphan EXCEPT ![r] = FALSE]
  /\ UNCHANGED <<fs, call, hook, child, out>>

-----------------------------------------------------------------------------
Run(r) ==
  \/ Discover(r)
  \/ DiscoverFails(r)
  \/ StartHook(r)
  \/ HookReturns(r)
  \/ RunReturns(r)

Process(r) == HookPrints(r) \/ HookExits(r) \/ HookForks(r) \/ OrphanExits(r)

Next ==
  \/ ChangeDir
  \/ \E h \in Hooks : ChangeFile(h)
  \/ \E r \in Runs : Run(r) \/ KillHook(r) \/ Process(r)

Spec == Init /\ [][Next]_vars

(***************************************************************************)
(* The goroutine that called Run is scheduled and the timer of the context *)
(* fires.  Nothing is assumed of the hooks: one may hang for ever.         *)
(***************************************************************************)
Fairness == \A r \in Runs : WF_vars(Run(r)) /\ WF_vars(KillHook(r))

FairSpec == Spec /\ Fairness

-----------------------------------------------------------------------------
(***************************************************************************)
(* Whatever Run returns is a document some sequence of successful hooks    *)
(* makes of its input: output of a hook that failed or was killed, torn or *)
(* complete, never gets into a document.  This is what module Proxy        *)
(* assumes of Chain.                                                       *)
(***************************************************************************)
ResultFromHooks == \A r \in Runs : current[r] \in Chain[input[r]]

(***************************************************************************)
(* A hook is started only when all listed hooks before it are over, and    *)
(* none is skipped: one that fails, hangs or disappears after the listing  *)
(* does not keep the later ones from running (hook.go:119-121), and a file *)
(* added after the listing is not run.                                     *)
(***************************************************************************)
AlphabeticalAndComplete ==
  \A r \in Runs :
     /\ at[r] = "cmd" => /\ hook[r] \in listed[r]
                        /\ hooks[r] = {h \in listed[r] : h > hook[r]}
     /\ at[r] = "done" => hooks[r] = {}

(***************************************************************************)
(* When the directory cannot be listed, Run returns its input: the error   *)
(* is raised before the --hook script, too, had a chance to run.           *)
(***************************************************************************)
ErrorReturnsInput == \A r \in Runs : failed[r] => current[r] = input[r] /\ listed[r] = {}

(***************************************************************************)
(* "This prevents broken or hanging hooks from blocking the virtinjectd    *)
(* process indefinitely." (hook.go:29-30): a call of Run returns.          *)
(***************************************************************************)
RunEventuallyReturns == \A r \in Runs : at[r] # "idle" ~> at[r] = "done"

(***************************************************************************)
(* Nothing a hook does, or fails to do, holds a call of Run up for ever,   *)
(* except a process it left behind that keeps its output open: with the    *)
(* process gone the call goes on (hookTimeout and the exec.CommandContext  *)
(* of runHook).                                                            *)
(***************************************************************************)
ReturnsUnlessHeld == \A r \in Runs : at[r] # "idle" ~> at[r] = "done" \/ orphan[r]

=============================================================================
