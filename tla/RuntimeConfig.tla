---------------------------- MODULE RuntimeConfig ---------------------------
(***************************************************************************)
(* setup-runtime: the script (setup/pkg/containerd/setup-runtime.sh.tmpl)  *)
(* that rewrites containerd's config.toml in place with the tool           *)
(* setup-runtime-containerd (setup/containerd, setup/pkg/containerd) and   *)
(* restarts containerd.  The init containers of the CPU and of the memory  *)
(* driver and the pods of the setup Job all run it, so several scripts may *)
(* be at work on the file of one node, and each may be killed anywhere.    *)
(*                                                                         *)
(* A configuration is the set of the settings in it.  "plugins" and "cri"  *)
(* stand for the tables plugins and plugins."io.containerd.grpc.v1.cri";   *)
(* "NRI", "CDI" and "hugepages" for the values the tool sets; "oldNRI",    *)
(* "oldCDI" and "oldHugepages" for other values of the same keys.          *)
(***************************************************************************)

CONSTANTS
  Nodes,       \* the machines, each with a config.toml and a containerd
  Installers,  \* the runs of the script
  Other,       \* settings the tool knows nothing of
  Originals,   \* what config.toml may hold before any of the runs
  Unparsable,  \* a file that is not TOML
  Missing,     \* no file
  Down,        \* containerd did not come up
  NoNode       \* where a script that was not started runs

NRIKeys == {"NRI", "oldNRI"}
CRIKeys == {"CDI", "oldCDI", "hugepages", "oldHugepages"}
Settings == Other \cup NRIKeys \cup CRIKeys \cup {"plugins", "cri"}

(* The keys of a table are there only with the table. *)
Confs == {c \in SUBSET Settings :
            /\ ("cri" \in c \/ c \cap NRIKeys # {}) => "plugins" \in c
            /\ c \cap CRIKeys # {} => "cri" \in c}

Files == {Unparsable, Missing} \cup Confs

Parses(f) == f \notin {Unparsable, Missing}

ASSUME NodesAssumption == NoNode \notin Nodes
ASSUME FilesAssumption ==
  /\ \A c \in Confs : c \notin {Unparsable, Missing, Down}
  /\ Unparsable # Missing
ASSUME OriginalsAssumption == Originals \subseteq Files
ASSUME OtherAssumption == Other \cap (NRIKeys \cup CRIKeys \cup {"plugins", "cri"}) = {}

VARIABLES
  orig,    \* orig[n]: config.toml as it was at first
  file,    \* file[n]: config.toml
  loaded,  \* loaded[n]: the configuration containerd runs with
  pc,      \* pc[i]: where the script is
  on,      \* on[i]: the node it runs on
  buf,     \* buf[i]: outBuf, what ConfigInplace is about to write, until it has
  hurt     \* hurt[n]: the file was read while another run had it truncated, or left so

vars == <<orig, file, loaded, pc, on, buf, hurt>>

(* Ended: "restarted" and "skipped" (the tool failed) exit with status 0. *)
Over == {"restarted", "skipped", "failed", "killed"}
Busy == {"started", "processed", "truncated", "written"}

TypeOK ==
  /\ orig \in [Nodes -> Originals]
  /\ file \in [Nodes -> Files]
  /\ loaded \in [Nodes -> {Down} \cup Confs]
  /\ pc \in [Installers -> {"idle"} \cup Busy \cup Over]
  /\ on \in [Installers -> Nodes \cup {NoNode}]
  /\ \A i \in Installers : on[i] = NoNode <=> pc[i] = "idle"
  /\ buf \in [Installers -> Confs]
  /\ hurt \in [Nodes -> BOOLEAN]

(* What containerd starts with; without a file, with its defaults. *)
Load(f) == IF Parses(f) THEN f ELSE IF f = Missing THEN {} ELSE Down

Init ==
  /\ orig \in [Nodes -> Originals]
  /\ file = orig
  /\ loaded = [n \in Nodes |-> Load(orig[n])]
  /\ pc = [i \in Installers |-> "idle"]
  /\ on = [i \in Installers |-> NoNode]
  /\ buf = [i \in Installers |-> {}]
  /\ hurt = [n \in Nodes |-> FALSE]

-----------------------------------------------------------------------------
(* The tool's changes to the document. *)

processNRI(plugins) == (plugins \ {"oldNRI"}) \cup {"NRI"}

processCDI(cri) == (cri \ {"oldCDI"}) \cup {"CDI"}

processHugepages(cri) == (cri \ {"oldHugepages"}) \cup {"hugepages"}

(* Mutant: the old table stays beside the new one. *)
process_merges(conf) ==
  IF "plugins" \notin conf THEN conf
  ELSE IF "cri" \notin conf THEN conf \cup {"NRI"}
  ELSE processHugepages(processCDI(conf \cup {"NRI"}))

(* Mutant: the CRI table is not looked up first. *)
process_blindly(conf) ==
  IF "plugins" \notin conf THEN conf ELSE processHugepages(processCDI(processNRI(conf)))

process(conf) ==
  IF "plugins" \notin conf THEN conf
  ELSE IF "cri" \notin conf THEN processNRI(conf)
  ELSE processHugepages(processCDI(processNRI(conf)))

-----------------------------------------------------------------------------
On(n) == {i \in Installers : on[i] = n}

(* Runs between the truncation of the file and the write. *)
Truncated(n) == {i \in On(n) : pc[i] = "truncated"}

Step(i, from, to) == pc[i] = from /\ pc' = [pc EXCEPT ![i] = to]

Start(i, n) ==
  /\ Step(i, "idle", "started")
  /\ on' = [on EXCEPT ![i] = n]
  /\ UNCHANGED <<orig, file, loaded, buf, hurt>>

(***************************************************************************)
(* os.Lstat, os.ReadFile and ConfigStream, which touches only the buffers. *)
(***************************************************************************)
Read(i) ==
  /\ Step(i, "started", "processed")
  /\ Parses(file[on[i]])
  /\ buf' = [buf EXCEPT ![i] = process(file[on[i]])]
  /\ hurt' = [hurt EXCEPT ![on[i]] = @ \/ Truncated(on[i]) # {}]
  /\ UNCHANGED <<orig, file, loaded, on>>

(***************************************************************************)
(* No file, no TOML in it, or the file cannot be read or opened: the tool  *)
(* exits with 127, and the script, whose if it is the condition of, with 0.*)
(***************************************************************************)
ToolFails(i) ==
  /\ Step(i, "started", "skipped") \/ Step(i, "processed", "skipped")
  /\ buf' = [buf EXCEPT ![i] = {}]
  /\ UNCHANGED <<orig, file, loaded, on, hurt>>

(* os.WriteFile opens the file with O_TRUNC ... *)
Truncate(i) ==
  /\ Step(i, "processed", "truncated")
  /\ file' = [file EXCEPT ![on[i]] = {}]
  /\ UNCHANGED <<orig, loaded, on, buf, hurt>>

(* What can be in the file when a part of new was written over old. *)
Torn(new, old) ==
  {c \in Confs : c \subseteq new \cup IF Parses(old) THEN old ELSE {}} \cup {Unparsable}

(***************************************************************************)
(* Two runs that have both truncated the file both write from its start:   *)
(* the end of a longer old text is left behind a shorter new one.          *)
(***************************************************************************)
Overlay(new, old) ==
  IF new = {} THEN {old}
  ELSE IF old \in {{}, new} THEN {new}
  ELSE {new} \cup Torn(new, old)

(* ... and then writes it; the tool exits with 0. *)
Write(i) ==
  /\ Step(i, "truncated", "written")
  /\ \E f \in Overlay(buf[i], file[on[i]]) : file' = [file EXCEPT ![on[i]] = f]
  /\ buf' = [buf EXCEPT ![i] = {}]
  /\ UNCHANGED <<orig, loaded, on, hurt>>

(* The disk is full. *)
WriteFails(i) ==
  /\ Step(i, "truncated", "skipped")
  /\ \E f \in Torn(buf[i], file[on[i]]) : file' = [file EXCEPT ![on[i]] = f]
  /\ buf' = [buf EXCEPT ![i] = {}]
  /\ hurt' = [hurt EXCEPT ![on[i]] = TRUE]
  /\ UNCHANGED <<orig, loaded, on>>

(* Mutant: a containerd another run has restarted is left alone. *)
Restart_once(i) ==
  /\ Step(i, "written", "restarted")
  /\ file[on[i]] # Unparsable
  /\ loaded' = [loaded EXCEPT ![on[i]] =
       IF \E j \in On(on[i]) : pc[j] = "restarted" THEN @ ELSE Load(file[on[i]])]
  /\ UNCHANGED <<orig, file, on, buf, hurt>>

(* systemctl restart containerd *)
Restart(i) ==
  /\ Step(i, "written", "restarted")
  /\ file[on[i]] # Unparsable
  /\ loaded' = [loaded EXCEPT ![on[i]] = Load(file[on[i]])]
  /\ UNCHANGED <<orig, file, on, buf, hurt>>

(* nsenter or systemctl fails, with containerd as it was or gone. *)
RestartFails(i) ==
  /\ Step(i, "written", "failed")
  /\ loaded' \in {loaded, [loaded EXCEPT ![on[i]] = Down]}
  /\ UNCHANGED <<orig, file, on, buf, hurt>>

(* The container is killed. *)
Kill(i) ==
  /\ pc[i] \in Busy
  /\ pc' = [pc EXCEPT ![i] = "killed"]
  /\ buf' = [buf EXCEPT ![i] = {}]
  /\ hurt' = [hurt EXCEPT ![on[i]] = @ \/ pc[i] = "truncated"]
  /\ UNCHANGED <<orig, file, loaded, on>>

-----------------------------------------------------------------------------
Script(i) ==
  \/ Read(i)
  \/ ToolFails(i)
  \/ Truncate(i)
  \/ Write(i)
  \/ WriteFails(i)
  \/ Restart(i)
  \/ RestartFails(i)

Next == \E i \in Installers : (\E n \in Nodes : Start(i, n)) \/ Script(i) \/ Kill(i)

Spec == Init /\ [][Next]_vars

-----------------------------------------------------------------------------
(***************************************************************************)
(* What the tool is for, told without the way it goes about it: the        *)
(* settings it manages have its values as far as their tables exist, and   *)
(* every other setting is what it was.                                     *)
(***************************************************************************)
Configured(old, new) ==
  /\ new \ (NRIKeys \cup CRIKeys) = old \ (NRIKeys \cup CRIKeys)
  /\ new \cap NRIKeys = IF "plugins" \in old THEN {"NRI"} ELSE {}
  /\ new \cap CRIKeys = IF "cri" \in old THEN {"CDI", "hugepages"} ELSE {}

(***************************************************************************)
(* No setting is lost, whatever runs of the script overlap, fail or are    *)
(* killed, unless one of them was killed, or ran out of disk, between its  *)
(* truncation and its write, or another one read the file in between       *)
(* (ConfigInplace): outside those windows config.toml is the original or   *)
(* the original configured once, however often the tool was run on it.     *)
(***************************************************************************)
SettingsKept ==
  \A n \in Nodes : ~hurt[n] /\ Truncated(n) = {} =>
     \/ file[n] = orig[n]
     \/ Parses(file[n]) /\ Parses(orig[n]) /\ Configured(orig[n], file[n])

(* Runs that changed the file, or may have, and did not restart containerd. *)
Unfinished(n) == {i \in On(n) : pc[i] \in {"truncated", "written", "failed", "killed"}}

(***************************************************************************)
(* Of runs that overlap, whoever restarts containerd may do so on a file   *)
(* another run has just truncated; but the last one to write restarts it   *)
(* again, so that once a run was successful and none is unfinished,        *)
(* containerd runs with the configured original.                           *)
(***************************************************************************)
ContainerdUpToDate ==
  \A n \in Nodes :
     ~hurt[n] /\ Unfinished(n) = {} /\ (\E i \in On(n) : pc[i] = "restarted") =>
        loaded[n] # Down /\ Parses(orig[n]) /\ Configured(orig[n], loaded[n])

=============================================================================
