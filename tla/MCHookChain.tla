---------------------------- MODULE MCHookChain -----------------------------
(***************************************************************************)
(* Instances of NodeHooks for TLC.  The script dramachine.py is both the   *)
(* --hook script and, once more, the last hook of the directory; the first *)
(* hook of the directory only looks at the document and prints nothing.    *)
(* The documents are those of a worker and of the control plane as         *)
(* minikube defines them.                                                  *)
(***************************************************************************)
EXTENDS NodeHooks

Domain(w) == [worker |-> w, machine |-> "versioned", ioapic |-> "absent", iommu |-> "absent",
              igb |-> 0, igbElse |-> 0, written |-> FALSE]

MCInputs == {Domain(TRUE), Domain(FALSE)}
MCWorker == {Domain(TRUE)}

(* What any number of runs of the script makes of d. *)
Made(d) == LET f[n \in 0..4] == IF n = 0 THEN d ELSE process_xml_stream(f[n - 1]) IN {f[n] : n \in 0..4}

MCXML == UNION {Made(d) : d \in MCInputs}
MCChain == [d \in MCXML |-> {e \in MCXML : e.worker = d.worker}]
MCPrints == [h \in {0, 1, 2} |-> [d \in MCXML |-> {IF h = 1 THEN Blank ELSE process_xml_stream(d)}]]

=============================================================================
