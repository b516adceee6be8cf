----------------------------- MODULE NodeHooks ------------------------------
(***************************************************************************)
(* The hook chain as it is set up for minikube: some of the hooks, as many *)
(* as one likes, are dramachine.py, and the others leave documents alone.  *)
(***************************************************************************)
EXTENDS HookChain, Dramachine

ASSUME NodeHooksAssumption ==
  /\ XML \subseteq Documents
  /\ \A h \in Hooks, x \in XML : Prints[h][x] \subseteq {Blank, x, process_xml_stream(x)}

(***************************************************************************)
(* However many times dramachine.py is in the chain, and whichever of its  *)
(* runs are killed, fail or are cut short, libvirtd never gets a worker's  *)
(* domain with some of its changes and not the others, or with an igb      *)
(* interface more than the one it lacked; and the control plane's domain   *)
(* passes as it came.                                                      *)
(***************************************************************************)
FitOrUntouched ==
  \A r \in Runs :
     \/ current[r] = input[r]
     \/ /\ input[r].worker
        /\ Fit(current[r])
        /\ Interfaces(current[r]) = IF Interfaces(input[r]) = 0 THEN 1 ELSE Interfaces(input[r])

=============================================================================
