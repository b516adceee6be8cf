----------------------------- MODULE Dramachine -----------------------------
(***************************************************************************)
(* What the hook scripts/libvirt-qemu-hook/dramachine.py makes of a domain *)
(* document.  A document is what the script looks at:                      *)
(*   worker   the name starts with "minikube-m"                            *)
(*   machine  the machine attribute of os/type: a q35 type or another one, *)
(*            with a version at the end or without; "none" if no os/type   *)
(*   ioapic   features/ioapic: "absent", or "other" or "qemu" its driver   *)
(*   iommu    devices/iommu: "absent", "other", or "intel", which means    *)
(*            with all the settings the script wants                       *)
(*   igb      interfaces of type network and model igb on sriov-net,       *)
(*   igbElse  and those on other networks                                  *)
(*   written  the text is ElementTree's, not the sender's                  *)
(***************************************************************************)
EXTENDS Naturals

Machines == {"none", "plain", "versioned", "q35", "q35versioned"}

Documents == [worker: BOOLEAN, machine: Machines, ioapic: {"absent", "other", "qemu"},
              iommu: {"absent", "other", "intel"}, igb: Nat, igbElse: Nat,
              written: BOOLEAN]

(* The version is kept: pc-i440fx-7.1 becomes pc-q35-7.1. *)
ensure_machine_type(root) ==
  [root EXCEPT !.machine = CASE @ = "plain"     -> "q35"
                             [] @ = "versioned" -> "q35versioned"
                             [] OTHER           -> @]

(* Created where it is missing, with the features element if need be. *)
ensure_ioapic(root) == [root EXCEPT !.ioapic = "qemu"]

ensure_iommu(root) == [root EXCEPT !.iommu = "intel"]

Interfaces(root) == root.igb + root.igbElse

(* One on any network will do. *)
ensure_igb_interface(root) ==
  IF Interfaces(root) > 0 THEN root ELSE [root EXCEPT !.igb = @ + 1]

(* Mutant: ensure_machine_type(root) or ensure_ioapic(root) or ...: the first change is the last. *)
process_xml_stream_or(d) ==
  LET root == CASE ensure_machine_type(d) # d -> ensure_machine_type(d)
                [] ensure_machine_type(d) = d /\ ensure_ioapic(d) # d -> ensure_ioapic(d)
                [] OTHER -> ensure_igb_interface(ensure_iommu(d)) IN
  IF ~d.worker \/ root = d THEN d ELSE [root EXCEPT !.written = TRUE]

(* A document that is changed is written anew, any other is passed on as it is. *)
process_xml_stream(d) ==
  LET root == ensure_igb_interface(ensure_iommu(ensure_ioapic(ensure_machine_type(d)))) IN
  IF ~d.worker \/ root = d THEN d ELSE [root EXCEPT !.written = TRUE]

(* Fit for SR-IOV: what the script is for. *)
Fit(d) ==
  /\ d.machine \in {"none", "q35", "q35versioned"}
  /\ d.ioapic = "qemu"
  /\ d.iommu = "intel"
  /\ Interfaces(d) > 0

=============================================================================
