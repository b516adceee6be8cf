------------------------------ MODULE MCSriovVF -----------------------------
(***************************************************************************)
(* Instances of SriovVF for TLC.  Device 1 is no PF (a VF, say), devices 2 *)
(* and 3 are PFs with room for three VFs and for one.                      *)
(***************************************************************************)
EXTENDS SriovVF

MCTotalVFs == <<0, 3, 1>>
MCNodes    == <<0, 1>>

MCConfigs ==
  [num : {-1, 0, 3}, node : {-1, 1}, try : BOOLEAN, addr : {NoAddr}] \cup
  [num : {1}, node : {-1}, try : BOOLEAN, addr : {1, 3}] \cup
  [num : {2}, node : {0}, try : {FALSE}, addr : {2}]

=============================================================================
