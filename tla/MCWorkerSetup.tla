--------------------------- MODULE MCWorkerSetup ----------------------------
(***************************************************************************)
(* Two workers, the two pods of their Job and the init container of a      *)
(* driver pod.  config.toml has all the tables, and old values for NRI.    *)
(***************************************************************************)
EXTENDS WorkerSetup

MCOriginals == {{"plugins", "cri", "oldNRI"}}

=============================================================================
