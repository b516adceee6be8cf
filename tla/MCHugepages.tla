----------------------------- MODULE MCHugepages ----------------------------
(***************************************************************************)
(* Instances of Hugepages for TLC: one or three NUMA nodes; counts that    *)
(* divide, do not, and are smaller than the number of nodes; two spellings *)
(* of one size; a size, a count and a node that cannot be provisioned.     *)
(***************************************************************************)
EXTENDS Hugepages

Page(s, c, n) == [Size |-> s, Count |-> c, Node |-> n]

MCFiles ==
  { Bad, <<>>,
    <<Page("2M", 7, NoNode)>>,
    <<Page("1G", 6, NoNode), Page("2Mi", 2, 1)>>,
    <<Page("2M", 4, NoNode), Page("2m", 1, NoNode), Page("1Gi", 0, -1)>>,
    <<Page("4K", 1, NoNode)>>,
    <<Page("1G", 5, 0), Page("2M", -4, NoNode)>> }

MCArgs == UNION {[1 .. n -> MCFiles] : n \in 0 .. 2}

MCArgsNode == {<< <<Page("2M", 4, 1)>> >>}

=============================================================================
