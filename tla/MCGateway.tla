----------------------------- MODULE MCGateway ------------------------------
(***************************************************************************)
(* One source and its pipeline, two instances, and three addresses for     *)
(* them; which is which makes no difference.                               *)
(***************************************************************************)
EXTENDS Gateway, TLC

Symmetric ==
    Permutations(Request) \cup Permutations(Pipeline) \cup Permutations(Instance)
        \cup Permutations(Address)

=============================================================================
