---------------------------- MODULE MCSourceTree ----------------------------
(***************************************************************************)
(* A factory whose child is a factory again.                               *)
(***************************************************************************)
EXTENDS SourceTree, TLC

MCNode == {"root", "child", "grandchild"}
MCParent == [n \in {"child", "grandchild"} |-> IF n = "child" THEN "root" ELSE "child"]
MCDepth == [n \in MCNode |-> CASE n = "root" -> 0 [] n = "child" -> 1 [] OTHER -> 2]

Pipelines == Permutations(Pipeline)

=============================================================================
