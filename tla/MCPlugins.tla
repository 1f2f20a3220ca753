------------------------------ MODULE MCPlugins ------------------------------
(***************************************************************************)
(* A plugin that changes between two sources, built by two requests and at *)
(* boot.                                                                   *)
(***************************************************************************)
EXTENDS Plugins, TLC

CONSTANTS r1, r2, v1, v2

MCRequest == {r1, r2}
MCSource == {v1, v2}
MCDeclared == {v1, v2, NoSource}
MCSymmetry == Permutations({r1, r2}) \cup Permutations({v1, v2})

=============================================================================
