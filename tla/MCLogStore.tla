----------------------------- MODULE MCLogStore -----------------------------
(***************************************************************************)
(* Three logs in two blocks; two sources that share none of them, or one.   *)
(***************************************************************************)
EXTENDS LogStore

MCBlock == <<1, 2, 2>>
MCCoverage == {
    [s \in Source |-> IF s = "s1" THEN {1, 3} ELSE {2}],
    [s \in Source |-> IF s = "s1" THEN {1, 2, 3} ELSE {3}] }

=============================================================================
