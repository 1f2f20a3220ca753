------------------------------ MODULE MCAccess ------------------------------
(***************************************************************************)
(* Two instances on one database, each with one request at a time.         *)
(***************************************************************************)
EXTENDS Access

MCServer == [r \in Request |-> IF r = "r1" THEN "i1" ELSE "i2"]

=============================================================================
