----------------------------- MODULE MCExporter -----------------------------
(***************************************************************************)
(* A pipeline of a plain source, a factory and the child it registers, and *)
(* a source that is disabled at times, with blocks that hold logs of       *)
(* several sources.                                                        *)
(***************************************************************************)
EXTENDS Exporter

L(b, i, s) == [block |-> b, index |-> i, src |-> s]

MCParent == [c \in {"pool"} |-> "factory"]

\* The pipeline without a source that is ever disabled.
CalmSource == {"token", "factory", "pool"}
CalmBirth == [s \in CalmSource |-> IF s = "pool" THEN 2 ELSE 1]
CalmDepth == [s \in CalmSource |-> IF s = "pool" THEN 1 ELSE 0]
CalmRoot == {"token", "factory"}
CalmLog == {L(1, 0, "token"), L(1, 1, "factory"), L(2, 0, "factory"), L(2, 1, "pool"),
            L(3, 0, "token")}

\* The pipeline with one.
BusySource == {"factory", "pool", "side"}
BusyBirth == [s \in BusySource |-> IF s = "pool" THEN 2 ELSE 1]
BusyDepth == [s \in BusySource |-> IF s = "pool" THEN 1 ELSE 0]
BusyRoot == {"factory", "side"}
BusyStable == {"factory", "pool"}
BusyLog == {L(1, 0, "side"), L(1, 1, "factory"), L(2, 0, "factory"), L(2, 1, "pool")}

=============================================================================
