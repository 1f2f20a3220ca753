------------------------- MODULE MCExporterManager -------------------------
(***************************************************************************)
(* Two requests at a time, and as many places for services as it takes for *)
(* an abandoned runner, its successor and one more.                        *)
(***************************************************************************)
EXTENDS ExporterManager

=============================================================================
