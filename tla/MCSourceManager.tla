-------------------------- MODULE MCSourceManager --------------------------
(***************************************************************************)
(* Two concurrent callers, and as many workers as it takes for an old one  *)
(* and its successor to overlap.                                           *)
(***************************************************************************)
EXTENDS SourceManager

=============================================================================
