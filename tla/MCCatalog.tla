----------------------------- MODULE MCCatalog -----------------------------
(* Two instances that declare a chain, an ABI, a store, a pipeline, a factory and an exporter. *)
EXTENDS Catalog, TLC

MCLoadOrder == <<"chain", "abi", "store", "pipeline", "factory", "exporter">>

Symmetry == Permutations(Instance)

=============================================================================
