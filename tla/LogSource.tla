------------------------------ MODULE LogSource ------------------------------
(***************************************************************************)
(* What a source of a pipeline promises to whoever reads the log store     *)
(* behind its cursor: the sync_block column of its row only grows, and     *)
(* when it says b, every matching log of the blocks it covers up to b is   *)
(* already in the store.  The exporter relies on this contract when it     *)
(* takes the smallest sync_block of a pipeline as its head, and nothing    *)
(* else of the indexer; SourceIndexer is shown to implement it.            *)
(***************************************************************************)
EXTENDS Naturals

CONSTANTS Log,    \* the logs of the chain the source's filter matches
          First   \* the block after which the source starts

VARIABLES sync,   \* evm_log_sources.sync_block
          stored  \* the source's logs present in the log store

srcVars == <<sync, stored>>

Init ==
    /\ sync \in Nat
    /\ stored = {}

\* Logs reach the store ahead of the cursor, in any number and any order.
Store ==
    /\ \E ls \in SUBSET {l \in Log : l.block > sync} : stored' = stored \cup ls
    /\ UNCHANGED sync

\* The cursor moves forward over blocks whose logs are all in the store.
Advance ==
    /\ sync' \in Nat
    /\ sync' > sync
    /\ \A l \in Log : First < l.block /\ l.block <= sync' => l \in stored
    /\ UNCHANGED stored

Next == Store \/ Advance

Spec == Init /\ [][Next]_srcVars

=============================================================================
