----------------------------- MODULE LogStorage -----------------------------
(***************************************************************************)
(* What the interface EvmIndexerStorage promises of its inserts and of     *)
(* DeleteSourceData (internal/database/log-stores/interface.go): the rows  *)
(* of one source change only by calls for that source, a call either adds  *)
(* rows or deletes all of them, and what an insert has acknowledged stays  *)
(* readable until a deletion removes it.  Rows that a delete leaves for    *)
(* later are due: they go, unless they are inserted again.  A deletion     *)
(* that returns an error may have deleted a part.                          *)
(***************************************************************************)
CONSTANTS Source, Log

VARIABLES
    stored,     \* pairs of a source and a log that reads return
    due,        \* those of them that are deleted and not gone yet
    acked       \* those an insert has returned without an error

Of(s) == {s} \X Log

StorageInit == stored = {} /\ due = {} /\ acked = {}

\* An insert adds logs of one source, some of them when it fails, and may
\* acknowledge what is then readable.
Insert(s) ==
    /\ stored \subseteq stored' /\ stored' \subseteq stored \cup Of(s)
    /\ due' \subseteq due /\ due \ due' \subseteq Of(s)
    /\ acked \subseteq acked' /\ acked' \subseteq acked \cup ((Of(s) \cap stored') \ due')

DeleteSourceData(s) ==
    /\ stored' \subseteq stored /\ stored \ stored' \subseteq Of(s)
    /\ due' = due \cup (stored' \cap Of(s))
    /\ acked' = acked \ Of(s)

DeletionFails(s) ==
    /\ stored' \subseteq stored /\ stored \ stored' \subseteq Of(s)
    /\ due' = due \cap stored'
    /\ acked' = acked \ (Of(s) \ stored')

\* What is due goes.
Clear(s) ==
    /\ due' = due \ Of(s)
    /\ stored' = stored \ (due \cap Of(s))
    /\ UNCHANGED acked

StorageNext ==
    \E s \in Source : Insert(s) \/ DeleteSourceData(s) \/ DeletionFails(s) \/ Clear(s)

StorageSpec == StorageInit /\ [][StorageNext]_<<stored, due, acked>>

=============================================================================
