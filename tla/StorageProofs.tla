--------------------------- MODULE StorageProofs ---------------------------
(***************************************************************************)
(* Proofs about what is stored of sources and of their logs: SourceTree,   *)
(* for any tree of sources and any requests, and LogStore, for any         *)
(* sources, logs, blocks and page size.  The two specifications are about  *)
(* variables of their own; no theorem is about both.                       *)
(***************************************************************************)
EXTENDS SourceTree, LogStore, FiniteSetTheorems, TLAPS

-----------------------------------------------------------------------------
(***************************************************************************)
(* SourceTree.                                                             *)
(*                                                                         *)
(* The deletion goes over the sources it has collected once per step.  The *)
(* invariant says what is done for the sources that a step has passed, and *)
(* that nobody undoes it: of a source that has not escaped, only the       *)
(* worker that is waited for runs, and then none; a start after that, like *)
(* rules after theirs, counts the source among the escaped; and without a  *)
(* worker no log is stored and no child registered.  Every pipeline in the *)
(* tree is the root's or a former one, and the store that is cleared is    *)
(* the root's unless that is a former one.  For the orphans it says that   *)
(* the children of a collected source are collected with it, unless they   *)
(* were registered later.                                                  *)
(***************************************************************************)

Entries == [Node -> Slot \cup {None}]
Workers == [Node -> [Slot -> Pipeline \cup {None}]]
Enablings == [Node -> [Slot -> Node \cup {None}]]
Startings == (Node \X (Pipeline \cup {None})) \cup {None}
Edits == [at : {"idle", "save", "clear", "fill"}, enabled : BOOLEAN]

\* The state is well typed; the deletion handles what it has collected, and waits
\* for a worker of a source it still has to handle.
TreeTypeInv ==
    /\ row \in [Node -> {"none", "live", "deleted"}]
    /\ pipeline \in [Node -> Pipeline \cup {None}]
    /\ enabled \subseteq Node /\ rules \subseteq Node /\ stored \subseteq Node \X Pipeline
    /\ entry \in Entries /\ worker \in Workers /\ enabling \in Enablings
    /\ step \in {"idle", "collect", "disable", "wait", "data", "rules", "rows"}
    /\ todo \subseteq ids /\ ids \subseteq Node
    /\ step = "idle" => ids = {}
    /\ step = "wait" => token \in todo \X Slot
    /\ edit \in Edits /\ starting \in Startings
    /\ events \in 0 .. MaxEvents
    /\ escaped \subseteq Node /\ late \subseteq Node \ {Root}

\* A process that is down has no worker, no child to enable and no request.
DownInv ==
    ~up => /\ step = "idle" /\ edit.at = "idle" /\ starting = None
           /\ \A n \in Node : ~Runs(n) /\ \A k \in Slot : enabling[n][k] = None

\* Everything begins with the root.
NothingYet ==
    /\ row[Root] = "none" => /\ step = "idle" /\ edit.at = "idle" /\ starting = None /\ stored = {}
                             /\ \A n \in Node : row[n] = "none" /\ ~Runs(n)
    /\ \A n \in Node : \A k \in Slot : enabling[n][k] # None => row[enabling[n][k]] # "none"

\* The root's pipeline, and those it had.
Known == former \cup {pipeline[Root]}

PipelineInv ==
    /\ \A n \in Node : row[n] # "none" => pipeline[n] \in Known
    /\ \A n \in Node : \A k \in Slot : worker[n][k] # None => worker[n][k] \in Known
    /\ \A s \in stored : s[2] \in Known
    /\ starting # None => starting[2] \in Known
    /\ step # "idle" => pipeline[Root] \in former \cup {home}

\* The deletion is past steps "at" for source n.
Past(n, at, later) == (step \in at /\ n \notin todo) \/ step \in later

\* What the deletion has collected, and what it has done so far for a source that
\* has not escaped it.
DeletionInv ==
    \A n \in ids :
        /\ row[n] # "none"
        /\ n \notin escaped =>
            /\ step = "wait" /\ n = token[1] => \A k \in Slot : worker[n][k] # None => k = token[2]
            /\ Past(n, {"disable", "wait"}, {"data", "rules", "rows"}) => ~Runs(n)
            /\ Past(n, {"data"}, {"rules", "rows"}) => <<n, home>> \notin stored
            /\ Past(n, {"rules"}, {"rows"}) => n \notin rules

\* The children of a collected source are collected or still to be, or late.
CollectInv ==
    \A n \in Node \ {Root} :
        Live(n) /\ n \notin late /\ Parent[n] \in ids
            => n \in ids \/ (step = "collect" /\ Parent[n] \in todo)

TreeIInv ==
    /\ TreeTypeInv /\ DownInv /\ NothingYet /\ PipelineInv /\ DeletionInv /\ CollectInv
    /\ DeletedIsGone /\ OrphansAreLate

-----------------------------------------------------------------------------

\* The initial state satisfies the invariant.
LEMMA TreeInitially == ASSUME TreeAssumption, TreeInit PROVE TreeIInv
<1>1. TreeTypeInv
  BY DEF TreeInit, TreeAssumption, TreeTypeInv, NoEdit, Entries, Workers, Enablings, Edits, Startings
<1>2. \A n \in Node : ~Runs(n) /\ row[n] = "none"
  BY DEF TreeInit, Runs
<1>3. DownInv /\ NothingYet
  BY <1>2 DEF TreeInit, DownInv, NothingYet, NoEdit
<1>4. PipelineInv
  BY <1>2 DEF TreeInit, PipelineInv
<1>5. DeletionInv /\ CollectInv /\ DeletedIsGone /\ OrphansAreLate
  BY <1>2 DEF TreeInit, DeletionInv, CollectInv, DeletedIsGone, OrphansAreLate, Live
<1>6. QED
  BY <1>1, <1>3, <1>4, <1>5 DEF TreeIInv

\* The creation of the root's row, at boot or by a request, keeps the invariant: there
\* was nothing before.
LEMMA CreateKeeps ==
    ASSUME TreeAssumption, TreeIInv, ensureSource \/ CreateEvmLogSource PROVE TreeIInv'
<1>1. /\ row[Root] = "none" /\ row' = [row EXCEPT ![Root] = "live"]
      /\ \E p \in Pipeline : pipeline' = [pipeline EXCEPT ![Root] = p]
      /\ rules' \in {rules, {}, {Root}}
      /\ edit' = edit \/ (up /\ edit' = [at |-> "clear", enabled |-> FALSE])
      /\ enabled' \in {enabled, {}, {Root}}
      /\ UNCHANGED <<up, stored, entry, worker, enabling, step, ids, todo, token, home, starting,
                     events, escaped, late, former>>
  BY DEF ensureSource, CreateEvmLogSource, requests, workerVars, deleteVars, history
<1>2. /\ Root \in Node /\ row'[Root] = "live"
      /\ \A n \in Node : n # Root => row'[n] = row[n]
      /\ ids = {} /\ step = "idle" /\ starting = None /\ stored = {}
      /\ \A n \in Node : row[n] = "none" /\ ~Runs(n)
  BY <1>1 DEF TreeAssumption, TreeIInv, TreeTypeInv, NothingYet
<1>3. TreeTypeInv'
  <2>1. edit \in Edits /\ [at |-> "clear", enabled |-> FALSE] \in Edits
    BY DEF TreeIInv, TreeTypeInv, Edits
  <2>2. edit' \in Edits
    BY <1>1, <2>1
  <2>3. QED
    BY <1>1, <1>2, <2>2 DEF TreeIInv, TreeTypeInv
<1>4. DownInv' /\ NothingYet'
  <2>1. ASSUME NEW n \in Node, NEW k \in Slot, enabling[n][k] # None
        PROVE  row'[enabling[n][k]] # "none"
    <3>1. enabling[n][k] \in Node
      BY <2>1 DEF TreeIInv, TreeTypeInv, Enablings
    <3>2. QED
      BY <1>1, <1>2, <2>1, <3>1 DEF TreeIInv, NothingYet
  <2>2. DownInv'
    BY <1>1 DEF TreeIInv, DownInv, Runs
  <2>3. NothingYet'
    <3>1. UNCHANGED enabling
      BY <1>1
    <3>2. QED
      BY <1>2, <2>1, <3>1 DEF NothingYet
  <2>4. QED
    BY <2>2, <2>3
<1>5. PipelineInv'
  BY <1>1, <1>2 DEF PipelineInv, Known, Runs, TreeIInv, TreeTypeInv
<1>6. DeletionInv' /\ CollectInv'
  BY <1>1, <1>2 DEF DeletionInv, CollectInv
<1>7. DeletedIsGone' /\ OrphansAreLate'
  BY <1>1, <1>2 DEF DeletedIsGone, OrphansAreLate, TreeAssumption
<1>8. QED
  BY <1>3, <1>4, <1>5, <1>6, <1>7 DEF TreeIInv

\* A boot starts workers of live sources only.
LEMMA StartKeeps == ASSUME TreeAssumption, TreeIInv, Start PROVE TreeIInv'
<1> DEFINE starts(n) == Live(n) /\ n \in enabled
           slot == CHOOSE k \in Slot : TRUE
<1>1. /\ ~up /\ up' = TRUE
      /\ entry' = [n \in Node |-> IF starts(n) THEN slot ELSE None]
      /\ worker' = [n \in Node |-> [j \in Slot |-> IF starts(n) /\ j = slot THEN pipeline[n] ELSE None]]
      /\ UNCHANGED <<row, enabled, pipeline, rules, stored, enabling, step, ids, todo, token, home, edit,
                     starting, events, escaped, late, former>>
      /\ step = "idle" /\ ids = {}
  BY DEF Start, requests, rowVars, deleteVars, history, TreeIInv, DownInv, TreeTypeInv
<1>2. slot \in Slot
  BY DEF TreeAssumption
<1> HIDE DEF slot
<1>3. entry' \in Entries /\ worker' \in Workers
  BY <1>1, <1>2 DEF TreeIInv, TreeTypeInv, Entries, Workers
<1>4. \A n \in Node : \A k \in Slot : worker'[n][k] # None => Live(n) /\ worker'[n][k] = pipeline[n]
  BY <1>1
<1> HIDE DEF starts
<1>5. TreeTypeInv' /\ DownInv'
  BY <1>1, <1>3 DEF TreeIInv, TreeTypeInv, DownInv
<1>6. NothingYet' /\ PipelineInv'
  BY <1>1, <1>4 DEF TreeIInv, NothingYet, PipelineInv, Known, Runs, Live
<1>7. DeletionInv' /\ CollectInv'
  BY <1>1 DEF DeletionInv, CollectInv
<1>8. DeletedIsGone' /\ OrphansAreLate'
  BY <1>1, <1>4 DEF TreeIInv, DeletedIsGone, OrphansAreLate, Runs, Live
<1>9. QED
  BY <1>5, <1>6, <1>7, <1>8 DEF TreeIInv

\* A crash ends every worker and the deletion.
LEMMA CrashKeeps == ASSUME TreeAssumption, TreeIInv, Crash PROVE TreeIInv'
<1>1. /\ up' = FALSE /\ step' = "idle" /\ ids' = {} /\ todo' = {}
      /\ entry' = [n \in Node |-> None]
      /\ worker' = [n \in Node |-> [k \in Slot |-> None]]
      /\ enabling' = [n \in Node |-> [k \in Slot |-> None]]
      /\ edit' = NoEdit /\ starting' = None
      /\ escaped' = {n \in escaped : ~Live(n)} /\ late' = {c \in late : ~Live(Parent[c])}
      /\ UNCHANGED <<row, enabled, pipeline, rules, stored, events, former>>
  BY DEF Crash, rowVars, EndsDelete, ForgetsHistory
<1>2. \A n \in Node : ~Runs(n)'
  BY <1>1 DEF Runs
<1>3. TreeTypeInv'
  BY <1>1 DEF TreeIInv, TreeTypeInv, NoEdit, Entries, Workers, Enablings, Edits, Startings
<1>4. DownInv' /\ NothingYet'
  BY <1>1, <1>2 DEF TreeIInv, DownInv, NothingYet, NoEdit
<1>5. PipelineInv'
  BY <1>1 DEF TreeIInv, PipelineInv, Known
<1>6. DeletionInv' /\ CollectInv'
  BY <1>1 DEF DeletionInv, CollectInv
<1>7. DeletedIsGone' /\ OrphansAreLate'
  BY <1>1, <1>2 DEF TreeIInv, DeletedIsGone, OrphansAreLate, Live
<1>8. QED
  BY <1>3, <1>4, <1>5, <1>6, <1>7 DEF TreeIInv

-----------------------------------------------------------------------------

\* What a step may do about the workers of source n: it may start one, of a pipeline of
\* the tree, and of a source that is deleted or stopped for that only if the source escapes.
StartsOnly(n) ==
    /\ \A m \in Node : m # n => worker'[m] = worker[m]
    /\ \A k \in Slot : \/ worker'[n][k] \in {worker[n][k], None}
                       \/ /\ worker'[n][k] \in Known /\ row[Root] # "none"
                          /\ n \in escaped' \/ (Live(n) /\ ~StopIsDone(n))

\* Such a step keeps the invariant, the worker's inserts among them.
LEMMA WorkerKeeps ==
    ASSUME TreeAssumption, TreeIInv, up, NEW n \in Node, StartsOnly(n),
           UNCHANGED <<up, row, pipeline, rules, step, ids, todo, token, home, late, former>>,
           enabled' \subseteq Node, entry' \in Entries, worker' \in Workers, enabling' \in Enablings,
           \A m \in Node : \A k \in Slot : enabling'[m][k] \in {enabling[m][k], None},
           edit' \in Edits, edit' = edit \/ Live(Root),
           \/ starting' \in {starting, None}
           \/ \E m \in Node : Live(m) /\ starting' = <<m, pipeline[m]>>,
           events' \in 0 .. MaxEvents,
           \/ stored' = stored
           \/ \E k \in Slot : worker[n][k] # None /\ stored' = stored \cup {<<n, worker[n][k]>>},
           escaped' = escaped \/ escaped' = escaped \cup {n}
    PROVE  TreeIInv'
<1>1. \A m \in Node : \A k \in Slot : worker[m][k] \in Pipeline \cup {None}
  BY DEF TreeIInv, TreeTypeInv, Workers
<1>2. TreeTypeInv'
  <2>1. starting' \in Startings
    BY DEF TreeIInv, TreeTypeInv, Startings
  <2>2. QED
    BY <1>1, <2>1 DEF TreeIInv, TreeTypeInv
<1>3. DownInv'
  BY DEF DownInv
<1>4. Runs(n)' => \/ Runs(n)
                  \/ /\ row[Root] # "none"
                     /\ n \in escaped' \/ (Live(n) /\ ~StopIsDone(n))
  BY DEF StartsOnly, Runs
<1>5. \A m \in Node : m # n => Runs(m)' = Runs(m)
  BY DEF StartsOnly, Runs
<1>6. stored' = stored \/ (Runs(n) /\ \E p \in Known : stored' = stored \cup {<<n, p>>})
  BY DEF Runs, TreeIInv, PipelineInv
<1>7. NothingYet'
  <2>1. row[Root] = "none" => starting' = None
    BY DEF TreeIInv, NothingYet, Live
  <2>2. \A m \in Node : \A k \in Slot : enabling'[m][k] # None => row[enabling'[m][k]] # "none"
    BY DEF TreeIInv, NothingYet
  <2>3. QED
    BY <1>4, <1>5, <1>6, <2>1, <2>2 DEF TreeIInv, NothingYet, Live
<1>8. PipelineInv'
  <2>1. Known' = Known
    BY DEF Known
  <2>2. \A m \in Node : \A k \in Slot : worker'[m][k] # None => worker'[m][k] \in Known
    BY DEF StartsOnly, TreeIInv, PipelineInv
  <2>3. starting' # None => starting'[2] \in Known
    BY DEF TreeIInv, PipelineInv, Live
  <2>4. QED
    BY <1>6, <2>1, <2>2, <2>3 DEF TreeIInv, PipelineInv
<1>9. DeletionInv'
  <2>1. ASSUME NEW m \in ids, m \notin escaped', StopIsDone(m)
        PROVE  /\ \A k \in Slot : worker'[m][k] # None => worker[m][k] # None
               /\ Runs(m)' => Runs(m)
               /\ ~Runs(m) => (<<m, home>> \in stored' => <<m, home>> \in stored)
    <3>1. m \in Node
      BY DEF TreeIInv, TreeTypeInv
    <3>2. QED
      BY <1>4, <1>5, <1>6, <2>1, <3>1 DEF StartsOnly
  <2>2. ASSUME NEW m \in ids, m \notin escaped'
        PROVE  /\ step = "wait" /\ m = token[1] => \A k \in Slot : worker'[m][k] # None => k = token[2]
               /\ Past(m, {"disable", "wait"}, {"data", "rules", "rows"}) => ~Runs(m)'
               /\ Past(m, {"data"}, {"rules", "rows"}) => <<m, home>> \notin stored'
               /\ Past(m, {"rules"}, {"rows"}) => m \notin rules
    <3>1. m \notin escaped
      BY <2>2
    <3>2. CASE StopIsDone(m)
      BY <2>1, <2>2, <3>1, <3>2 DEF TreeIInv, DeletionInv, Past
    <3>3. CASE ~StopIsDone(m)
      BY <2>2, <3>1, <3>3 DEF TreeIInv, DeletionInv, Past, StopIsDone
    <3>4. QED
      BY <3>2, <3>3
  <2>3. QED
    BY <2>2 DEF TreeIInv, DeletionInv, Past, Runs
<1>10. CollectInv' /\ OrphansAreLate'
  BY DEF TreeIInv, CollectInv, OrphansAreLate, Live
<1>11. DeletedIsGone'
  BY <1>4, <1>5, <1>6 DEF TreeIInv, DeletedIsGone, Live
<1>12. QED
  BY <1>2, <1>3, <1>7, <1>8, <1>9, <1>10, <1>11 DEF TreeIInv

\* EnableSource starts a worker of its source and of no other; the source escapes if it
\* has been deleted, or stopped for that.
LEMMA EnablesFacts ==
    ASSUME TreeTypeInv, NEW n \in Node, NEW p \in Known, p \in Pipeline \cup {None},
           row[Root] # "none", Enables(n, p)
    PROVE  /\ enabled' \subseteq Node /\ entry' \in Entries /\ worker' \in Workers
           /\ escaped' = escaped \/ escaped' = escaped \cup {n}
           /\ StartsOnly(n)
<1>1. /\ enabled' \in {enabled, enabled \cup {n}} /\ startSource(n, p)
      /\ escaped' = IF ~Live(n) \/ StopIsDone(n) THEN escaped \cup {n} ELSE escaped
  BY DEF Enables, EscapesIf
<1>2. \/ UNCHANGED <<entry, worker>>
      \/ \E k \in Slot : /\ entry' = [entry EXCEPT ![n] = k]
                         /\ worker' = [worker EXCEPT ![n] = [@ EXCEPT ![k] = p]]
  <2> DEFINE free == {k \in Slot : worker[n][k] = None}
             slot == CHOOSE k \in free : TRUE
  <2>1. CASE entry[n] # None
    BY <1>1, <2>1 DEF startSource
  <2>2. CASE entry[n] = None
    <3>1. /\ free # {}
          /\ entry' = [entry EXCEPT ![n] = slot]
          /\ worker' = [worker EXCEPT ![n] = [@ EXCEPT ![slot] = p]]
      BY <1>1, <2>2 DEF startSource
    <3>2. slot \in free
      <4> HIDE DEF free
      <4> QED
        BY <3>1
    <3>3. slot \in Slot
      BY <3>2
    <3> HIDE DEF slot, free
    <3>4. QED
      BY <3>1, <3>3
  <2>3. QED
    BY <2>1, <2>2
<1>3. entry \in Entries /\ worker \in Workers /\ enabled \subseteq Node
  BY DEF TreeTypeInv
<1>4. CASE UNCHANGED <<entry, worker>>
  BY <1>1, <1>3, <1>4 DEF StartsOnly
<1>5. CASE \E k \in Slot : /\ entry' = [entry EXCEPT ![n] = k]
                           /\ worker' = [worker EXCEPT ![n] = [@ EXCEPT ![k] = p]]
  <2>1. PICK k \in Slot : /\ entry' = [entry EXCEPT ![n] = k]
                          /\ worker' = [worker EXCEPT ![n] = [@ EXCEPT ![k] = p]]
    BY <1>5
  <2>2. entry' \in Entries /\ worker' \in Workers
    BY <1>3, <2>1 DEF Entries, Workers
  <2>3. /\ \A m \in Node : m # n => worker'[m] = worker[m]
        /\ \A j \in Slot : worker'[n][j] = IF j = k THEN p ELSE worker[n][j]
    BY <1>3, <2>1 DEF Workers
  <2>4. QED
    BY <1>1, <1>3, <2>2, <2>3 DEF StartsOnly
<1>6. QED
  BY <1>2, <1>4, <1>5

\* The steps of the workers, but for the registration of a child, keep the invariant.
LEMMA WorkKeeps ==
    ASSUME TreeAssumption, TreeIInv, NEW n \in Node, NEW k \in Slot,
           WorkerInserts(n, k) \/ EnableChild(n, k) \/ WorkerStops(n, k)
    PROVE  TreeIInv'
<1>1. /\ UNCHANGED <<up, row, pipeline, rules, step, ids, todo, token, home, late, edit, events, former>>
      /\ enabled \subseteq Node /\ entry \in Entries /\ worker \in Workers
      /\ starting' = starting
      /\ enabling \in Enablings /\ edit \in Edits /\ events \in 0 .. MaxEvents
  BY DEF WorkerInserts, EnableChild, WorkerStops, requests, rowVars, deleteVars, workerVars, history,
         TreeIInv, TreeTypeInv
<1>2. CASE WorkerInserts(n, k)
  <2>1. /\ up /\ worker[n][k] # None /\ stored' = stored \cup {<<n, worker[n][k]>>}
        /\ UNCHANGED <<enabled, entry, worker, enabling, escaped>>
    BY <1>2 DEF WorkerInserts, workerVars, history, TreeIInv, DownInv, Runs
  <2>2. StartsOnly(n)
    BY <2>1 DEF StartsOnly
  <2>3. QED
    BY <1>1, <2>1, <2>2, WorkerKeeps
<1>3. CASE WorkerStops(n, k)
  <2>1. /\ up /\ worker' = [worker EXCEPT ![n] = [@ EXCEPT ![k] = None]]
        /\ UNCHANGED <<enabled, stored, entry, enabling, escaped>>
    BY <1>3 DEF WorkerStops, rowVars, history, TreeIInv, DownInv, Runs
  <2>2. worker' \in Workers /\ StartsOnly(n)
    BY <1>1, <2>1 DEF Workers, StartsOnly
  <2>3. QED
    BY <1>1, <2>1, <2>2, WorkerKeeps
<1>4. CASE EnableChild(n, k)
  <2>1. PICK c \in Node : c = enabling[n][k]
    <3>1. enabling[n][k] \in Node \cup {None} /\ enabling[n][k] # None
      BY <1>1, <1>4 DEF EnableChild, Enablings
    <3>2. QED
      BY <3>1
  <2>2. /\ up /\ stored' = stored
        /\ enabling' = [enabling EXCEPT ![n] = [@ EXCEPT ![k] = None]]
    BY <1>4 DEF EnableChild, TreeIInv, DownInv
  <2>3. \/ UNCHANGED <<enabled, entry, worker, escaped>>
        \/ Enables(c, pipeline[c])
    BY <1>4, <2>1 DEF EnableChild
  <2>4. /\ enabling' \in Enablings
        /\ \A m \in Node : \A j \in Slot : enabling'[m][j] \in {enabling[m][j], None}
    BY <1>1, <2>2 DEF Enablings
  <2>5. CASE UNCHANGED <<enabled, entry, worker, escaped>>
    <3>1. StartsOnly(n)
      BY <2>5 DEF StartsOnly
    <3>2. QED
      BY <1>1, <2>2, <2>4, <2>5, <3>1, WorkerKeeps
  <2>6. CASE Enables(c, pipeline[c])
    <3>a. /\ row[c] # "none" /\ row[Root] # "none"
          /\ pipeline[c] \in Known /\ pipeline[c] \in Pipeline \cup {None}
      BY <1>4, <2>1 DEF EnableChild, TreeIInv, TreeTypeInv, NothingYet, PipelineInv
    <3>1. /\ enabled' \subseteq Node /\ entry' \in Entries /\ worker' \in Workers
          /\ escaped' = escaped \/ escaped' = escaped \cup {c}
          /\ StartsOnly(c)
      BY <2>6, <3>a, EnablesFacts DEF TreeIInv
    <3>2. QED
      BY <1>1, <2>2, <2>4, <3>1, WorkerKeeps
  <2>7. QED
    BY <2>3, <2>5, <2>6
<1>5. QED
  BY <1>2, <1>3, <1>4

\* The registration of a child keeps the invariant: its parent has a worker, and so is
\* not deleted but for the escaped; the child is late if its parent was collected.
LEMMA RegisterKeeps ==
    ASSUME TreeAssumption, TreeIInv, NEW n \in Node, NEW k \in Slot, NEW c \in Children(n),
           RegisterChild(n, k, c)
    PROVE  TreeIInv'
<1>1. /\ c \in Node \ {Root} /\ Parent[c] = n /\ row[c] = "none" /\ worker[n][k] # None
      /\ row' = [row EXCEPT ![c] = "live"]
      /\ pipeline' = [pipeline EXCEPT ![c] = worker[n][k]]
      /\ enabled' = enabled \cup {c} /\ rules' = rules
      /\ enabling' = [enabling EXCEPT ![n] = [@ EXCEPT ![k] = c]]
      /\ late' = IF n \in ids \/ ~Live(n) THEN late \cup {c} ELSE late
      /\ events' \in 0 .. MaxEvents
      /\ UNCHANGED <<up, stored, entry, worker, step, ids, todo, token, home, edit, starting, escaped,
                     former>>
  BY DEF RegisterChild, requests, Children, deleteVars, Counted, TreeIInv, TreeTypeInv, TreeAssumption
<1>2. /\ Runs(n) /\ up /\ row[Root] # "none" /\ Root \in Node
      /\ worker[n][k] \in Known /\ worker[n][k] \in Pipeline \cup {None}
  BY <1>1 DEF TreeIInv, TreeTypeInv, Workers, DownInv, NothingYet, PipelineInv, Runs, TreeAssumption
<1>3. /\ row'[c] = "live" /\ c \notin ids /\ row'[Root] = row[Root] /\ pipeline'[Root] = pipeline[Root]
      /\ \A m \in Node : m # c => row'[m] = row[m] /\ pipeline'[m] = pipeline[m]
      /\ pipeline'[c] = worker[n][k]
  BY <1>1, <1>2 DEF TreeIInv, TreeTypeInv, DeletionInv
<1>4. TreeTypeInv'
  <2>1. enabling' \in Enablings /\ pipeline' \in [Node -> Pipeline \cup {None}]
        /\ row' \in [Node -> {"none", "live", "deleted"}]
    BY <1>1, <1>2 DEF TreeIInv, TreeTypeInv, Enablings
  <2>2. QED
    BY <1>1, <2>1 DEF TreeIInv, TreeTypeInv
<1>5. DownInv' /\ NothingYet'
  <2>1. ASSUME NEW m \in Node, NEW j \in Slot, enabling'[m][j] # None
        PROVE  row'[enabling'[m][j]] # "none"
    <3>1. enabling'[m][j] \in {enabling[m][j], c} /\ enabling[m][j] \in Node \cup {None}
      BY <1>1 DEF TreeIInv, TreeTypeInv, Enablings
    <3>2. QED
      BY <1>3, <2>1, <3>1 DEF TreeIInv, NothingYet
  <2>2. QED
    BY <1>1, <1>2, <1>3, <2>1 DEF DownInv, NothingYet
<1>6. PipelineInv'
  BY <1>1, <1>2, <1>3 DEF TreeIInv, PipelineInv, Known
<1>7. DeletionInv'
  BY <1>1, <1>3 DEF TreeIInv, DeletionInv, TreeTypeInv, Past, Runs
<1>8. CollectInv'
  BY <1>1, <1>3 DEF TreeIInv, CollectInv, Live, TreeTypeInv
<1>9. DeletedIsGone'
  BY <1>1, <1>3 DEF TreeIInv, DeletedIsGone, Runs
<1>10. OrphansAreLate'
  <2>1. \A m \in Node \ {Root} : Parent[m] \in Node
    BY DEF TreeAssumption
  <2>2. QED
    BY <1>1, <1>3, <2>1 DEF TreeIInv, OrphansAreLate, Live
<1>11. QED
  BY <1>4, <1>5, <1>6, <1>7, <1>8, <1>9, <1>10 DEF TreeIInv

-----------------------------------------------------------------------------

\* The requests that start and stop a source, or read the root, keep the invariant.
LEMMA RequestKeeps ==
    ASSUME TreeAssumption, TreeIInv, NEW n \in Node,
           StartSourceIndexer(n) \/ EnableSource(n) \/ StopSourceIndexer(n) \/ UpdateReads
    PROVE  TreeIInv'
<1>1. /\ up
      /\ UNCHANGED <<up, row, pipeline, rules, stored, enabling, step, ids, todo, token, home, late, former>>
      /\ enabled \subseteq Node /\ entry \in Entries /\ worker \in Workers
      /\ enabling \in Enablings /\ edit \in Edits
      /\ events' \in 0 .. MaxEvents
  BY DEF StartSourceIndexer, EnableSource, StopSourceIndexer, UpdateReads, Request, Counted, rowVars,
         workerVars, requests, deleteVars, history, TreeIInv, TreeTypeInv, DownInv, TreeAssumption
<1>2. CASE StartSourceIndexer(n)
  <2>1. /\ UNCHANGED <<enabled, entry, worker, edit, escaped>>
        /\ Live(n) /\ starting' = <<n, pipeline[n]>>
    BY <1>2 DEF StartSourceIndexer, rowVars, workerVars, history
  <2>2. StartsOnly(n)
    BY <2>1 DEF StartsOnly
  <2>3. QED
    BY <1>1, <2>1, <2>2, WorkerKeeps
<1>3. CASE EnableSource(n)
  <2>1. Enables(n, starting[2]) /\ edit' = edit /\ starting # None /\ starting' = None
    BY <1>3 DEF EnableSource
  <2>2. starting[2] \in Known /\ starting[2] \in Pipeline \cup {None} /\ row[Root] # "none"
    BY <2>1 DEF TreeIInv, TreeTypeInv, PipelineInv, NothingYet, Startings
  <2>3. /\ enabled' \subseteq Node /\ entry' \in Entries /\ worker' \in Workers
        /\ escaped' = escaped \/ escaped' = escaped \cup {n}
        /\ StartsOnly(n)
    BY <2>1, <2>2, EnablesFacts DEF TreeIInv
  <2>4. QED
    BY <1>1, <2>1, <2>3, WorkerKeeps
<1>4. CASE StopSourceIndexer(n)
  <2>1. /\ enabled' \subseteq Node /\ entry' \in Entries
        /\ UNCHANGED <<worker, escaped, edit, starting>>
    BY <1>1, <1>4 DEF StopSourceIndexer, Disables, requests, history, Entries
  <2>2. StartsOnly(n)
    BY <2>1 DEF StartsOnly
  <2>3. QED
    BY <1>1, <2>1, <2>2, WorkerKeeps
<1>5. CASE UpdateReads
  <2>1. UNCHANGED <<enabled, entry, worker, escaped, starting>> /\ Live(Root)
    BY <1>5 DEF UpdateReads, rowVars, workerVars, history
  <2>2. edit' \in Edits
    <3>1. edit' = [at |-> "save", enabled |-> Root \in enabled]
      BY <1>5 DEF UpdateReads
    <3>2. (Root \in enabled) \in BOOLEAN
      OBVIOUS
    <3>3. QED
      BY <3>1, <3>2, Zenon DEF Edits
  <2>3. StartsOnly(n)
    BY <2>1 DEF StartsOnly
  <2>4. QED
    BY <1>1, <2>1, <2>2, <2>3, WorkerKeeps
<1>6. QED
  BY <1>2, <1>3, <1>4, <1>5

\* The save of an edit keeps the invariant: the root is made live again, and the
\* pipeline it leaves is a former one.
LEMMA SaveKeeps == ASSUME TreeAssumption, TreeIInv, UpdateSaves PROVE TreeIInv'
<1>1. /\ edit.at = "save"
      /\ row' = [row EXCEPT ![Root] = "live"]
      /\ enabled' \subseteq Node
      /\ edit' = [at |-> "clear", enabled |-> FALSE]
      /\ UNCHANGED <<up, rules, stored, entry, worker, enabling, step, ids, todo, token, home, starting,
                     events, escaped, late>>
  BY DEF UpdateSaves, workerVars, deleteVars, TreeIInv, TreeTypeInv, TreeAssumption
<1>2. PICK p \in Pipeline :
         /\ pipeline' = [pipeline EXCEPT ![Root] = p]
         /\ former' = IF p = pipeline[Root] THEN former
                      ELSE former \cup {pipeline[Root]} \cup IF step = "idle" THEN {} ELSE {p}
  BY DEF UpdateSaves
<1>3. /\ Root \in Node /\ row'[Root] = "live" /\ pipeline'[Root] = p
      /\ \A n \in Node : n # Root => row'[n] = row[n] /\ pipeline'[n] = pipeline[n]
      /\ row[Root] # "none" /\ up
  BY <1>1, <1>2 DEF TreeAssumption, TreeIInv, TreeTypeInv, NothingYet, DownInv
<1>4. TreeTypeInv'
  <2>1. edit' \in Edits
    BY <1>1 DEF TreeIInv, TreeTypeInv, Edits
  <2>2. QED
    BY <1>1, <1>2, <1>3, <2>1 DEF TreeIInv, TreeTypeInv
<1>5. DownInv' /\ NothingYet'
  <2>1. \A n : row[n] # "none" => row'[n] # "none"
    BY <1>1, <1>3 DEF TreeIInv, TreeTypeInv
  <2>2. QED
    BY <1>1, <1>3, <2>1 DEF TreeIInv, DownInv, NothingYet
<1>6. Known \subseteq Known' /\ p \in Known' /\ former \subseteq former'
  BY <1>2, <1>3 DEF Known
<1>7. PipelineInv'
  <2>1. \A n \in Node : row'[n] # "none" => pipeline'[n] \in Known'
    BY <1>3, <1>6 DEF TreeIInv, PipelineInv
  <2>2. step # "idle" => pipeline'[Root] \in former' \cup {home}
    BY <1>2, <1>3 DEF TreeIInv, PipelineInv
  <2>3. QED
    BY <1>1, <1>6, <2>1, <2>2 DEF TreeIInv, PipelineInv
<1>8. DeletionInv'
  BY <1>1, <1>3 DEF TreeIInv, DeletionInv, TreeTypeInv, Past, Runs
<1>9. CollectInv' /\ OrphansAreLate'
  BY <1>1, <1>3 DEF TreeIInv, CollectInv, OrphansAreLate, Live, TreeAssumption
<1>10. DeletedIsGone'
  BY <1>1, <1>3, <1>6 DEF TreeIInv, DeletedIsGone, Runs
<1>11. QED
  BY <1>4, <1>5, <1>7, <1>8, <1>9, <1>10 DEF TreeIInv

\* A step that deletes the rules of a source, or creates them, keeps the invariant: the
\* source escapes if it has been deleted, or its rules have.
LEMMA RulesKeep ==
    ASSUME TreeAssumption, TreeIInv, up, NEW n \in Node, row[n] # "none",
           UNCHANGED <<up, row, enabled, pipeline, stored, entry, worker, step, ids, todo, token,
                       home, starting, events, late, former>>,
           edit' \in Edits, row[Root] # "none", enabling' \in Enablings,
           \A m \in Node : \A k \in Slot : enabling'[m][k] \in {enabling[m][k], None},
           \/ rules' \in {rules, rules \ {n}} /\ escaped' = escaped
           \/ /\ rules' \in {rules, rules \cup {n}}
              /\ escaped' = IF ~Live(n) \/ RulesAreDone(n) THEN escaped \cup {n} ELSE escaped
    PROVE  TreeIInv'
<1>1. TreeTypeInv'
  BY DEF TreeIInv, TreeTypeInv
<1>2. DownInv' /\ NothingYet'
  BY DEF TreeIInv, DownInv, NothingYet, Runs
<1>3. PipelineInv'
  BY DEF TreeIInv, PipelineInv, Known
<1>4. DeletionInv'
  BY DEF TreeIInv, TreeTypeInv, DeletionInv, Past, Runs, RulesAreDone
<1>5. CollectInv' /\ OrphansAreLate'
  BY DEF TreeIInv, CollectInv, OrphansAreLate, Live
<1>6. DeletedIsGone'
  BY DEF TreeIInv, DeletedIsGone, Runs, Live
<1>7. QED
  BY <1>1, <1>2, <1>3, <1>4, <1>5, <1>6 DEF TreeIInv

\* The other steps of an edit are such steps.
LEMMA EditKeeps ==
    ASSUME TreeAssumption, TreeIInv, UpdateClearsRules \/ UpdateCreatesRules \/ UpdateFails
    PROVE  TreeIInv'
<1>1. /\ UNCHANGED <<up, row, enabled, pipeline, stored, entry, worker, enabling, step, ids, todo, token,
                     home, starting, events, late, former>>
      /\ edit.at # "idle"
      /\ \/ rules' \in {rules, rules \ {Root}} /\ escaped' = escaped
         \/ /\ rules' \in {rules, rules \cup {Root}}
            /\ escaped' = IF ~Live(Root) \/ RulesAreDone(Root) THEN escaped \cup {Root} ELSE escaped
  BY DEF UpdateClearsRules, UpdateCreatesRules, UpdateFails, EscapesIf, rowVars, workerVars,
         deleteVars, history
<1>2. edit' \in Edits
  <2>1. CASE edit' = [edit EXCEPT !.at = "fill"]
    BY <2>1 DEF TreeIInv, TreeTypeInv, Edits
  <2>2. CASE edit' = NoEdit
    BY <2>2 DEF NoEdit, Edits
  <2>3. QED
    BY <2>1, <2>2 DEF UpdateClearsRules, UpdateCreatesRules, UpdateFails
<1>3. Root \in Node /\ row[Root] # "none" /\ up
  BY <1>1 DEF TreeAssumption, TreeIInv, NothingYet, DownInv
<1>4. enabling \in Enablings
  BY DEF TreeIInv, TreeTypeInv
<1>5. QED
  BY <1>1, <1>2, <1>3, <1>4, RulesKeep

\* So is the copy of the rules for a child, and its failure.
LEMMA CopyKeeps ==
    ASSUME TreeAssumption, TreeIInv, NEW n \in Node, NEW k \in Slot, CopyRules(n, k)
    PROVE  TreeIInv'
<1> DEFINE c == enabling[n][k]
<1>1. /\ UNCHANGED <<up, row, enabled, pipeline, stored, entry, worker, step, ids, todo, token,
                     home, edit, starting, events, late, former>>
      /\ c # None
      /\ enabling' \in {enabling, [enabling EXCEPT ![n] = [@ EXCEPT ![k] = None]]}
      /\ \/ rules' = rules /\ escaped' = escaped
         \/ /\ rules' = rules \cup {c}
            /\ escaped' = IF ~Live(c) \/ RulesAreDone(c) THEN escaped \cup {c} ELSE escaped
  BY DEF CopyRules, EscapesIf, requests, deleteVars
<1>2. c \in Node
  <2>1. c \in Node \cup {None}
    BY DEF TreeIInv, TreeTypeInv, Enablings
  <2>2. QED
    BY <1>1, <2>1
<1>3. up /\ row[c] # "none" /\ row[Root] # "none"
  BY <1>1, <1>2 DEF TreeIInv, DownInv, NothingYet
<1>4. /\ enabling' \in Enablings
      /\ \A m \in Node : \A j \in Slot : enabling'[m][j] \in {enabling[m][j], None}
  <2>1. enabling \in Enablings
    BY DEF TreeIInv, TreeTypeInv
  <2>2. CASE enabling' = enabling
    BY <2>1, <2>2
  <2>3. CASE enabling' = [enabling EXCEPT ![n] = [@ EXCEPT ![k] = None]]
    BY <2>1, <2>3 DEF Enablings
  <2>4. QED
    BY <1>1, <2>2, <2>3
<1>5. edit' \in Edits
  BY <1>1 DEF TreeIInv, TreeTypeInv
<1> HIDE DEF c
<1>6. QED
  BY <1>1, <1>2, <1>3, <1>4, <1>5, RulesKeep

-----------------------------------------------------------------------------

\* The beginning of a deletion keeps the invariant; the histories it forgets are of live
\* sources.
LEMMA DeleteBeginKeeps == ASSUME TreeAssumption, TreeIInv, DeleteReads PROVE TreeIInv'
<1>1. /\ UNCHANGED <<up, row, enabled, pipeline, rules, stored, entry, worker, enabling, edit, starting,
                     events, former>>
      /\ up /\ Live(Root) /\ step' = "collect" /\ ids' = {Root} /\ todo' = {Root}
      /\ home' = pipeline[Root]
      /\ escaped' = {n \in escaped : ~Live(n)} /\ late' = {c \in late : ~Live(Parent[c])}
  BY DEF DeleteReads, rowVars, requests, workerVars, ForgetsHistory
<1>2. TreeTypeInv' /\ DownInv'
  BY <1>1 DEF TreeIInv, TreeTypeInv, DownInv, TreeAssumption
<1>3. NothingYet' /\ PipelineInv'
  BY <1>1 DEF TreeIInv, NothingYet, PipelineInv, Known, Live
<1>4. DeletionInv' /\ CollectInv'
  BY <1>1 DEF DeletionInv, CollectInv, Past, Live
<1>5. DeletedIsGone' /\ OrphansAreLate'
  BY <1>1 DEF TreeIInv, DeletedIsGone, OrphansAreLate, Runs, Live
<1>6. QED
  BY <1>2, <1>3, <1>4, <1>5 DEF TreeIInv

\* So does its end: by the time the rows are deleted, nothing else is left of the sources
\* that have not escaped, but in the stores of former pipelines.
LEMMA DeleteEndKeeps == ASSUME TreeAssumption, TreeIInv, DeleteRows PROVE TreeIInv'
<1>1. /\ UNCHANGED <<up, enabled, pipeline, rules, stored, entry, worker, enabling, edit, starting,
                     events, escaped, late, former>>
      /\ step = "rows" /\ step' = "idle" /\ ids' = {} /\ todo' = {}
      /\ row' \in [Node -> {"none", "live", "deleted"}]
      /\ \A n \in Node : row'[n] = IF n \in ids THEN "deleted" ELSE row[n]
  BY DEF DeleteRows, EndsDelete, requests, workerVars, history, TreeIInv, TreeTypeInv
<1>2. \A n \in ids : n \in Node /\ row[n] # "none"
  BY DEF TreeIInv, TreeTypeInv, DeletionInv
<1>3. TreeTypeInv' /\ DownInv'
  BY <1>1 DEF TreeIInv, TreeTypeInv, DownInv, Runs
<1>4. NothingYet' /\ PipelineInv'
  <2>1. ASSUME NEW n \in Node, NEW k \in Slot, enabling[n][k] # None
        PROVE  row'[enabling[n][k]] # "none"
    <3>1. enabling[n][k] \in Node
      BY <2>1 DEF TreeIInv, TreeTypeInv, Enablings
    <3>2. QED
      BY <1>1, <1>2, <2>1, <3>1 DEF TreeIInv, NothingYet
  <2>2. QED
    BY <1>1, <1>2, <2>1 DEF TreeIInv, NothingYet, PipelineInv, Known, TreeAssumption
<1>5. DeletionInv' /\ CollectInv'
  BY <1>1 DEF DeletionInv, CollectInv
<1>6. DeletedIsGone'
  <2>1. ASSUME NEW n \in ids, n \notin escaped
        PROVE  n \notin rules /\ ~Runs(n) /\ <<n, home>> \notin stored
    BY <1>1, <2>1 DEF TreeIInv, DeletionInv, Past
  <2>2. \A n \in Node : \A p \in Pipeline : <<n, p>> \in stored => p \in former \/ p = home
    BY <1>1 DEF TreeIInv, PipelineInv, Known
  <2>3. QED
    BY <1>1, <2>1, <2>2 DEF TreeIInv, DeletedIsGone, Runs
<1>7. OrphansAreLate'
  BY <1>1 DEF TreeIInv, OrphansAreLate, CollectInv, TreeAssumption, Live
<1>8. QED
  BY <1>3, <1>4, <1>5, <1>6, <1>7 DEF TreeIInv

\* And a deletion that fails.
LEMMA DeleteFailsKeeps == ASSUME TreeAssumption, TreeIInv, DeleteFails PROVE TreeIInv'
<1>1. /\ UNCHANGED <<up, row, enabled, pipeline, rules, stored, entry, worker, enabling, edit, starting,
                     events, former>>
      /\ step' = "idle" /\ ids' = {} /\ todo' = {}
      /\ escaped' = {n \in escaped : ~Live(n)} /\ late' = {c \in late : ~Live(Parent[c])}
  BY DEF DeleteFails, EndsDelete, requests, rowVars, workerVars, ForgetsHistory
<1>2. TreeTypeInv' /\ DownInv'
  BY <1>1 DEF TreeIInv, TreeTypeInv, DownInv, Runs
<1>3. NothingYet' /\ PipelineInv'
  BY <1>1 DEF TreeIInv, NothingYet, PipelineInv, Known, Runs
<1>4. DeletionInv' /\ CollectInv'
  BY <1>1 DEF DeletionInv, CollectInv
<1>5. DeletedIsGone' /\ OrphansAreLate'
  BY <1>1 DEF TreeIInv, DeletedIsGone, OrphansAreLate, Runs, Live
<1>6. QED
  BY <1>2, <1>3, <1>4, <1>5 DEF TreeIInv

\* The collection of the children of one more source keeps the invariant.
LEMMA CollectKeeps ==
    ASSUME TreeAssumption, TreeIInv, NEW n \in Node, collectSourceSubtree(n) PROVE TreeIInv'
<1> DEFINE found == {c \in Children(n) : Live(c)}
<1>1. /\ step = "collect" /\ n \in todo
      /\ UNCHANGED <<up, row, enabled, pipeline, rules, stored, entry, worker, enabling, token, home, edit,
                     starting, events, escaped, late, former>>
      /\ ids' = ids \cup found
      /\ \/ step' = "disable" /\ todo' = ids /\ found = {} /\ todo = {n}
         \/ step' = "collect" /\ todo' = (todo \ {n}) \cup found
  BY DEF collectSourceSubtree, IsNext, requests, rowVars, workerVars, history
<1>2. found \subseteq Node /\ \A c \in found : Live(c)
  BY DEF Children
<1>3. \A c \in Node \ {Root} : Live(c) /\ Parent[c] = n => c \in found
  BY DEF Children
<1> HIDE DEF found
<1>4. TreeTypeInv'
  BY <1>1, <1>2 DEF TreeIInv, TreeTypeInv
<1>5. DownInv' /\ NothingYet'
  BY <1>1 DEF TreeIInv, DownInv, NothingYet, Runs
<1>6. PipelineInv'
  BY <1>1 DEF TreeIInv, PipelineInv, Known
<1>7. DeletionInv'
  BY <1>1, <1>2 DEF TreeIInv, DeletionInv, Past, Live
<1>8. CollectInv'
  BY <1>1, <1>2, <1>3 DEF TreeIInv, CollectInv, Live
<1>9. DeletedIsGone' /\ OrphansAreLate'
  BY <1>1 DEF TreeIInv, DeletedIsGone, OrphansAreLate, Runs, Live
<1>10. QED
  BY <1>4, <1>5, <1>6, <1>7, <1>8, <1>9 DEF TreeIInv

\* The deletion goes on to its next source, or to its next step.
Proceeds(n, next, last) ==
    \/ todo = {n} /\ step' = last /\ todo' = ids
    \/ step' = next /\ todo' = todo \ {n}

\* The steps that stop the worker of one source keep the invariant: the source escapes
\* if a worker of it is left.
LEMMA DisableKeeps ==
    ASSUME TreeAssumption, TreeIInv, NEW n \in Node,
           DeleteDisables(n) \/ DeleteWaited(n) \/ DisableFails(n) \/ RemoveTimesOut(n)
    PROVE  TreeIInv'
<1>1. /\ n \in todo /\ step \in {"disable", "wait"}
      /\ enabled' \subseteq Node /\ entry' \in Entries
      /\ UNCHANGED <<up, row, pipeline, rules, stored, worker, enabling, ids, home, edit, starting,
                     events, late, former>>
      /\ escaped' \in {escaped, escaped \cup {n}}
  BY DEF DeleteDisables, DeleteWaited, DisableFails, RemoveTimesOut, Handles, Handled, IsNext, Disables,
         EscapesIf, requests, rowVars, workerVars, history, TreeIInv, TreeTypeInv, Entries
<1>2. \/ /\ step' = "wait" /\ todo' = todo /\ step = "disable"
         /\ token' \in {n} \X Slot
         /\ n \in escaped' \/ \A k \in Slot : worker[n][k] # None => k = token'[2]
      \/ Proceeds(n, "disable", "data") /\ (n \in escaped' \/ ~Runs(n))
  <2>1. CASE DeleteDisables(n)
    <3>1. /\ step = "disable"
          /\ escaped' = IF \E k \in Slot : k # entry[n] /\ worker[n][k] # None
                        THEN escaped \cup {n} ELSE escaped
      BY <2>1 DEF DeleteDisables, EscapesIf
    <3>2. CASE entry[n] = None
      <4>1. Handled(n, "disable", "data")
        BY <2>1, <3>2 DEF DeleteDisables
      <4>2. \A k \in Slot : k # None
        BY DEF TreeAssumption
      <4>3. QED
        BY <3>1, <3>2, <4>1, <4>2 DEF Handled, Proceeds, Runs
    <3>3. CASE entry[n] # None
      <4>1. step' = "wait" /\ token' = <<n, entry[n]>> /\ todo' = todo
        BY <2>1, <3>3 DEF DeleteDisables
      <4>2. entry[n] \in Slot
        BY <3>3 DEF TreeIInv, TreeTypeInv, Entries
      <4>3. QED
        BY <3>1, <4>1, <4>2
    <3>4. QED
      BY <3>2, <3>3
  <2>2. CASE DeleteWaited(n)
    <3>1. step = "wait" /\ n = token[1] /\ worker[n][token[2]] = None /\ Handled(n, "disable", "data")
          /\ escaped' = escaped
      BY <2>2 DEF DeleteWaited, history
    <3>2. n \in escaped \/ \A k \in Slot : worker[n][k] # None => k = token[2]
      BY <1>1, <3>1 DEF TreeIInv, TreeTypeInv, DeletionInv
    <3>3. QED
      BY <3>1, <3>2 DEF Handled, Proceeds, Runs
  <2>3. CASE DisableFails(n)
    BY <2>3 DEF DisableFails, Handles, Handled, EscapesIf, Proceeds
  <2>4. CASE RemoveTimesOut(n)
    BY <2>4 DEF RemoveTimesOut, Handled, EscapesIf, Proceeds
  <2>5. QED
    BY <2>1, <2>2, <2>3, <2>4
<1>3. up
  BY <1>1 DEF TreeIInv, DownInv
<1>4. step' \in {"disable", "wait", "data"} /\ step # "idle"
  BY <1>1, <1>2 DEF Proceeds
<1>5. TreeTypeInv'
  <2>1. todo' \subseteq ids' /\ (step' = "wait" => token' \in todo' \X Slot)
    BY <1>1, <1>2 DEF Proceeds, TreeIInv, TreeTypeInv
  <2>2. QED
    BY <1>1, <1>4, <2>1 DEF TreeIInv, TreeTypeInv
<1>6. DownInv' /\ NothingYet'
  BY <1>1, <1>3, <1>4 DEF TreeIInv, DownInv, NothingYet
<1>7. PipelineInv'
  BY <1>1, <1>4 DEF TreeIInv, PipelineInv, Known
<1>8. DeletionInv'
  <2>1. \A m \in ids : m \notin escaped' => m \notin escaped
    BY <1>1
  <2>2. ASSUME NEW m \in ids, m \notin escaped', step' = "wait", m = token'[1]
        PROVE  \A k \in Slot : worker[m][k] # None => k = token'[2]
    BY <1>2, <2>2 DEF Proceeds
  <2>3. ASSUME NEW m \in ids, m \notin escaped',
               (step' \in {"disable", "wait"} /\ m \notin todo') \/ step' = "data"
        PROVE  ~Runs(m)
    <3>1. m = n \/ m \notin todo
      BY <1>1, <1>2, <2>3 DEF Proceeds
    <3>2. CASE m \notin todo
      BY <1>1, <2>1, <2>3, <3>2 DEF TreeIInv, DeletionInv, Past
    <3>3. CASE m = n /\ m \in todo
      BY <1>1, <1>2, <2>3, <3>3 DEF Proceeds
    <3>4. QED
      BY <3>1, <3>2, <3>3
  <2>4. step' = "data" => todo' = ids
    BY <1>1, <1>2 DEF Proceeds
  <2>5. QED
    BY <1>1, <1>4, <2>2, <2>3, <2>4 DEF TreeIInv, DeletionInv, Past, Runs
<1>9. CollectInv' /\ OrphansAreLate'
  BY <1>1 DEF TreeIInv, CollectInv, OrphansAreLate, Live
<1>10. DeletedIsGone'
  BY <1>1 DEF TreeIInv, DeletedIsGone, Runs
<1>11. QED
  BY <1>5, <1>6, <1>7, <1>8, <1>9, <1>10 DEF TreeIInv

\* So do those that delete its logs and its rules.
LEMMA DeleteStepKeeps ==
    ASSUME TreeAssumption, TreeIInv, NEW n \in Node, deleteSubtreeStoreData(n) \/ deleteFactoryRules(n)
    PROVE  TreeIInv'
<1>1. /\ n \in todo
      /\ UNCHANGED <<up, row, enabled, pipeline, entry, worker, enabling, ids, token, home, edit, starting,
                     events, escaped, late, former>>
      /\ \/ /\ step = "data" /\ Proceeds(n, "data", "rules")
            /\ stored' = stored \ {<<n, home>>} /\ rules' = rules
         \/ /\ step = "rules" /\ Proceeds(n, "rules", "rows")
            /\ rules' = rules \ {n} /\ stored' = stored
  BY DEF deleteSubtreeStoreData, deleteFactoryRules, Handles, Handled, Proceeds, IsNext, requests,
         workerVars, history
<1>2. up
  BY <1>1 DEF TreeIInv, DownInv
<1>3. step \in {"data", "rules"} /\ step' \in {"data", "rules", "rows"}
  BY <1>1 DEF Proceeds
<1>4. TreeTypeInv'
  BY <1>1, <1>3 DEF TreeIInv, TreeTypeInv, Proceeds
<1>5. DownInv' /\ NothingYet'
  BY <1>1, <1>2, <1>3 DEF TreeIInv, DownInv, NothingYet
<1>6. PipelineInv'
  BY <1>1, <1>3 DEF TreeIInv, PipelineInv, Known
<1>7. DeletionInv'
  <2>1. \A m \in ids : m \notin escaped => ~Runs(m)
    BY <1>3 DEF TreeIInv, DeletionInv, Past
  <2>2. QED
    BY <1>1, <1>3, <2>1 DEF TreeIInv, TreeTypeInv, DeletionInv, Proceeds, Past, Runs
<1>8. CollectInv' /\ OrphansAreLate'
  BY <1>1, <1>3 DEF TreeIInv, CollectInv, OrphansAreLate, Live
<1>9. DeletedIsGone'
  BY <1>1 DEF TreeIInv, DeletedIsGone, Runs
<1>10. QED
  BY <1>4, <1>5, <1>6, <1>7, <1>8, <1>9 DEF TreeIInv

-----------------------------------------------------------------------------

\* Every step keeps the invariant.
LEMMA TreeNextKeeps == ASSUME TreeAssumption, TreeIInv, [TreeNext]_treeVars PROVE TreeIInv'
<1>1. CASE TreeNext
  <2>1. Root \in Node
    BY DEF TreeAssumption
  <2>2. QED
    BY <1>1, <2>1, CreateKeeps, StartKeeps, CrashKeeps, WorkKeeps, RegisterKeeps, RequestKeeps,
       SaveKeeps, EditKeeps, CopyKeeps, DeleteBeginKeeps, DeleteEndKeeps, DeleteFailsKeeps, CollectKeeps,
       DisableKeeps, DeleteStepKeeps
    DEF TreeNext, Work, Delete
<1>2. CASE UNCHANGED treeVars
  <2>1. UNCHANGED <<up, row, enabled, pipeline, rules, stored, entry, worker, enabling, step, ids, todo,
                    token, home, edit, starting, events, escaped, late, former>>
    BY <1>2 DEF treeVars, requests, rowVars, workerVars, deleteVars, history
  <2>2. /\ \A n : Runs(n)' = Runs(n) /\ Live(n)' = Live(n)
        /\ \A n, at, later : Past(n, at, later)' = Past(n, at, later)
        /\ Known' = Known
    BY <2>1 DEF Runs, Live, Past, Known
  <2>3. QED
    BY <2>1, <2>2 DEF TreeIInv, TreeTypeInv, DownInv, NothingYet, PipelineInv, DeletionInv, CollectInv,
                      DeletedIsGone, OrphansAreLate
<1>3. QED
  BY <1>1, <1>2

\* The invariant holds in every behaviour.
LEMMA TreeInvariantHolds == ASSUME TreeAssumption PROVE TreeSpec => []TreeIInv
<1>1. TreeInit => TreeIInv
  BY TreeInitially
<1>2. TreeIInv /\ [TreeNext]_treeVars => TreeIInv'
  BY TreeNextKeeps
<1>3. QED
  BY <1>1, <1>2, PTL DEF TreeSpec

-----------------------------------------------------------------------------

\* The state is well typed: DeleteEvmLogSource still has to do only for sources it has
\* collected, and waits for a worker of one of them (DeleteEvmLogSource,
\* collectSourceSubtree, RemoveAndWait).
THEOREM TreeTypeCorrect == ASSUME TreeAssumption PROVE TreeSpec => []TreeTypeInv
<1>1. TreeIInv => TreeTypeInv
  BY DEF TreeIInv
<1>2. QED
  BY <1>1, TreeInvariantHolds, PTL

\* Of a deleted source no rule and no worker is left, and no log but in the store of a
\* former pipeline of the root, unless it escaped: a worker that an earlier stop had
\* removed was still in its window, the wait for its worker ran out or was not begun, it
\* was started after it had been stopped, or given rules after those were deleted
\* (DeleteEvmLogSource).
THEOREM DeletedSourceIsGone == ASSUME TreeAssumption PROVE TreeSpec => []DeletedIsGone
<1>1. TreeIInv => DeletedIsGone
  BY DEF TreeIInv
<1>2. QED
  BY <1>1, TreeInvariantHolds, PTL

\* A child that outlives its parent was registered after the deletion had looked for
\* the children of that parent (collectSourceSubtree).
THEOREM OrphansWereLate == ASSUME TreeAssumption PROVE TreeSpec => []OrphansAreLate
<1>1. TreeIInv => OrphansAreLate
  BY DEF TreeIInv
<1>2. QED
  BY <1>1, TreeInvariantHolds, PTL

-----------------------------------------------------------------------------
(***************************************************************************)
(* LogStore.                                                               *)
(*                                                                         *)
(* Replays are harmless because they repeat whole blocks: a place of       *)
(* ClickHouse and a file belong to blocks of their own, so what an insert  *)
(* puts in their stead has all that was there; and a row of the stores     *)
(* keyed by id never changes hands, because no two sources cover its log.  *)
(* The contract then gives the reads theirs: what can be read and is not   *)
(* due stays so until its source is deleted, so a read in pages still      *)
(* finds, or has returned, everything that was there when it began; and    *)
(* one that goes from file to file finds in each all that its name         *)
(* promises, or no file.                                                   *)
(***************************************************************************)
\* The logs of a source in a range of blocks; a file holds those of its name.
Between(s, range) == {l \in covers[s] : range[1] <= Block[l] /\ Block[l] <= range[2]}

\* A row is of a source that covers the log, and no two do.
RowsInv ==
    kind \in Keyed =>
        /\ Disjoint(covers)
        /\ \A l \in Log : rows[l] # Nobody => l \in covers[rows[l]]

\* A place is in the block of its log, and has one row of a source.
CellsInv ==
    \A s \in Source : \A c \in cells[s] :
        /\ c.log \in covers[s] /\ c.at[1] = Block[c.log]
        /\ table = "logs" => c.at[2] = c.log
        /\ \A d \in cells[s] : c.at = d.at => c = d

\* Logs that fill the range they are named after.
Whole(s, logs) == logs # {} /\ logs = Between(s, FileName(logs))

\* So does every file, and what is written aside to become one.
FilesInv ==
    \A s \in Source :
        /\ \A f \in files[s] : f.logs = Between(s, f.name)
        /\ writer[s].pc = "tmp" => kind = "parquet" /\ Whole(s, writer[s].logs)

\* What sorts after what in the pages of Elasticsearch.
After(l, m) == IF Descends THEN l < m ELSE l > m

\* What a read in progress still has to return can be read, and what it has
\* passed it has found or will find in a file that it has listed.
ReaderInv ==
    reader.pc = "reading" =>
        /\ \A p \in reader.kept :
              IF p[1] \in reader.todo
              THEN p \in VisiblePairs \ DoomedPairs
              ELSE /\ kind = "parquet"
                   /\ \/ p \in reader.found
                      \/ \E q \in reader.listed : q[1] = p[1] /\ p[2] \in Between(p[1], q[2])
        /\ reader.listed # {} => kind = "parquet"
        /\ reader.op = "after" => table = "logs"
        /\ table = "transactions" => \E s \in Source : reader.todo \subseteq {s}

\* So have the pages of Elasticsearch.
PagesInv ==
    kind = "elasticsearch" /\ reader.pc = "reading" =>
        /\ \A i, j \in DOMAIN reader.out : i < j => After(reader.out[j][2], reader.out[i][2])
        /\ \A p \in reader.kept : p \in ToSet(reader.out) \cup RestOf({p})

StoreInv == TypeOK /\ RowsInv /\ CellsInv /\ FilesInv

ReadInv == ReaderInv /\ PagesInv

IInv == StoreInv /\ ReadInv /\ ReadIsExact

-----------------------------------------------------------------------------
(* Numbers and sequences *)

\* A set of blocks has a first one and a last one.
LEMMA FirstAndLast ==
    ASSUME NEW n \in Nat, NEW S \in SUBSET (1 .. n), S # {}
    PROVE  /\ \E x \in S : \A y \in S : x <= y
           /\ \E x \in S : \A y \in S : y <= x
<1>1. \A T \in SUBSET Nat : T # {} => \E x \in T : \A y \in T : x <= y
  <2> SUFFICES ASSUME NEW T \in SUBSET Nat, T # {}
               PROVE  \E x \in T : \A y \in T : x <= y
    OBVIOUS
  <2>1. PICK x \in T : \A y \in T : ~ (<<y, x>> \in OpToRel(<, Nat))
    BY NatLessThanWellFounded, WFMin, Zenon
  <2>2. \A y \in T : ~ (y < x)
    BY <2>1 DEF OpToRel
  <2> QED
    BY <2>2
<1>2. PICK z \in {n - y : y \in S} : \A y \in {n - y : y \in S} : z <= y
  <2>1. \A y \in S : n - y \in Nat
    OBVIOUS
  <2>2. {n - y : y \in S} \in SUBSET Nat /\ {n - y : y \in S} # {}
    BY <2>1
  <2> QED
    BY <1>1, <2>2, Zenon
<1>3. PICK x \in S : z = n - x
  BY <1>2
<1>4. \A y \in S : n - x <= n - y
  BY <1>2, <1>3
<1>5. S \in SUBSET Nat /\ \A y \in S : y <= x
  BY <1>4
<1> QED
  BY <1>1, <1>5

\* An injection from the numbers up to the size of a finite set reaches all of
\* it.
LEMMA ReachesAll ==
    ASSUME NEW S, IsFiniteSet(S), NEW f \in [1 .. Cardinality(S) -> S], IsInjective(f)
    PROVE  /\ f \in Seq(S) /\ Len(f) = Cardinality(S) /\ Len(f) \in Nat
           /\ \A x \in S : \E i \in DOMAIN f : f[i] = x
<1>1. Cardinality(S) \in Nat
  BY FS_CardinalityType
<1>2. f \in Seq(S) /\ Len(f) = Cardinality(S)
  BY <1>1
<1>3. f \in Injection(1 .. Cardinality(S), S)
  BY DEF Injection
<1>4. Cardinality(1 .. Cardinality(S)) = Cardinality(S)
  BY <1>1, FS_Interval
<1>5. f \in Surjection(1 .. Cardinality(S), S)
  BY <1>3, <1>4, FS_Injection, Zenon
<1> QED
  BY <1>1, <1>2, <1>5 DEF Surjection

LEMMA SequencesOfSet ==
    ASSUME NEW S, IsFiniteSet(S), NEW out \in SetToSeqs(S)
    PROVE  /\ out \in Seq(S)
           /\ \A i, j \in DOMAIN out : i # j => out[i] # out[j]
           /\ \A x \in S : \E i \in DOMAIN out : out[i] = x
<1>1. /\ out \in [1 .. Cardinality(S) -> S]
      /\ \A i, j \in 1 .. Cardinality(S) : i # j => out[i] # out[j]
  BY DEF SetToSeqs
<1>2. IsInjective(out)
  BY <1>1 DEF IsInjective
<1> QED
  BY <1>1, <1>2, ReachesAll

-----------------------------------------------------------------------------
(* Answers *)

\* The order of two logs in an answer, by block and, where the query says so,
\* by index.
Before(l, m) ==
    /\ IF Descends THEN Block[m] <= Block[l] ELSE Block[l] <= Block[m]
    /\ ByIndex => IF Descends THEN m <= l ELSE l <= m

\* An answer has the rows once each, in order: all of them or, of the latest,
\* those that come first.
LEMMA AnswersInOrder ==
    ASSUME NEW S, IsFiniteSet(S), \A x \in S : x[2] \in Log, NEW out \in Answers(S)
    PROVE  /\ out \in Seq(S)
           /\ \A i, j \in DOMAIN out : i < j => out[i] # out[j] /\ Before(out[i][2], out[j][2])
           /\ \A x \in S :
                 \/ \E i \in DOMAIN out : out[i] = x
                 \/ reader.op = "latest" /\ Len(out) = Limit /\ Before(Last(out)[2], x[2])
<1> DEFINE full == {IF Descends THEN Reverse(o) ELSE o : o \in Orders(S, ByIndex)}
<1>a. Limit \in Nat \ {0} /\ Block \in [Log -> 1 .. Blocks] /\ Log \subseteq Nat /\ Blocks \in Nat
  BY LogStoreAssumption DEF Log
<1>1. PICK all \in full :
         out = IF reader.op = "latest" /\ Len(all) > Limit THEN SubSeq(all, 1, Limit) ELSE all
  <2>1. CASE reader.op = "latest"
    BY <2>1, Zenon DEF Answers
  <2>2. CASE reader.op # "latest"
    BY <2>2, Zenon DEF Answers
  <2> QED
    BY <2>1, <2>2
<1>2. PICK o \in Orders(S, ByIndex) : all = IF Descends THEN Reverse(o) ELSE o
  BY <1>1
<1>3. /\ o \in Seq(S)
      /\ \A i, j \in DOMAIN o : i # j => o[i] # o[j]
      /\ \A x \in S : \E i \in DOMAIN o : o[i] = x
  BY <1>2, SequencesOfSet DEF Orders
<1>4. \A i, j \in DOMAIN o : i < j => Block[o[i][2]] <= Block[o[j][2]] /\ (ByIndex => o[i][2] <= o[j][2])
  BY <1>2 DEF Orders
<1>5. /\ all \in Seq(S)
      /\ \A i, j \in DOMAIN all : i < j => all[i] # all[j] /\ Before(all[i][2], all[j][2])
      /\ \A x \in S : \E i \in DOMAIN all : all[i] = x
  <2>1. CASE ~Descends
    BY <1>2, <1>3, <1>4, <2>1 DEF Before
  <2>2. CASE Descends
    <3>1. all = [i \in 1 .. Len(o) |-> o[(Len(o) - i) + 1]]
      BY <1>2, <2>2 DEF Reverse
    <3>2. Len(o) \in Nat /\ DOMAIN o = 1 .. Len(o) /\ \A i \in DOMAIN o : o[i] \in S
      BY <1>3
    <3>3. \A i \in 1 .. Len(o) : (Len(o) - i) + 1 \in 1 .. Len(o) /\ all[i] = o[(Len(o) - i) + 1]
      BY <3>1, <3>2
    <3>4. all \in Seq(S) /\ Len(all) = Len(o) /\ DOMAIN all = 1 .. Len(o)
      BY <3>1, <3>2, <3>3
    <3>5. ASSUME NEW i \in DOMAIN all, NEW j \in DOMAIN all, i < j
          PROVE  all[i] # all[j] /\ Before(all[i][2], all[j][2])
      <4>1. (Len(o) - j) + 1 < (Len(o) - i) + 1
        BY <3>2, <3>4, <3>5
      <4> DEFINE a == (Len(o) - j) + 1
                 b == (Len(o) - i) + 1
      <4>2. a \in DOMAIN o /\ b \in DOMAIN o /\ a < b /\ all[i] = o[b] /\ all[j] = o[a]
        BY <3>2, <3>3, <3>4, <4>1
      <4>3. o[a] # o[b] /\ Block[o[a][2]] <= Block[o[b][2]] /\ (ByIndex => o[a][2] <= o[b][2])
        <5> HIDE DEF a, b
        <5>1. a # b
          BY <3>2, <4>2
        <5> QED
          BY <1>3, <1>4, <4>2, <5>1
      <4> QED
        BY <2>2, <4>2, <4>3, Zenon DEF Before
    <3>6. ASSUME NEW x \in S PROVE \E i \in DOMAIN all : all[i] = x
      <4>1. PICK k \in 1 .. Len(o) : o[k] = x
        BY <1>3, <3>2
      <4>2. (Len(o) - k) + 1 \in 1 .. Len(o) /\ (Len(o) - ((Len(o) - k) + 1)) + 1 = k
        BY <3>2
      <4> QED
        BY <3>3, <3>4, <4>1, <4>2
    <3> QED
      BY <3>4, <3>5, <3>6
  <2> QED
    BY <2>1, <2>2
<1>6. CASE ~(reader.op = "latest" /\ Len(all) > Limit)
  BY <1>1, <1>5, <1>6
<1>7. CASE reader.op = "latest" /\ Len(all) > Limit
  <2>1. out = SubSeq(all, 1, Limit) /\ Len(all) \in Nat /\ DOMAIN all = 1 .. Len(all)
    <3>1. out = SubSeq(all, 1, Limit)
      BY <1>1, <1>7, Zenon
    <3> QED
      BY <1>5, <3>1
  <2>2. /\ out \in Seq(S) /\ Len(out) = Limit /\ DOMAIN out = 1 .. Limit
        /\ \A i \in 1 .. Limit : out[i] = all[i] /\ i \in DOMAIN all
    <3>1. \A i \in 1 .. Limit : i \in 1 .. Len(all)
      BY <1>a, <1>7, <2>1
    <3> QED
      BY <1>a, <1>5, <1>7, <2>1, <3>1
  <2>3. ASSUME NEW x \in S
        PROVE  (\E i \in DOMAIN out : out[i] = x) \/ Before(Last(out)[2], x[2])
    <3>1. PICK k \in DOMAIN all : all[k] = x
      BY <1>5
    <3>2. CASE k <= Limit
      BY <1>a, <2>1, <2>2, <3>1, <3>2
    <3>3. CASE Limit < k
      <4>1. Limit \in 1 .. Limit /\ Last(out) = all[Limit]
        BY <1>a, <2>2 DEF Last
      <4> QED
        BY <1>5, <2>2, <3>1, <3>3, <4>1
    <3> QED
      BY <1>a, <2>1, <3>2, <3>3
  <2> QED
    BY <1>5, <1>7, <2>2, <2>3
<1> QED
  BY <1>6, <1>7

-----------------------------------------------------------------------------
(* Windows, places and files *)

LEMMA Numbers ==
    /\ IsFiniteSet(Source) /\ IsFiniteSet(Log) /\ Log \subseteq Nat
    /\ Logs \in Nat /\ Blocks \in Nat /\ Block \in [Log -> 1 .. Blocks]
    /\ \A l, m \in Log : l < m => Block[l] <= Block[m]
  BY LogStoreAssumption, FS_Interval DEF Log

LEMMA PairsAreFinite == ASSUME NEW S \in SUBSET Pair PROVE IsFiniteSet(S)
  BY Numbers, FS_Product, FS_Subset DEF Pair

LEMMA WindowType ==
    ASSUME TypeOK, NEW s \in Source, NEW to
    PROVE  Window(s, to) \in SUBSET Log /\ Window(s, to) \subseteq covers[s] /\ covers[s] \subseteq Log
  BY LogStoreAssumption DEF TypeOK, Window

\* The number of a transaction in the list of a window is its own.
LEMMA KeysDiffer ==
    ASSUME NEW window \in SUBSET Log
    PROVE  /\ \A l \in window : SortingKey(l, window) \in Place
           /\ \A l, m \in window : SortingKey(l, window) = SortingKey(m, window) => l = m
<1> DEFINE Under(l) == {m \in window : m < l}
<1>1. ASSUME NEW l \in window
      PROVE  IsFiniteSet(Under(l)) /\ Cardinality(Under(l)) \in 0 .. Logs
  <2>1. Under(l) \subseteq Log
    OBVIOUS
  <2>2. Cardinality(Log) = Logs
    BY Numbers, FS_Interval DEF Log
  <2>3. IsFiniteSet(Under(l)) /\ Cardinality(Under(l)) <= Cardinality(Log)
    BY <2>1, Numbers, FS_Subset
  <2> QED
    BY <2>2, <2>3, Numbers, FS_CardinalityType
<1>2. ASSUME NEW l \in window, NEW m \in window, l < m
      PROVE  Cardinality(Under(l)) # Cardinality(Under(m))
  <2>1. Under(l) \in SUBSET Under(m) /\ l \in Under(m) /\ l \notin Under(l)
    <3>1. l \in Nat /\ m \in Nat /\ \A q \in window : q \in Nat
      BY Numbers
    <3>2. \A q \in window : q < l => q < m
      BY <1>2, <3>1
    <3>3. Under(l) \in SUBSET Under(m)
      BY <3>2, Zenon
    <3>4. l \in Under(m) /\ l \notin Under(l)
      BY <1>2, <3>1
    <3> QED
      BY <3>3, <3>4
  <2>2. Under(l) # Under(m)
    BY <2>1
  <2> QED
    BY <1>1, <2>1, <2>2, FS_Subset
<1>3. \A l \in window : SortingKey(l, window) \in Place
  <2> SUFFICES ASSUME NEW l \in window PROVE SortingKey(l, window) \in Place
    OBVIOUS
  <2>1. Block[l] \in 1 .. Blocks /\ l \in 0 .. Logs
    BY Numbers DEF Log
  <2> QED
    BY <1>1, <2>1 DEF SortingKey, Place
<1>4. \A l, m \in window : SortingKey(l, window) = SortingKey(m, window) => l = m
  <2> SUFFICES ASSUME NEW l \in window, NEW m \in window, l # m,
                      SortingKey(l, window) = SortingKey(m, window)
               PROVE  FALSE
    OBVIOUS
  <2>1. l < m \/ m < l
    BY Numbers
  <2>2. Cardinality(Under(l)) # Cardinality(Under(m))
    BY <1>2, <2>1
  <2> QED
    BY <2>2 DEF SortingKey
<1> QED
  BY <1>3, <1>4

\* The name of a file.
LEMMA FileNameIsRange ==
    ASSUME NEW logs \in SUBSET Log, logs # {}
    PROVE  /\ FirstBlock(logs) \in {Block[l] : l \in logs}
           /\ LastBlock(logs) \in {Block[l] : l \in logs}
           /\ \A l \in logs : FirstBlock(logs) <= Block[l] /\ Block[l] <= LastBlock(logs)
           /\ FileName(logs) \in {n \in (1 .. Blocks) \X (1 .. Blocks) : n[1] <= n[2]}
<1> DEFINE S == {Block[l] : l \in logs}
<1>1. S \in SUBSET (1 .. Blocks) /\ S # {} /\ Blocks \in Nat
  BY Numbers
<1>2. (\E x \in S : \A y \in S : x <= y) /\ (\E x \in S : \A y \in S : y <= x)
  BY <1>1, FirstAndLast
<1>3. /\ FirstBlock(logs) \in S /\ \A l \in logs : FirstBlock(logs) <= Block[l]
      /\ LastBlock(logs) \in S /\ \A l \in logs : Block[l] <= LastBlock(logs)
  BY <1>2, Zenon DEF FirstBlock, LastBlock
<1>4. FirstBlock(logs) <= LastBlock(logs)
  BY <1>1, <1>3
<1> QED
  BY <1>1, <1>3, <1>4 DEF FileName

\* A window has all the logs of its source between its first block and its
\* last one.
LEMMA WindowIsWhole ==
    ASSUME TypeOK, NEW s \in Source, NEW to \in 1 .. Blocks, Window(s, to) # {}
    PROVE  Window(s, to) = Between(s, FileName(Window(s, to)))
<1> DEFINE logs == Window(s, to)
<1>1. logs \in SUBSET Log /\ covers[s] \subseteq Log /\ cursor[s] \in 0 .. Blocks
  BY WindowType DEF TypeOK
<1>2. /\ FirstBlock(logs) \in {Block[l] : l \in logs} /\ LastBlock(logs) \in {Block[l] : l \in logs}
      /\ \A l \in logs : FirstBlock(logs) <= Block[l] /\ Block[l] <= LastBlock(logs)
  BY <1>1, FileNameIsRange
<1>3. PICK a \in logs, b \in logs : FirstBlock(logs) = Block[a] /\ LastBlock(logs) = Block[b]
  BY <1>2
<1>4. FileName(logs)[1] = Block[a] /\ FileName(logs)[2] = Block[b]
  BY <1>3 DEF FileName
<1>5. ASSUME NEW l \in covers[s], Block[a] <= Block[l], Block[l] <= Block[b]
      PROVE  l \in logs
  <2>1. cursor[s] < Block[a] /\ Block[b] <= to
    BY DEF Window
  <2>2. Block[a] \in 1 .. Blocks /\ Block[b] \in 1 .. Blocks /\ Block[l] \in 1 .. Blocks
    BY <1>1, Numbers
  <2>3. cursor[s] < Block[l] /\ Block[l] <= to
    BY <1>1, <1>5, <2>1, <2>2, Numbers
  <2> QED
    BY <2>3 DEF Window
<1>6. \A l \in logs : l \in covers[s] /\ Block[a] <= Block[l] /\ Block[l] <= Block[b]
  BY <1>2, <1>3 DEF Window
<1> HIDE DEF logs
<1>7. logs = Between(s, FileName(logs))
  BY <1>4, <1>5, <1>6 DEF Between
<1> QED
  BY <1>7 DEF logs

-----------------------------------------------------------------------------
(* Types and the invariant of the rows *)

\* Everything but reads keeps the reader's type.
LEMMA InsertTypes ==
    ASSUME TypeOK, NEW s \in Source, IndexWindow(s) PROVE TypeOK'
<1>1. PICK to \in cursor[s] + 1 .. Blocks :
         \/ EmptyWindow(s, to)
         \/ /\ Window(s, to) # {}
            /\ \/ InsertSQL(s, to) \/ InsertMongoDB(s, to)
               \/ InsertElasticsearch(s, to) \/ InsertClickHouse(s, to)
         \/ WriteTmpFile(s, to)
  BY DEF IndexWindow
<1>2. UNCHANGED <<choice, created, cursor, reader>>
  BY DEF IndexWindow
<1>3. to \in 1 .. Blocks
  BY Numbers DEF TypeOK
<1>4. Window(s, to) \in SUBSET Log /\ {s} \X Window(s, to) \subseteq Pair
  BY WindowType DEF Pair
<1>5. [writer EXCEPT ![s] = [pc |-> "stored", to |-> to]] \in [Source -> Writer]
  BY <1>3 DEF TypeOK, Writer
<1>6. Acknowledge(s, Window(s, to), to) => writer' \in [Source -> Writer] /\ acked' \subseteq Pair
  BY <1>4, <1>5 DEF TypeOK, Acknowledge
<1>7. CASE EmptyWindow(s, to)
  BY <1>2, <1>5, <1>7 DEF EmptyWindow, choice, TypeOK
<1>8. CASE WriteTmpFile(s, to)
  <2>1. writer' \in [Source -> Writer]
    BY <1>3, <1>4, <1>8 DEF WriteTmpFile, TypeOK, Writer
  <2> QED
    BY <1>2, <1>8, <2>1 DEF WriteTmpFile, choice, TypeOK
<1>9. CASE InsertSQL(s, to)
  <2>1. rows' \in [Log -> Source \cup {Nobody}]
    BY <1>9 DEF InsertSQL, TypeOK
  <2> QED
    BY <1>2, <1>6, <1>9, <2>1 DEF InsertSQL, choice, TypeOK
<1>10. CASE InsertMongoDB(s, to) \/ InsertElasticsearch(s, to)
  <2>1. ReplaceDocuments(s, to)
    BY <1>10 DEF InsertMongoDB, InsertElasticsearch
  <2>2. rows' \in [Log -> Source \cup {Nobody}] /\ writer' \in [Source -> Writer] /\ acked' \subseteq Pair
    BY <1>6, <2>1 DEF ReplaceDocuments, TypeOK
  <2> QED
    BY <1>2, <2>1, <2>2 DEF ReplaceDocuments, choice, TypeOK
<1>11. CASE InsertClickHouse(s, to)
  <2> DEFINE window == Window(s, to)
             new == {[at |-> SortingKey(l, window), log |-> l, doomed |-> FALSE] : l \in window}
  <2>1. /\ cells' = [cells EXCEPT ![s] = {c \in @ : \A n \in new : n.at # c.at} \cup new]
        /\ Acknowledge(s, window, to) /\ UNCHANGED <<rows, files>>
    BY <1>11 DEF InsertClickHouse
  <2>2. new \subseteq Cell
    <3>1. \A l \in window : l \in Log /\ SortingKey(l, window) \in Place
      BY <1>4, KeysDiffer
    <3>2. ASSUME NEW l \in window
          PROVE  [at |-> SortingKey(l, window), log |-> l, doomed |-> FALSE] \in Cell
      <4> HIDE DEF window
      <4> QED
        BY <3>1, <3>2 DEF Cell
    <3> HIDE DEF window
    <3> QED
      BY <3>2
  <2>3. cells' \in [Source -> SUBSET Cell]
    <3> HIDE DEF new
    <3> QED
      BY <2>1, <2>2 DEF TypeOK
  <2> QED
    BY <1>2, <1>6, <2>1, <2>3 DEF choice, TypeOK
<1> QED
  BY <1>1, <1>7, <1>8, <1>9, <1>10, <1>11

LEMMA OtherTypes ==
    ASSUME TypeOK, FilesInv, NEW s \in Source,
           \/ RenameFile(s) \/ AdvanceCursor(s) \/ WorkerDies(s)
           \/ Mutation(s) \/ DeleteSourceData(s)
    PROVE  TypeOK'
<1>1. CASE RenameFile(s)
  <2>1. writer[s] \in [pc : {"tmp"}, to : 1 .. Blocks, logs : SUBSET Log]
    BY <1>1 DEF RenameFile, TypeOK, Writer, Idle
  <2> DEFINE logs == writer[s].logs
  <2>2. logs \in SUBSET Log /\ logs # {} /\ {s} \X logs \subseteq Pair
    BY <1>1, <2>1 DEF RenameFile, FilesInv, Whole, Pair
  <2>3. [name |-> FileName(logs), logs |-> logs] \in File
    BY <2>2, FileNameIsRange DEF File, Name
  <2>4. files' \in [Source -> SUBSET File]
    <3> HIDE DEF logs
    <3> QED
      BY <1>1, <2>3 DEF RenameFile, TypeOK, logs
  <2>5. writer' \in [Source -> Writer] /\ acked' \subseteq Pair
    BY <1>1, <2>1, <2>2 DEF RenameFile, Acknowledge, TypeOK, Writer
  <2> QED
    BY <1>1, <2>4, <2>5 DEF RenameFile, TypeOK, choice
<1>2. CASE AdvanceCursor(s)
  <2>1. writer[s] \in [pc : {"stored"}, to : 1 .. Blocks]
    BY <1>2 DEF AdvanceCursor, TypeOK, Writer, Idle
  <2> QED
    BY <1>2, <2>1, Numbers DEF AdvanceCursor, TypeOK, Writer, choice, store
<1>3. CASE WorkerDies(s)
  BY <1>3 DEF WorkerDies, TypeOK, Writer, choice, store
<1>4. CASE Mutation(s)
  BY <1>4 DEF Mutation, TypeOK, choice
<1>5. CASE DeleteSourceData(s)
  <2>1. PICK left : Acknowledges(s, left)
    BY <1>5 DEF DeleteSourceData, DeleteSQL, DeleteMongoDB, DeleteElasticsearch, RemovesRows,
                DeletesSomeDocuments, DeleteClickHouse, DeleteFiles, DeletesSomeFiles
  <2>2. UNCHANGED <<choice, created, cursor>> /\ acked' \subseteq Pair
    BY <2>1 DEF Acknowledges, TypeOK
  <2>3. reader' \in Reader
    <3>1. {p \in reader.kept : p[1] = s => p[2] \in left} \in SUBSET Pair
      BY DEF TypeOK, Reader
    <3> QED
      BY <2>1, <3>1 DEF Acknowledges, TypeOK, Reader
  <2>4. \A logs : RowsWithout(logs) \in [Log -> Source \cup {Nobody}]
    BY DEF RowsWithout, TypeOK
  <2>5. rows' \in [Log -> Source \cup {Nobody}] /\ files' \in [Source -> SUBSET File]
    BY <1>5, <2>4 DEF DeleteSourceData, DeleteSQL, DeleteMongoDB, DeleteElasticsearch, RemovesRows,
                      DeletesSomeDocuments, DeleteClickHouse, DeleteFiles, DeletesSomeFiles, TypeOK
  <2>6. \A c \in cells[s] : [c EXCEPT !.doomed = TRUE] \in Cell
    <3>1. \A c \in cells[s] : c \in Cell
      BY DEF TypeOK
    <3> QED
      BY <3>1 DEF Cell
  <2>7. cells' \in [Source -> SUBSET Cell] /\ writer' \in [Source -> Writer]
    BY <1>5, <2>6 DEF DeleteSourceData, DeleteSQL, DeleteMongoDB, DeleteElasticsearch, RemovesRows,
                      DeletesSomeDocuments, DeleteClickHouse, DeleteFiles, DeletesSomeFiles, TypeOK, Writer
  <2> QED
    BY <2>2, <2>3, <2>5, <2>7 DEF TypeOK, choice
<1> QED
  BY <1>1, <1>2, <1>3, <1>4, <1>5

LEMMA InsertKeepsRows ==
    ASSUME StoreInv, NEW s \in Source, IndexWindow(s) PROVE StoreInv'
<1>1. PICK to \in cursor[s] + 1 .. Blocks :
         \/ EmptyWindow(s, to)
         \/ /\ Window(s, to) # {}
            /\ \/ InsertSQL(s, to) \/ InsertMongoDB(s, to)
               \/ InsertElasticsearch(s, to) \/ InsertClickHouse(s, to)
         \/ WriteTmpFile(s, to)
  BY DEF IndexWindow
<1>2. UNCHANGED <<choice, created, cursor, reader>>
  BY DEF IndexWindow
<1>3. to \in 1 .. Blocks /\ writer \in [Source -> Writer]
  BY Numbers DEF StoreInv, TypeOK
<1>4. Window(s, to) \in SUBSET Log /\ Window(s, to) \subseteq covers[s]
  BY WindowType DEF StoreInv
<1>5. UNCHANGED <<kind, table, covers>>
  BY <1>2 DEF choice
<1>6. RowsInv'
  <2>1. \A l \in Log : rows'[l] # Nobody => rows'[l] = rows[l] \/ (rows'[l] = s /\ l \in covers[s])
    <3> USE <1>4 DEF InsertSQL, InsertMongoDB, InsertElasticsearch, ReplaceDocuments,
                     EmptyWindow, InsertClickHouse, WriteTmpFile
    <3> QED
      BY <1>1
  <2> QED
    BY <1>5, <2>1 DEF RowsInv, StoreInv, Disjoint
<1>7. CellsInv'
  <2>1. CASE InsertClickHouse(s, to)
    <3> DEFINE window == Window(s, to)
               new == {[at |-> SortingKey(l, window), log |-> l, doomed |-> FALSE] : l \in window}
    <3>1. cells' = [cells EXCEPT ![s] = {c \in @ : \A n \in new : n.at # c.at} \cup new]
      BY <2>1 DEF InsertClickHouse
    <3>2. ASSUME NEW c \in new
          PROVE  /\ c.log \in covers[s] /\ c.at[1] = Block[c.log]
                 /\ table = "logs" => c.at[2] = c.log
                 /\ \A d \in new : c.at = d.at => c = d
      <4>1. \A l \in window : /\ SortingKey(l, window)[1] = Block[l]
                              /\ table = "logs" => SortingKey(l, window)[2] = l
        BY DEF SortingKey
      <4>2. \A l, m \in window : SortingKey(l, window) = SortingKey(m, window) => l = m
        BY <1>4, KeysDiffer
      <4> HIDE DEF window
      <4>3. window \subseteq covers[s]
        BY <1>4 DEF window
      <4>4. PICK l \in window : c = [at |-> SortingKey(l, window), log |-> l, doomed |-> FALSE]
        OBVIOUS
      <4>5. ASSUME NEW d \in new, c.at = d.at PROVE c = d
        <5>1. PICK m \in window : d = [at |-> SortingKey(m, window), log |-> m, doomed |-> FALSE]
          OBVIOUS
        <5> QED
          BY <4>2, <4>4, <4>5, <5>1
      <4> QED
        BY <4>1, <4>3, <4>4, <4>5
    <3>3. /\ cells'[s] = {c \in cells[s] : \A n \in new : n.at # c.at} \cup new
          /\ \A t \in Source \ {s} : cells'[t] = cells[t]
      <4> HIDE DEF new
      <4> QED
        BY <3>1 DEF StoreInv, TypeOK
    <3> HIDE DEF new
    <3>4. \A t \in Source : \A c \in cells[t] :
            /\ c.log \in covers[t] /\ c.at[1] = Block[c.log]
            /\ table = "logs" => c.at[2] = c.log
            /\ \A d \in cells[t] : c.at = d.at => c = d
      BY DEF StoreInv, CellsInv
    <3>5. ASSUME NEW c \in cells'[s]
          PROVE  /\ c.log \in covers[s] /\ c.at[1] = Block[c.log]
                 /\ table = "logs" => c.at[2] = c.log
                 /\ \A d \in cells'[s] : c.at = d.at => c = d
      BY <3>2, <3>3, <3>4
    <3> QED
      BY <1>5, <3>3, <3>4, <3>5 DEF CellsInv
  <2>2. CASE ~InsertClickHouse(s, to)
    <3>1. cells' = cells
      BY <1>1, <2>2 DEF InsertSQL, InsertMongoDB, InsertElasticsearch, ReplaceDocuments, EmptyWindow,
                        WriteTmpFile
    <3> QED
      BY <1>5, <3>1 DEF CellsInv, StoreInv
  <2> QED
    BY <2>1, <2>2
<1>8. FilesInv'
  <2>1. files' = files
    BY <1>1 DEF InsertSQL, InsertMongoDB, InsertElasticsearch, ReplaceDocuments, InsertClickHouse,
                EmptyWindow,
                WriteTmpFile
  <2>2. \A t \in Source : \A n : Between(t, n)' = Between(t, n) /\ Whole(t, n)' = Whole(t, n)
    BY <1>5 DEF Between, Whole
  <2>3. CASE WriteTmpFile(s, to)
    <3> DEFINE logs == Window(s, to)
    <3>1. kind = "parquet" /\ Whole(s, logs)
      BY <1>3, <2>3, WindowIsWhole DEF WriteTmpFile, StoreInv, Whole
    <3>2. writer' = [writer EXCEPT ![s] = [pc |-> "tmp", to |-> to, logs |-> logs]]
      BY <2>3 DEF WriteTmpFile
    <3> HIDE DEF logs
    <3>3. writer'[s].logs = logs /\ \A t \in Source \ {s} : writer'[t] = writer[t]
      BY <1>3, <3>2
    <3>4. \A t \in Source : writer'[t].pc = "tmp" => kind = "parquet" /\ Whole(t, writer'[t].logs)
      BY <3>1, <3>3 DEF FilesInv, StoreInv
    <3> QED
      BY <1>5, <2>1, <2>2, <3>4 DEF FilesInv, StoreInv
  <2>4. CASE ~WriteTmpFile(s, to)
    <3>1. \A t \in Source : writer'[t] = writer[t] \/ writer'[t].pc = "stored"
      BY <1>1, <1>3, <2>4 DEF InsertSQL, InsertMongoDB, InsertElasticsearch, ReplaceDocuments,
                              InsertClickHouse,
                  EmptyWindow, Acknowledge
    <3> QED
      BY <1>5, <2>1, <2>2, <3>1 DEF FilesInv, StoreInv
  <2> QED
    BY <2>3, <2>4
<1>9. TypeOK'
  BY InsertTypes DEF StoreInv
<1> QED
  BY <1>6, <1>7, <1>8, <1>9 DEF StoreInv

LEMMA OthersKeepRows ==
    ASSUME StoreInv, NEW s \in Source,
           \/ RenameFile(s) \/ AdvanceCursor(s) \/ WorkerDies(s)
           \/ Mutation(s) \/ DeleteSourceData(s)
    PROVE  StoreInv'
<1>1. UNCHANGED <<kind, table, covers>>
  BY DEF RenameFile, AdvanceCursor, WorkerDies, Mutation, choice, Acknowledges,
         DeleteSourceData, DeleteSQL, DeleteMongoDB, DeleteElasticsearch, RemovesRows,
         DeletesSomeDocuments, DeleteClickHouse, DeleteFiles, DeletesSomeFiles
<1>2. \A t \in Source : \A n : Between(t, n)' = Between(t, n) /\ Whole(t, n)' = Whole(t, n)
  BY <1>1 DEF Between, Whole
<1>3. TypeOK'
  BY OtherTypes DEF StoreInv
<1>4. RowsInv'
  <2>1. \A l \in Log : rows'[l] = rows[l] \/ rows'[l] = Nobody
    <3>1. CASE DeleteSourceData(s)
      BY <3>1 DEF RowsWithout, DeleteSourceData, DeleteSQL, DeleteMongoDB, DeleteElasticsearch, RemovesRows,
                  DeletesSomeDocuments, DeleteClickHouse, DeleteFiles, DeletesSomeFiles
    <3>2. CASE ~DeleteSourceData(s)
      BY <3>2 DEF RenameFile, AdvanceCursor, WorkerDies, Mutation, store
    <3> QED
      BY <3>1, <3>2
  <2> QED
    BY <1>1, <2>1 DEF RowsInv, StoreInv, Disjoint
<1>5. CellsInv'
  <2>1. CASE DeleteClickHouse(s) \/ Mutation(s)
    <3>1. \A t \in Source : \A c \in cells'[t] : \E b \in cells[t] :
             b.log = c.log /\ b.at = c.at
      <4>1. CASE DeleteClickHouse(s)
        <5>1. \A t \in Source : \A c \in cells[t] : c \in Cell
          BY DEF StoreInv, TypeOK
        <5>2. /\ cells' = [cells EXCEPT ![s] = {[c EXCEPT !.doomed = TRUE] : c \in @}]
              /\ cells \in [Source -> SUBSET Cell]
          BY <4>1 DEF DeleteClickHouse, StoreInv, TypeOK
        <5>3. /\ cells'[s] = {[c EXCEPT !.doomed = TRUE] : c \in cells[s]}
              /\ \A t \in Source \ {s} : cells'[t] = cells[t]
          BY <5>2
        <5>4. \A b \in Cell : [b EXCEPT !.doomed = TRUE].log = b.log /\ [b EXCEPT !.doomed = TRUE].at = b.at
          BY DEF Cell
        <5>5. ASSUME NEW c \in cells'[s] PROVE \E b \in cells[s] : b.log = c.log /\ b.at = c.at
          <6>1. PICK b \in cells[s] : c = [b EXCEPT !.doomed = TRUE]
            BY <5>3
          <6> QED
            BY <5>1, <5>4, <6>1
        <5> QED
          BY <5>3, <5>5
      <4>2. CASE Mutation(s)
        BY <4>2 DEF Mutation, StoreInv, TypeOK
      <4> QED
        BY <2>1, <4>1, <4>2
    <3>3. ASSUME NEW t \in Source, NEW c \in cells'[t], NEW d \in cells'[t], c.at = d.at
          PROVE  c = d
      <4>1. CASE DeleteClickHouse(s) /\ t = s
        <5>1. PICK a \in cells[s], b \in cells[s] :
                 c = [a EXCEPT !.doomed = TRUE] /\ d = [b EXCEPT !.doomed = TRUE]
          BY <4>1 DEF DeleteClickHouse, StoreInv, TypeOK
        <5>2. a \in Cell /\ b \in Cell
          BY DEF StoreInv, TypeOK
        <5>3. a.at = b.at
          BY <3>3, <5>1, <5>2 DEF Cell
        <5> QED
          BY <5>1, <5>3 DEF StoreInv, CellsInv
      <4>2. CASE ~(DeleteClickHouse(s) /\ t = s)
        <5>1. c \in cells[t] /\ d \in cells[t]
          BY <2>1, <4>2 DEF DeleteClickHouse, Mutation, StoreInv, TypeOK
        <5> QED
          BY <3>3, <5>1 DEF StoreInv, CellsInv
      <4> QED
        BY <4>1, <4>2
    <3>4. \A t \in Source : \A c \in cells[t] :
             c.log \in covers[t] /\ c.at[1] = Block[c.log] /\ (table = "logs" => c.at[2] = c.log)
      BY DEF StoreInv, CellsInv
    <3>5. \A t \in Source : \A c \in cells'[t] :
             c.log \in covers[t] /\ c.at[1] = Block[c.log] /\ (table = "logs" => c.at[2] = c.log)
      BY <3>1, <3>4
    <3> QED
      BY <1>1, <3>3, <3>5 DEF CellsInv
  <2>2. CASE ~(DeleteClickHouse(s) \/ Mutation(s))
    <3>1. cells' = cells
      BY <2>2 DEF RenameFile, AdvanceCursor, WorkerDies, store, DeleteSourceData, DeleteSQL, DeleteMongoDB,
                  DeleteElasticsearch, RemovesRows, DeletesSomeDocuments, DeleteFiles, DeletesSomeFiles
    <3> QED
      BY <1>1, <3>1 DEF CellsInv, StoreInv
  <2> QED
    BY <2>1, <2>2
<1>6. FilesInv'
  <2>1. \A t \in Source : writer'[t] = writer[t] \/ writer'[t].pc # "tmp"
    <3>1. writer \in [Source -> Writer]
      BY DEF StoreInv, TypeOK
    <3> QED
      BY <3>1 DEF RenameFile, AdvanceCursor, WorkerDies, Mutation, store, Acknowledge, Idle,
                  DeleteSourceData, DeleteSQL, DeleteMongoDB, DeleteElasticsearch, RemovesRows,
                  DeletesSomeDocuments, DeleteClickHouse, DeleteFiles, DeletesSomeFiles
  <2>2. \A t \in Source : \A f \in files'[t] : f \in files[t] \/ f.logs = Between(t, f.name)
    <3>1. CASE RenameFile(s)
      <4> DEFINE logs == writer[s].logs
                 file == [name |-> FileName(logs), logs |-> logs]
      <4>1. /\ files' = [files EXCEPT ![s] = {f \in @ : f.name # FileName(logs)} \cup {file}]
            /\ writer[s].pc = "tmp"
        BY <3>1 DEF RenameFile
      <4>2. file.logs = Between(s, file.name)
        BY <4>1 DEF StoreInv, FilesInv, Whole
      <4> HIDE DEF file, logs
      <4> QED
        BY <4>1, <4>2 DEF StoreInv, TypeOK
    <3>2. CASE ~RenameFile(s)
      BY <3>2 DEF AdvanceCursor, WorkerDies, Mutation, store, StoreInv, TypeOK,
                  DeleteSourceData, DeleteSQL, DeleteMongoDB, DeleteElasticsearch, RemovesRows,
                  DeletesSomeDocuments, DeleteClickHouse, DeleteFiles, DeletesSomeFiles
    <3> QED
      BY <3>1, <3>2
  <2> QED
    BY <1>1, <1>2, <2>1, <2>2 DEF FilesInv, StoreInv
<1> QED
  BY <1>3, <1>4, <1>5, <1>6 DEF StoreInv

LEMMA LoadKeepsRows ==
    ASSUME StoreInv, LoadStore
    PROVE  StoreInv' /\ UNCHANGED <<choice, rows, cells, files, acked, reader>>
<1>1. /\ \/ writer' = writer
         \/ \E t \in Source : \/ writer' = [writer EXCEPT ![t] = [pc |-> "creates"]]
                              \/ writer' = [writer EXCEPT ![t] = Idle]
      /\ created' \in BOOLEAN
      /\ UNCHANGED <<choice, rows, cells, files, cursor, acked, reader>>
  BY DEF LoadStore, InitSQL, InitMongoDB, InitClickHouse, InitFiles, Creates, IndexExists, CreateIndex,
         store,
         StoreInv, TypeOK
<1>2. writer \in [Source -> Writer] /\ writer' \in [Source -> Writer]
  BY <1>1 DEF StoreInv, TypeOK, Writer
<1>3. \A t \in Source : writer'[t] = writer[t] \/ writer'[t].pc # "tmp"
  BY <1>1, <1>2 DEF Idle
<1>4. \A t \in Source : \A n : Between(t, n)' = Between(t, n) /\ Whole(t, n)' = Whole(t, n)
  BY <1>1 DEF Between, Whole, choice
<1> QED
  BY <1>1, <1>2, <1>3, <1>4 DEF StoreInv, TypeOK, RowsInv, CellsInv, FilesInv, Disjoint, choice

-----------------------------------------------------------------------------
(* Every step of the rows is one of the contract *)

\* The logs of a source that a mutation will remove.
Due(s) == {l \in Visible(s) : kind = "clickhouse" /\ \A c \in cells[s] : c.log = l => c.doomed}

\* Keyed stores have one row of an id.
LEMMA VisibleRows ==
    /\ kind \in Keyed => \A s \in Source : Visible(s) = {l \in Log : rows[l] = s}
    /\ kind' \in Keyed => \A s \in Source : Visible(s)' = {l \in Log : rows'[l] = s}
<1>1. ASSUME kind \in Keyed, NEW s \in Source PROVE Visible(s) = {l \in Log : rows[l] = s}
  <2>1. kind # "clickhouse" /\ kind # "parquet"
    BY <1>1 DEF Keyed
  <2> QED
    BY <1>1, <2>1 DEF Visible
<1>2. ASSUME kind' \in Keyed, NEW s \in Source PROVE Visible(s)' = {l \in Log : rows'[l] = s}
  <2>1. kind' # "clickhouse" /\ kind' # "parquet"
    BY <1>2 DEF Keyed
  <2> QED
    BY <1>2, <2>1 DEF Visible
<1> QED
  BY <1>1, <1>2

\* A pair is stored, or due, when its log is for its source.
LEMMA PairsBySource ==
    ASSUME TypeOK, TypeOK'
    PROVE  /\ \A s \in Source : Visible(s) \subseteq Log
           /\ \A p : p \in VisiblePairs <=> p \in Pair /\ p[2] \in Visible(p[1])
           /\ \A p : p \in DoomedPairs <=> p \in Pair /\ p[2] \in Due(p[1])
           /\ \A p : p \in VisiblePairs' <=> p \in Pair /\ p[2] \in Visible(p[1])'
           /\ \A p : p \in DoomedPairs' <=> p \in Pair /\ p[2] \in Due(p[1])'
<1>1. \A s \in Source : Visible(s) \subseteq Log /\ Due(s) \subseteq Log
  <2>1. \A s \in Source : (\A c \in cells[s] : c.log \in Log) /\ (\A f \in files[s] : f.logs \subseteq Log)
    BY DEF TypeOK, Cell, File
  <2> QED
    BY <2>1 DEF TypeOK, Visible, FileLogs, Due, Kind, Keyed
<1>2. \A s \in Source : Visible(s)' \subseteq Log /\ Due(s)' \subseteq Log
  <2>1. \A s \in Source : (\A c \in cells'[s] : c.log \in Log) /\ (\A f \in files'[s] : f.logs \subseteq Log)
    BY DEF TypeOK, Cell, File
  <2> QED
    BY <2>1 DEF TypeOK, Visible, FileLogs, Due, Kind, Keyed
<1>3. \A p : p \in VisiblePairs <=> p \in Pair /\ p[2] \in Visible(p[1])
  BY <1>1 DEF VisiblePairs, Pair
<1>4. \A p : p \in VisiblePairs' <=> p \in Pair /\ p[2] \in Visible(p[1])'
  BY <1>2 DEF VisiblePairs, Pair
<1>5. \A p : p \in DoomedPairs <=> p \in Pair /\ p[2] \in Due(p[1])
  <2>1. CASE kind = "clickhouse"
    BY <1>1, <2>1 DEF DoomedPairs, Pair, Due
  <2>2. CASE kind # "clickhouse"
    BY <2>2 DEF DoomedPairs, Due
  <2> QED
    BY <2>1, <2>2
<1>6. \A p : p \in DoomedPairs' <=> p \in Pair /\ p[2] \in Due(p[1])'
  <2>1. CASE kind' = "clickhouse"
    BY <1>2, <2>1 DEF DoomedPairs, Pair, Due
  <2>2. CASE kind' # "clickhouse"
    BY <2>2 DEF DoomedPairs, Due
  <2> QED
    BY <2>1, <2>2
<1> QED
  BY <1>1, <1>3, <1>4, <1>5, <1>6

\* An insert, source by source.
LEMMA AddsRows ==
    ASSUME TypeOK, TypeOK', NEW s \in Source, NEW logs \in SUBSET Log,
           \A t \in Source \ {s} : Visible(t)' = Visible(t) /\ Due(t)' = Due(t),
           Visible(s) \subseteq Visible(s)', Visible(s)' \subseteq Log, Due(s)' \subseteq Due(s),
           \/ acked' = acked
           \/ acked' = acked \cup ({s} \X logs) /\ \A l \in logs : l \in Visible(s)' /\ l \notin Due(s)'
    PROVE  Contract!Insert(s)
<1>1. /\ \A p : p \in VisiblePairs <=> p \in Pair /\ p[2] \in Visible(p[1])
      /\ \A p : p \in DoomedPairs <=> p \in Pair /\ p[2] \in Due(p[1])
      /\ \A p : p \in VisiblePairs' <=> p \in Pair /\ p[2] \in Visible(p[1])'
      /\ \A p : p \in DoomedPairs' <=> p \in Pair /\ p[2] \in Due(p[1])'
  BY PairsBySource, Zenon
<1>2. \A p \in Pair : p = <<p[1], p[2]>> /\ p[1] \in Source /\ p[2] \in Log
  BY DEF Pair
<1>3. \A p : p \in {s} \X Log <=> p \in Pair /\ p[1] = s
  BY DEF Pair
<1>4. VisiblePairs \subseteq VisiblePairs' /\ VisiblePairs' \subseteq VisiblePairs \cup ({s} \X Log)
  BY <1>1, <1>2, <1>3
<1>5. DoomedPairs' \subseteq DoomedPairs /\ DoomedPairs \ DoomedPairs' \subseteq {s} \X Log
  BY <1>1, <1>2, <1>3
<1>6. {s} \X logs \subseteq {s} \X Log /\ \A p \in {s} \X logs : p[1] = s /\ p[2] \in logs
  OBVIOUS
<1>7. /\ acked \subseteq acked'
      /\ acked' \subseteq acked \cup ((({s} \X Log) \cap VisiblePairs') \ DoomedPairs')
  BY <1>1, <1>3, <1>6
<1> QED
  BY <1>4, <1>5, <1>7 DEF Contract!Insert, Contract!Of

\* A step that leaves the rows and what is acknowledged.
LEMMA LeavesRows ==
    ASSUME UNCHANGED <<kind, rows, cells, files, acked>>
    PROVE  UNCHANGED <<VisiblePairs, DoomedPairs, acked>>
  BY DEF VisiblePairs, DoomedPairs, Visible, FileLogs

LEMMA InsertImplements ==
    ASSUME StoreInv, NEW s \in Source, IndexWindow(s)
    PROVE  Contract!Insert(s) \/ UNCHANGED <<VisiblePairs, DoomedPairs, acked>>
<1>1. PICK to \in cursor[s] + 1 .. Blocks :
         \/ EmptyWindow(s, to)
         \/ /\ Window(s, to) # {}
            /\ \/ InsertSQL(s, to) \/ InsertMongoDB(s, to)
               \/ InsertElasticsearch(s, to) \/ InsertClickHouse(s, to)
         \/ WriteTmpFile(s, to)
  BY DEF IndexWindow
<1>2. kind' = kind /\ TypeOK /\ TypeOK'
  BY InsertTypes DEF StoreInv, IndexWindow, choice
<1> DEFINE window == Window(s, to)
<1>3. window \in SUBSET Log /\ window \subseteq covers[s] /\ Block \in [Log -> 1 .. Blocks]
  BY <1>2, WindowType, Numbers
<1>4. CASE EmptyWindow(s, to) \/ WriteTmpFile(s, to)
  BY <1>2, <1>4, LeavesRows DEF EmptyWindow, WriteTmpFile
<1>5. CASE InsertSQL(s, to) \/ InsertMongoDB(s, to) \/ InsertElasticsearch(s, to)
  <2>1. kind \in Keyed /\ kind # "clickhouse" /\ \A t \in Source : Due(t) = {} /\ Due(t)' = {}
    BY <1>2, <1>5 DEF InsertSQL, InsertMongoDB, InsertElasticsearch, Keyed, Due
  <2>2. \A t \in Source : Visible(t) = {l \in Log : rows[l] = t} /\ Visible(t)' = {l \in Log : rows'[l] = t}
    BY <1>2, <2>1, VisibleRows
  <2>3. \A l \in window : rows[l] = s \/ rows[l] = Nobody
    <3>1. \A l \in Log : rows[l] \in Source => l \in covers[rows[l]]
      BY <2>1, LogStoreAssumption DEF StoreInv, RowsInv
    <3>2. \A t \in Source \ {s} : covers[s] \cap covers[t] = {}
      BY <2>1 DEF StoreInv, RowsInv, Disjoint
    <3> QED
      BY <1>2, <1>3, <3>1, <3>2 DEF TypeOK
  <2>4. PICK done \in SUBSET window :
           /\ \A l \in Log : rows'[l] = IF l \in done THEN s ELSE rows[l]
           /\ acked' = acked \/ (done = window /\ acked' = acked \cup ({s} \X window))
    <3>1. CASE InsertSQL(s, to)
      <4>1. rows' = [l \in Log |-> IF l \in window /\ rows[l] = Nobody THEN s ELSE rows[l]]
            /\ acked' = acked \cup ({s} \X window)
        BY <3>1 DEF InsertSQL, Acknowledge
      <4>2. \A l \in Log : rows'[l] = IF l \in window THEN s ELSE rows[l]
        BY <2>3, <4>1
      <4> QED
        BY <4>1, <4>2
    <3>2. CASE ReplaceDocuments(s, to)
      BY <3>2 DEF ReplaceDocuments, Acknowledge
    <3> QED
      BY <1>5, <3>1, <3>2 DEF InsertMongoDB, InsertElasticsearch
  <2> HIDE DEF window
  <2>5. /\ \A t \in Source \ {s} : Visible(t)' = Visible(t)
        /\ Visible(s) \subseteq Visible(s)' /\ Visible(s)' \subseteq Log
        /\ \A l \in done : l \in Visible(s)'
    <3>1. \A l \in done : l \in Log /\ (rows[l] = s \/ rows[l] = Nobody)
      BY <1>3, <2>3
    <3>2. \A l \in Log : \A t \in Source \ {s} : rows'[l] = t <=> rows[l] = t
      BY <2>4, <3>1, LogStoreAssumption
    <3>3. \A l \in Log : rows[l] = s \/ l \in done => rows'[l] = s
      BY <2>4
    <3>4. \A t \in Source \ {s} : Visible(t)' = Visible(t)
      <4> SUFFICES ASSUME NEW t \in Source \ {s} PROVE Visible(t)' = Visible(t)
        OBVIOUS
      <4>1. Visible(t) = {l \in Log : rows[l] = t} /\ Visible(t)' = {l \in Log : rows'[l] = t}
        BY <2>2
      <4>2. \A l \in Log : rows'[l] = t <=> rows[l] = t
        BY <3>2
      <4> QED
        BY <4>1, <4>2, Zenon
    <3>5. Visible(s) \subseteq Visible(s)'
      BY <2>2, <3>3
    <3>6. \A l \in done : l \in Visible(s)'
      BY <2>2, <3>1, <3>3
    <3> QED
      BY <2>2, <3>4, <3>5, <3>6
  <2> QED
    BY <1>2, <1>3, <2>1, <2>4, <2>5, AddsRows
<1>6. CASE InsertClickHouse(s, to)
  <2> DEFINE new == {[at |-> SortingKey(l, window), log |-> l, doomed |-> FALSE] : l \in window}
  <2>1. /\ kind = "clickhouse" /\ acked' = acked \cup ({s} \X window)
        /\ cells' = [cells EXCEPT ![s] = {c \in @ : \A n \in new : n.at # c.at} \cup new]
    BY <1>6 DEF InsertClickHouse, Acknowledge
  <2>2. /\ \A l \in window : \E n \in new : n.log = l /\ ~n.doomed
        /\ \A n \in new : n.log \in window /\ n.at[1] = Block[n.log] /\ ~n.doomed
    <3> HIDE DEF window
    <3>1. \A l \in window : SortingKey(l, window)[1] = Block[l]
      BY DEF SortingKey
    <3>2. ASSUME NEW l \in window PROVE \E n \in new : n.log = l /\ ~n.doomed
      <4>1. [at |-> SortingKey(l, window), log |-> l, doomed |-> FALSE] \in new
        OBVIOUS
      <4> QED
        BY <4>1
    <3>3. ASSUME NEW n \in new PROVE n.log \in window /\ n.at[1] = Block[n.log] /\ ~n.doomed
      <4>1. PICK l \in window : n = [at |-> SortingKey(l, window), log |-> l, doomed |-> FALSE]
        OBVIOUS
      <4> QED
        BY <3>1, <4>1
    <3> QED
      BY <3>2, <3>3
  <2>3. /\ cells'[s] = {c \in cells[s] : \A n \in new : n.at # c.at} \cup new
        /\ \A t \in Source \ {s} : cells'[t] = cells[t]
    <3> HIDE DEF new
    <3> QED
      BY <1>2, <2>1 DEF TypeOK
  <2> HIDE DEF new
  <2>4. \A t \in Source : Visible(t) = {c.log : c \in cells[t]} /\ Visible(t)' = {c.log : c \in cells'[t]}
    BY <1>2, <2>1 DEF Visible, Keyed
  \* A row that is replaced is of a block of the window.
  <2>5. ASSUME NEW c \in cells[s], NEW n \in new, n.at = c.at
        PROVE  c.log \in window
    <3>1. c.log \in covers[s] /\ Block[c.log] = Block[n.log] /\ n.log \in window
      BY <2>2, <2>5 DEF StoreInv, CellsInv
    <3> QED
      BY <3>1 DEF Window
  <2>6. \A c \in cells[s] : c.log \notin window => c \in cells'[s]
    BY <2>3, <2>5
  <2>7. \A l \in window : l \in Visible(s)' /\ l \notin Due(s)'
    BY <2>2, <2>3, <2>4 DEF Due
  <2>8. Visible(s) \subseteq Visible(s)' /\ Visible(s)' \subseteq Visible(s) \cup window
    BY <2>2, <2>3, <2>4, <2>6, <2>7
  <2>9. Due(s)' \subseteq Due(s)
    BY <1>2, <2>1, <2>6, <2>7, <2>8 DEF Due
  <2>10. \A t \in Source \ {s} : Visible(t)' = Visible(t) /\ Due(t)' = Due(t)
    BY <1>2, <2>3, <2>4 DEF Due
  <2>11. Visible(s)' \subseteq Log
    BY <1>2, <1>3, <2>8, PairsBySource
  <2> HIDE DEF window
  <2> QED
    BY <1>2, <1>3, <2>1, <2>7, <2>8, <2>9, <2>10, <2>11, AddsRows
<1> QED
  BY <1>1, <1>4, <1>5, <1>6

LEMMA RenameImplements ==
    ASSUME StoreInv, NEW s \in Source, RenameFile(s)
    PROVE  Contract!Insert(s)
<1> DEFINE logs == writer[s].logs
           file == [name |-> FileName(logs), logs |-> logs]
<1>1. kind' = kind /\ TypeOK /\ TypeOK'
  BY OtherTypes DEF StoreInv, RenameFile, choice
<1>2. kind = "parquet" /\ Whole(s, logs) /\ acked' = acked \cup ({s} \X logs)
  BY DEF StoreInv, FilesInv, RenameFile, Acknowledge
<1>3. logs \in SUBSET Log
  BY <1>1 DEF TypeOK, Writer, Idle, RenameFile
<1>4. /\ files'[s] = {f \in files[s] : f.name # FileName(logs)} \cup {file}
      /\ \A t \in Source \ {s} : files'[t] = files[t]
  <2>1. files' = [files EXCEPT ![s] = {f \in @ : f.name # FileName(logs)} \cup {file}]
    BY DEF RenameFile
  <2> HIDE DEF logs, file
  <2> QED
    BY <1>1, <2>1 DEF TypeOK
\* A file that is replaced has the same logs.
<1>5. \A f \in files[s] : f.name = FileName(logs) => f.logs = logs
  BY <1>2 DEF StoreInv, FilesInv, Whole
<1>6. file \in files'[s] /\ file.logs = logs
  BY <1>4
<1>7. \A t \in Source : /\ Visible(t) = UNION {f.logs : f \in files[t]}
                        /\ Visible(t)' = UNION {f.logs : f \in files'[t]}
                        /\ Due(t) = {} /\ Due(t)' = {}
  BY <1>1, <1>2 DEF Visible, FileLogs, Due, Keyed
<1> HIDE DEF logs, file
<1>8. /\ Visible(s) \subseteq Visible(s)'
      /\ Visible(s)' \subseteq Visible(s) \cup logs
      /\ logs \subseteq Visible(s)'
  BY <1>4, <1>5, <1>6, <1>7
<1>9. Visible(s)' \subseteq Log
  BY <1>1, <1>3, <1>8, PairsBySource
<1>10. \A t \in Source \ {s} : Visible(t)' = Visible(t)
  BY <1>4, <1>7
<1> QED
  BY <1>1, <1>2, <1>3, <1>7, <1>8, <1>9, <1>10, AddsRows

LEMMA MutationImplements ==
    ASSUME StoreInv, NEW s \in Source, Mutation(s)
    PROVE  Contract!Clear(s) \/ UNCHANGED <<VisiblePairs, DoomedPairs, acked>>
<1>1. kind' = kind /\ acked' = acked /\ rows' = rows /\ files' = files /\ TypeOK /\ TypeOK'
  BY OtherTypes DEF StoreInv, Mutation, choice
<1>2. cells'[s] = {c \in cells[s] : ~c.doomed} /\ \A t \in Source \ {s} : cells'[t] = cells[t]
  BY <1>1 DEF Mutation, Survives, TypeOK
<1>3. CASE kind = "clickhouse"
  <2>1. /\ \A p : p \in VisiblePairs <=> p \in Pair /\ p[2] \in Visible(p[1])
        /\ \A p : p \in DoomedPairs <=> p \in Pair /\ p[2] \in Due(p[1])
        /\ \A p : p \in VisiblePairs' <=> p \in Pair /\ p[2] \in Visible(p[1])'
        /\ \A p : p \in DoomedPairs' <=> p \in Pair /\ p[2] \in Due(p[1])'
    BY <1>1, PairsBySource, Zenon
  <2>2. \A t \in Source : Visible(t) = {c.log : c \in cells[t]} /\ Visible(t)' = {c.log : c \in cells'[t]}
    BY <1>1, <1>3 DEF Visible, Keyed
  <2>3. Due(s)' = {} /\ Visible(s)' = Visible(s) \ Due(s)
    BY <1>1, <1>2, <1>3, <2>2 DEF Due
  <2>4. \A t \in Source \ {s} : Visible(t)' = Visible(t) /\ Due(t)' = Due(t)
    BY <1>1, <1>2, <2>2 DEF Due
  <2>5. \A p : p \in {s} \X Log <=> p \in Pair /\ p[1] = s
    BY DEF Pair
  <2>6. \A p \in Pair : p[1] \in Source
    BY DEF Pair
  <2>7. DoomedPairs' = DoomedPairs \ ({s} \X Log)
    BY <2>1, <2>3, <2>4, <2>5, <2>6
  <2>8. VisiblePairs' = VisiblePairs \ (DoomedPairs \cap ({s} \X Log))
    BY <2>1, <2>3, <2>4, <2>5, <2>6
  <2> QED
    BY <1>1, <2>7, <2>8 DEF Contract!Clear, Contract!Of
<1>4. CASE kind # "clickhouse"
  BY <1>1, <1>4 DEF VisiblePairs, DoomedPairs, Visible, FileLogs, TypeOK, Kind
<1> QED
  BY <1>3, <1>4

\* A deletion of all that a source has, or of a part.
LEMMA DeletionLeaves ==
    ASSUME StoreInv, NEW s \in Source, DeleteSourceData(s)
    PROVE  /\ kind' = kind /\ TypeOK /\ TypeOK'
           /\ \E left \in SUBSET Log :
                 /\ Acknowledges(s, left)
                 /\ \A t \in Source \ {s} : Visible(t)' = Visible(t) /\ Due(t)' = Due(t)
                 /\ Visible(s)' \subseteq Visible(s)
                 /\ \/ left = {} /\ Due(s)' = Visible(s)' /\ Due(s) \subseteq Due(s)'
                    \/ left = Visible(s)' /\ Due(s) = {} /\ Due(s)' = {}
<1>1. kind' = kind /\ TypeOK /\ TypeOK'
  <2>1. PICK left : Acknowledges(s, left)
    BY DEF DeleteSourceData, DeleteSQL, DeleteMongoDB, DeleteElasticsearch, RemovesRows,
           DeletesSomeDocuments, DeleteClickHouse, DeleteFiles, DeletesSomeFiles
  <2> QED
    BY <2>1, OtherTypes DEF StoreInv, choice, Acknowledges
<1>2. \A t \in Source : Visible(t) \subseteq Log
  BY <1>1, PairsBySource, Zenon
<1>3. CASE DeleteClickHouse(s)
  <2>1. kind = "clickhouse" /\ cells' = [cells EXCEPT ![s] = {[c EXCEPT !.doomed = TRUE] : c \in @}]
    BY <1>3 DEF DeleteClickHouse
  <2>2. /\ cells'[s] = {[c EXCEPT !.doomed = TRUE] : c \in cells[s]}
        /\ \A t \in Source \ {s} : cells'[t] = cells[t]
    BY <1>1, <2>1 DEF TypeOK
  <2>3. \A c \in cells[s] : [c EXCEPT !.doomed = TRUE].log = c.log /\ [c EXCEPT !.doomed = TRUE].doomed
    BY <1>1 DEF TypeOK, Cell
  <2>4. (\A d \in cells'[s] : d.doomed /\ \E c \in cells[s] : d.log = c.log)
        /\ (\A c \in cells[s] : \E d \in cells'[s] : d.log = c.log)
    BY <2>2, <2>3
  <2>5. \A t \in Source : Visible(t) = {c.log : c \in cells[t]} /\ Visible(t)' = {c.log : c \in cells'[t]}
    BY <1>1, <2>1 DEF Visible, Keyed
  <2>6. Visible(s)' = Visible(s)
    <3>1. ASSUME NEW l \in Visible(s)' PROVE l \in Visible(s)
      <4>1. PICK d \in cells'[s] : l = d.log
        BY <2>5
      <4> QED
        BY <2>4, <2>5, <4>1
    <3>2. ASSUME NEW l \in Visible(s) PROVE l \in Visible(s)'
      <4>1. PICK c \in cells[s] : l = c.log
        BY <2>5
      <4> QED
        BY <2>4, <2>5, <4>1
    <3> QED
      BY <3>1, <3>2
  <2>7. Due(s)' = Visible(s)' /\ Due(s) \subseteq Visible(s)
    BY <1>1, <2>1, <2>4 DEF Due
  <2>8. \A t \in Source \ {s} : Visible(t)' = Visible(t) /\ Due(t)' = Due(t)
    BY <1>1, <2>2, <2>5 DEF Due
  <2>9. Acknowledges(s, {})
    BY <1>3 DEF DeleteClickHouse
  <2> QED
    BY <1>1, <2>6, <2>7, <2>8, <2>9
<1>4. CASE kind = "parquet" /\ (DeleteFiles(s) \/ DeletesSomeFiles(s))
  <2>1. PICK rest \in SUBSET files[s] : /\ files' = [files EXCEPT ![s] = rest]
                                        /\ Acknowledges(s, UNION {f.logs : f \in rest})
    <3>1. CASE DeleteFiles(s)
      <4>1. {} \in SUBSET files[s] /\ UNION {f.logs : f \in {}} = {}
        OBVIOUS
      <4>2. files' = [files EXCEPT ![s] = {}] /\ Acknowledges(s, {})
        BY <3>1 DEF DeleteFiles
      <4> QED
        BY <4>1, <4>2, Zenon
    <3>2. CASE DeletesSomeFiles(s)
      BY <3>2 DEF DeletesSomeFiles
    <3> QED
      BY <1>4, <3>1, <3>2
  <2> DEFINE left == UNION {f.logs : f \in rest}
  <2>2. files'[s] = rest /\ \A t \in Source \ {s} : files'[t] = files[t]
    BY <1>1, <2>1 DEF TypeOK
  <2>3. \A t \in Source : /\ Visible(t) = UNION {f.logs : f \in files[t]}
                          /\ Visible(t)' = UNION {f.logs : f \in files'[t]}
                          /\ Due(t) = {} /\ Due(t)' = {}
    BY <1>1, <1>4 DEF Visible, FileLogs, Due, Keyed
  <2>4. left = Visible(s)' /\ left \subseteq Visible(s) /\ \A t \in Source \ {s} : Visible(t)' = Visible(t)
    <3>1. left = Visible(s)'
      BY <2>2, <2>3
    <3>2. left \subseteq UNION {f.logs : f \in files[s]}
      OBVIOUS
    <3> HIDE DEF left
    <3>3. left \subseteq Visible(s)
      BY <2>3, <3>2
    <3>4. \A t \in Source \ {s} : Visible(t)' = Visible(t)
      BY <2>2, <2>3
    <3> QED
      BY <3>1, <3>3, <3>4
  <2> HIDE DEF left
  <2>5. Acknowledges(s, left) /\ left \in SUBSET Log
    BY <1>2, <2>1, <2>4 DEF left
  <2> QED
    BY <1>1, <2>3, <2>4, <2>5
<1>5. CASE kind \in Keyed
  <2>1. PICK logs \in SUBSET Visible(s) :
           rows' = RowsWithout(logs) /\ Acknowledges(s, Visible(s) \ logs)
    <3>1. CASE DeletesSomeDocuments(s)
      BY <3>1 DEF DeletesSomeDocuments
    <3>2. CASE DeleteSQL(s) \/ DeleteMongoDB(s) \/ DeleteElasticsearch(s)
      <4>1. rows' = RowsWithout(Visible(s)) /\ Acknowledges(s, {})
        BY <3>2 DEF DeleteSQL, DeleteMongoDB, DeleteElasticsearch, RemovesRows
      <4>2. Visible(s) \ Visible(s) = {}
        OBVIOUS
      <4> QED
        BY <4>1, <4>2
    <3> QED
      BY <1>5, <3>1, <3>2 DEF DeleteSourceData, DeleteClickHouse, DeleteFiles, DeletesSomeFiles, Keyed
  <2>2. \A t \in Source : Visible(t) = {l \in Log : rows[l] = t} /\ Visible(t)' = {l \in Log : rows'[l] = t}
    BY <1>1, <1>5, VisibleRows
  <2>3. \A l \in Log : rows'[l] = IF l \in logs THEN Nobody ELSE rows[l]
    BY <2>1 DEF RowsWithout
  <2>4. Nobody \notin Source /\ \A l \in logs : rows[l] = s
    BY <2>1, <2>2, LogStoreAssumption
  <2>5. Visible(s)' = Visible(s) \ logs
    BY <2>2, <2>3, <2>4
  <2>6. \A t \in Source \ {s} : Visible(t)' = Visible(t)
    BY <2>2, <2>3, <2>4
  <2>7. \A t \in Source : Due(t) = {} /\ Due(t)' = {}
    BY <1>1, <1>5 DEF Due, Keyed
  <2>8. Visible(s) \ logs \in SUBSET Log
    BY <1>2
  <2> QED
    BY <1>1, <2>1, <2>5, <2>6, <2>7, <2>8
<1>6. kind \in Keyed \/ DeleteClickHouse(s) \/ (kind = "parquet" /\ (DeleteFiles(s) \/ DeletesSomeFiles(s)))
  BY DEF DeleteSourceData, DeleteSQL, DeleteMongoDB, DeleteElasticsearch, RemovesRows,
         DeletesSomeDocuments, DeleteFiles, DeletesSomeFiles, Keyed
<1> QED
  BY <1>3, <1>4, <1>5, <1>6

LEMMA DeleteImplements ==
    ASSUME StoreInv, NEW s \in Source, DeleteSourceData(s)
    PROVE  /\ Contract!DeleteSourceData(s) \/ Contract!DeletionFails(s)
           /\ reader' = [reader EXCEPT !.kept = reader'.kept] /\ reader'.kept \in SUBSET reader.kept
           /\ \A p \in reader'.kept : p \in VisiblePairs \ DoomedPairs => p \in VisiblePairs' \ DoomedPairs'
<1>1. PICK left \in SUBSET Log :
         /\ Acknowledges(s, left)
         /\ \A t \in Source \ {s} : Visible(t)' = Visible(t) /\ Due(t)' = Due(t)
         /\ Visible(s)' \subseteq Visible(s)
         /\ \/ left = {} /\ Due(s)' = Visible(s)' /\ Due(s) \subseteq Due(s)'
            \/ left = Visible(s)' /\ Due(s) = {} /\ Due(s)' = {}
  BY DeletionLeaves, Zenon
<1>2. TypeOK /\ TypeOK'
  BY DeletionLeaves
<1>3. /\ \A p : p \in VisiblePairs <=> p \in Pair /\ p[2] \in Visible(p[1])
      /\ \A p : p \in DoomedPairs <=> p \in Pair /\ p[2] \in Due(p[1])
      /\ \A p : p \in VisiblePairs' <=> p \in Pair /\ p[2] \in Visible(p[1])'
      /\ \A p : p \in DoomedPairs' <=> p \in Pair /\ p[2] \in Due(p[1])'
  BY <1>2, PairsBySource, Zenon
<1>4. /\ \A p : p \in {s} \X Log <=> p \in Pair /\ p[1] = s
      /\ \A p \in Pair : p[1] \in Source
  BY DEF Pair
<1>5. acked \subseteq Pair /\ acked' = {p \in acked : p[1] = s => p[2] \in left}
  BY <1>1, <1>2 DEF Acknowledges, TypeOK
<1>6. VisiblePairs' \subseteq VisiblePairs /\ VisiblePairs \ VisiblePairs' \subseteq {s} \X Log
  BY <1>1, <1>3, <1>4
<1>7. /\ reader' = [reader EXCEPT !.kept = {p \in reader.kept : p[1] = s => p[2] \in left}]
      /\ reader'.kept = {p \in reader.kept : p[1] = s => p[2] \in left}
  BY <1>1, <1>2 DEF Acknowledges, TypeOK, Reader
<1>8. CASE left = {} /\ Due(s)' = Visible(s)' /\ Due(s) \subseteq Due(s)'
  <2>1. DoomedPairs' = DoomedPairs \cup (VisiblePairs' \cap ({s} \X Log))
    BY <1>1, <1>3, <1>4, <1>8
  <2>2. acked' = acked \ ({s} \X Log)
    BY <1>4, <1>5, <1>8
  <2>3. \A p \in reader'.kept : p[1] # s
    BY <1>7, <1>8
  <2>4. \A p \in reader'.kept : p \in VisiblePairs \ DoomedPairs => p \in VisiblePairs' \ DoomedPairs'
    BY <1>1, <1>3, <1>4, <2>3
  <2> QED
    BY <1>6, <1>7, <2>1, <2>2, <2>4 DEF Contract!DeleteSourceData, Contract!Of
<1>9. CASE left = Visible(s)' /\ Due(s) = {} /\ Due(s)' = {}
  <2>1. \A t \in Source : Due(t) \subseteq Visible(t)
    BY DEF Due
  <2>2. DoomedPairs' = DoomedPairs \cap VisiblePairs'
    BY <1>1, <1>3, <1>4, <1>9, <2>1
  <2>3. acked' = acked \ (({s} \X Log) \ VisiblePairs')
    BY <1>3, <1>4, <1>5, <1>9
  <2>4. \A p \in reader'.kept : p \in VisiblePairs \ DoomedPairs => p \in VisiblePairs' \ DoomedPairs'
    BY <1>1, <1>3, <1>4, <1>7, <1>9
  <2> QED
    BY <1>6, <1>7, <2>2, <2>3, <2>4 DEF Contract!DeletionFails, Contract!Of
<1> QED
  BY <1>1, <1>8, <1>9

-----------------------------------------------------------------------------
(* Reads *)

\* The answer of a read that ends is exact.
LEMMA ReadEnds ==
    ASSUME StoreInv, UNCHANGED <<choice, store, cursor, writer, acked>>,
           reader' \in Reader, reader'.pc = "done",
           reader'.op = reader.op, reader'.kept = reader.kept, reader.op = "after" => table = "logs",
           \A i, j \in DOMAIN reader'.out : i < j =>
              /\ Before(reader'.out[i][2], reader'.out[j][2])
              /\ reader'.out[i] # reader'.out[j] \/ (kind = "clickhouse" /\ table = "transactions"),
           \A p \in reader.kept :
              \/ Has(reader'.out, p)
              \/ /\ reader.op = "latest" /\ Len(reader'.out) = Limit
                 /\ Before(Last(reader'.out)[2], p[2])
    PROVE  TypeOK' /\ ReadInv' /\ ReadIsExact'
<1>1. TypeOK'
  BY DEF StoreInv, TypeOK, choice, store
<1>2. ReadInv'
  BY DEF ReadInv, ReaderInv, PagesInv
<1>3. kind' = kind /\ table' = table /\ Descends' = Descends
  BY DEF choice, Descends
<1>4. \A l, m : Before(l, m) => InOrder(l, m)'
  BY <1>3 DEF Before, InOrder, ByIndex, Descends
<1>5. \A p : Has(reader'.out, p) => Has(reader.out, p)'
  BY <1>3 DEF Has
<1>6. ReadIsExact'
  BY <1>3, <1>4, <1>5 DEF ReadIsExact
<1> QED
  BY <1>1, <1>2, <1>6

LEMMA WantedPairs ==
    ASSUME TypeOK PROVE Wanted \in SUBSET Pair /\ IsFiniteSet(Wanted) /\ \A x \in Wanted : x[2] \in Log
<1>1. Wanted \in SUBSET Pair
  <2>1. \A s \in Source : Visible(s) \subseteq Log
    <3>1. \A s \in Source : (\A c \in cells[s] : c.log \in Log) /\ (\A f \in files[s] : f.logs \subseteq Log)
      BY DEF TypeOK, Cell, File
    <3> QED
      BY <3>1 DEF TypeOK, Visible, FileLogs, Kind, Keyed
  <2> QED
    BY <2>1 DEF Wanted, VisiblePairs, Pair
<1> QED
  BY <1>1, PairsAreFinite DEF Pair

\* One query.
LEMMA QueryIsExact ==
    ASSUME StoreInv, ReadInv, kind # "parquet", NEW k, Reads(k, Answers(Wanted))
    PROVE  TypeOK' /\ ReadInv' /\ ReadIsExact'
<1>1. PICK out \in Answers(Wanted) : reader' = [reader EXCEPT !.out = out, !.pc = "done"]
  BY DEF Reads
<1>2. reader \in Reader /\ TypeOK
  BY DEF StoreInv, TypeOK
<1>3. /\ out \in Seq(Wanted)
      /\ \A i, j \in DOMAIN out : i < j => out[i] # out[j] /\ Before(out[i][2], out[j][2])
      /\ \A x \in Wanted : \/ \E i \in DOMAIN out : out[i] = x
                           \/ reader.op = "latest" /\ Len(out) = Limit /\ Before(Last(out)[2], x[2])
  BY <1>2, WantedPairs, AnswersInOrder
<1>4. out \in Seq(Pair)
  BY <1>2, <1>3, WantedPairs
<1>5. /\ reader' \in Reader
      /\ reader'.pc = "done"
      /\ reader'.out = out
      /\ reader'.op = reader.op
      /\ reader'.kept = reader.kept
  BY <1>1, <1>2, <1>4 DEF Reader
<1>6. \A p \in reader.kept : p \in Wanted
  BY DEF ReadInv, ReaderInv, Reads, Wanted
<1>7. \A p \in reader.kept : \/ Has(out, p)
                             \/ reader.op = "latest" /\ Len(out) = Limit /\ Before(Last(out)[2], p[2])
  BY <1>3, <1>6 DEF Has
<1>8. /\ UNCHANGED <<choice, store, cursor, writer, acked>>
      /\ reader.op = "after" => table = "logs"
  BY DEF Reads, ReadInv, ReaderInv
<1> QED
  BY <1>3, <1>5, <1>7, <1>8, ReadEnds

\* One query of ClickHouse.
LEMMA FinalIsExact ==
    ASSUME StoreInv, ReadInv, ReadClickHouse
    PROVE  TypeOK' /\ ReadInv' /\ ReadIsExact'
<1> DEFINE found == UNION {{<<s, c.log, c.at>> : c \in cells[s]} : s \in reader.todo}
           final == {F \in SUBSET found :
                       /\ \A p, q \in F : p[3] = q[3] => p = q
                       /\ \A p \in found : \E q \in F : p[3] = q[3]}
<1>1. PICK out : /\ out \in {[i \in DOMAIN o |-> <<o[i][1], o[i][2]>>] :
                               o \in UNION {Answers(F) : F \in final}}
                 /\ reader' = [reader EXCEPT !.out = out, !.pc = "done"]
  BY DEF ReadClickHouse, Reads
<1>2a. PICK F \in final : \E o \in Answers(F) : out = [i \in DOMAIN o |-> <<o[i][1], o[i][2]>>]
  BY <1>1
<1>2. PICK rowsOut \in Answers(F) : out = [i \in DOMAIN rowsOut |-> <<rowsOut[i][1], rowsOut[i][2]>>]
  BY <1>2a
<1>3. /\ TypeOK
      /\ reader \in Reader
      /\ reader.todo \subseteq Source
      /\ kind = "clickhouse"
      /\ reader.pc = "reading"
  BY DEF StoreInv, TypeOK, Reader, ReadClickHouse, Reads
<1>4. ASSUME NEW x \in found
      PROVE  \E s \in Source, c \in Cell : x = <<s, c.log, c.at>> /\ s \in reader.todo /\ c \in cells[s]
  BY <1>3 DEF TypeOK
<1>5. IsFiniteSet(F) /\ \A x \in F : x \in found /\ x[1] \in Source /\ x[2] \in Log
  <2> DEFINE S == (Source \X Log) \X Place
             T == {<<a, b, c>> : a \in Source, b \in Log, c \in Place}
             f == [x \in S |-> <<x[1][1], x[1][2], x[2]>>]
  <2>1. IsFiniteSet(Place)
    <3>1. IsFiniteSet(1 .. Blocks) /\ IsFiniteSet(0 .. Logs)
      BY Numbers, FS_Interval
    <3> QED
      BY <3>1, FS_Product, Zenon DEF Place
  <2>2. IsFiniteSet(Source \X Log)
    BY Numbers, FS_Product
  <2>3. IsFiniteSet(S)
    BY <2>1, <2>2, FS_Product
  <2>4. f \in Surjection(S, T)
    <3>1. ASSUME NEW x \in S PROVE f[x] \in T
      <4>1. x[1][1] \in Source /\ x[1][2] \in Log /\ x[2] \in Place
        OBVIOUS
      <4> QED
        BY <4>1
    <3>2. ASSUME NEW t \in T PROVE \E x \in S : f[x] = t
      <4>1. PICK a \in Source, b \in Log, c \in Place : t = <<a, b, c>>
        OBVIOUS
      <4>2. <<<<a, b>>, c>> \in S /\ f[<<<<a, b>>, c>>] = t
        BY <4>1
      <4> QED
        BY <4>2
    <3>3. f \in [S -> T] /\ \A t \in T : \E x \in S : f[x] = t
      <4> HIDE DEF S, T
      <4> QED
        BY <3>1, <3>2
    <3> HIDE DEF S, T, f
    <3> QED
      BY <3>3, Zenon DEF Surjection
  <2>5. IsFiniteSet(T)
    BY <2>3, <2>4, FS_Surjection
  <2>6. \A x \in found : x \in T /\ x[1] \in Source /\ x[2] \in Log
    <3> SUFFICES ASSUME NEW x \in found PROVE x \in T /\ x[1] \in Source /\ x[2] \in Log
      OBVIOUS
    <3>1. PICK s \in Source, c \in Cell : x = <<s, c.log, c.at>>
      BY <1>4
    <3>2. c.log \in Log /\ c.at \in Place
      BY DEF Cell
    <3> QED
      BY <3>1, <3>2
  <2>7. F \subseteq found
    BY <1>2
  <2> HIDE DEF T, found
  <2> QED
    BY <2>5, <2>6, <2>7, FS_Subset
<1>6. /\ rowsOut \in Seq(F)
      /\ \A i, j \in DOMAIN rowsOut : i < j => rowsOut[i] # rowsOut[j] /\ Before(rowsOut[i][2], rowsOut[j][2])
      /\ \A x \in F : \/ \E i \in DOMAIN rowsOut : rowsOut[i] = x
                      \/ reader.op = "latest" /\ Len(rowsOut) = Limit /\ Before(Last(rowsOut)[2], x[2])
  <2> HIDE DEF found, final
  <2> QED
    BY <1>2, <1>5, AnswersInOrder
<1>7. /\ DOMAIN rowsOut = 1 .. Len(rowsOut) /\ Len(rowsOut) \in Nat
      /\ \A i \in DOMAIN rowsOut : rowsOut[i] \in F
  <2> HIDE DEF found, final
  <2> QED
    BY <1>6
<1>8. /\ out \in Seq(Pair) /\ Len(out) = Len(rowsOut) /\ DOMAIN out = DOMAIN rowsOut
      /\ \A i \in DOMAIN rowsOut : out[i] = <<rowsOut[i][1], rowsOut[i][2]>>
  <2>1. \A i \in DOMAIN rowsOut : <<rowsOut[i][1], rowsOut[i][2]>> \in Pair
    <3> HIDE DEF found, final
    <3> QED
      BY <1>5, <1>7 DEF Pair
  <2> HIDE DEF found, final
  <2> QED
    BY <1>2, <1>7, <2>1
<1>9. /\ reader' \in Reader
      /\ reader'.pc = "done"
      /\ reader'.out = out
      /\ reader'.op = reader.op
      /\ reader'.kept = reader.kept
  BY <1>1, <1>3, <1>8 DEF Reader
\* Of logs, a place has one row of each source, and all are of one log.
<1>10. ASSUME NEW i \in DOMAIN out, NEW j \in DOMAIN out, i < j
       PROVE  /\ Before(out[i][2], out[j][2])
              /\ out[i] # out[j] \/ (kind = "clickhouse" /\ table = "transactions")
  <2>1. Before(out[i][2], out[j][2])
    BY <1>6, <1>8, <1>10
  <2>2. rowsOut[i] \in found /\ rowsOut[j] \in found /\ rowsOut[i] # rowsOut[j]
    <3> HIDE DEF found, final
    <3> QED
      BY <1>5, <1>6, <1>7, <1>8, <1>10
  <2>3. PICK s \in Source, c \in Cell : rowsOut[i] = <<s, c.log, c.at>> /\ c \in cells[s]
    BY <1>4, <2>2
  <2>4. PICK t \in Source, d \in Cell : rowsOut[j] = <<t, d.log, d.at>> /\ d \in cells[t]
    BY <1>4, <2>2
  <2>5. CASE table = "logs"
    <3>1. c.at = <<Block[c.log], c.log>> /\ d.at = <<Block[d.log], d.log>>
      BY <2>3, <2>4, <2>5 DEF StoreInv, CellsInv, Cell, Place
    <3> HIDE DEF found, final
    <3> QED
      BY <1>8, <2>1, <2>2, <2>3, <2>4, <3>1
  <2> QED
    BY <1>3, <2>1, <2>5 DEF TypeOK
<1>11. ASSUME NEW p \in reader.kept
       PROVE  \E q \in F : q[2] = p[2]
  <2>1. p \in VisiblePairs /\ p[1] \in reader.todo
    BY <1>3 DEF ReadInv, ReaderInv
  <2>2. p[1] \in Source /\ p[2] \in {c.log : c \in cells[p[1]]}
    BY <1>3, <2>1 DEF VisiblePairs, Visible, Keyed
  <2>3. PICK c \in cells[p[1]] : p[2] = c.log
    BY <2>2
  <2>4. <<p[1], c.log, c.at>> \in found
    BY <2>1, <2>3
  <2>5. PICK q \in F : q[3] = c.at
    BY <1>2, <2>4
  <2>6. PICK s \in Source, d \in Cell : q = <<s, d.log, d.at>> /\ s \in reader.todo /\ d \in cells[s]
    BY <1>2, <1>4
  <2>7. CASE table = "logs"
    BY <2>2, <2>3, <2>5, <2>6, <2>7 DEF StoreInv, CellsInv
  <2>8. CASE table = "transactions"
    <3>1. s = p[1]
      BY <1>3, <2>1, <2>6, <2>8 DEF ReadInv, ReaderInv
    <3> QED
      BY <2>2, <2>3, <2>5, <2>6, <3>1 DEF StoreInv, CellsInv
  <2> QED
    BY <1>3, <2>7, <2>8 DEF TypeOK
<1> HIDE DEF found, final
<1>12. ASSUME NEW p \in reader.kept
       PROVE  Has(out, p) \/ (reader.op = "latest" /\ Len(out) = Limit /\ Before(Last(out)[2], p[2]))
  <2>1. PICK q \in F : q[2] = p[2]
    BY <1>11
  <2>2. CASE \E i \in DOMAIN rowsOut : rowsOut[i] = q
    BY <1>3, <1>8, <2>1, <2>2 DEF Has
  <2>3. CASE reader.op = "latest" /\ Len(rowsOut) = Limit /\ Before(Last(rowsOut)[2], q[2])
    <3>1. Last(out)[2] = Last(rowsOut)[2]
      BY <1>7, <1>8, <2>3, LogStoreAssumption DEF Last
    <3> QED
      BY <1>8, <2>1, <2>3, <3>1
  <2> QED
    BY <1>6, <2>2, <2>3
<1>13. /\ UNCHANGED <<choice, store, cursor, writer, acked>>
       /\ reader.op = "after" => table = "logs"
  BY DEF ReadClickHouse, Reads, ReadInv, ReaderInv
<1> QED
  BY <1>9, <1>10, <1>12, <1>13, ReadEnds

\* A page of Elasticsearch.
LEMMA PageIsNext ==
    ASSUME StoreInv, ReadInv, ReadPage
    PROVE  TypeOK' /\ ReadInv' /\ ReadIsExact'
<1>1. PICK rest \in Answers(RestOf(Wanted)) :
         reader' = [reader EXCEPT
            !.out = @ \o (IF Len(rest) >= PageSize THEN SubSeq(rest, 1, PageSize) ELSE rest),
            !.pc = IF Len(rest) >= PageSize THEN "reading" ELSE "done"]
  BY DEF ReadPage
<1> DEFINE full == Len(rest) >= PageSize
           page == IF full THEN SubSeq(rest, 1, PageSize) ELSE rest
           out == reader.out
           new == out \o page
<1>2. /\ TypeOK /\ reader \in Reader /\ kind = "elasticsearch"
      /\ reader.pc = "reading" /\ reader.op # "latest"
      /\ UNCHANGED <<choice, store, cursor, writer, acked>>
  BY DEF StoreInv, TypeOK, ReadPage
<1>3. /\ RestOf(Wanted) \subseteq Wanted /\ IsFiniteSet(RestOf(Wanted))
      /\ \A x \in Wanted : x \in Pair /\ x[2] \in Log
      /\ \A l \in Log : l \in Nat
  <2>1. RestOf(Wanted) \subseteq Wanted
    BY DEF RestOf
  <2> QED
    BY <1>2, <2>1, WantedPairs, FS_Subset, Numbers
\* One row of each id.
<1>4. \A x, y \in Wanted : x[2] = y[2] => x = y
  <2>1. \A x \in Wanted : x \in Pair /\ rows[x[2]] = x[1]
    <3>1. kind \in Keyed
      BY <1>2 DEF Keyed
    <3>2. \A s \in Source : Visible(s) = {l \in Log : rows[l] = s}
      BY <3>1, VisibleRows
    <3> QED
      BY <3>2 DEF Wanted, VisiblePairs, Pair
  <2> QED
    BY <2>1 DEF Pair
<1>5. /\ rest \in Seq(RestOf(Wanted))
      /\ \A i, j \in DOMAIN rest : i < j => rest[i] # rest[j] /\ Before(rest[i][2], rest[j][2])
      /\ \A x \in RestOf(Wanted) : \E i \in DOMAIN rest : rest[i] = x
  BY <1>2, <1>3, AnswersInOrder
<1>6. Len(rest) \in Nat /\ DOMAIN rest = 1 .. Len(rest) /\ \A i \in DOMAIN rest : rest[i] \in RestOf(Wanted)
  BY <1>5
<1>7. \A i, j \in DOMAIN rest : i < j => After(rest[j][2], rest[i][2])
  <2>1. \A i, j \in DOMAIN rest : i < j => rest[i][2] # rest[j][2]
    BY <1>3, <1>4, <1>5, <1>6
  <2>2. ByIndex
    BY <1>2 DEF ByIndex
  <2>3. \A i \in DOMAIN rest : rest[i][2] \in Nat
    BY <1>3, <1>6
  <2> QED
    BY <1>5, <2>1, <2>2, <2>3 DEF Before, After
<1>8. PageSize \in Nat \ {0}
  BY LogStoreAssumption
<1>9. /\ page \in Seq(Pair) /\ Len(page) \in Nat /\ DOMAIN page = 1 .. Len(page)
      /\ \A i \in DOMAIN page : i \in DOMAIN rest /\ page[i] = rest[i]
      /\ full => Len(page) = PageSize
      /\ ~full => page = rest
  <2>1. rest \in Seq(Pair)
    BY <1>3, <1>5
  <2>2. CASE full
    <3>1. page = SubSeq(rest, 1, PageSize)
      BY <2>2
    <3>2. \A i \in 1 .. PageSize : i \in 1 .. Len(rest)
      BY <1>6, <1>8, <2>2
    <3> HIDE DEF page
    <3>3. page \in Seq(Pair) /\ Len(page) = PageSize /\ \A i \in 1 .. PageSize : page[i] = rest[i]
      BY <1>6, <1>8, <2>1, <2>2, <3>1, <3>2
    <3>4. DOMAIN page = 1 .. PageSize
      BY <3>3
    <3> QED
      BY <1>6, <1>8, <2>2, <3>2, <3>3, <3>4
  <2>3. CASE ~full
    BY <1>6, <2>1, <2>3
  <2> QED
    BY <2>2, <2>3
<1>10. /\ out \in Seq(Pair)
       /\ Len(out) \in Nat
       /\ DOMAIN out = 1 .. Len(out)
       /\ \A i \in DOMAIN out : out[i][2] \in Log
  BY <1>2 DEF Reader, Pair
<1> HIDE DEF page
<1>11. /\ new \in Seq(Pair) /\ Len(new) = Len(out) + Len(page) /\ DOMAIN new = 1 .. Len(new)
       /\ \A i \in 1 .. Len(out) : new[i] = out[i]
       /\ \A i \in 1 .. Len(page) : new[Len(out) + i] = page[i]
       /\ \A i \in DOMAIN new : i \in DOMAIN out \/ i - Len(out) \in DOMAIN page
  BY <1>9, <1>10
<1>12. reader' \in Reader /\ reader'.out = new /\ reader'.op = reader.op /\ reader'.kept = reader.kept
       /\ reader'.todo = reader.todo /\ reader'.listed = reader.listed
       /\ reader'.pc = IF full THEN "reading" ELSE "done"
  <2>1. reader' = [reader EXCEPT !.out = new, !.pc = IF full THEN "reading" ELSE "done"]
    BY <1>1 DEF page
  <2> HIDE DEF new, full
  <2> QED
    BY <1>2, <1>11, <2>1 DEF Reader
<1> HIDE DEF new
\* The pages so far are in order, and this one comes after them.
<1>13. \A i, j \in DOMAIN out : i < j => After(out[j][2], out[i][2])
  BY <1>2 DEF ReadInv, PagesInv
<1>14. \A i \in DOMAIN out : \A j \in DOMAIN page : After(page[j][2], out[i][2])
  <2> SUFFICES ASSUME NEW i \in DOMAIN out, NEW j \in DOMAIN page PROVE After(page[j][2], out[i][2])
    OBVIOUS
  <2>1. out # <<>> /\ Len(out) \in DOMAIN out
    BY <1>10
  <2>2. After(page[j][2], out[Len(out)][2])
    BY <1>6, <1>9, <2>1 DEF RestOf, After, Last
  <2>3. i = Len(out) \/ After(out[Len(out)][2], out[i][2])
    BY <1>10, <1>13, <2>1
  <2>4. page[j][2] \in Nat /\ out[i][2] \in Nat /\ out[Len(out)][2] \in Nat
    BY <1>3, <1>6, <1>9, <1>10, <2>1
  <2> QED
    BY <2>2, <2>3, <2>4 DEF After
<1>15. \A i, j \in DOMAIN new : i < j => After(new[j][2], new[i][2])
  <2> SUFFICES ASSUME NEW i \in DOMAIN new, NEW j \in DOMAIN new, i < j
               PROVE  After(new[j][2], new[i][2])
    OBVIOUS
  <2>1. CASE i \in DOMAIN out /\ j \in DOMAIN out
    BY <1>10, <1>11, <1>13, <2>1
  <2> DEFINE k(n) == n - Len(out)
  <2>a. \A n \in DOMAIN new : k(n) \in DOMAIN page => new[n] = page[k(n)]
    <3> SUFFICES ASSUME NEW n \in DOMAIN new, k(n) \in DOMAIN page PROVE new[n] = page[k(n)]
      OBVIOUS
    <3>1. Len(out) + k(n) = n
      BY <1>9, <1>10, <1>11
    <3> QED
      BY <1>9, <1>11, <3>1
  <2>2. CASE i \in DOMAIN out /\ k(j) \in DOMAIN page
    <3>1. new[i] = out[i] /\ new[j] = page[k(j)]
      BY <1>10, <1>11, <2>2, <2>a
    <3> QED
      BY <1>14, <2>2, <3>1
  <2>3. CASE i - Len(out) \in DOMAIN page /\ j - Len(out) \in DOMAIN page
    <3>1. i - Len(out) < j - Len(out)
      BY <1>9, <1>10, <1>11, <2>3
    <3>2. new[i] = page[i - Len(out)] /\ new[j] = page[j - Len(out)]
      BY <2>3, <2>a
    <3> QED
      BY <1>7, <1>9, <2>3, <3>1, <3>2
  <2> QED
    BY <1>9, <1>10, <1>11, <2>1, <2>2, <2>3
\* What it leaves comes after it.
<1>16. ASSUME NEW p \in reader.kept
       PROVE  \/ \E i \in DOMAIN new : new[i] = p
              \/ full /\ After(p[2], Last(new)[2])
  <2>1. CASE p \in ToSet(out)
    BY <1>10, <1>11, <1>9, <2>1 DEF ToSet
  <2>2. CASE p \in RestOf({p})
    <3>1. p \in Wanted
      BY <1>2 DEF ReadInv, ReaderInv, Wanted
    <3>2. p \in RestOf(Wanted)
      BY <2>2, <3>1 DEF RestOf
    <3>3. PICK k \in DOMAIN rest : rest[k] = p
      BY <1>5, <3>2
    <3>4. CASE k \in DOMAIN page
      <4>1. Len(out) + k \in DOMAIN new /\ new[Len(out) + k] = p
        BY <1>9, <1>10, <1>11, <3>3, <3>4
      <4> QED
        BY <4>1
    <3>5. CASE k \notin DOMAIN page
      <4>1. full /\ PageSize \in DOMAIN page /\ PageSize < k
        <5>1. full
          BY <1>6, <1>9, <3>5
        <5>2. DOMAIN page = 1 .. PageSize /\ k \in Nat \ {0}
          BY <1>6, <1>9, <5>1
        <5> QED
          BY <1>8, <3>5, <5>1, <5>2
      <4>2. Last(new) = page[PageSize]
        BY <1>8, <1>9, <1>10, <1>11, <4>1 DEF Last
      <4>3. After(rest[k][2], rest[PageSize][2])
        BY <1>7, <1>9, <3>3, <4>1
      <4> QED
        BY <1>9, <3>3, <4>1, <4>2, <4>3
    <3> QED
      BY <3>4, <3>5
  <2> QED
    BY <1>2, <2>1, <2>2 DEF ReadInv, PagesInv
<1>17. Descends' = Descends /\ kind' = kind /\ table' = table
  BY <1>2, <1>12 DEF Descends, choice
<1>18. CASE full
  <2>1. TypeOK'
    BY <1>2, <1>12 DEF TypeOK, choice, store
  <2>2. ReaderInv'
    <3>1. UNCHANGED <<VisiblePairs, DoomedPairs>>
      BY <1>2, LeavesRows DEF choice, store
    <3> QED
      BY <1>2, <1>12, <1>17, <3>1 DEF ReadInv, ReaderInv
  <2>3. PagesInv'
    <3>1. new # <<>> /\ \A l, m : After(l, m)' = After(l, m)
      BY <1>8, <1>9, <1>10, <1>11, <1>17, <1>18 DEF After
    <3>2. \A p \in reader.kept : p \in ToSet(new) \cup RestOf({p})'
      BY <1>12, <1>16, <1>17 DEF ToSet, RestOf, After
    <3> QED
      BY <1>12, <1>15, <3>1, <3>2 DEF PagesInv
  <2>4. ReadIsExact'
    BY <1>12, <1>18 DEF ReadIsExact
  <2> QED
    BY <2>1, <2>2, <2>3, <2>4 DEF ReadInv
<1>19. CASE ~full
  <2>1. \A i \in DOMAIN new : new[i] \in Pair /\ new[i][2] \in Log
    BY <1>11 DEF Pair
  <2>2. ASSUME NEW i \in DOMAIN new, NEW j \in DOMAIN new, i < j
        PROVE  Before(new[i][2], new[j][2]) /\ new[i] # new[j]
    <3>1. After(new[j][2], new[i][2])
      BY <1>15, <2>2
    <3>2. new[i][2] \in Log /\ new[j][2] \in Log
      BY <2>1
    <3>3. \A l, m \in Log : l < m => Block[l] <= Block[m] /\ l <= m /\ l # m
      BY Numbers
    <3>4. Before(new[i][2], new[j][2])
      BY <3>1, <3>2, <3>3, Zenon DEF After, Before
    <3>5. new[i][2] # new[j][2]
      <4>1. new[i][2] \in Nat /\ new[j][2] \in Nat
        BY <3>2, Numbers
      <4> HIDE DEF full
      <4> QED
        BY <3>1, <4>1 DEF After
    <3> QED
      BY <3>4, <3>5
  <2>3. \A p \in reader.kept : Has(new, p)
    BY <1>16, <1>19 DEF Has
  <2>4. reader.op = "after" => table = "logs"
    BY <1>2 DEF ReadInv, ReaderInv
  <2> HIDE DEF full
  <2> QED
    BY <1>2, <1>12, <1>19, <2>2, <2>3, <2>4, ReadEnds
<1> QED
  BY <1>18, <1>19

\* A directory is listed: what is to be read of it is in the ranges of its files.
LEMMA DirectoryIsListed ==
    ASSUME StoreInv, ReadInv, NEW s \in Source, ListFiles(s)
    PROVE  TypeOK' /\ ReadInv' /\ ReadIsExact'
<1>1. /\ TypeOK /\ reader \in Reader /\ kind = "parquet" /\ reader.pc = "reading" /\ reader.listed = {}
      /\ UNCHANGED <<choice, store, cursor, writer, acked>>
      /\ reader' = [reader EXCEPT !.todo = @ \ {s}, !.listed = {<<s, f.name>> : f \in files[s]}]
  BY DEF StoreInv, TypeOK, ListFiles
<1>2. {<<s, f.name>> : f \in files[s]} \in SUBSET (Source \X Name)
  BY <1>1 DEF TypeOK, File
<1>3. /\ reader' \in Reader /\ reader'.pc = "reading" /\ reader'.todo = reader.todo \ {s}
      /\ reader'.listed = {<<s, f.name>> : f \in files[s]}
      /\ reader'.found = reader.found /\ reader'.kept = reader.kept /\ reader'.op = reader.op
  BY <1>1, <1>2 DEF Reader
<1>4. UNCHANGED <<VisiblePairs, DoomedPairs, kind, table>>
  BY <1>1, LeavesRows DEF choice, store
<1>5. \A t \in Source : \A n : Between(t, n)' = Between(t, n)
  BY <1>1 DEF Between, choice
<1>6. ASSUME NEW p \in reader.kept, p[1] = s, p \in VisiblePairs
      PROVE  \E q \in reader'.listed : q[1] = p[1] /\ p[2] \in Between(p[1], q[2])
  <2>1. p[2] \in FileLogs(s)
    BY <1>1, <1>6 DEF VisiblePairs, Visible, Keyed
  <2>2. PICK f \in files[s] : p[2] \in f.logs
    BY <2>1 DEF FileLogs
  <2>3. p[2] \in Between(s, f.name)
    BY <2>2 DEF StoreInv, FilesInv
  <2>4. <<s, f.name>> \in reader'.listed
    BY <1>3
  <2> QED
    BY <1>6, <2>3, <2>4
<1>7. ASSUME NEW p \in reader'.kept, p[1] \notin reader'.todo
      PROVE  p \in reader'.found \/ \E q \in reader'.listed : q[1] = p[1] /\ p[2] \in Between(p[1], q[2])'
  <2>1. p \in reader.kept /\ p[1] \in Source
    BY <1>3 DEF Reader, Pair
  <2>2. CASE p[1] \in reader.todo
    <3>1. p[1] = s /\ p \in VisiblePairs
      BY <1>1, <1>3, <1>7, <2>1, <2>2 DEF ReadInv, ReaderInv
    <3> QED
      BY <1>5, <1>6, <2>1, <3>1
  <2>3. CASE p[1] \notin reader.todo
    BY <1>1, <1>3, <2>1, <2>3 DEF ReadInv, ReaderInv
  <2> QED
    BY <2>2, <2>3
<1>8. ReaderInv'
  <2>1. \A p \in reader'.kept : p[1] \in reader'.todo => p \in VisiblePairs \ DoomedPairs
    BY <1>1, <1>3 DEF ReadInv, ReaderInv
  <2>2. reader'.op = "after" => table = "logs"
    BY <1>1, <1>3 DEF ReadInv, ReaderInv
  <2>3. table = "transactions" => \E t \in Source : reader'.todo \subseteq {t}
    BY <1>1, <1>3 DEF ReadInv, ReaderInv
  <2> QED
    BY <1>1, <1>4, <1>7, <2>1, <2>2, <2>3 DEF ReaderInv
<1>9. TypeOK'
  BY <1>1, <1>3 DEF TypeOK, choice, store
<1>10. PagesInv' /\ ReadIsExact'
  BY <1>1, <1>3, <1>4 DEF PagesInv, ReadIsExact
<1> QED
  BY <1>8, <1>9, <1>10 DEF ReadInv

\* A file of the name has all the logs of its range, whenever it was written.
LEMMA FileIsRead ==
    ASSUME StoreInv, ReadInv, reader.pc # "done", ReadFile
    PROVE  TypeOK' /\ ReadInv' /\ ReadIsExact'
<1>1. PICK listed \in reader.listed :
         reader' = IF {f \in files[listed[1]] : f.name = listed[2]} = {} THEN NotReading
                   ELSE [reader EXCEPT !.listed = @ \ {listed},
                           !.found = @ \cup ({listed[1]} \X
                              UNION {f.logs : f \in {f \in files[listed[1]] : f.name = listed[2]}})]
  BY DEF ReadFile
<1> DEFINE s == listed[1]
           contents == {f \in files[s] : f.name = listed[2]}
           logs == UNION {f.logs : f \in contents}
<1>2. /\ TypeOK /\ reader \in Reader /\ UNCHANGED <<choice, store, cursor, writer, acked>>
      /\ s \in Source /\ listed = <<s, listed[2]>>
  BY DEF StoreInv, TypeOK, ReadFile, Reader
<1>3. CASE contents = {}
  <2>1. reader' = NotReading
    BY <1>1, <1>3
  <2>2. reader' \in Reader /\ reader'.pc = "idle"
    BY <2>1 DEF NotReading, Reader
  <2> QED
    BY <1>2, <2>2 DEF TypeOK, choice, store, ReadInv, ReaderInv, PagesInv, ReadIsExact
<1>4. CASE contents # {}
  <2>1. logs = Between(s, listed[2]) /\ logs \subseteq Log
    <3>1. \A f \in contents : f.logs = Between(s, listed[2])
      BY <1>2 DEF StoreInv, FilesInv
    <3>2. Between(s, listed[2]) \subseteq Log
      BY <1>2, LogStoreAssumption DEF TypeOK, Between
    <3> QED
      BY <1>4, <3>1, <3>2
  <2>2. reader' = [reader EXCEPT !.listed = @ \ {listed}, !.found = @ \cup ({s} \X logs)]
    BY <1>1, <1>4
  <2> HIDE DEF logs, contents, s
  <2>3. {s} \X logs \subseteq Pair
    BY <1>2, <2>1 DEF Pair
  <2>4. /\ reader' \in Reader /\ reader'.pc = reader.pc /\ reader'.op = reader.op
        /\ reader'.todo = reader.todo /\ reader'.kept = reader.kept
        /\ reader'.listed = reader.listed \ {listed}
        /\ reader'.found = reader.found \cup ({s} \X logs)
    BY <1>2, <2>2, <2>3 DEF Reader
  <2>5. UNCHANGED <<VisiblePairs, DoomedPairs, kind, table>>
    BY <1>2, LeavesRows DEF choice, store
  <2>6. \A t \in Source : \A n : Between(t, n)' = Between(t, n)
    BY <1>2 DEF Between, choice
  <2>7. ReaderInv'
    <3> SUFFICES ASSUME reader.pc = "reading" PROVE ReaderInv'
      BY <2>4 DEF ReaderInv
    <3>1. ASSUME NEW p \in reader.kept, p[1] \notin reader.todo
          PROVE  \/ p \in reader'.found
                 \/ \E q \in reader'.listed : q[1] = p[1] /\ p[2] \in Between(p[1], q[2])'
      <4>1. p = <<p[1], p[2]>> /\ p[1] \in Source
        BY <1>2 DEF Reader, Pair
      <4>2. CASE p \in reader.found
        BY <2>4, <4>2
      <4>3. CASE p \notin reader.found
        <5>1. PICK q \in reader.listed : q[1] = p[1] /\ p[2] \in Between(p[1], q[2])
          BY <3>1, <4>3 DEF ReadInv, ReaderInv
        <5>2. CASE q = listed
          <6>1. p[1] = s /\ p[2] \in logs
            BY <2>1, <5>1, <5>2 DEF s
          <6> QED
            BY <2>4, <4>1, <6>1
        <5>3. CASE q # listed
          BY <2>4, <2>6, <4>1, <5>1, <5>3
        <5> QED
          BY <5>2, <5>3
      <4> QED
        BY <4>2, <4>3
    <3>2. kind = "parquet" /\ (reader.op = "after" => table = "logs")
          /\ (table = "transactions" => \E t \in Source : reader.todo \subseteq {t})
          /\ \A p \in reader.kept : p[1] \in reader.todo => p \in VisiblePairs \ DoomedPairs
      BY DEF ReadInv, ReaderInv
    <3> QED
      BY <2>4, <2>5, <3>1, <3>2 DEF ReaderInv
  <2>8. TypeOK'
    BY <1>2, <2>4 DEF TypeOK, choice, store
  <2>9. PagesInv' /\ ReadIsExact'
    <3>1. reader.pc = "reading" => kind = "parquet"
      BY DEF ReadInv, ReaderInv
    <3> QED
      BY <2>4, <2>5, <3>1 DEF PagesInv, ReadIsExact
  <2> QED
    BY <2>7, <2>8, <2>9 DEF ReadInv
<1> QED
  BY <1>3, <1>4

\* What was found in the files is all there is.
LEMMA FoundIsSorted ==
    ASSUME StoreInv, ReadInv, SortFound
    PROVE  TypeOK' /\ ReadInv' /\ ReadIsExact'
<1>1. /\ TypeOK /\ reader \in Reader /\ kind = "parquet" /\ reader.pc = "reading"
      /\ reader.todo = {} /\ reader.listed = {}
      /\ UNCHANGED <<choice, store, cursor, writer, acked>>
  BY DEF StoreInv, TypeOK, SortFound, Reads
<1>2. PICK out \in Answers(reader.found) : reader' = [reader EXCEPT !.out = out, !.pc = "done"]
  BY DEF SortFound, Reads
<1>3. /\ reader.found \in SUBSET Pair /\ IsFiniteSet(reader.found)
      /\ \A x \in reader.found : x[2] \in Log
  <2>1. reader.found \in SUBSET Pair
    BY <1>1 DEF Reader
  <2> QED
    BY <2>1, PairsAreFinite DEF Pair
<1>4. /\ out \in Seq(reader.found)
      /\ \A i, j \in DOMAIN out : i < j => out[i] # out[j] /\ Before(out[i][2], out[j][2])
      /\ \A x \in reader.found : \/ \E i \in DOMAIN out : out[i] = x
                                 \/ reader.op = "latest" /\ Len(out) = Limit /\ Before(Last(out)[2], x[2])
  BY <1>2, <1>3, AnswersInOrder
<1>5. out \in Seq(Pair)
  BY <1>3, <1>4
<1>6. /\ reader' \in Reader /\ reader'.pc = "done" /\ reader'.out = out
      /\ reader'.op = reader.op /\ reader'.kept = reader.kept
  BY <1>1, <1>2, <1>5 DEF Reader
<1>7. /\ \A p \in reader.kept : p \in reader.found
      /\ reader.op = "after" => table = "logs"
  BY <1>1 DEF ReadInv, ReaderInv
<1>8. \A p \in reader.kept : \/ Has(out, p)
                             \/ reader.op = "latest" /\ Len(out) = Limit /\ Before(Last(out)[2], p[2])
  BY <1>4, <1>7 DEF Has
<1> QED
  BY <1>1, <1>4, <1>6, <1>7, <1>8, ReadEnds

LEMMA ReadBegins ==
    ASSUME StoreInv, NEW op \in {"after", "list", "latest"}, NEW sources \in SUBSET Source,
           Starts(op, sources),
           op = "after" => table = "logs",
           table = "transactions" => \E s \in Source : sources \subseteq {s}
    PROVE  TypeOK' /\ ReadInv' /\ ReadIsExact'
<1>1. /\ TypeOK /\ UNCHANGED <<choice, store, cursor, writer, acked>>
      /\ reader' = [pc |-> "reading", op |-> op, out |-> <<>>, todo |-> sources, listed |-> {}, found |-> {},
                    kept |-> {p \in VisiblePairs \ DoomedPairs : p[1] \in sources}]
  BY DEF StoreInv, Starts, NotReading
<1>2. UNCHANGED <<VisiblePairs, DoomedPairs>> /\ table' = table
  BY <1>1, LeavesRows DEF choice, store
<1>3. VisiblePairs \subseteq Pair
  <2>1. \A s \in Source : (\A c \in cells[s] : c.log \in Log) /\ (\A f \in files[s] : f.logs \subseteq Log)
    BY <1>1 DEF TypeOK, Cell, File
  <2>2. \A s \in Source : Visible(s) \subseteq Log
    BY <1>1, <2>1 DEF TypeOK, Visible, FileLogs, Kind, Keyed
  <2> QED
    BY <2>2 DEF VisiblePairs, Pair
<1>4. reader' \in Reader
  <2>1. {p \in VisiblePairs \ DoomedPairs : p[1] \in sources} \in SUBSET Pair /\ <<>> \in Seq(Pair)
    BY <1>3
  <2> QED
    BY <1>1, <2>1 DEF Reader
<1>5. TypeOK'
  BY <1>1, <1>4 DEF TypeOK, choice, store
<1>6. ReaderInv' /\ ReadIsExact'
  BY <1>1, <1>2 DEF ReaderInv, ReadIsExact
<1>7. PagesInv'
  <2>1. reader'.out = <<>> /\ DOMAIN <<>> = {}
    BY <1>1
  <2> QED
    BY <2>1 DEF PagesInv, RestOf
<1> QED
  BY <1>5, <1>6, <1>7 DEF ReadInv

\* A step of the rows leaves what a read in progress has to return.
LEMMA RowsKeepReads ==
    ASSUME TypeOK, TypeOK', ReadInv, reader.pc # "done", UNCHANGED choice,
           reader' = reader \/ \E K \in SUBSET reader.kept : reader' = [reader EXCEPT !.kept = K],
           \A p \in reader'.kept : p \in VisiblePairs \ DoomedPairs => p \in VisiblePairs' \ DoomedPairs'
    PROVE  ReadInv' /\ ReadIsExact'
<1>1. /\ reader'.pc = reader.pc /\ reader'.op = reader.op /\ reader'.out = reader.out /\ reader'.todo = reader.todo
      /\ reader'.listed = reader.listed /\ reader'.found = reader.found /\ reader'.kept \subseteq reader.kept
  BY DEF TypeOK, Reader
<1>2. kind' = kind /\ table' = table /\ Descends' = Descends
  BY <1>1 DEF choice, Descends
<1>3. \A l, m : After(l, m)' = After(l, m)
  BY <1>2 DEF After
<1>4. \A p : RestOf({p})' = RestOf({p})
  BY <1>1, <1>2 DEF RestOf
<1>5. \A t, n : Between(t, n)' = Between(t, n)
  BY DEF choice, Between
<1>6. ReaderInv'
  BY <1>1, <1>2, <1>5 DEF ReadInv, ReaderInv
<1> QED
  BY <1>1, <1>2, <1>3, <1>4, <1>6 DEF ReadInv, PagesInv, ReadIsExact

-----------------------------------------------------------------------------
(* The steps together *)

\* A step of the rows is an insert, a deletion or the end of what is due, and
\* a read in progress keeps what it has to return.
LEMMA RowStep ==
    ASSUME StoreInv, ReadInv, reader.pc # "done", NEW s \in Source,
           \/ IndexWindow(s) \/ RenameFile(s) \/ AdvanceCursor(s) \/ WorkerDies(s)
           \/ Mutation(s) \/ DeleteSourceData(s)
    PROVE  /\ StoreInv' /\ ReadInv' /\ ReadIsExact'
           /\ Contract!StorageNext \/ UNCHANGED <<VisiblePairs, DoomedPairs, acked>>
<1>1. StoreInv' /\ TypeOK /\ TypeOK'
  BY InsertKeepsRows, OthersKeepRows DEF StoreInv
<1>2. UNCHANGED choice
  BY DEF IndexWindow, RenameFile, AdvanceCursor, WorkerDies, Mutation, Acknowledges,
         DeleteSourceData, DeleteSQL, DeleteMongoDB, DeleteElasticsearch, RemovesRows,
         DeletesSomeDocuments, DeleteClickHouse, DeleteFiles, DeletesSomeFiles
<1>3. CASE DeleteSourceData(s)
  BY <1>1, <1>2, <1>3, DeleteImplements, RowsKeepReads DEF Contract!StorageNext
<1>4. CASE ~DeleteSourceData(s)
  <2>1. reader' = reader
    BY <1>4 DEF IndexWindow, RenameFile, AdvanceCursor, WorkerDies, Mutation
  <2>2. Contract!Insert(s) \/ Contract!Clear(s) \/ UNCHANGED <<VisiblePairs, DoomedPairs, acked>>
    <3>1. CASE IndexWindow(s)
      BY <3>1, InsertImplements
    <3>2. CASE RenameFile(s)
      BY <3>2, RenameImplements
    <3>3. CASE Mutation(s)
      BY <3>3, MutationImplements
    <3>4. CASE AdvanceCursor(s) \/ WorkerDies(s)
      <4>1. UNCHANGED <<kind, rows, cells, files, acked>>
        BY <3>4 DEF AdvanceCursor, WorkerDies, choice, store
      <4> QED
        BY <4>1, LeavesRows
    <3> QED
      BY <1>4, <3>1, <3>2, <3>3, <3>4
  <2>3. \A p \in reader'.kept : p \in VisiblePairs \ DoomedPairs => p \in VisiblePairs' \ DoomedPairs'
    BY <2>2 DEF Contract!Insert, Contract!Clear
  <2> QED
    BY <1>1, <1>2, <2>1, <2>2, <2>3, RowsKeepReads DEF Contract!StorageNext
<1> QED
  BY <1>3, <1>4

\* A step of a read changes nothing else.
LEMMA ReadStep ==
    ASSUME StoreInv, ReadInv,
           \/ StartRead \/ ListEvmLogs \/ ListLatestEvmLogs \/ ListEvmTransactions
           \/ ReadPage \/ SearchLatest \/ ReadSQL \/ ReadMongoDB \/ ReadClickHouse
           \/ (reader.pc # "done" /\ ReadFile) \/ SortFound \/ \E s \in Source : ListFiles(s)
           \/ EndRead
    PROVE  /\ StoreInv' /\ ReadInv' /\ ReadIsExact'
           /\ UNCHANGED <<VisiblePairs, DoomedPairs, acked>>
<1>1. UNCHANGED <<choice, store, cursor, writer, acked>>
  BY DEF StartRead, ListEvmLogs, ListLatestEvmLogs, ListEvmTransactions, Starts, ReadPage, SearchLatest,
         ReadSQL, ReadMongoDB, ReadClickHouse, Reads, ListFiles, ReadFile, SortFound, EndRead
<1>2. UNCHANGED <<VisiblePairs, DoomedPairs, acked>>
  BY <1>1, LeavesRows DEF choice, store
<1>3. RowsInv' /\ CellsInv' /\ FilesInv'
  <2>1. UNCHANGED <<kind, table, covers, rows, cells, files, writer>>
    BY <1>1 DEF choice, store
  <2>2. \A t \in Source : \A n : Between(t, n)' = Between(t, n) /\ Whole(t, n)' = Whole(t, n)
    BY <2>1 DEF Between, Whole
  <2> QED
    BY <2>1, <2>2 DEF StoreInv, RowsInv, CellsInv, FilesInv, Disjoint
<1>4. TypeOK' /\ ReadInv' /\ ReadIsExact'
  <2>1. CASE StartRead
    <3>1. Starts("after", Source) /\ table = "logs"
      BY <2>1 DEF StartRead
    <3> QED
      BY <3>1, ReadBegins
  <2>2. CASE ListEvmLogs \/ ListEvmTransactions
    <3>1. PICK s \in Source : Starts("list", {s})
      BY <2>2 DEF ListEvmLogs, ListEvmTransactions
    <3> QED
      BY <3>1, ReadBegins
  <2>3. CASE ListLatestEvmLogs
    <3>1. PICK s \in Source : Starts("latest", {s})
      BY <2>3 DEF ListLatestEvmLogs
    <3> QED
      BY <3>1, ReadBegins
  <2>4. CASE ReadSQL \/ ReadMongoDB \/ SearchLatest
    <3>1. PICK k : Reads(k, Answers(Wanted)) /\ k # "parquet"
      BY <2>4 DEF ReadSQL, ReadMongoDB, SearchLatest
    <3>2. kind # "parquet"
      BY <3>1 DEF Reads
    <3> QED
      BY <3>1, <3>2, QueryIsExact
  <2>5. CASE ReadClickHouse
    BY <2>5, FinalIsExact
  <2>6. CASE ReadPage
    BY <2>6, PageIsNext
  <2>7. CASE (\E s \in Source : ListFiles(s)) \/ (reader.pc # "done" /\ ReadFile) \/ SortFound
    BY <2>7, DirectoryIsListed, FileIsRead, FoundIsSorted
  <2>8. CASE EndRead
    <3>1. reader' = NotReading /\ TypeOK
      BY <2>8 DEF EndRead, StoreInv
    <3> QED
      BY <2>8, <3>1 DEF EndRead, NotReading, Reader, TypeOK, choice, store, ReadInv, ReaderInv, PagesInv,
                        ReadIsExact
  <2> QED
    BY <2>1, <2>2, <2>3, <2>4, <2>5, <2>6, <2>7, <2>8
<1> QED
  BY <1>2, <1>3, <1>4 DEF StoreInv

LEMMA Initially == Init => IInv /\ Contract!StorageInit
<1> SUFFICES ASSUME Init PROVE IInv /\ Contract!StorageInit
  OBVIOUS
<1>1. TypeOK
  <2>1. reader \in Reader
    BY DEF Init, NotReading, Reader
  <2> QED
    <3>1. [s \in Source |-> 0] \in [Source -> 0 .. Blocks]
      BY Numbers
    <3>2. [s \in Source |-> Idle] \in [Source -> Writer]
      BY DEF Writer
    <3>3. covers \in Coverage /\ kind \in Kind /\ table \in {"logs", "transactions"} /\ created \in BOOLEAN
      BY DEF Init
    <3>4. /\ rows \in [Log -> Source \cup {Nobody}]
          /\ cells \in [Source -> SUBSET Cell]
          /\ files \in [Source -> SUBSET File]
      BY DEF Init
    <3> QED
      BY <2>1, <3>1, <3>2, <3>3, <3>4 DEF Init, TypeOK
<1>2. RowsInv /\ CellsInv /\ FilesInv
  BY DEF Init, RowsInv, CellsInv, FilesInv, Idle
<1>3. ReadInv /\ ReadIsExact
  BY DEF Init, NotReading, ReadInv, ReaderInv, PagesInv, ReadIsExact
<1>4. \A s \in Source : Visible(s) = {}
  BY LogStoreAssumption DEF Init, Visible, FileLogs, Kind, Keyed
<1>5. VisiblePairs = {} /\ DoomedPairs = {}
  BY <1>4 DEF VisiblePairs, DoomedPairs
<1> QED
  BY <1>1, <1>2, <1>3, <1>5 DEF IInv, StoreInv, Contract!StorageInit, Init

LEMMA StepIsSafe ==
    ASSUME IInv, [Next]_vars
    PROVE  IInv' /\ [Contract!StorageNext]_<<VisiblePairs, DoomedPairs, acked>>
<1>1. CASE UNCHANGED vars
  <2>1. UNCHANGED <<kind, table, covers, created, rows, cells, files, cursor, writer, acked, reader>>
    BY <1>1 DEF vars, choice, store
  <2>2. UNCHANGED <<VisiblePairs, DoomedPairs, acked>>
    BY <2>1, LeavesRows
  <2>3. \A t \in Source : \A n : Between(t, n)' = Between(t, n) /\ Whole(t, n)' = Whole(t, n)
    BY <2>1 DEF Between, Whole
  <2>4. StoreInv'
    BY <2>1, <2>3 DEF IInv, StoreInv, TypeOK, RowsInv, CellsInv, FilesInv, Disjoint
  <2>5. /\ \A l, m : After(l, m)' = After(l, m)
        /\ \A p : RestOf({p})' = RestOf({p}) /\ \A o : Has(o, p)' = Has(o, p)
        /\ Descends' = Descends /\ \A l, m : InOrder(l, m)' = InOrder(l, m)
        /\ \A t, n : Between(t, n)' = Between(t, n)
    BY <2>1 DEF After, RestOf, Has, Descends, InOrder, Between
  <2>6. ReadInv' /\ ReadIsExact'
    BY <2>1, <2>2, <2>5 DEF IInv, ReadInv, ReaderInv, PagesInv, ReadIsExact
  <2> QED
    BY <2>2, <2>4, <2>6 DEF IInv
<1>2. CASE EndRead
  BY <1>2, ReadStep DEF IInv
<1>3. CASE reader.pc # "done" /\ Works
  <2>1. CASE LoadStore
    <3>1. StoreInv' /\ UNCHANGED <<choice, rows, cells, files, acked, reader>>
      BY <2>1, LoadKeepsRows DEF IInv
    <3>2. UNCHANGED <<VisiblePairs, DoomedPairs, acked>>
      BY <3>1, LeavesRows DEF choice
    <3>3. ReadInv' /\ ReadIsExact'
      BY <1>3, <3>1, <3>2, RowsKeepReads DEF IInv, StoreInv
    <3> QED
      BY <3>1, <3>2, <3>3 DEF IInv
  <2>2. ASSUME NEW s \in Source, \/ IndexWindow(s) \/ RenameFile(s) \/ AdvanceCursor(s) \/ WorkerDies(s)
                                 \/ Mutation(s) \/ DeleteSourceData(s)
        PROVE  IInv' /\ [Contract!StorageNext]_<<VisiblePairs, DoomedPairs, acked>>
    BY <1>3, <2>2, RowStep DEF IInv
  <2>3. CASE \/ StartRead \/ ListEvmLogs \/ ListLatestEvmLogs \/ ListEvmTransactions
             \/ ReadPage \/ SearchLatest \/ ReadSQL \/ ReadMongoDB \/ ReadClickHouse
             \/ ReadFile \/ SortFound \/ \E s \in Source : ListFiles(s)
    BY <1>3, <2>3, ReadStep DEF IInv
  <2> QED
    BY <1>3, <2>1, <2>2, <2>3 DEF Works
<1> QED
  BY <1>1, <1>2, <1>3 DEF Next

LEMMA Invariance == Spec => []IInv
<1>1. Init => IInv
  BY Initially
<1>2. IInv /\ [Next]_vars => IInv'
  BY StepIsSafe
<1> QED
  BY <1>1, <1>2, PTL DEF Spec

\* The state of a store and of a read of it is well typed: a file is named
\* after a range of blocks, and a row of ClickHouse after a block and a number
\* in its window.
THEOREM TypeCorrect == Spec => []TypeOK
<1>1. IInv => TypeOK
  BY DEF IInv, StoreInv
<1> QED
  BY <1>1, Invariance, PTL

\* GetLogsAfter answers in the order (block_number, log_index) and GetLogs,
\* GetLatestLogs and GetTransactions in that of the blocks, without repetitions,
\* and they leave out nothing that could be read from the beginning to the end,
\* whatever is inserted, replayed or deleted between the pages of Elasticsearch
\* or between the listing of parquet's files and the reading of each.
THEOREM ReadsAreExact == Spec => []ReadIsExact
<1>1. IInv => ReadIsExact
  BY DEF IInv
<1> QED
  BY <1>1, Invariance, PTL

\* Every kind of store implements EvmIndexerStorage, under replays in windows
\* of any size, bulks that fail in part, and workers that die.
THEOREM StoreImplementsContract == Spec => ImplementsLogStorage
<1>1. Init => Contract!StorageInit
  BY Initially
<1>2. IInv /\ [Next]_vars => [Contract!StorageNext]_<<VisiblePairs, DoomedPairs, acked>>
  BY StepIsSafe
<1> QED
  BY <1>1, <1>2, Invariance, PTL DEF Spec, ImplementsLogStorage, Contract!StorageSpec

\* Of any store that implements the contract, and so of these: what an insert
\* has acknowledged can be read, and is not about to go, until a deletion, which
\* may fail after a part, removes it.
THEOREM AcknowledgedStays == Spec => [](acked \subseteq VisiblePairs \ DoomedPairs)
<1> DEFINE Kept == acked \subseteq VisiblePairs \ DoomedPairs
<1>1. Contract!StorageInit => Kept
  BY DEF Contract!StorageInit
<1>2. Kept /\ [Contract!StorageNext]_<<VisiblePairs, DoomedPairs, acked>> => Kept'
  <2> SUFFICES ASSUME Kept, [Contract!StorageNext]_<<VisiblePairs, DoomedPairs, acked>>
               PROVE  Kept'
    OBVIOUS
  <2>1. CASE UNCHANGED <<VisiblePairs, DoomedPairs, acked>>
    BY <2>1
  <2>2. ASSUME NEW s \in Source, \/ Contract!Insert(s) \/ Contract!Clear(s)
                                 \/ Contract!DeleteSourceData(s) \/ Contract!DeletionFails(s)
        PROVE  Kept'
    BY <2>2 DEF Contract!Insert, Contract!DeleteSourceData, Contract!DeletionFails, Contract!Clear, Contract!Of
  <2> QED
    BY <2>1, <2>2 DEF Contract!StorageNext
<1>3. Spec => Contract!StorageSpec
  BY StoreImplementsContract DEF ImplementsLogStorage
<1> QED
  BY <1>1, <1>2, <1>3, PTL DEF Contract!StorageSpec

=============================================================================
