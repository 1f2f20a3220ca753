----------------------------- MODULE SourceTree -----------------------------
(***************************************************************************)
(* A factory source with the sources it registers, and the requests that   *)
(* create, edit, delete, start and stop them,                              *)
(* internal/grpc/sources-handlers.go.                                      *)
(*                                                                         *)
(* DeleteEvmLogSource removes the whole tree in many steps, with neither a *)
(* lock nor a transaction: it collects the ids, has the worker of each     *)
(* stopped, deletes the logs of each, then the rules, then the rows.       *)
(* Meanwhile the factories of the tree index and register children, other  *)
(* requests start, stop and edit sources, and calls fail.  The manager's   *)
(* handlers are those of SourceManager in one step each, but for a start,  *)
(* whose source may be deleted after its row was read; an error of theirs  *)
(* ends in the log, and the deletion goes on.                              *)
(*                                                                         *)
(* The manager's maps hold one worker of a source; one that a stop has     *)
(* taken out of them may still be in its window when the next start adds   *)
(* another.  A worker writes to the store of the pipeline that the row     *)
(* named when it was started, which need not be the one it names now.      *)
(***************************************************************************)
EXTENDS Naturals, FiniteSets

CONSTANTS
    Node,       \* the rows of the tree, created or not yet
    Root,       \* the source a user creates
    Parent,     \* Parent[n]: the factory that registers n
    Depth,      \* Depth[n]: how many factories are above n
    Pipeline,   \* the pipelines, each with a store of its own
    Slot,       \* bound: the workers that one source may have at once
    None,       \* no source, no worker or no pipeline
    MaxEvents   \* bound: the requests of users and the children registered

ASSUME TreeAssumption ==
    /\ IsFiniteSet(Node) /\ Root \in Node
    /\ Parent \in [Node \ {Root} -> Node]
    /\ Slot # {} /\ Pipeline # {}
    /\ None \notin Node \cup Slot \cup Pipeline /\ MaxEvents \in Nat

Children(n) == {c \in Node \ {Root} : Parent[c] = n}
Factory == {n \in Node : Children(n) # {}}

VARIABLES
    up,         \* the process serves requests
    row,        \* row[n]: whether the source's row exists
    enabled,    \* sources whose enabled column is set
    pipeline,   \* pipeline[n]: the pipeline that the row of n names
    rules,      \* sources that have factory rules
    stored,     \* <<n, p>>: n has logs in the store of pipeline p
    entry,      \* entry[n]: the worker of n that the manager's maps hold
    worker,     \* worker[n][k]: the pipeline of worker k of n, while it runs
    enabling,   \* enabling[n][k]: the child that k has registered but not enabled
    copying,    \* registered factories that have not got their rules yet
    step,       \* where DeleteEvmLogSource is
    ids,        \* the sources it has collected
    todo,       \* those its present step is still to handle
    token,      \* <<n, k>>: RemoveAndWait is waiting for worker k of n
    home,       \* the pipeline in the row it read first
    edit,       \* where UpdateEvmLogSource is, and the enabled column it read
    starting,   \* <<n, p>>: EnableSource has read the row of n, with pipeline p
    events,     \* how often a source was started, stopped, edited or registered
    escaped,    \* history: sources not stopped, or started or given rules too late
    late,       \* history: children registered when their parent was collected
    former      \* history: the pipelines an edit has moved the root away from, or, while
                \* it was being deleted, to

rowVars == <<row, enabled, pipeline, rules, stored>>
workerVars == <<entry, worker, enabling, copying>>
deleteVars == <<step, ids, todo, token, home>>
history == <<escaped, late, former>>
requests == <<edit, starting>>
treeVars == <<up, rowVars, workerVars, deleteVars, requests, events, history>>

NoEdit == [at |-> "idle", enabled |-> FALSE]

Live(n) == row[n] = "live"
Runs(n) == \E k \in Slot : worker[n][k] # None

TreeInit ==
    /\ up = FALSE
    /\ row = [n \in Node |-> "none"]
    /\ pipeline = [n \in Node |-> None]
    /\ enabled = {} /\ rules = {} /\ stored = {}
    /\ entry = [n \in Node |-> None]
    /\ worker = [n \in Node |-> [k \in Slot |-> None]]
    /\ enabling = [n \in Node |-> [k \in Slot |-> None]]
    /\ copying = {}
    /\ step = "idle" /\ ids = {} /\ todo = {} /\ token = None /\ home = None
    /\ edit = NoEdit /\ starting = None
    /\ events = 0
    /\ escaped = {} /\ late = {} /\ former = {}

-----------------------------------------------------------------------------
(* Boot, and the handlers of the manager.                                  *)

\* ensureSource of the autoloader: the declared source is created, enabled or not,
\* unless there is one; its rules may fail to be, and are not tried again.
ensureSource ==
    /\ ~up
    /\ row[Root] = "none"
    /\ row' = [row EXCEPT ![Root] = "live"]
    /\ \E p \in Pipeline : pipeline' = [pipeline EXCEPT ![Root] = p]
    /\ enabled' \in {{}, {Root}}
    /\ rules' \in {{}, {Root} \cap Factory}
    /\ UNCHANGED <<up, stored, workerVars, deleteVars, requests, events, history>>

\* Start: a worker for every enabled source.
Start ==
    LET k == CHOOSE k \in Slot : TRUE
        starts(n) == Live(n) /\ n \in enabled IN
    /\ ~up
    /\ up' = TRUE
    /\ entry' = [n \in Node |-> IF starts(n) THEN k ELSE None]
    /\ worker' = [n \in Node |-> [j \in Slot |-> IF starts(n) /\ j = k THEN pipeline[n] ELSE None]]
    /\ UNCHANGED <<rowVars, enabling, copying, deleteVars, requests, events, history>>

\* The deletion ends.
EndsDelete == step' = "idle" /\ ids' = {} /\ todo' = {} /\ token' = None /\ home' = None

\* The history of a deletion that did not reach its end does not excuse the next.
ForgetsHistory ==
    /\ escaped' = {n \in escaped : ~Live(n)}
    /\ late' = {c \in late : ~Live(Parent[c])}
    /\ former' = former

Crash ==
    /\ up
    /\ up' = FALSE
    /\ entry' = [n \in Node |-> None]
    /\ worker' = [n \in Node |-> [k \in Slot |-> None]]
    /\ enabling' = [n \in Node |-> [k \in Slot |-> None]]
    /\ copying' = {}
    /\ EndsDelete /\ ForgetsHistory
    /\ edit' = NoEdit /\ starting' = None
    /\ UNCHANGED <<rowVars, events>>

Counted == events < MaxEvents /\ events' = events + 1

\* Of source n, should it be deleted, something is going to be left.
EscapesIf(n, left) == escaped' = IF left THEN escaped \cup {n} ELSE escaped

\* The deletion has stopped source n, or is waiting for its worker.
StopIsDone(n) ==
    /\ n \in ids
    /\ \/ step \in {"data", "rules", "rows"}
       \/ step \in {"disable", "wait"} /\ n \notin todo
       \/ step = "wait" /\ n = token[1]

\* It has deleted the rules of source n.
RulesAreDone(n) == n \in ids /\ (step = "rows" \/ (step = "rules" /\ n \notin todo))

\* startSource: unless the maps hold a worker of n, another one is added,
\* whether those taken out of the maps have ended or not.
startSource(n, p) ==
    IF entry[n] # None THEN UNCHANGED <<entry, worker>>
    ELSE LET free == {k \in Slot : worker[n][k] = None}
             k == CHOOSE k \in free : TRUE IN
         /\ free # {}
         /\ entry' = [entry EXCEPT ![n] = k]
         /\ worker' = [worker EXCEPT ![n] = [@ EXCEPT ![k] = p]]

\* EnableSource, which has read the row with pipeline p: the update finds no row if
\* it has been deleted since, which is no error.
Enables(n, p) ==
    /\ enabled' = IF Live(n) THEN enabled \cup {n} ELSE enabled
    /\ startSource(n, p)
    /\ EscapesIf(n, ~Live(n) \/ StopIsDone(n))

\* DisableSource until the worker is out of the maps, which is told to end.
Disables(n) ==
    /\ enabled' = enabled \ {n}
    /\ entry' = [entry EXCEPT ![n] = None]

-----------------------------------------------------------------------------
(* The workers.  One that has been taken out of the maps still finishes the  *)
(* window it is in, so what it does in a window may come before its removal *)
(* or after.                                                                *)

\* InsertLogs and InsertTransactions, into the store that the worker has opened.
WorkerInserts(n, k) ==
    /\ worker[n][k] # None
    /\ stored' = stored \cup {<<n, worker[n][k]>>}
    /\ UNCHANGED <<up, row, enabled, pipeline, rules, workerVars, deleteVars, requests, events, history>>

\* registerFactoryChild creates the row, with the worker's pipeline; factory n has
\* the rule in the database ...
RegisterChild(n, k, c) ==
    /\ Counted
    /\ worker[n][k] # None
    /\ c \in Children(n) /\ row[c] = "none"
    /\ n \in rules
    /\ enabling[n][k] = None
    /\ row' = [row EXCEPT ![c] = "live"]
    /\ pipeline' = [pipeline EXCEPT ![c] = worker[n][k]]
    /\ enabled' = enabled \cup {c}
    /\ enabling' = [enabling EXCEPT ![n] = [@ EXCEPT ![k] = c]]
    /\ copying' = copying \cup ({c} \cap Factory)
    /\ late' = IF n \in ids \/ ~Live(n) THEN late \cup {c} ELSE late
    /\ UNCHANGED <<up, rules, stored, entry, worker, deleteVars, requests, escaped, former>>

\* ... copies the rules for the child's own children: if that fails the window is
\* tried again, but the next time the row is there ...
CopyRules(n, k) ==
    LET c == enabling[n][k] IN
    /\ c # None /\ c \in copying
    /\ copying' = copying \ {c}
    /\ \/ /\ rules' = rules \cup {c}
          /\ EscapesIf(c, ~Live(c) \/ RulesAreDone(c))
          /\ enabling' = enabling
       \/ /\ enabling' = [enabling EXCEPT ![n] = [@ EXCEPT ![k] = None]]
          /\ UNCHANGED <<rules, escaped>>
    /\ UNCHANGED <<up, row, enabled, pipeline, stored, entry, worker, deleteVars, requests, events, late, former>>

\* ... and emits the event that enables it, which fails if the row is gone when it
\* is read.
EnableChild(n, k) ==
    LET c == enabling[n][k] IN
    /\ c # None /\ c \notin copying
    /\ enabling' = [enabling EXCEPT ![n] = [@ EXCEPT ![k] = None]]
    /\ \/ Enables(c, pipeline[c])
       \/ ~Live(c) /\ UNCHANGED <<enabled, entry, worker, escaped>>
    /\ UNCHANGED <<up, row, pipeline, rules, stored, copying, deleteVars, requests, events, late, former>>

\* The worker has found out that it has been removed.
WorkerStops(n, k) ==
    /\ worker[n][k] # None
    /\ entry[n] # k
    /\ enabling[n][k] = None
    /\ worker' = [worker EXCEPT ![n] = [@ EXCEPT ![k] = None]]
    /\ UNCHANGED <<up, rowVars, entry, enabling, copying, deleteVars, requests, events, history>>

-----------------------------------------------------------------------------
(* Requests about one source.                                              *)

\* CreateEvmLogSource creates the row, and then its rules as an edit does.
CreateEvmLogSource ==
    /\ up
    /\ row[Root] = "none"
    /\ row' = [row EXCEPT ![Root] = "live"]
    /\ \E p \in Pipeline : pipeline' = [pipeline EXCEPT ![Root] = p]
    /\ edit' = [at |-> "clear", enabled |-> FALSE]
    /\ UNCHANGED <<up, enabled, rules, stored, workerVars, deleteVars, starting, events, history>>

\* A user asks for something.
Request == up /\ Counted

\* EnableSource reads the row ...
StartSourceIndexer(n) ==
    /\ Request
    /\ starting = None
    /\ Live(n)
    /\ starting' = <<n, pipeline[n]>>
    /\ UNCHANGED <<up, rowVars, workerVars, deleteVars, edit, history>>

\* ... and starts what it has read.
EnableSource(n) ==
    /\ starting # None
    /\ n = starting[1] /\ Enables(n, starting[2])
    /\ starting' = None
    /\ UNCHANGED <<up, row, pipeline, rules, stored, enabling, copying, deleteVars, edit, events, late, former>>

StopSourceIndexer(n) ==
    /\ Request
    /\ Live(n)
    /\ Disables(n)
    /\ UNCHANGED <<up, row, pipeline, rules, stored, worker, enabling, copying, deleteVars, requests, history>>

\* UpdateEvmLogSource reads the row of a source no factory has made ...
UpdateReads ==
    /\ Request
    /\ edit.at = "idle"
    /\ Live(Root)
    /\ edit' = [at |-> "save", enabled |-> Root \in enabled]
    /\ UNCHANGED <<up, rowVars, workerVars, deleteVars, starting, history>>

\* ... saves it with every column, the pipeline of the request among them, again
\* if it was deleted; the children keep the pipeline they were registered with ...
UpdateSaves ==
    /\ edit.at = "save"
    /\ row' = [row EXCEPT ![Root] = "live"]
    /\ enabled' = IF edit.enabled THEN enabled \cup {Root} ELSE enabled \ {Root}
    /\ \E p \in Pipeline :
          /\ pipeline' = [pipeline EXCEPT ![Root] = p]
          /\ former' = IF p = pipeline[Root] THEN former
                       ELSE former \cup {pipeline[Root]} \cup IF step = "idle" THEN {} ELSE {p}
    /\ edit' = [at |-> "clear", enabled |-> FALSE] \* the copy is not read again
    /\ UNCHANGED <<up, rules, stored, workerVars, deleteVars, starting, events, escaped, late>>

\* ... deletes the rules, and creates those of the request.
UpdateClearsRules ==
    /\ edit.at = "clear"
    /\ rules' = rules \ {Root}
    /\ edit' = [edit EXCEPT !.at = "fill"]
    /\ UNCHANGED <<up, row, enabled, pipeline, stored, workerVars, deleteVars, starting, events, history>>

UpdateCreatesRules ==
    /\ edit.at = "fill"
    /\ rules' \in {rules, rules \cup ({Root} \cap Factory)}
    /\ edit' = NoEdit
    /\ EscapesIf(Root, ~Live(Root) \/ RulesAreDone(Root))
    /\ UNCHANGED <<up, row, enabled, pipeline, stored, workerVars, deleteVars, starting, events, late, former>>

UpdateFails ==
    /\ edit.at # "idle"
    /\ edit' = NoEdit
    /\ UNCHANGED <<up, rowVars, workerVars, deleteVars, starting, events, history>>

-----------------------------------------------------------------------------
(* DeleteEvmLogSource, of a source no factory has made.                    *)

DeleteReads ==
    /\ up
    /\ step = "idle"
    /\ Live(Root)
    /\ step' = "collect"
    /\ ids' = {Root} /\ todo' = {Root}
    /\ home' = pipeline[Root]
    /\ ForgetsHistory
    /\ UNCHANGED <<up, rowVars, workerVars, token, requests, events>>

\* Every loop goes over the ids in the order they were collected in, parents first.
IsNext(n) == n \in todo /\ \A m \in todo : Depth[n] <= Depth[m]

\* Mutant: only the children of the source itself are collected.
CollectChildrenOnly(n) ==
    /\ step = "collect"
    /\ IsNext(n)
    /\ LET found == {c \in Children(n) : Live(c)} IN
        /\ ids' = ids \cup found
        /\ todo' = ids \cup found
    /\ step' = "disable"
    /\ UNCHANGED <<up, rowVars, workerVars, token, home, requests, events, history>>

\* collectSourceSubtree reads the children of one more source; when it has read
\* those of all, the sources are disabled.
collectSourceSubtree(n) ==
    /\ step = "collect"
    /\ IsNext(n)
    /\ LET found == {c \in Children(n) : Live(c)}
           rest == (todo \ {n}) \cup found IN
        /\ ids' = ids \cup found
        /\ step' = IF rest = {} THEN "disable" ELSE "collect"
        /\ todo' = IF rest = {} THEN ids ELSE rest
    /\ UNCHANGED <<up, rowVars, workerVars, token, home, requests, events, history>>

\* The loop is done with source n, and goes on with the next one at step again,
\* or the loop of step to begins.
Handled(n, again, to) ==
    /\ IF todo = {n} THEN step' = to /\ todo' = ids
       ELSE step' = again /\ todo' = todo \ {n}
    /\ UNCHANGED <<ids, home>>

Handles(n, from, to) == step = from /\ IsNext(n) /\ Handled(n, from, to) /\ token' = token

\* The event is emitted.  A worker in the maps is told to end, and waited for; one
\* that an earlier stop has taken out of them is not.
DeleteDisables(n) ==
    /\ step = "disable"
    /\ IsNext(n)
    /\ Disables(n)
    /\ IF entry[n] = None THEN Handled(n, "disable", "data") /\ token' = token
       ELSE step' = "wait" /\ token' = <<n, entry[n]>> /\ UNCHANGED <<ids, todo, home>>
    /\ EscapesIf(n, \E k \in Slot : k # entry[n] /\ worker[n][k] # None)
    /\ UNCHANGED <<up, row, pipeline, rules, stored, worker, enabling, copying, requests, events, late, former>>

\* DisableSource returns an error nobody sees.
DisableFails(n) ==
    /\ Handles(n, "disable", "data")
    /\ EscapesIf(n, Runs(n))
    /\ UNCHANGED <<up, rowVars, workerVars, requests, events, late, former>>

\* Mutant: nobody waits for the worker.
DeleteGoesOn(n) ==
    /\ step = "wait"
    /\ n = token[1]
    /\ Handled(n, "disable", "data")
    /\ token' = None
    /\ UNCHANGED <<up, rowVars, workerVars, requests, events, history>>

\* RemoveAndWait returns when the worker has ended ...
DeleteWaited(n) ==
    /\ step = "wait"
    /\ n = token[1] /\ worker[n][token[2]] = None
    /\ Handled(n, "disable", "data")
    /\ token' = None
    /\ UNCHANGED <<up, rowVars, workerVars, requests, events, history>>

\* ... or a minute has passed.
RemoveTimesOut(n) ==
    /\ step = "wait"
    /\ n = token[1] /\ worker[n][token[2]] # None
    /\ Handled(n, "disable", "data")
    /\ token' = None
    /\ EscapesIf(n, TRUE)
    /\ UNCHANGED <<up, rowVars, workerVars, requests, events, late, former>>

\* DeleteSourceData of the store that the pipeline of the row read first leads to.
deleteSubtreeStoreData(n) ==
    /\ Handles(n, "data", "rules")
    /\ stored' = stored \ {<<n, home>>}
    /\ UNCHANGED <<up, row, enabled, pipeline, rules, workerVars, requests, events, history>>

deleteFactoryRules(n) ==
    /\ Handles(n, "rules", "rows")
    /\ rules' = rules \ {n}
    /\ UNCHANGED <<up, row, enabled, pipeline, stored, workerVars, requests, events, history>>

\* One statement deletes the rows.
DeleteRows ==
    /\ step = "rows"
    /\ row' = [n \in Node |-> IF n \in ids THEN "deleted" ELSE row[n]]
    /\ EndsDelete
    /\ UNCHANGED <<up, enabled, pipeline, rules, stored, workerVars, requests, events, history>>

\* A read or a deletion fails: the request ends, and can be made again.
DeleteFails ==
    /\ step \notin {"idle", "disable", "wait"}
    /\ EndsDelete /\ ForgetsHistory
    /\ UNCHANGED <<up, rowVars, workerVars, requests, events>>

-----------------------------------------------------------------------------

Work(n, k) ==
    \/ WorkerInserts(n, k) \/ CopyRules(n, k) \/ EnableChild(n, k) \/ WorkerStops(n, k)
    \/ \E c \in Children(n) : RegisterChild(n, k, c)

Delete(n) ==
    \/ collectSourceSubtree(n)
    \/ DeleteDisables(n) \/ DisableFails(n) \/ DeleteWaited(n) \/ RemoveTimesOut(n)
    \/ deleteSubtreeStoreData(n) \/ deleteFactoryRules(n)

TreeNext ==
    \/ ensureSource \/ Start \/ Crash
    \/ CreateEvmLogSource
    \/ UpdateReads \/ UpdateSaves \/ UpdateClearsRules \/ UpdateCreatesRules \/ UpdateFails
    \/ DeleteReads \/ DeleteRows \/ DeleteFails
    \/ \E n \in Node :
        \/ StartSourceIndexer(n) \/ EnableSource(n) \/ StopSourceIndexer(n) \/ Delete(n)
        \/ \E k \in Slot : Work(n, k)

TreeSpec == TreeInit /\ [][TreeNext]_treeVars

-----------------------------------------------------------------------------
(* Properties.                                                             *)

\* Of a deleted source nothing is left among the rules, the workers or the logs,
\* with two exceptions.  One is a source that was not stopped for good: a worker
\* that an earlier stop had removed was still in its window, RemoveAndWait gave up
\* after its minute or DisableSource failed, it was started after the deletion had
\* stopped it, or given rules after the deletion had deleted them.  The other is logs in the store of a
\* pipeline that an edit has moved the root away from, or, during a deletion, to:
\* the deletion clears the store of the pipeline that the root names as it begins.
DeletedIsGone ==
    \A n \in Node : row[n] = "deleted" /\ n \notin escaped
        => /\ n \notin rules /\ ~Runs(n)
           /\ \A p \in Pipeline : <<n, p>> \in stored => p \in former

\* A child is left without its parent only when it was registered after the
\* deletion had looked for the parent's children.
OrphansAreLate ==
    \A n \in Node \ {Root} : Live(n) /\ row[Parent[n]] = "deleted" => n \in late

=============================================================================
