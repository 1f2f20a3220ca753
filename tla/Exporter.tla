------------------------------ MODULE Exporter ------------------------------
(***************************************************************************)
(* The runner of one exporter, internal/exporter/exporter.go, on a         *)
(* pipeline whose sources come and go: a factory source registers children *)
(* while it indexes, an operator disables and enables sources and edits    *)
(* the exporter's row.                                                     *)
(*                                                                         *)
(* Of a source the exporter sees the row and the logs in the store; each   *)
(* source moves as LogSource says, the contract SourceIndexer implements,  *)
(* and registers its children before its cursor covers their birth.        *)
(*                                                                         *)
(* The runner's place is a pair: the last completed block and the last log *)
(* index handed over in the block after it, -1 when none was.  It exists   *)
(* as columns of the row (syncBlock, syncIndex) and as locals of run       *)
(* (completed, last).                                                      *)
(***************************************************************************)
EXTENDS Integers, FiniteSets

CONSTANTS
    Source,         \* the sources of the pipeline, those yet to be registered too
    Stable,         \* sources nobody disables
    Root,           \* sources the pipeline starts with; the others are children
    Parent,         \* Parent[c]: the factory source that registers child c
    Depth,          \* Depth[s]: how many factories are above s
    Birth,          \* Birth[s]: the first block source s indexes
    Log,            \* the logs of the chain, each matched by one source
    StartBlock,     \* start_block of the exporter's row
    InitSyncBlock,  \* sync_block the row was created with
    BatchSize,      \* blocks per range: the chain's BlockRange, or the default
    MaxUint,        \* the largest log index, 2^64 - 1
    MaxBlock,       \* bound: the height at which the modelled chain ends
    MayEdit         \* whether somebody edits the exporter while it runs

ASSUME SourceAssumption ==
    /\ Stable \subseteq Source /\ Root \subseteq Source
    /\ Birth \in [Source -> Nat \ {0}] /\ Depth \in [Source -> Nat]
    /\ Parent \in [Source \ Root -> Source]
    /\ \A c \in Source \ Root :
        /\ Depth[Parent[c]] < Depth[c]
        /\ Birth[Parent[c]] <= Birth[c]
        /\ c \in Stable => Parent[c] \in Stable

ASSUME LogAssumption ==
    /\ \A l \in Log :
        /\ l.src \in Source
        /\ l.block \in Nat /\ Birth[l.src] <= l.block
        /\ l.index \in 0 .. MaxUint
    /\ \A l, m \in Log : l.block = m.block /\ l.index = m.index => l = m

ASSUME ConfigAssumption ==
    /\ StartBlock \in Nat /\ InitSyncBlock \in Nat
    /\ BatchSize \in Nat \ {0}
    /\ MaxUint \in Nat /\ MaxBlock \in Nat
    /\ MayEdit \in BOOLEAN

VARIABLES
    registered,  \* sources that have a row
    enabled,     \* sources whose enabled column is set
    sync,        \* sync[s]: the sync_block column of the source
    stored,      \* logs present in the log store
    syncBlock,   \* the exporter's sync_block column
    syncIndex,   \* the exporter's sync_log_index column
    status,      \* the exporter's status column
    edit,        \* the row an unfinished UpdateEvmiExporter has read
    pc,          \* where the runner is
    cancelled,   \* the context given to Serve is done
    completed,   \* completedBlock
    last,        \* lastLogIndex
    ids,         \* sourceIds
    toBlock,     \* the end of the range
    queue,       \* logs of the range not yet handed to the plugin
    delivered,   \* history: logs the plugin has accepted
    recorded,    \* history: those whose place reached the row
    prev         \* history: the last log this run of Serve handed over

sourceVars == <<registered, enabled, sync, stored>>
rowVars == <<syncBlock, syncIndex, status>>
loopVars == <<completed, last, ids, toBlock, queue>>
history == <<delivered, recorded, prev>>
vars == <<registered, enabled, sync, stored, syncBlock, syncIndex, status, edit, pc,
          cancelled, completed, last, ids, toBlock, queue, delivered, recorded, prev>>

\* Where the runner can be: the process is down, no service is supervised, at
\* the head of Serve, at the head of the loop, and in exportRange before the
\* query, before a log is handed over and before its place is written.
Loc == {"dead", "off", "serve", "poll", "fetch", "deliver", "persist"}

NoLog == [block |-> 0, index |-> 0]
NoEdit == [open |-> FALSE, block |-> 0, index |-> -1, status |-> "STOPPED"]

Status == {"RUNNING", "STOPPED", "FAILED"}
Index == -1 .. MaxUint

TypeOK ==
    /\ registered \subseteq Source /\ enabled \subseteq registered
    /\ sync \in [Source -> Nat]
    /\ stored \subseteq Log
    /\ syncBlock \in Nat /\ syncIndex \in Index /\ status \in Status
    /\ edit \in [open : BOOLEAN, block : Nat, index : Index, status : Status]
    /\ pc \in Loc
    /\ cancelled \in BOOLEAN
    /\ completed \in Nat /\ last \in Index
    /\ ids \subseteq Source
    /\ toBlock \in Nat
    /\ queue \subseteq Log
    /\ delivered \subseteq Log /\ recorded \subseteq Log
    /\ prev \in Log \cup {NoLog}

\* The order of logs on the chain, which GetLogsAfter returns them in.
Earlier(l, m) ==
    \/ l.block < m.block
    \/ l.block = m.block /\ l.index < m.index

-----------------------------------------------------------------------------

Init ==
    /\ registered = Root /\ enabled = Root
    /\ sync = [s \in Source |-> Birth[s] - 1]
    /\ stored = {}
    /\ syncBlock = InitSyncBlock /\ syncIndex = -1 /\ status = "STOPPED"
    /\ edit = NoEdit
    /\ pc = "dead"
    /\ cancelled = FALSE
    /\ completed = 0 /\ last = -1 /\ ids = {} /\ toBlock = 0 /\ queue = {}
    /\ delivered = {} /\ recorded = {} /\ prev = NoLog

runnerVars == <<rowVars, edit, pc, cancelled, loopVars, history>>

-----------------------------------------------------------------------------
(* The sources, as LogSource has them.                                     *)

\* A source writes a log ahead of its cursor.
SourceStores(l) ==
    /\ l.src \in registered
    /\ l.block > sync[l.src]
    /\ stored' = stored \cup {l}
    /\ UNCHANGED <<registered, enabled, sync, runnerVars>>

\* A source moves its cursor over blocks that are stored and whose children are
\* registered.
SourceAdvances(s, b) ==
    /\ s \in registered
    /\ sync[s] < b
    /\ \A l \in Log : l.src = s /\ l.block <= b => l \in stored
    /\ \A c \in Source \ Root : Parent[c] = s /\ Birth[c] <= b => c \in registered
    /\ sync' = [sync EXCEPT ![s] = b]
    /\ UNCHANGED <<registered, enabled, stored, runnerVars>>

\* registerFactoryChild creates an enabled row whose cursor is the block before
\* the deployment, while the factory's own cursor is still below it.
RegisterChild(c) ==
    /\ c \notin registered
    /\ Parent[c] \in registered
    /\ sync[Parent[c]] < Birth[c]
    /\ registered' = registered \cup {c}
    /\ enabled' = enabled \cup {c}
    /\ UNCHANGED <<sync, stored, runnerVars>>

\* An operator disables or enables a source.
ToggleSource(s) ==
    /\ s \in registered \ Stable
    /\ enabled' = IF s \in enabled THEN enabled \ {s} ELSE enabled \cup {s}
    /\ UNCHANGED <<registered, sync, stored, runnerVars>>

-----------------------------------------------------------------------------
(* UpdateEvmiExporter: the row is read, then every column is saved.  The   *)
(* edit leaves start block, pipeline and enabled as they are, and one edit *)
(* is under way at a time.                                                 *)

EditReads ==
    /\ MayEdit
    /\ ~edit.open
    /\ edit' = [open |-> TRUE, block |-> syncBlock, index |-> syncIndex, status |-> status]
    /\ UNCHANGED <<sourceVars, rowVars, pc, cancelled, loopVars, history>>

EditSaves ==
    /\ edit.open
    /\ syncBlock' = edit.block /\ syncIndex' = edit.index /\ status' = edit.status
    /\ edit' = NoEdit
    /\ UNCHANGED <<sourceVars, pc, cancelled, loopVars, history>>

\* The new configuration is refused, or the row cannot be saved.
EditFails ==
    /\ edit.open
    /\ edit' = NoEdit
    /\ UNCHANGED <<sourceVars, rowVars, pc, cancelled, loopVars, history>>

-----------------------------------------------------------------------------
(* The life of the runner.                                                 *)

\* startExporter: a new service is supervised.
StartExporter ==
    /\ pc \in {"dead", "off"}
    /\ pc' = "serve"
    /\ cancelled' = FALSE
    /\ UNCHANGED <<sourceVars, rowVars, edit, loopVars, history>>

\* DisableExporter tells the supervisor to remove the service.
Cancel ==
    /\ pc \notin {"dead", "off"}
    /\ cancelled' = TRUE
    /\ UNCHANGED <<sourceVars, rowVars, edit, pc, loopVars, history>>

\* The locals of run and exportRange are gone.
Forget == completed' = 0 /\ last' = -1 /\ ids' = {} /\ toBlock' = 0 /\ queue' = {}

\* The process dies, and with it an edit under way.
Crash ==
    /\ pc # "dead"
    /\ pc' = "dead"
    /\ edit' = NoEdit
    /\ Forget
    /\ UNCHANGED <<sourceVars, rowVars, cancelled, history>>

\* fail records the error in the status column, as far as that can be written;
\* Serve returns it and the supervisor, unless told to remove the service,
\* calls Serve again.
Fail ==
    /\ status' \in {"FAILED", status}
    /\ pc' = IF cancelled THEN "off" ELSE "serve"
    /\ Forget
    /\ UNCHANGED <<sourceVars, syncBlock, syncIndex, edit, cancelled>>

\* Mutant: the block before the start block is taken even when there is none.
ServeFromBeforeStart ==
    /\ pc = "serve"
    /\ completed' = IF syncBlock <= StartBlock THEN StartBlock - 1 ELSE syncBlock
    /\ last' = syncIndex
    /\ status' \in {"RUNNING", status}
    /\ pc' = "poll"
    /\ prev' = NoLog
    /\ UNCHANGED <<sourceVars, syncBlock, syncIndex, edit, cancelled, ids, toBlock, queue,
                   delivered, recorded>>

\* Serve reloads the row, loads store and plugin, sets the status and enters run.
Serve ==
    /\ pc = "serve"
    /\ LET reset == StartBlock > 0 /\ syncBlock < StartBlock IN
        /\ completed' = IF reset THEN StartBlock - 1 ELSE syncBlock
        /\ last' = IF reset THEN -1 ELSE syncIndex
    /\ status' \in {"RUNNING", status}
    /\ pc' = "poll"
    /\ prev' = NoLog
    /\ UNCHANGED <<sourceVars, syncBlock, syncIndex, edit, cancelled, ids, toBlock, queue,
                   delivered, recorded>>

\* The row, the store or the plugin cannot be loaded, the sources not be listed,
\* the logs not be read.
CallFails ==
    /\ pc \in {"serve", "poll", "fetch"}
    /\ Fail
    /\ UNCHANGED history

\* The loop looks at the context between two ranges only.
Stop ==
    /\ pc = "poll"
    /\ cancelled
    /\ status' \in {"STOPPED", status}
    /\ pc' = "off"
    /\ Forget
    /\ UNCHANGED <<sourceVars, syncBlock, syncIndex, edit, cancelled, history>>

-----------------------------------------------------------------------------
(* run and exportRange.                                                    *)

\* Mutant: any source's cursor serves as the head.
IsHeadOfAnySource(h) == \E s \in enabled : sync[s] = h

\* sourcesAndHead: the head is the smallest cursor of an enabled source.
IsHead(h) ==
    /\ \E s \in enabled : sync[s] = h
    /\ \A s \in enabled : h <= sync[s]

\* Mutant: a range is only started when it is full.
PollFullRange(h) ==
    /\ pc = "poll"
    /\ ~cancelled
    /\ IsHead(h)
    /\ h >= completed + BatchSize
    /\ ids' = enabled
    /\ toBlock' = completed + BatchSize
    /\ pc' = "fetch"
    /\ UNCHANGED <<sourceVars, rowVars, edit, cancelled, completed, last, queue, history>>

\* There is something to export up to head h: the next range is at most a batch.
Poll(h) ==
    /\ pc = "poll"
    /\ ~cancelled
    /\ IsHead(h)
    /\ h > completed
    /\ ids' = enabled
    /\ toBlock' = IF completed + BatchSize > h THEN h ELSE completed + BatchSize
    /\ pc' = "fetch"
    /\ UNCHANGED <<sourceVars, rowVars, edit, cancelled, completed, last, queue, history>>

\* Mutant: the last index is paired with the completed block, not the next one.
CursorBoundCompleted ==
    IF last < 0 THEN [block |-> completed, index |-> MaxUint]
    ELSE [block |-> completed, index |-> last]

\* cursorBound: the place after which logs are still to be handed over.
CursorBound ==
    IF last < 0 THEN [block |-> completed, index |-> MaxUint]
    ELSE [block |-> completed + 1, index |-> last]

\* GetLogsAfter.
FetchLogs ==
    /\ pc = "fetch"
    /\ queue' = {l \in stored : /\ l.src \in ids
                                /\ Earlier(CursorBound, l)
                                /\ l.block <= toBlock}
    /\ pc' = "deliver"
    /\ UNCHANGED <<sourceVars, rowVars, edit, cancelled, completed, last, ids, toBlock, history>>

blockBefore(b) == IF b = 0 THEN 0 ELSE b - 1

\* Mutant: the logs of a range are handed over in no particular order.
NextInQueueUnordered(l) == l \in queue

\* The logs of a range are handed over one by one, in chain order.
NextInQueue(l) ==
    /\ l \in queue
    /\ \A m \in queue : ~ Earlier(m, l)

\* NewLogEvent accepts log l.
Deliver(l) ==
    /\ pc = "deliver"
    /\ NextInQueue(l)
    /\ delivered' = delivered \cup {l}
    /\ prev' = l
    /\ queue' = queue \ {l}
    /\ completed' = blockBefore(l.block)
    /\ last' = l.index
    /\ pc' = "persist"
    /\ UNCHANGED <<sourceVars, rowVars, edit, cancelled, ids, toBlock, recorded>>

\* NewLogEvent refuses the next log.
DeliverFails ==
    /\ pc = "deliver"
    /\ queue # {}
    /\ Fail
    /\ UNCHANGED history

\* persistCursor after a log.
Persist ==
    /\ pc = "persist"
    /\ syncBlock' = completed /\ syncIndex' = last
    /\ recorded' = recorded \cup {prev}
    /\ pc' = "deliver"
    /\ UNCHANGED <<sourceVars, status, edit, cancelled, loopVars, delivered, prev>>

\* Mutant: the range's last block is left open.
FinishBeforeEnd ==
    /\ pc = "deliver"
    /\ queue = {}
    /\ completed' = blockBefore(toBlock) /\ last' = -1
    /\ syncBlock' = blockBefore(toBlock) /\ syncIndex' = -1
    /\ pc' = "poll"
    /\ UNCHANGED <<sourceVars, status, edit, cancelled, ids, toBlock, queue, history>>

\* The range is done, its empty tail included: persistCursor at its end.
Finish ==
    /\ pc = "deliver"
    /\ queue = {}
    /\ completed' = toBlock /\ last' = -1
    /\ syncBlock' = toBlock /\ syncIndex' = -1
    /\ pc' = "poll"
    /\ UNCHANGED <<sourceVars, status, edit, cancelled, ids, toBlock, queue, history>>

\* persistCursor fails: what was handed over is not recorded.
PersistFails ==
    /\ pc = "persist" \/ (pc = "deliver" /\ queue = {})
    /\ Fail
    /\ UNCHANGED history

-----------------------------------------------------------------------------

SourceStep ==
    \/ \E l \in Log : SourceStores(l)
    \/ \E s \in Source, b \in 0 .. MaxBlock : SourceAdvances(s, b)
    \/ \E c \in Source \ Root : RegisterChild(c)
    \/ \E s \in Source : ToggleSource(s)

\* What the runner does when nothing goes wrong.
RunnerStep ==
    \/ Serve
    \/ \E h \in 0 .. MaxBlock : Poll(h)
    \/ FetchLogs
    \/ \E l \in queue : Deliver(l)
    \/ Persist
    \/ Finish
    \/ Stop

\* What can go wrong.
Fault == Crash \/ CallFails \/ DeliverFails \/ PersistFails

Next ==
    \/ SourceStep
    \/ EditReads \/ EditSaves \/ EditFails
    \/ StartExporter \/ Cancel
    \/ RunnerStep
    \/ Fault

Spec == Init /\ [][Next]_vars

\* Failures stop in the end, the process is then up, and a runner that can take
\* a step takes one: its goroutine is scheduled and its calls return.  Sources
\* need not move and nobody has to enable a disabled exporter again.
Fairness ==
    /\ <>[][~Fault]_vars
    /\ WF_vars(pc = "dead" /\ StartExporter)
    /\ WF_vars(RunnerStep)

FairSpec == Spec /\ Fairness

-----------------------------------------------------------------------------
(* Properties.                                                             *)

\* The first block the exporter hands over.
FirstBlock ==
    IF StartBlock > 0 /\ InitSyncBlock < StartBlock THEN StartBlock ELSE InitSyncBlock + 1

\* The place <<b, i>> covers log l.
Covers(b, i, l) == l.block <= b \/ (l.block = b + 1 /\ l.index <= i)

\* Log l is to be handed over: it is not before the start, and nobody disables
\* the source that indexes it.
Due(l) == l.src \in Stable /\ FirstBlock <= l.block

\* The recorded cursor never covers a log the plugin has not accepted, although
\* sources advance and register children between the choice of the head and the
\* query, other sources are disabled and enabled, and calls fail at every step.
NoSkip ==
    \A l \in Log : Due(l) /\ Covers(syncBlock, syncIndex, l) => l \in delivered

\* When the plugin accepts a log it has accepted every earlier one, across all
\* sources and all restarts.
DeliveredIsPrefix ==
    \A l \in delivered : \A m \in Log : Due(m) /\ Earlier(m, l) => m \in delivered

\* Within one run of Serve logs are handed over in strictly ascending order.
AscendingOrder == [][prev' = NoLog \/ Earlier(prev, prev')]_prev

\* A log whose place was recorded is not handed over again, one of the start
\* block excepted: run resets a cursor inside that block to its beginning.
ReplaysOnlyStartBlock ==
    [][prev' \in recorded => prev'.block = StartBlock]_prev

\* Unless the exporter is disabled, what the least synced source has completed
\* is handed over in the end.
EventuallyDelivered ==
    []<>(\/ pc = "off"
         \/ \A l \in Log : Due(l) /\ (\A s \in enabled : l.block <= sync[s])
                => l \in delivered)

-----------------------------------------------------------------------------
(* What the documents say and the code does not do: TLC refutes each of     *)
(* these when it is added to a run.                                        *)

\* PLUGIN.md: "a restart resumes at the exact next log - never replaying logs you
\* already accepted."
NeverReplaysRecorded == [][prev' \notin recorded]_prev

\* docs/exporters.md: a "disabled-but-required source therefore stalls the
\* exporter", that is, the cursor does not pass the logs of a disabled source.
DisabledSourceStalls ==
    \A l \in Log : FirstBlock <= l.block /\ Covers(syncBlock, syncIndex, l)
        => l \in delivered

\* UpdateEvmiExporter: "The sync cursor (sync_block, sync_log_index) and status
\* are server-managed and deliberately not overwritten from the request."
CursorNeverRewound ==
    [][\/ syncBlock' > syncBlock
       \/ syncBlock' = syncBlock /\ syncIndex' >= syncIndex]_<<syncBlock, syncIndex>>

=============================================================================
