---------------------------- MODULE SourceIndexer ----------------------------
(***************************************************************************)
(* The worker of one log source, internal/indexer/indexer.go: the poll     *)
(* loop serveIndexation, the window it indexes at a time (indexRange), the *)
(* calls that complete its logs (computeLogsAndTxs), the rules by which a  *)
(* FACTORY source discovers contracts and their registration, and what is  *)
(* left of all this when a call fails, when the supervisor cancels or      *)
(* restarts the worker and when the process dies.                          *)
(*                                                                         *)
(* Two copies of the cursor exist: syncBlock, the sync_block column, which *)
(* survives everything, and source, the SyncBlock field of the worker's    *)
(* own p.source, which survives a restart by the supervisor (suture calls  *)
(* Serve again on the same struct) but not a new worker or process.        *)
(***************************************************************************)
EXTENDS Integers, FiniteSets

CONSTANTS
    Log,            \* the logs of the chain that match the source's filter,
                    \* with their decoded event and arguments
    Addr,           \* contract addresses the source's creation rules can name
    Rule,           \* the creation rules of the source
    NumberOf,       \* the integers that argument values parse as, where they do
    TextOrder,      \* the place of every argument value in the order of strings
    Contains,       \* pairs of values, the second a substring of the first
    StartBlock,     \* start_block of the row
    InitSyncBlock,  \* sync_block the row was created with
    BlockRange,     \* blocks per window (chain configuration)
    BlockSlice,     \* least distance of the head from the cursor to index
    RpcMaxBatchSize, \* calls in one request to the node
    MaxBlock        \* bound: the height at which the modelled chain ends

\* A creation rule, with the conditions that gate it.
EvmFactoryRule(rule) ==
    /\ rule.id \in Nat
    /\ rule.childType \in {"CONTRACT", "FACTORY"}
    /\ \A c \in rule.conditions :
           c.operator \in {"eq", "neq", "gt", "gte", "lt", "lte", "contains"}

ASSUME RuleAssumption ==
    /\ \A rule \in Rule : EvmFactoryRule(rule)
    /\ \A r1, r2 \in Rule : r1.id = r2.id => r1 = r2

ASSUME LogAssumption ==
    /\ IsFiniteSet(Log)
    /\ \A l \in Log : l.block \in Nat /\ l.index \in Nat

ASSUME BlockAssumption ==
    /\ StartBlock \in Nat /\ InitSyncBlock \in Nat
    /\ BlockRange \in Nat \ {0} /\ BlockSlice \in Nat /\ RpcMaxBatchSize \in Nat
    /\ MaxBlock \in Nat

VARIABLES
    head,        \* height of the chain
    syncBlock,   \* the sync_block column
    status,      \* the status column
    pc,          \* where the worker is
    cancelled,   \* the context given to Serve is done
    source,      \* p.source.SyncBlock
    latest,      \* latestBlockNumberIndexed
    current,     \* currentBlock, the head of this round
    from,        \* i, the first block of the window
    toLoad,      \* calls that complete the window's logs and are not made yet
    todo,        \* <<log, address>>: deployments of the window not yet handled
    stored,      \* logs present in the log store
    txStored,    \* logs whose transaction is present in the log store
    child        \* child[a]: the row of the source registered for address a

dbVars == <<syncBlock, status>>
loopVars == <<latest, current, from, toLoad, todo>>
storeVars == <<stored, txStored>>
vars == <<head, syncBlock, status, pc, cancelled, source, latest, current, from,
          toLoad, todo, stored, txStored, child>>

\* A child row: absent, or present without or with its nested rules, and its
\* start_block (0 while the row is absent).
ChildState == {"absent", "bare", "ready"}
NoChild == [state |-> "absent", start |-> 0]

\* Where the worker can be: the process is down, no service is supervised, at
\* the head of Serve, in waitPullInterval, at the head of the window loop, at the
\* reads of indexRange that complete the logs (block headers, transactions), and
\* at its writes: logs, child rows and transactions, cursor.
Loc == {"dead", "off", "serve", "wait", "window", "headers", "transactions",
        "insertLogs", "register", "cursor"}

TypeOK ==
    /\ head \in Nat
    /\ syncBlock \in Nat
    /\ status \in {"RUNNING", "STOPPED"}
    /\ pc \in Loc
    /\ cancelled \in BOOLEAN
    /\ source \in Nat /\ latest \in Nat /\ current \in Nat /\ from \in Nat
    /\ toLoad \in Nat
    /\ todo \subseteq Log \X Addr
    /\ stored \subseteq Log /\ txStored \subseteq Log
    /\ child \in [Addr -> [state : ChildState, start : Nat]]

-----------------------------------------------------------------------------
(* The contracts a log makes the source register.                          *)

\* The comparison of a condition: between the numbers when both values parse as
\* one, else between the strings.  An unknown operator never holds.
evalCondition(actual, operator, expected) ==
    LET numeric == {actual, expected} \subseteq DOMAIN NumberOf
        a == IF numeric THEN NumberOf[actual] ELSE TextOrder[actual]
        e == IF numeric THEN NumberOf[expected] ELSE TextOrder[expected]
    IN  \/ operator = "eq" /\ a = e
        \/ operator = "neq" /\ a # e
        \/ operator \in {"gt", "gte"} /\ a > e
        \/ operator \in {"lt", "lte"} /\ a < e
        \/ operator \in {"gte", "lte"} /\ a = e
        \/ operator = "contains" /\ <<actual, expected>> \in Contains

\* Every condition of the rule holds; an argument the event does not have is "".
ruleConditionsPass(rule, args) ==
    \A c \in rule.conditions :
        evalCondition(IF c.arg \in DOMAIN args THEN args[c.arg] ELSE "", c.operator, c.value)

\* Log l makes the rule register address a.
Registers(rule, l, a) ==
    /\ l.event = rule.event
    /\ ruleConditionsPass(rule, l.args)
    /\ rule.addressArg \in DOMAIN l.args
    /\ l.args[rule.addressArg] = a

\* The addresses each log makes the rules register.
Deploys == [l \in Log |-> {a \in Addr : \E rule \in Rule : Registers(rule, l, a)}]

\* The rule the row of address a is made from: the rules are tried in the order
\* of their ids, and the ones after it find the row.
RuleFor(l, a) ==
    CHOOSE rule \in Rule :
        /\ Registers(rule, l, a)
        /\ \A other \in Rule : Registers(other, l, a) => rule.id <= other.id

IsFactory(l, a) == RuleFor(l, a).childType = "FACTORY"

-----------------------------------------------------------------------------

Init ==
    /\ head = 0
    /\ syncBlock = InitSyncBlock
    /\ status = "STOPPED"
    /\ pc = "dead"
    /\ cancelled = FALSE
    /\ source = 0 /\ latest = 0 /\ current = 0 /\ from = 0
    /\ toLoad = 0 /\ todo = {}
    /\ stored = {} /\ txStored = {}
    /\ child = [a \in Addr |-> NoChild]

\* The chain grows.
Mine ==
    /\ head < MaxBlock
    /\ head' = head + 1
    /\ UNCHANGED <<dbVars, pc, cancelled, source, loopVars, storeVars, child>>

-----------------------------------------------------------------------------
(* The life of the worker.                                                 *)

\* startSource: a new service is built from the row as it is now.
StartSource ==
    /\ pc \in {"dead", "off"}
    /\ pc' = "serve"
    /\ source' = syncBlock
    /\ cancelled' = FALSE
    /\ UNCHANGED <<head, dbVars, loopVars, storeVars, child>>

\* The supervisor is told to remove the service and cancels its context.
Cancel ==
    /\ pc \notin {"dead", "off"}
    /\ cancelled' = TRUE
    /\ UNCHANGED <<head, dbVars, pc, source, loopVars, storeVars, child>>

\* The locals of serveIndexation are gone when Serve returns or the process dies.
Forget ==
    /\ latest' = 0 /\ current' = 0 /\ from' = 0
    /\ toLoad' = 0 /\ todo' = {}

\* The process dies: the database and the log store keep what was written.
Crash ==
    /\ pc # "dead"
    /\ pc' = "dead"
    /\ Forget
    /\ UNCHANGED <<head, dbVars, cancelled, source, storeVars, child>>

\* Serve returns an error: the supervisor calls it again on the same struct,
\* unless it has been told to remove the service.
ServeReturnsError ==
    /\ pc' = IF cancelled THEN "off" ELSE "serve"
    /\ Forget

\* Mutant: the loop re-reads the last block of the cursor to be on the safe side.
ServeOneBlockBack ==
    /\ pc = "serve"
    /\ status' = "RUNNING"
    /\ latest' = source - 1
    /\ pc' = "wait"
    /\ UNCHANGED <<head, syncBlock, cancelled, source, current, from, toLoad, todo,
                    storeVars, child>>

\* Serve: everything loaded, the status written, the loop entered.
Serve ==
    /\ pc = "serve"
    /\ status' = "RUNNING"
    /\ latest' = IF source < StartBlock THEN StartBlock ELSE source
    /\ pc' = "wait"
    /\ UNCHANGED <<head, syncBlock, cancelled, source, current, from, toLoad, todo,
                    storeVars, child>>

\* The window loop has another window to index.
InWindow == pc = "window" /\ from <= current

\* A call that changes nothing fails: loading the rows or the store in Serve,
\* eth_blockNumber, eth_getLogs, a batch that completes the logs of a window or
\* an answer in it that is missing.
CallFails ==
    /\ pc \in {"serve", "wait", "headers", "transactions"} \/ InWindow
    /\ ServeReturnsError
    /\ UNCHANGED <<head, dbVars, cancelled, source, storeVars, child>>

\* markStopped, from waitPullInterval or between two windows.  The status
\* update may itself fail: the worker is gone either way.
MarkStopped ==
    /\ cancelled
    /\ pc = "wait" \/ InWindow
    /\ status' \in {"STOPPED", status}
    /\ pc' = "off"
    /\ Forget
    /\ UNCHANGED <<head, syncBlock, cancelled, source, storeVars, child>>

-----------------------------------------------------------------------------
(* serveIndexation: one round per pull interval.                           *)

\* Mutant: the distance is taken first, and wraps around below the cursor.
WorthIndexingWrapped(h) == h < latest \/ h - latest >= BlockSlice

\* A head h starts a round when it is at least BlockSlice ahead of the cursor.
WorthIndexing(h) == h > latest /\ h - latest >= BlockSlice

\* eth_blockNumber answers h, possibly from a node that lags behind the chain.
Poll(h) ==
    /\ pc = "wait"
    /\ h <= head
    /\ WorthIndexing(h)
    /\ current' = h
    /\ from' = latest + 1
    /\ pc' = "window"
    /\ UNCHANGED <<head, dbVars, cancelled, source, latest, toLoad, todo, storeVars, child>>

\* The last block of the window that starts at from.
To == IF from + BlockRange - 1 > current THEN current ELSE from + BlockRange - 1

\* The logs eth_getLogs returns for the window.
Batch == {l \in Log : from <= l.block /\ l.block <= To}

\* The window loop ends; the cursor of the next round is the head of this one.
RoundDone ==
    /\ pc = "window"
    /\ from > current
    /\ latest' = current
    /\ current' = 0 /\ from' = 0
    /\ pc' = "wait"
    /\ UNCHANGED <<head, dbVars, cancelled, source, toLoad, todo, storeVars, child>>

-----------------------------------------------------------------------------
(* indexRange: the calls of one window, in their order.                    *)

\* eth_getLogs for the window; cancellation is not looked at again before the
\* next window.  A window without logs needs no other call.
FetchLogs ==
    /\ InWindow
    /\ ~cancelled
    /\ IF Batch = {}
       THEN pc' = "insertLogs" /\ UNCHANGED toLoad
       ELSE pc' = "headers" /\ toLoad' \in 1 .. Cardinality(Batch)
    /\ UNCHANGED <<head, dbVars, cancelled, source, latest, current, from, todo,
                    storeVars, child>>

\* loadBlockTimestamps: the headers of the blocks the logs lie in, a batch at a
\* time; a batch size of 0 means all of them at once.  The transactions follow.
LoadBlockTimestamps ==
    /\ pc = "headers"
    /\ IF RpcMaxBatchSize = 0 \/ toLoad <= RpcMaxBatchSize
       THEN pc' = "transactions" /\ toLoad' \in 1 .. Cardinality(Batch)
       ELSE pc' = pc /\ toLoad' = toLoad - RpcMaxBatchSize
    /\ UNCHANGED <<head, dbVars, cancelled, source, latest, current, from, todo,
                    storeVars, child>>

\* computeLogsAndTxs: a batch of the transactions the logs lie in, until none is
\* left; here a batch size of 0 is an empty batch, over and over again.
LoadTransactions ==
    /\ pc = "transactions"
    /\ toLoad' = IF toLoad > RpcMaxBatchSize THEN toLoad - RpcMaxBatchSize ELSE 0
    /\ pc' = IF toLoad' = 0 THEN "insertLogs" ELSE pc
    /\ UNCHANGED <<head, dbVars, cancelled, source, latest, current, from, todo,
                    storeVars, child>>

\* The deployments among logs ls.
Deployments(ls) == {p \in ls \X Addr : p[2] \in Deploys[p[1]]}

\* InsertLogs; a log already present is left or overwritten with itself.
InsertLogs ==
    /\ pc = "insertLogs"
    /\ stored' = stored \cup Batch
    /\ todo' = Deployments(Batch)
    /\ pc' = "register"
    /\ UNCHANGED <<head, dbVars, cancelled, source, latest, current, from, toLoad, txStored,
                    child>>

\* Mutant: the error of InsertLogs is logged and the window goes on.
InsertLogsErrorIgnored ==
    /\ pc = "insertLogs"
    /\ \E ls \in SUBSET Batch : stored' = stored \cup ls
    /\ pc' = "register"
    /\ UNCHANGED <<head, dbVars, cancelled, source, loopVars, txStored, child>>

\* InsertLogs fails after some of its writes.
InsertLogsFails ==
    /\ pc = "insertLogs"
    /\ Batch # {}
    /\ \E ls \in SUBSET Batch : stored' = stored \cup ls
    /\ ServeReturnsError
    /\ UNCHANGED <<head, dbVars, cancelled, source, txStored, child>>

\* Logs are scanned in the order eth_getLogs gives them.
Earlier(l, m) ==
    \/ l.block < m.block
    \/ l.block = m.block /\ l.index < m.index

NextDeployment(p) ==
    /\ p \in todo
    /\ \A q \in todo : ~ Earlier(q[1], p[1])

\* Mutant: the child starts at the block of its deployment, not before it.
ChildRowStartsAt(l, a, cloned) ==
    [state |-> IF IsFactory(l, a) /\ ~cloned THEN "bare" ELSE "ready", start |-> l.block]

\* The row of the contract at address a that log l deploys; a FACTORY child also
\* needs a copy of the nested rules, which are created one by one after the row.
ChildRow(l, a, cloned) ==
    [state |-> IF IsFactory(l, a) /\ ~cloned THEN "bare" ELSE "ready",
     start |-> l.block - 1]

\* registerFactoryChild: nothing for an address that already has a row.
RegisterFactoryChild(p) ==
    /\ pc = "register"
    /\ NextDeployment(p)
    /\ todo' = todo \ {p}
    /\ child' = IF child[p[2]].state # "absent" THEN child
                ELSE [child EXCEPT ![p[2]] = ChildRow(p[1], p[2], TRUE)]
    /\ UNCHANGED <<head, dbVars, pc, cancelled, source, latest, current, from, toLoad,
                    storeVars>>

\* The lookup of the rules or of the row, or the creation of the row, fails.
RegisterFails ==
    /\ pc = "register"
    /\ Batch # {}
    /\ ServeReturnsError
    /\ UNCHANGED <<head, dbVars, cancelled, source, storeVars, child>>

\* cloneFactoryRuleSubtree fails, or the process dies in it: the row stays.
CloneFails(p) ==
    /\ pc = "register"
    /\ NextDeployment(p)
    /\ IsFactory(p[1], p[2])
    /\ child[p[2]].state = "absent"
    /\ child' = [child EXCEPT ![p[2]] = ChildRow(p[1], p[2], FALSE)]
    /\ \/ ServeReturnsError
       \/ pc' = "dead" /\ Forget
    /\ UNCHANGED <<head, dbVars, cancelled, source, storeVars>>

\* InsertTransactions.
InsertTransactions ==
    /\ pc = "register"
    /\ todo = {}
    /\ txStored' = txStored \cup Batch
    /\ pc' = "cursor"
    /\ UNCHANGED <<head, dbVars, cancelled, source, loopVars, stored, child>>

InsertTransactionsFails ==
    /\ pc = "register"
    /\ todo = {}
    /\ Batch # {}
    /\ \E ls \in SUBSET Batch : txStored' = txStored \cup ls
    /\ ServeReturnsError
    /\ UNCHANGED <<head, dbVars, cancelled, source, stored, child>>

\* Mutant: the cursor is set to the head of the round instead of the window's end.
AdvanceCursorToHead ==
    /\ pc = "cursor"
    /\ source' = current
    /\ syncBlock' = current
    /\ from' = from + BlockRange
    /\ pc' = "window"
    /\ UNCHANGED <<head, status, cancelled, latest, current, toLoad, todo, storeVars, child>>

\* Mutant: the window does not move on (what a BlockRange of 0 does to the loop).
AdvanceCursorSameWindow ==
    /\ pc = "cursor"
    /\ source' = To
    /\ syncBlock' = To
    /\ pc' = "window"
    /\ UNCHANGED <<head, status, cancelled, latest, current, from, toLoad, todo, storeVars,
                    child>>

\* The cursor is set in memory, then in the row; the next window follows.
AdvanceCursor ==
    /\ pc = "cursor"
    /\ source' = To
    /\ syncBlock' = To
    /\ from' = from + BlockRange
    /\ pc' = "window"
    /\ UNCHANGED <<head, status, cancelled, latest, current, toLoad, todo, storeVars, child>>

\* The update of the row fails: the cursor has moved in memory only.
AdvanceCursorFails ==
    /\ pc = "cursor"
    /\ source' = To
    /\ ServeReturnsError
    /\ UNCHANGED <<head, dbVars, cancelled, storeVars, child>>

-----------------------------------------------------------------------------

\* What the worker does when nothing goes wrong.
WorkerStep ==
    \/ Serve
    \/ \E h \in 0 .. head : Poll(h)
    \/ FetchLogs
    \/ LoadBlockTimestamps
    \/ LoadTransactions
    \/ InsertLogs
    \/ \E p \in todo : RegisterFactoryChild(p)
    \/ InsertTransactions
    \/ AdvanceCursor
    \/ RoundDone
    \/ MarkStopped

\* What can go wrong.
Fault ==
    \/ Crash
    \/ CallFails
    \/ InsertLogsFails
    \/ RegisterFails
    \/ \E p \in todo : CloneFails(p)
    \/ InsertTransactionsFails
    \/ AdvanceCursorFails

Next == Mine \/ StartSource \/ Cancel \/ WorkerStep \/ Fault

Spec == Init /\ [][Next]_vars

\* Failures stop in the end, the process is then up, and a worker that can take
\* a step takes one: its goroutine is scheduled, its calls return, and the node
\* reports a head worth indexing when there is one.  Nobody has to enable a
\* disabled source again, and the chain need not grow.
Fairness ==
    /\ <>[][~Fault]_vars
    /\ WF_vars(pc = "dead" /\ StartSource)
    /\ WF_vars(WorkerStep)

FairSpec == Spec /\ Fairness

-----------------------------------------------------------------------------
(* Properties.                                                             *)

\* The block after which the source starts indexing.
First == IF InitSyncBlock < StartBlock THEN StartBlock ELSE InitSyncBlock

\* Log l is indexed: it and its transaction are stored, and every contract it
\* deploys has its source.
IsIndexed(l) ==
    /\ l \in stored
    /\ l \in txStored
    /\ \A a \in Deploys[l] : child[a].state # "absent"

Indexed(b) == \A l \in Log : First < l.block /\ l.block <= b => IsIndexed(l)

\* The sync_block column never runs ahead of the data: whatever failed, crashed
\* or was cancelled, in whatever order, the logs it covers are indexed.
IndexedUpToCursor == Indexed(syncBlock)

\* The source of a deployed contract starts before every log that announces it,
\* so no log the contract emits from its deployment on is missed, also when the
\* window is replayed or the deployment is announced twice.
ChildStartsBeforeDeployment ==
    \A l \in Log : First < l.block =>
        \A a \in Deploys[l] : child[a].state # "absent" => child[a].start < l.block

\* The sync_block column never moves backwards, not even when a lagging node
\* reports a head below the cursor or a worker restarts from an older copy.
CursorNeverRegresses == [][syncBlock' >= syncBlock]_syncBlock

\* The worker keeps the promise of LogSource that the exporter builds on.
Contract == INSTANCE LogSource WITH sync <- syncBlock
ImplementsLogSource == Contract!Spec

\* Unless the source is disabled, the logs BlockSlice or more below the head end
\* up in the store: no sequence of failures and restarts makes the loop skip one
\* or wait for ever.
EventuallyStored ==
    []<>(\/ pc = "off"
         \/ \A l \in Log : First < l.block /\ l.block + BlockSlice <= head =>
                l \in stored /\ l \in txStored)

\* registerFactoryChildren: "A failure must NOT advance the cursor: the error is
\* returned so the supervisor retries the range and re-attempts."  Behind the
\* cursor every child would then be complete, its nested rules included.
ChildrenCompleteBehindCursor ==
    \A l \in Log : First < l.block /\ l.block <= syncBlock =>
        \A a \in Deploys[l] : child[a].state = "ready"

=============================================================================
