---------------------------- MODULE SourceManager ----------------------------
(***************************************************************************)
(* The manager of the workers, internal/indexer/service.go, for one source *)
(* whose EnableSource and DisableSource arrive on several goroutines: the  *)
(* bus runs its handlers in the caller's goroutine, and requests and       *)
(* factory workers emit at any time.  The mutex guards the maps only; the  *)
(* row is read and written, and the old worker waited for, outside it.     *)
(*                                                                         *)
(* A worker is SourceIndexer with its windows reduced to what they do to   *)
(* the row.                                                                *)
(***************************************************************************)
EXTENDS Naturals, FiniteSets

CONSTANTS
    Caller,      \* goroutines that enable and disable the source
    MaxWorkers,  \* bound: the services that can ever be made for it
    MaxBlock     \* bound: the height at which the modelled chain ends

ASSUME ManagerAssumption == MaxWorkers \in Nat /\ MaxBlock \in Nat

\* Services, in the order they are made, and the absence of one.
Worker == 1 .. MaxWorkers
NoWorker == 0

VARIABLES
    up,         \* the process runs
    enabled,    \* the enabled column
    status,     \* the status column
    syncBlock,  \* the sync_block column
    entry,      \* the service in sourceIndexers and sourceIdToServiceId
    step,       \* step[c]: where caller c is in its handler
    snap,       \* snap[c]: sync_block of the row EnableSource has read
    token,      \* token[c]: the service DisableSource has taken from the map
    state,      \* state[w]: where worker w is
    cursor,     \* cursor[w]: SyncBlock of its copy of the row
    target,     \* target[w]: the end of its window
    cancelled   \* workers the supervisor has been told to remove

rowVars == <<enabled, status, syncBlock>>
callVars == <<step, snap, token>>
workerVars == <<state, cursor, target, cancelled>>
vars == <<up, enabled, status, syncBlock, entry, step, snap, token, state, cursor, target,
          cancelled>>

\* The steps of the two handlers; a caller is idle between two calls.
Step == {"idle", "enableUpdate", "enableStart",
         "disableUpdate", "disableTake", "disableRemove", "disableWait", "disableStatus"}

\* A worker is not made yet, at the head of Serve, between two windows, in one,
\* or has returned for good.
State == {"new", "serve", "loop", "window", "gone"}

TypeOK ==
    /\ up \in BOOLEAN
    /\ enabled \in BOOLEAN /\ status \in {"RUNNING", "STOPPED"} /\ syncBlock \in Nat
    /\ entry \in Worker \cup {NoWorker}
    /\ step \in [Caller -> Step]
    /\ snap \in [Caller -> Nat]
    /\ token \in [Caller -> Worker \cup {NoWorker}]
    /\ state \in [Worker -> State]
    /\ cursor \in [Worker -> Nat] /\ target \in [Worker -> Nat]
    /\ cancelled \subseteq Worker

Live == {w \in Worker : state[w] \notin {"new", "gone"}}

Init ==
    /\ up = FALSE
    /\ enabled \in BOOLEAN /\ status = "STOPPED" /\ syncBlock = 0
    /\ entry = NoWorker
    /\ step = [c \in Caller |-> "idle"]
    /\ snap = [c \in Caller |-> 0]
    /\ token = [c \in Caller |-> NoWorker]
    /\ state = [w \in Worker |-> "new"]
    /\ cursor = [w \in Worker |-> 0] /\ target = [w \in Worker |-> 0]
    /\ cancelled = {}

-----------------------------------------------------------------------------

\* Worker w is made from a row whose sync_block is b, and entered in the maps.
NewService(w, b) ==
    /\ state[w] = "new"
    /\ \A v \in Worker : v < w => state[v] # "new"
    /\ state' = [state EXCEPT ![w] = "serve"]
    /\ cursor' = [cursor EXCEPT ![w] = b]
    /\ entry' = w
    /\ UNCHANGED <<target, cancelled>>

\* Start: the workers of the enabled sources are made before anyone can call.
Start ==
    /\ ~up
    /\ up' = TRUE
    /\ IF enabled
       THEN \E w \in Worker : NewService(w, syncBlock)
       ELSE UNCHANGED <<entry, workerVars>>
    /\ UNCHANGED <<rowVars, callVars>>

\* The process dies.
Crash ==
    /\ up
    /\ up' = FALSE
    /\ entry' = NoWorker
    /\ step' = [c \in Caller |-> "idle"]
    /\ snap' = [c \in Caller |-> 0]
    /\ token' = [c \in Caller |-> NoWorker]
    /\ state' = [w \in Worker |-> IF w \in Live THEN "gone" ELSE state[w]]
    /\ target' = [w \in Worker |-> 0]
    /\ UNCHANGED <<rowVars, cursor, cancelled>>

\* Caller c goes from one step of its handler to another.
Goes(c, from, to) ==
    /\ up
    /\ step[c] = from
    /\ step' = [step EXCEPT ![c] = to]

-----------------------------------------------------------------------------
(* EnableSource.                                                           *)

EnableReads(c) ==
    /\ Goes(c, "idle", "enableUpdate")
    /\ snap' = [snap EXCEPT ![c] = syncBlock]
    /\ UNCHANGED <<up, rowVars, entry, token, workerVars>>

EnableUpdates(c) ==
    /\ Goes(c, "enableUpdate", "enableStart")
    /\ enabled' = TRUE /\ status' = "STOPPED"
    /\ UNCHANGED <<up, syncBlock, entry, snap, token, workerVars>>

\* Mutant: startSource does not look whether the source has a service.
StartSourceAlways(c) ==
    /\ Goes(c, "enableStart", "idle")
    /\ \E w \in Worker : NewService(w, snap[c])
    /\ snap' = [snap EXCEPT ![c] = 0]
    /\ UNCHANGED <<up, rowVars, token>>

\* startSource, under the mutex: nothing if the source has a service.
StartSource(c) ==
    /\ Goes(c, "enableStart", "idle")
    /\ IF entry = NoWorker
       THEN \E w \in Worker : NewService(w, snap[c])
       ELSE UNCHANGED <<entry, workerVars>>
    /\ snap' = [snap EXCEPT ![c] = 0]
    /\ UNCHANGED <<up, rowVars, token>>

-----------------------------------------------------------------------------
(* DisableSource.                                                          *)

DisableReads(c) ==
    /\ Goes(c, "idle", "disableUpdate")
    /\ UNCHANGED <<up, rowVars, entry, snap, token, workerVars>>

DisableUpdates(c) ==
    /\ Goes(c, "disableUpdate", "disableTake")
    /\ enabled' = FALSE
    /\ UNCHANGED <<up, status, syncBlock, entry, snap, token, workerVars>>

\* Mutant: the source may have no service, and the missing token is used.
DisableTakesAnything(c) ==
    /\ Goes(c, "disableTake", "disableRemove")
    /\ token' = [token EXCEPT ![c] = entry]
    /\ entry' = NoWorker
    /\ UNCHANGED <<up, rowVars, snap, workerVars>>

\* Mutant: the maps keep the service until it has ended.
DisableTakesLate(c) ==
    /\ Goes(c, "disableTake", IF entry = NoWorker THEN "idle" ELSE "disableRemove")
    /\ token' = [token EXCEPT ![c] = entry]
    /\ UNCHANGED <<up, rowVars, entry, snap, workerVars>>

\* Under the mutex, the service is taken out of the maps, if there is one.
DisableTakes(c) ==
    /\ Goes(c, "disableTake", IF entry = NoWorker THEN "idle" ELSE "disableRemove")
    /\ token' = [token EXCEPT ![c] = entry]
    /\ entry' = NoWorker
    /\ UNCHANGED <<up, rowVars, snap, workerVars>>

\* RemoveAndWait: the supervisor cancels the worker ...
DisableRemoves(c) ==
    /\ Goes(c, "disableRemove", "disableWait")
    /\ cancelled' = cancelled \cup {token[c]}
    /\ token' = [token EXCEPT ![c] = NoWorker]
    /\ UNCHANGED <<up, rowVars, entry, snap, state, cursor, target>>

\* ... and the caller waits until it is gone, for a minute at most.
DisableWaits(c) ==
    /\ Goes(c, "disableWait", "disableStatus")
    /\ UNCHANGED <<up, rowVars, entry, snap, token, workerVars>>

DisableUpdatesStatus(c) ==
    /\ Goes(c, "disableStatus", "idle")
    /\ status' = "STOPPED"
    /\ UNCHANGED <<up, enabled, syncBlock, entry, snap, token, workerVars>>

\* The row cannot be read or written: the handler returns the error.
CallFails(c) ==
    /\ step[c] \in {"enableUpdate", "disableUpdate", "disableStatus"}
    /\ Goes(c, step[c], "idle")
    /\ snap' = [snap EXCEPT ![c] = 0]
    /\ UNCHANGED <<up, rowVars, entry, token, workerVars>>

-----------------------------------------------------------------------------
(* A worker.                                                               *)

Moves(w, from, to) ==
    /\ state[w] = from
    /\ state' = [state EXCEPT ![w] = to]

WorkerServes(w) ==
    /\ Moves(w, "serve", "loop")
    /\ status' = "RUNNING"
    /\ UNCHANGED <<up, enabled, syncBlock, entry, callVars, cursor, target, cancelled>>

\* Mutant: the context is not looked at between two windows.
WorkerOpensAlways(w) ==
    /\ Moves(w, "loop", "window")
    /\ \E b \in 1 .. MaxBlock : target' = [target EXCEPT ![w] = b]
    /\ UNCHANGED <<up, rowVars, entry, callVars, cursor, cancelled>>

\* A window is begun; cancellation is not looked at until its end.
WorkerOpensWindow(w) ==
    /\ w \notin cancelled
    /\ Moves(w, "loop", "window")
    /\ \E b \in cursor[w] + 1 .. MaxBlock : target' = [target EXCEPT ![w] = b]
    /\ UNCHANGED <<up, rowVars, entry, callVars, cursor, cancelled>>

WorkerWritesCursor(w) ==
    /\ Moves(w, "window", "loop")
    /\ cursor' = [cursor EXCEPT ![w] = target[w]]
    /\ syncBlock' = target[w]
    /\ target' = [target EXCEPT ![w] = 0]
    /\ UNCHANGED <<up, enabled, status, entry, callVars, cancelled>>

\* markStopped, whose write may fail.
WorkerStops(w) ==
    /\ w \in cancelled
    /\ Moves(w, "loop", "gone")
    /\ status' \in {"STOPPED", status}
    /\ UNCHANGED <<up, enabled, syncBlock, entry, callVars, cursor, target, cancelled>>

\* Serve returns an error: before or in a window, or at its end, when the cursor
\* is already set in memory.
WorkerFails(w) ==
    /\ state[w] \in {"serve", "loop", "window"}
    /\ Moves(w, state[w], IF w \in cancelled THEN "gone" ELSE "serve")
    /\ \/ cursor' = cursor
       \/ state[w] = "window" /\ cursor' = [cursor EXCEPT ![w] = target[w]]
    /\ target' = [target EXCEPT ![w] = 0]
    /\ UNCHANGED <<up, rowVars, entry, callVars, cancelled>>

-----------------------------------------------------------------------------

Call(c) ==
    \/ EnableUpdates(c) \/ StartSource(c)
    \/ DisableUpdates(c) \/ DisableTakes(c) \/ DisableRemoves(c) \/ DisableWaits(c)
    \/ DisableUpdatesStatus(c)

Work(w) ==
    \/ WorkerServes(w) \/ WorkerOpensWindow(w) \/ WorkerWritesCursor(w) \/ WorkerStops(w)

Next ==
    \/ Start \/ Crash
    \/ \E c \in Caller : EnableReads(c) \/ DisableReads(c) \/ Call(c) \/ CallFails(c)
    \/ \E w \in Worker : Work(w) \/ WorkerFails(w)

Spec == Init /\ [][Next]_vars

\* Goroutines are scheduled and calls return: a handler that was entered goes on,
\* and so does a worker.
Fairness ==
    /\ \A c \in Caller : WF_vars(Call(c))
    /\ \A w \in Worker : WF_vars(Work(w))

FairSpec == Spec /\ Fairness

-----------------------------------------------------------------------------
(* Properties.                                                             *)

\* Caller c is about to have worker w removed.
Holds(c, w) == step[c] = "disableRemove" /\ token[c] = w

\* No worker is lost: one that still runs is in the maps, where a later
\* DisableSource finds it, or has been cancelled, or is about to be.
NoOrphanWorker ==
    \A w \in Live : w = entry \/ w \in cancelled \/ \E c \in Caller : Holds(c, w)

\* What the maps hold is a service that runs and has not been told to stop: an
\* EnableSource that finds one there and returns has not found a dying worker.
EntryIsServed ==
    entry # NoWorker => entry \in Live /\ entry \notin cancelled

\* A source that DisableSource takes out of the maps is stopped in the end, in
\* whatever window or restart it was, also when RemoveAndWait stops waiting.
RemovedWorkersEnd ==
    \A w \in Worker : (\E c \in Caller : Holds(c, w)) ~> w \notin Live

-----------------------------------------------------------------------------
(* What the documents say and the code does not do: TLC refutes each of     *)
(* these when it is added to a run.                                        *)

\* startSource: "this takes it and dedupes so a source is started at most once."
StartedAtMostOnce == Cardinality(Live) <= 1

=============================================================================
