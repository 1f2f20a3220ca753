--------------------------- MODULE ExporterManager ---------------------------
(***************************************************************************)
(* The manager of the runners, internal/exporter/service.go, and the       *)
(* requests that reach it, internal/grpc/exporter-handlers.go, for one     *)
(* exporter.  The requests run on goroutines of their own; the bus runs    *)
(* EnableExporter and DisableExporter in the goroutine of the request, and *)
(* reports no error back, so a request learns the outcome from the status  *)
(* column.  The manager's mutex is held from the first read to the last    *)
(* write, the wait for the old runner included; create, update and delete  *)
(* do not take it.                                                         *)
(*                                                                         *)
(* The status column, which Exporter follows, decides nothing here except  *)
(* how long a request polls, and that is left open.                        *)
(*                                                                         *)
(* A runner is the one of Exporter, with a range reduced to the calls of   *)
(* the plugin, which may take any time.                                    *)
(***************************************************************************)
EXTENDS Naturals, FiniteSets

CONSTANTS
    Client,     \* goroutines that serve requests
    NoClient,   \* the mutex is free
    Polls,      \* how often a request looks at the status, 10 in the code
    MaxRunners  \* bound: the services that exist at a time

ASSUME ExporterManagerAssumption ==
    NoClient \notin Client /\ Polls \in Nat /\ MaxRunners \in Nat

\* A service takes a free place among these; the maps hold one or none.
Runner == 1 .. MaxRunners
NoRunner == 0

VARIABLES
    up,         \* the process serves requests
    row,        \* whether the exporter's row exists, or is deleted
    enabled,    \* its enabled column
    mu,         \* who holds the mutex
    entry,      \* the service in exporterServices and exporterIdToServiceId
    step,       \* step[c]: where request c is
    polls,      \* polls[c]: how often it has looked at the status
    edit,       \* the row an unfinished UpdateEvmiExporter will save
    state,      \* state[r]: where runner r is
    cancelled,  \* runners the supervisor has been told to remove
    abandoned   \* history: those RemoveAndWait has given up on

rowVars == <<row, enabled>>
clientVars == <<step, polls>>
runnerVars == <<state, cancelled, abandoned>>
vars == <<up, row, enabled, mu, entry, step, polls, edit, state, cancelled, abandoned>>

EnableStep == {"enableLock", "enableCheck", "enableUpdate"}
DisableStep == {"disableLock", "disableCheck", "disableUpdate", "disableWait", "disableStatus"}
Locked == {"enableCheck", "enableUpdate",
           "disableCheck", "disableUpdate", "disableWait", "disableStatus"}
Step == {"idle", "pollRunning", "pollStopped"} \cup EnableStep \cup DisableStep

\* A place is free, or its runner is at the head of Serve, between two ranges,
\* or in one.
State == {"free", "serve", "loop", "range"}

TypeOK ==
    /\ up \in BOOLEAN
    /\ row \in {"none", "live", "deleted"} /\ enabled \in BOOLEAN
    /\ mu \in Client \cup {NoClient}
    /\ entry \in Runner \cup {NoRunner}
    /\ step \in [Client -> Step] /\ polls \in [Client -> 0 .. Polls]
    /\ edit \in [open : BOOLEAN, enabled : BOOLEAN]
    /\ state \in [Runner -> State]
    /\ cancelled \subseteq Runner /\ abandoned \subseteq cancelled

Live == {r \in Runner : state[r] # "free"}

NoEdit == [open |-> FALSE, enabled |-> FALSE]

Init ==
    /\ up = FALSE
    /\ row = "none" /\ enabled = FALSE
    /\ mu = NoClient
    /\ entry = NoRunner
    /\ step = [c \in Client |-> "idle"]
    /\ polls = [c \in Client |-> 0]
    /\ edit = NoEdit
    /\ state = [r \in Runner |-> "free"]
    /\ cancelled = {} /\ abandoned = {}

-----------------------------------------------------------------------------

\* Mutant: a runner is supervised that the maps do not know.
NewServiceNotRecorded(r) ==
    /\ r \notin Live
    /\ state' = [state EXCEPT ![r] = "serve"]
    /\ UNCHANGED <<entry, cancelled, abandoned>>

\* startExporter: a service in a free place, entered in the maps.
NewService(r) ==
    /\ r \notin Live
    /\ state' = [state EXCEPT ![r] = "serve"]
    /\ entry' = r
    /\ cancelled' = cancelled \ {r} /\ abandoned' = abandoned \ {r}

\* Start, before requests are served.
Start ==
    /\ ~up
    /\ up' = TRUE
    /\ IF row = "live" /\ enabled
       THEN \E r \in Runner : NewService(r)
       ELSE UNCHANGED <<entry, runnerVars>>
    /\ UNCHANGED <<rowVars, mu, clientVars, edit>>

\* The process dies.
Crash ==
    /\ up
    /\ up' = FALSE
    /\ mu' = NoClient /\ entry' = NoRunner
    /\ step' = [c \in Client |-> "idle"]
    /\ polls' = [c \in Client |-> 0]
    /\ edit' = NoEdit
    /\ state' = [r \in Runner |-> "free"]
    /\ cancelled' = {} /\ abandoned' = {}
    /\ UNCHANGED rowVars

\* Request c goes from one step to another.
Goes(c, from, to) ==
    /\ up
    /\ step[c] = from
    /\ step' = [step EXCEPT ![c] = to]

-----------------------------------------------------------------------------
(* Requests that only touch the row.  One whose configuration the plugin's *)
(* schema refuses changes nothing.                                         *)

CreateEvmiExporter ==
    /\ up
    /\ row = "none"
    /\ row' = "live" /\ enabled' \in BOOLEAN
    /\ UNCHANGED <<up, mu, entry, clientVars, edit, runnerVars>>

\* The row is marked deleted; its runner is not told.
DeleteEvmiExporter ==
    /\ up
    /\ row = "live"
    /\ row' = "deleted"
    /\ UNCHANGED <<up, enabled, mu, entry, clientVars, edit, runnerVars>>

\* UpdateEvmiExporter, one at a time: the row is read ...
UpdateReads ==
    /\ up
    /\ row = "live"
    /\ ~edit.open
    /\ \E on \in BOOLEAN : edit' = [open |-> TRUE, enabled |-> on]
    /\ UNCHANGED <<up, rowVars, mu, entry, clientVars, runnerVars>>

\* ... and every column written back, into a new row if it was deleted meanwhile.
UpdateSaves ==
    /\ edit.open
    /\ row' = "live"
    /\ enabled' = edit.enabled
    /\ edit' = NoEdit
    /\ UNCHANGED <<up, mu, entry, clientVars, runnerVars>>

\* The configuration is refused, or the row cannot be saved.
UpdateFails ==
    /\ edit.open
    /\ edit' = NoEdit
    /\ UNCHANGED <<up, rowVars, mu, entry, clientVars, runnerVars>>

-----------------------------------------------------------------------------
(* StartExporter and EnableExporter.                                       *)

\* The update of a column of a deleted row changes nothing and is no error.
SetsEnabled(on) == enabled' = IF row = "live" THEN on ELSE enabled

\* The request finds the row and emits the event.  The guard is a bound: there is
\* a place for every service that requests under way may start.
StartExporter(c) ==
    /\ row = "live"
    /\ Cardinality(Runner \ Live) > Cardinality({d \in Client : step[d] \in EnableStep})
    /\ Goes(c, "idle", "enableLock")
    /\ UNCHANGED <<up, rowVars, mu, entry, polls, edit, runnerVars>>

EnableLocks(c) ==
    /\ mu = NoClient
    /\ Goes(c, "enableLock", "enableCheck")
    /\ mu' = c
    /\ UNCHANGED <<up, rowVars, entry, polls, edit, runnerVars>>

\* The event handler returns: the mutex is free, and the request starts polling.
Returns(c, from, to) ==
    /\ Goes(c, from, to)
    /\ mu' = NoClient

\* Mutant: the return for a running exporter keeps the mutex.
EnableChecksKeepsLock(c) ==
    /\ IF row = "live" /\ entry = NoRunner
       THEN Goes(c, "enableCheck", "enableUpdate") /\ mu' = mu
       ELSE Goes(c, "enableCheck", "pollRunning") /\ mu' = mu
    /\ UNCHANGED <<up, rowVars, entry, polls, edit, runnerVars>>

\* The row is not found, or the exporter is already running.
EnableChecks(c) ==
    /\ IF row = "live" /\ entry = NoRunner
       THEN Goes(c, "enableCheck", "enableUpdate") /\ mu' = mu
       ELSE Returns(c, "enableCheck", "pollRunning")
    /\ UNCHANGED <<up, rowVars, entry, polls, edit, runnerVars>>

EnableUpdates(c) ==
    /\ Returns(c, "enableUpdate", "pollRunning")
    /\ SetsEnabled(TRUE)
    /\ \E r \in Runner : NewService(r)
    /\ UNCHANGED <<up, row, polls, edit>>

-----------------------------------------------------------------------------
(* StopExporter and DisableExporter.                                       *)

StopExporter(c) ==
    /\ row = "live"
    /\ Goes(c, "idle", "disableLock")
    /\ UNCHANGED <<up, rowVars, mu, entry, polls, edit, runnerVars>>

DisableLocks(c) ==
    /\ mu = NoClient
    /\ Goes(c, "disableLock", "disableCheck")
    /\ mu' = c
    /\ UNCHANGED <<up, rowVars, entry, polls, edit, runnerVars>>

\* The row is not found, or the exporter is already stopped.
DisableChecks(c) ==
    /\ IF row = "live" /\ entry # NoRunner
       THEN Goes(c, "disableCheck", "disableUpdate") /\ mu' = mu
       ELSE Returns(c, "disableCheck", "pollStopped")
    /\ UNCHANGED <<up, rowVars, entry, polls, edit, runnerVars>>

\* Mutant: the maps are cleared and the mutex is given up for the wait.
DisableUpdatesUnlocks(c) ==
    /\ Goes(c, "disableUpdate", "disableWait")
    /\ SetsEnabled(FALSE)
    /\ cancelled' = cancelled \cup {entry}
    /\ entry' = NoRunner /\ mu' = NoClient
    /\ UNCHANGED <<up, row, polls, edit, state, abandoned>>

\* The row is updated and the supervisor told to remove the service.
DisableUpdates(c) ==
    /\ Goes(c, "disableUpdate", "disableWait")
    /\ SetsEnabled(FALSE)
    /\ cancelled' = cancelled \cup {entry}
    /\ UNCHANGED <<up, row, mu, entry, polls, edit, state, abandoned>>

\* RemoveAndWait: the runner has ended ...
WaitEnds(c) ==
    /\ entry \notin Live
    /\ Goes(c, "disableWait", "disableStatus")
    /\ UNCHANGED <<up, rowVars, mu, entry, polls, edit, runnerVars>>

\* ... or a minute is over.
WaitTimesOut(c) ==
    /\ entry \in Live
    /\ Goes(c, "disableWait", "disableStatus")
    /\ abandoned' = abandoned \cup {entry}
    /\ UNCHANGED <<up, rowVars, mu, entry, polls, edit, state, cancelled>>

\* The status is written, and only then the maps are cleared.
DisableWritesStatus(c) ==
    /\ Returns(c, "disableStatus", "pollStopped")
    /\ entry' = NoRunner
    /\ UNCHANGED <<up, rowVars, polls, edit, runnerVars>>

-----------------------------------------------------------------------------

\* A read or a write of EnableExporter or DisableExporter fails: it returns, and
\* the maps stay as they are.
HandlerFails(c) ==
    /\ step[c] \in Locked \ {"disableWait"}
    /\ Returns(c, step[c], IF step[c] \in EnableStep THEN "pollRunning" ELSE "pollStopped")
    /\ UNCHANGED <<up, rowVars, entry, polls, edit, runnerVars>>

\* Mutant: the count of looks is compared too late.
RequestPollsTooLong(c) ==
    /\ step[c] \in {"pollRunning", "pollStopped"}
    /\ LET over == row # "live" \/ polls[c] > Polls IN
        /\ Goes(c, step[c], IF over THEN "idle" ELSE step[c])
        /\ polls' = [polls EXCEPT ![c] = IF over THEN 0 ELSE polls[c] + 1]
    /\ UNCHANGED <<up, rowVars, mu, entry, edit, runnerVars>>

\* A look at the row, once a second: the request is over when the row is gone,
\* when the status is the one it waits for, and after the last look.
RequestPolls(c) ==
    /\ step[c] \in {"pollRunning", "pollStopped"}
    /\ \E seen \in BOOLEAN :
        LET over == row # "live" \/ seen \/ polls[c] + 1 >= Polls IN
        /\ Goes(c, step[c], IF over THEN "idle" ELSE step[c])
        /\ polls' = [polls EXCEPT ![c] = IF over THEN 0 ELSE polls[c] + 1]
    /\ UNCHANGED <<up, rowVars, mu, entry, edit, runnerVars>>

\* The row cannot be read or saved.
RequestFails(c) ==
    /\ step[c] \in {"pollRunning", "pollStopped"}
    /\ Goes(c, step[c], "idle")
    /\ polls' = [polls EXCEPT ![c] = 0]
    /\ UNCHANGED <<up, rowVars, mu, entry, edit, runnerVars>>

-----------------------------------------------------------------------------
(* A runner.                                                               *)

Moves(r, from, to) ==
    /\ state[r] = from
    /\ state' = [state EXCEPT ![r] = to]
    /\ UNCHANGED <<up, row, enabled, mu, entry, clientVars, edit, cancelled, abandoned>>

\* Serve finds the row, the store and the plugin.
RunnerServes(r) ==
    /\ row = "live"
    /\ Moves(r, "serve", "loop")

RunnerEntersRange(r) ==
    /\ r \notin cancelled
    /\ Moves(r, "loop", "range")

\* Every NewLogEvent of the range has returned.
RunnerEndsRange(r) ==
    /\ Moves(r, "range", "loop")

RunnerStops(r) ==
    /\ r \in cancelled
    /\ Moves(r, "loop", "free")

\* Serve returns an error and is called again, unless the service is removed.
RunnerFails(r) ==
    /\ r \in Live
    /\ Moves(r, state[r], IF r \in cancelled THEN "free" ELSE "serve")

-----------------------------------------------------------------------------

\* What a request does once it is under way and waits for no mutex.
Proceed(c) ==
    \/ EnableChecks(c) \/ EnableUpdates(c)
    \/ DisableChecks(c) \/ DisableUpdates(c) \/ WaitEnds(c) \/ WaitTimesOut(c)
    \/ DisableWritesStatus(c)
    \/ RequestPolls(c)

Next ==
    \/ Start \/ Crash
    \/ CreateEvmiExporter \/ DeleteEvmiExporter
    \/ UpdateReads \/ UpdateSaves \/ UpdateFails
    \/ \E c \in Client :
        \/ StartExporter(c) \/ StopExporter(c)
        \/ EnableLocks(c) \/ DisableLocks(c)
        \/ Proceed(c)
        \/ HandlerFails(c) \/ RequestFails(c)
    \/ \E r \in Runner :
        \/ RunnerServes(r) \/ RunnerEntersRange(r) \/ RunnerEndsRange(r)
        \/ RunnerStops(r) \/ RunnerFails(r)

Spec == Init /\ [][Next]_vars

\* Goroutines are scheduled, RemoveAndWait has its time limit, and a mutex of Go
\* lets everyone in who waits.  Nothing is assumed of the plugin.
Fairness ==
    \A c \in Client :
        /\ WF_vars(Proceed(c))
        /\ SF_vars(EnableLocks(c)) /\ SF_vars(DisableLocks(c))

FairSpec == Spec /\ Fairness

-----------------------------------------------------------------------------
(* Properties.                                                             *)

\* Two runners of the exporter exist at once only when RemoveAndWait has given up
\* on the first: not across failed writes, edits, deletion and concurrent requests.
OneSerialRunner == Cardinality(Live \ abandoned) <= 1

\* No runner is lost: one that has not been told to end is the one in the maps,
\* where the next DisableExporter finds it.
NoLostRunner == Live \ cancelled \subseteq {entry}

\* Every request comes to its end, although the manager keeps its mutex while it
\* waits for a runner whose plugin may never return.
EveryRequestReturns == \A c \in Client : step[c] # "idle" ~> step[c] = "idle"

=============================================================================
