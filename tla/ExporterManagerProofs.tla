------------------------ MODULE ExporterManagerProofs ------------------------
(***************************************************************************)
(* Proofs about ExporterManager, for any number of requests and places.    *)
(*                                                                         *)
(* Both safety properties come from one fact: a runner on which            *)
(* RemoveAndWait has not given up is the one in the maps.  It is inductive *)
(* together with what the mutex protects: between the check of             *)
(* EnableExporter and its new service the maps stay empty, and between the *)
(* removal of DisableExporter and the clearing of the maps the entry stays *)
(* the service that was removed, which by then has ended or been given up. *)
(***************************************************************************)
EXTENDS ExporterManager, FiniteSetTheorems, TLAPS

\* The mutex is held by the request that is inside, and by none when nothing is up.
MutexInv ==
    /\ ~up => entry = NoRunner /\ Live = {} /\ \A c \in Client : step[c] = "idle"
    /\ \A c \in Client : step[c] \in Locked => mu = c

\* What a request inside may rely on.
EntryInv ==
    \A c \in Client :
        /\ step[c] = "enableUpdate" => entry = NoRunner
        /\ step[c] = "disableUpdate" => entry \in Runner
        /\ step[c] \in {"disableWait", "disableStatus"} => entry \in cancelled
        /\ step[c] = "disableStatus" => entry \notin Live \ abandoned

RunnerInv == Live \ abandoned \subseteq {entry}

IInv == TypeOK /\ MutexInv /\ EntryInv /\ RunnerInv

-----------------------------------------------------------------------------

\* The initial state satisfies the invariant.
LEMMA InitIInv == ASSUME ExporterManagerAssumption, Init PROVE IInv
<1>1. TypeOK
  <2>1. edit \in [open : BOOLEAN, enabled : BOOLEAN]
    BY DEF Init, NoEdit
  <2>2. step \in [Client -> Step] /\ polls \in [Client -> 0 .. Polls]
    BY DEF Init, Step, ExporterManagerAssumption
  <2>3. QED
    BY <2>1, <2>2 DEF Init, TypeOK, State
<1>2. Live = {}
    BY DEF Init, Live
<1>3. MutexInv /\ EntryInv /\ RunnerInv
    BY <1>2 DEF Init, MutexInv, EntryInv, RunnerInv, Locked
<1>4. QED
    BY <1>1, <1>3 DEF IInv

\* A service that is made while the maps are empty becomes their entry.
LEMMA NewServiceKeeps ==
    ASSUME ExporterManagerAssumption, IInv, entry = NoRunner, NEW r \in Runner, NewService(r)
    PROVE  /\ state' \in [Runner -> State] /\ entry' \in Runner
           /\ cancelled' \subseteq Runner /\ abandoned' \subseteq cancelled'
           /\ RunnerInv'
<1>1. /\ r \notin Live /\ state' = [state EXCEPT ![r] = "serve"] /\ entry' = r
      /\ cancelled' = cancelled \ {r} /\ abandoned' = abandoned \ {r}
    BY DEF NewService
<1>2. entry \notin Runner
    BY DEF Runner, NoRunner, ExporterManagerAssumption
<1>3. Live \subseteq abandoned
    BY <1>2 DEF IInv, RunnerInv, Live
<1>4. \A q \in Runner : q # r => state'[q] = state[q]
    BY <1>1 DEF IInv, TypeOK
<1>5. Live' \subseteq Live \cup {r}
    BY <1>4 DEF Live
<1>6. QED
    BY <1>1, <1>3, <1>5 DEF IInv, TypeOK, State, RunnerInv

\* Start keeps the invariant.
LEMMA StartKeeps == ASSUME ExporterManagerAssumption, IInv, Start PROVE IInv'
<1>1. /\ ~up /\ up' = TRUE /\ entry = NoRunner /\ Live = {}
      /\ UNCHANGED <<row, enabled, mu, step, polls, edit>>
      /\ \A c \in Client : step[c] = "idle"
    BY DEF Start, IInv, MutexInv, rowVars, clientVars
<1>2. /\ state' \in [Runner -> State] /\ entry' \in Runner \cup {NoRunner}
      /\ cancelled' \subseteq Runner /\ abandoned' \subseteq cancelled'
      /\ RunnerInv'
  <2>1. CASE row = "live" /\ enabled
    <3>1. PICK r \in Runner : NewService(r)
        BY <2>1 DEF Start
    <3>2. QED
        BY <1>1, <3>1, NewServiceKeeps
  <2>2. CASE ~(row = "live" /\ enabled)
    <3>1. UNCHANGED <<entry, state, cancelled, abandoned>>
        BY <2>2 DEF Start, runnerVars
    <3>2. QED
        BY <1>1, <3>1 DEF IInv, TypeOK, RunnerInv, Live
  <2>3. QED
    BY <2>1, <2>2
<1>3. TypeOK'
    BY <1>1, <1>2 DEF IInv, TypeOK
<1>4. MutexInv' /\ EntryInv'
    BY <1>1 DEF MutexInv, EntryInv, Locked
<1>5. QED
    BY <1>2, <1>3, <1>4 DEF IInv

\* A crash leaves nothing behind.
LEMMA CrashKeeps == ASSUME ExporterManagerAssumption, IInv, Crash PROVE IInv'
<1>1. TypeOK'
  <2>1. edit' \in [open : BOOLEAN, enabled : BOOLEAN]
    BY DEF Crash, NoEdit
  <2>2. step' \in [Client -> Step] /\ polls' \in [Client -> 0 .. Polls]
    BY DEF Crash, Step, ExporterManagerAssumption
  <2>3. QED
    BY <2>1, <2>2 DEF Crash, IInv, TypeOK, State, rowVars
<1>2. Live' = {}
    BY DEF Crash, Live
<1>3. MutexInv' /\ EntryInv' /\ RunnerInv'
    BY <1>2 DEF Crash, MutexInv, EntryInv, RunnerInv, Locked
<1>4. QED
    BY <1>1, <1>3 DEF IInv

\* Requests that touch the row alone keep the invariant.
LEMMA RowKeeps ==
    ASSUME ExporterManagerAssumption, IInv,
           CreateEvmiExporter \/ DeleteEvmiExporter \/ UpdateReads \/ UpdateSaves \/ UpdateFails
    PROVE  IInv'
<1>1. UNCHANGED <<up, mu, entry, step, polls, state, cancelled, abandoned>>
    BY DEF CreateEvmiExporter, DeleteEvmiExporter, UpdateReads, UpdateSaves, UpdateFails,
       clientVars, runnerVars
<1>2. row' \in {"none", "live", "deleted"} /\ enabled' \in BOOLEAN
    BY DEF CreateEvmiExporter, DeleteEvmiExporter, UpdateReads, UpdateSaves, UpdateFails,
       IInv, TypeOK, rowVars
<1>3. edit' \in [open : BOOLEAN, enabled : BOOLEAN]
  <2>1. CASE CreateEvmiExporter \/ DeleteEvmiExporter
    BY <2>1 DEF CreateEvmiExporter, DeleteEvmiExporter, IInv, TypeOK
  <2>2. CASE UpdateReads
    <3>1. PICK on \in BOOLEAN : edit' = [open |-> TRUE, enabled |-> on]
        BY <2>2 DEF UpdateReads
    <3>2. [open |-> TRUE, enabled |-> TRUE] \in [open : BOOLEAN, enabled : BOOLEAN]
        OBVIOUS
    <3>3. [open |-> TRUE, enabled |-> FALSE] \in [open : BOOLEAN, enabled : BOOLEAN]
        OBVIOUS
    <3>4. on = TRUE \/ on = FALSE
        OBVIOUS
    <3>5. CASE on = TRUE
        BY <3>1, <3>2, <3>5, Zenon
    <3>6. CASE on = FALSE
        BY <3>1, <3>3, <3>6, Zenon
    <3>7. QED
        BY <3>4, <3>5, <3>6
  <2>3. CASE UpdateSaves \/ UpdateFails
    <3>1. edit' = NoEdit
        BY <2>3 DEF UpdateSaves, UpdateFails
    <3>2. NoEdit \in [open : BOOLEAN, enabled : BOOLEAN]
        BY DEF NoEdit
    <3>3. QED
        BY <3>1, <3>2, Zenon
  <2>4. QED
    BY <2>1, <2>2, <2>3
<1>4. TypeOK'
    BY <1>1, <1>2, <1>3 DEF IInv, TypeOK
<1>5. MutexInv' /\ EntryInv' /\ RunnerInv'
    BY <1>1 DEF IInv, MutexInv, EntryInv, RunnerInv, Live
<1>6. QED
    BY <1>4, <1>5 DEF IInv

-----------------------------------------------------------------------------

\* A step of request c to "to" that leaves the maps and the runners alone keeps the
\* invariant if c has the mutex when it is inside, and what it relies on holds.
LEMMA StepKeeps ==
    ASSUME ExporterManagerAssumption, IInv, NEW c \in Client, NEW from \in Step, NEW to \in Step,
           Goes(c, from, to),
           UNCHANGED <<up, row, edit, entry, state, cancelled, abandoned>>,
           enabled' \in BOOLEAN, polls' \in [Client -> 0 .. Polls],
           \/ mu' = mu /\ (to \in Locked => mu = c)
           \/ mu = NoClient /\ mu' = c
           \/ mu = c /\ mu' = NoClient /\ to \notin Locked,
           to = "enableUpdate" => entry = NoRunner,
           to = "disableUpdate" => entry \in Runner,
           to \in {"disableWait", "disableStatus"} => entry \in cancelled,
           to = "disableStatus" => entry \notin Live \ abandoned
    PROVE  IInv'
<1>1. /\ up /\ step[c] = from
      /\ \A d \in Client : step'[d] = IF d = c THEN to ELSE step[d]
      /\ step' \in [Client -> Step]
    BY DEF Goes, IInv, TypeOK
<1>2. TypeOK'
    BY <1>1 DEF IInv, TypeOK
<1>3. Live' = Live
    BY DEF Live
<1>4. MutexInv'
    BY <1>1, <1>3 DEF IInv, MutexInv, ExporterManagerAssumption
<1>5. EntryInv' /\ RunnerInv'
    BY <1>1, <1>3 DEF IInv, EntryInv, RunnerInv
<1>6. QED
    BY <1>2, <1>4, <1>5 DEF IInv

\* The steps of EnableExporter keep the invariant.
LEMMA EnableKeeps ==
    ASSUME ExporterManagerAssumption, IInv, NEW c \in Client,
           EnableLocks(c) \/ EnableChecks(c) \/ EnableUpdates(c)
    PROVE  IInv'
<1>0. enabled \in BOOLEAN /\ polls \in [Client -> 0 .. Polls]
    BY DEF IInv, TypeOK
<1>1. CASE EnableLocks(c)
  <2>1. /\ Goes(c, "enableLock", "enableCheck") /\ mu = NoClient /\ mu' = c
        /\ UNCHANGED <<up, row, enabled, edit, entry, polls, state, cancelled, abandoned>>
    BY <1>1 DEF EnableLocks, rowVars, runnerVars
  <2>2. "enableLock" \in Step /\ "enableCheck" \in Step
    BY DEF Step, EnableStep
  <2>3. QED
    BY <1>0, <2>1, <2>2, StepKeeps
<1>2. CASE EnableChecks(c)
  <2>1. UNCHANGED <<up, row, enabled, edit, entry, polls, state, cancelled, abandoned>>
    BY <1>2 DEF EnableChecks, rowVars, runnerVars
  <2>2. /\ "enableCheck" \in Step /\ "enableUpdate" \in Step /\ "pollRunning" \in Step
        /\ "enableCheck" \in Locked /\ "pollRunning" \notin Locked
    BY DEF Step, EnableStep, Locked
  <2>3. mu = c
    BY <1>2, <2>2 DEF EnableChecks, Returns, Goes, IInv, MutexInv
  <2>4. \/ Goes(c, "enableCheck", "enableUpdate") /\ mu' = mu /\ entry = NoRunner
        \/ Goes(c, "enableCheck", "pollRunning") /\ mu' = NoClient
    BY <1>2 DEF EnableChecks, Returns
  <2>5. QED
    BY <1>0, <2>1, <2>2, <2>3, <2>4, StepKeeps
<1>3. CASE EnableUpdates(c)
  <2>1. PICK r \in Runner : NewService(r)
    BY <1>3 DEF EnableUpdates
  <2>2. /\ up /\ step[c] = "enableUpdate" /\ mu' = NoClient
        /\ step' = [step EXCEPT ![c] = "pollRunning"]
        /\ UNCHANGED <<up, row, polls, edit>>
    BY <1>3 DEF EnableUpdates, Returns, Goes
  <2>3. mu = c /\ entry = NoRunner
    BY <2>2 DEF IInv, MutexInv, EntryInv, Locked
  <2>4. /\ state' \in [Runner -> State] /\ entry' \in Runner
        /\ cancelled' \subseteq Runner /\ abandoned' \subseteq cancelled'
        /\ RunnerInv'
    BY <2>1, <2>3, NewServiceKeeps
  <2>5. enabled' \in BOOLEAN
    BY <1>0, <1>3 DEF EnableUpdates, SetsEnabled
  <2>6. /\ \A d \in Client : step'[d] = IF d = c THEN "pollRunning" ELSE step[d]
        /\ step' \in [Client -> Step]
    BY <2>2 DEF IInv, TypeOK, Step
  <2>7. TypeOK'
    BY <2>2, <2>4, <2>5, <2>6 DEF IInv, TypeOK
  <2>8. \A d \in Client : step'[d] \notin Locked
    BY <2>3, <2>6 DEF IInv, MutexInv, Locked
  <2>9. MutexInv' /\ EntryInv'
    BY <2>2, <2>8 DEF MutexInv, EntryInv, Locked
  <2>10. QED
    BY <2>4, <2>7, <2>9 DEF IInv
<1>4. QED
    BY <1>1, <1>2, <1>3

\* The steps of DisableExporter keep the invariant.
LEMMA DisableKeeps ==
    ASSUME ExporterManagerAssumption, IInv, NEW c \in Client,
           \/ DisableLocks(c) \/ DisableChecks(c) \/ DisableUpdates(c)
           \/ WaitEnds(c) \/ WaitTimesOut(c) \/ DisableWritesStatus(c)
    PROVE  IInv'
<1>0. /\ enabled \in BOOLEAN /\ polls \in [Client -> 0 .. Polls]
      /\ DisableStep \subseteq Step /\ "pollStopped" \in Step
      /\ "pollStopped" \notin Locked
    BY DEF IInv, TypeOK, Step, Locked
<1>1. CASE DisableLocks(c)
  <2>1. /\ Goes(c, "disableLock", "disableCheck") /\ mu = NoClient /\ mu' = c
        /\ UNCHANGED <<up, row, enabled, edit, entry, polls, state, cancelled, abandoned>>
    BY <1>1 DEF DisableLocks, rowVars, runnerVars
  <2>2. QED
    BY <1>0, <2>1, StepKeeps DEF DisableStep
<1>2. CASE DisableChecks(c)
  <2>1. UNCHANGED <<up, row, enabled, edit, entry, polls, state, cancelled, abandoned>>
    BY <1>2 DEF DisableChecks, rowVars, runnerVars
  <2>2. mu = c
    BY <1>2 DEF DisableChecks, Returns, Goes, IInv, MutexInv, Locked
  <2>3. \/ Goes(c, "disableCheck", "disableUpdate") /\ mu' = mu /\ entry # NoRunner
        \/ Goes(c, "disableCheck", "pollStopped") /\ mu' = NoClient
    BY <1>2 DEF DisableChecks, Returns
  <2>4. entry # NoRunner => entry \in Runner
    BY DEF IInv, TypeOK
  <2>5. QED
    BY <1>0, <2>1, <2>2, <2>3, <2>4, StepKeeps DEF DisableStep
<1>3. CASE DisableUpdates(c)
  <2>1. /\ up /\ step[c] = "disableUpdate"
        /\ step' = [step EXCEPT ![c] = "disableWait"]
        /\ cancelled' = cancelled \cup {entry}
        /\ UNCHANGED <<up, row, mu, entry, polls, edit, state, abandoned>>
    BY <1>3 DEF DisableUpdates, Goes
  <2>2. mu = c /\ entry \in Runner
    BY <2>1 DEF IInv, MutexInv, EntryInv, Locked
  <2>3. enabled' \in BOOLEAN
    BY <1>0, <1>3 DEF DisableUpdates, SetsEnabled
  <2>4. /\ \A d \in Client : step'[d] = IF d = c THEN "disableWait" ELSE step[d]
        /\ step' \in [Client -> Step]
    BY <1>0, <2>1 DEF IInv, TypeOK, DisableStep
  <2>5. TypeOK'
    BY <2>1, <2>2, <2>3, <2>4 DEF IInv, TypeOK
  <2>6. Live' = Live
    BY <2>1 DEF Live
  <2>7. MutexInv' /\ EntryInv' /\ RunnerInv'
    BY <2>1, <2>2, <2>4, <2>6 DEF IInv, MutexInv, EntryInv, RunnerInv
  <2>8. QED
    BY <2>5, <2>7 DEF IInv
<1>4. CASE WaitEnds(c)
  <2>1. /\ Goes(c, "disableWait", "disableStatus") /\ mu' = mu /\ entry \notin Live
        /\ UNCHANGED <<up, row, enabled, edit, entry, polls, state, cancelled, abandoned>>
    BY <1>4 DEF WaitEnds, rowVars, runnerVars
  <2>2. mu = c /\ entry \in cancelled
    BY <2>1 DEF Goes, IInv, MutexInv, EntryInv, Locked
  <2>3. QED
    BY <1>0, <2>1, <2>2, StepKeeps DEF DisableStep
<1>5. CASE WaitTimesOut(c)
  <2>1. /\ up /\ step[c] = "disableWait"
        /\ step' = [step EXCEPT ![c] = "disableStatus"]
        /\ abandoned' = abandoned \cup {entry}
        /\ UNCHANGED <<up, row, enabled, mu, entry, polls, edit, state, cancelled>>
    BY <1>5 DEF WaitTimesOut, Goes, rowVars
  <2>2. mu = c /\ entry \in cancelled
    BY <2>1 DEF IInv, MutexInv, EntryInv, Locked
  <2>3. /\ \A d \in Client : step'[d] = IF d = c THEN "disableStatus" ELSE step[d]
        /\ step' \in [Client -> Step]
    BY <1>0, <2>1 DEF IInv, TypeOK, DisableStep
  <2>4. TypeOK'
    BY <2>1, <2>2, <2>3 DEF IInv, TypeOK
  <2>5. Live' = Live
    BY <2>1 DEF Live
  <2>6. MutexInv' /\ EntryInv' /\ RunnerInv'
    BY <2>1, <2>2, <2>3, <2>5 DEF IInv, MutexInv, EntryInv, RunnerInv
  <2>7. QED
    BY <2>4, <2>6 DEF IInv
<1>6. CASE DisableWritesStatus(c)
  <2>1. /\ up /\ step[c] = "disableStatus" /\ mu' = NoClient /\ entry' = NoRunner
        /\ step' = [step EXCEPT ![c] = "pollStopped"]
        /\ UNCHANGED <<up, row, enabled, polls, edit, state, cancelled, abandoned>>
    BY <1>6 DEF DisableWritesStatus, Returns, Goes, rowVars, runnerVars
  <2>2. mu = c /\ entry \notin Live \ abandoned
    BY <2>1 DEF IInv, MutexInv, EntryInv, Locked
  <2>3. /\ \A d \in Client : step'[d] = IF d = c THEN "pollStopped" ELSE step[d]
        /\ step' \in [Client -> Step]
    BY <1>0, <2>1 DEF IInv, TypeOK
  <2>4. TypeOK'
    BY <2>1, <2>3 DEF IInv, TypeOK
  <2>5. \A d \in Client : step'[d] \notin Locked
    BY <1>0, <2>2, <2>3 DEF IInv, MutexInv
  <2>6. MutexInv' /\ EntryInv'
    BY <2>1, <2>5 DEF MutexInv, EntryInv, Locked
  <2>7. Live' = Live
    BY <2>1 DEF Live
  <2>8. RunnerInv'
    BY <2>1, <2>2, <2>7 DEF IInv, RunnerInv
  <2>9. QED
    BY <2>4, <2>6, <2>8 DEF IInv
<1>7. QED
    BY <1>1, <1>2, <1>3, <1>4, <1>5, <1>6

\* The beginning, the polling and the failures of requests keep the invariant.
LEMMA RequestKeeps ==
    ASSUME ExporterManagerAssumption, IInv, NEW c \in Client,
           \/ StartExporter(c) \/ StopExporter(c)
           \/ HandlerFails(c) \/ RequestPolls(c) \/ RequestFails(c)
    PROVE  IInv'
<1>0. /\ enabled \in BOOLEAN /\ polls \in [Client -> 0 .. Polls] /\ Polls \in Nat
      /\ Locked \subseteq Step /\ step[c] \in Step
      /\ {"idle", "enableLock", "disableLock", "pollRunning", "pollStopped"} \subseteq Step \ Locked
    BY DEF IInv, TypeOK, Step, EnableStep, DisableStep, Locked, ExporterManagerAssumption
<1>1. CASE StartExporter(c) \/ StopExporter(c)
  <2>1. UNCHANGED <<up, row, enabled, mu, edit, entry, polls, state, cancelled, abandoned>>
    BY <1>1 DEF StartExporter, StopExporter, rowVars, runnerVars
  <2>2. Goes(c, "idle", "enableLock") \/ Goes(c, "idle", "disableLock")
    BY <1>1 DEF StartExporter, StopExporter
  <2>3. QED
    BY <1>0, <2>1, <2>2, StepKeeps
<1>2. CASE HandlerFails(c)
  <2>1. UNCHANGED <<up, row, enabled, edit, entry, polls, state, cancelled, abandoned>>
    BY <1>2 DEF HandlerFails, rowVars, runnerVars
  <2>2. /\ Goes(c, step[c], "pollRunning") \/ Goes(c, step[c], "pollStopped")
        /\ mu' = NoClient /\ step[c] \in Locked
    BY <1>2 DEF HandlerFails, Returns
  <2>3. mu = c
    BY <2>2 DEF IInv, MutexInv
  <2>4. QED
    BY <1>0, <2>1, <2>2, <2>3, StepKeeps
<1>3. CASE RequestPolls(c) \/ RequestFails(c)
  <2>1. UNCHANGED <<up, row, enabled, mu, edit, entry, state, cancelled, abandoned>>
    BY <1>3 DEF RequestPolls, RequestFails, rowVars, runnerVars
  <2>2. step[c] \in {"pollRunning", "pollStopped"}
    BY <1>3 DEF RequestPolls, RequestFails
  <2>3. Goes(c, step[c], "idle") \/ Goes(c, step[c], step[c])
    BY <1>3 DEF RequestPolls, RequestFails
  <2>4. polls' \in [Client -> 0 .. Polls]
    <3>1. polls[c] \in 0 .. Polls /\ 0 \in 0 .. Polls
        BY <1>0
    <3>2. \/ polls' = [polls EXCEPT ![c] = 0]
          \/ polls' = [polls EXCEPT ![c] = polls[c] + 1] /\ ~(polls[c] + 1 >= Polls)
      <4>1. CASE RequestFails(c)
        BY <4>1 DEF RequestFails
      <4>2. CASE RequestPolls(c)
        <5>1. PICK seen \in BOOLEAN :
                polls' = [polls EXCEPT ![c] =
                            IF row # "live" \/ seen \/ polls[c] + 1 >= Polls THEN 0
                            ELSE polls[c] + 1]
            BY <4>2 DEF RequestPolls
        <5>2. CASE row # "live" \/ seen \/ polls[c] + 1 >= Polls
            BY <5>1, <5>2
        <5>3. CASE ~(row # "live" \/ seen \/ polls[c] + 1 >= Polls)
            BY <5>1, <5>3
        <5>4. QED
            BY <5>2, <5>3
      <4>3. QED
        BY <1>3, <4>1, <4>2
    <3>3. QED
        BY <1>0, <3>1, <3>2
  <2>5. QED
    BY <1>0, <2>1, <2>2, <2>3, <2>4, StepKeeps
<1>4. QED
    BY <1>1, <1>2, <1>3

-----------------------------------------------------------------------------

\* The steps of a runner keep the invariant: only NewService makes one live.
LEMMA RunnerKeeps ==
    ASSUME ExporterManagerAssumption, IInv, NEW r \in Runner,
           \/ RunnerServes(r) \/ RunnerEntersRange(r) \/ RunnerEndsRange(r)
           \/ RunnerStops(r) \/ RunnerFails(r)
    PROVE  IInv'
<1>1. PICK to \in State :
        /\ state[r] # "free" /\ state' = [state EXCEPT ![r] = to]
        /\ UNCHANGED <<up, row, enabled, mu, entry, step, polls, edit, cancelled, abandoned>>
    BY DEF RunnerServes, RunnerEntersRange, RunnerEndsRange, RunnerStops, RunnerFails, Moves,
       State, Live, clientVars
<1>2. /\ state' \in [Runner -> State]
      /\ \A q \in Runner : q # r => state'[q] = state[q]
    BY <1>1 DEF IInv, TypeOK
<1>3. Live' \subseteq Live
    BY <1>1, <1>2 DEF Live
<1>4. TypeOK'
    BY <1>1, <1>2 DEF IInv, TypeOK
<1>5. MutexInv' /\ EntryInv' /\ RunnerInv'
    BY <1>1, <1>3 DEF IInv, MutexInv, EntryInv, RunnerInv
<1>6. QED
    BY <1>4, <1>5 DEF IInv

\* Every step keeps the invariant.
LEMMA NextKeeps == ASSUME ExporterManagerAssumption, IInv, [Next]_vars PROVE IInv'
<1>1. CASE Next
    BY <1>1, StartKeeps, CrashKeeps, RowKeeps, EnableKeeps, DisableKeeps, RequestKeeps, RunnerKeeps
    DEF Next, Proceed
<1>2. CASE UNCHANGED vars
    BY <1>2 DEF vars, IInv, TypeOK, MutexInv, EntryInv, RunnerInv, Live
<1>3. QED
    BY <1>1, <1>2

\* The invariant holds in every behaviour.
LEMMA InvariantHolds == ASSUME ExporterManagerAssumption PROVE Spec => []IInv
<1>1. Init => IInv
    BY InitIInv
<1>2. IInv /\ [Next]_vars => IInv'
    BY NextKeeps
<1>3. QED
    BY <1>1, <1>2, PTL DEF Spec

-----------------------------------------------------------------------------

\* The state is well typed: a request looks at the status at most Polls times, and a
\* runner is given up only after it was told to end (DisableExporter, StartExporter).
THEOREM TypeCorrect == ASSUME ExporterManagerAssumption PROVE Spec => []TypeOK
<1>1. IInv => TypeOK
    BY DEF IInv
<1>2. QED
    BY <1>1, InvariantHolds, PTL

\* Two runners of one exporter exist at once only when RemoveAndWait has given up on
\* the first (EnableExporter and DisableExporter under s.mu).
THEOREM RunnerIsSerial == ASSUME ExporterManagerAssumption PROVE Spec => []OneSerialRunner
<1>1. ASSUME IInv PROVE OneSerialRunner
  <2>1. Live \ abandoned \subseteq {entry}
    BY <1>1 DEF IInv, RunnerInv
  <2>2. IsFiniteSet({entry}) /\ Cardinality({entry}) = 1
    BY FS_Singleton
  <2>3. /\ Cardinality(Live \ abandoned) \in Nat
        /\ Cardinality(Live \ abandoned) <= Cardinality({entry})
    BY <2>1, <2>2, FS_Subset, FS_CardinalityType
  <2>4. QED
    BY <2>2, <2>3 DEF OneSerialRunner
<1>2. QED
    BY <1>1, InvariantHolds, PTL

\* A runner that has not been told to end is the one in the maps, where the next
\* DisableExporter finds it, whatever failed before.
THEOREM NoRunnerIsLost == ASSUME ExporterManagerAssumption PROVE Spec => []NoLostRunner
<1>1. IInv => NoLostRunner
    BY DEF IInv, TypeOK, RunnerInv, NoLostRunner
<1>2. QED
    BY <1>1, InvariantHolds, PTL

=============================================================================
