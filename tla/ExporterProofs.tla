--------------------------- MODULE ExporterProofs ---------------------------
(***************************************************************************)
(* Proofs about Exporter, for every pipeline and every chain.              *)
(*                                                                         *)
(* The head is safe although a child may be missing from the sources it is *)
(* taken from: an unregistered child has an ancestor that is registered,   *)
(* enabled and still below the child's birth, and the head is below that   *)
(* ancestor's cursor.  So a range, once chosen, is complete in the store   *)
(* for the chosen sources, whatever is registered later; the rest is that  *)
(* each copy of the runner's place covers only what was handed over.       *)
(***************************************************************************)
EXTENDS Exporter, WellFoundedInduction, TLAPS

InRange == pc \in {"fetch", "deliver", "persist"}
InQueue == pc \in {"deliver", "persist"}
InLoop == pc \in {"poll", "fetch", "deliver", "persist"}

\* What the sources guarantee to the head.
SourceInv ==
    /\ Root \subseteq registered
    /\ Stable \cap registered \subseteq enabled
    /\ \A l \in Log : l.block <= sync[l.src] => l \in stored
    /\ \A s \in Source \ registered : sync[s] = Birth[s] - 1
    /\ \A c \in Source \ Root :
        c \notin registered /\ Parent[c] \in registered => sync[Parent[c]] < Birth[c]

\* Everything due that a place covers has been handed over.
Safe(b, i) == \A l \in Log : Due(l) /\ Covers(b, i, l) => l \in delivered

\* The three copies of the place.
CursorInv ==
    /\ Safe(syncBlock, syncIndex)
    /\ edit.open => Safe(edit.block, edit.index)
    /\ InLoop => Safe(completed, last)

\* A range is complete for its sources, and its queue for what is left of it.
RangeInv ==
    /\ InRange => completed < toBlock
    /\ InRange => \A l \in Log : Due(l) /\ l.block <= toBlock => l.src \in ids /\ l \in stored
    /\ InQueue => \A l \in queue : l.block <= toBlock
    /\ InQueue => \A l \in Log : Due(l) /\ l.block <= toBlock => l \in delivered \/ l \in queue

\* The place is between what this run handed over and what it still has to.
PlaceInv ==
    /\ InLoop => Covers(completed, last, prev)
    /\ InQueue => \A l \in queue : ~ Covers(completed, last, l)

\* A place covers what was recorded, the start block excepted.
Keeps(b, i) == \A l \in recorded : l.block = StartBlock \/ Covers(b, i, l)

RecordInv ==
    /\ pc = "persist" => prev \in Log
    /\ ~MayEdit => /\ ~edit.open
                   /\ Keeps(syncBlock, syncIndex)
                   /\ InLoop => Keeps(completed, last)

IInv ==
    /\ TypeOK
    /\ SourceInv
    /\ CursorInv
    /\ RangeInv
    /\ PlaceInv
    /\ RecordInv
    /\ DeliveredIsPrefix

-----------------------------------------------------------------------------
(* Facts about places and heads.                                           *)

\* A non-empty set of naturals has a least element.
LEMMA LeastNatural ==
    ASSUME NEW T, T \subseteq Nat, T # {}
    PROVE  \E x \in T : \A y \in T : x <= y
<1>1. PICK x \in T : \A y \in T : ~ (<<y, x>> \in OpToRel(<, Nat))
    BY NatLessThanWellFounded, WFMin, Zenon
<1>2. ASSUME NEW y \in T PROVE x <= y
  <2>1. ~ (y < x)
    BY <1>1, <1>2 DEF OpToRel
  <2>2. QED
    BY <2>1
<1>3. QED
    BY <1>2

\* Below the smallest cursor of the enabled sources, every log that is due is in
\* the store and belongs to one of these sources.
LEMMA HeadIsComplete ==
    ASSUME SourceAssumption, LogAssumption, TypeOK, SourceInv,
           NEW h \in Nat, IsHead(h),
           NEW l \in Log, Due(l), l.block <= h
    PROVE  l.src \in enabled /\ l \in stored
<1> USE SourceAssumption, LogAssumption DEF SourceAssumption, LogAssumption
<1>1. ASSUME l.src \notin registered PROVE FALSE
  <2> DEFINE Missing == {s \in Stable \ registered : Birth[s] <= l.block}
  <2> DEFINE D == {Depth[s] : s \in Missing}
  <2>1. l.src \in Missing
    BY <1>1 DEF Due
  <2>2. D \subseteq Nat /\ D # {}
    BY <2>1
  <2> HIDE DEF D
  <2>3. PICK d \in D : \A e \in D : d <= e
    BY <2>2, LeastNatural
  <2>4. PICK x \in Missing : \A y \in Missing : Depth[x] <= Depth[y]
    BY <2>3 DEF D
  <2>5. x \in Source \ Root /\ x \in Stable
    BY <2>4 DEF SourceInv
  <2>6. Parent[x] \in registered
    BY <2>4, <2>5
  <2>7. Parent[x] \in enabled /\ sync[Parent[x]] < Birth[x]
    BY <2>4, <2>5, <2>6 DEF SourceInv
  <2>8. QED
    BY <2>4, <2>5, <2>7 DEF IsHead, TypeOK
<1>2. l.src \in enabled
    BY <1>1 DEF SourceInv, Due
<1>3. l \in stored
    BY <1>2 DEF IsHead, SourceInv, TypeOK
<1>4. QED
    BY <1>2, <1>3

\* The bound of the query separates what the place covers from what it does not.
LEMMA BoundIsPlace ==
    ASSUME LogAssumption, ConfigAssumption, TypeOK, NEW l \in Log
    PROVE  Earlier(CursorBound, l) <=> ~ Covers(completed, last, l)
BY DEF LogAssumption, ConfigAssumption, TypeOK, Index, CursorBound, Covers, Earlier

\* The place of a log covers it and what is earlier, and nothing else.
LEMMA PlaceOfLog ==
    ASSUME SourceAssumption, LogAssumption, NEW l \in Log, NEW m \in Log
    PROVE  /\ blockBefore(l.block) \in Nat
           /\ l.index \in Nat
           /\ Covers(blockBefore(l.block), l.index, m) <=> (m = l \/ Earlier(m, l))
           /\ Covers(blockBefore(l.block), l.index, l)
<1>1. l.block \in Nat /\ l.block > 0 /\ m.block \in Nat /\ l.index \in Nat /\ m.index \in Nat
  <2>1. \A k \in Log : k.block \in Nat /\ k.src \in Source /\ Birth[k.src] <= k.block
    BY DEF LogAssumption
  <2>2. \A s \in Source : Birth[s] \in Nat /\ Birth[s] > 0
    BY DEF SourceAssumption
  <2>3. \A k \in Log : k.index \in Nat
    BY DEF LogAssumption
  <2>4. QED
    BY <2>1, <2>2, <2>3
<1>2. blockBefore(l.block) = l.block - 1
    BY <1>1 DEF blockBefore
<1>3. l.block = m.block /\ l.index = m.index => l = m
    BY DEF LogAssumption
<1>4. QED
    BY <1>1, <1>2, <1>3 DEF Covers, Earlier

\* Which logs are due does not change.
LEMMA DueIsConstant == \A l \in Log : Due(l) <=> Due(l)'
BY DEF Due

-----------------------------------------------------------------------------
(* Types.                                                                  *)

\* The initial state is well typed.
LEMMA InitTypeOK ==
    ASSUME SourceAssumption, LogAssumption, ConfigAssumption, Init
    PROVE  TypeOK
<1>1. NoEdit \in [open : BOOLEAN, block : Nat, index : Index, status : Status]
    BY DEF NoEdit, Index, Status, ConfigAssumption
<1>2. sync \in [Source -> Nat]
    BY DEF Init, SourceAssumption
<1>3. edit \in [open : BOOLEAN, block : Nat, index : Index, status : Status]
    BY <1>1 DEF Init
<1>4. -1 \in Index /\ "STOPPED" \in Status /\ "dead" \in Loc
    BY DEF Index, Status, Loc, ConfigAssumption
<1>5. registered \subseteq Source /\ enabled \subseteq registered /\ cancelled \in BOOLEAN
    BY DEF Init, SourceAssumption
<1>6. QED
    BY <1>2, <1>3, <1>4, <1>5 DEF Init, TypeOK, ConfigAssumption

\* Every step keeps the types; in particular no block number of the runner goes
\* below zero, where the code's unsigned arithmetic would wrap around.
LEMMA StepTypeOK ==
    ASSUME SourceAssumption, LogAssumption, ConfigAssumption, TypeOK, RecordInv, [Next]_vars
    PROVE  TypeOK'
<1> USE ConfigAssumption DEF ConfigAssumption
<1>a. NoEdit \in [open : BOOLEAN, block : Nat, index : Index, status : Status]
    BY DEF NoEdit, Index, Status
<1>1. ASSUME NEW l \in Log, SourceStores(l) PROVE TypeOK'
    BY <1>1 DEF TypeOK, SourceStores, runnerVars, rowVars, loopVars, history
<1>2. ASSUME NEW s \in Source, NEW b \in 0 .. MaxBlock, SourceAdvances(s, b) PROVE TypeOK'
    BY <1>2 DEF TypeOK, SourceAdvances, runnerVars, rowVars, loopVars, history
<1>3. ASSUME NEW c \in Source \ Root, RegisterChild(c) PROVE TypeOK'
    BY <1>3 DEF TypeOK, RegisterChild, runnerVars, rowVars, loopVars, history
<1>4. ASSUME NEW s \in Source, ToggleSource(s) PROVE TypeOK'
    BY <1>4 DEF TypeOK, ToggleSource, runnerVars, rowVars, loopVars, history
<1>5. CASE EditReads
  <2>1. edit' \in [open : BOOLEAN, block : Nat, index : Index, status : Status]
    BY <1>5 DEF TypeOK, EditReads
  <2>2. QED
    BY <1>5, <2>1 DEF TypeOK, EditReads, sourceVars, rowVars, loopVars, history
<1>6. CASE EditSaves \/ EditFails
    BY <1>6, <1>a DEF TypeOK, EditSaves, EditFails, sourceVars, rowVars, loopVars, history
<1>7. CASE StartExporter
    BY <1>7 DEF TypeOK, StartExporter, Loc, sourceVars, rowVars, loopVars, history
<1>8. CASE Cancel
    BY <1>8 DEF TypeOK, Cancel, sourceVars, rowVars, loopVars, history
<1>9. CASE Serve
  <2>1. completed' \in Nat /\ last' \in Index
    BY <1>9 DEF TypeOK, Serve, Index
  <2>2. QED
    BY <1>9, <2>1 DEF TypeOK, Serve, Loc, Status, sourceVars
<1>10. ASSUME NEW h \in 0 .. MaxBlock, Poll(h) PROVE TypeOK'
    BY <1>10 DEF TypeOK, Poll, Loc, sourceVars, rowVars, history
<1>11. CASE FetchLogs
    BY <1>11 DEF TypeOK, FetchLogs, Loc, sourceVars, rowVars, history
<1>12. ASSUME NEW l \in queue, Deliver(l) PROVE TypeOK'
  <2>1. l \in Log
    BY <1>12 DEF TypeOK
  <2>2. blockBefore(l.block) \in Nat /\ l.index \in Index
    BY <2>1, PlaceOfLog DEF Index, LogAssumption
  <2>3. QED
    BY <1>12, <2>1, <2>2 DEF TypeOK, Deliver, Loc, sourceVars, rowVars
<1>13. CASE Persist
  <2>1. prev \in Log
    BY <1>13 DEF Persist, RecordInv
  <2>2. QED
    BY <1>13, <2>1 DEF TypeOK, Persist, Loc, sourceVars, loopVars
<1>14. CASE Finish
    BY <1>14 DEF TypeOK, Finish, Loc, Index, sourceVars, history
<1>15. CASE Stop
    BY <1>15 DEF TypeOK, Stop, Forget, Loc, Index, Status, sourceVars, history
<1>16. CASE Crash
    BY <1>16, <1>a DEF TypeOK, Crash, Forget, Loc, Index, sourceVars, rowVars, history
<1>17. CASE CallFails \/ DeliverFails \/ PersistFails
  <2>1. Fail /\ UNCHANGED history
    BY <1>17 DEF CallFails, DeliverFails, PersistFails
  <2>2. QED
    BY <2>1 DEF TypeOK, Fail, Forget, Loc, Index, Status, sourceVars, history
<1>18. CASE UNCHANGED vars
    BY <1>18 DEF TypeOK, vars
<1>19. QED
    BY <1>1, <1>2, <1>3, <1>4, <1>5, <1>6, <1>7, <1>8, <1>9, <1>10, <1>11, <1>12, <1>13, <1>14,
       <1>15, <1>16, <1>17, <1>18 DEF Next, SourceStep, RunnerStep, Fault

-----------------------------------------------------------------------------
(* The sources.                                                            *)

\* The steps of the runner and of the operator on the exporter leave the sources
\* alone, those of the sources leave the runner alone.
LEMMA StepsAreSeparate ==
    ASSUME [Next]_vars
    PROVE  UNCHANGED sourceVars \/ (SourceStep /\ UNCHANGED runnerVars)
<1>1. ASSUME SourceStep PROVE UNCHANGED runnerVars
    BY <1>1 DEF SourceStep, SourceStores, SourceAdvances, RegisterChild, ToggleSource, runnerVars
<1>2. ASSUME EditReads \/ EditSaves \/ EditFails \/ StartExporter \/ Cancel
      PROVE  UNCHANGED sourceVars
    BY <1>2 DEF EditReads, EditSaves, EditFails, StartExporter, Cancel
<1>3. ASSUME RunnerStep PROVE UNCHANGED sourceVars
    BY <1>3 DEF RunnerStep, Serve, Poll, FetchLogs, Deliver, Persist, Finish, Stop
<1>4. ASSUME Fault PROVE UNCHANGED sourceVars
    BY <1>4 DEF Fault, Crash, CallFails, DeliverFails, PersistFails, Fail
<1>5. ASSUME UNCHANGED vars PROVE UNCHANGED sourceVars
    BY <1>5 DEF vars, sourceVars
<1>6. QED
    BY <1>1, <1>2, <1>3, <1>4, <1>5 DEF Next

\* Every step of a source keeps what the head relies on.
LEMMA StepSourceInv ==
    ASSUME SourceAssumption, LogAssumption, ConfigAssumption, TypeOK, SourceInv, [Next]_vars
    PROVE  SourceInv' /\ stored \subseteq stored'
<1> USE SourceAssumption, LogAssumption DEF SourceAssumption, LogAssumption
<1>1. CASE UNCHANGED sourceVars
    BY <1>1 DEF SourceInv, sourceVars
<1>2. CASE SourceStep
  <2>1. ASSUME NEW l \in Log, SourceStores(l) PROVE SourceInv' /\ stored \subseteq stored'
    BY <2>1 DEF SourceInv, SourceStores
  <2>2. ASSUME NEW s \in Source, NEW b \in 0 .. MaxBlock, SourceAdvances(s, b)
        PROVE  SourceInv' /\ stored \subseteq stored'
    <3>1. \A t \in Source : sync'[t] = IF t = s THEN b ELSE sync[t]
        BY <2>2 DEF SourceAdvances, TypeOK
    <3>2. \A l \in Log : l.block <= sync'[l.src] => l \in stored
        BY <2>2, <3>1 DEF SourceAdvances, SourceInv
    <3>3. \A t \in Source \ registered : sync'[t] = Birth[t] - 1
        BY <2>2, <3>1 DEF SourceAdvances, SourceInv
    <3>4. ASSUME NEW c \in Source \ Root, c \notin registered, Parent[c] \in registered
          PROVE  sync'[Parent[c]] < Birth[c]
      <4>1. CASE Parent[c] = s
        <5>1. ~ (Birth[c] <= b)
            BY <2>2, <3>4, <4>1 DEF SourceAdvances
        <5>2. QED
            BY <2>2, <3>1, <3>4, <4>1, <5>1, ConfigAssumption DEF ConfigAssumption
      <4>2. CASE Parent[c] # s
          BY <3>1, <3>4, <4>2 DEF SourceInv
      <4>3. QED
          BY <4>1, <4>2
    <3>5. QED
        BY <2>2, <3>2, <3>3, <3>4 DEF SourceAdvances, SourceInv
  <2>3. ASSUME NEW c \in Source \ Root, RegisterChild(c)
        PROVE  SourceInv' /\ stored \subseteq stored'
    <3>1. ASSUME NEW d \in Source \ Root, d \notin registered', Parent[d] \in registered'
          PROVE  sync[Parent[d]] < Birth[d]
      <4>1. CASE Parent[d] = c
        <5>1. sync[c] = Birth[c] - 1
            BY <2>3 DEF RegisterChild, SourceInv
        <5>2. Birth[c] <= Birth[d] /\ Birth[c] \in Nat /\ Birth[d] \in Nat
            BY <4>1
        <5>3. QED
            BY <4>1, <5>1, <5>2
      <4>2. CASE Parent[d] # c
          BY <2>3, <3>1, <4>2 DEF RegisterChild, SourceInv
      <4>3. QED
          BY <4>1, <4>2
    <3>2. QED
        BY <2>3, <3>1 DEF RegisterChild, SourceInv
  <2>4. ASSUME NEW s \in Source, ToggleSource(s) PROVE SourceInv' /\ stored \subseteq stored'
    BY <2>4 DEF ToggleSource, SourceInv
  <2>5. QED
    BY <1>2, <2>1, <2>2, <2>3, <2>4 DEF SourceStep
<1>3. QED
    BY <1>1, <1>2, StepsAreSeparate

-----------------------------------------------------------------------------
(* The runner.                                                             *)

RunnerInv == CursorInv /\ RangeInv /\ PlaceInv /\ RecordInv /\ DeliveredIsPrefix

\* What leaves the place, the range and the history alone keeps the invariant:
\* a step of a source, a cancellation, a step that changes nothing.
LEMMA KeepsRunner ==
    ASSUME RunnerInv, stored \subseteq stored',
           UNCHANGED <<syncBlock, syncIndex, edit, pc, loopVars, history>>
    PROVE  RunnerInv'
<1> USE DEF RunnerInv, loopVars, history
<1>1. CursorInv'
    BY DueIsConstant DEF CursorInv, Safe, Covers, InLoop
<1>2. RangeInv'
    BY DueIsConstant DEF RangeInv, InRange, InQueue
<1>3. PlaceInv'
    BY DEF PlaceInv, Covers, InLoop, InQueue
<1>4. RecordInv'
    BY DEF RecordInv, Keeps, Covers, InLoop
<1>5. DeliveredIsPrefix'
    BY DueIsConstant DEF DeliveredIsPrefix, Earlier
<1>6. QED
    BY <1>1, <1>2, <1>3, <1>4, <1>5

\* What takes the runner out of its loop keeps the invariant: a failure, a stop,
\* the death of the process; and what it does before it enters the loop.
LEMMA OutOfLoopKeepsRunner ==
    ASSUME RunnerInv, pc' \in {"dead", "off", "serve"},
           UNCHANGED <<syncBlock, syncIndex, stored, history>>,
           edit' = edit \/ edit' = NoEdit
    PROVE  RunnerInv'
<1> USE DEF RunnerInv, history
<1>0. ~NoEdit.open
    BY DEF NoEdit
<1>1. CursorInv'
    BY <1>0, DueIsConstant DEF CursorInv, Safe, Covers, InLoop
<1>2. RangeInv'
    BY DEF RangeInv, InRange, InQueue
<1>3. PlaceInv'
    BY DEF PlaceInv, InLoop, InQueue
<1>4. RecordInv'
    BY <1>0 DEF RecordInv, Keeps, Covers, InLoop
<1>5. DeliveredIsPrefix'
    BY DueIsConstant DEF DeliveredIsPrefix, Earlier
<1>6. QED
    BY <1>1, <1>2, <1>3, <1>4, <1>5

\* Serve takes the place from the row, or the one before the start block.
LEMMA ServeKeepsRunner ==
    ASSUME SourceAssumption, LogAssumption, ConfigAssumption, TypeOK, RunnerInv, Serve
    PROVE  RunnerInv'
<1> USE LogAssumption, ConfigAssumption DEF RunnerInv, LogAssumption, ConfigAssumption
<1> DEFINE reset == StartBlock > 0 /\ syncBlock < StartBlock
<1>0. /\ completed' = IF reset THEN StartBlock - 1 ELSE syncBlock
      /\ last' = IF reset THEN -1 ELSE syncIndex
      /\ pc' = "poll" /\ prev' = NoLog
      /\ UNCHANGED <<syncBlock, syncIndex, edit, delivered, recorded, queue, ids, toBlock>>
    BY DEF Serve
<1>1. ASSUME NEW l \in Log, Due(l), Covers(completed', last', l) PROVE l \in delivered
  <2>1. CASE reset
    <3>1. l.block < StartBlock
        BY <1>0, <1>1, <2>1 DEF Covers
    <3>2. QED
        BY <1>1, <3>1 DEF Due, FirstBlock
  <2>2. CASE ~reset
      BY <1>0, <1>1, <2>2 DEF CursorInv, Safe
  <2>3. QED
      BY <2>1, <2>2
<1>2. CursorInv'
    BY <1>0, <1>1, DueIsConstant DEF CursorInv, Safe, Covers
<1>3. RangeInv'
    BY <1>0 DEF RangeInv, InRange, InQueue
<1>4. PlaceInv'
  <2>1. completed' \in Nat
    BY <1>0 DEF TypeOK
  <2>2. QED
    BY <1>0, <2>1 DEF PlaceInv, InQueue, Covers, NoLog
<1>5. RecordInv'
  <2>1. ASSUME ~MayEdit, NEW l \in recorded, l.block # StartBlock
        PROVE  Covers(completed', last', l)
    <3>1. Covers(syncBlock, syncIndex, l) /\ l \in Log
        BY <2>1 DEF RecordInv, Keeps, TypeOK
    <3>2. QED
        BY <1>0, <2>1, <3>1 DEF Covers, TypeOK
  <2>2. QED
    BY <1>0, <2>1 DEF RecordInv, Keeps, Covers
<1>6. DeliveredIsPrefix'
    BY <1>0, DueIsConstant DEF DeliveredIsPrefix, Earlier
<1>7. QED
    BY <1>2, <1>3, <1>4, <1>5, <1>6

\* The range chosen from the head is complete in the store.
LEMMA PollKeepsRunner ==
    ASSUME SourceAssumption, LogAssumption, ConfigAssumption, TypeOK, SourceInv, RunnerInv,
           NEW h \in 0 .. MaxBlock, Poll(h)
    PROVE  RunnerInv'
<1> USE ConfigAssumption DEF RunnerInv, ConfigAssumption
<1>0. /\ pc = "poll" /\ pc' = "fetch"
      /\ IsHead(h) /\ h > completed /\ ids' = enabled
      /\ toBlock' = IF completed + BatchSize > h THEN h ELSE completed + BatchSize
      /\ UNCHANGED <<syncBlock, syncIndex, edit, completed, last, queue, stored, delivered,
                     recorded, prev>>
    BY DEF Poll, sourceVars, rowVars, history
<1>1. toBlock' \in Nat /\ completed < toBlock' /\ toBlock' <= h /\ h \in Nat
    BY <1>0 DEF TypeOK
<1>2. \A l \in Log : Due(l) /\ l.block <= toBlock' => l.src \in ids' /\ l \in stored
  <2>1. ASSUME NEW l \in Log, Due(l), l.block <= toBlock' PROVE l.src \in ids' /\ l \in stored
    <3>1. l.block <= h
        BY <1>1, <2>1 DEF LogAssumption
    <3>2. QED
        BY <1>0, <1>1, <2>1, <3>1, HeadIsComplete
  <2>2. QED
    BY <2>1
<1>3. CursorInv'
    BY <1>0, DueIsConstant DEF CursorInv, Safe, Covers, InLoop
<1>4. RangeInv'
    BY <1>0, <1>1, <1>2, DueIsConstant DEF RangeInv, InRange, InQueue
<1>5. PlaceInv'
    BY <1>0 DEF PlaceInv, InLoop, InQueue, Covers
<1>6. RecordInv'
    BY <1>0 DEF RecordInv, Keeps, Covers, InLoop
<1>7. DeliveredIsPrefix'
    BY <1>0, DueIsConstant DEF DeliveredIsPrefix, Earlier
<1>8. QED
    BY <1>3, <1>4, <1>5, <1>6, <1>7

\* The query returns what of the range has not been handed over.
LEMMA FetchKeepsRunner ==
    ASSUME LogAssumption, ConfigAssumption, TypeOK, RunnerInv, FetchLogs
    PROVE  RunnerInv'
<1> USE DEF RunnerInv
<1>0. /\ pc = "fetch" /\ pc' = "deliver"
      /\ queue' = {l \in stored : /\ l.src \in ids /\ Earlier(CursorBound, l)
                                  /\ l.block <= toBlock}
      /\ UNCHANGED <<syncBlock, syncIndex, edit, completed, last, ids, toBlock, stored,
                     delivered, recorded, prev>>
    BY DEF FetchLogs, sourceVars, rowVars, history
<1>1. \A l \in queue' : l \in Log /\ l.block <= toBlock /\ ~ Covers(completed, last, l)
    BY <1>0, BoundIsPlace DEF TypeOK
<1>2. ASSUME NEW l \in Log, Due(l), l.block <= toBlock PROVE l \in delivered \/ l \in queue'
  <2>1. CASE Covers(completed, last, l)
      BY <1>0, <1>2, <2>1 DEF CursorInv, Safe, InLoop
  <2>2. CASE ~ Covers(completed, last, l)
    <3>1. l.src \in ids /\ l \in stored
        BY <1>0, <1>2 DEF RangeInv, InRange
    <3>2. QED
        BY <1>0, <1>2, <2>2, <3>1, BoundIsPlace
  <2>3. QED
      BY <2>1, <2>2
<1>3. CursorInv'
    BY <1>0, DueIsConstant DEF CursorInv, Safe, Covers, InLoop
<1>4. RangeInv'
    BY <1>0, <1>1, <1>2, DueIsConstant DEF RangeInv, InRange, InQueue
<1>5. PlaceInv'
    BY <1>0, <1>1 DEF PlaceInv, InLoop, InQueue, Covers
<1>6. RecordInv'
    BY <1>0 DEF RecordInv, Keeps, Covers, InLoop
<1>7. DeliveredIsPrefix'
    BY <1>0, DueIsConstant DEF DeliveredIsPrefix, Earlier
<1>8. QED
    BY <1>3, <1>4, <1>5, <1>6, <1>7

\* Handing over the earliest log of the queue moves the place up to it.
LEMMA DeliverKeepsRunner ==
    ASSUME SourceAssumption, LogAssumption, ConfigAssumption, TypeOK, RunnerInv,
           NEW l \in queue, Deliver(l)
    PROVE  RunnerInv'
<1> USE DEF RunnerInv
<1>0. /\ pc = "deliver" /\ pc' = "persist" /\ NextInQueue(l)
      /\ delivered' = delivered \cup {l} /\ prev' = l /\ queue' = queue \ {l}
      /\ completed' = blockBefore(l.block) /\ last' = l.index
      /\ UNCHANGED <<syncBlock, syncIndex, edit, ids, toBlock, stored, recorded>>
    BY DEF Deliver, sourceVars, rowVars
<1>1. l \in Log /\ queue \subseteq Log /\ delivered \subseteq Log
    BY DEF TypeOK
<1>2. \A m \in Log : Covers(completed', last', m) <=> (m = l \/ Earlier(m, l))
    BY <1>0, <1>1, PlaceOfLog
<1>3. \A m \in Log : Due(m) /\ Earlier(m, l) => m \in delivered
  <2>1. ASSUME NEW m \in Log, Due(m), Earlier(m, l) PROVE m \in delivered
    <3>1. m.block <= toBlock
        BY <1>0, <1>1, <2>1 DEF Earlier, RangeInv, InQueue, LogAssumption, TypeOK
    <3>2. m \notin queue
        BY <1>0, <2>1 DEF NextInQueue
    <3>3. QED
        BY <1>0, <2>1, <3>1, <3>2 DEF RangeInv, InQueue
  <2>2. QED
    BY <2>1
<1>4. CursorInv'
  <2>1. Safe(completed, last)'
    BY <1>0, <1>2, <1>3, DueIsConstant DEF Safe, Covers
  <2>2. Safe(syncBlock, syncIndex)'
    BY <1>0, DueIsConstant DEF CursorInv, Safe, Covers
  <2>3. edit.open' => Safe(edit.block, edit.index)'
    BY <1>0, DueIsConstant DEF CursorInv, Safe, Covers
  <2>4. QED
    BY <1>0, <2>1, <2>2, <2>3 DEF CursorInv, InLoop
<1>5. RangeInv'
  <2>1. completed' < toBlock
    <3>1. l.block \in Nat /\ l.block > 0 /\ l.block <= toBlock
      <4>1. Birth[l.src] \in Nat /\ Birth[l.src] > 0
          BY <1>1 DEF SourceAssumption, LogAssumption
      <4>2. QED
          BY <1>0, <1>1, <4>1 DEF RangeInv, InQueue, LogAssumption
    <3>2. QED
        BY <1>0, <3>1 DEF blockBefore, TypeOK
  <2>2. QED
    BY <1>0, <1>1, <2>1, DueIsConstant DEF RangeInv, InRange, InQueue
<1>6. PlaceInv'
  <2>1. Covers(completed', last', l)
    BY <1>1, <1>2
  <2>2. \A m \in queue' : ~ Covers(completed', last', m)
    BY <1>0, <1>1, <1>2 DEF NextInQueue
  <2>3. QED
    BY <1>0, <2>1, <2>2 DEF PlaceInv, Covers
<1>7. RecordInv'
  <2>1. ASSUME NEW m \in Log, Covers(completed, last, m) PROVE Covers(completed', last', m)
    <3>1. ~ Covers(completed, last, l)
        BY <1>0 DEF PlaceInv, InQueue
    <3>2. Earlier(m, l)
        BY <1>1, <2>1, <3>1 DEF Covers, Earlier, LogAssumption, TypeOK, Index
    <3>3. QED
        BY <1>2, <2>1, <3>2
  <2>2. ~MayEdit => \A m \in recorded : m.block = StartBlock \/ Covers(completed', last', m)
    BY <1>0, <2>1 DEF RecordInv, Keeps, InLoop, TypeOK
  <2>3. ~MayEdit => Keeps(completed, last)'
    BY <1>0, <2>2 DEF Keeps, Covers
  <2>4. QED
    BY <1>0, <1>1, <2>3 DEF RecordInv, Keeps, Covers
<1>8. DeliveredIsPrefix'
    BY <1>0, <1>3, DueIsConstant DEF DeliveredIsPrefix, Earlier
<1>9. QED
    BY <1>4, <1>5, <1>6, <1>7, <1>8

\* The place of the log just handed over is written to the row.
LEMMA PersistKeepsRunner ==
    ASSUME LogAssumption, TypeOK, RunnerInv, Persist
    PROVE  RunnerInv'
<1> USE DEF RunnerInv
<1>0. /\ pc = "persist" /\ pc' = "deliver"
      /\ syncBlock' = completed /\ syncIndex' = last /\ recorded' = recorded \cup {prev}
      /\ UNCHANGED <<edit, completed, last, ids, toBlock, queue, stored, delivered, prev>>
    BY DEF Persist, sourceVars, loopVars
<1>1. CursorInv'
    BY <1>0, DueIsConstant DEF CursorInv, Safe, Covers, InLoop
<1>2. RangeInv'
    BY <1>0, DueIsConstant DEF RangeInv, InRange, InQueue
<1>3. PlaceInv'
    BY <1>0 DEF PlaceInv, InLoop, InQueue, Covers
<1>4. RecordInv'
  <2>1. Covers(completed, last, prev)
    BY <1>0 DEF PlaceInv, InLoop
  <2>2. ~MayEdit => Keeps(completed, last)'
    BY <1>0, <2>1 DEF RecordInv, InLoop, Keeps, Covers
  <2>3. QED
    BY <1>0, <2>2 DEF RecordInv, Keeps, Covers
<1>5. DeliveredIsPrefix'
    BY <1>0, DueIsConstant DEF DeliveredIsPrefix, Earlier
<1>6. QED
    BY <1>1, <1>2, <1>3, <1>4, <1>5

\* With an empty queue the whole range is handed over.
LEMMA FinishKeepsRunner ==
    ASSUME LogAssumption, ConfigAssumption, TypeOK, RunnerInv, Finish
    PROVE  RunnerInv'
<1> USE DEF RunnerInv
<1>0. /\ pc = "deliver" /\ pc' = "poll" /\ queue = {}
      /\ syncBlock' = toBlock /\ syncIndex' = -1 /\ completed' = toBlock /\ last' = -1
      /\ UNCHANGED <<edit, ids, toBlock, queue, stored, delivered, recorded, prev>>
    BY DEF Finish, sourceVars, history
<1>1. ASSUME NEW l \in Log, Covers(toBlock, -1, l) PROVE l.block <= toBlock
    BY <1>1 DEF Covers, LogAssumption
<1>2. ASSUME NEW l, Covers(completed, last, l), l.block \in Nat PROVE Covers(toBlock, -1, l)
    BY <1>0, <1>2 DEF Covers, RangeInv, InRange, TypeOK
<1>3. CursorInv'
  <2>1. \A l \in Log : Due(l) /\ Covers(toBlock, -1, l) => l \in delivered
    BY <1>0, <1>1 DEF RangeInv, InQueue
  <2>2. QED
    BY <1>0, <2>1, DueIsConstant DEF CursorInv, Safe, Covers, InLoop
<1>4. RangeInv'
    BY <1>0 DEF RangeInv, InRange, InQueue
<1>5. PlaceInv'
  <2>1. prev.block \in Nat
    BY DEF TypeOK, NoLog, LogAssumption
  <2>2. Covers(toBlock, -1, prev)
    BY <1>0, <1>2, <2>1 DEF PlaceInv, InLoop
  <2>3. QED
    BY <1>0, <2>2 DEF PlaceInv, InQueue, Covers
<1>6. RecordInv'
  <2>1. ASSUME ~MayEdit, NEW l \in recorded, l.block # StartBlock PROVE Covers(toBlock, -1, l)
    <3>1. Covers(completed, last, l)
        BY <1>0, <2>1 DEF RecordInv, InLoop, Keeps
    <3>2. l.block \in Nat
        BY <2>1 DEF TypeOK, LogAssumption
    <3>3. QED
        BY <1>2, <3>1, <3>2
  <2>2. QED
    BY <1>0, <2>1 DEF RecordInv, Keeps, Covers
<1>7. DeliveredIsPrefix'
    BY <1>0, DueIsConstant DEF DeliveredIsPrefix, Earlier
<1>8. QED
    BY <1>3, <1>4, <1>5, <1>6, <1>7

\* An edit copies a safe place and puts it back later, when it is still safe.
LEMMA EditKeepsRunner ==
    ASSUME RunnerInv, EditReads \/ EditSaves \/ EditFails
    PROVE  RunnerInv'
<1> USE DEF RunnerInv
<1>0. UNCHANGED <<pc, completed, last, ids, toBlock, queue, stored, delivered, recorded, prev>>
    BY DEF EditReads, EditSaves, EditFails, sourceVars, loopVars, history
<1>1. RangeInv' /\ PlaceInv'
    BY <1>0, DueIsConstant DEF RangeInv, PlaceInv, InRange, InLoop, InQueue, Covers
<1>2. DeliveredIsPrefix'
    BY <1>0, DueIsConstant DEF DeliveredIsPrefix, Earlier
<1>3. CASE EditReads
  <2>1. MayEdit /\ edit'.block = syncBlock /\ edit'.index = syncIndex
    BY <1>3 DEF EditReads
  <2>2. UNCHANGED <<syncBlock, syncIndex>>
    BY <1>3 DEF EditReads, rowVars
  <2>3. CursorInv'
    BY <1>0, <2>1, <2>2, DueIsConstant DEF CursorInv, Safe, Covers, InLoop
  <2>4. RecordInv'
    BY <1>0, <2>1 DEF RecordInv
  <2>5. QED
    BY <1>1, <1>2, <2>3, <2>4
<1>4. CASE EditSaves
  <2>1. edit.open /\ syncBlock' = edit.block /\ syncIndex' = edit.index /\ ~edit'.open
    BY <1>4 DEF EditSaves, NoEdit
  <2>2. CursorInv'
    BY <1>0, <2>1, DueIsConstant DEF CursorInv, Safe, Covers, InLoop
  <2>3. RecordInv'
    BY <1>0, <2>1 DEF RecordInv
  <2>4. QED
    BY <1>1, <1>2, <2>2, <2>3
<1>5. CASE EditFails
  <2>1. ~edit'.open /\ UNCHANGED <<syncBlock, syncIndex>>
    BY <1>5 DEF EditFails, NoEdit, rowVars
  <2>2. CursorInv'
    BY <1>0, <2>1, DueIsConstant DEF CursorInv, Safe, Covers, InLoop
  <2>3. RecordInv'
    BY <1>0, <2>1 DEF RecordInv, Keeps, Covers, InLoop
  <2>4. QED
    BY <1>1, <1>2, <2>2, <2>3
<1>6. QED
    BY <1>3, <1>4, <1>5

-----------------------------------------------------------------------------
(* The invariant.                                                          *)

\* It holds initially: nothing due is covered by the cursor of a new row.
LEMMA InitIInv ==
    ASSUME SourceAssumption, LogAssumption, ConfigAssumption, Init
    PROVE  IInv
<1>1. SourceInv
    BY DEF Init, SourceInv, SourceAssumption, LogAssumption
<1>2. Safe(syncBlock, syncIndex)
    BY DEF Init, Safe, Due, FirstBlock, Covers, LogAssumption, ConfigAssumption
<1>3. ~edit.open
    BY DEF Init, NoEdit
<1>4. CursorInv
    BY <1>2, <1>3 DEF Init, CursorInv, InLoop
<1>5. RangeInv /\ PlaceInv
    BY DEF Init, RangeInv, PlaceInv, InRange, InQueue, InLoop
<1>6. RecordInv
    BY <1>3 DEF Init, RecordInv, Keeps, InLoop
<1>7. DeliveredIsPrefix
    BY DEF Init, DeliveredIsPrefix
<1>8. QED
    BY <1>1, <1>4, <1>5, <1>6, <1>7, InitTypeOK DEF IInv

\* Every step of the runner, of a source and of an operator keeps it.
LEMMA StepIInv ==
    ASSUME SourceAssumption, LogAssumption, ConfigAssumption, IInv, [Next]_vars
    PROVE  IInv'
<1> USE SourceAssumption, LogAssumption, ConfigAssumption
<1>0. TypeOK /\ SourceInv /\ RunnerInv
    BY DEF IInv, RunnerInv
<1>1. TypeOK'
    BY <1>0, StepTypeOK DEF RunnerInv
<1>2. SourceInv' /\ stored \subseteq stored'
    BY <1>0, StepSourceInv
<1>3. RunnerInv'
  <2>1. CASE SourceStep \/ Cancel \/ UNCHANGED vars
    <3>1. UNCHANGED <<syncBlock, syncIndex, edit, pc, loopVars, history>>
        BY <2>1 DEF SourceStep, SourceStores, SourceAdvances, RegisterChild, ToggleSource,
           Cancel, runnerVars, rowVars, loopVars, history, vars
    <3>2. QED
        BY <1>0, <1>2, <3>1, KeepsRunner
  <2>2. CASE EditReads \/ EditSaves \/ EditFails
      BY <1>0, <2>2, EditKeepsRunner
  <2>3. CASE StartExporter \/ Stop \/ Fault
    <3>1. /\ pc' \in {"dead", "off", "serve"}
          /\ UNCHANGED <<syncBlock, syncIndex, stored, history>>
          /\ edit' = edit \/ edit' = NoEdit
        BY <2>3 DEF StartExporter, Stop, Fault, Crash, CallFails, DeliverFails, PersistFails, Fail,
           sourceVars, rowVars
    <3>2. QED
        BY <1>0, <3>1, OutOfLoopKeepsRunner
  <2>4. CASE Serve
      BY <1>0, <2>4, ServeKeepsRunner
  <2>5. ASSUME NEW h \in 0 .. MaxBlock, Poll(h) PROVE RunnerInv'
      BY <1>0, <2>5, PollKeepsRunner
  <2>6. CASE FetchLogs
      BY <1>0, <2>6, FetchKeepsRunner
  <2>7. ASSUME NEW l \in queue, Deliver(l) PROVE RunnerInv'
      BY <1>0, <2>7, DeliverKeepsRunner
  <2>8. CASE Persist
      BY <1>0, <2>8, PersistKeepsRunner
  <2>9. CASE Finish
      BY <1>0, <2>9, FinishKeepsRunner
  <2>10. QED
      BY <2>1, <2>2, <2>3, <2>4, <2>5, <2>6, <2>7, <2>8, <2>9 DEF Next, RunnerStep
<1>4. QED
    BY <1>1, <1>2, <1>3 DEF IInv, RunnerInv

\* The inductive invariant of the exporter on its pipeline.
THEOREM InductiveInvariant == Spec => []IInv
<1> USE SourceAssumption, LogAssumption, ConfigAssumption
<1>1. Init => IInv
    BY InitIInv
<1>2. IInv /\ [Next]_vars => IInv'
    BY StepIInv
<1>3. QED
    BY <1>1, <1>2, PTL DEF Spec

\* The state of Exporter is well typed in every reachable state: no block number
\* of the runner wraps below zero.
THEOREM TypeCorrect == Spec => []TypeOK
<1>1. IInv => TypeOK
    BY DEF IInv
<1>2. QED
    BY <1>1, InductiveInvariant, PTL

\* The cursor persistCursor writes never covers a log that was not handed to the
\* plugin, with sources registered and disabled and the row edited at any time.
THEOREM NothingIsSkipped == Spec => []NoSkip
<1>1. IInv => NoSkip
    BY DEF IInv, CursorInv, Safe, NoSkip
<1>2. QED
    BY <1>1, InductiveInvariant, PTL

\* The logs handed to the plugin are at all times a prefix of those due.
THEOREM DeliveryIsAPrefix == Spec => []DeliveredIsPrefix
<1>1. IInv => DeliveredIsPrefix
    BY DEF IInv
<1>2. QED
    BY <1>1, InductiveInvariant, PTL

\* prev changes when Serve starts and when a log is handed over.
LEMMA HandOver ==
    ASSUME [Next]_vars
    PROVE  \/ UNCHANGED prev
           \/ prev' = NoLog
           \/ \E l \in queue : pc = "deliver" /\ prev' = l
<1>1. ASSUME \/ SourceStep \/ EditReads \/ EditSaves \/ EditFails
             \/ StartExporter \/ Cancel \/ UNCHANGED vars
      PROVE  UNCHANGED prev
    BY <1>1 DEF SourceStep, SourceStores, SourceAdvances, RegisterChild, ToggleSource, EditReads,
       EditSaves, EditFails, StartExporter, Cancel, runnerVars, history, vars
<1>2. ASSUME Fault \/ Stop \/ FetchLogs \/ Persist \/ Finish PROVE UNCHANGED prev
    BY <1>2 DEF Fault, Crash, CallFails, DeliverFails, PersistFails, Stop, FetchLogs, Persist,
       Finish, history
<1>3. ASSUME NEW h \in 0 .. MaxBlock, Poll(h) PROVE UNCHANGED prev
    BY <1>3 DEF Poll, history
<1>4. ASSUME Serve PROVE prev' = NoLog
    BY <1>4 DEF Serve
<1>5. ASSUME NEW l \in queue, Deliver(l) PROVE pc = "deliver" /\ prev' = l
    BY <1>5 DEF Deliver
<1>6. QED
    BY <1>1, <1>2, <1>3, <1>4, <1>5 DEF Next, RunnerStep

\* Between two starts of Serve, exportRange hands over logs in strictly ascending
\* (block, index) order.
THEOREM OrderIsAscending == Spec => AscendingOrder
<1> USE SourceAssumption, LogAssumption, ConfigAssumption
<1>1. IInv /\ [Next]_vars => [prev' = NoLog \/ Earlier(prev, prev')]_prev
  <2> SUFFICES ASSUME IInv, [Next]_vars, NEW l \in queue, pc = "deliver", prev' = l
               PROVE  Earlier(prev, prev')
      BY HandOver
  <2>1. Covers(completed, last, prev) /\ ~ Covers(completed, last, l)
      BY DEF IInv, PlaceInv, InLoop, InQueue
  <2>2. l \in Log /\ prev.block \in Nat /\ prev.index \in Nat
      BY DEF IInv, TypeOK, NoLog, LogAssumption
  <2>3. QED
      BY <2>1, <2>2 DEF Covers, Earlier, LogAssumption, IInv, TypeOK, Index
<1>2. QED
    BY <1>1, InductiveInvariant, PTL DEF Spec, AscendingOrder

\* While nobody edits the row, a log whose place persistCursor wrote is handed
\* over again only if it is one of the start block.
THEOREM ReplayIsConfined == ~MayEdit => (Spec => ReplaysOnlyStartBlock)
<1> USE SourceAssumption, LogAssumption, ConfigAssumption
<1> SUFFICES ASSUME ~MayEdit PROVE Spec => ReplaysOnlyStartBlock
    OBVIOUS
<1>1. IInv /\ [Next]_vars => [prev' \in recorded => prev'.block = StartBlock]_prev
  <2> SUFFICES ASSUME IInv, [Next]_vars, prev' \in recorded, prev' # prev
               PROVE  prev'.block = StartBlock
      OBVIOUS
  <2>1. prev' # NoLog
    <3>1. \A l \in Log : l.block > 0
      <4>1. \A l \in Log : l.block \in Nat /\ l.src \in Source /\ Birth[l.src] <= l.block
          BY DEF LogAssumption
      <4>2. \A s \in Source : Birth[s] \in Nat /\ Birth[s] > 0
          BY DEF SourceAssumption
      <4>3. QED
          BY <4>1, <4>2
    <3>2. QED
        BY <3>1 DEF IInv, TypeOK, NoLog
  <2>2. PICK l \in queue : pc = "deliver" /\ prev' = l
      BY <2>1, HandOver
  <2>3. ~ Covers(completed, last, l)
      BY <2>2 DEF IInv, PlaceInv, InQueue
  <2>4. QED
      BY <2>2, <2>3 DEF IInv, RecordInv, Keeps, InLoop
<1>2. QED
    BY <1>1, InductiveInvariant, PTL DEF Spec, ReplaysOnlyStartBlock

=============================================================================
