------------------------ MODULE SourceIndexerProofs ------------------------
(***************************************************************************)
(* Proofs about SourceIndexer, for every chain, every set of rules and     *)
(* every configuration of the windows.                                     *)
(*                                                                         *)
(* What sync_block covers is indexed because the cursor has three copies,  *)
(* each of which covers indexed blocks only: the column, the field of the  *)
(* worker's struct (never behind the column while a worker exists) and the *)
(* loop's own position (never behind the field).  Inside a window the      *)
(* argument needs to know which of its writes are done.                    *)
(***************************************************************************)
EXTENDS SourceIndexer, FiniteSetTheorems, TLAPS

\* The last block below the window, or the head once no window is left.
Below == IF from - 1 > current THEN current ELSE from - 1

InRound == pc \in {"window", "headers", "transactions", "insertLogs", "register", "cursor"}

\* The copies of the cursor: each is at least the one before it, and indexed.
CursorInv ==
    /\ Indexed(syncBlock)
    /\ pc \notin {"dead", "off"} => syncBlock <= source /\ Indexed(source)
    /\ pc = "wait" => source <= latest /\ Indexed(latest)
    /\ InRound => 0 < from /\ source <= Below /\ Indexed(Below)

\* What is done of the window at each of its steps.
WindowInv ==
    /\ pc \in {"headers", "transactions", "insertLogs", "register", "cursor"} =>
           from <= current
    /\ pc \in {"register", "cursor"} => Batch \subseteq stored
    /\ pc = "register" =>
        /\ todo \subseteq Deployments(Batch)
        /\ \A l \in Batch : \A a \in Deploys[l] :
               <<l, a>> \in todo \/ child[a].state # "absent"
    /\ pc = "cursor" => \A l \in Batch : IsIndexed(l)

IInv == TypeOK /\ CursorInv /\ WindowInv /\ ChildStartsBeforeDeployment

-----------------------------------------------------------------------------

\* The rules register addresses only.
LEMMA DeploysType == Deploys \in [Log -> SUBSET Addr]
BY DEF Deploys

\* The logs of a window can be counted.
LEMMA BatchIsFinite ==
    ASSUME LogAssumption
    PROVE  Cardinality(Batch) \in Nat
BY FS_Subset, FS_CardinalityType DEF LogAssumption, Batch

\* Nothing that is stored or registered is ever taken back.
Grows ==
    /\ stored \subseteq stored'
    /\ txStored \subseteq txStored'
    /\ \A a \in Addr : child[a].state # "absent" => child'[a].state # "absent"

\* A log that is indexed stays so.
LEMMA IndexedIsStable ==
    ASSUME LogAssumption, Grows, NEW l \in Log, IsIndexed(l)
    PROVE  IsIndexed(l)'
BY DeploysType DEF Grows, IsIndexed

\* A prefix of the chain that is indexed stays so.
LEMMA PrefixIsStable ==
    ASSUME LogAssumption, Grows, NEW b, Indexed(b)
    PROVE  \A l \in Log : First < l.block /\ l.block <= b => IsIndexed(l)'
BY IndexedIsStable DEF Indexed

\* The worker's invariant holds before it ever runs.
LEMMA InitIInv == Init => IInv
<1> USE LogAssumption, BlockAssumption
<1> SUFFICES ASSUME Init PROVE IInv
    OBVIOUS
<1>1. TypeOK
    BY DEF Init, TypeOK, Loc, ChildState, NoChild
<1>2. Indexed(syncBlock)
    BY DEF Init, Indexed, First
<1>3. CursorInv
    BY <1>2 DEF Init, CursorInv, InRound
<1>4. WindowInv
    BY DEF Init, WindowInv
<1>5. ChildStartsBeforeDeployment
    BY DeploysType DEF Init, ChildStartsBeforeDeployment, NoChild
<1>6. QED
    BY <1>1, <1>3, <1>4, <1>5 DEF IInv

-----------------------------------------------------------------------------

\* Every step keeps the types; in particular start_block = block - 1 of a child
\* never wraps, because the window starts above block 0.
LEMMA StepTypeOK ==
    ASSUME LogAssumption, BlockAssumption, IInv, [Next]_vars
    PROVE  TypeOK'
<1> USE BlockAssumption DEF IInv
<1>a. TypeOK
    OBVIOUS
<1>b. To \in Nat
    BY DEF TypeOK, To
<1>1. CASE Mine
    BY <1>a, <1>1 DEF TypeOK, Mine, dbVars, loopVars, storeVars
<1>2. CASE StartSource
    BY <1>a, <1>2 DEF TypeOK, StartSource, Loc, dbVars, loopVars, storeVars
<1>3. CASE Cancel
    BY <1>a, <1>3 DEF TypeOK, Cancel, dbVars, loopVars, storeVars
<1>4. CASE Serve
    BY <1>a, <1>4 DEF TypeOK, Serve, Loc, storeVars
<1>5. ASSUME NEW h \in 0 .. head, Poll(h) PROVE TypeOK'
    BY <1>a, <1>5 DEF TypeOK, Poll, Loc, dbVars, storeVars
<1>6. CASE FetchLogs
    BY <1>a, <1>6, BatchIsFinite DEF TypeOK, FetchLogs, Loc, dbVars, storeVars
<1>6a. CASE LoadBlockTimestamps
    BY <1>a, <1>6a, BatchIsFinite DEF TypeOK, LoadBlockTimestamps, Loc, dbVars, storeVars
<1>6b. CASE LoadTransactions
    BY <1>a, <1>6b DEF TypeOK, LoadTransactions, Loc, dbVars, storeVars
<1>7. CASE InsertLogs
    BY <1>a, <1>7 DEF TypeOK, InsertLogs, Batch, Deployments, Loc, dbVars
<1>8. ASSUME NEW p \in todo, RegisterFactoryChild(p) PROVE TypeOK'
  <2>1. p[1] \in Batch /\ p[2] \in Addr
    BY <1>8 DEF WindowInv, Deployments, RegisterFactoryChild
  <2>2. p[1].block - 1 \in Nat
    BY <1>8, <2>1, LogAssumption DEF CursorInv, InRound, Batch, RegisterFactoryChild, TypeOK,
       LogAssumption
  <2>3. ChildRow(p[1], p[2], TRUE) \in [state : ChildState, start : Nat]
    BY <2>2 DEF ChildRow, ChildState
  <2>4. child' \in [Addr -> [state : ChildState, start : Nat]]
    BY <1>a, <1>8, <2>1, <2>3 DEF TypeOK, RegisterFactoryChild
  <2>5. QED
    BY <1>a, <1>8, <2>4 DEF TypeOK, RegisterFactoryChild, dbVars, storeVars
<1>9. CASE InsertTransactions
    BY <1>a, <1>9 DEF TypeOK, InsertTransactions, Batch, Loc, dbVars, loopVars
<1>10. CASE AdvanceCursor
    BY <1>a, <1>b, <1>10 DEF TypeOK, AdvanceCursor, Loc, storeVars
<1>11. CASE RoundDone
    BY <1>a, <1>11 DEF TypeOK, RoundDone, Loc, dbVars, storeVars
<1>12. CASE MarkStopped
    BY <1>a, <1>12 DEF TypeOK, MarkStopped, Forget, Loc, storeVars
<1>13. CASE Crash
    BY <1>a, <1>13 DEF TypeOK, Crash, Forget, Loc, dbVars, storeVars
<1>14. CASE CallFails
    BY <1>a, <1>14 DEF TypeOK, CallFails, ServeReturnsError, Forget, Loc, dbVars, storeVars
<1>15. CASE InsertLogsFails
    BY <1>a, <1>15 DEF TypeOK, InsertLogsFails, Batch, ServeReturnsError, Forget, Loc, dbVars
<1>16. CASE RegisterFails
    BY <1>a, <1>16 DEF TypeOK, RegisterFails, ServeReturnsError, Forget, Loc, dbVars, storeVars
<1>17. ASSUME NEW p \in todo, CloneFails(p) PROVE TypeOK'
  <2>1. p[1] \in Batch /\ p[2] \in Addr
    BY <1>17 DEF WindowInv, Deployments, CloneFails
  <2>2. p[1].block - 1 \in Nat
    BY <1>17, <2>1, LogAssumption DEF CursorInv, InRound, Batch, CloneFails, TypeOK,
       LogAssumption
  <2>3. ChildRow(p[1], p[2], FALSE) \in [state : ChildState, start : Nat]
    BY <2>2 DEF ChildRow, ChildState
  <2>4. child' \in [Addr -> [state : ChildState, start : Nat]]
    BY <1>a, <1>17, <2>1, <2>3 DEF TypeOK, CloneFails
  <2>5. pc' \in {"off", "serve", "dead"} /\ Forget
    BY <1>17 DEF CloneFails, ServeReturnsError
  <2>6. QED
    BY <1>a, <1>17, <2>4, <2>5 DEF TypeOK, CloneFails, Forget, Loc, dbVars, storeVars
<1>18. CASE InsertTransactionsFails
    BY <1>a, <1>18 DEF TypeOK, InsertTransactionsFails, Batch, ServeReturnsError, Forget, Loc,
       dbVars
<1>19. CASE AdvanceCursorFails
    BY <1>a, <1>b, <1>19 DEF TypeOK, AdvanceCursorFails, ServeReturnsError, Forget, Loc, dbVars,
       storeVars
<1>20. CASE UNCHANGED vars
    BY <1>a, <1>20 DEF TypeOK, vars
<1>21. QED
    BY <1>1, <1>2, <1>3, <1>4, <1>5, <1>6, <1>6a, <1>6b, <1>7, <1>8, <1>9, <1>10, <1>11, <1>12,
       <1>13, <1>14, <1>15, <1>16, <1>17, <1>18, <1>19, <1>20 DEF Next, WorkerStep, Fault

-----------------------------------------------------------------------------

\* Only the registration of a child touches the child rows.
LEMMA OtherStepsKeepChildren ==
    ASSUME [Next]_vars
    PROVE  \/ \E p \in todo : RegisterFactoryChild(p) \/ CloneFails(p)
           \/ UNCHANGED child
BY DEF Next, WorkerStep, Fault, vars, Mine, StartSource, Cancel, Serve, Poll, FetchLogs,
       LoadBlockTimestamps, LoadTransactions,
       InsertLogs, InsertTransactions, AdvanceCursor, RoundDone, MarkStopped, Crash, CallFails,
       InsertLogsFails, RegisterFails, InsertTransactionsFails, AdvanceCursorFails

\* A new child is made by the first deployment of its address that the source
\* can see: an earlier one would be below the window, and indexed, or earlier in
\* the window, and handled.
LEMMA NewChildIsFirst ==
    ASSUME LogAssumption, BlockAssumption, IInv,
           NEW p \in todo, pc = "register", NextDeployment(p), child[p[2]].state = "absent",
           NEW m \in Log, First < m.block, p[2] \in Deploys[m]
    PROVE  p[1].block <= m.block
<1> USE LogAssumption, BlockAssumption DEF IInv, LogAssumption, BlockAssumption
<1>1. p[1] \in Batch /\ p[2] \in Addr /\ p = <<p[1], p[2]>>
    BY DEF WindowInv, Deployments
<1>2. from <= p[1].block /\ p[1].block <= To /\ from <= current
    BY <1>1 DEF Batch, WindowInv
<1>3. Below = from - 1 /\ Indexed(Below)
    BY <1>2 DEF Below, CursorInv, InRound, TypeOK
<1>4. ~ (m.block < from)
    BY <1>1, <1>3 DEF Indexed, IsIndexed, TypeOK
<1>5. CASE m.block > To
    BY <1>1, <1>2, <1>5 DEF Batch, TypeOK, To
<1>6. CASE m.block <= To
  <2>1. m \in Batch
    BY <1>4, <1>6 DEF Batch, TypeOK, To
  <2>2. <<m, p[2]>> \in todo
    BY <2>1 DEF WindowInv
  <2>3. ~ Earlier(m, p[1])
    BY <2>2 DEF NextDeployment
  <2>4. QED
    BY <1>1, <2>3 DEF Earlier, Batch
<1>7. QED
    BY <1>5, <1>6 DEF To, TypeOK

\* No step makes a child start too late.
LEMMA StepChildStarts ==
    ASSUME LogAssumption, BlockAssumption, IInv, [Next]_vars
    PROVE  ChildStartsBeforeDeployment'
<1> USE LogAssumption, BlockAssumption DEF IInv, LogAssumption, BlockAssumption
<1>1. CASE UNCHANGED child
    BY <1>1 DEF ChildStartsBeforeDeployment, First
<1>2. ASSUME NEW p \in todo, RegisterFactoryChild(p) \/ CloneFails(p)
      PROVE  ChildStartsBeforeDeployment'
  <2>1. pc = "register" /\ NextDeployment(p)
    BY <1>2 DEF RegisterFactoryChild, CloneFails
  <2>2. p[1] \in Log /\ p[2] \in Addr
    BY <2>1 DEF TypeOK
  <2>3. CASE UNCHANGED child
    BY <2>3 DEF ChildStartsBeforeDeployment, First
  <2>4. CASE /\ child[p[2]].state = "absent"
             /\ \E c \in BOOLEAN :
                    child' = [child EXCEPT ![p[2]] = ChildRow(p[1], p[2], c)]
    <3>1. child'[p[2]].start = p[1].block - 1
        BY <2>2, <2>4 DEF ChildRow, TypeOK
    <3>2. \A a \in Addr : a # p[2] => child'[a] = child[a]
        BY <2>4 DEF TypeOK
    <3>3. SUFFICES ASSUME NEW m \in Log, First < m.block, NEW a \in Deploys[m],
                          child'[a].state # "absent"
                   PROVE  child'[a].start < m.block
        BY DEF ChildStartsBeforeDeployment, First
    <3>4. CASE a = p[2]
        <4>1. p[1].block <= m.block
            BY <2>1, <2>4, <3>3, <3>4, NewChildIsFirst
        <4>2. QED
            BY <2>2, <3>1, <3>4, <4>1
    <3>5. CASE a # p[2]
        BY <3>2, <3>3, <3>5, DeploysType DEF ChildStartsBeforeDeployment
    <3>6. QED
        BY <3>4, <3>5
  <2>5. QED
    BY <1>2, <2>3, <2>4 DEF RegisterFactoryChild, CloneFails
<1>3. QED
    BY <1>1, <1>2, OtherStepsKeepChildren

\* No step takes back what is stored or registered.
LEMMA StepGrows ==
    ASSUME LogAssumption, BlockAssumption, IInv, [Next]_vars
    PROVE  Grows
<1>1. stored \subseteq stored' /\ txStored \subseteq txStored'
    BY DEF Next, WorkerStep, Fault, vars, Mine, StartSource, Cancel, Serve, Poll, FetchLogs,
       LoadBlockTimestamps, LoadTransactions,
       InsertLogs, InsertTransactions, AdvanceCursor, RoundDone, MarkStopped, Crash, CallFails,
       InsertLogsFails, RegisterFails, InsertTransactionsFails, AdvanceCursorFails,
       RegisterFactoryChild, CloneFails, storeVars
<1>2. ASSUME NEW a \in Addr, child[a].state # "absent" PROVE child'[a].state # "absent"
  <2>1. CASE UNCHANGED child
    BY <1>2, <2>1
  <2>2. ASSUME NEW p \in todo, RegisterFactoryChild(p) \/ CloneFails(p)
        PROVE  child'[a].state # "absent"
    BY <1>2, <2>2 DEF RegisterFactoryChild, CloneFails, ChildRow, IInv, TypeOK
  <2>3. QED
    BY <2>1, <2>2, OtherStepsKeepChildren
<1>3. QED
    BY <1>1, <1>2 DEF Grows

-----------------------------------------------------------------------------

\* The copies of the cursor stay ordered and indexed.
LEMMA StepCursorInv ==
    ASSUME LogAssumption, BlockAssumption, IInv, [Next]_vars
    PROVE  CursorInv'
<1> DEFINE Kept(b) == \A l \in Log : First < l.block /\ l.block <= b => IsIndexed(l)'
<1> USE BlockAssumption DEF IInv, BlockAssumption
<1>a. TypeOK /\ TypeOK'
    BY StepTypeOK
<1>b. \A b : Indexed(b) => Kept(b)
    BY StepGrows, PrefixIsStable
<1>c. Kept(StartBlock)
    BY LogAssumption DEF First, LogAssumption
<1>d. ASSUME pc \in {"register", "cursor"}, \A l \in Batch : IsIndexed(l)'
      PROVE  Kept(To)
  <2>1. Kept(from - 1)
    BY <1>a, <1>b, <1>d DEF CursorInv, InRound, WindowInv, Below, TypeOK
  <2>2. \A l \in Log : l.block <= To => l.block <= from - 1 \/ l \in Batch
    BY <1>a, LogAssumption DEF Batch, To, TypeOK, LogAssumption
  <2>3. QED
    BY <1>d, <2>1, <2>2
<1>1. CASE \/ Mine \/ Cancel \/ FetchLogs \/ LoadBlockTimestamps \/ LoadTransactions
           \/ InsertLogs \/ UNCHANGED vars
  <2>1. UNCHANGED <<syncBlock, source, latest, current, from>>
    BY <1>1 DEF Mine, Cancel, FetchLogs, LoadBlockTimestamps, LoadTransactions, InsertLogs,
       vars, dbVars, loopVars
  <2>2. /\ InRound' <=> InRound
        /\ pc' = "wait" <=> pc = "wait"
        /\ pc' \in {"dead", "off"} <=> pc \in {"dead", "off"}
    BY <1>1 DEF Mine, Cancel, FetchLogs, LoadBlockTimestamps, LoadTransactions, InWindow,
       InsertLogs, vars, InRound
  <2>3. Below' = Below
    BY <2>1 DEF Below
  <2>4. QED
    BY <1>b, <2>1, <2>2, <2>3 DEF CursorInv, Indexed
<1>2. CASE StartSource
    BY <1>a, <1>2, <1>b DEF StartSource, CursorInv, Indexed, InRound, dbVars, TypeOK
<1>3. CASE Serve
    BY <1>a, <1>3, <1>b, <1>c DEF Serve, CursorInv, Indexed, InRound, TypeOK
<1>4. ASSUME NEW h \in 0 .. head, Poll(h) PROVE CursorInv'
  <2>1. Below' = latest
    BY <1>a, <1>4 DEF Poll, WorthIndexing, Below, TypeOK
  <2>2. QED
    BY <1>a, <1>4, <1>b, <2>1 DEF Poll, CursorInv, Indexed, InRound, dbVars, TypeOK
<1>5. ASSUME NEW p \in todo, RegisterFactoryChild(p) PROVE CursorInv'
  <2>1. Below' = Below
    BY <1>5 DEF RegisterFactoryChild, Below
  <2>2. QED
    BY <1>5, <1>b, <2>1 DEF RegisterFactoryChild, CursorInv, Indexed, InRound, dbVars
<1>6. CASE InsertTransactions
  <2>1. Below' = Below
    BY <1>6 DEF InsertTransactions, Below, loopVars
  <2>2. QED
    BY <1>6, <1>b, <2>1 DEF InsertTransactions, CursorInv, Indexed, InRound, dbVars, loopVars
<1>7. CASE AdvanceCursor
  <2>1. Kept(To)
    BY <1>7, <1>d, StepGrows, IndexedIsStable, LogAssumption
       DEF AdvanceCursor, WindowInv, Batch
  <2>2. Below' = To
    BY <1>a, <1>7 DEF AdvanceCursor, Below, To, TypeOK
  <2>3. QED
    BY <1>a, <1>7, <2>1, <2>2 DEF AdvanceCursor, CursorInv, Indexed, InRound, TypeOK
<1>8. CASE RoundDone
  <2>1. Below = current
    BY <1>a, <1>8 DEF RoundDone, Below, TypeOK
  <2>2. QED
    BY <1>8, <1>b, <2>1 DEF RoundDone, CursorInv, Indexed, InRound, dbVars
<1>9. CASE pc' \in {"dead", "off"} /\ UNCHANGED syncBlock
    BY <1>9, <1>b DEF CursorInv, Indexed, InRound
<1>10. CASE pc' = "serve" /\ pc \notin {"dead", "off"} /\ UNCHANGED <<syncBlock, source>>
    BY <1>10, <1>b DEF CursorInv, Indexed, InRound
<1>11. CASE AdvanceCursorFails
  <2>1. Kept(To)
    BY <1>11, <1>d, StepGrows, IndexedIsStable, LogAssumption
       DEF AdvanceCursorFails, WindowInv, Batch
  <2>2. syncBlock <= To
    BY <1>a, <1>11 DEF AdvanceCursorFails, CursorInv, InRound, WindowInv, To, Below, TypeOK
  <2>3. pc' \in {"off", "serve"}
    BY <1>11 DEF AdvanceCursorFails, ServeReturnsError
  <2>4. QED
    BY <1>11, <1>b, <2>1, <2>2, <2>3 DEF AdvanceCursorFails, CursorInv, Indexed, InRound, dbVars
<1>12. ASSUME \/ MarkStopped \/ Crash \/ CallFails \/ InsertLogsFails \/ RegisterFails
              \/ InsertTransactionsFails
              \/ \E p \in todo : CloneFails(p)
       PROVE  CursorInv'
  <2>1. UNCHANGED <<syncBlock, source>>
    BY <1>12 DEF MarkStopped, Crash, CallFails, InsertLogsFails, RegisterFails,
       InsertTransactionsFails, CloneFails, dbVars
  <2>2. \/ pc' \in {"dead", "off"}
        \/ pc' = "serve" /\ pc \notin {"dead", "off"}
    <3>1. ServeReturnsError => pc' \in {"off", "serve"}
        BY DEF ServeReturnsError
    <3>2. QED
        BY <1>12, <3>1 DEF MarkStopped, Crash, CallFails, InWindow, InsertLogsFails,
           RegisterFails, InsertTransactionsFails, CloneFails
  <2>3. QED
    BY <1>9, <1>10, <2>1, <2>2
<1>13. QED
    BY <1>1, <1>2, <1>3, <1>4, <1>5, <1>6, <1>7, <1>8, <1>11, <1>12
       DEF Next, WorkerStep, Fault

\* What is done of a window is known at each of its steps.
LEMMA StepWindowInv ==
    ASSUME LogAssumption, BlockAssumption, IInv, [Next]_vars
    PROVE  WindowInv'
<1> USE DEF IInv
<1>a. TypeOK /\ Grows
    BY StepGrows
<1>1. CASE Mine \/ Cancel \/ UNCHANGED vars
  <2>1. UNCHANGED <<pc, current, from, todo, stored, txStored, child>>
    BY <1>1 DEF Mine, Cancel, vars, loopVars, storeVars
  <2>2. Batch' = Batch
    BY <2>1 DEF Batch, To
  <2>3. QED
    BY <2>1, <2>2 DEF WindowInv, IsIndexed
<1>2. CASE FetchLogs \/ LoadBlockTimestamps \/ LoadTransactions
    BY <1>2 DEF FetchLogs, LoadBlockTimestamps, LoadTransactions, InWindow, WindowInv
<1>3. CASE InsertLogs
  <2>1. Batch' = Batch
    BY <1>3 DEF InsertLogs, Batch, To
  <2>2. \A l \in Batch : \A a \in Deploys[l] : <<l, a>> \in Deployments(Batch)
    BY DeploysType DEF Deployments, Batch
  <2>3. Deployments(Batch)' = Deployments(Batch)
    BY <2>1 DEF Deployments
  <2>4. QED
    BY <1>3, <2>1, <2>2, <2>3 DEF InsertLogs, WindowInv
<1>4. ASSUME NEW p \in todo, RegisterFactoryChild(p) PROVE WindowInv'
  <2>1. Batch' = Batch /\ Deployments(Batch)' = Deployments(Batch)
    BY <1>4 DEF RegisterFactoryChild, Batch, To, Deployments
  <2>2. p[2] \in Addr /\ p = <<p[1], p[2]>> /\ child'[p[2]].state # "absent"
    BY <1>a, <1>4 DEF RegisterFactoryChild, TypeOK, ChildRow
  <2>3. ASSUME NEW l \in Batch, NEW a \in Deploys[l]
        PROVE  <<l, a>> \in todo' \/ child'[a].state # "absent"
    <3>1. a \in Addr
        BY DeploysType DEF Batch
    <3>2. CASE child[a].state # "absent"
        BY <1>a, <3>1, <3>2 DEF Grows
    <3>3. CASE <<l, a>> \in todo
        <4>1. CASE <<l, a>> = p
            BY <2>2, <4>1
        <4>2. CASE <<l, a>> # p
            BY <1>4, <3>3, <4>2 DEF RegisterFactoryChild
        <4>3. QED
            BY <4>1, <4>2
    <3>4. QED
        BY <1>4, <3>2, <3>3 DEF RegisterFactoryChild, WindowInv
  <2>4. QED
    BY <1>4, <2>1, <2>3 DEF RegisterFactoryChild, WindowInv, storeVars
<1>5. CASE InsertTransactions
  <2>1. Batch' = Batch
    BY <1>5 DEF InsertTransactions, Batch, To, loopVars
  <2>2. \A l \in Batch : IsIndexed(l)'
    BY <1>5 DEF InsertTransactions, WindowInv, IsIndexed, Batch
  <2>3. QED
    BY <1>5, <2>1, <2>2 DEF InsertTransactions, WindowInv, loopVars
<1>6. CASE pc' \in {"dead", "off", "serve", "wait", "window"}
    BY <1>6 DEF WindowInv
<1>7. ASSUME \/ StartSource \/ Serve \/ AdvanceCursor \/ RoundDone \/ MarkStopped \/ Crash
             \/ CallFails \/ InsertLogsFails \/ RegisterFails \/ InsertTransactionsFails
             \/ AdvanceCursorFails
             \/ \E h \in 0 .. head : Poll(h)
             \/ \E p \in todo : CloneFails(p)
      PROVE  WindowInv'
    BY <1>6, <1>7 DEF StartSource, Serve, AdvanceCursor, RoundDone, MarkStopped, Crash,
       CallFails, InsertLogsFails, RegisterFails, InsertTransactionsFails, AdvanceCursorFails,
       Poll, CloneFails, ServeReturnsError
<1>8. QED
    BY <1>1, <1>2, <1>3, <1>4, <1>5, <1>7 DEF Next, WorkerStep, Fault

-----------------------------------------------------------------------------

\* The invariant is inductive, so it holds in every behaviour of the worker.
THEOREM InductiveInvariant == Spec => []IInv
<1>1. Init => IInv
    BY InitIInv
<1>2. IInv /\ [Next]_vars => IInv'
    BY LogAssumption, BlockAssumption, StepTypeOK, StepCursorInv, StepWindowInv,
       StepChildStarts DEF IInv
<1>3. QED
    BY <1>1, <1>2, PTL DEF Spec

\* Types; in particular the start_block of a child never wraps below zero.
THEOREM TypeCorrect == Spec => []TypeOK
<1>1. IInv => TypeOK
    BY DEF IInv
<1>2. QED
    BY <1>1, InductiveInvariant, PTL

\* The sync_block column never runs ahead of the indexed data.
THEOREM CursorIsSafe == Spec => []IndexedUpToCursor
<1>1. IInv => IndexedUpToCursor
    BY DEF IInv, CursorInv, IndexedUpToCursor
<1>2. QED
    BY <1>1, InductiveInvariant, PTL

\* A child source starts before every log that announces its contract.
THEOREM ChildrenStartInTime == Spec => []ChildStartsBeforeDeployment
<1>1. IInv => ChildStartsBeforeDeployment
    BY DEF IInv
<1>2. QED
    BY <1>1, InductiveInvariant, PTL

\* The cursor column is only written by AdvanceCursor, and to a later block.
LEMMA CursorStep ==
    ASSUME BlockAssumption, IInv, [Next]_vars
    PROVE  \/ UNCHANGED syncBlock
           \/ AdvanceCursor /\ syncBlock' > syncBlock
<1>1. CASE AdvanceCursor
    BY <1>1, BlockAssumption DEF AdvanceCursor, IInv, CursorInv, WindowInv, InRound, To, Below,
       TypeOK, BlockAssumption
<1>2. CASE Mine \/ StartSource \/ Cancel \/ UNCHANGED vars
    BY <1>2 DEF Mine, StartSource, Cancel, vars, dbVars
<1>3. CASE WorkerStep
  <2>1. AdvanceCursor \/ UNCHANGED syncBlock
    BY <1>3 DEF WorkerStep, Serve, Poll, FetchLogs, LoadBlockTimestamps, LoadTransactions,
       InsertLogs, RegisterFactoryChild, InsertTransactions, RoundDone, MarkStopped, dbVars
  <2>2. QED
    BY <1>1, <2>1
<1>4. CASE Fault
    BY <1>4 DEF Fault, Crash, CallFails, InsertLogsFails, RegisterFails, CloneFails,
       InsertTransactionsFails, AdvanceCursorFails, dbVars
<1>5. QED
    BY <1>1, <1>2, <1>3, <1>4 DEF Next

\* The sync_block column never moves backwards.
THEOREM CursorIsMonotonic == Spec => CursorNeverRegresses
<1>1. IInv /\ [Next]_vars => [syncBlock' >= syncBlock]_syncBlock
  <2> SUFFICES ASSUME IInv, [Next]_vars PROVE syncBlock' >= syncBlock
    OBVIOUS
  <2>1. syncBlock \in Nat /\ syncBlock' \in Nat
    BY StepTypeOK, LogAssumption, BlockAssumption DEF IInv, TypeOK
  <2>2. QED
    BY <2>1, CursorStep, BlockAssumption
<1>2. QED
    BY <1>1, InductiveInvariant, PTL DEF Spec, CursorNeverRegresses

\* What reaches the store comes from the window, which lies above the cursor.
LEMMA StoreStep ==
    ASSUME LogAssumption, BlockAssumption, IInv, [Next]_vars
    PROVE  \E ls \in SUBSET {l \in Log : l.block > syncBlock} : stored' = stored \cup ls
<1>1. CASE InsertLogs \/ InsertLogsFails
  <2>1. Batch \subseteq {l \in Log : l.block > syncBlock}
    BY <1>1, LogAssumption DEF InsertLogs, InsertLogsFails, IInv, CursorInv, WindowInv, InRound,
       Below, Batch, TypeOK, LogAssumption
  <2>2. \E ls \in SUBSET Batch : stored' = stored \cup ls
    BY <1>1 DEF InsertLogs, InsertLogsFails
  <2>3. QED
    BY <2>1, <2>2
<1>2. CASE ~InsertLogs /\ ~InsertLogsFails
  <2>1. UNCHANGED stored
    BY <1>2 DEF Next, WorkerStep, Fault, vars, storeVars, Mine, StartSource, Cancel, Serve,
       Poll, FetchLogs, LoadBlockTimestamps, LoadTransactions, RegisterFactoryChild,
       InsertTransactions, AdvanceCursor, RoundDone, MarkStopped, Crash, CallFails,
       RegisterFails, CloneFails, InsertTransactionsFails, AdvanceCursorFails
  <2>2. stored' = stored \cup {}
    BY <2>1
  <2>3. QED
    BY <2>2
<1>3. QED
    BY <1>1, <1>2

\* The worker implements the contract of a log source.
THEOREM WorkerImplementsLogSource == Spec => ImplementsLogSource
<1>1. Init => Contract!Init
    BY BlockAssumption DEF Init, Contract!Init, BlockAssumption
<1>2. IInv /\ IInv' /\ [Next]_vars => [Contract!Next]_(Contract!srcVars)
  <2> SUFFICES ASSUME IInv, IInv', [Next]_vars
               PROVE  Contract!Next \/ UNCHANGED <<syncBlock, stored>>
    BY DEF Contract!srcVars
  <2>1. CASE UNCHANGED syncBlock
    BY <2>1, StoreStep, LogAssumption, BlockAssumption DEF Contract!Next, Contract!Store
  <2>2. CASE AdvanceCursor /\ syncBlock' > syncBlock
    <3>1. UNCHANGED stored /\ Indexed(syncBlock)'
        BY <2>2 DEF AdvanceCursor, storeVars, IInv, CursorInv
    <3>2. \A l \in Log : First < l.block /\ l.block <= syncBlock' => l \in stored
        BY <3>1 DEF Indexed, IsIndexed, First
    <3>3. QED
        BY <2>2, <3>1, <3>2 DEF Contract!Next, Contract!Advance, IInv, TypeOK
  <2>3. QED
    BY <2>1, <2>2, CursorStep, BlockAssumption
<1>3. QED
    BY <1>1, <1>2, InductiveInvariant, PTL DEF Spec, ImplementsLogSource, Contract!Spec

=============================================================================
