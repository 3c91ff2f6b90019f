------------------------- MODULE OrderJournalProofs -------------------------
(***************************************************************************)
(* The safety properties of OrderJournal, for every set of attempts and    *)
(* client order ids and every number of faults.                            *)
(***************************************************************************)
EXTENDS OrderJournal, TLAPS

-----------------------------------------------------------------------------
\* What the task has done so far.  A request exists only once the task is
\* past "prepared"; a result is held from the answer to the end; a row of its
\* own is the end of a task.
TaskInv ==
    \A o \in Attempt :
        /\ pc[o] \in {"ready", "prepared"} => wire[o] = "none"
        /\ outcome[o] # "none" => pc[o] \in {"answered", "staged"}
        /\ outcome[o] = "failed" => wire[o] = "none"
        /\ own[o] # "none" => pc[o] = "done"
        /\ own[o] = "failed" => wire[o] = "none"

\* The record of an attempt: an intent the job finds, a row, or history.
Kept(o) == journal[o] \in Uncommitted \/ RowOf(o) \/ o \in forgotten

\* The write-ahead rule: the record is there before the request leaves, and
\* from then on.  A resolved intent belongs to no order.
KeptInv ==
    \A o \in Attempt :
        pc[o] = "prepared" \/ wire[o] # "none" => Kept(o)

\* A row in the session of the job is the first for its attempt, and so is
\* the one that a lookup without a hit leads to.
JobInv ==
    /\ ~running => target = {} /\ staged = {}
    /\ \A o \in target : ~hit => recovered[o] = 0 /\ o \notin staged
    /\ \A o \in staged : recovered[o] = 0
    /\ \A o \in Attempt : recovered[o] <= 1

\* The inductive invariant.
IInv == TypeOK /\ TaskInv /\ KeptInv /\ JobInv

-----------------------------------------------------------------------------
\* The initial states satisfy the inductive invariant: nothing was sent,
\* noted or recovered yet (order_events and the journal are empty).
LEMMA InitInv == Init => IInv
<1> SUFFICES ASSUME Init PROVE IInv
  OBVIOUS
<1> USE DEF Init
<1>1. TypeOK
  <2>1. running \in BOOLEAN /\ hit \in BOOLEAN
    OBVIOUS
  <2>2. faults \in 0..MaxFaults
    BY FaultsAssumption
  <2> QED
    BY <2>1, <2>2
       DEF TypeOK, TaskStage, Wire, Outcome, RowStatus, IntentStatus
<1>2. TaskInv /\ KeptInv
  BY DEF TaskInv, KeptInv
<1>3. JobInv
  BY DEF JobInv
<1> QED BY <1>1, <1>2, <1>3 DEF IInv

\* The steps of a task keep the invariant (_execute_trade).
LEMMA TaskStepInv ==
  ASSUME IInv, NEW o \in Attempt, RecordIntent(o) \/ TaskStep(o)
  PROVE  IInv'
<1> USE DEF IInv, TypeOK, TaskStage, Live, Wire, Outcome, RowStatus,
            IntentStatus, Uncommitted, Marked
<1>1. CASE RecordIntent(o)
  BY <1>1 DEF RecordIntent, Advance, jobVars, TaskInv, KeptInv, Kept, RowOf,
              JobInv
<1>2. CASE CreateOrder(o)
  BY <1>2 DEF CreateOrder, jobVars, TaskInv, KeptInv, Kept, RowOf, JobInv
<1>3. CASE GetResult(o)
  <2> USE <1>3 DEF GetResult, Reports, Advance, Fault, jobVars
  <2>1. TypeOK'
    BY FaultsAssumption
  <2>2. TaskInv'
    BY DEF TaskInv
  <2>3. KeptInv'
    BY DEF TaskInv, KeptInv, Kept, RowOf
  <2>4. JobInv'
    BY DEF JobInv
  <2> QED BY <2>1, <2>2, <2>3, <2>4
<1>4. CASE LoseTask(o)
  <2> USE <1>4 DEF LoseTask, End, Advance, Fault, jobVars
  <2>1. TypeOK'
    BY FaultsAssumption
  <2>2. TaskInv'
    BY DEF TaskInv
  <2>3. KeptInv' /\ JobInv'
    BY DEF KeptInv, Kept, RowOf, JobInv
  <2> QED BY <2>1, <2>2, <2>3
<1>5. CASE Stage(o)
  <2> USE <1>5 DEF Stage, Advance, Fault, jobVars
  <2>1. TypeOK'
    BY FaultsAssumption
  <2>2. TaskInv'
    BY DEF TaskInv
  <2>3. KeptInv' /\ JobInv'
    BY DEF KeptInv, Kept, RowOf, JobInv
  <2> QED BY <2>1, <2>2, <2>3
<1>6. CASE Commit(o)
  <2> USE <1>6 DEF Commit, End, jobVars, RowStatusOf
  <2>1. TypeOK'
    OBVIOUS
  <2>2. TaskInv'
    BY DEF TaskInv
  <2>3. KeptInv' /\ JobInv'
    BY DEF TaskInv, KeptInv, Kept, RowOf, JobInv
  <2> QED BY <2>1, <2>2, <2>3
<1>7. CASE FailSession(o)
  BY <1>7, FaultsAssumption
     DEF FailSession, End, Fault, jobVars, TaskInv, KeptInv, Kept, RowOf,
         JobInv
<1> QED BY <1>1, <1>2, <1>3, <1>4, <1>5, <1>6, <1>7 DEF TaskStep

\* A request that reaches the exchange, or never does, has its record.
LEMMA DeliverInv ==
  ASSUME IInv, NEW o \in Attempt, Deliver(o)
  PROVE  IInv'
  BY DEF Deliver, IInv, TypeOK, TaskStage, Live, Wire, taskVars, jobVars,
         TaskInv, KeptInv, Kept, RowOf, JobInv

\* The steps of the job keep the invariant (recover_order_intent_journal).
LEMMA RecoveryStepInv ==
  ASSUME IInv, RecoveryStep
  PROVE  IInv'
<1> USE DEF IInv, TypeOK, TaskStage, Live, IntentStatus, Marked, taskVars
<1>1. CASE StartRecovery
  BY <1>1 DEF StartRecovery, OpenIntents, TaskInv, KeptInv, Kept, RowOf,
              JobInv
<1>2. CASE CommitRecovery
  <2> USE <1>2 DEF CommitRecovery
  <2>0. recovered' \in [Attempt -> Nat]
    OBVIOUS
  <2>1. TypeOK' /\ TaskInv'
    BY <2>0 DEF TaskInv
  <2>2. ASSUME NEW d \in Attempt, RowOf(d)
        PROVE  RowOf(d)'
    BY <2>2 DEF RowOf
  <2>3. KeptInv'
    BY <2>2 DEF KeptInv, Kept
  <2>4. JobInv'
    BY DEF JobInv
  <2> QED BY <2>1, <2>3, <2>4
<1>3. ASSUME NEW o \in Attempt, LookUp(o) PROVE IInv'
  <2> USE <1>3 DEF LookUp
  <2>1. TypeOK' /\ TaskInv' /\ KeptInv'
    BY DEF TaskInv, KeptInv, Kept, RowOf
  <2>2. ~hit' => recovered[o] = 0 /\ o \notin staged
    BY DEF RowOf
  <2>3. JobInv'
    BY <2>2 DEF JobInv
  <2> QED BY <2>1, <2>3
<1>4. ASSUME NEW o \in Attempt, Link(o) PROVE IInv'
  <2> USE <1>4 DEF Link, Advance, Forget
  <2>1. TypeOK' /\ TaskInv' /\ JobInv'
    BY DEF TaskInv, JobInv
  <2>2. KeptInv'
    BY DEF KeptInv, Kept, RowOf
  <2> QED BY <2>1, <2>2
<1>5. ASSUME NEW o \in Attempt, Surface(o) PROVE IInv'
  <2> USE <1>5 DEF Surface, Advance
  <2>1. TypeOK' /\ TaskInv' /\ JobInv'
    BY DEF TaskInv, JobInv
  <2>2. KeptInv'
    BY DEF KeptInv, Kept, RowOf
  <2> QED BY <2>1, <2>2
<1> QED BY <1>1, <1>2, <1>3, <1>4, <1>5 DEF RecoveryStep

\* When the session of the job is lost, so is the record of what it marked:
\* this is what "forgotten" remembers.
LEMMA DropJobKeeps ==
  ASSUME TypeOK, DropJob, UNCHANGED <<own, recovered, journal>>,
         NEW o \in Attempt, Kept(o)
  PROVE  Kept(o)'
  BY DEF TypeOK, DropJob, Forget, Kept, RowOf

\* A failure of the job keeps the invariant.
LEMMA AbortRecoveryInv ==
  ASSUME IInv, AbortRecovery
  PROVE  IInv'
<1> USE DEF AbortRecovery, IInv, taskVars
<1>1. TypeOK'
  <2>1. running' \in BOOLEAN /\ hit' \in BOOLEAN
    BY DEF DropJob
  <2>2. faults' \in 0..MaxFaults
    BY FaultsAssumption DEF Fault, TypeOK
  <2> QED BY <2>1, <2>2 DEF DropJob, Forget, TypeOK
<1>2. TaskInv'
  BY DEF TaskInv
<1>3. KeptInv'
  BY DropJobKeeps DEF KeptInv
<1>4. JobInv'
  BY DEF DropJob, JobInv
<1> QED BY <1>1, <1>2, <1>3, <1>4

\* A crash keeps the invariant.
LEMMA CrashInv ==
  ASSUME IInv, Crash
  PROVE  IInv'
<1> USE DEF Crash, IInv
<1>1. TypeOK'
  <2>1. running' \in BOOLEAN /\ hit' \in BOOLEAN
    BY DEF DropJob
  <2>2. faults' \in 0..MaxFaults
    BY FaultsAssumption DEF Fault, TypeOK
  <2> QED
    BY <2>1, <2>2 DEF DropJob, Forget, TypeOK, TaskStage, Live, Outcome
<1>2. TaskInv'
  BY DEF TypeOK, TaskInv, Live
<1>3. KeptInv'
  BY DropJobKeeps DEF KeptInv, TypeOK, Live
<1>4. JobInv'
  BY DEF DropJob, JobInv
<1> QED BY <1>1, <1>2, <1>3, <1>4

\* Every step keeps the inductive invariant.
LEMMA NextInv == IInv /\ [Next]_vars => IInv'
<1> SUFFICES ASSUME IInv, [Next]_vars PROVE IInv'
  OBVIOUS
<1>1. ASSUME NEW o \in Attempt, RecordIntent(o) \/ TaskStep(o) PROVE IInv'
  BY <1>1, TaskStepInv
<1>2. ASSUME NEW o \in Attempt, Deliver(o) PROVE IInv'
  BY <1>2, DeliverInv
<1>3. CASE RecoveryStep
  BY <1>3, RecoveryStepInv
<1>4. CASE AbortRecovery
  BY <1>4, AbortRecoveryInv
<1>5. CASE Crash
  BY <1>5, CrashInv
<1>6. CASE UNCHANGED vars
  BY <1>6 DEF vars, taskVars, jobVars, IInv, TypeOK, TaskInv, KeptInv, Kept,
              RowOf, JobInv
<1> QED BY <1>1, <1>2, <1>3, <1>4, <1>5, <1>6 DEF Next

\* The inductive invariant holds of every reachable state.
LEMMA InvHolds == Spec => []IInv
  BY InitInv, NextInv, PTL DEF Spec

-----------------------------------------------------------------------------
\* Every variable keeps its type: the file, the rows and the job hold only
\* the values the code writes.
THEOREM TypeCorrect == Spec => []TypeOK
<1>1. IInv => TypeOK
  BY DEF IInv
<1> QED BY <1>1, InvHolds, PTL

\* The write-ahead rule of record_order_intent pays off: at every moment an
\* order that exists is in an intent the job will find or has a row, except
\* for the two losses recorded in "forgotten".
THEOREM TrackedHolds == Spec => []Tracked
<1>1. IInv => Tracked
  BY DEF IInv, KeptInv, Kept, Tracked
<1> QED BY <1>1, InvHolds, PTL

\* _event_status never files an order that exists under "failed".
THEOREM FailureIsRealHolds == Spec => []FailureIsReal
<1>1. IInv => FailureIsReal
  BY DEF IInv, TaskInv, FailureIsReal
<1> QED BY <1>1, InvHolds, PTL

\* The job writes at most one row for an attempt, although the task may make
\* its intent uncommitted again after the job surfaced it.
THEOREM SurfacedOnceHolds == Spec => []SurfacedOnce
<1>1. IInv => SurfacedOnce
  BY DEF IInv, JobInv, SurfacedOnce
<1> QED BY <1>1, InvHolds, PTL
=============================================================================
