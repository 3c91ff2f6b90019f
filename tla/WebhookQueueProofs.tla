------------------------- MODULE WebhookQueueProofs -------------------------
(***************************************************************************)
(* Theorems about WebhookQueue, for any number of workers, rows, attempts, *)
(* crashes, requeues and database outages: its types, its safety, and the  *)
(* contract that it implements (DeliveryContract).  The theorems about     *)
(* workers assume either that Redis keeps the keys of live owners or, for  *)
(* LeaseSuffices, that the database answers and that nobody requeues.      *)
(***************************************************************************)
EXTENDS WebhookQueue, TLAPS

USE WorkerAssumption, AttemptsAssumption, FaultAssumption, BoundAssumption,
    HolderAssumption

\* A worker inside process_webhook_event works on a row.
JobOK == \A w \in Worker : pc[w] # "idle" => job[w] \in Event

TypeInv == TypeOK /\ JobOK

LEMMA ResultsTyped ==
    /\ Nothing \in Result /\ QueueFull \in Result /\ LockTimeout \in Result
    /\ Batched \in Result /\ Duplicate \in Result /\ LostGate \in Result
    /\ ScreenedResults \subseteq Result /\ ExchangeResults \subseteq Result
  BY DEF Nothing, QueueFull, LockTimeout, Batched, Duplicate, LostGate,
         ScreenedResults, ExchangeResults, Res, Result, ResultStatus, Flag

\* What a worker that leaves, or returns from the pipeline, does to the
\* variables it may change.
LEMMA LeaveTyped ==
    ASSUME TypeInv, NEW w \in Worker, pc[w] # "idle", Leave(w)
    PROVE  /\ lock' \in [Event -> Holder] /\ gate' \in [Fingerprint -> Holder]
           /\ pc' \in [Worker -> Stage] /\ job' \in [Worker -> Event \cup {0}]
           /\ result' \in [Worker -> Result]
           /\ seen' \in [Worker -> 0..MaxAttempts]
           /\ beating' \in [Worker -> BOOLEAN]
           /\ JobOK'
  BY ResultsTyped
  DEF TypeInv, TypeOK, JobOK, Leave, AtRest, LockReleased, GateReleased,
      Holder, Stage

LEMMA ReturnTyped ==
    ASSUME TypeInv, NEW w \in Worker, pc[w] # "idle", NEW r \in Result,
           Return(w, r)
    PROVE  /\ lock' \in [Event -> Holder] /\ gate' \in [Fingerprint -> Holder]
           /\ pc' \in [Worker -> Stage] /\ job' \in [Worker -> Event \cup {0}]
           /\ result' \in [Worker -> Result]
           /\ seen' \in [Worker -> 0..MaxAttempts]
           /\ beating' \in [Worker -> BOOLEAN]
           /\ JobOK'
  BY DEF TypeInv, TypeOK, JobOK, Return, GateReleased, Holder, Stage

LEMMA SettledTyped ==
    ASSUME NEW r \in Result, NEW n, NEW old \in Status
    PROVE  Settled(r, n, old) \in Status
  BY DEF Settled, Result, ResultStatus, Status, Active, Ignored, Review

LEMMA ExpiredTyped ==
    ASSUME TypeOK, NEW f \in Fingerprint
    PROVE  /\ Expired(f) \in [Event -> Status]
           /\ Untimed(f) \in [Event -> BOOLEAN]
  BY DEF TypeOK, Expired, Untimed, Status, Ignored

LEMMA InitTyped == Init => TypeInv
  BY ResultsTyped
  DEF Init, TypeInv, TypeOK, JobOK, Event, Status, Holder, Stage

-----------------------------------------------------------------------------
(***************************************************************************)
(* Type correctness is preserved, one lemma per group of actions.          *)
(***************************************************************************)
LEMMA HandlerTyped ==
    ASSUME TypeInv, NEW f \in Fingerprint, Reserve(f) \/ ExpireStale(f)
    PROVE  TypeInv'
<1>1. /\ Expired(f) \in [Event -> Status] /\ Untimed(f) \in [Event -> BOOLEAN]
  BY ExpiredTyped DEF TypeInv
<1>2. CASE Reserve(f)
  <2>1. reserved + 1 \in Event /\ reserved' \in 0..MaxEvents
    BY <1>2 DEF Reserve, TypeInv, TypeOK, Event
  <2>2. fp' \in [Event -> Fingerprint]
    BY <1>2, <2>1 DEF Reserve, TypeInv, TypeOK
  <2>3. status' \in [Event -> Status] /\ elapsed' \in [Event -> BOOLEAN]
    BY <1>1, <1>2, <2>1 DEF Reserve, Status, Active
  <2>4. kicks' \subseteq Event
    BY <1>2, <2>1 DEF Reserve, TypeInv, TypeOK
  <2> QED
    BY <1>2, <2>1, <2>2, <2>3, <2>4
    DEF Reserve, TypeInv, TypeOK, JobOK, lockVars, workerVars, ghostVars
<1>3. CASE ExpireStale(f)
  BY <1>1, <1>3
  DEF ExpireStale, TypeInv, TypeOK, JobOK, lockVars, workerVars, ghostVars
<1> QED
  BY <1>2, <1>3

LEMMA PickTyped ==
    ASSUME TypeInv, NEW w \in Worker,
           \/ \E e \in Event : Kick(w, e)
           \/ Poll(w) \/ TakeLock(w) \/ Busy(w)
    PROVE  TypeInv'
<1>1. CASE \E e \in Event : Kick(w, e)
  BY <1>1 DEF Kick, TypeInv, TypeOK, JobOK, Stage, rowVars, lockVars, ghostVars
<1>2. CASE Poll(w)
  <2>1. PollSet \subseteq Event
    BY DEF PollSet, Rows, Event, TypeInv, TypeOK
  <2> QED
    BY <1>2, <2>1
    DEF Poll, TypeInv, TypeOK, JobOK, Stage, rowVars, lockVars, ghostVars
<1>3. CASE TakeLock(w)
  BY <1>3 DEF TakeLock, TypeInv, TypeOK, JobOK, Stage, Holder, rowVars, ghostVars
<1>4. CASE Busy(w)
  BY <1>4, ResultsTyped
  DEF Busy, AtRest, TypeInv, TypeOK, JobOK, Stage, rowVars, lockVars, ghostVars
<1> QED
  BY <1>1, <1>2, <1>3, <1>4

LEMMA ClaimTyped ==
    ASSUME TypeInv, NEW w \in Worker, Claim(w) \/ Exhaust(w) \/ ClaimMissed(w)
    PROVE  TypeInv'
<1>1. job[w] \in Event /\ pc[w] # "idle"
  BY DEF TypeInv, JobOK, Claim, Exhaust, ClaimMissed
<1>2. CASE Claim(w)
  <2>1. attempts' \in [Event -> 0..MaxAttempts]
    BY <1>1, <1>2 DEF Claim, AttemptsLeft, TypeInv, TypeOK
  <2> QED
    BY <1>1, <1>2, <2>1
    DEF Claim, TypeInv, TypeOK, JobOK, Status, Active, Stage, lockVars, ghostVars
<1>3. CASE Exhaust(w)
  <2>1. Leave(w)
    BY <1>3 DEF Exhaust
  <2> QED
    BY <1>1, <1>3, <2>1, LeaveTyped
    DEF Exhaust, TypeInv, TypeOK, Status, Ignored, ghostVars
<1>4. CASE ClaimMissed(w)
  <2>1. Leave(w)
    BY <1>4 DEF ClaimMissed
  <2> QED
    BY <1>1, <1>4, <2>1, LeaveTyped
    DEF ClaimMissed, TypeInv, TypeOK, rowVars, ghostVars
<1> QED
  BY <1>2, <1>3, <1>4

\* Every action of the pipeline that returns a result to the worker.
Returning(w) ==
    \/ TurnAway(w) \/ FindDuplicate(w) \/ Screen(w) \/ Answer(w)
    \/ NoticeGateLoss(w)

LEMMA ReturningShape ==
    ASSUME NEW w \in Worker, Returning(w)
    PROVE  /\ pc[w] \in {"claimed", "gated", "submitting"}
           /\ \E r \in Result : Return(w, r)
           /\ UNCHANGED <<rowVars, kicks, ghostVars>>
  BY ResultsTyped
  DEF Returning, TurnAway, FindDuplicate, Screen, Answer, NoticeGateLoss, Gated

LEMMA ReturningTyped ==
    ASSUME TypeInv, NEW w \in Worker, Returning(w)
    PROVE  TypeInv'
<1>1. pc[w] # "idle" /\ UNCHANGED <<rowVars, kicks, ghostVars>>
  BY ReturningShape
<1>2. PICK r \in Result : Return(w, r)
  BY ReturningShape
<1> QED
  BY <1>1, <1>2, ReturnTyped DEF TypeInv, TypeOK, rowVars, ghostVars

LEMMA GateTyped ==
    ASSUME TypeInv, NEW w \in Worker, EnterGate(w) \/ Submit(w)
    PROVE  TypeInv'
<1>1. job[w] \in Event
  BY DEF TypeInv, JobOK, EnterGate, Submit
<1>2. CASE EnterGate(w)
  BY <1>1, <1>2
  DEF EnterGate, TypeInv, TypeOK, JobOK, Status, Active, Stage, Holder, ghostVars
<1>3. CASE Submit(w)
  BY <1>1, <1>3
  DEF Submit, TypeInv, TypeOK, JobOK, Stage, rowVars, lockVars
<1> QED
  BY <1>2, <1>3

\* Every action in which the worker writes the row and leaves.
Closing(w) ==
    \/ Unclassified(w) \/ RejectPayload(w) \/ Finish(w) \/ NoticeLockLoss(w)

LEMMA ClosingShape ==
    ASSUME TypeInv, NEW w \in Worker, Closing(w)
    PROVE  /\ pc[w] \in Holding
           /\ \E s \in Status : status' = [status EXCEPT ![job[w]] = s]
           /\ elapsed' = [elapsed EXCEPT ![job[w]] = FALSE]
           /\ Leave(w)
           /\ UNCHANGED <<reserved, fp, attempts, age, kicks, ghostVars>>
<1>1. CASE Unclassified(w) \/ RejectPayload(w) \/ NoticeLockLoss(w)
  BY <1>1
  DEF Unclassified, RejectPayload, NoticeLockLoss, Status, Ignored, Review,
      Holding, Working
<1>2. CASE Finish(w)
  <2>1. pc[w] = "finishing" /\ job[w] \in Event
    BY <1>2 DEF Finish, TypeInv, JobOK
  <2>2. status[job[w]] \in Status /\ result[w] \in Result
    BY <2>1 DEF TypeInv, TypeOK
  <2>3. Settled(result[w], seen[w], status[job[w]]) \in Status
    BY <2>2, SettledTyped
  <2> QED
    BY <1>2, <2>1, <2>3 DEF Finish, Status, Review, Holding, Working
<1> QED
  BY <1>1, <1>2 DEF Closing

LEMMA ClosingTyped ==
    ASSUME TypeInv, NEW w \in Worker, Closing(w)
    PROVE  TypeInv'
<1>1. pc[w] # "idle" /\ Leave(w)
  BY ClosingShape DEF Holding, Working
<1>2. job[w] \in Event
  BY <1>1 DEF TypeInv, JobOK
<1>3. PICK s \in Status : status' = [status EXCEPT ![job[w]] = s]
  BY ClosingShape
<1>4. /\ elapsed' = [elapsed EXCEPT ![job[w]] = FALSE]
      /\ UNCHANGED <<reserved, fp, attempts, age, kicks, ghostVars>>
  BY ClosingShape
<1> QED
  BY <1>1, <1>2, <1>3, <1>4, LeaveTyped DEF TypeInv, TypeOK, ghostVars

LEMMA FailureTyped ==
    ASSUME TypeInv, NEW w \in Worker, Crash(w) \/ Abandon(w)
    PROVE  TypeInv'
<1>1. job[w] \in Event /\ pc[w] # "idle"
  BY DEF TypeInv, JobOK, Crash, Abandon, Working
<1>2. crashes < MaxCrashes /\ OutcomeLost(w)
  BY DEF Crash, Abandon
<1>3. crashes' \in 0..MaxCrashes
  BY <1>2 DEF OutcomeLost, TypeInv, TypeOK
<1>4. waived' \in [Event -> BOOLEAN]
  BY <1>2 DEF OutcomeLost, TypeInv, TypeOK
<1>5. CASE Crash(w)
  <2>1. lock' \in [Event -> Holder] /\ gate' \in [Fingerprint -> Holder]
    BY <1>5 DEF Crash, Orphaned, TypeInv, TypeOK, Holder
  <2> QED
    BY <1>3, <1>4, <1>5, <2>1, ResultsTyped
    DEF Crash, AtRest, TypeInv, TypeOK, JobOK, Stage, rowVars
<1>6. CASE Abandon(w)
  <2>1. Leave(w)
    BY <1>6 DEF Abandon
  <2> QED
    BY <1>1, <1>3, <1>4, <1>6, <2>1, LeaveTyped DEF Abandon, TypeInv, TypeOK, rowVars
<1> QED
  BY <1>5, <1>6

LEMMA EnvironmentTyped ==
    ASSUME TypeInv,
           \/ \E w \in Worker : Heartbeat(w)
           \/ \E e \in Event : TimeOut(e) \/ GrowOld(e) \/ Requeue(e)
           \/ OrphanExpires \/ KeyLost
    PROVE  TypeInv'
<1>1. ASSUME NEW w \in Worker, Heartbeat(w) PROVE TypeInv'
  BY <1>1
  DEF Heartbeat, TypeInv, TypeOK, JobOK, Working, lockVars, ghostVars
<1>2. ASSUME NEW e \in Event, TimeOut(e) PROVE TypeInv'
  BY <1>2 DEF TimeOut, TypeInv, TypeOK, JobOK, lockVars, workerVars, ghostVars
<1>3. ASSUME NEW e \in Event, GrowOld(e) PROVE TypeInv'
  <2>1. age' \in [Event -> 0..2]
    BY <1>3 DEF GrowOld, TypeInv, TypeOK
  <2> QED
    BY <1>3, <2>1
    DEF GrowOld, TypeInv, TypeOK, JobOK, lockVars, workerVars, ghostVars
<1>4. ASSUME NEW e \in Event, Requeue(e) PROVE TypeInv'
  <2>1. attempts' \in [Event -> 0..MaxAttempts] /\ requeues' \in 0..MaxRequeues
    BY <1>4 DEF Requeue, TypeInv, TypeOK
  <2> QED
    BY <1>4, <2>1
    DEF Requeue, TypeInv, TypeOK, JobOK, Status, Active, lockVars, workerVars
<1>5. ASSUME OrphanExpires \/ KeyLost PROVE TypeInv'
  BY <1>5
  DEF OrphanExpires, KeyLost, TypeInv, TypeOK, JobOK, Holder, rowVars,
      workerVars, ghostVars
<1> QED
  BY <1>1, <1>2, <1>3, <1>4, <1>5

\* The steps of the specification, grouped as in the lemmas above.
LEMMA StepCases ==
    ASSUME [Next]_vars
    PROVE  \/ \E f \in Fingerprint : Reserve(f) \/ ExpireStale(f)
           \/ \E w \in Worker :
                 \/ (\E e \in Event : Kick(w, e)) \/ Poll(w) \/ TakeLock(w)
                 \/ Busy(w)
                 \/ Claim(w) \/ Exhaust(w) \/ ClaimMissed(w)
                 \/ Returning(w) \/ EnterGate(w) \/ Submit(w) \/ Closing(w)
                 \/ Crash(w) \/ Abandon(w)
           \/ \/ \E w \in Worker : Heartbeat(w)
              \/ \E e \in Event : TimeOut(e) \/ GrowOld(e) \/ Requeue(e)
              \/ OrphanExpires \/ KeyLost
           \/ UNCHANGED vars
  BY DEF Next, WorkerStep, Returning, Closing

LEMMA StepTyped == TypeInv /\ [Next]_vars => TypeInv'
<1> SUFFICES ASSUME TypeInv, [Next]_vars PROVE TypeInv'
  OBVIOUS
<1>1. CASE UNCHANGED vars
  BY <1>1
  DEF vars, rowVars, lockVars, workerVars, ghostVars, TypeInv, TypeOK, JobOK
<1> QED
  BY <1>1, StepCases, HandlerTyped, PickTyped, ClaimTyped, ReturningTyped,
     GateTyped, ClosingTyped, FailureTyped, EnvironmentTyped

\* Every variable keeps its type, whatever the numbers of workers, rows,
\* attempts, crashes and requeues, and whatever fails.
THEOREM TypeCorrect == Spec => []TypeOK
<1>1. TypeInv => TypeOK
  BY DEF TypeInv
<1> QED
  BY <1>1, InitTyped, StepTyped, PTL DEF Spec

-----------------------------------------------------------------------------
(***************************************************************************)
(* One worker per row: the lock of a row belongs to the worker inside.     *)
(***************************************************************************)
LockOwned == \A w \in Worker : pc[w] \in Holding => lock[job[w]] = w

\* The lock of the row tells two workers apart.
LEMMA LockExcludes ==
    ASSUME LockOwned, NEW v \in Worker, NEW w \in Worker,
           pc[v] \in Holding, pc[w] \in Holding, job[v] = job[w]
    PROVE  v = w
  BY DEF LockOwned

LEMMA LeaveKeepsLocks ==
    ASSUME TypeInv, LockOwned, NEW w \in Worker, pc[w] # "idle", Leave(w)
    PROVE  LockOwned'
<1>1. job[w] \in Event
  BY DEF TypeInv, JobOK
<1> SUFFICES ASSUME NEW v \in Worker, pc'[v] \in Holding
             PROVE  lock'[job'[v]] = v
  BY DEF LockOwned
<1>2. v # w /\ pc'[v] = pc[v] /\ job'[v] = job[v]
  BY DEF Leave, AtRest, TypeInv, TypeOK, Holding, Working
<1>3. lock[job[v]] = v /\ job[v] \in Event
  BY <1>2 DEF LockOwned, TypeInv, JobOK, Holding, Working
<1> QED
  BY <1>1, <1>2, <1>3 DEF Leave, LockReleased, TypeInv, TypeOK

LEMMA LockStep ==
    ASSUME ~RedisFaults, TypeInv, LockOwned, [Next]_vars
    PROVE  LockOwned'
<1>1. ASSUME NEW f \in Fingerprint, Reserve(f) \/ ExpireStale(f)
      PROVE  LockOwned'
  BY <1>1 DEF Reserve, ExpireStale, LockOwned, lockVars, workerVars
<1>2. ASSUME NEW w \in Worker,
             (\E e \in Event : Kick(w, e)) \/ Poll(w) \/ Busy(w)
      PROVE  LockOwned'
  BY <1>2
  DEF Kick, Poll, Busy, AtRest, LockOwned, TypeInv, TypeOK, Holding, Working,
      lockVars
<1>3. ASSUME NEW w \in Worker, TakeLock(w) PROVE LockOwned'
  <2>1. job[w] \in Event
    BY <1>3 DEF TakeLock, TypeInv, JobOK
  <2> QED
    BY <1>3, <2>1
    DEF TakeLock, LockFree, LockOwned, TypeInv, TypeOK, JobOK, Holding, Working
<1>4. ASSUME NEW w \in Worker, Claim(w) \/ EnterGate(w) \/ Submit(w)
      PROVE  LockOwned'
  BY <1>4
  DEF Claim, EnterGate, Submit, LockOwned, TypeInv, TypeOK, Holding, Working,
      lockVars
<1>5. ASSUME NEW w \in Worker,
             Exhaust(w) \/ ClaimMissed(w) \/ Closing(w) \/ Abandon(w)
      PROVE  LockOwned'
  <2>1. pc[w] # "idle" /\ Leave(w)
    BY <1>5, ClosingShape
    DEF Exhaust, ClaimMissed, Abandon, Holding, Working
  <2> QED
    BY <2>1, LeaveKeepsLocks
<1>6. ASSUME NEW w \in Worker, Returning(w) PROVE LockOwned'
  <2>1. PICK r \in Result : Return(w, r)
    BY <1>6, ReturningShape
  <2>2. pc[w] \in Holding
    BY <1>6, ReturningShape DEF Holding, Working
  <2> QED
    BY <2>1, <2>2 DEF Return, LockOwned, TypeInv, TypeOK, Holding, Working
<1>7. ASSUME NEW w \in Worker, Crash(w) PROVE LockOwned'
  BY <1>7
  DEF Crash, AtRest, Orphaned, LockOwned, TypeInv, TypeOK, JobOK, Holding,
      Working
<1>8. ASSUME \/ \E w \in Worker : Heartbeat(w)
             \/ \E e \in Event : TimeOut(e) \/ GrowOld(e) \/ Requeue(e)
      PROVE  LockOwned'
  BY <1>8
  DEF Heartbeat, TimeOut, GrowOld, Requeue, LockOwned, lockVars, workerVars
<1>9. ASSUME OrphanExpires \/ KeyLost PROVE LockOwned'
  BY <1>9
  DEF OrphanExpires, KeyLost, LockOwned, TypeInv, TypeOK, JobOK, workerVars,
      Holding, Working
<1>10. CASE UNCHANGED vars
  BY <1>10 DEF vars, lockVars, workerVars, LockOwned
<1> QED
  BY <1>1, <1>2, <1>3, <1>4, <1>5, <1>6, <1>7, <1>8, <1>9, <1>10, StepCases

\* While Redis keeps the keys of live owners, two workers are never in the
\* pipeline for one row, whatever crashes, expires or is requeued.
THEOREM OnePipelineHolds == ~RedisFaults => (Spec => []OnePipeline)
<1> SUFFICES ASSUME ~RedisFaults PROVE Spec => []OnePipeline
  OBVIOUS
<1>1. Init => TypeInv /\ LockOwned
  BY InitTyped DEF Init, LockOwned, Holding, Working
<1>2. TypeInv /\ LockOwned /\ [Next]_vars => (TypeInv /\ LockOwned)'
  BY StepTyped, LockStep
<1>3. TypeInv /\ LockOwned => OnePipeline
  BY DEF TypeInv, LockOwned, OnePipeline, Holding
<1> QED
  BY <1>1, <1>2, <1>3, PTL DEF Spec

-----------------------------------------------------------------------------
(***************************************************************************)
(* The inductive invariant of the rows.                                    *)
(***************************************************************************)
\* Rows that are not inserted yet are untouched: workers and kicks refer
\* to rows of the table.
FreshRows ==
    /\ \A e \in Event : e > reserved => status[e] = "absent" /\ submitted[e] = 0
    /\ \A w \in Worker : pc[w] # "idle" => job[w] \in Rows
    /\ kicks \subseteq Rows

\* While a worker runs the pipeline, its row can be given up or requeued
\* by others, but nobody settles it for an operator or defers it.
OwnedRow ==
    \A w \in Worker :
        pc[w] \in Working => status[job[w]] \notin Review \cup {"retrying"}

\* A result the worker neither retries nor takes for a duplicate.
Conclusive(r) == ~Retryable(r) /\ r.status # "duplicate"

\* The only order of a row is in the hands of the worker that sent it...
OrderPending(e) ==
    \E w \in Worker : /\ job[w] = e
                      /\ \/ pc[w] = "submitting"
                         \/ pc[w] = "finishing" /\ Conclusive(result[w])

\* ... or its row is terminal and nobody works on it.
OrderSettled(e) ==
    /\ status[e] \notin Active
    /\ \A w \in Worker : job[w] = e => pc[w] \notin Working

OrderOnce ==
    \A e \in Event : submitted[e] > 0 /\ ~waived[e]
        => /\ submitted[e] = 1
           /\ OrderPending(e) \/ OrderSettled(e)

SafetyInv == TypeInv /\ LockOwned /\ FreshRows /\ OwnedRow /\ OrderOnce

RowInv == FreshRows /\ OwnedRow /\ OrderOnce

\* An order that nobody has licensed to be repeated is pending with the
\* only worker of its row.
LEMMA OrderWithWorker ==
    ASSUME SafetyInv, NEW w \in Worker, pc[w] \in Working,
           submitted[job[w]] > 0, ~waived[job[w]]
    PROVE  /\ submitted[job[w]] = 1
           /\ \/ pc[w] = "submitting"
              \/ pc[w] = "finishing" /\ Conclusive(result[w])
<1>1. job[w] \in Event /\ pc[w] \in Holding
  BY DEF SafetyInv, TypeInv, JobOK, Working, Holding
<1>2. submitted[job[w]] = 1 /\ ~OrderSettled(job[w])
  BY <1>1 DEF SafetyInv, OrderOnce, OrderSettled
<1>3. OrderPending(job[w])
  BY <1>1, <1>2 DEF SafetyInv, OrderOnce
<1>4. PICK v \in Worker : /\ job[v] = job[w]
                          /\ \/ pc[v] = "submitting"
                             \/ pc[v] = "finishing" /\ Conclusive(result[v])
  BY <1>3 DEF OrderPending
<1>5. v = w
  BY <1>1, <1>4, LockExcludes DEF SafetyInv, Holding, Working
<1> QED
  BY <1>2, <1>4, <1>5

LEMMA InitSafe == Init => RowInv
  BY DEF Init, RowInv, FreshRows, OwnedRow, OrderOnce, Rows, Working

LEMMA HandlerSafe ==
    ASSUME SafetyInv, NEW f \in Fingerprint, Reserve(f) \/ ExpireStale(f)
    PROVE  RowInv'
<1>1. /\ UNCHANGED <<workerVars, ghostVars>>
      /\ reserved \in Nat /\ reserved' \in {reserved, reserved + 1}
      /\ kicks' \subseteq kicks \cup {reserved'}
  BY DEF Reserve, ExpireStale, SafetyInv, TypeInv, TypeOK
<1>2. ASSUME NEW e \in Event
      PROVE  /\ Expired(f)[e] = status[e] \/ Expired(f)[e] = "failed"
             /\ e \notin Rows => Expired(f)[e] = status[e]
  BY DEF Expired, ActiveRows
<1>3. ASSUME NEW e \in Event
      PROVE  /\ e \in Rows => status'[e] = status[e] \/ status'[e] = "failed"
             /\ e > reserved' => status'[e] = status[e]
  <2>1. CASE ExpireStale(f)
    BY <1>2, <1>3, <2>1 DEF ExpireStale, Rows, Event, SafetyInv, TypeInv, TypeOK
  <2>2. CASE Reserve(f)
    <3>1. /\ e # reserved + 1 => status'[e] = Expired(f)[e]
          /\ reserved' = reserved + 1
      BY <1>3, <2>2 DEF Reserve, Expired
    <3> QED
      BY <1>1, <1>2, <1>3, <3>1 DEF Rows, Event
  <2> QED
    BY <2>1, <2>2
<1>4. \A e \in Event : e \in Rows \/ submitted[e] = 0
  BY <1>1 DEF SafetyInv, FreshRows, Rows, Event
<1>5. FreshRows'
  <2>1. /\ \A e \in Event : e > reserved' => e > reserved
        /\ reserved' \in Rows' \/ kicks' \subseteq kicks
    BY <1>1
    DEF Rows, Event, Reserve, ExpireStale, SafetyInv, TypeInv, TypeOK
  <2>2. \A e \in Event : e > reserved' => status'[e] = "absent" /\ submitted'[e] = 0
    BY <1>1, <1>3, <2>1 DEF SafetyInv, FreshRows, ghostVars
  <2>3. Rows \subseteq Rows'
    BY <1>1 DEF Rows
  <2>4. \A w \in Worker : pc'[w] # "idle" => job'[w] \in Rows'
    BY <1>1, <2>3 DEF SafetyInv, FreshRows, workerVars
  <2>5. kicks' \subseteq Rows'
    BY <1>1, <2>1, <2>3 DEF SafetyInv, FreshRows
  <2> QED
    BY <2>2, <2>4, <2>5 DEF FreshRows
<1>6. OwnedRow'
  BY <1>1, <1>3
  DEF SafetyInv, TypeInv, JobOK, FreshRows, OwnedRow, Review, Working, workerVars
<1>7. ASSUME NEW e \in Event, submitted'[e] > 0, ~waived'[e]
      PROVE  submitted'[e] = 1 /\ (OrderPending(e) \/ OrderSettled(e))'
  <2>1. e \in Rows /\ submitted[e] > 0 /\ ~waived[e]
    BY <1>1, <1>4, <1>7 DEF ghostVars
  <2>2. submitted'[e] = 1 /\ (OrderPending(e) \/ OrderSettled(e))
    BY <1>1, <2>1 DEF SafetyInv, OrderOnce, ghostVars
  <2>3. OrderPending(e) => OrderPending(e)'
    BY <1>1 DEF OrderPending, workerVars
  <2>4. OrderSettled(e) => OrderSettled(e)'
    BY <1>1, <1>3, <2>1 DEF OrderSettled, Active, workerVars
  <2> QED
    BY <2>2, <2>3, <2>4
<1> QED
  BY <1>5, <1>6, <1>7 DEF RowInv, OrderOnce

\* A worker outside the pipeline picks a row, gives up or takes the lock.
LEMMA PickSafe ==
    ASSUME SafetyInv, NEW w \in Worker,
           \/ \E e \in Event : Kick(w, e)
           \/ Poll(w) \/ TakeLock(w) \/ Busy(w)
    PROVE  RowInv'
<1>1. /\ UNCHANGED <<rowVars, ghostVars>>
      /\ kicks' \subseteq kicks
      /\ pc[w] \notin Working /\ pc'[w] \notin Working
      /\ \A v \in Worker \ {w} : /\ pc'[v] = pc[v] /\ job'[v] = job[v]
                                 /\ result'[v] = result[v]
  BY DEF Kick, Poll, TakeLock, Busy, AtRest, SafetyInv, TypeInv, TypeOK,
         Working
<1>2. pc'[w] # "idle" => job'[w] \in Rows
  BY DEF Kick, Poll, TakeLock, Busy, AtRest, PollSet, SafetyInv, FreshRows,
         TypeInv, TypeOK
<1>3. FreshRows'
  BY <1>1, <1>2 DEF SafetyInv, FreshRows, Rows, rowVars, ghostVars
<1>4. OwnedRow'
  BY <1>1 DEF SafetyInv, OwnedRow, rowVars
<1>5. OrderOnce'
  BY <1>1
  DEF SafetyInv, OrderOnce, OrderPending, OrderSettled, Working, rowVars,
      ghostVars
<1> QED
  BY <1>3, <1>4, <1>5 DEF RowInv

\* The worker moves inside the pipeline before the submission: only the
\* status of its own row changes, from active to "processing".
LEMMA EnterSafe ==
    ASSUME SafetyInv, NEW w \in Worker, Claim(w) \/ EnterGate(w)
    PROVE  RowInv'
<1>1. /\ job[w] \in Event /\ pc[w] \in Holding
      /\ pc[w] \notin {"submitting", "finishing"}
      /\ status[job[w]] \in Active
  BY DEF Claim, EnterGate, Due, SafetyInv, TypeInv, JobOK, Holding, Working,
         Active
<1>2. /\ UNCHANGED <<reserved, kicks, job, result, ghostVars>>
      /\ status' = [status EXCEPT ![job[w]] = "processing"]
      /\ pc'[w] \in {"claimed", "gated"}
      /\ \A v \in Worker \ {w} : pc'[v] = pc[v]
  BY DEF Claim, EnterGate, SafetyInv, TypeInv, TypeOK
<1>3. \A v \in Worker \ {w} : job[v] = job[w] => pc[v] \notin Working
  BY <1>1, LockExcludes DEF SafetyInv, Holding
<1>4. submitted[job[w]] > 0 => waived[job[w]]
  BY <1>1, <1>3
  DEF SafetyInv, OrderOnce, OrderPending, OrderSettled, Working
<1>5. FreshRows'
  BY <1>1, <1>2
  DEF SafetyInv, TypeInv, TypeOK, FreshRows, Rows, ghostVars, Holding, Working,
      Active
<1>6. OwnedRow'
  BY <1>1, <1>2, <1>3
  DEF SafetyInv, TypeInv, TypeOK, JobOK, OwnedRow, Review, Working
<1>7. OrderOnce'
  BY <1>1, <1>2, <1>4
  DEF SafetyInv, TypeInv, TypeOK, OrderOnce, OrderPending, OrderSettled, Working,
      ghostVars
<1> QED
  BY <1>5, <1>6, <1>7 DEF RowInv

LEMMA SubmitSafe ==
    ASSUME SafetyInv, NEW w \in Worker, Submit(w)
    PROVE  RowInv'
<1>1. /\ job[w] \in Event /\ pc[w] = "gated" /\ job[w] \in Rows
      /\ submitted[job[w]] \in Nat
  BY DEF Submit, SafetyInv, TypeInv, TypeOK, JobOK, FreshRows
<1>2. submitted[job[w]] > 0 => waived[job[w]]
  BY <1>1, OrderWithWorker DEF Working
<1>3. /\ UNCHANGED <<rowVars, kicks, job, result, waived>>
      /\ submitted' = [submitted EXCEPT ![job[w]] = @ + 1]
      /\ pc' = [pc EXCEPT ![w] = "submitting"]
  BY DEF Submit
<1>4. FreshRows'
  BY <1>1, <1>3 DEF SafetyInv, TypeInv, TypeOK, FreshRows, Rows, Event, rowVars
<1>5. OwnedRow'
  BY <1>1, <1>3 DEF SafetyInv, TypeInv, TypeOK, OwnedRow, Working, rowVars
<1>6. ASSUME NEW e \in Event, submitted'[e] > 0, ~waived'[e]
      PROVE  submitted'[e] = 1 /\ (OrderPending(e) \/ OrderSettled(e))'
  <2>1. CASE e = job[w]
    BY <1>1, <1>2, <1>3, <1>6, <2>1
    DEF SafetyInv, TypeInv, TypeOK, OrderPending
  <2>2. CASE e # job[w]
    BY <1>1, <1>3, <1>6, <2>2
    DEF SafetyInv, TypeInv, TypeOK, OrderOnce, OrderPending, OrderSettled,
        Working, rowVars
  <2> QED
    BY <2>1, <2>2
<1> QED
  BY <1>4, <1>5, <1>6 DEF RowInv, OrderOnce

\* The pipeline returns: if the row has an unlicensed order, it is the one
\* the worker has just sent, and what it returns is conclusive.
LEMMA ReturningSafe ==
    ASSUME SafetyInv, NEW w \in Worker, Returning(w)
    PROVE  RowInv'
<1>1. pc[w] \in {"claimed", "gated", "submitting"} /\ UNCHANGED <<rowVars, kicks, ghostVars>>
  BY ReturningShape
<1>2. PICK r \in Result : Return(w, r)
  BY ReturningShape
<1>3. /\ UNCHANGED job
      /\ pc' = [pc EXCEPT ![w] = "finishing"]
      /\ result' = [result EXCEPT ![w] = r]
  BY <1>2 DEF Return
<1>4. pc[w] = "submitting" => \E q \in ExchangeResults \cup {LostGate} : Return(w, q)
  BY DEF Returning, TurnAway, FindDuplicate, Screen, Answer, NoticeGateLoss
<1>5. \A q \in ExchangeResults \cup {LostGate} : Conclusive(q)
  BY DEF ExchangeResults, LostGate, Conclusive, Retryable, Res
<1>6. pc[w] = "submitting" => Conclusive(result'[w])
  BY <1>4, <1>5 DEF Return, SafetyInv, TypeInv, TypeOK
<1>7. FreshRows'
  BY <1>1, <1>3
  DEF SafetyInv, TypeInv, TypeOK, FreshRows, Rows, rowVars, ghostVars
<1>8. OwnedRow'
  BY <1>1, <1>3 DEF SafetyInv, TypeInv, TypeOK, OwnedRow, Working, rowVars
<1>9. ASSUME NEW e \in Event, submitted'[e] > 0, ~waived'[e]
      PROVE  submitted'[e] = 1 /\ (OrderPending(e) \/ OrderSettled(e))'
  <2>1. submitted[e] > 0 /\ ~waived[e]
    BY <1>1, <1>9 DEF ghostVars
  <2>2. CASE e = job[w]
    <3>1. submitted[e] = 1 /\ pc[w] = "submitting"
      BY <1>1, <2>1, <2>2, OrderWithWorker DEF Working
    <3> QED
      BY <1>1, <1>3, <1>6, <2>2, <3>1
      DEF OrderPending, SafetyInv, TypeInv, TypeOK, ghostVars
  <2>3. CASE e # job[w]
    BY <1>1, <1>3, <2>1, <2>3
    DEF SafetyInv, TypeInv, TypeOK, OrderOnce, OrderPending, OrderSettled,
        Working, rowVars, ghostVars
  <2> QED
    BY <2>2, <2>3
<1> QED
  BY <1>7, <1>8, <1>9 DEF RowInv, OrderOnce

\* What the last write of a worker in the pipeline makes of its row.
LEMMA ClosingStatus ==
    ASSUME SafetyInv, NEW w \in Worker, Closing(w), ~RedisFaults
    PROVE  /\ pc[w] \in Working
           /\ pc[w] = "finishing" /\ Conclusive(result[w])
              => status'[job[w]] \notin Active
           /\ pc[w] = "submitting" => status'[job[w]] \notin Active
<1>1. job[w] \in Event /\ status[job[w]] \in Status
  BY ClosingShape
  DEF SafetyInv, TypeInv, TypeOK, JobOK, Holding, Working
<1>2. ~NoticeLockLoss(w)
  BY DEF NoticeLockLoss, SafetyInv, LockOwned
<1>3. CASE Unclassified(w) \/ RejectPayload(w)
  BY <1>1, <1>3
  DEF Unclassified, RejectPayload, Working, Active, SafetyInv, TypeInv, TypeOK
<1>4. CASE Finish(w)
  <2>1. /\ pc[w] = "finishing" /\ pc[w] \in Working
        /\ \/ status'[job[w]] = "manual_review"
           \/ status'[job[w]] = Settled(result[w], seen[w], status[job[w]])
    BY <1>1, <1>4 DEF Finish, Working, SafetyInv, TypeInv, TypeOK
  <2>2. result[w] \in Result
    BY DEF SafetyInv, TypeInv, TypeOK
  <2>3. Conclusive(result[w])
          => Settled(result[w], seen[w], status[job[w]]) \notin Active
    BY <2>2, Zenon DEF Settled, Conclusive, Result, ResultStatus, Active
  <2> QED
    BY <2>1, <2>3 DEF Active
<1> QED
  BY <1>2, <1>3, <1>4 DEF Closing

\* A worker leaves: nobody is in the pipeline of its row any more.
LEMMA LeavingSafe ==
    ASSUME SafetyInv, ~RedisFaults, NEW w \in Worker,
           Exhaust(w) \/ ClaimMissed(w) \/ Closing(w)
    PROVE  RowInv'
<1>1. /\ job[w] \in Event /\ job[w] \in Rows /\ pc[w] \in Holding
      /\ Leave(w)
      /\ UNCHANGED <<reserved, kicks, ghostVars>>
      /\ \A e \in Event : e # job[w] => status'[e] = status[e]
  <2>1. CASE Exhaust(w) \/ ClaimMissed(w)
    BY <2>1
    DEF Exhaust, ClaimMissed, SafetyInv, TypeInv, TypeOK, JobOK, FreshRows,
        Holding, Working, rowVars
  <2>2. CASE Closing(w)
    BY <2>2, ClosingShape
    DEF SafetyInv, TypeInv, TypeOK, JobOK, FreshRows, Holding, Working
  <2> QED
    BY <2>1, <2>2
<1>2. /\ pc'[w] = "idle"
      /\ \A v \in Worker \ {w} : /\ pc'[v] = pc[v] /\ job'[v] = job[v]
                                 /\ result'[v] = result[v]
  BY <1>1 DEF Leave, AtRest, SafetyInv, TypeInv, TypeOK
<1>3. \A v \in Worker \ {w} : job[v] = job[w] => pc[v] \notin Working
  BY <1>1, LockExcludes DEF SafetyInv, Holding
<1>4. FreshRows'
  <2>1. \A e \in Event : e > reserved => e # job[w]
    BY <1>1 DEF SafetyInv, TypeInv, TypeOK, Rows, Event
  <2> QED
    BY <1>1, <1>2, <2>1 DEF SafetyInv, FreshRows, Rows, ghostVars
<1>5. OwnedRow'
  BY <1>1, <1>2, <1>3
  DEF SafetyInv, TypeInv, JobOK, OwnedRow, Working
<1>6. ASSUME NEW e \in Event, submitted'[e] > 0, ~waived'[e]
      PROVE  submitted'[e] = 1 /\ (OrderPending(e) \/ OrderSettled(e))'
  <2>1. submitted[e] > 0 /\ ~waived[e]
    BY <1>1, <1>6 DEF ghostVars
  <2>2. CASE e = job[w]
    <3>1. \A v \in Worker : job'[v] = e => pc'[v] \notin Working
      BY <1>2, <1>3, <2>2 DEF Working
    <3>2. submitted[e] = 1
      BY <2>1 DEF SafetyInv, OrderOnce
    <3>3. CASE Closing(w)
      BY <1>1, <2>1, <2>2, <3>1, <3>2, <3>3, ClosingStatus, OrderWithWorker
      DEF OrderSettled, ghostVars
    <3>4. CASE Exhaust(w) \/ ClaimMissed(w)
      <4>1. status[e] \notin Active
        BY <1>3, <2>1, <2>2, <3>4
        DEF Exhaust, ClaimMissed, SafetyInv, OrderOnce, OrderPending,
            OrderSettled, Working
      <4> QED
        BY <1>1, <2>2, <3>1, <3>2, <3>4, <4>1
        DEF Exhaust, ClaimMissed, Due, OrderSettled, Active, rowVars, ghostVars
    <3> QED
      BY <3>3, <3>4
  <2>3. CASE e # job[w]
    BY <1>1, <1>2, <2>1, <2>3
    DEF SafetyInv, OrderOnce, OrderPending, OrderSettled, Working, ghostVars
  <2> QED
    BY <2>2, <2>3
<1> QED
  BY <1>4, <1>5, <1>6 DEF RowInv, OrderOnce

\* A worker dies or gives up: its order, if it has sent one, is licensed.
LEMMA FailureSafe ==
    ASSUME SafetyInv, NEW w \in Worker, Crash(w) \/ Abandon(w)
    PROVE  RowInv'
<1>1. /\ job[w] \in Event
      /\ UNCHANGED <<rowVars, kicks, submitted>>
      /\ OutcomeLost(w) /\ AtRest(w)
  BY DEF Crash, Abandon, Leave, SafetyInv, TypeInv, JobOK, Working
<1>2. /\ pc'[w] = "idle"
      /\ \A v \in Worker \ {w} : /\ pc'[v] = pc[v] /\ job'[v] = job[v]
                                 /\ result'[v] = result[v]
  BY <1>1 DEF AtRest, SafetyInv, TypeInv, TypeOK
<1>3. FreshRows'
  BY <1>1, <1>2 DEF SafetyInv, FreshRows, Rows, rowVars
<1>4. OwnedRow'
  BY <1>1, <1>2 DEF SafetyInv, OwnedRow, Working, rowVars
<1>5. ASSUME NEW e \in Event, submitted'[e] > 0, ~waived'[e]
      PROVE  submitted'[e] = 1 /\ (OrderPending(e) \/ OrderSettled(e))'
  <2>1. /\ submitted[e] > 0 /\ ~waived[e]
        /\ e = job[w] => pc[w] \notin {"submitting", "finishing"}
    BY <1>1, <1>5 DEF OutcomeLost, SafetyInv, TypeInv, TypeOK
  <2>2. submitted[e] = 1 /\ (OrderPending(e) \/ OrderSettled(e))
    BY <2>1 DEF SafetyInv, OrderOnce
  <2>3. OrderPending(e) => OrderPending(e)'
    BY <1>2, <2>1 DEF OrderPending
  <2>4. OrderSettled(e) => OrderSettled(e)'
    BY <1>1, <1>2 DEF OrderSettled, Working, rowVars
  <2> QED
    BY <1>1, <2>2, <2>3, <2>4
<1> QED
  BY <1>3, <1>4, <1>5 DEF RowInv, OrderOnce

LEMMA EnvironmentSafe ==
    ASSUME SafetyInv,
           \/ \E w \in Worker : Heartbeat(w)
           \/ \E e \in Event : TimeOut(e) \/ GrowOld(e) \/ Requeue(e)
           \/ OrphanExpires \/ KeyLost
    PROVE  RowInv'
<1>1. UNCHANGED <<reserved, kicks, pc, job, result, submitted>>
  BY DEF Heartbeat, TimeOut, GrowOld, Requeue, OrphanExpires, KeyLost, rowVars,
         workerVars, ghostVars
<1>2. CASE UNCHANGED <<status, waived>>
  BY <1>1, <1>2
  DEF SafetyInv, RowInv, FreshRows, OwnedRow, OrderOnce, OrderPending,
      OrderSettled, Rows
<1>3. ASSUME NEW e \in Event, Requeue(e) PROVE RowInv'
  <2>1. /\ e \in Rows
        /\ status' = [status EXCEPT ![e] = "received"]
        /\ waived' = [waived EXCEPT ![e] = TRUE]
    BY <1>3 DEF Requeue
  <2>2. FreshRows'
    BY <1>1, <2>1 DEF SafetyInv, TypeInv, TypeOK, FreshRows, Rows, Event
  <2>3. OwnedRow'
    BY <1>1, <2>1
    DEF SafetyInv, TypeInv, TypeOK, JobOK, OwnedRow, Review, Working
  <2>4. OrderOnce'
    BY <1>1, <2>1
    DEF SafetyInv, TypeInv, TypeOK, OrderOnce, OrderPending, OrderSettled
  <2> QED
    BY <2>2, <2>3, <2>4 DEF RowInv
<1> QED
  BY <1>2, <1>3
  DEF Heartbeat, TimeOut, GrowOld, OrphanExpires, KeyLost, rowVars, ghostVars

LEMMA SafetyStep == ~RedisFaults /\ SafetyInv /\ [Next]_vars => SafetyInv'
<1> SUFFICES ASSUME ~RedisFaults, SafetyInv, [Next]_vars PROVE SafetyInv'
  OBVIOUS
<1>1. TypeInv' /\ LockOwned'
  BY StepTyped, LockStep DEF SafetyInv
<1>2. ASSUME UNCHANGED vars PROVE RowInv'
  <2>1. UNCHANGED <<reserved, status, kicks, pc, job, result, submitted, waived>>
    BY <1>2 DEF vars, rowVars, workerVars, ghostVars
  <2>2. FreshRows' /\ OwnedRow'
    BY <2>1 DEF SafetyInv, FreshRows, OwnedRow, Rows
  <2>3. OrderOnce'
    BY <2>1 DEF SafetyInv, OrderOnce, OrderPending, OrderSettled
  <2> QED
    BY <2>2, <2>3 DEF RowInv
<1>3. ASSUME NEW w \in Worker,
             \/ (\E e \in Event : Kick(w, e)) \/ Poll(w) \/ TakeLock(w)
             \/ Busy(w)
             \/ Claim(w) \/ Exhaust(w) \/ ClaimMissed(w)
             \/ Returning(w) \/ EnterGate(w) \/ Submit(w) \/ Closing(w)
             \/ Crash(w) \/ Abandon(w)
      PROVE  RowInv'
  BY <1>3, PickSafe, EnterSafe, SubmitSafe, ReturningSafe, LeavingSafe,
     FailureSafe
<1>4. RowInv'
  BY <1>2, <1>3, StepCases, HandlerSafe, EnvironmentSafe
<1> QED
  BY <1>1, <1>4 DEF SafetyInv, RowInv

LEMMA SafetyInvHolds == ~RedisFaults => (Spec => []SafetyInv)
<1> SUFFICES ASSUME ~RedisFaults PROVE Spec => []SafetyInv
  OBVIOUS
<1>1. Init => SafetyInv
  BY InitTyped, InitSafe
  DEF SafetyInv, RowInv, Init, LockOwned, Holding, Working
<1>2. SafetyInv /\ [Next]_vars => SafetyInv'
  BY SafetyStep
<1> QED
  BY <1>1, <1>2, PTL DEF Spec

\* No result of the pipeline leads to a second order for a row: every
\* repeated order has a lost outcome or an operator behind it.
THEOREM SingleSubmissionHolds == ~RedisFaults => (Spec => []SingleSubmission)
<1> SUFFICES ASSUME ~RedisFaults PROVE Spec => []SingleSubmission
  OBVIOUS
<1>1. SafetyInv => SingleSubmission
  BY DEF SafetyInv, TypeInv, TypeOK, OrderOnce, SingleSubmission
<1> QED
  BY <1>1, SafetyInvHolds, PTL

\* A row waits for a retry only if its order was never sent.
THEOREM RetryBeforeExchangeHolds ==
    ~RedisFaults => (Spec => []RetryBeforeExchange)
<1> SUFFICES ASSUME ~RedisFaults PROVE Spec => []RetryBeforeExchange
  OBVIOUS
<1>1. SafetyInv => RetryBeforeExchange
  BY DEF SafetyInv, OwnedRow, OrderOnce, OrderPending, OrderSettled,
         RetryBeforeExchange, Active, Working
<1> QED
  BY <1>1, SafetyInvHolds, PTL

\* A step that takes a row out of manual review, or changes what became of
\* a rolled-back entry, is a requeue.
LEMMA ReviewStep ==
    ASSUME ~RedisFaults, SafetyInv, [Next]_vars, NEW e \in Event,
           status[e] \in Review, status'[e] # status[e]
    PROVE  requeues' = requeues + 1
<1>1. status[e] \notin Active /\ status[e] # "absent"
  BY DEF Review, Active
<1>2. ASSUME NEW f \in Fingerprint, Reserve(f) \/ ExpireStale(f) PROVE FALSE
  <2>1. Expired(f) \in [Event -> Status] /\ Expired(f)[e] = status[e]
    BY <1>1, ExpiredTyped DEF Expired, ActiveRows, SafetyInv, TypeInv
  <2>2. e # reserved + 1
    BY <1>1 DEF SafetyInv, FreshRows, TypeInv, TypeOK, Event
  <2> QED
    BY <1>2, <2>1, <2>2
    DEF Reserve, ExpireStale
<1>3. ASSUME NEW w \in Worker, pc[w] \in Working, Closing(w) PROVE FALSE
  <2>1. e = job[w]
    BY <1>3, ClosingShape DEF SafetyInv, TypeInv, TypeOK
  <2> QED
    BY <1>3, <2>1 DEF SafetyInv, OwnedRow
<1>4. ASSUME NEW w \in Worker, Closing(w) PROVE FALSE
  BY <1>3, <1>4, ClosingStatus
<1>5. ASSUME NEW w \in Worker, Claim(w) \/ Exhaust(w) \/ EnterGate(w) PROVE FALSE
  BY <1>1, <1>5
  DEF Claim, Exhaust, EnterGate, Due, SafetyInv, TypeInv, TypeOK, Active
<1>6. ASSUME NEW w \in Worker,
             \/ \E d \in Event : Kick(w, d)
             \/ Poll(w) \/ TakeLock(w) \/ Busy(w) \/ ClaimMissed(w)
             \/ Submit(w) \/ Crash(w) \/ Abandon(w)
      PROVE  FALSE
  BY <1>6
  DEF Kick, Poll, TakeLock, Busy, ClaimMissed, Submit, Crash, Abandon, rowVars
<1>7. ASSUME NEW w \in Worker, Returning(w) PROVE FALSE
  BY <1>7, ReturningShape DEF rowVars
<1>8. ASSUME NEW d \in Event, Requeue(d) PROVE requeues' = requeues + 1
  BY <1>8 DEF Requeue
<1>9. ASSUME \/ \E w \in Worker : Heartbeat(w)
             \/ \E d \in Event : TimeOut(d) \/ GrowOld(d)
             \/ OrphanExpires \/ KeyLost
      PROVE  FALSE
  BY <1>9 DEF Heartbeat, TimeOut, GrowOld, OrphanExpires, KeyLost, rowVars
<1>10. ~UNCHANGED vars
  BY DEF vars, rowVars
<1> QED
  BY <1>2, <1>4, <1>5, <1>6, <1>7, <1>8, <1>9, <1>10, StepCases

\* Manual review and rolled back are final but for the operator.
THEOREM ReviewIsFinalHolds == ~RedisFaults => (Spec => ReviewIsFinal)
<1> SUFFICES ASSUME ~RedisFaults PROVE Spec => ReviewIsFinal
  OBVIOUS
<1>1. SafetyInv /\ [Next]_vars
        => [\A e \in Event : status[e] \in Review /\ status'[e] # status[e]
                             => requeues' = requeues + 1]_vars
  BY ReviewStep
<1> QED
  BY <1>1, SafetyInvHolds, PTL DEF Spec, ReviewIsFinal

-----------------------------------------------------------------------------
(***************************************************************************)
(* One active row per fingerprint, with or without Redis.                  *)
(***************************************************************************)
\* The status of a row changes and no row becomes active: the index holds.
LEMMA NoneActivated ==
    ASSUME OneActiveRow, reserved' = reserved, fp' = fp,
           \A e \in Rows : status'[e] \in Active => status[e] \in Active
    PROVE  OneActiveRow'
  BY DEF OneActiveRow, Rows

\* A row becomes active where the index allows it.
LEMMA OneActivated ==
    ASSUME TypeOK, OneActiveRow, reserved' = reserved, fp' = fp,
           NEW e \in Rows, IndexAllows(e, status),
           \A d \in Rows \ {e} : status'[d] = status[d]
    PROVE  OneActiveRow'
<1>1. \A d \in Rows \ {e} : fp[d] = fp[e] => status[d] \notin Active
  BY DEF IndexAllows, ActiveRows
<1> QED
  BY <1>1 DEF OneActiveRow, Rows

LEMMA ReserveKeepsIndex ==
    ASSUME TypeOK, OneActiveRow, NEW f \in Fingerprint, Reserve(f)
    PROVE  OneActiveRow'
<1>1. \A e \in Rows : e \in Event /\ e # reserved + 1
  BY DEF TypeOK, Rows, Event
<1>2. \A e \in Rows : /\ fp'[e] = fp[e] /\ status'[e] = Expired(f)[e]
                      /\ status'[e] \in Active => status[e] \in Active
                      /\ fp[e] = f => status'[e] \notin Active
  BY <1>1 DEF Reserve, Expired, ActiveRows, Active, TypeOK
<1>3. /\ Rows' = Rows \cup {reserved + 1}
      /\ fp'[reserved + 1] = f
  BY DEF Reserve, Rows, Event, TypeOK
<1> QED
  BY <1>2, <1>3 DEF OneActiveRow

\* The retry of a worker is the only write that asks the index.
LEMMA ClosingKeepsIndex ==
    ASSUME TypeInv, OneActiveRow, NEW w \in Worker, Closing(w)
    PROVE  OneActiveRow'
<1>1. /\ reserved' = reserved /\ fp' = fp
      /\ job[w] \in Event /\ status[job[w]] \in Status
      /\ \A e \in Event : e # job[w] => status'[e] = status[e]
  BY ClosingShape DEF TypeInv, TypeOK, JobOK, Holding, Working
<1>2. Rows \subseteq Event
  BY DEF TypeInv, TypeOK, Rows, Event
<1>3. CASE status'[job[w]] \in Active => status[job[w]] \in Active
  BY <1>1, <1>2, <1>3, NoneActivated
<1>4. CASE status'[job[w]] \in Active /\ status[job[w]] \notin Active
  <2>1. Finish(w)
    BY <1>1, <1>4
    DEF Closing, Unclassified, RejectPayload, NoticeLockLoss, Active, TypeInv,
        TypeOK
  <2>2. status'[job[w]] = Settled(result[w], seen[w], status[job[w]])
    BY <1>1, <1>4, <2>1 DEF Finish, Active, TypeInv, TypeOK
  <2>3. result[w] \in Result
    BY DEF TypeInv, TypeOK
  <2>4. Settled(result[w], seen[w], status[job[w]]) = "retrying"
    BY <1>1, <1>4, <2>2, <2>3, Zenon
    DEF Settled, Result, ResultStatus, Active
  <2>5. IndexAllows(job[w], status)
    BY <1>1, <1>4, <2>1, <2>4 DEF Finish, Active, TypeInv, TypeOK
  <2>6. CASE job[w] \in Rows
    BY <1>1, <1>2, <2>5, <2>6, OneActivated DEF TypeInv
  <2>7. CASE job[w] \notin Rows
    BY <1>1, <1>2, <2>7, NoneActivated
  <2> QED
    BY <2>6, <2>7
<1> QED
  BY <1>3, <1>4

LEMMA IndexStep == TypeInv /\ OneActiveRow /\ [Next]_vars => OneActiveRow'
<1> SUFFICES ASSUME TypeInv, OneActiveRow, [Next]_vars PROVE OneActiveRow'
  OBVIOUS
<1>1. Rows \subseteq Event
  BY DEF TypeInv, TypeOK, Rows, Event
<1>2. ASSUME NEW f \in Fingerprint, Reserve(f) PROVE OneActiveRow'
  BY <1>2, ReserveKeepsIndex DEF TypeInv
<1>3. ASSUME NEW f \in Fingerprint, ExpireStale(f) PROVE OneActiveRow'
  BY <1>1, <1>3, NoneActivated DEF ExpireStale, Expired, Active
<1>4. ASSUME NEW w \in Worker, Claim(w) \/ Exhaust(w) \/ EnterGate(w)
      PROVE  OneActiveRow'
  BY <1>1, <1>4, NoneActivated
  DEF Claim, Exhaust, EnterGate, Due, Active, TypeInv, TypeOK
<1>5. ASSUME NEW w \in Worker, Closing(w) PROVE OneActiveRow'
  BY <1>5, ClosingKeepsIndex
<1>6. ASSUME NEW w \in Worker,
             \/ \E e \in Event : Kick(w, e)
             \/ Poll(w) \/ TakeLock(w) \/ Busy(w) \/ ClaimMissed(w)
             \/ Submit(w) \/ Crash(w) \/ Abandon(w)
      PROVE  OneActiveRow'
  BY <1>6, NoneActivated
  DEF Kick, Poll, TakeLock, Busy, ClaimMissed, Submit, Crash, Abandon, rowVars
<1>7. ASSUME NEW w \in Worker, Returning(w) PROVE OneActiveRow'
  BY <1>7, ReturningShape, NoneActivated DEF rowVars
<1>8. ASSUME NEW e \in Event, Requeue(e) PROVE OneActiveRow'
  BY <1>1, <1>8, OneActivated DEF Requeue, TypeInv, TypeOK
<1>9. ASSUME \/ \E w \in Worker : Heartbeat(w)
             \/ \E e \in Event : TimeOut(e) \/ GrowOld(e)
             \/ OrphanExpires \/ KeyLost
      PROVE  OneActiveRow'
  BY <1>9, NoneActivated
  DEF Heartbeat, TimeOut, GrowOld, OrphanExpires, KeyLost, rowVars
<1>10. CASE UNCHANGED vars
  BY <1>10, NoneActivated DEF vars, rowVars
<1> QED
  BY <1>2, <1>3, <1>4, <1>5, <1>6, <1>7, <1>8, <1>9, <1>10, StepCases

\* No two rows of a fingerprint are active: the code never relies on a
\* write that the index would refuse, except where it handles the refusal.
THEOREM OneActiveRowHolds == Spec => []OneActiveRow
<1>1. Init => TypeInv /\ OneActiveRow
  BY InitTyped DEF Init, OneActiveRow, Rows
<1>2. TypeInv /\ OneActiveRow /\ [Next]_vars => (TypeInv /\ OneActiveRow)'
  BY StepTyped, IndexStep
<1> QED
  BY <1>1, <1>2, PTL DEF Spec

-----------------------------------------------------------------------------
(***************************************************************************)
(* The lease of a row alone.  Keys may be lost and Redis may fail: what    *)
(* keeps a second worker out is that the row stays "processing" and young  *)
(* as long as a worker is in the pipeline, or that it is not active.       *)
(***************************************************************************)
LeaseAlone == ~DbFaults /\ MaxRequeues = 0

Leased ==
    \A w \in Worker : pc[w] \in Working =>
        \/ status[job[w]] \notin Active
        \/ status[job[w]] = "processing" /\ ~elapsed[job[w]] /\ beating[w]

LeaseInv == TypeInv /\ FreshRows /\ OnePipeline /\ Leased /\ OrderOnce

\* A row that can be claimed has no worker in the pipeline.
LEMMA DueIsFree ==
    ASSUME LeaseInv, NEW e \in Event, Due(e), NEW w \in Worker, job[w] = e
    PROVE  pc[w] \notin Working
  BY DEF Due, LeaseInv, Leased, Active

\* An order that nobody has licensed to be repeated is pending with the only
\* worker of its row.
LEMMA OrderWithLessee ==
    ASSUME LeaseInv, NEW w \in Worker, pc[w] \in Working,
           submitted[job[w]] > 0, ~waived[job[w]]
    PROVE  /\ submitted[job[w]] = 1
           /\ \/ pc[w] = "submitting"
              \/ pc[w] = "finishing" /\ Conclusive(result[w])
<1>1. job[w] \in Event
  BY DEF LeaseInv, TypeInv, JobOK, Working
<1>2. submitted[job[w]] = 1 /\ ~OrderSettled(job[w])
  BY <1>1 DEF LeaseInv, OrderOnce, OrderSettled
<1>3. OrderPending(job[w])
  BY <1>1, <1>2 DEF LeaseInv, OrderOnce
<1>4. PICK v \in Worker : /\ job[v] = job[w]
                          /\ \/ pc[v] = "submitting"
                             \/ pc[v] = "finishing" /\ Conclusive(result[v])
  BY <1>3 DEF OrderPending
<1>5. v = w
  BY <1>4 DEF LeaseInv, OnePipeline, Working
<1> QED
  BY <1>2, <1>4, <1>5

LEMMA InitLeased == Init => LeaseInv
  BY InitTyped DEF Init, LeaseInv, FreshRows, OnePipeline, Leased, OrderOnce, Rows, Working

LEMMA HandlerLeased ==
    ASSUME LeaseInv, TypeInv', NEW f \in Fingerprint, Reserve(f) \/ ExpireStale(f)
    PROVE  LeaseInv'
<1>1. /\ UNCHANGED <<workerVars, ghostVars>>
      /\ reserved \in Nat /\ reserved' \in {reserved, reserved + 1}
      /\ reserved' = reserved + 1 => kicks' = kicks \cup {reserved'}
      /\ reserved' = reserved => kicks' = kicks
      /\ reserved' <= MaxEvents
  BY DEF Reserve, ExpireStale, LeaseInv, TypeInv, TypeOK
<1>2. ASSUME NEW e \in Event
      PROVE  /\ e \in Rows => \/ status'[e] = status[e] /\ elapsed'[e] = elapsed[e]
                              \/ status'[e] = "failed"
             /\ e > reserved' => status'[e] = status[e]
  <2>1. /\ Expired(f)[e] = status[e] /\ Untimed(f)[e] = elapsed[e]
        \/ Expired(f)[e] = "failed"
    BY DEF Expired, Untimed, LeaseInv, TypeInv, TypeOK
  <2>2. e \notin Rows => Expired(f)[e] = status[e]
    BY DEF Expired, ActiveRows
  <2>3. CASE ExpireStale(f)
    BY <2>1, <2>2, <2>3, <1>1 DEF ExpireStale, Rows, Event
  <2>4. CASE Reserve(f)
    <3>1. /\ e # reserved + 1 => status'[e] = Expired(f)[e]
          /\ elapsed'[e] = Untimed(f)[e] /\ reserved' = reserved + 1
      BY <2>4 DEF Reserve, Expired
    <3> QED
      BY <1>1, <2>1, <2>2, <3>1 DEF Rows, Event
  <2> QED
    BY <2>3, <2>4
<1>3. \A e \in Event : e \in Rows \/ submitted[e] = 0
  BY <1>1 DEF LeaseInv, FreshRows, Rows, Event
<1>4. FreshRows'
  <2>1. Rows \subseteq Rows' /\ kicks' \subseteq Rows'
    <3>1. Rows \subseteq Rows' /\ (reserved' = reserved + 1 => reserved' \in Rows')
      BY <1>1 DEF Rows
    <3>2. kicks \subseteq Rows
      BY DEF LeaseInv, FreshRows
    <3> QED
      BY <1>1, <3>1, <3>2
  <2>2. \A e \in Event : e > reserved' => e > reserved
    BY <1>1 DEF Event
  <2>3. \A e \in Event : e > reserved' => status'[e] = "absent" /\ submitted'[e] = 0
    BY <1>1, <1>2, <2>2 DEF LeaseInv, FreshRows, ghostVars
  <2> QED
    BY <1>1, <2>1, <2>3 DEF LeaseInv, FreshRows, workerVars
<1>5. \A w \in Worker : pc[w] \in Working => job[w] \in Event /\ job[w] \in Rows
  BY DEF LeaseInv, TypeInv, JobOK, FreshRows, Working
<1>6. OnePipeline'
  BY <1>1 DEF LeaseInv, OnePipeline, workerVars
<1>7. Leased'
  BY <1>1, <1>2, <1>5 DEF LeaseInv, Leased, workerVars, Active
<1>8. ASSUME NEW e \in Event, submitted'[e] > 0, ~waived'[e]
      PROVE  submitted'[e] = 1 /\ (OrderPending(e) \/ OrderSettled(e))'
  <2>1. e \in Rows /\ submitted[e] > 0 /\ ~waived[e]
    BY <1>1, <1>3, <1>8 DEF ghostVars
  <2>2. submitted'[e] = 1 /\ (OrderPending(e) \/ OrderSettled(e))
    BY <1>1, <2>1 DEF LeaseInv, OrderOnce, ghostVars
  <2>3. OrderPending(e) => OrderPending(e)'
    BY <1>1 DEF OrderPending, workerVars
  <2>4. OrderSettled(e) => OrderSettled(e)'
    BY <1>1, <1>2, <2>1 DEF OrderSettled, Active, workerVars
  <2> QED
    BY <2>2, <2>3, <2>4
<1> QED
  BY <1>4, <1>6, <1>7, <1>8 DEF LeaseInv, OrderOnce

\* A worker outside the pipeline picks a row, gives up or takes the lock.
LEMMA PickLeased ==
    ASSUME LeaseInv, TypeInv', NEW w \in Worker,
           \/ \E e \in Event : Kick(w, e)
           \/ Poll(w) \/ TakeLock(w) \/ Busy(w)
    PROVE  LeaseInv'
<1>1. /\ UNCHANGED <<rowVars, ghostVars>>
      /\ kicks' \subseteq kicks
      /\ pc[w] \notin Working /\ pc'[w] \notin Working
      /\ \A v \in Worker \ {w} : /\ pc'[v] = pc[v] /\ job'[v] = job[v]
                                 /\ result'[v] = result[v] /\ beating'[v] = beating[v]
  BY DEF Kick, Poll, TakeLock, Busy, AtRest, LeaseInv, TypeInv, TypeOK, Working
<1>2. pc'[w] # "idle" => job'[w] \in Rows
  BY DEF Kick, Poll, TakeLock, Busy, AtRest, PollSet, LeaseInv, FreshRows,
         TypeInv, TypeOK
<1>3. FreshRows'
  BY <1>1, <1>2 DEF LeaseInv, FreshRows, Rows, rowVars, ghostVars
<1>4. OnePipeline' /\ Leased'
  BY <1>1 DEF LeaseInv, OnePipeline, Leased, rowVars
<1>5. OrderOnce'
  BY <1>1
  DEF LeaseInv, OrderOnce, OrderPending, OrderSettled, Working, rowVars, ghostVars
<1> QED
  BY <1>3, <1>4, <1>5 DEF LeaseInv

\* The worker claims its row, or enters the gate.
LEMMA EnterLeased ==
    ASSUME LeaseInv, TypeInv', NEW w \in Worker, Claim(w) \/ EnterGate(w)
    PROVE  LeaseInv'
<1>1. /\ job[w] \in Event /\ job[w] \in Rows
      /\ pc[w] \in {"locked", "claimed"}
      /\ status[job[w]] \in Active
  BY DEF Claim, EnterGate, Due, LeaseInv, TypeInv, JobOK, FreshRows, Active
<1>2. /\ UNCHANGED <<reserved, kicks, job, result, ghostVars>>
      /\ status' = [status EXCEPT ![job[w]] = "processing"]
      /\ elapsed' = [elapsed EXCEPT ![job[w]] = FALSE]
      /\ pc'[w] \in {"claimed", "gated"}
      /\ \A v \in Worker \ {w} : pc'[v] = pc[v] /\ beating'[v] = beating[v]
  BY DEF Claim, EnterGate, LeaseInv, TypeInv, TypeOK
<1>3. \A v \in Worker \ {w} : job[v] = job[w] => pc[v] \notin Working
  <2>1. CASE Claim(w)
    BY <1>1, <2>1, DueIsFree DEF Claim
  <2>2. CASE EnterGate(w)
    BY <2>2 DEF EnterGate, LeaseInv, OnePipeline, Working
  <2> QED
    BY <2>1, <2>2
<1>4. beating'[w]
  BY <1>1 DEF Claim, EnterGate, LeaseInv, Leased, Working, TypeInv, TypeOK
<1>5. submitted[job[w]] > 0 => waived[job[w]]
  BY <1>1, <1>3 DEF LeaseInv, OrderOnce, OrderPending, OrderSettled, Working
<1>6. FreshRows'
  BY <1>1, <1>2
  DEF LeaseInv, TypeInv, TypeOK, FreshRows, Rows, Event, ghostVars
<1>7. OnePipeline'
  BY <1>2, <1>3 DEF LeaseInv, OnePipeline, Working
<1>8. Leased'
  BY <1>1, <1>2, <1>3, <1>4
  DEF LeaseInv, TypeInv, TypeOK, JobOK, Leased, Working, Active
<1>9. OrderOnce'
  BY <1>1, <1>2, <1>5
  DEF LeaseInv, TypeInv, TypeOK, OrderOnce, OrderPending, OrderSettled, Working,
      ghostVars
<1> QED
  BY <1>6, <1>7, <1>8, <1>9 DEF LeaseInv

LEMMA SubmitLeased ==
    ASSUME LeaseInv, TypeInv', NEW w \in Worker, Submit(w)
    PROVE  LeaseInv'
<1>1. /\ job[w] \in Event /\ pc[w] = "gated" /\ job[w] \in Rows
      /\ submitted[job[w]] \in Nat
  BY DEF Submit, LeaseInv, TypeInv, TypeOK, JobOK, FreshRows
<1>2. submitted[job[w]] > 0 => waived[job[w]]
  BY <1>1, OrderWithLessee DEF Working
<1>3. /\ UNCHANGED <<rowVars, kicks, job, result, beating, waived>>
      /\ submitted' = [submitted EXCEPT ![job[w]] = @ + 1]
      /\ pc' = [pc EXCEPT ![w] = "submitting"]
  BY DEF Submit
<1>4. FreshRows'
  BY <1>1, <1>3 DEF LeaseInv, TypeInv, TypeOK, FreshRows, Rows, Event, rowVars
<1>5. OnePipeline' /\ Leased'
  BY <1>1, <1>3 DEF LeaseInv, TypeInv, TypeOK, OnePipeline, Leased, Working, rowVars
<1>6. ASSUME NEW e \in Event, submitted'[e] > 0, ~waived'[e]
      PROVE  submitted'[e] = 1 /\ (OrderPending(e) \/ OrderSettled(e))'
  <2>1. CASE e = job[w]
    BY <1>1, <1>2, <1>3, <1>6, <2>1
    DEF LeaseInv, TypeInv, TypeOK, OrderPending
  <2>2. CASE e # job[w]
    BY <1>1, <1>3, <1>6, <2>2
    DEF LeaseInv, TypeInv, TypeOK, OrderOnce, OrderPending, OrderSettled,
        Working, rowVars
  <2> QED
    BY <2>1, <2>2
<1> QED
  BY <1>4, <1>5, <1>6 DEF LeaseInv, OrderOnce

LEMMA ReturningLeased ==
    ASSUME LeaseInv, TypeInv', NEW w \in Worker, Returning(w)
    PROVE  LeaseInv'
<1>1. /\ pc[w] \in {"claimed", "gated", "submitting"}
      /\ UNCHANGED <<rowVars, kicks, ghostVars>>
  BY ReturningShape
<1>2. PICK r \in Result : Return(w, r)
  BY ReturningShape
<1>3. /\ UNCHANGED <<job, beating>>
      /\ pc' = [pc EXCEPT ![w] = "finishing"]
      /\ result' = [result EXCEPT ![w] = r]
  BY <1>2 DEF Return
<1>4. pc[w] = "submitting" => \E q \in ExchangeResults \cup {LostGate} : Return(w, q)
  BY DEF Returning, TurnAway, FindDuplicate, Screen, Answer, NoticeGateLoss
<1>5. \A q \in ExchangeResults \cup {LostGate} : Conclusive(q)
  BY DEF ExchangeResults, LostGate, Conclusive, Retryable, Res
<1>6. pc[w] = "submitting" => Conclusive(result'[w])
  BY <1>4, <1>5 DEF Return, LeaseInv, TypeInv, TypeOK
<1>7. FreshRows'
  BY <1>1, <1>3
  DEF LeaseInv, TypeInv, TypeOK, FreshRows, Rows, rowVars, ghostVars
<1>8. OnePipeline' /\ Leased'
  BY <1>1, <1>3 DEF LeaseInv, TypeInv, TypeOK, OnePipeline, Leased, Working, rowVars
<1>9. ASSUME NEW e \in Event, submitted'[e] > 0, ~waived'[e]
      PROVE  submitted'[e] = 1 /\ (OrderPending(e) \/ OrderSettled(e))'
  <2>1. submitted[e] > 0 /\ ~waived[e]
    BY <1>1, <1>9 DEF ghostVars
  <2>2. CASE e = job[w]
    <3>1. submitted[e] = 1 /\ pc[w] = "submitting"
      BY <1>1, <2>1, <2>2, OrderWithLessee DEF Working
    <3> QED
      BY <1>1, <1>3, <1>6, <2>2, <3>1
      DEF OrderPending, LeaseInv, TypeInv, TypeOK, ghostVars
  <2>3. CASE e # job[w]
    BY <1>1, <1>3, <2>1, <2>3
    DEF LeaseInv, TypeInv, TypeOK, OrderOnce, OrderPending, OrderSettled,
        Working, rowVars, ghostVars
  <2> QED
    BY <2>2, <2>3
<1> QED
  BY <1>7, <1>8, <1>9 DEF LeaseInv, OrderOnce

\* What the last write of a worker in the pipeline makes of its row.
LEMMA LesseeCloses ==
    ASSUME LeaseInv, NEW w \in Worker, Closing(w)
    PROVE  \/ pc[w] = "submitting"
           \/ pc[w] = "finishing" /\ Conclusive(result[w])
           => status'[job[w]] \notin Active
<1>1. job[w] \in Event
  BY ClosingShape DEF LeaseInv, TypeInv, JobOK, Holding, Working
<1>2. CASE Unclassified(w) \/ RejectPayload(w) \/ NoticeLockLoss(w)
  BY <1>1, <1>2
  DEF Unclassified, RejectPayload, NoticeLockLoss, Active, LeaseInv, TypeInv, TypeOK
<1>3. CASE Finish(w)
  <2>1. /\ pc[w] = "finishing"
        /\ \/ status'[job[w]] = "manual_review"
           \/ status'[job[w]] = Settled(result[w], seen[w], status[job[w]])
    BY <1>1, <1>3 DEF Finish, LeaseInv, TypeInv, TypeOK
  <2>2. result[w] \in Result
    BY DEF LeaseInv, TypeInv, TypeOK
  <2>3. Conclusive(result[w])
          => Settled(result[w], seen[w], status[job[w]]) \notin Active
    BY <2>2, Zenon DEF Settled, Conclusive, Result, ResultStatus, Active
  <2> QED
    BY <2>1, <2>3 DEF Active
<1> QED
  BY <1>2, <1>3 DEF Closing

\* A worker leaves.  Outside the pipeline, where it only has the lock, it may
\* leave because it has lost it, and moves the row of another worker to review.
LEMMA LeavingLeased ==
    ASSUME LeaseInv, TypeInv', NEW w \in Worker,
           Exhaust(w) \/ ClaimMissed(w) \/ Closing(w)
    PROVE  LeaseInv'
<1> DEFINE e == job[w]
<1>1. /\ e \in Event /\ e \in Rows /\ pc[w] \in Holding
      /\ Leave(w)
      /\ UNCHANGED <<reserved, kicks, ghostVars>>
      /\ \A d \in Event : d # e => status'[d] = status[d] /\ elapsed'[d] = elapsed[d]
  <2>1. CASE Exhaust(w) \/ ClaimMissed(w)
    BY <2>1
    DEF Exhaust, ClaimMissed, LeaseInv, TypeInv, TypeOK, JobOK, FreshRows,
        Holding, Working, rowVars
  <2>2. CASE Closing(w)
    BY <2>2, ClosingShape
    DEF LeaseInv, TypeInv, TypeOK, JobOK, FreshRows, Holding, Working
  <2> QED
    BY <2>1, <2>2
<1>2. /\ pc'[w] = "idle"
      /\ \A v \in Worker \ {w} : /\ pc'[v] = pc[v] /\ job'[v] = job[v]
                                 /\ result'[v] = result[v] /\ beating'[v] = beating[v]
  BY <1>1 DEF Leave, AtRest, LeaseInv, TypeInv, TypeOK
<1>3. pc[w] \in Working =>
        \A v \in Worker \ {w} : job[v] = e => pc[v] \notin Working
  BY DEF LeaseInv, OnePipeline
\* What becomes of the row.
<1>4. \/ pc[w] \in Working
      \/ status'[e] \notin Active
      \/ status'[e] = status[e] /\ elapsed'[e] = elapsed[e]
  BY <1>1
  DEF Exhaust, ClaimMissed, Closing, Unclassified, RejectPayload, Finish,
      NoticeLockLoss, Working, Active, rowVars, LeaseInv, TypeInv, TypeOK
<1>5. FreshRows'
  <2>1. \A d \in Event : d > reserved => d # e
    BY <1>1 DEF LeaseInv, TypeInv, TypeOK, Rows, Event
  <2> QED
    BY <1>1, <1>2, <2>1 DEF LeaseInv, FreshRows, Rows, ghostVars
<1>6. OnePipeline'
  BY <1>2 DEF LeaseInv, OnePipeline, Working
<1>7. Leased'
  BY <1>1, <1>2, <1>3, <1>4 DEF LeaseInv, TypeInv, JobOK, Leased, Working
<1>8. ASSUME NEW d \in Event, submitted'[d] > 0, ~waived'[d]
      PROVE  submitted'[d] = 1 /\ (OrderPending(d) \/ OrderSettled(d))'
  <2>1. submitted[d] > 0 /\ ~waived[d]
    BY <1>1, <1>8 DEF ghostVars
  <2>2. submitted[d] = 1 /\ submitted'[d] = 1 /\ (OrderPending(d) \/ OrderSettled(d))
    BY <1>1, <2>1 DEF LeaseInv, OrderOnce, ghostVars
  <2>3. CASE d # e
    BY <1>1, <1>2, <2>2, <2>3 DEF OrderPending, OrderSettled, Working
  <2>4. CASE d = e /\ pc[w] \in Working
    <3>1. \/ pc[w] = "submitting"
          \/ pc[w] = "finishing" /\ Conclusive(result[w])
      BY <2>1, <2>4, OrderWithLessee
    <3>2. status'[e] \notin Active
      BY <1>1, <2>4, <3>1, LesseeCloses DEF Exhaust, ClaimMissed, Working
    <3> QED
      BY <1>2, <1>3, <2>2, <2>4, <3>2 DEF OrderSettled, Working
  <2>5. CASE d = e /\ pc[w] \notin Working
    <3>1. OrderPending(d) => OrderPending(d)'
      BY <1>2, <2>5 DEF OrderPending, Working
    <3>2. OrderSettled(d) => OrderSettled(d)'
      BY <1>2, <1>4, <2>5 DEF OrderSettled, Working
    <3> QED
      BY <2>2, <3>1, <3>2
  <2> QED
    BY <2>3, <2>4, <2>5
<1> QED
  BY <1>5, <1>6, <1>7, <1>8 DEF LeaseInv, OrderOnce

LEMMA FailureLeased ==
    ASSUME LeaseInv, TypeInv', NEW w \in Worker, Crash(w) \/ Abandon(w)
    PROVE  LeaseInv'
<1>1. /\ UNCHANGED <<rowVars, kicks, submitted>>
      /\ OutcomeLost(w) /\ AtRest(w)
      /\ job[w] \in Event
  BY DEF Crash, Abandon, Leave, LeaseInv, TypeInv, JobOK, Working
<1>2. /\ pc'[w] = "idle"
      /\ \A v \in Worker \ {w} : /\ pc'[v] = pc[v] /\ job'[v] = job[v]
                                 /\ result'[v] = result[v] /\ beating'[v] = beating[v]
  BY <1>1 DEF AtRest, LeaseInv, TypeInv, TypeOK
<1>3. FreshRows'
  BY <1>1, <1>2 DEF LeaseInv, FreshRows, Rows, rowVars
<1>4. OnePipeline' /\ Leased'
  BY <1>1, <1>2 DEF LeaseInv, OnePipeline, Leased, Working, rowVars
<1>5. ASSUME NEW e \in Event, submitted'[e] > 0, ~waived'[e]
      PROVE  submitted'[e] = 1 /\ (OrderPending(e) \/ OrderSettled(e))'
  <2>1. /\ submitted[e] > 0 /\ ~waived[e]
        /\ e = job[w] => pc[w] \notin {"submitting", "finishing"}
    BY <1>1, <1>5 DEF OutcomeLost, LeaseInv, TypeInv, TypeOK
  <2>2. submitted[e] = 1 /\ (OrderPending(e) \/ OrderSettled(e))
    BY <2>1 DEF LeaseInv, OrderOnce
  <2>3. OrderPending(e) => OrderPending(e)'
    BY <1>2, <2>1 DEF OrderPending
  <2>4. OrderSettled(e) => OrderSettled(e)'
    BY <1>1, <1>2 DEF OrderSettled, Working, rowVars
  <2> QED
    BY <1>1, <2>2, <2>3, <2>4
<1> QED
  BY <1>3, <1>4, <1>5 DEF LeaseInv, OrderOnce

\* The heartbeat, the clock, Redis: the lease runs out only when nobody is in
\* the pipeline.
LEMMA EnvironmentLeased ==
    ASSUME LeaseAlone, LeaseInv, TypeInv',
           \/ \E w \in Worker : Heartbeat(w)
           \/ \E e \in Event : TimeOut(e) \/ GrowOld(e) \/ Requeue(e)
           \/ OrphanExpires \/ KeyLost
    PROVE  LeaseInv'
<1>1. \A e \in Event : ~Requeue(e)
  BY DEF Requeue, LeaseAlone, LeaseInv, TypeInv, TypeOK
<1>2. UNCHANGED <<reserved, kicks, status, pc, job, result, submitted, waived>>
  BY <1>1 DEF Heartbeat, TimeOut, GrowOld, OrphanExpires, KeyLost, rowVars,
              workerVars, ghostVars
<1>3. FreshRows' /\ OnePipeline' /\ OrderOnce'
  BY <1>2 DEF LeaseInv, FreshRows, OnePipeline, OrderOnce, OrderPending, OrderSettled, Rows
<1>4. Leased'
  <2>1. ASSUME NEW w \in Worker, Heartbeat(w) PROVE Leased'
    <3>1. CASE elapsed' = [elapsed EXCEPT ![job[w]] = FALSE] /\ UNCHANGED beating
      BY <1>2, <3>1 DEF LeaseInv, TypeInv, TypeOK, JobOK, Leased, Working
    <3>2. CASE /\ status[job[w]] # "processing" /\ UNCHANGED elapsed
               /\ beating' = [beating EXCEPT ![w] = FALSE]
      BY <1>2, <3>2 DEF LeaseInv, TypeInv, TypeOK, JobOK, Leased, Working
    <3> QED
      BY <2>1, <3>1, <3>2 DEF Heartbeat
  <2>2. ASSUME NEW e \in Event, TimeOut(e) PROVE Leased'
    <3>1. \A w \in Worker : job[w] = e /\ pc[w] \in Working => status[e] \notin Active
      BY <2>2 DEF TimeOut, KeptFresh, LeaseAlone, LeaseInv, Leased
    <3> QED
      BY <1>2, <2>2, <3>1
      DEF TimeOut, LeaseInv, TypeInv, TypeOK, JobOK, Leased, Working, workerVars
  <2>3. CASE UNCHANGED <<elapsed, beating>>
    BY <1>2, <2>3 DEF LeaseInv, Leased
  <2> QED
    BY <1>1, <2>1, <2>2, <2>3
    DEF GrowOld, OrphanExpires, KeyLost, rowVars, workerVars
<1> QED
  BY <1>3, <1>4 DEF LeaseInv

LEMMA LeaseStep == LeaseAlone /\ LeaseInv /\ [Next]_vars => LeaseInv'
<1> SUFFICES ASSUME LeaseAlone, LeaseInv, [Next]_vars PROVE LeaseInv'
  OBVIOUS
<1>1. TypeInv'
  BY StepTyped DEF LeaseInv
<1>2. CASE UNCHANGED vars
  BY <1>1, <1>2
  DEF vars, rowVars, lockVars, workerVars, ghostVars, LeaseInv, FreshRows, OnePipeline,
      Leased, OrderOnce, OrderPending, OrderSettled, Rows
<1> QED
  BY <1>1, <1>2, StepCases, HandlerLeased, PickLeased, EnterLeased, ReturningLeased,
     SubmitLeased, LeavingLeased, FailureLeased, EnvironmentLeased

\* Keys of live owners may be lost and Redis may fail altogether: while no
\* operator requeues and the database answers within a lease, the heartbeat on
\* updated_at alone (webhook_worker.py) keeps two workers out of the pipeline of
\* one row and an order from being sent twice, whatever crashes or is abandoned.
THEOREM LeaseSuffices ==
    LeaseAlone => (Spec => [](OnePipeline /\ SingleSubmission))
<1> SUFFICES ASSUME LeaseAlone PROVE Spec => [](OnePipeline /\ SingleSubmission)
  OBVIOUS
<1>1. LeaseInv => OnePipeline /\ SingleSubmission
  BY DEF LeaseInv, TypeInv, TypeOK, OrderOnce, SingleSubmission
<1>2. LeaseInv /\ [Next]_vars => LeaseInv'
  BY LeaseStep
<1> QED
  BY <1>1, <1>2, InitLeased, PTL DEF Spec

-----------------------------------------------------------------------------
(***************************************************************************)
(* The kinds of steps of the contract that the queue takes, told by what   *)
(* they do to the phase of each row.                                       *)
(***************************************************************************)
PhaseKept(e) == Phase(e)' = Phase(e)

LEMMA StutterStep ==
    ASSUME \A e \in Event : PhaseKept(e), UNCHANGED <<submitted, waived>>
    PROVE  UNCHANGED Contract!vars
<1>1. [e \in Event |-> Phase(e)]' = [e \in Event |-> Phase(e)]
  BY DEF PhaseKept
<1> QED
  BY <1>1 DEF Contract!vars

LEMMA SettleStep ==
    ASSUME NEW x \in Event, Phase(x) = "open",
           Phase(x)' \in {"open", "settled"},
           \A e \in Event \ {x} : PhaseKept(e),
           UNCHANGED <<submitted, waived>>
    PROVE  [Contract!Next]_(Contract!vars)
<1>1. CASE Phase(x)' = "open"
  BY <1>1, StutterStep DEF PhaseKept
<1>2. CASE Phase(x)' = "settled"
  <2>1. [e \in Event |-> Phase(e)]'
          = [[e \in Event |-> Phase(e)] EXCEPT ![x] = "settled"]
    BY <1>2 DEF PhaseKept
  <2>2. Contract!Settle(x)
    BY <2>1 DEF Contract!Settle
  <2> QED
    BY <2>2 DEF Contract!Next
<1> QED
  BY <1>1, <1>2

LEMMA LicenseStep ==
    ASSUME NEW x \in Event, Phase(x) = "open",
           Phase(x)' \in {"open", "settled"},
           \A e \in Event \ {x} : PhaseKept(e),
           submitted' = submitted, waived' = [waived EXCEPT ![x] = TRUE]
    PROVE  [Contract!Next]_(Contract!vars)
<1>1. CASE Phase(x)' = "open"
  <2>1. [e \in Event |-> Phase(e)]' = [e \in Event |-> Phase(e)]
    BY <1>1 DEF PhaseKept
  <2> QED
    BY <2>1 DEF Contract!License, Contract!Next
<1>2. CASE Phase(x)' = "settled"
  <2>1. [e \in Event |-> Phase(e)]'
          = [[e \in Event |-> Phase(e)] EXCEPT ![x] = "settled"]
    BY <1>2 DEF PhaseKept
  <2> QED
    BY <2>1 DEF Contract!License, Contract!Next
<1> QED
  BY <1>1, <1>2

-----------------------------------------------------------------------------
\* The workers of a row, and its status, decide its phase.
LEMMA PhaseFrame ==
    ASSUME NEW e \in Event, reserved' = reserved,
           status'[e] = status[e]
             \/ (status[e] \in Active /\ status'[e] \in Active),
           InPipeline(e)' <=> InPipeline(e)
    PROVE  PhaseKept(e)
  BY DEF PhaseKept, Phase

\* A worker leaves the pipeline, or the lock, of its row x.
LEMMA PipelineLeft ==
    ASSUME SafetyInv, NEW w \in Worker, NEW x \in Event, job[w] = x,
           pc[w] # "idle", AtRest(w)
    PROVE  /\ \A e \in Event : e # x => (InPipeline(e)' <=> InPipeline(e))
           /\ pc[w] \notin Working => (InPipeline(x)' <=> InPipeline(x))
           /\ pc[w] = "locked" => ~InPipeline(x)
<1>1. /\ pc'[w] \notin Working
      /\ \A v \in Worker \ {w} : pc'[v] = pc[v] /\ job'[v] = job[v]
  BY DEF AtRest, Working, SafetyInv, TypeInv, TypeOK
<1>2. pc[w] \in Holding
        => \A v \in Worker \ {w} : job[v] = job[w] => pc[v] \notin Working
  BY LockExcludes DEF SafetyInv, Holding
<1>3. \A e \in Event : e # x => (InPipeline(e)' <=> InPipeline(e))
  BY <1>1 DEF InPipeline
<1>4. pc[w] \notin Working => (InPipeline(x)' <=> InPipeline(x))
  BY <1>1 DEF InPipeline
<1>5. pc[w] = "locked" => ~InPipeline(x)
  BY <1>2 DEF InPipeline, Working, Holding
<1> QED
  BY <1>3, <1>4, <1>5

\* A row of the table is open or settled; it is open while in the pipeline.
LEMMA PhaseOfRow ==
    ASSUME TypeOK, NEW e \in Rows
    PROVE  /\ Phase(e) \in {"open", "settled"}
           /\ status[e] \in Active \/ InPipeline(e) => Phase(e) = "open"
  BY DEF Phase, Rows, TypeOK

LEMMA LeavingSteps ==
    ASSUME SafetyInv, ~RedisFaults, NEW w \in Worker,
           Exhaust(w) \/ ClaimMissed(w) \/ Closing(w)
    PROVE  [Contract!Next]_(Contract!vars)
<1>1. PICK x \in Event : job[w] = x
  BY ClosingShape
  DEF Exhaust, ClaimMissed, SafetyInv, TypeInv, JobOK, Holding, Working
<1>2. /\ x \in Rows /\ pc[w] \in Holding
      /\ AtRest(w)
      /\ UNCHANGED <<reserved, submitted, waived>>
      /\ \A e \in Event : e # x => status'[e] = status[e]
  <2>1. CASE Exhaust(w) \/ ClaimMissed(w)
    BY <1>1, <2>1
    DEF Exhaust, ClaimMissed, Leave, SafetyInv, TypeInv, TypeOK, FreshRows,
        Holding, Working, rowVars, ghostVars
  <2>2. CASE Closing(w)
    BY <1>1, <2>2, ClosingShape
    DEF Leave, SafetyInv, TypeInv, TypeOK, FreshRows, Holding, Working, ghostVars
  <2> QED
    BY <2>1, <2>2
<1>3. pc[w] # "idle"
  BY <1>2 DEF Holding, Working
<1>4. \A e \in Event \ {x} : PhaseKept(e)
  BY <1>1, <1>2, <1>3, PipelineLeft, PhaseFrame
<1>5. CASE Exhaust(w) \/ Closing(w)
  <2>1. status[x] \in Active \/ InPipeline(x)
    BY <1>1, <1>5, ClosingStatus DEF Exhaust, Due, InPipeline, Active
  <2>2. Phase(x) = "open"
    BY <1>2, <2>1, PhaseOfRow DEF SafetyInv, TypeInv
  <2>3. Phase(x)' \in {"open", "settled"}
    BY <1>2 DEF Phase, Rows, SafetyInv, TypeInv, TypeOK
  <2> QED
    BY <1>2, <1>4, <2>2, <2>3, SettleStep
<1>6. CASE ClaimMissed(w)
  <2>1. status' = status /\ pc[w] \notin Working
    BY <1>6 DEF ClaimMissed, Working, rowVars
  <2>2. PhaseKept(x)
    BY <1>1, <1>2, <1>3, <2>1, PipelineLeft, PhaseFrame
  <2>3. \A e \in Event : PhaseKept(e)
    BY <1>4, <2>2
  <2> QED
    BY <1>2, <2>3, StutterStep
<1> QED
  BY <1>5, <1>6

LEMMA FailureSteps ==
    ASSUME SafetyInv, NEW w \in Worker, Crash(w) \/ Abandon(w)
    PROVE  [Contract!Next]_(Contract!vars)
<1>1. PICK x \in Event : job[w] = x
  BY DEF Crash, Abandon, SafetyInv, TypeInv, JobOK, Working
<1>2. /\ x \in Rows /\ pc[w] # "idle"
      /\ AtRest(w) /\ OutcomeLost(w)
      /\ UNCHANGED <<reserved, status, submitted>>
  BY <1>1
  DEF Crash, Abandon, Leave, SafetyInv, TypeInv, FreshRows, Working, rowVars
<1>3. \A e \in Event \ {x} : PhaseKept(e)
  BY <1>1, <1>2, PipelineLeft, PhaseFrame
<1>4. CASE pc[w] \in Working
  <2>1. InPipeline(x)
    BY <1>1, <1>4 DEF InPipeline
  <2>2. Phase(x) = "open"
    BY <1>2, <2>1, PhaseOfRow DEF SafetyInv, TypeInv
  <2>3. Phase(x)' \in {"open", "settled"}
    BY <1>2 DEF Phase, Rows, SafetyInv, TypeInv, TypeOK
  <2>4. CASE pc[w] \in {"submitting", "finishing"}
    <3>1. waived' = [waived EXCEPT ![x] = TRUE]
      BY <1>1, <1>2, <2>4 DEF OutcomeLost
    <3> QED
      BY <1>2, <1>3, <2>2, <2>3, <3>1, LicenseStep
  <2>5. CASE pc[w] \notin {"submitting", "finishing"}
    <3>1. waived' = waived
      BY <1>2, <2>5 DEF OutcomeLost
    <3> QED
      BY <1>2, <1>3, <2>2, <2>3, <3>1, SettleStep
  <2> QED
    BY <2>4, <2>5
<1>5. CASE pc[w] \notin Working
  <2>1. PhaseKept(x)
    BY <1>1, <1>2, <1>5, PipelineLeft, PhaseFrame
  <2>2. waived' = waived
    BY <1>2, <1>5 DEF OutcomeLost, Working
  <2>3. \A e \in Event : PhaseKept(e)
    BY <1>3, <2>1
  <2> QED
    BY <1>2, <2>2, <2>3, StutterStep
<1> QED
  BY <1>4, <1>5

-----------------------------------------------------------------------------
\* Picking a row, taking its lock, claiming it, entering the gate and
\* returning from the pipeline leave its phase as it is.
LEMMA QuietSteps ==
    ASSUME SafetyInv, NEW w \in Worker,
           \/ (\E e \in Event : Kick(w, e)) \/ Poll(w) \/ TakeLock(w) \/ Busy(w)
           \/ Claim(w) \/ EnterGate(w) \/ Returning(w)
    PROVE  UNCHANGED Contract!vars
<1>1. CASE (\E e \in Event : Kick(w, e)) \/ Poll(w) \/ TakeLock(w) \/ Busy(w)
  <2>1. /\ UNCHANGED <<rowVars, ghostVars>>
        /\ pc[w] \notin Working /\ pc'[w] \notin Working
        /\ \A v \in Worker \ {w} : pc'[v] = pc[v] /\ job'[v] = job[v]
    BY <1>1
    DEF Kick, Poll, TakeLock, Busy, AtRest, SafetyInv, TypeInv, TypeOK, Working
  <2>2. \A e \in Event : InPipeline(e)' <=> InPipeline(e)
    BY <2>1 DEF InPipeline
  <2> QED
    BY <2>1, <2>2, PhaseFrame, StutterStep DEF rowVars, ghostVars
<1>2. CASE Claim(w) \/ EnterGate(w)
  <2>1. PICK x \in Event : job[w] = x
    BY <1>2 DEF Claim, EnterGate, SafetyInv, TypeInv, JobOK
  <2>2. /\ status[x] \in Active
        /\ status' = [status EXCEPT ![x] = "processing"]
        /\ UNCHANGED <<reserved, job, submitted, waived>>
        /\ pc'[w] \in Working
        /\ \A v \in Worker \ {w} : pc'[v] = pc[v]
    BY <1>2, <2>1
    DEF Claim, EnterGate, Due, Active, Working, SafetyInv, TypeInv, TypeOK,
        ghostVars
  <2>3. x \in Rows
    BY <1>2, <2>1
    DEF Claim, EnterGate, SafetyInv, FreshRows, TypeInv, TypeOK
  <2>4. PhaseKept(x)
    BY <2>2, <2>3
    DEF PhaseKept, Phase, Active, Rows, SafetyInv, TypeInv, TypeOK
  <2>5. \A e \in Event : e # x => (InPipeline(e)' <=> InPipeline(e))
    BY <2>1, <2>2 DEF InPipeline
  <2>6. \A e \in Event : e # x => status'[e] = status[e]
    BY <2>2
  <2>7. \A e \in Event : PhaseKept(e)
    BY <2>2, <2>4, <2>5, <2>6, PhaseFrame
  <2> QED
    BY <2>2, <2>7, StutterStep
<1>3. CASE Returning(w)
  <2>1. /\ pc[w] \in Working
        /\ UNCHANGED <<rowVars, ghostVars>>
    BY <1>3, ReturningShape DEF Working
  <2>2. job' = job /\ pc' = [pc EXCEPT ![w] = "finishing"]
    BY <1>3, ReturningShape DEF Return
  <2>3. \A e \in Event : InPipeline(e)' <=> InPipeline(e)
    BY <2>1, <2>2 DEF InPipeline, Working, SafetyInv, TypeInv, TypeOK
  <2> QED
    BY <2>1, <2>3, PhaseFrame, StutterStep DEF rowVars, ghostVars
<1> QED
  BY <1>1, <1>2, <1>3

\* The submission is the order step of the contract.
LEMMA SubmitStep ==
    ASSUME SafetyInv, NEW w \in Worker, Submit(w)
    PROVE  [Contract!Next]_(Contract!vars)
<1>1. PICK x \in Event : job[w] = x
  BY DEF Submit, SafetyInv, TypeInv, JobOK
<1>2. /\ pc[w] = "gated" /\ pc' = [pc EXCEPT ![w] = "submitting"]
      /\ submitted' = [submitted EXCEPT ![x] = @ + 1]
      /\ UNCHANGED <<reserved, status, job, waived>>
  BY <1>1 DEF Submit, rowVars
<1>3. x \in Rows /\ InPipeline(x)
  BY <1>1, <1>2 DEF SafetyInv, FreshRows, InPipeline, Working
<1>4. Phase(x) = "open"
  BY <1>3, PhaseOfRow DEF SafetyInv, TypeInv
<1>5. submitted[x] = 0 \/ waived[x]
  BY <1>1, <1>2, OrderWithWorker DEF Working, SafetyInv, TypeInv, TypeOK
<1>6. \A e \in Event : InPipeline(e)' <=> InPipeline(e)
  BY <1>2 DEF InPipeline, Working, SafetyInv, TypeInv, TypeOK
<1>7. [e \in Event |-> Phase(e)]' = [e \in Event |-> Phase(e)]
  BY <1>2, <1>6, PhaseFrame DEF PhaseKept
<1>8. Contract!Order(x)
  BY <1>2, <1>4, <1>5, <1>7 DEF Contract!Order
<1> QED
  BY <1>8 DEF Contract!Next

LEMMA ExpireStep ==
    ASSUME SafetyInv, OneActiveRow, NEW f \in Fingerprint, ExpireStale(f)
    PROVE  [Contract!Next]_(Contract!vars)
<1>1. PICK x \in Rows : x \in ActiveRows(f, status)
  BY DEF ExpireStale, ActiveRows
<1>2. x \in Event
  BY DEF Rows, Event, SafetyInv, TypeInv, TypeOK
<1>3. \A e \in Event \ {x} : status'[e] = status[e]
  BY <1>1 DEF ExpireStale, Expired, ActiveRows, OneActiveRow
<1>4. UNCHANGED <<reserved, pc, job, submitted, waived>>
  BY DEF ExpireStale, workerVars, ghostVars
<1>5. \A e \in Event : InPipeline(e)' <=> InPipeline(e)
  BY <1>4 DEF InPipeline
<1>6. \A e \in Event \ {x} : PhaseKept(e)
  BY <1>3, <1>4, <1>5, PhaseFrame
<1>7. Phase(x) = "open" /\ Phase(x)' \in {"open", "settled"}
  BY <1>1, <1>4
  DEF Phase, ActiveRows, Rows, SafetyInv, TypeInv, TypeOK
<1> QED
  BY <1>2, <1>4, <1>6, <1>7, SettleStep

\* The new row is admitted, the stale rows nobody runs are settled.
LEMMA ReserveStep ==
    ASSUME SafetyInv, NEW f \in Fingerprint, Reserve(f)
    PROVE  [Contract!Next]_(Contract!vars)
<1> DEFINE gone == {d \in ActiveRows(f, status) : ~InPipeline(d)}
<1>1. PICK x \in Event : x = reserved + 1
  BY DEF Reserve, Event, SafetyInv, TypeInv, TypeOK
<1>2. /\ reserved \in Nat /\ reserved' = x
      /\ status' = [Expired(f) EXCEPT ![x] = "received"]
      /\ UNCHANGED <<pc, job, submitted, waived>>
  BY <1>1 DEF Reserve, workerVars, ghostVars, SafetyInv, TypeInv, TypeOK
<1>3. status'[x] = "received" /\ \A e \in Event \ {x} : status'[e] = Expired(f)[e]
  BY <1>2 DEF Expired
<1>4. \A e \in Event : InPipeline(e)' <=> InPipeline(e)
  BY <1>2 DEF InPipeline
<1>5. gone \in SUBSET (Event \ {x}) /\ \A d \in gone : Phase(d) = "open"
  <2>1. ActiveRows(f, status) \subseteq Event \ {x}
    BY <1>1 DEF ActiveRows, Rows, Event, SafetyInv, TypeInv, TypeOK
  <2>2. \A d \in ActiveRows(f, status) : Phase(d) = "open"
    BY PhaseOfRow DEF ActiveRows, SafetyInv, TypeInv
  <2> QED
    BY <2>1, <2>2
<1>6. Phase(x) = "absent" /\ Phase(x)' = "open"
  BY <1>1, <1>2, <1>3 DEF Phase, Active
<1>7. ASSUME NEW e \in gone PROVE Phase(e)' = "settled"
  <2>1. e \in Event \ {x} /\ e \in Rows /\ e \in ActiveRows(f, status)
    BY <1>5 DEF ActiveRows
  <2>2. status'[e] = "failed" /\ ~InPipeline(e)'
    BY <1>3, <1>4, <1>7, <2>1 DEF Expired
  <2> QED
    BY <1>1, <1>2, <2>1, <2>2 DEF Phase, Rows, Active
<1>8. ASSUME NEW e \in Event \ ({x} \cup gone) PROVE Phase(e)' = Phase(e)
  <2>1. CASE e \in ActiveRows(f, status)
    <3>1. InPipeline(e) /\ InPipeline(e)' /\ e \in Rows
      BY <1>4, <1>8, <2>1 DEF ActiveRows
    <3> QED
      BY <1>1, <1>2, <3>1 DEF Phase, Rows
  <2>2. CASE e \notin ActiveRows(f, status)
    <3>1. status'[e] = status[e]
      BY <1>3, <2>2 DEF Expired
    <3> QED
      BY <1>1, <1>2, <1>4, <3>1 DEF Phase, Event
  <2> QED
    BY <2>1, <2>2
<1>9. [e \in Event |-> Phase(e)]'
        = [d \in Event |-> IF d = x THEN "open"
                            ELSE IF d \in gone THEN "settled"
                            ELSE [e \in Event |-> Phase(e)][d]]
  BY <1>6, <1>7, <1>8
<1> HIDE DEF gone
<1>10. Contract!Replace(x, gone)
  BY <1>2, <1>5, <1>6, <1>9 DEF Contract!Replace
<1> QED
  BY <1>5, <1>10 DEF Contract!Next

LEMMA EnvironmentSteps ==
    ASSUME SafetyInv,
           \/ \E w \in Worker : Heartbeat(w)
           \/ \E e \in Event : TimeOut(e) \/ GrowOld(e) \/ Requeue(e)
           \/ OrphanExpires \/ KeyLost
    PROVE  [Contract!Next]_(Contract!vars)
<1>1. UNCHANGED <<reserved, pc, job, submitted>>
  BY DEF Heartbeat, TimeOut, GrowOld, Requeue, OrphanExpires, KeyLost, rowVars,
         workerVars, ghostVars
<1>2. \A e \in Event : InPipeline(e)' <=> InPipeline(e)
  BY <1>1 DEF InPipeline
<1>3. CASE UNCHANGED <<status, waived>>
  BY <1>1, <1>2, <1>3, PhaseFrame, StutterStep
<1>4. ASSUME NEW x \in Event, Requeue(x) PROVE [Contract!Next]_(Contract!vars)
  <2>1. /\ x \in Rows
        /\ status' = [status EXCEPT ![x] = "received"]
        /\ waived' = [waived EXCEPT ![x] = TRUE]
    BY <1>4 DEF Requeue
  <2>2. Phase(x) # "absent" /\ Phase(x)' = "open"
    BY <1>1, <2>1 DEF Phase, Rows, Active, SafetyInv, TypeInv, TypeOK
  <2>3. \A e \in Event \ {x} : status'[e] = status[e]
    BY <2>1
  <2>4. \A e \in Event \ {x} : PhaseKept(e)
    BY <1>1, <1>2, <2>3, PhaseFrame
  <2>5. [e \in Event |-> Phase(e)]'
          = [[e \in Event |-> Phase(e)] EXCEPT ![x] = "open"]
    BY <2>2, <2>4 DEF PhaseKept
  <2>6. Contract!Reopen(x)
    BY <1>1, <2>1, <2>2, <2>5 DEF Contract!Reopen
  <2> QED
    BY <2>6 DEF Contract!Next
<1> QED
  BY <1>3, <1>4
  DEF Heartbeat, TimeOut, GrowOld, OrphanExpires, KeyLost, rowVars, ghostVars

-----------------------------------------------------------------------------
LEMMA ContractInit == Init => Contract!Init
<1> SUFFICES ASSUME Init PROVE Contract!Init
  OBVIOUS
<1>1. \A e \in Event : Phase(e) = "absent"
  BY DEF Init, Phase, Event
<1> QED
  BY <1>1 DEF Init, Contract!Init

LEMMA ContractStep ==
    ASSUME ~RedisFaults, SafetyInv, OneActiveRow, [Next]_vars
    PROVE  [Contract!Next]_(Contract!vars)
<1>1. CASE UNCHANGED vars
  <2>1. UNCHANGED <<reserved, status, pc, job, submitted, waived>>
    BY <1>1 DEF vars, rowVars, workerVars, ghostVars
  <2>2. \A e \in Event : InPipeline(e)' <=> InPipeline(e)
    BY <2>1 DEF InPipeline
  <2> QED
    BY <2>1, <2>2, PhaseFrame, StutterStep
<1>2. ASSUME NEW w \in Worker,
             \/ (\E e \in Event : Kick(w, e)) \/ Poll(w) \/ TakeLock(w)
             \/ Busy(w)
             \/ Claim(w) \/ Exhaust(w) \/ ClaimMissed(w)
             \/ Returning(w) \/ EnterGate(w) \/ Submit(w) \/ Closing(w)
             \/ Crash(w) \/ Abandon(w)
      PROVE  [Contract!Next]_(Contract!vars)
  BY <1>2, QuietSteps, SubmitStep, LeavingSteps, FailureSteps
<1> QED
  BY <1>1, <1>2, StepCases, ReserveStep, ExpireStep, EnvironmentSteps

\* The queue keeps the contract: an alert is admitted once, a settled one is
\* reopened only by the operator, and a second order for it has a lost
\* outcome or an operator behind it.
THEOREM QueueImplementsContract == ~RedisFaults => (Spec => ImplementsContract)
<1> SUFFICES ASSUME ~RedisFaults PROVE Spec => ImplementsContract
  OBVIOUS
<1>1. SafetyInv /\ OneActiveRow /\ [Next]_vars => [Contract!Next]_(Contract!vars)
  BY ContractStep
<1> QED
  BY <1>1, ContractInit, SafetyInvHolds, OneActiveRowHolds, PTL
  DEF Spec, ImplementsContract, Contract!Spec
=============================================================================
