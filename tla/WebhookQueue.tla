---------------------------- MODULE WebhookQueue ----------------------------
(***************************************************************************)
(* The durable webhook queue: the table webhook_events, the request        *)
(* handler that reserves a row per alert (routers/webhook.py), the workers *)
(* that claim a row and run the signal pipeline on it                      *)
(* (services/webhook_worker.py), the two leases that keep a row with one   *)
(* worker (the renewable Redis lock of core/redis_coordination.py and the  *)
(* updated_at heartbeat of the row), and the operator who requeues a row.  *)
(*                                                                         *)
(* The pipeline (services/signal_processor.py) is kept to its control: the *)
(* gate per user and symbol, the row it reloads under the gate, the        *)
(* moment it crosses the exchange boundary, and the results it can return. *)
(* All alerts of one fingerprint share one gate.                           *)
(***************************************************************************)
EXTENDS Naturals, FiniteSets

CONSTANTS
    Worker,        \* tasks that run process_webhook_event, one per instance
    Scheduler,     \* the workers that poll; the others only serve kicks
    Fingerprint,   \* alert identities after hashing
    MaxAttempts,   \* WEBHOOK_MAX_ATTEMPTS
    RedisFaults,   \* TRUE: Redis may fail, or lose the key of a live owner
    DbFaults,      \* TRUE: the database may be down for longer than a lease
    MaxEvents,     \* bound: rows ever inserted
    MaxCrashes,    \* bound: process crashes and abandoned runs
    MaxRequeues    \* bound: operator requeues

ASSUME WorkerAssumption == Scheduler \subseteq Worker
ASSUME AttemptsAssumption == MaxAttempts \in Nat \ {0}
ASSUME FaultAssumption == RedisFaults \in BOOLEAN /\ DbFaults \in BOOLEAN
ASSUME BoundAssumption ==
    MaxEvents \in Nat /\ MaxCrashes \in Nat /\ MaxRequeues \in Nat

Event == 1..MaxEvents        \* rows in the order of created_at

Active  == {"received", "retrying", "processing"}
Ignored == {"failed", "error", "rejected"}      \* do not block a redelivery
Review  == {"manual_review", "rolled_back"}     \* only an operator may reopen
\* "done" stands for every other terminal status the pipeline writes
\* (blocked, held, expired, batched, filled, ...): all behave alike here.
Status  == {"absent", "done"} \cup Active \cup Ignored \cup Review

\* Values of a Redis lock key besides the token of a worker.
Free   == "free"
Orphan == "orphan"           \* the token of a process that died
Holder == Worker \cup {Free, Orphan}

ASSUME HolderAssumption == Free \notin Worker /\ Orphan \notin Worker

Stage   == {"idle", "picked", "locked", "claimed", "gated", "submitting",
            "finishing"}
Working == {"claimed", "gated", "submitting", "finishing"}
Holding == Working \cup {"locked"}
Gated   == {"gated", "submitting"}

(***************************************************************************)
(* Results of SignalProcessor.process_webhook: a status and the facts the  *)
(* worker tests.  "order_id" stands for any exchange or client order id.   *)
(***************************************************************************)
Flag == {"retry_safe", "pre_execution", "order_id",
         "requires_reconciliation", "rollback_success"}
ResultStatus == {"rejected", "error", "duplicate", "manual_review", "done"}
Result == [status : ResultStatus, flags : SUBSET Flag]

Res(s, fs) == [status |-> s, flags |-> fs]

QueueFull   == Res("rejected", {"retry_safe", "pre_execution"})
LockTimeout == Res("error", {"retry_safe", "pre_execution"})
Batched     == Res("done", {})
Duplicate   == Res("duplicate", {})
Nothing     == Res("done", {})          \* no result yet

\* Mutant: losing the gate is reported like not getting it.
LostGateRetried == LockTimeout

LostGate == Res("manual_review", {"requires_reconciliation"})

\* Decided before the exchange is contacted: blocked, held or expired;
\* rejected by a limit; an exception or a failed leverage change.
ScreenedResults ==
    {Res("done", {}), Res("done", {"pre_execution"}), Res("rejected", {}),
     Res("error", {})}

\* Mutant: a timeout of create_order is taken for a failure before it.
TimeoutTakenAsSafe == {Res("error", {"retry_safe", "pre_execution"})}

\* A fill; an entry unwound after its protection failed; an error that
\* keeps the client order id; an exception after the exchange answered
\* (the pipeline reports it as a bare error).
ExchangeResults ==
    {Res("done", {"order_id"}),
     Res("error", {"order_id", "rollback_success"}),
     Res("error", {"order_id", "requires_reconciliation"}),
     Res("error", {})}

\* Mutant: the status alone decides.
RetryableByStatus(r) == r.status \in {"error", "rejected"}

Retryable(r) ==
    /\ r.status \in {"error", "rejected"}
    /\ {"retry_safe", "pre_execution"} \subseteq r.flags
    /\ r.flags \cap {"order_id", "requires_reconciliation",
                     "rollback_success"} = {}

RequiresReview(r) ==
    \/ "requires_reconciliation" \in r.flags
    \/ "order_id" \in r.flags /\ "rollback_success" \notin r.flags

VARIABLES
    reserved,   \* number of rows inserted so far: rows are 1..reserved
    fp,         \* fingerprint column of each row
    status,     \* status column
    attempts,   \* attempt_count column
    elapsed,    \* next_attempt_at is due, or updated_at is older than the lease
    age,        \* 0: younger than 900 s, 1: younger than 1800 s, 2: older
    kicks,      \* background tasks started by the handler and not yet run
    lock,       \* Redis key "webhook-event:<id>"
    gate,       \* Redis key "signal:<user>:<symbol>" and its in-process twin
    pc, job,    \* where each worker is, and the row it works on
    result,     \* what the pipeline returned to the worker
    seen,       \* attempt_count as the worker's session last read it
    beating,    \* the heartbeat task of the worker runs
    submitted,  \* history: orders sent to the exchange for each row
    waived,     \* history: an outcome lost after submission, or a requeue,
                \* accounts for a replay
    crashes, requeues

rowVars    == <<reserved, fp, status, attempts, elapsed, age>>
workerVars == <<pc, job, result, seen, beating>>
lockVars   == <<lock, gate>>
ghostVars  == <<submitted, waived, crashes, requeues>>
vars == <<rowVars, kicks, lockVars, workerVars, ghostVars>>

Rows == 1..reserved

TypeOK ==
    /\ reserved \in 0..MaxEvents
    /\ fp \in [Event -> Fingerprint]
    /\ status \in [Event -> Status]
    /\ attempts \in [Event -> 0..MaxAttempts]
    /\ elapsed \in [Event -> BOOLEAN]
    /\ age \in [Event -> 0..2]
    /\ kicks \subseteq Event
    /\ lock \in [Event -> Holder]
    /\ gate \in [Fingerprint -> Holder]
    /\ pc \in [Worker -> Stage]
    /\ job \in [Worker -> Event \cup {0}]
    /\ result \in [Worker -> Result]
    /\ seen \in [Worker -> 0..MaxAttempts]
    /\ beating \in [Worker -> BOOLEAN]
    /\ submitted \in [Event -> Nat]
    /\ waived \in [Event -> BOOLEAN]
    /\ crashes \in 0..MaxCrashes
    /\ requeues \in 0..MaxRequeues

Init ==
    /\ reserved = 0
    /\ fp \in {[e \in Event |-> f] : f \in Fingerprint}
    /\ status = [e \in Event |-> "absent"]
    /\ attempts = [e \in Event |-> 0]
    /\ elapsed = [e \in Event |-> FALSE]
    /\ age = [e \in Event |-> 0]
    /\ kicks = {}
    /\ lock = [e \in Event |-> Free]
    /\ gate = [f \in Fingerprint |-> Free]
    /\ pc = [w \in Worker |-> "idle"]
    /\ job = [w \in Worker |-> 0]
    /\ result = [w \in Worker |-> Nothing]
    /\ seen = [w \in Worker |-> 0]
    /\ beating = [w \in Worker |-> FALSE]
    /\ submitted = [e \in Event |-> 0]
    /\ waived = [e \in Event |-> FALSE]
    /\ crashes = 0
    /\ requeues = 0

-----------------------------------------------------------------------------
(***************************************************************************)
(* The request handler: reserve a row for an alert.                        *)
(***************************************************************************)
ActiveRows(f, st) == {e \in Rows : fp[e] = f /\ st[e] \in Active}

\* Rows of the fingerprint that make a new delivery a duplicate.
RecentRows(f, st) ==
    {e \in Rows : fp[e] = f /\ age[e] < 2 /\ st[e] \notin Ignored}

\* Mutant: the index is missing.
IndexMissing(e, st) == TRUE

\* The partial unique index on fingerprint over the active statuses.
IndexAllows(e, st) == ActiveRows(fp[e], st) \ {e} = {}

\* Active reservations are marked failed once they are 900 s old.
Expired(f) ==
    [e \in Event |-> IF e \in ActiveRows(f, status) THEN "failed"
                     ELSE status[e]]

\* A row that is no longer active has no timer.
Untimed(f) ==
    [e \in Event |-> elapsed[e] /\ e \notin ActiveRows(f, status)]

ReserveAllowed(f) == \A e \in ActiveRows(f, status) : age[e] >= 1

Reserve(f) ==
    /\ reserved < MaxEvents
    /\ ReserveAllowed(f)
    /\ RecentRows(f, Expired(f)) = {}
    /\ LET e == reserved + 1
       IN /\ reserved' = e
          /\ fp' = [fp EXCEPT ![e] = f]
          /\ status' = [Expired(f) EXCEPT ![e] = "received"]
          /\ kicks' = kicks \cup {e}
    /\ elapsed' = Untimed(f)
    /\ UNCHANGED <<attempts, age, lockVars, workerVars, ghostVars>>

\* A stale reservation is given up, but another recent row of the
\* fingerprint still makes the delivery a duplicate.  The handler commits.
ExpireStale(f) ==
    /\ ActiveRows(f, status) # {}
    /\ ReserveAllowed(f)
    /\ RecentRows(f, Expired(f)) # {}
    /\ status' = Expired(f)
    /\ elapsed' = Untimed(f)
    /\ UNCHANGED <<reserved, fp, attempts, age, kicks, lockVars, workerVars,
                   ghostVars>>

(***************************************************************************)
(* A worker chooses a row and takes its lock.                              *)
(***************************************************************************)
\* Mutants: no lease on a claim; no reclaim of stale claims; a status that
\* is not active is taken for due.
DueAtOnce(e) == e \in Rows /\ status[e] \in Active
DueIfUnclaimed(e) ==
    /\ e \in Rows
    /\ \/ status[e] = "received"
       \/ status[e] = "retrying" /\ elapsed[e]
DueUnlessDone(e) ==
    /\ e \in Rows
    /\ status[e] \in {"received"} \cup Ignored \cup Review \/ elapsed[e]

Due(e) ==
    /\ e \in Rows
    /\ \/ status[e] = "received"
       \/ status[e] \in {"retrying", "processing"} /\ elapsed[e]

AttemptsLeft(e) == attempts[e] < MaxAttempts

\* Mutant: the poll forgets the rows that wait for a retry.
PollUnretried ==
    {e \in Rows : Due(e) /\ AttemptsLeft(e) /\ status[e] # "retrying"}

\* What the poll may pick: exhausted rows are filtered out.
PollSet == {e \in Rows : Due(e) /\ AttemptsLeft(e)}

\* Mutant: SET without NX.
LockOverwritten(e) == TRUE

\* SET NX on the key of the row.
LockFree(e) == lock[e] = Free

Kick(w, e) ==
    /\ pc[w] = "idle"
    /\ e \in kicks
    /\ kicks' = kicks \ {e}
    /\ pc' = [pc EXCEPT ![w] = "picked"]
    /\ job' = [job EXCEPT ![w] = e]
    /\ UNCHANGED <<rowVars, lockVars, result, seen, beating, ghostVars>>

Poll(w) ==
    /\ w \in Scheduler
    /\ pc[w] = "idle"
    /\ \E e \in PollSet :
          /\ \A d \in PollSet : e <= d
          /\ job' = [job EXCEPT ![w] = e]
    /\ pc' = [pc EXCEPT ![w] = "picked"]
    /\ UNCHANGED <<rowVars, kicks, lockVars, result, seen, beating, ghostVars>>

TakeLock(w) ==
    /\ pc[w] = "picked"
    /\ LockFree(job[w])
    /\ lock' = [lock EXCEPT ![job[w]] = w]
    /\ pc' = [pc EXCEPT ![w] = "locked"]
    /\ UNCHANGED <<rowVars, kicks, gate, job, result, seen, beating, ghostVars>>

\* The locals of a worker that is not in process_webhook_event.
AtRest(w) ==
    /\ pc' = [pc EXCEPT ![w] = "idle"]
    /\ job' = [job EXCEPT ![w] = 0]
    /\ result' = [result EXCEPT ![w] = Nothing]
    /\ seen' = [seen EXCEPT ![w] = 0]
    /\ beating' = [beating EXCEPT ![w] = FALSE]

Busy(w) ==
    /\ pc[w] = "picked"
    /\ ~LockFree(job[w]) \/ RedisFaults
    /\ AtRest(w)
    /\ UNCHANGED <<rowVars, kicks, lockVars, ghostVars>>

\* The release scripts compare the token before they delete the key.
LockReleased(w) ==
    IF lock[job[w]] = w THEN [lock EXCEPT ![job[w]] = Free] ELSE lock

GateReleased(w) ==
    IF gate[fp[job[w]]] = w THEN [gate EXCEPT ![fp[job[w]]] = Free] ELSE gate

\* The worker leaves process_webhook_event.
Leave(w) ==
    /\ AtRest(w)
    /\ lock' = LockReleased(w)
    /\ gate' = GateReleased(w)

(***************************************************************************)
(* _claim_event, under the lock.                                           *)
(***************************************************************************)
Claim(w) ==
    LET e == job[w] IN
    /\ pc[w] = "locked"
    /\ Due(e) /\ AttemptsLeft(e)
    /\ status' = [status EXCEPT ![e] = "processing"]
    /\ attempts' = [attempts EXCEPT ![e] = @ + 1]
    /\ elapsed' = [elapsed EXCEPT ![e] = FALSE]
    /\ pc' = [pc EXCEPT ![w] = "claimed"]
    /\ beating' = [beating EXCEPT ![w] = TRUE]
    /\ UNCHANGED <<reserved, fp, age, kicks, lockVars, job, result, seen,
                   ghostVars>>

Exhaust(w) ==
    LET e == job[w] IN
    /\ pc[w] = "locked"
    /\ Due(e) /\ ~AttemptsLeft(e)
    /\ status' = [status EXCEPT ![e] = "failed"]
    /\ elapsed' = [elapsed EXCEPT ![e] = FALSE]
    /\ Leave(w)
    /\ UNCHANGED <<reserved, fp, attempts, age, kicks, ghostVars>>

ClaimMissed(w) ==
    /\ pc[w] = "locked"
    /\ ~Due(job[w])
    /\ Leave(w)
    /\ UNCHANGED <<rowVars, kicks, ghostVars>>

(***************************************************************************)
(* The pipeline, run while the row is "processing".                        *)
(***************************************************************************)
\* The pipeline returns r; the session read attempt_count no later than now.
Return(w, r) ==
    /\ pc' = [pc EXCEPT ![w] = "finishing"]
    /\ result' = [result EXCEPT ![w] = r]
    /\ seen' = [seen EXCEPT ![w] = attempts[job[w]]]
    /\ gate' = GateReleased(w)
    /\ UNCHANGED <<job, beating, lock>>

\* Batched, the per-symbol queue is full, or the gate is not free in time.
TurnAway(w) ==
    /\ pc[w] = "claimed"
    /\ \/ \E r \in {Batched, QueueFull} : Return(w, r)
       \/ /\ gate[fp[job[w]]] # Free \/ RedisFaults
          /\ Return(w, LockTimeout)
    /\ UNCHANGED <<rowVars, kicks, ghostVars>>

\* Take the gate and reload the reservation under it.
EnterGate(w) ==
    LET e == job[w] IN
    /\ pc[w] = "claimed"
    /\ gate[fp[e]] = Free
    /\ status[e] \in Active
    /\ gate' = [gate EXCEPT ![fp[e]] = w]
    /\ status' = [status EXCEPT ![e] = "processing"]
    /\ elapsed' = [elapsed EXCEPT ![e] = FALSE]
    /\ pc' = [pc EXCEPT ![w] = "gated"]
    /\ UNCHANGED <<reserved, fp, attempts, age, kicks, lock, job, result, seen,
                   beating, ghostVars>>

\* The reservation is no longer active: reported as a duplicate.
FindDuplicate(w) ==
    /\ pc[w] = "claimed"
    /\ gate[fp[job[w]]] = Free
    /\ status[job[w]] \notin Active
    /\ Return(w, Duplicate)
    /\ UNCHANGED <<rowVars, kicks, ghostVars>>

Screen(w) ==
    /\ pc[w] = "gated"
    /\ \E r \in ScreenedResults : Return(w, r)
    /\ UNCHANGED <<rowVars, kicks, ghostVars>>

\* create_order is called: from here the exchange may hold an order.
Submit(w) ==
    /\ pc[w] = "gated"
    /\ pc' = [pc EXCEPT ![w] = "submitting"]
    /\ submitted' = [submitted EXCEPT ![job[w]] = @ + 1]
    /\ UNCHANGED <<rowVars, kicks, lockVars, job, result, seen, beating,
                   waived, crashes, requeues>>

Answer(w) ==
    /\ pc[w] = "submitting"
    /\ \E r \in ExchangeResults : Return(w, r)
    /\ UNCHANGED <<rowVars, kicks, ghostVars>>

\* An exception that escapes the pipeline or the final commit.
Unclassified(w) ==
    /\ pc[w] \in Working
    /\ status' = [status EXCEPT ![job[w]] = "manual_review"]
    /\ elapsed' = [elapsed EXCEPT ![job[w]] = FALSE]
    /\ Leave(w)
    /\ UNCHANGED <<reserved, fp, attempts, age, kicks, ghostVars>>

\* The stored payload cannot be decoded.
RejectPayload(w) ==
    /\ pc[w] = "claimed"
    /\ status' = [status EXCEPT ![job[w]] = "failed"]
    /\ elapsed' = [elapsed EXCEPT ![job[w]] = FALSE]
    /\ Leave(w)
    /\ UNCHANGED <<reserved, fp, attempts, age, kicks, ghostVars>>

(***************************************************************************)
(* The final write of the worker.                                          *)
(***************************************************************************)
Settled(r, n, old) ==
    CASE "rollback_success" \in r.flags -> "rolled_back"
      [] RequiresReview(r) /\ "rollback_success" \notin r.flags ->
            "manual_review"
      [] Retryable(r) -> IF n < MaxAttempts THEN "retrying" ELSE "failed"
      [] OTHER -> IF r.status = "duplicate" THEN old ELSE r.status

\* A write the unique index refuses raises, and the handler of the
\* exception moves the row to manual review.
Finish(w) ==
    LET e == job[w]
        next == Settled(result[w], seen[w], status[e])
        refused == next = "retrying" /\ ~IndexAllows(e, status)
    IN /\ pc[w] = "finishing"
       /\ status' = [status EXCEPT ![e] = IF refused THEN "manual_review"
                                          ELSE next]
       /\ elapsed' = [elapsed EXCEPT ![e] = FALSE]
       /\ Leave(w)
       /\ UNCHANGED <<reserved, fp, attempts, age, kicks, ghostVars>>

(***************************************************************************)
(* Leases: the heartbeat on the row, the Redis keys, lost ownership.       *)
(***************************************************************************)
\* The heartbeat renews the row while it is "processing" and stops when
\* it finds any other status.
Heartbeat(w) ==
    LET e == job[w] IN
    /\ pc[w] \in Working /\ beating[w]
    /\ \/ /\ status[e] = "processing" /\ elapsed[e]
          /\ elapsed' = [elapsed EXCEPT ![e] = FALSE]
          /\ UNCHANGED beating
       \/ /\ status[e] # "processing"
          /\ beating' = [beating EXCEPT ![w] = FALSE]
          /\ UNCHANGED elapsed
    /\ UNCHANGED <<reserved, fp, status, attempts, age, kicks, lockVars, pc,
                   job, result, seen, ghostVars>>

KeptFresh(e) == \E w \in Worker : job[w] = e /\ pc[w] \in Working /\ beating[w]

\* The retry delay passes, or the lease on a processing row runs out.
TimeOut(e) ==
    /\ e \in Rows /\ ~elapsed[e]
    /\ \/ status[e] = "retrying"
       \/ status[e] = "processing" /\ (DbFaults \/ ~KeptFresh(e))
    /\ elapsed' = [elapsed EXCEPT ![e] = TRUE]
    /\ UNCHANGED <<reserved, fp, status, attempts, age, kicks, lockVars,
                   workerVars, ghostVars>>

\* The key of a dead process reaches its TTL.
OrphanExpires ==
    /\ \/ \E e \in Event : /\ lock[e] = Orphan
                           /\ lock' = [lock EXCEPT ![e] = Free]
                           /\ UNCHANGED gate
       \/ \E f \in Fingerprint : /\ gate[f] = Orphan
                                 /\ gate' = [gate EXCEPT ![f] = Free]
                                 /\ UNCHANGED lock
    /\ UNCHANGED <<rowVars, kicks, workerVars, ghostVars>>

\* Redis forgets a key whose owner is alive (failover, flush, eviction).
KeyLost ==
    /\ RedisFaults
    /\ \/ \E e \in Event : /\ lock[e] \in Worker
                           /\ lock' = [lock EXCEPT ![e] = Free]
                           /\ UNCHANGED gate
       \/ \E f \in Fingerprint : /\ gate[f] \in Worker
                                 /\ gate' = [gate EXCEPT ![f] = Free]
                                 /\ UNCHANGED lock
    /\ UNCHANGED <<rowVars, kicks, workerVars, ghostVars>>

\* The renewal finds another token, or fails: the owner task is cancelled
\* and the row, whoever holds it now, is moved to manual review.
NoticeLockLoss(w) ==
    LET e == job[w] IN
    /\ pc[w] \in Holding
    /\ lock[e] # w \/ RedisFaults
    /\ status' = [status EXCEPT ![e] = "manual_review"]
    /\ elapsed' = [elapsed EXCEPT ![e] = FALSE]
    /\ Leave(w)
    /\ UNCHANGED <<reserved, fp, attempts, age, kicks, ghostVars>>

NoticeGateLoss(w) ==
    /\ pc[w] \in Gated
    /\ gate[fp[job[w]]] # w \/ RedisFaults
    /\ Return(w, LostGate)
    /\ UNCHANGED <<rowVars, kicks, ghostVars>>

(***************************************************************************)
(* Crashes, the clock and the operator.                                    *)
(***************************************************************************)
Orphaned(table, w) ==
    [k \in DOMAIN table |-> IF table[k] = w THEN Orphan ELSE table[k]]

\* After the submission, a lost outcome lets the lease run out.
OutcomeLost(w) ==
    /\ crashes' = crashes + 1
    /\ waived' = IF pc[w] \in {"submitting", "finishing"}
                 THEN [waived EXCEPT ![job[w]] = TRUE] ELSE waived

\* The process of w dies and restarts: its tasks are gone, its Redis keys
\* stay until their TTL.  A kick that is lost with it is never served.
Crash(w) ==
    /\ crashes < MaxCrashes
    /\ pc[w] # "idle"
    /\ AtRest(w)
    /\ lock' = Orphaned(lock, w)
    /\ gate' = Orphaned(gate, w)
    /\ OutcomeLost(w)
    /\ UNCHANGED <<rowVars, kicks, submitted, requeues>>

\* The run ends without a write and the row stays as it is: the database
\* is down when the worker has to write (the exception handler cannot write
\* manual_review either), or the scheduler job loses its own Redis lease
\* and cancels the worker.
Abandon(w) ==
    /\ DbFaults \/ RedisFaults
    /\ crashes < MaxCrashes
    /\ pc[w] \in Working
    /\ Leave(w)
    /\ OutcomeLost(w)
    /\ UNCHANGED <<rowVars, kicks, submitted, requeues>>

\* Rows pass 900 s and then 1800 s, older rows first.
GrowOld(e) ==
    /\ e \in Rows
    /\ age[e] < 2
    /\ \A d \in 1..(e - 1) : age[d] > age[e]
    /\ age' = [age EXCEPT ![e] = @ + 1]
    /\ UNCHANGED <<reserved, fp, status, attempts, elapsed, kicks, lockVars,
                   workerVars, ghostVars>>

\* requeue_webhook_event: refused only when another row is active.
Requeue(e) ==
    /\ requeues < MaxRequeues
    /\ e \in Rows
    /\ IndexAllows(e, status)
    /\ status' = [status EXCEPT ![e] = "received"]
    /\ attempts' = [attempts EXCEPT ![e] = 0]
    /\ elapsed' = [elapsed EXCEPT ![e] = FALSE]
    /\ waived' = [waived EXCEPT ![e] = TRUE]
    /\ requeues' = requeues + 1
    /\ UNCHANGED <<reserved, fp, age, kicks, lockVars, workerVars, submitted,
                   crashes>>

-----------------------------------------------------------------------------
WorkerStep(w) ==
    \/ Poll(w) \/ TakeLock(w) \/ Busy(w)
    \/ Claim(w) \/ Exhaust(w) \/ ClaimMissed(w)
    \/ TurnAway(w) \/ EnterGate(w) \/ FindDuplicate(w)
    \/ Screen(w) \/ Submit(w) \/ Answer(w)
    \/ Unclassified(w) \/ RejectPayload(w) \/ Finish(w)
    \/ NoticeLockLoss(w) \/ NoticeGateLoss(w)

Next ==
    \/ \E f \in Fingerprint : Reserve(f) \/ ExpireStale(f)
    \/ \E w \in Worker : \/ WorkerStep(w) \/ Heartbeat(w)
                         \/ Crash(w) \/ Abandon(w)
                         \/ \E e \in Event : Kick(w, e)
    \/ \E e \in Event : TimeOut(e) \/ GrowOld(e) \/ Requeue(e)
    \/ OrphanExpires \/ KeyLost

Spec == Init /\ [][Next]_vars

(***************************************************************************)
(* The scheduler job runs every 5 s, every await of a worker ends (calls   *)
(* carry timeouts), Redis applies TTLs and the clock advances.  Nothing    *)
(* makes the handler, the kicks, an operator or a crash happen.            *)
(***************************************************************************)
Fairness ==
    /\ \A w \in Worker : WF_vars(WorkerStep(w))
    /\ \A e \in Event : WF_vars(TimeOut(e))
    /\ WF_vars(OrphanExpires)

FairSpec == Spec /\ Fairness

-----------------------------------------------------------------------------
(***************************************************************************)
(* Safety.                                                                 *)
(***************************************************************************)
\* No two rows of one fingerprint are active: the index on webhook_events
\* holds through retries, stale reservations and requeues.
OneActiveRow ==
    \A d, e \in Rows : /\ d # e
                       /\ fp[d] = fp[e]
                       /\ status[d] \in Active
                       => status[e] \notin Active

\* Two workers are never in the pipeline for the same row, whatever the
\* heartbeats, the crashes and the operator do.
OnePipeline ==
    \A v, w \in Worker : /\ v # w
                         /\ pc[v] \in Working /\ pc[w] \in Working
                         => job[v] # job[w]

\* A second order for one row needs a lost outcome (a crash, or a database
\* outage, after the first submission) or an operator: no result of the
\* pipeline leads to an automatic replay.
SingleSubmission ==
    \A e \in Event : submitted[e] > 1 => waived[e]

\* An event waits for a retry only if its order cannot have reached the
\* exchange.
RetryBeforeExchange ==
    \A e \in Event : status[e] = "retrying" /\ submitted[e] > 0 => waived[e]

\* A row in manual review or rolled back leaves that status only through
\* the operator: no late write of a worker, handler or claim reopens it.
ReviewIsFinal ==
    [][\A e \in Event : status[e] \in Review /\ status'[e] # status[e]
                        => requeues' = requeues + 1]_vars

\* An active event reaches a terminal status whatever the retries, the
\* heartbeats, the other rows and the operator do; after a crash it is
\* reclaimed as long as attempts are left.
EventsSettle ==
    \A e \in Event :
        status[e] \in Active
            ~> \/ status[e] \notin Active
               \/ crashes > 0 /\ attempts[e] = MaxAttempts

(***************************************************************************)
(* The contract of DeliveryContract, under a refinement mapping: an event  *)
(* is open while its row is active or a worker runs its pipeline.          *)
(***************************************************************************)
InPipeline(e) == \E w \in Worker : pc[w] \in Working /\ job[w] = e

Phase(e) ==
    IF e > reserved THEN "absent"
    ELSE IF status[e] \in Active \/ InPipeline(e) THEN "open" ELSE "settled"

Contract == INSTANCE DeliveryContract
    WITH phase <- [e \in Event |-> Phase(e)],
         orders <- submitted, licensed <- waived

\* A settled event runs again, or sends a second order, only by the
\* operator's hand or, for the order, after a crash.
ImplementsContract == Contract!Spec

-----------------------------------------------------------------------------
(***************************************************************************)
(* What the comments, docstrings and the README of the repository say, and *)
(* the code does not do (see the findings in the README of this project).  *)
(***************************************************************************)
\* An ambiguous exchange result is never left as "error", the status the
\* dedupe check ignores.
ErrorIsPreExecution ==
    \A e \in Event : status[e] = "error" => submitted[e] = 0

\* A row whose lease ran out after the last attempt is failed, so that
\* the operator sees an exhausted event to requeue.
ExhaustedEventsFail ==
    \A e \in Event :
        status[e] = "processing" /\ attempts[e] = MaxAttempts /\ elapsed[e]
            ~> status[e] # "processing"

=============================================================================
