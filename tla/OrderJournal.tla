---------------------------- MODULE OrderJournal ----------------------------
(***************************************************************************)
(* The order journal: every live entry writes an intent to a file before   *)
(* it contacts the exchange (services/signal_processor.py,                 *)
(* core/reconciliation_journal.py), advances it as the result arrives and  *)
(* the database row of the order (order_events) is staged, and a job       *)
(* (services/order_reconciler.py) turns the intents that a crash left      *)
(* behind into rows for the operator.                                      *)
(*                                                                         *)
(* One attempt is one run of _execute_trade for a live entry: it owns one  *)
(* intent, sends at most one order and stages at most one row.  Attempts   *)
(* of one alert share the client order id, which is a hash of the          *)
(* fingerprint; they share the signal gate too, so they do not overlap.    *)
(***************************************************************************)
EXTENDS Naturals

CONSTANTS
    Attempt,      \* runs of _execute_trade
    ClientId,     \* client order ids
    MaxFaults     \* bound: crashes, exceptions and failed writes

ASSUME FaultsAssumption == MaxFaults \in Nat

Live == {"prepared", "sent", "answered", "staged"}
TaskStage == {"ready", "done", "gone"} \cup Live

\* Where the create_order request of an attempt is.
Wire == {"none", "flying", "placed"}

\* What execute_trade reports: a failure before the submission, a conclusive
\* result (a fill, a resting order, an entry that was unwound), or one that
\* requires reconciliation.
Outcome == {"none", "failed", "confirmed", "ambiguous"}
RowStatus == {"none", "failed", "confirmed", "manual_review"}

\* Mutant: the set count_uncommitted_order_intents uses, without db_staged.
UncommittedUnstaged == {"prepared", "exchange_result", "manual_review"}

Uncommitted == {"prepared", "exchange_result", "db_staged", "manual_review"}
Marked == {"db_committed", "db_recovered"}
IntentStatus == {"none", "resolved"} \cup Uncommitted \cup Marked

\* Mutant: an error is a failure whatever it says of reconciliation.
ErrorIsFailure(r) == IF r = "confirmed" THEN r ELSE "failed"

\* _event_status.
RowStatusOf(r) ==
    IF r = "ambiguous" THEN "manual_review" ELSE r

VARIABLES
    cid,        \* client order id of each attempt
    pc,         \* where the task of each attempt is
    wire,       \* its request to the exchange
    outcome,    \* its result, as the task holds it
    journal,    \* status of its intent in the file
    own,        \* its committed row in order_events, written by the task
    recovered,  \* number of committed rows the recovery job wrote for it
    running,    \* the recovery job runs
    todo,       \* its snapshot of intents, those not yet handled
    target,     \* the intent being looked up, or none ({} or a singleton)
    hit,        \* whether the lookup found a row
    staged,     \* attempts whose recovered row is in the session of the job
    forgotten,  \* history: intents that were marked and have no row of theirs
    faults

jobVars  == <<running, todo, target, hit, staged>>
taskVars == <<pc, outcome, own>>
vars == <<cid, wire, journal, recovered, forgotten, faults, taskVars,
          jobVars>>

TypeOK ==
    /\ cid \in [Attempt -> ClientId]
    /\ pc \in [Attempt -> TaskStage]
    /\ wire \in [Attempt -> Wire]
    /\ outcome \in [Attempt -> Outcome]
    /\ journal \in [Attempt -> IntentStatus]
    /\ own \in [Attempt -> RowStatus]
    /\ recovered \in [Attempt -> Nat]
    /\ running \in BOOLEAN
    /\ todo \subseteq Attempt
    /\ target \subseteq Attempt
    /\ hit \in BOOLEAN
    /\ staged \subseteq Attempt
    /\ forgotten \subseteq Attempt
    /\ faults \in 0..MaxFaults

Init ==
    /\ cid \in [Attempt -> ClientId]
    /\ pc = [o \in Attempt |-> "ready"]
    /\ wire = [o \in Attempt |-> "none"]
    /\ outcome = [o \in Attempt |-> "none"]
    /\ journal = [o \in Attempt |-> "none"]
    /\ own = [o \in Attempt |-> "none"]
    /\ recovered = [o \in Attempt |-> 0]
    /\ running = FALSE
    /\ todo = {}
    /\ target = {}
    /\ hit = FALSE
    /\ staged = {}
    /\ forgotten = {}
    /\ faults = 0

-----------------------------------------------------------------------------
(***************************************************************************)
(* The task: _execute_trade and the session it commits.                    *)
(***************************************************************************)
GateFree(o) ==
    \A d \in Attempt \ {o} : cid[d] = cid[o] => pc[d] \notin Live

\* update_order_intent.
Advance(o, s) == journal' = [journal EXCEPT ![o] = s]

Fault == faults < MaxFaults /\ faults' = faults + 1

RecordIntent(o) ==
    /\ pc[o] = "ready"
    /\ GateFree(o)
    /\ Advance(o, "prepared")
    /\ pc' = [pc EXCEPT ![o] = "prepared"]
    /\ UNCHANGED <<cid, wire, outcome, own, recovered, forgotten, faults,
                   jobVars>>

CreateOrder(o) ==
    /\ pc[o] = "prepared"
    /\ pc' = [pc EXCEPT ![o] = "sent"]
    /\ wire' = [wire EXCEPT ![o] = "flying"]
    /\ UNCHANGED <<cid, outcome, own, journal, recovered, forgotten, faults,
                   jobVars>>

\* Results that execute_trade can report, given the fate of the request.  An
\* error raised once order_submission_started is set requires reconciliation
\* whether or not the request left, or the exchange refused it; only what
\* fails before it, or a failed validation, is a failure.
Reports(o) ==
    {r \in {"failed", "confirmed", "ambiguous"} :
        /\ r = "failed" => pc[o] = "prepared"
        /\ r = "confirmed" => wire[o] = "placed"}

\* The result is noted in the journal: resolved if it is a rejection or says
\* pre_execution, which some failures do not.  When that write fails the
\* result is replaced by one for manual review; a resolved one raises instead
\* (FailSession).
GetResult(o) ==
    /\ pc[o] \in {"prepared", "sent"}
    /\ pc' = [pc EXCEPT ![o] = "answered"]
    /\ \E r \in Reports(o) :
          \/ /\ \/ Advance(o, "exchange_result")
                \/ r = "failed" /\ Advance(o, "resolved")
             /\ outcome' = [outcome EXCEPT ![o] = r]
             /\ UNCHANGED faults
          \/ /\ Fault
             /\ outcome' = [outcome EXCEPT ![o] = "ambiguous"]
             /\ UNCHANGED journal
    /\ UNCHANGED <<cid, wire, own, recovered, forgotten, jobVars>>

\* The task is over: its result is gone with its locals.
End(o, s) ==
    /\ pc' = [pc EXCEPT ![o] = s]
    /\ outcome' = [outcome EXCEPT ![o] = "none"]

\* An exception or a cancellation leaves execute_trade; a request that is
\* under way stays under way.
LoseTask(o) ==
    /\ pc[o] \in {"prepared", "sent"}
    /\ Fault
    /\ End(o, "gone")
    /\ Advance(o, "manual_review") \/ UNCHANGED journal
    /\ UNCHANGED <<cid, wire, own, recovered, forgotten, jobVars>>

\* The trade log and the order event are flushed, then the journal is told.
\* When that write fails the event is turned into one for manual review.
Stage(o) ==
    /\ pc[o] = "answered"
    /\ pc' = [pc EXCEPT ![o] = "staged"]
    /\ \/ Advance(o, "db_staged") /\ UNCHANGED <<outcome, faults>>
       \/ /\ Fault
          /\ outcome' = [outcome EXCEPT ![o] = "ambiguous"]
          /\ UNCHANGED journal
    /\ UNCHANGED <<cid, wire, own, recovered, forgotten, jobVars>>

Commit(o) ==
    /\ pc[o] = "staged"
    /\ End(o, "done")
    /\ own' = [own EXCEPT ![o] = RowStatusOf(outcome[o])]
    /\ UNCHANGED <<cid, wire, journal, recovered, forgotten, faults, jobVars>>

\* The resolving write, the trade log, the event or the commit raises, and
\* nothing of the session survives.  (If it does, the worker commits it later:
\* Commit.)
FailSession(o) ==
    /\ pc[o] \in {"prepared", "answered", "staged"}
    /\ Fault
    /\ End(o, "gone")
    /\ UNCHANGED <<cid, wire, own, journal, recovered, forgotten, jobVars>>

(***************************************************************************)
(* The exchange.                                                           *)
(***************************************************************************)
Deliver(o) ==
    /\ wire[o] = "flying"
    /\ \E s \in {"placed", "none"} : wire' = [wire EXCEPT ![o] = s]
    /\ UNCHANGED <<cid, journal, recovered, forgotten, faults, taskVars,
                   jobVars>>

(***************************************************************************)
(* recover_order_intent_journal, at startup and every 5 s.                 *)
(***************************************************************************)
\* get_uncommitted_order_intents.  The job skips those younger than 30 s;
\* any number of seconds may lie between two steps of a task, so every
\* intent may be old enough at any step.
OpenIntents == {o \in Attempt : journal[o] \in Uncommitted}

\* Mutant: the lookup sees the rows of tasks only.
RowOfTask(o) == own[o] # "none"

\* The session of the job sees a row of attempt o.
RowOf(o) == own[o] # "none" \/ recovered[o] > 0 \/ o \in staged

StartRecovery ==
    /\ ~running
    /\ OpenIntents # {}
    /\ running' = TRUE
    /\ todo' = OpenIntents
    /\ UNCHANGED <<cid, wire, journal, recovered, forgotten, faults,
                   taskVars, target, hit, staged>>

\* SELECT ... WHERE client_order_id = ...
LookUp(o) ==
    /\ running /\ target = {}
    /\ o \in todo
    /\ todo' = todo \ {o}
    /\ target' = {o}
    /\ hit' = \E d \in Attempt : cid[d] = cid[o] /\ RowOf(d)
    /\ UNCHANGED <<cid, wire, journal, recovered, forgotten, faults,
                   taskVars, running, staged>>

Forget(S) == forgotten' = forgotten \cup S

\* A row with the client order id exists: taken for the row of the intent.
Link(o) ==
    /\ o \in target /\ hit
    /\ Advance(o, "db_committed")
    /\ target' = {} /\ hit' = FALSE
    /\ Forget(IF RowOf(o) THEN {} ELSE {o})
    /\ UNCHANGED <<cid, wire, recovered, faults, taskVars, running, todo,
                   staged>>

\* No row: one is added to the session, and the intent is marked.
Surface(o) ==
    /\ o \in target /\ ~hit
    /\ Advance(o, "db_recovered")
    /\ target' = {}
    /\ staged' = staged \cup {o}
    /\ UNCHANGED <<cid, wire, recovered, forgotten, faults, taskVars, running,
                   todo, hit>>

\* The caller commits after the loop.
CommitRecovery ==
    /\ running /\ target = {} /\ todo = {}
    /\ running' = FALSE
    /\ recovered' = [o \in Attempt |-> IF o \in staged THEN recovered[o] + 1
                                       ELSE recovered[o]]
    /\ staged' = {}
    /\ UNCHANGED <<cid, wire, journal, forgotten, faults, taskVars,
                   todo, target, hit>>

\* The session of the job ends without a commit.
DropJob ==
    /\ running' = FALSE
    /\ todo' = {}
    /\ target' = {} /\ hit' = FALSE
    /\ staged' = {}
    /\ Forget({o \in staged : own[o] = "none" /\ recovered[o] = 0})

\* A query, a journal write or the commit raises.
AbortRecovery ==
    /\ Fault
    /\ running
    /\ DropJob
    /\ UNCHANGED <<cid, wire, journal, recovered, taskVars>>

\* The process dies with all its tasks and sessions; the file, the database
\* and the requests under way survive.
Crash ==
    /\ Fault
    /\ pc' = [o \in Attempt |-> IF pc[o] \in Live THEN "gone" ELSE pc[o]]
    /\ outcome' = [o \in Attempt |-> "none"]
    /\ DropJob
    /\ UNCHANGED <<cid, wire, journal, recovered, own>>

-----------------------------------------------------------------------------
TaskStep(o) ==
    \/ CreateOrder(o) \/ GetResult(o) \/ LoseTask(o)
    \/ Stage(o) \/ Commit(o) \/ FailSession(o)

RecoveryStep ==
    \/ StartRecovery \/ CommitRecovery
    \/ \E o \in Attempt : LookUp(o) \/ Link(o) \/ Surface(o)

Next ==
    \/ \E o \in Attempt : RecordIntent(o) \/ TaskStep(o) \/ Deliver(o)
    \/ RecoveryStep \/ AbortRecovery \/ Crash

Spec == Init /\ [][Next]_vars

\* Awaits end, the scheduler runs the job every 5 s.
\* The exchange owes nothing, and alerts, failures and crashes need not come.
Fairness ==
    /\ \A o \in Attempt : WF_vars(TaskStep(o))
    /\ WF_vars(RecoveryStep)

FairSpec == Spec /\ Fairness

-----------------------------------------------------------------------------
\* At every moment, so at every crash, an order that exists is in an intent
\* the job will find or has a row: whatever crashes, lost answers and failed
\* writes come between, only the two ways recorded in "forgotten" lose sight
\* of it (a row of another attempt taken for its own, a recovery that marked
\* the intent and lost its session).
Tracked ==
    \A o \in Attempt :
        wire[o] = "placed" =>
            journal[o] \in Uncommitted \/ RowOf(o) \/ o \in forgotten

\* A row that reports a failure, which no one has to review, never belongs
\* to an order that exists.
FailureIsReal ==
    \A o \in Attempt : own[o] = "failed" => wire[o] = "none"

\* However often the intent of an attempt becomes uncommitted again (a slow
\* task advances it after the job surfaced it), the operator gets one row.
SurfacedOnce == \A o \in Attempt : recovered[o] <= 1

\* An order that exists gets a committed row in the end.
OrdersSurface ==
    \A o \in Attempt :
        wire[o] = "placed"
            ~> own[o] # "none" \/ recovered[o] > 0 \/ o \in forgotten

-----------------------------------------------------------------------------
(***************************************************************************)
(* What comments of the repository say, and the code does not do (see the  *)
(* findings in the README of this project).                                *)
(***************************************************************************)
\* The job lets go of the intent of an order that exists, and whose task is
\* gone, only when its row is durable.
RecoveryIsDurable ==
    \A o \in Attempt :
        /\ wire[o] = "placed" /\ pc[o] = "gone"
        /\ journal[o] = "db_recovered" /\ o \notin staged
        => recovered[o] > 0
=============================================================================
