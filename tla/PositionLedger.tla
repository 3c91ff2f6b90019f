--------------------------- MODULE PositionLedger ---------------------------
(***************************************************************************)
(* The ledger row of one open position (core/database.py) and the sessions *)
(* that may close it at the same time: an operator's close request         *)
(* (routers/user.py), a signal that closes or reverses the position        *)
(* (services/signal_processor.py) and the cycles of the position monitor   *)
(* (position_monitor.py).                                                  *)
(*                                                                         *)
(* A session keeps the row it has read (the identity map of the ORM): a    *)
(* later SELECT ... FOR UPDATE takes the row lock and gives back the same  *)
(* object, with the values read first.  A commit writes the columns whose  *)
(* value the session changed.  On PostgreSQL a NOWAIT request for a lock   *)
(* that is held aborts the transaction, so the second try of               *)
(* close_position_async fails as well and the session ends.                *)
(*                                                                         *)
(* Quantities are counted in units of the opened quantity.                 *)
(***************************************************************************)
EXTENDS Integers

CONSTANTS
    Manual,     \* sessions of POST /positions/{id}/close
    Reverse,    \* sessions of _close_conflicting_position
    Signal,     \* sessions that log a close signal (log_trade_db)
    Monitor,    \* the session of the monitor's cycles
    NoOne,
    Qty,        \* opened quantity
    MaxFaults   \* bound: transactions that fail before they commit

Closer == Manual \cup Reverse \cup Signal
Session == Closer \cup {Monitor}

ASSUME LedgerAssumption ==
    /\ Qty \in Nat \ {0}
    /\ MaxFaults \in Nat
    /\ NoOne \notin Session
    /\ Monitor \notin Closer
    /\ Signal \cap (Manual \cup Reverse) = {}

Stage == {"idle", "read", "sent", "found", "done"}
Row == [status : {"open", "closed"}, rem : 0..Qty]

VARIABLES
    live,       \* a live position, or a paper one
    row,        \* the committed row
    lock,       \* the session that holds the row lock
    at,         \* where each session is
    copy,       \* the row as each session has read it
    draft,      \* the row as the lock holder will write it
    amount,     \* quantity each session closes (Qty stands for all of it)
    pend,       \* quantity whose PnL the lock holder has booked
    booked,     \* quantity whose PnL committed transactions have booked
    exposure,   \* contracts on the exchange (live)
    faults

ledgerVars ==
    <<live, row, lock, at, copy, draft, amount, pend, booked, exposure, faults>>

LedgerTypeOK ==
    /\ live \in BOOLEAN
    /\ row \in Row
    /\ lock \in Session \cup {NoOne}
    /\ at \in [Session -> Stage]
    /\ copy \in [Session -> Row]
    /\ draft \in Row
    /\ amount \in [Session -> 1..Qty]
    /\ pend \in 0..Qty
    /\ booked \in Nat
    /\ exposure \in 0..Qty
    /\ faults \in 0..MaxFaults

Opened == [status |-> "open", rem |-> Qty]

LedgerInit ==
    /\ live \in BOOLEAN
    /\ row = Opened
    /\ lock = NoOne
    /\ at = [s \in Session |-> "idle"]
    /\ copy = [s \in Session |-> Opened]
    /\ draft = Opened
    /\ amount = [s \in Session |-> Qty]
    /\ pend = 0
    /\ booked = 0
    /\ exposure = Qty
    /\ faults = 0

Least(m, n) == IF m < n THEN m ELSE n

Goto(s, stage) == at' = [at EXCEPT ![s] = stage]
-----------------------------------------------------------------------------
(***************************************************************************)
(* A closer: read the row, close on the exchange, lock, book, commit.  A   *)
(* close signal contacts the exchange first and looks for the row after.   *)
(***************************************************************************)
\* The request is refused unless the row is open.
ReadPosition(s) ==
    /\ s \in Manual \cup Reverse
    /\ at[s] = "idle"
    /\ row.status = "open"
    /\ copy' = [copy EXCEPT ![s] = row]
    /\ Goto(s, "read")
    /\ UNCHANGED <<live, row, lock, draft, amount, pend, booked, exposure,
                   faults>>

ReadyToSend(s) ==
    \/ s \in Manual \cup Reverse /\ at[s] = "read"
    \/ s \in Signal /\ at[s] = "idle"

\* A share of the quantity the session has read; close_pct is below 99.9.
Shares(s) == IF s \in Manual THEN 1..(copy[s].rem - 1) ELSE {}

\* Mutant: a full close is taken for done when the order is accepted.
LeftIfAccepted(q) == 0..exposure

\* A full close is confirmed only when the position is flat; a partial one
\* takes what is there.
Left(q) == IF q = Qty THEN {0} ELSE {exposure - Least(q, exposure)}

\* The exchange confirms what it closed.
CloseConfirmed(s) ==
    /\ ReadyToSend(s)
    /\ \E q \in {Qty} \cup Shares(s) :
        /\ amount' = [amount EXCEPT ![s] = q]
        /\ IF live THEN exposure > 0 /\ exposure' \in Left(q)
                   ELSE UNCHANGED exposure
    /\ Goto(s, "sent")
    /\ UNCHANGED <<live, row, lock, copy, draft, pend, booked, faults>>

\* No position, an error, or a close that was not confirmed although it may
\* have gone through: nothing is recorded.
CloseNotConfirmed(s) ==
    /\ ReadyToSend(s)
    /\ live
    /\ \E left \in 0..exposure : exposure' = left
    /\ Goto(s, "done")
    /\ UNCHANGED <<live, row, lock, copy, draft, amount, pend, booked, faults>>

\* sync_position_from_trade_entry_async: the newest active row.
FindPosition(s) ==
    /\ s \in Signal
    /\ at[s] = "sent"
    /\ IF row.status = "open"
       THEN copy' = [copy EXCEPT ![s] = row] /\ Goto(s, "found")
       ELSE UNCHANGED copy /\ Goto(s, "done")
    /\ UNCHANGED <<live, row, lock, draft, amount, pend, booked, exposure,
                   faults>>

ReadyToBook(s) ==
    \/ s \in Manual \cup Reverse /\ at[s] = "sent"
    \/ s \in Signal /\ at[s] = "found"

\* Mutant of Settled: any close ends the position.
SettledAtOnce(held, q) == [status |-> "closed", rem |-> 0]

\* close_position_async and record_position_partial_close_trade_async work on
\* the object the session holds: what it takes as remaining is what it read.
Settled(held, q) ==
    LET taken == Least(q, held.rem) IN
    [status |-> IF taken = held.rem THEN "closed" ELSE held.status,
     rem |-> held.rem - taken]

BookWith(s, held, q) ==
    /\ lock' = s
    /\ draft' = Settled(held, q)
    /\ pend' = Least(q, held.rem)

BookClose(s) ==
    /\ ReadyToBook(s)
    /\ lock = NoOne
    /\ copy[s].status = "open"
    /\ BookWith(s, copy[s], amount[s])
    /\ UNCHANGED <<live, row, at, copy, amount, booked, exposure, faults>>

\* NOWAIT on a row that another session holds; _close_conflicting_position
\* asks for the lock without NOWAIT first, and waits.
LockRefused(s) ==
    /\ ReadyToBook(s)
    /\ s \notin Reverse
    /\ lock \notin {NoOne, s}
    /\ Goto(s, "done")
    /\ UNCHANGED <<live, row, lock, copy, draft, amount, pend, booked,
                   exposure, faults>>

\* Mutant: every column of the session's object is written.
WholeRow(held, new, old) == new

\* The columns the session changed are written; the others keep the value of
\* the row.
Written(held, new, old) ==
    [c \in DOMAIN old |-> IF new[c] = held[c] THEN old[c] ELSE new[c]]

\* Mutant: the monitor's loop ends with its first cycle.
AfterOnce(s) == "done"

After(s) == IF s = Monitor THEN "idle" ELSE "done"

Commit(s) ==
    /\ lock = s
    /\ row' = Written(copy[s], draft, row)
    /\ booked' = booked + pend
    /\ lock' = NoOne
    /\ pend' = 0
    /\ Goto(s, After(s))
    /\ UNCHANGED <<live, copy, draft, amount, exposure, faults>>

\* The transaction fails: nothing of it is kept.
Abort(s) ==
    /\ lock = s
    /\ faults < MaxFaults
    /\ faults' = faults + 1
    /\ lock' = NoOne
    /\ pend' = 0
    /\ Goto(s, After(s))
    /\ UNCHANGED <<live, row, copy, draft, amount, booked, exposure>>

-----------------------------------------------------------------------------
(***************************************************************************)
(* The monitor and the exchange.                                           *)
(***************************************************************************)
\* run_position_monitor_once: the snapshot of the open rows.
StartCycle ==
    /\ at[Monitor] = "idle"
    /\ row.status = "open"
    /\ copy' = [copy EXCEPT ![Monitor] = row]
    /\ Goto(Monitor, "read")
    /\ UNCHANGED <<live, row, lock, draft, amount, pend, booked, exposure,
                   faults>>

\* _reconcile_position asks for the row again, if it is still open.
Reconciling == at[Monitor] = "read" /\ lock = NoOne /\ row.status = "open"

SkipClosed ==
    /\ at[Monitor] = "read"
    /\ lock = NoOne
    /\ row.status = "closed"
    /\ Goto(Monitor, "idle")
    /\ UNCHANGED <<live, row, lock, copy, draft, amount, pend, booked,
                   exposure, faults>>

\* A paper position: the stop takes all of it, a target some of it.
PaperExit ==
    /\ ~live
    /\ Reconciling
    /\ \E q \in 1..Qty : BookWith(Monitor, copy[Monitor], q)
    /\ UNCHANGED <<live, row, at, copy, amount, booked, exposure, faults>>

\* A live position that the exchange still reports: its size is taken over.
SyncExposure ==
    /\ live
    /\ Reconciling
    /\ exposure > 0
    /\ lock' = Monitor
    /\ draft' = [status |-> "open", rem |-> exposure]
    /\ pend' = 0
    /\ UNCHANGED <<live, row, at, copy, amount, booked, exposure, faults>>

\* A live position that is gone: its close order was found, or the ghost
\* counter has reached its threshold.
BookVanished ==
    /\ live
    /\ Reconciling
    /\ exposure = 0
    /\ BookWith(Monitor, copy[Monitor], Qty)
    /\ UNCHANGED <<live, row, at, copy, amount, booked, exposure, faults>>

\* Neither yet: the cycle leaves the row as it is.
KeepWaiting ==
    /\ Reconciling
    /\ live => exposure = 0
    /\ Goto(Monitor, "idle")
    /\ UNCHANGED <<live, row, lock, copy, draft, amount, pend, booked,
                   exposure, faults>>

\* A stop or a target fills on the exchange.
ProtectionFills ==
    /\ live
    /\ exposure > 0
    /\ \E left \in 0..(exposure - 1) : exposure' = left
    /\ UNCHANGED <<live, row, lock, at, copy, draft, amount, pend, booked,
                   faults>>

CloserStep(s) ==
    \/ ReadPosition(s) \/ CloseConfirmed(s) \/ CloseNotConfirmed(s)
    \/ FindPosition(s) \/ BookClose(s) \/ LockRefused(s)

MonitorStep ==
    \/ StartCycle \/ SkipClosed \/ PaperExit \/ SyncExposure \/ BookVanished
    \/ KeepWaiting

LedgerNext ==
    \/ \E s \in Closer : CloserStep(s)
    \/ MonitorStep
    \/ \E s \in Session : Commit(s) \/ Abort(s)
    \/ ProtectionFills

\* Transactions end, and the scheduler keeps starting cycles (core/lifespan.py);
\* a position that stays gone reaches the ghost threshold.
LedgerFairness ==
    /\ \A s \in Session : WF_ledgerVars(Commit(s))
    /\ WF_ledgerVars(StartCycle)
    /\ WF_ledgerVars(SkipClosed)
    /\ SF_ledgerVars(BookVanished)

LedgerSpec == LedgerInit /\ [][LedgerNext]_ledgerVars
FairLedgerSpec == LedgerSpec /\ LedgerFairness
-----------------------------------------------------------------------------
\* Whatever the sessions overlap on, no part of a paper position drops out of
\* the books: what has been booked and what the row still has to close cover
\* the opened quantity (core/database.py, close_position_async).
NothingUnbooked == live \/ booked + row.rem >= Qty

\* A row is closed only when the exchange holds nothing any more: every path
\* that records a close waits for the exchange to be flat.
ClosedMeansFlat == live /\ row.status = "closed" => exposure = 0

\* A session that read the position while it was open, and writes it late, never
\* reopens a row that another one has closed (the columns a flush writes).
NeverReopened == [][row.status = "closed" => row'.status = "closed"]_ledgerVars

\* close_position_async, "Re-checks position status before closing to prevent
\* double-close race conditions": no quantity is booked twice.
BookedOnce == booked <= Qty

\* A live position that is gone from the exchange ends closed in the ledger,
\* although the session that closed it may have failed to record it.
GoneIsBooked == live /\ exposure = 0 ~> row.status = "closed"
=============================================================================
