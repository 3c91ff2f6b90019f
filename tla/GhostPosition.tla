---------------------------- MODULE GhostPosition ----------------------------
(***************************************************************************)
(* One live row and the cycles of the position monitor that decide whether *)
(* its position is still there (position_monitor.py): the list of the open *)
(* positions may leave it out and a read of the symbol may miss it, so a   *)
(* row is closed as a ghost only after repeated targeted reads, and a row  *)
(* that was closed although the position is there is opened again.         *)
(*                                                                         *)
(* The counter of missing reads is kept in memory and in a file; a cycle   *)
(* loads the file, and ends with one commit.  The process may die at any   *)
(* point.  The entry order of the row may still be live: it had a fill,    *)
(* and may have another.                                                   *)
(***************************************************************************)
EXTENDS Integers

CONSTANTS
    Threshold,  \* _calculate_ghost_threshold
    MaxLies,    \* bound: targeted reads that miss the position
    MaxFailures \* bound: requests and saves of the tracker that fail

ASSUME GhostAssumption ==
    Threshold \in Nat \ {0} /\ MaxLies \in Nat /\ MaxFailures \in Nat

\* The state of the row: open, or why it is closed.
\* exchange_closed stands for stop_loss, take_profit and exchange_closed_unmatched
\* as well: what a close order that was found gives.
Reason == {"open", "ghost_position_auto_close", "exchange_closed",
           "entry_order_not_found"}

\* recoverable_reasons.
Recoverable == {"ghost_position_auto_close", "exchange_closed"}

Stop == {"idle", "recover", "entry", "missing", "batch", "empty", "keep",
         "single", "final", "order", "residual", "cleanup", "commit"}

VARIABLES
    there,     \* the exchange holds the position
    entryAt,   \* the entry order: live, ended, or its id cleared from the row
    overdue,   \* the entry order is past its limit timeout
    closeFill, \* the recent orders show a filled close order
    guarded,   \* its protective orders are on the exchange
    status,    \* the committed row
    drafted,   \* the row in the cycle's session
    recent,    \* closed within the last 24 hours
    twin,      \* another active row for the symbol and side
    counter,   \* fail_count in memory; 0 stands for no entry
    stored,    \* fail_count in the file
    aged,      \* missing for _GHOST_MIN_ELAPSED_SECS
    stop,      \* where the cycle is
    far,       \* the market is beyond half or twice the entry price
    lies,      \* targeted reads that missed the position
    failures,
    refilled   \* the exposure was opened again by the entry order

ghostVars == <<there, entryAt, overdue, closeFill, guarded, status, drafted,
               recent, twin, counter, stored, aged, stop, far, lies, failures,
               refilled>>
marketVars == <<there, entryAt, overdue, closeFill, far, refilled>>
trackerVars == <<counter, stored, aged>>
rowVars == <<status, drafted, recent, twin>>

GhostTypeOK ==
    /\ {there, overdue, closeFill, guarded, recent, twin, far, refilled} \subseteq BOOLEAN
    /\ entryAt \in {"live", "ended", "cleared"}
    /\ status \in Reason
    /\ drafted \in Reason
    /\ counter \in 0..Threshold + 1
    /\ stored \in 0..Threshold + 1
    /\ aged \in BOOLEAN
    /\ stop \in Stop
    /\ lies \in 0..MaxLies
    /\ failures \in 0..MaxFailures

\* The entry was filled, at least in part, and is protected.
GhostInit ==
    /\ there = TRUE
    /\ entryAt \in {"live", "ended", "cleared"}
    /\ overdue = FALSE
    /\ closeFill = FALSE
    /\ guarded = TRUE
    /\ status = "open"
    /\ drafted = "open"
    /\ recent = TRUE
    /\ twin = FALSE
    /\ counter = 0
    /\ stored = 0
    /\ aged = FALSE
    /\ stop = "idle"
    /\ far \in BOOLEAN
    /\ lies = 0
    /\ failures = 0
    /\ refilled = FALSE

Lower(m, n) == IF m < n THEN m ELSE n

\* fetch_single_position: what is there, or nothing although it is.
Targeted(found) ==
    \/ found = there /\ UNCHANGED lies
    \/ ~found /\ there /\ lies < MaxLies /\ lies' = lies + 1

Works == UNCHANGED failures
Fails == failures < MaxFailures /\ failures' = failures + 1

\* _save_ghost_tracker logs a failure and goes on.  The counter is not followed
\* beyond Threshold + 1.
Track(n) ==
    /\ counter' = Lower(n, Threshold + 1)
    /\ \/ stored' = Lower(n, Threshold + 1) /\ Works
       \/ stored' = stored /\ Fails
    /\ aged' = (aged /\ n > 0)

Untracked == UNCHANGED trackerVars

\* Orders are placed where they are missing.
Reprotect == guarded' = TRUE

Proceed(s) == stop' = s
End == Proceed("commit")
-----------------------------------------------------------------------------
(***************************************************************************)
(* The cycle.                                                              *)
(***************************************************************************)
\* Mutant: the file is not read.
LoadNothing == counter

\* _load_ghost_tracker: an entry of the file replaces the one in memory.
Loaded == IF stored > 0 THEN stored ELSE counter

StartGhostCycle ==
    /\ stop = "idle"
    /\ counter' = Loaded
    /\ drafted' = status
    /\ Proceed("recover")
    /\ UNCHANGED <<marketVars, guarded, status, recent, twin, stored, aged, lies,
                   failures>>


ToRecover == status \in Recoverable /\ recent /\ ~twin

\* _recover_ghost_closed_positions, with a commit of its own.
Reopen ==
    /\ stop = "recover"
    /\ ToRecover
    /\ Targeted(TRUE)
    /\ drafted' = "open"
    /\ Track(0)
    /\ guarded' \in {guarded, TRUE}
    /\ End
    /\ UNCHANGED <<marketVars, status, recent, twin>>

\* Not to be recovered, not seen, or the read fails; an open row goes on.
NotReopened ==
    /\ stop = "recover"
    /\ IF ToRecover
       THEN (Targeted(FALSE) /\ Works) \/ (Fails /\ UNCHANGED lies)
       ELSE UNCHANGED <<lies, failures>>
    /\ Proceed(IF status = "open" THEN "entry" ELSE "idle")
    /\ UNCHANGED <<marketVars, guarded, rowVars, trackerVars>>

\* _check_pending_limit_orders, for an order that had a fill: the rest is
\* cancelled when it is overdue.
EntryChecked ==
    /\ stop = "entry"
    /\ \/ entryAt = "live" /\ Reprotect /\ Works
          /\ entryAt' = IF overdue THEN "cleared" ELSE "live"
       \/ entryAt = "live" /\ Reprotect /\ Fails /\ UNCHANGED entryAt
       \/ entryAt # "live" /\ UNCHANGED <<guarded, entryAt, failures>>
    /\ Proceed("batch")
    /\ UNCHANGED <<there, overdue, closeFill, far, refilled, rowVars, trackerVars,
                   lies>>

\* The exchange no longer knows the order.
EntryMissed ==
    /\ stop = "entry"
    /\ entryAt = "ended"
    /\ Proceed("missing")
    /\ UNCHANGED <<marketVars, guarded, rowVars, trackerVars, lies, failures>>

\* _close_missing_entry_order_without_exposure.
MissingEntry ==
    /\ stop = "missing"
    /\ \/ /\ Targeted(FALSE)
          /\ drafted' = "entry_order_not_found"
          /\ Track(0) /\ End
          /\ UNCHANGED guarded
       \/ /\ Targeted(TRUE) /\ Works
          /\ Reprotect /\ Proceed("batch")
          /\ UNCHANGED <<drafted, trackerVars>>
       \/ /\ Proceed("batch") /\ Fails
          /\ UNCHANGED <<drafted, guarded, trackerVars, lies>>
    /\ UNCHANGED <<marketVars, status, recent, twin>>

\* get_open_positions lists the position: the row follows it, and its orders are
\* verified.
Listed ==
    /\ stop = "batch"
    /\ there
    /\ Track(0)
    /\ Reprotect
    /\ End
    /\ UNCHANGED <<marketVars, rowVars, lies>>

ListFails ==
    /\ stop = "batch"
    /\ Fails
    /\ End
    /\ UNCHANGED <<marketVars, guarded, rowVars, trackerVars, lies>>

\* All targets are hit and something is left: it is closed (CloseContract), and
\* recorded as take_profit.
CloseResidual ==
    /\ stop = "batch"
    /\ there
    /\ \E closed \in BOOLEAN :
        /\ there' \in {there, FALSE}
        /\ closed => ~there'
        /\ drafted' = IF closed THEN "exchange_closed" ELSE drafted
    /\ Track(0)
    /\ End
    /\ UNCHANGED <<entryAt, overdue, closeFill, far, refilled, guarded, status,
                   recent, twin, lies>>

\* The list leaves the position out, or is empty; with a filled close order
\* only what is left has to be looked at.
Unlisted ==
    /\ stop = "batch"
    /\ \/ closeFill /\ Proceed("residual")
       \/ Proceed("single")
       \/ Proceed("empty")
    /\ UNCHANGED <<marketVars, guarded, rowVars, trackerVars, lies, failures>>

\* A targeted read has the position: the counter starts again.
Seen ==
    /\ stop \in {"empty", "single", "final"}
    /\ Targeted(TRUE)
    /\ Track(0)
    /\ End
    /\ UNCHANGED <<marketVars, guarded, rowVars>>

\* It fails: nothing is decided in this cycle.
ReadFails ==
    /\ stop \in {"empty", "single", "final", "residual"}
    /\ Fails
    /\ End
    /\ UNCHANGED <<marketVars, guarded, rowVars, trackerVars, lies>>

EmptyMissed ==
    /\ stop = "empty"
    /\ Targeted(FALSE)
    /\ Proceed("keep")
    /\ UNCHANGED <<marketVars, guarded, rowVars, trackerVars, failures>>

\* Mutant: an order that is still live is left alone.
EntryLeft == UNCHANGED entryAt

\* An order that is still live is cancelled.
EntryCancelled == entryAt' = IF entryAt = "live" THEN "ended" ELSE entryAt

\* A live entry order keeps the row while it is in time, and is cancelled after.
KeepForEntry ==
    /\ stop = "keep"
    /\ \/ (entryAt = "live" => overdue) /\ EntryCancelled /\ Works
          /\ Proceed("single")
       \/ entryAt = "live" /\ ~overdue /\ UNCHANGED <<entryAt, failures>> /\ End
       \/ entryAt # "cleared" /\ Fails /\ UNCHANGED entryAt /\ End
    /\ UNCHANGED <<there, overdue, closeFill, far, refilled, guarded, rowVars,
                   trackerVars, lies>>

\* Mutant: a read that fails counts as well.
CountedAnyway == UNCHANGED lies

\* What makes the counter rise: a targeted read without the position.
Counted == Targeted(FALSE)

SingleMissed ==
    /\ stop = "single"
    /\ Counted
    /\ IF entryAt # "cleared" /\ ~overdue
       THEN End /\ UNCHANGED <<trackerVars, failures>>
       ELSE /\ Track(counter + 1)
            /\ Proceed(IF counter + 1 >= Threshold /\ aged
                       THEN "final" ELSE "commit")
    /\ UNCHANGED <<marketVars, guarded, rowVars>>

\* The last look; then a plausible price is needed.
FinalMissed ==
    /\ stop = "final"
    /\ Targeted(FALSE)
    /\ \/ ~far /\ Works /\ Proceed("order")
       \/ far /\ Works /\ End
       \/ Fails /\ End
    /\ UNCHANGED <<marketVars, guarded, rowVars, trackerVars>>

\* The row is closed; its protective orders stay on the exchange.
GhostClose ==
    /\ stop = "order"
    /\ EntryCancelled
    /\ drafted' = "ghost_position_auto_close"
    /\ Track(0)
    /\ End
    /\ UNCHANGED <<there, overdue, closeFill, far, refilled, guarded, status,
                   recent, twin, lies>>

\* The entry order cannot be read or cancelled.
GhostAborted ==
    /\ stop = "order"
    /\ entryAt # "cleared"
    /\ Fails
    /\ End
    /\ UNCHANGED <<marketVars, guarded, rowVars, trackerVars, lies>>

\* A close order was found, and the position as well.
ResidualSeen ==
    /\ stop = "residual"
    /\ Targeted(TRUE)
    /\ Reprotect
    /\ End
    /\ UNCHANGED <<marketVars, rowVars, trackerVars, failures>>

ResidualMissed ==
    /\ stop = "residual"
    /\ Targeted(FALSE)
    /\ drafted' = "exchange_closed"
    /\ Proceed("cleanup")
    /\ UNCHANGED <<marketVars, guarded, status, recent, twin, trackerVars,
                   failures>>

\* The protective orders are cancelled; a failure is recorded.
CleanUpOrders ==
    /\ stop = "cleanup"
    /\ \/ guarded' = FALSE /\ Works
       \/ UNCHANGED guarded /\ Fails
    /\ End
    /\ UNCHANGED <<marketVars, rowVars, trackerVars, lies>>

CommitRow ==
    /\ stop = "commit"
    /\ status' = drafted
    /\ recent' = (recent \/ (status = "open" /\ drafted # "open"))
    /\ Proceed("idle")
    /\ UNCHANGED <<marketVars, guarded, drafted, twin, trackerVars, lies,
                   failures>>

\* The commit fails: the row stays as it was, orders and tracker do not.
LoseCycle ==
    /\ stop = "commit"
    /\ drafted # status
    /\ Proceed("idle")
    /\ UNCHANGED <<marketVars, guarded, rowVars, trackerVars, lies, failures>>

\* The process dies and is started again.  Where the cycle has changed neither
\* the row nor the tracker a death is a request that fails.
Restart ==
    /\ stop = "idle" \/ (stop = "commit" /\ drafted # status)
    /\ counter' = 0
    /\ Proceed("idle")
    /\ UNCHANGED <<marketVars, guarded, rowVars, stored, aged, lies, failures>>
-----------------------------------------------------------------------------
(***************************************************************************)
(* The exchange, time and other rows.                                      *)
(***************************************************************************)
cycleVars == <<status, drafted, counter, stored, stop, lies, failures>>

EntryRefills ==
    /\ entryAt = "live"
    /\ there' = TRUE
    /\ refilled' = (refilled \/ ~there)
    /\ entryAt' \in {"live", "ended"}
    /\ UNCHANGED <<overdue, closeFill, far, guarded, recent, twin, aged,
                   cycleVars>>

EntryStops ==
    /\ entryAt = "live"
    /\ entryAt' = "ended"
    /\ UNCHANGED <<there, overdue, closeFill, far, refilled, guarded, recent,
                   twin, aged, cycleVars>>

\* The position is closed, or all but a rest; by an order that will be found, or
\* otherwise (liquidation, an operator at the exchange).
Reduced ==
    /\ there
    /\ there' \in BOOLEAN
    /\ closeFill' \in {closeFill, TRUE}
    /\ guarded' \in IF there' THEN {guarded} ELSE {guarded, FALSE}
    /\ UNCHANGED <<entryAt, overdue, far, refilled, recent, twin, aged,
                   cycleVars>>

EntryOverdue ==
    /\ ~overdue
    /\ overdue' = TRUE
    /\ UNCHANGED <<there, entryAt, closeFill, far, refilled, guarded, recent,
                   twin, aged, cycleVars>>

MissingForLong ==
    /\ counter > 0 \/ stored > 0
    /\ ~aged
    /\ aged' = TRUE
    /\ UNCHANGED <<marketVars, guarded, recent, twin, cycleVars>>

\* 24 hours pass after the close.
Forget ==
    /\ status # "open"
    /\ recent
    /\ recent' = FALSE
    /\ UNCHANGED <<marketVars, guarded, twin, aged, cycleVars>>

\* A new row for the symbol and side.
OpenTwin ==
    /\ status # "open"
    /\ ~twin
    /\ twin' = TRUE
    /\ UNCHANGED <<marketVars, guarded, recent, aged, cycleVars>>

CycleStep ==
    \/ Reopen \/ NotReopened
    \/ EntryChecked \/ EntryMissed \/ MissingEntry
    \/ Listed \/ ListFails \/ CloseResidual \/ Unlisted
    \/ Seen \/ ReadFails \/ EmptyMissed \/ KeepForEntry \/ SingleMissed
    \/ FinalMissed \/ GhostClose \/ GhostAborted
    \/ ResidualSeen \/ ResidualMissed \/ CleanUpOrders

GhostNext ==
    \/ StartGhostCycle \/ CycleStep \/ CommitRow \/ LoseCycle \/ Restart
    \/ EntryRefills \/ EntryStops \/ Reduced \/ EntryOverdue \/ MissingForLong
    \/ Forget \/ OpenTwin

\* The scheduler keeps starting cycles and time passes.  The list is not always
\* incomplete; a process that dies, however often, runs some cycles to the end,
\* and of the commits that change the row some succeed.
GhostFairness ==
    /\ WF_ghostVars(StartGhostCycle)
    /\ WF_ghostVars(EntryOverdue)
    /\ WF_ghostVars(MissingForLong)
    /\ WF_ghostVars(CycleStep)
    /\ SF_ghostVars(Listed)
    /\ WF_ghostVars(CommitRow)
    /\ SF_ghostVars(CommitRow /\ drafted # status)

GhostSpec == GhostInit /\ [][GhostNext]_ghostVars
FairGhostSpec == GhostSpec /\ GhostFairness
-----------------------------------------------------------------------------
\* "premature closure ... during temporary API/network issues": a position that
\* has been there all the time is closed as a ghost only after one targeted read
\* more than the threshold missed it, whatever requests and saves failed and
\* however often the process died in between.
GhostIsEarned ==
    status = "ghost_position_auto_close" /\ there /\ ~refilled
    => lies > Threshold

\* "Ghost detection closed DB position but left the exchange limit order alive":
\* no entry order outlives a ghost close.
NoOrphanedEntry == status = "ghost_position_auto_close" => entryAt # "live"

\* A position that is gone ends closed in the ledger, although every restart
\* loses the counter in memory: the file keeps it.
GoneIsClosed == status = "open" /\ ~there /\ ~far ~> status # "open" \/ there

=============================================================================
