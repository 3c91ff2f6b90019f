----------------------------- MODULE TradeEntry -----------------------------
(***************************************************************************)
(* One live market entry by execute_trade (exchange.py): submit the order, *)
(* settle what was filled, place the targets and the stop, and close the   *)
(* fill again when its protection fails.  The exchange goes on filling the *)
(* order, triggers protective orders and loses answers at any time.        *)
(*                                                                         *)
(* Live limit entries are refused before anything is sent, and every entry *)
(* has a stop and targets (SignalProcessor._build_trade_decision).  All    *)
(* targets are one order here.  A close obeys CloseContract.               *)
(***************************************************************************)
EXTENDS Integers

CONSTANT EntrySize     \* submitted quantity

ASSUME EntryAssumption == EntrySize \in Nat \ {0}

Protective == {"target", "stop", "trail", "lost"}

VARIABLES
    moving,     \* trailing mode MOVING: a trailing order instead of a stop
    step,
    entry,      \* the entry order on the exchange
    filled,     \* what it has filled
    contracts,  \* exposure of this entry
    book,       \* its protective orders on the exchange; one is "lost" when
                \* the answer to its submission was
    seen,       \* actual_filled_qty
    partial,    \* is_partial_fill
    confirmed,  \* partial_fill_cancel_confirmed
    cover,      \* protection_qty
    known,      \* protective order ids in the result
    errors,     \* stop_loss_error, take_profit_error, trailing_stop_error
    ambiguous,  \* a protective submission timed out
    unresolved, \* entry_remainder_unresolved or protective_cleanup_unresolved
    outcome,    \* result: status
    reconcile,  \* result: requires_reconciliation
    rolledBack, \* result: rollback_success
    marks       \* what happened on the way, for the properties

exchangeVars == <<entry, filled, contracts, book>>
answerVars == <<outcome, reconcile, rolledBack>>
entryVars == <<moving, step, exchangeVars, seen, partial, confirmed, cover,
               known, errors, ambiguous, unresolved, answerVars, marks>>

Step == {"submit", "answered", "cancel", "refetch", "wait", "targets",
         "stops", "check", "cleanup", "close", "slipped", "done"}
EntryState == {"none", "live", "ended"}
Verdicts == {"none", "error", "manual_review", "filled", "partial",
             "partial_protection"}
Mark == {"slippage", "raced", "waited", "triggered"}

EntryTypeOK ==
    /\ moving \in BOOLEAN
    /\ step \in Step
    /\ entry \in EntryState
    /\ filled \in 0..EntrySize
    /\ contracts \in 0..filled
    /\ book \subseteq Protective
    /\ seen \in 0..filled
    /\ partial \in BOOLEAN
    /\ confirmed \in BOOLEAN
    /\ cover \in 0..EntrySize
    /\ known \subseteq Protective \ {"lost"}
    /\ errors \subseteq {"target", "stop", "trail"}
    /\ ambiguous \in BOOLEAN
    /\ unresolved \in BOOLEAN
    /\ outcome \in Verdicts
    /\ reconcile \in BOOLEAN
    /\ rolledBack \in BOOLEAN
    /\ marks \subseteq Mark

EntryInit ==
    /\ moving \in BOOLEAN
    /\ step = "submit"
    /\ entry = "none"
    /\ filled = 0
    /\ contracts = 0
    /\ book = {}
    /\ seen = 0
    /\ partial = FALSE
    /\ confirmed = TRUE
    /\ cover = 0
    /\ known = {}
    /\ errors = {}
    /\ ambiguous = FALSE
    /\ unresolved = FALSE
    /\ outcome = "none"
    /\ reconcile = FALSE
    /\ rolledBack = FALSE
    /\ marks = {}

\* Mutant: an error is not flagged.
AnswerUnflagged(v, rec, back) ==
    /\ step' = "done"
    /\ outcome' = v
    /\ reconcile' = (rec /\ v # "error")
    /\ rolledBack' = back

Answer(v, rec, back) ==
    /\ step' = "done"
    /\ outcome' = v
    /\ reconcile' = rec
    /\ rolledBack' = back

GoOn(s) == step' = s /\ UNCHANGED answerVars
-----------------------------------------------------------------------------
(***************************************************************************)
(* The order.                                                              *)
(***************************************************************************)
\* Leverage, amount, depth or slippage estimate refuse the entry beforehand.
Reject ==
    /\ step = "submit"
    /\ Answer("error", FALSE, FALSE)
    /\ UNCHANGED <<moving, exchangeVars, seen, partial, confirmed, cover,
                   known, errors, ambiguous, unresolved, marks>>

\* The exchange has the order, and filled some of it.
Accept ==
    /\ filled' \in 0..EntrySize
    /\ contracts' = filled'
    /\ entry' \in IF filled' < EntrySize THEN {"live", "ended"} ELSE {"ended"}
    /\ UNCHANGED book

\* Mutant: an order without a fill counts with its amount.
FillOrAmount(n) == IF n = 0 THEN EntrySize ELSE n

\* The fill the answer reports; only a closed order counts with its amount.
FillOf(n) == n

\* create_order answers.
Submit ==
    /\ step = "submit"
    /\ Accept
    /\ seen' = FillOf(filled')
    /\ partial' = (seen' > 0 /\ seen' < EntrySize)
    /\ confirmed' = ~partial'
    /\ cover' = IF seen' > 0 THEN seen' ELSE EntrySize
    /\ GoOn("answered")
    /\ UNCHANGED <<moving, known, errors, ambiguous, unresolved, marks>>

\* The answer is lost or an exception, or it has no order id.
SubmitUnclear ==
    /\ step = "submit"
    /\ \/ (Accept \/ UNCHANGED exchangeVars) /\ Answer("error", TRUE, FALSE)
       \/ Accept /\ Answer("manual_review", TRUE, FALSE)
    /\ UNCHANGED <<moving, seen, partial, confirmed, cover, known, errors,
                   ambiguous, unresolved, marks>>

\* A close of the fill: closed only when nothing is left (CloseContract).
CloseFill(closed) ==
    /\ contracts' \in 0..contracts
    /\ closed => contracts' = 0
    /\ UNCHANGED <<entry, filled, book>>

\* The average price is too far off: close, protect nothing.
SlippageExceeded ==
    /\ step = "answered"
    /\ marks' = marks \cup {"slippage"}
    /\ \E closed \in BOOLEAN :
        CloseFill(closed) /\ Answer("error", ~closed, closed)
    /\ UNCHANGED <<moving, seen, partial, confirmed, cover, known, errors,
                   ambiguous, unresolved>>

\* result_status.  The status was reported with the fill that was seen.
Classify ==
    /\ step = "answered"
    /\ \/ partial /\ GoOn("cancel")
       \/ seen = EntrySize /\ GoOn("targets")
       \/ seen = 0 /\ entry = "live" /\ GoOn("wait")
       \/ seen = 0 /\ filled = 0 /\ entry = "ended" /\ Answer("error", FALSE, FALSE)
    /\ UNCHANGED <<moving, exchangeVars, seen, partial, confirmed, cover,
                   known, errors, ambiguous, unresolved, marks>>

\* Mutant: an order that is not found is taken for cancelled.
CancelBelieved(ok) == ok /\ entry' \in {"ended", entry}

\* The answer to a cancel of the entry: confirmed, or not found, or an error.
CancelEntry(ok) ==
    /\ entry' \in {"ended", entry}
    /\ ok => entry = "live" /\ entry' = "ended"

\* A partial fill: the remainder is cancelled.
CancelRemainder ==
    /\ step = "cancel"
    /\ \E ok \in BOOLEAN :
        /\ CancelEntry(ok)
        /\ confirmed' = ok
        /\ cover' = IF ok THEN seen ELSE EntrySize
        /\ GoOn(IF ok THEN "targets" ELSE "refetch")
        /\ marks' = IF ok /\ filled > seen THEN marks \cup {"raced"} ELSE marks
    /\ UNCHANGED <<moving, filled, contracts, book, seen, partial, known,
                   errors, ambiguous, unresolved>>

\* The cancel was not confirmed: the order is read again, if it can be.
Refetch ==
    /\ step = "refetch"
    /\ \/ /\ seen' = filled
          /\ confirmed' = (entry = "ended")
          /\ partial' = (filled < EntrySize)
       \/ UNCHANGED <<seen, confirmed, partial>>
    /\ cover' = IF confirmed' THEN seen' ELSE EntrySize
    /\ GoOn("targets")
    /\ UNCHANGED <<moving, exchangeVars, known, errors, ambiguous, unresolved,
                   marks>>

\* Nothing was filled at first: it is looked at again after three seconds, and
\* an order that still has no fill is cancelled.
Wait ==
    /\ step = "wait"
    /\ \/ /\ filled > 0
          /\ seen' = filled
          /\ partial' = (filled < EntrySize)
          /\ GoOn("targets")
          /\ UNCHANGED entry
       \/ /\ filled = 0
          /\ Answer("error", TRUE, FALSE)
          /\ entry' \in {"ended", entry}
          /\ UNCHANGED <<seen, partial>>
       \/ Answer("error", TRUE, FALSE) /\ UNCHANGED <<entry, seen, partial>>
    /\ marks' = marks \cup {"waited"}
    /\ UNCHANGED <<moving, filled, contracts, book, confirmed, cover, known,
                   errors, ambiguous, unresolved>>
-----------------------------------------------------------------------------
(***************************************************************************)
(* The protection.                                                         *)
(***************************************************************************)
\* create_order for a protective order: placed, refused, or timed out with or
\* without being placed.
Placed(o) ==
    /\ book' = book \cup {o} /\ known' = known \cup {o}
    /\ UNCHANGED <<errors, ambiguous>>
Refused(o) == errors' = errors \cup {o} /\ UNCHANGED <<book, known, ambiguous>>
TimedOut(o) ==
    /\ book' \in {book, book \cup {"lost"}}
    /\ errors' = errors \cup {o}
    /\ ambiguous' = TRUE
    /\ UNCHANGED known

Place(o) == Placed(o) \/ Refused(o) \/ TimedOut(o)

\* Some targets may be placed before one is refused.
PlaceTargets ==
    /\ step = "targets"
    /\ \/ Place("target")
       \/ /\ book' = book \cup {"target"} /\ known' = known \cup {"target"}
          /\ errors' = errors \cup {"target"}
          /\ UNCHANGED ambiguous
    /\ GoOn("stops")
    /\ UNCHANGED <<moving, entry, filled, contracts, seen, partial, confirmed,
                   cover, unresolved, marks>>

\* A stop; or a trailing order, with a stop in its place when it is refused.
PlaceStop ==
    /\ step = "stops"
    /\ IF ~moving \/ "trail" \in errors
       THEN Place("stop") /\ GoOn("check")
       ELSE \/ (Placed("trail") \/ TimedOut("trail")) /\ GoOn("check")
            \/ Refused("trail") /\ GoOn("stops")
    /\ UNCHANGED <<moving, entry, filled, contracts, seen, partial, confirmed,
                   cover, unresolved, marks>>

Failed ==
    \/ errors \cap {"stop", "target"} # {}
    \/ "trail" \in errors /\ "stop" \notin known

Protected ==
    /\ step = "check"
    /\ ~Failed
    /\ Answer(IF partial THEN "partial" ELSE "filled", partial /\ ~confirmed,
              FALSE)
    /\ UNCHANGED <<moving, exchangeVars, seen, partial, confirmed, cover,
                   known, errors, ambiguous, unresolved, marks>>

\* The rest of a partial fill is cancelled (again).
Unprotected ==
    /\ step = "check"
    /\ Failed
    /\ IF partial
       THEN \E ok \in BOOLEAN :
                CancelEntry(ok) /\ unresolved' = (~confirmed /\ ~ok)
       ELSE UNCHANGED <<entry, unresolved>>
    /\ GoOn("cleanup")
    /\ UNCHANGED <<moving, filled, contracts, book, seen, partial, confirmed,
                   cover, known, errors, ambiguous, marks>>

\* Mutant: the targets are left alone.
CleanedStops == known \cap {"stop"}

\* The ids the rollback collects: the trailing order is not among them.
Cleaned == known \ {"trail"}

CleanUp ==
    /\ step = "cleanup"
    /\ \E stuck \in SUBSET (Cleaned \cap book) :
        /\ book' \in {book \ (Cleaned \ stuck), book \ Cleaned}
        /\ unresolved' = (unresolved \/ stuck # {})
    /\ GoOn("close")
    /\ UNCHANGED <<moving, entry, filled, contracts, seen, partial, confirmed,
                   cover, known, errors, ambiguous, marks>>

CloseUnprotected ==
    /\ step = "close"
    /\ \E closed \in BOOLEAN :
        /\ CloseFill(closed)
        /\ IF ~closed THEN Answer("partial_protection", FALSE, FALSE)
           ELSE IF unresolved \/ ambiguous
           THEN Answer("manual_review", TRUE, FALSE)
           ELSE Answer("error", FALSE, TRUE)
    /\ UNCHANGED <<moving, seen, partial, confirmed, cover, known, errors,
                   ambiguous, unresolved, marks>>
-----------------------------------------------------------------------------
(***************************************************************************)
(* The exchange.                                                           *)
(***************************************************************************)
callVars == <<moving, step, seen, partial, confirmed, cover, known, errors,
              ambiguous, unresolved, answerVars>>

EntryFills ==
    /\ entry = "live"
    /\ filled < EntrySize
    /\ filled' \in (filled + 1)..EntrySize
    /\ contracts' = contracts + (filled' - filled)
    /\ entry' = IF filled' = EntrySize THEN "ended" ELSE "live"
    /\ UNCHANGED <<callVars, book, marks>>

EntryEnds ==
    /\ entry = "live"
    /\ entry' = "ended"
    /\ UNCHANGED <<callVars, filled, contracts, book, marks>>

Trigger(o) ==
    /\ o \in book
    /\ contracts > 0
    /\ book' = book \ {o}
    /\ \E left \in 0..(contracts - 1) : contracts' = left
    /\ marks' = marks \cup {"triggered"}
    /\ UNCHANGED <<callVars, entry, filled>>

EntryNext ==
    \/ Reject \/ Submit \/ SubmitUnclear \/ SlippageExceeded \/ Classify
    \/ CancelRemainder \/ Refetch \/ Wait
    \/ PlaceTargets \/ PlaceStop \/ Protected \/ Unprotected \/ CleanUp
    \/ CloseUnprotected
    \/ EntryFills \/ EntryEnds \/ \E o \in Protective : Trigger(o)

EntrySpec == EntryInit /\ [][EntryNext]_entryVars
-----------------------------------------------------------------------------
\* An answer that an entry is filled, with nothing to reconcile, means a stop
\* for all that is or will be filled; unless a fill came between the answer to
\* the order and the cancel of its rest.
FillIsStopped ==
    outcome \in {"filled", "partial"} /\ ~reconcile
        /\ marks \cap {"raced", "triggered"} = {}
    => \/ book \cap {"stop", "trail"} # {} /\ contracts <= cover
          /\ (entry = "live" => cover = EntrySize)

\* A result that is neither flagged nor rolled back nor a fill stands for an
\* order that never had a fill and never will.
ErrorIsHarmless ==
    outcome = "error" /\ ~reconcile /\ ~rolledBack
    => filled = 0 /\ entry # "live" /\ book = {}

\* What is reported as rolled back is over, but for the three paths that leave
\* an order behind: the close after slippage, a fill found by waiting, and a
\* trailing order.
RolledBackIsOver ==
    rolledBack /\ marks \cap {"slippage", "waited"} = {} /\ "trail" \notin known
    => contracts = 0 /\ entry # "live" /\ book = {}
=============================================================================
