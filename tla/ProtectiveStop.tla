--------------------------- MODULE ProtectiveStop ---------------------------
(***************************************************************************)
(* The stop of one live position: the monitor's cycles replace it when it  *)
(* should trail and place it again when it is not on the exchange          *)
(* (position_monitor.py), by place_protective_stop (exchange.py): a new    *)
(* stop first, then the cancel of the old one, and the cancel of the new   *)
(* one if that fails.  Answers are lost, the exchange drops or triggers    *)
(* stops, and the cycle's transaction may fail, which loses the new id.    *)
(*                                                                         *)
(* place_protective_stop passes no client order id, and the one that       *)
(* _create_conditional_order makes up names the terms of the stop, its     *)
(* price and quantity.  The exchange takes an id once, so a stop is here   *)
(* its id, and those terms.                                                *)
(***************************************************************************)
EXTENDS Integers

CONSTANTS
    MaxPrice,   \* bound: prices the stop is moved to
    MaxQty,     \* the opened quantity
    MaxMishaps  \* bound: lost answers, failed transactions, dropped stops

ASSUME StopAssumption ==
    MaxPrice \in Nat /\ MaxQty \in Nat \ {0} /\ MaxMishaps \in Nat

Terms == (0..MaxPrice) \X (1..MaxQty)

\* The stop of the entry has an id of its own (sl_coid), no terms.
FirstStop == <<0, 0>>
StopId == Terms \cup {FirstStop}

VARIABLES
    quantity,  \* of the position on the exchange
    stops,     \* its stops on the exchange
    sent,      \* ids the exchange has taken
    rowStop,   \* stop_loss_order_id, committed
    rowPrice,  \* stop_loss, committed; a higher one is better
    ownStop,   \* stop_loss_order_id in the cycle's session
    ownPrice,  \* stop_loss in the cycle's session
    remaining, \* remaining_quantity, as the cycle has read it
    want,      \* the replacement under way
    phase,
    issues,    \* a reconciliation issue or manual_review was reported
    mishaps,
    causes     \* the exchange dropped a stop; a cancel without an answer
               \* was carried out

stopRow == <<rowStop, rowPrice>>
stopSession == <<ownStop, ownPrice, remaining>>
stopVars == <<quantity, stops, sent, stopRow, stopSession, want, phase, issues,
              mishaps, causes>>

Phase == {"idle", "cycle", "create", "cancelOld", "cancelNew", "replaced",
          "commit"}
Cause == {"dropped", "silent"}

StopTypeOK ==
    /\ quantity \in 0..MaxQty
    /\ sent \subseteq StopId
    /\ stops \cup {rowStop, ownStop} \subseteq sent
    /\ rowPrice \in 0..MaxPrice
    /\ ownPrice \in 0..MaxPrice
    /\ remaining \in 1..MaxQty
    /\ want \in Terms
    /\ phase \in Phase
    /\ issues \in BOOLEAN
    /\ mishaps \in 0..MaxMishaps
    /\ causes \subseteq Cause

\* The entry left the position with its stop (execute_trade).
StopInit ==
    /\ quantity = MaxQty
    /\ stops = {FirstStop}
    /\ sent = {FirstStop}
    /\ rowStop = FirstStop
    /\ rowPrice = 0
    /\ ownStop = FirstStop
    /\ ownPrice = 0
    /\ remaining = MaxQty
    /\ want = <<0, MaxQty>>
    /\ phase = "idle"
    /\ issues = FALSE
    /\ mishaps = 0
    /\ causes = {}

Held == quantity > 0

Mishap == mishaps < MaxMishaps /\ mishaps' = mishaps + 1
-----------------------------------------------------------------------------
\* The row is read; the exchange still reports the position, and its quantity
\* goes into the row (_sync_open_position_from_exchange).
StartStopCycle ==
    /\ phase = "idle"
    /\ Held
    /\ ownStop' = rowStop /\ ownPrice' = rowPrice /\ remaining' = quantity
    /\ phase' = "cycle"
    /\ UNCHANGED <<quantity, stops, sent, stopRow, want, issues, mishaps, causes>>

\* _maybe_adjust_trailing_stop and _adjust_trailing_stop_on_tp_hit: a better
\* price for the stop.
TrailStop ==
    /\ phase = "cycle"
    /\ \E p \in 0..MaxPrice : p > ownPrice /\ want' = <<p, remaining>>
    /\ phase' = "create"
    /\ UNCHANGED <<quantity, stops, sent, stopRow, stopSession, issues, mishaps,
                   causes>>

\* Mutant: an id in the row is taken for a stop on the exchange.
IdIsThere == ownStop \in sent

\* _verify_protective_orders: the open orders have the id.
StopIsThere == ownStop \in stops

\* A missing stop is placed again at the price in the row.
VerifyStop ==
    /\ phase = "cycle"
    /\ IF StopIsThere THEN phase' = "commit" /\ UNCHANGED want
                      ELSE phase' = "create" /\ want' = <<ownPrice, remaining>>
    /\ UNCHANGED <<quantity, stops, sent, stopRow, stopSession, issues, mishaps,
                   causes>>

\* Neither is due in this cycle.
SkipStop ==
    /\ phase = "cycle"
    /\ phase' = "commit"
    /\ UNCHANGED <<quantity, stops, sent, stopRow, stopSession, want, issues,
                   mishaps, causes>>

\* Mutant: the old stop is cancelled first.
StopsBefore == stops \ {ownStop}

\* The stops on the exchange when the new one is created.
StopsKept == stops

\* The exchange refuses a client order id it has seen.
IdIsFree == want \notin sent

CreateStop ==
    /\ phase = "create"
    /\ Held /\ IdIsFree
    /\ sent' = sent \cup {want}
    /\ stops' = StopsKept \cup {want}
    /\ phase' = "cancelOld"
    /\ UNCHANGED <<quantity, stopRow, stopSession, want, issues, mishaps, causes>>

\* Refused: the error is logged, the old stop remains.  An id that was used is
\* refused every time, and so is a stop without a position.
StopRefused ==
    /\ phase = "create"
    /\ IF Held /\ IdIsFree THEN Mishap ELSE UNCHANGED mishaps
    /\ stops' = StopsKept
    /\ phase' = "commit"
    /\ UNCHANGED <<quantity, sent, stopRow, stopSession, want, issues, causes>>

\* The answer is lost: the position is closed, if that can be confirmed.
StopTimesOut ==
    /\ phase = "create"
    /\ Mishap
    /\ \/ IdIsFree /\ stops' = StopsKept \cup {want} /\ sent' = sent \cup {want}
       \/ stops' = StopsKept /\ UNCHANGED sent
    /\ quantity' \in 0..quantity
    /\ issues' = TRUE
    /\ phase' = "commit"
    /\ UNCHANGED <<stopRow, stopSession, want, causes>>

\* The answer to a cancel: cancelled or not found, or an error after three
\* tries, of which one may have reached the exchange.
Cancel(s, confirmed) ==
    /\ IF confirmed THEN stops' = stops \ {s} /\ UNCHANGED mishaps
                    ELSE stops' \in {stops, stops \ {s}} /\ Mishap
    /\ causes' = IF ~confirmed /\ stops' # stops
                 THEN causes \cup {"silent"} ELSE causes

\* The row is given the new id when the old stop is gone.
CancelOld ==
    /\ phase = "cancelOld"
    /\ \E confirmed \in BOOLEAN :
        /\ Cancel(ownStop, confirmed)
        /\ phase' = IF confirmed THEN "replaced" ELSE "cancelNew"
    /\ UNCHANGED <<quantity, sent, stopRow, stopSession, want, issues>>

KeepNew ==
    /\ phase = "replaced"
    /\ ownStop' = want /\ ownPrice' = want[1]
    /\ phase' = "commit"
    /\ UNCHANGED <<quantity, stops, sent, stopRow, remaining, want, issues, mishaps,
                   causes>>

\* Otherwise the new one is cancelled; both may be left, or neither.
CancelNew ==
    /\ phase = "cancelNew"
    /\ \E confirmed \in BOOLEAN :
        /\ Cancel(want, confirmed)
        /\ issues' = (issues \/ ~confirmed)
    /\ phase' = "commit"
    /\ UNCHANGED <<quantity, sent, stopRow, stopSession, want>>

\* The id the row is given.
IdKept == ownStop

CommitCycle ==
    /\ phase = "commit"
    /\ rowStop' = IdKept /\ rowPrice' = ownPrice
    /\ phase' = "idle"
    /\ UNCHANGED <<quantity, stops, sent, stopSession, want, issues, mishaps, causes>>

\* One commit ends the cycle of all positions: it fails, or the process dies.
FailCycle ==
    /\ phase # "idle"
    /\ Mishap
    /\ phase' = "idle"
    /\ UNCHANGED <<quantity, stops, sent, stopRow, stopSession, want, issues, causes>>
-----------------------------------------------------------------------------
(***************************************************************************)
(* The exchange.                                                           *)
(***************************************************************************)
\* The position ends, by a stop or otherwise.
PositionEnds ==
    /\ Held
    /\ quantity' = 0
    /\ \E s \in SUBSET stops : stops' = s
    /\ UNCHANGED <<sent, stopRow, stopSession, want, phase, issues, mishaps, causes>>

\* A target fills.
PositionShrinks ==
    /\ quantity' \in 1..(quantity - 1)
    /\ UNCHANGED <<stops, sent, stopRow, stopSession, want, phase, issues, mishaps,
                   causes>>

\* A stop is cancelled by the exchange.
DropStop ==
    /\ Held
    /\ Mishap
    /\ \E s \in stops : stops' = stops \ {s}
    /\ causes' = causes \cup {"dropped"}
    /\ UNCHANGED <<quantity, sent, stopRow, stopSession, want, phase, issues>>

StopNext ==
    \/ StartStopCycle \/ TrailStop \/ VerifyStop \/ SkipStop
    \/ CreateStop \/ StopRefused \/ StopTimesOut
    \/ CancelOld \/ KeepNew \/ CancelNew \/ CommitCycle \/ FailCycle
    \/ PositionEnds \/ PositionShrinks \/ DropStop

\* Every cycle ends, cycles go on, and verification comes up again and again
\* (every _PROTECTIVE_ORDERS_VERIFY_INTERVAL).
StopFairness ==
    /\ WF_stopVars(StartStopCycle)
    /\ SF_stopVars(VerifyStop)
    /\ WF_stopVars(CreateStop \/ StopRefused)
    /\ WF_stopVars(CancelOld)
    /\ WF_stopVars(KeepNew)
    /\ WF_stopVars(CancelNew)
    /\ WF_stopVars(CommitCycle)

StopSpec == StopInit /\ [][StopNext]_stopVars
FairStopSpec == StopSpec /\ StopFairness
-----------------------------------------------------------------------------
\* "Create new SL first, then cancel old SL to prevent naked exposure": however
\* orders are refused or time out and transactions fail, the position is without
\* a stop only after the exchange dropped one, or carried out a cancel it never
\* answered.
NeverBare == Held /\ stops = {} => causes # {}

\* The stop that the row asks for was on the exchange once.
UsedUp == <<rowPrice, quantity>> \in sent

\* A position whose stop was lost gets one again, or ends.  Excepted is one that
\* has lost a stop which a cycle had placed at the price in the row and for the
\* quantity of the position: the exchange refuses it from then on.
StopReturns == Held /\ stops = {} ~> stops # {} \/ ~Held \/ UsedUp
=============================================================================
