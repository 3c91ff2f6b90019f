----------------------------- MODULE TakeProfits -----------------------------
(***************************************************************************)
(* The take-profit orders of one live position.  A cycle of the monitor    *)
(* reads the positions, then the recent orders, then the open orders, and  *)
(* acts on each reading (position_monitor.py): it books the targets that   *)
(* have filled, moves the stop behind the last of them, closes what is     *)
(* left after all of them, and places again the targets that are not       *)
(* open.  Orders fill between the readings, answers are refused or lost,   *)
(* and the transaction of a cycle may fail.                                *)
(*                                                                         *)
(* Prices are the numbers of the levels: a target may fill when none       *)
(* nearer to the entry is open, and a stop is named by the level that it   *)
(* follows (step_trailing).                                                *)
(***************************************************************************)
EXTENDS Integers, FiniteSets, FiniteSetsExt

CONSTANTS
    Levels,       \* targets, of one unit of the position each
    MaxTargets,   \* bound: target orders created
    MaxSlips      \* bound: refused or lost answers, failed transactions

ASSUME TargetsAssumption ==
    /\ Levels \in Nat \ {0}
    /\ MaxTargets \in Nat /\ MaxTargets >= Levels
    /\ MaxSlips \in Nat

Level == 1..Levels
Target == 1..MaxTargets

VARIABLES
    size,       \* contracts that the exchange holds
    target,     \* the target orders on the exchange
    placed,     \* target orders created so far
    posted,     \* the position row, committed
    edited,     \* the row in the cycle's session, and between cycles
    missing,    \* missing_tp_indices
    cycle,      \* where the cycle is
    lost,       \* orders whose fill the row can miss: see BookedAsFilled
    between,    \* a target filled between the positions and the orders read
    unmoved,    \* a stop was refused
    slips

targetVars == <<size, target, placed, posted, edited, missing, cycle, lost, between,
                unmoved, slips>>

Turn == {"idle", "sized", "hit", "residual", "detected", "replace", "gone",
         "commit"}
Order == [level : Level, amount : 0..Levels, state : {"none", "open", "filled", "dropped"}]
\* booked: contracts in realized_pnl_pct and in the close trade.
TargetRow == [order : [Level -> Target], hit : SUBSET Level, booked : Nat,
        counted : SUBSET Target, left : 0..Levels, stop : 0..Levels,
        open : BOOLEAN]

TargetsTypeOK ==
    /\ size \in 0..Levels
    /\ target \in [Target -> Order]
    /\ placed \in Levels..MaxTargets
    /\ posted \in TargetRow /\ edited \in TargetRow
    /\ missing \subseteq Level
    /\ cycle \in Turn
    /\ lost \subseteq Target
    /\ between \in BOOLEAN /\ unmoved \in BOOLEAN
    /\ slips \in 0..MaxSlips

\* The entry left the position with its targets (execute_trade).
TargetsInit ==
    /\ size = Levels
    /\ target = [t \in Target |->
                   IF t \in Level THEN [level |-> t, amount |-> 1, state |-> "open"]
                   ELSE [level |-> 1, amount |-> 0, state |-> "none"]]
    /\ placed = Levels
    /\ posted = [order |-> [l \in Level |-> l], hit |-> {}, booked |-> 0,
              counted |-> {}, left |-> Levels, stop |-> 0, open |-> TRUE]
    /\ edited = posted
    /\ missing = {} /\ cycle = "idle"
    /\ lost = {} /\ between = FALSE /\ unmoved = FALSE /\ slips = 0

Slip == slips < MaxSlips /\ slips' = slips + 1
Filled == {t \in Target : target[t].state = "filled"}
Highest(S) == IF S = {} THEN 0 ELSE Max(S)
-----------------------------------------------------------------------------
\* The exchange's contracts are the remaining quantity of the row
\* (_sync_open_position_from_exchange); without any, the row is on its way
\* to a close.
ReadContracts ==
    /\ cycle = "idle" /\ posted.open
    /\ edited' = IF size > 0 THEN [posted EXCEPT !.left = size] ELSE posted
    /\ cycle' = IF size > 0 THEN "sized" ELSE "gone"
    /\ UNCHANGED <<size, target, placed, posted, missing, lost, between, unmoved,
                   slips>>

\* Mutant of Hits: a level that is hit is found again.
HitsAgain == {l \in Level : target[edited.order[l]].state = "filled"}

\* _detect_tp_hits_from_orders: pending levels whose order has filled.
Hits == {l \in Level \ edited.hit : target[edited.order[l]].state = "filled"}

AllHit(r) == r.hit = Level

\* The fills are booked; they are in the contracts read before.
DetectHits ==
    /\ cycle = "sized"
    /\ LET ids == {edited.order[l] : l \in Hits}
       IN edited' = [edited EXCEPT !.hit = @ \cup Hits,
                             !.counted = @ \cup ids,
                             !.booked = @ + MapThenSumSet(LAMBDA t : target[t].amount, ids)]
    /\ cycle' = IF Hits = {} THEN "detected" ELSE "hit"
    /\ UNCHANGED <<size, target, placed, posted, missing, lost, between, unmoved,
                   slips>>

\* The recent orders cannot be read: the cycle goes on without.
ReadOrdersFails ==
    /\ cycle = "sized"
    /\ Slip
    /\ lost' = lost \cup (Filled \ edited.counted)
    /\ cycle' = "detected"
    /\ UNCHANGED <<size, target, placed, posted, edited, missing, between, unmoved>>

AfterStop == IF AllHit(edited) THEN "residual" ELSE "detected"

\* Mutant: the stop follows the first target only.
StopOfFirst(r) == IF r.hit = {} THEN 0 ELSE 1

\* _adjust_trailing_stop_on_tp_hit: behind the highest level hit.
StopFor(r) == Highest(r.hit)

MoveStop ==
    /\ cycle = "hit"
    /\ edited' = [edited EXCEPT !.stop = StopFor(edited)]
    /\ cycle' = AfterStop
    /\ UNCHANGED <<size, target, placed, posted, missing, lost, between, unmoved,
                   slips>>

\* place_protective_stop fails, or raises: the hits stay booked, and no later
\* cycle sees them as new.
StopNotMoved ==
    /\ cycle = "hit"
    /\ Slip
    /\ unmoved' = TRUE
    /\ cycle' \in {AfterStop, "commit"}
    /\ UNCHANGED <<size, target, placed, posted, edited, missing, lost, between>>

\* All targets hit and contracts left: a market close, booked for what the row
\* has left; a flat position counts as closed.
CloseRest ==
    /\ cycle = "residual"
    /\ size' = 0
    /\ edited' = [edited EXCEPT !.booked = @ + edited.left, !.left = 0, !.open = FALSE]
    /\ cycle' = "detected"
    /\ UNCHANGED <<target, placed, posted, missing, lost, between, unmoved, slips>>

RestRemains ==
    /\ cycle = "residual"
    /\ Slip
    /\ cycle' = "detected"
    /\ UNCHANGED <<size, target, placed, posted, edited, missing, lost, between,
                   unmoved>>
-----------------------------------------------------------------------------
(* _verify_protective_orders, every ten minutes.                           *)

SkipTargets ==
    /\ cycle = "detected"
    /\ cycle' = "commit"
    /\ UNCHANGED <<size, target, placed, posted, edited, missing, lost, between,
                   unmoved, slips>>

\* Levels whose order is not among the open orders.
Absent == {l \in Level \ edited.hit : target[edited.order[l]].state # "open"}

\* Those, and the levels whose order covers less than their share of what is
\* left.
ReadOpenOrders ==
    /\ cycle = "detected" /\ edited.left > 0
    /\ \E small \in SUBSET {l \in Level \ edited.hit : target[edited.order[l]].state = "open"} :
         /\ \A l \in small : target[edited.order[l]].amount < edited.left
         /\ missing' = Absent \cup small
    /\ cycle' = "replace"
    /\ UNCHANGED <<size, target, placed, posted, edited, lost, between, unmoved, slips>>

Dropped(t) == IF target[t].state = "open" THEN [target EXCEPT ![t].state = "dropped"]
                                       ELSE target

\* The old order is cancelled if it was open, a new one placed.  A create that
\* times out may have reached the exchange, and its id is lost.
PlaceAgain(l) ==
    /\ cycle = "replace" /\ l \in missing
    /\ size > 0 /\ placed < MaxTargets
    /\ \E n \in 1..edited.left, known \in BOOLEAN :
         /\ target' = [Dropped(edited.order[l]) EXCEPT
                         ![placed + 1] = [level |-> l, amount |-> n, state |-> "open"]]
         /\ edited' = IF known THEN [edited EXCEPT !.order[l] = placed + 1] ELSE edited
         /\ lost' = IF known THEN lost ELSE lost \cup {placed + 1}
         /\ IF known THEN UNCHANGED slips ELSE Slip
    /\ placed' = placed + 1
    /\ missing' = missing \ {l}
    /\ UNCHANGED <<size, posted, cycle, between, unmoved>>

\* The cancel fails, or the new order is refused.
NotPlaced(l) ==
    /\ cycle = "replace" /\ l \in missing
    /\ target' \in {target, Dropped(edited.order[l])}
    /\ IF size > 0 THEN Slip ELSE UNCHANGED slips
    /\ missing' = missing \ {l}
    /\ UNCHANGED <<size, placed, posted, edited, cycle, lost, between, unmoved>>

AllPlaced ==
    /\ cycle = "replace" /\ missing = {}
    /\ cycle' = "commit"
    /\ UNCHANGED <<size, target, placed, posted, edited, missing, lost, between,
                   unmoved, slips>>
-----------------------------------------------------------------------------
\* The position has vanished: the row is closed for what it has left, and its
\* open orders are cancelled if the exchange answers.
BookGone ==
    /\ cycle = "gone"
    /\ edited' = [edited EXCEPT !.booked = @ + edited.left, !.left = 0, !.open = FALSE]
    /\ \E S \in SUBSET {edited.order[l] : l \in Level} :
         target' = [t \in Target |-> IF t \in S THEN Dropped(t)[t] ELSE target[t]]
    /\ cycle' = "commit"
    /\ UNCHANGED <<size, placed, posted, missing, lost, between, unmoved, slips>>

\* Not yet: the ghost path waits.
StillGone ==
    /\ cycle = "gone"
    /\ cycle' = "commit"
    /\ UNCHANGED <<size, target, placed, posted, edited, missing, lost, between,
                   unmoved, slips>>

CommitTargets ==
    /\ cycle = "commit"
    /\ posted' = edited
    /\ cycle' = "idle"
    /\ UNCHANGED <<size, target, placed, edited, missing, lost, between, unmoved,
                   slips>>

\* The transaction fails, or the process dies: the ids of new orders are lost.
FailTargets ==
    /\ cycle # "idle"
    /\ Slip
    /\ lost' = lost \cup {edited.order[l] : l \in {k \in Level : edited.order[k] # posted.order[k]}}
    /\ edited' = posted
    /\ missing' = {} /\ cycle' = "idle"
    /\ UNCHANGED <<size, target, placed, posted, between, unmoved>>
-----------------------------------------------------------------------------
(* The exchange.                                                           *)

FillTarget(t) ==
    /\ target[t].state = "open" /\ size > 0
    /\ \A u \in Target : target[u].state = "open" => target[u].level >= target[t].level
    /\ LET n == Min({size, target[t].amount})
       IN /\ target' = [target EXCEPT ![t].state = "filled", ![t].amount = n]
          /\ size' = size - n
    /\ between' = (between \/ cycle = "sized")
    /\ lost' = IF cycle \in {"detected", "hit", "residual", "replace"}
                 THEN lost \cup {t} ELSE lost
    /\ UNCHANGED <<placed, posted, edited, missing, cycle, unmoved, slips>>

\* The stop, or a close by hand.
StopFills ==
    /\ size > 0
    /\ size' = 0
    /\ UNCHANGED <<target, placed, posted, edited, missing, cycle, lost, between,
                   unmoved, slips>>

\* The exchange cancels a target.
DropTarget(t) ==
    /\ target[t].state = "open"
    /\ Slip
    /\ target' = Dropped(t)
    /\ UNCHANGED <<size, placed, posted, edited, missing, cycle, lost, between, unmoved>>

TargetsNext ==
    \/ ReadContracts \/ DetectHits \/ ReadOrdersFails
    \/ MoveStop \/ StopNotMoved \/ CloseRest \/ RestRemains
    \/ SkipTargets \/ ReadOpenOrders \/ AllPlaced
    \/ \E l \in Level : PlaceAgain(l) \/ NotPlaced(l)
    \/ BookGone \/ StillGone \/ CommitTargets \/ FailTargets
    \/ \E t \in Target : FillTarget(t) \/ DropTarget(t)
    \/ StopFills

TargetsSpec == TargetsInit /\ [][TargetsNext]_targetVars
-----------------------------------------------------------------------------
\* A fill is found again as long as the row has the id of its order.  It may
\* miss one only if the order filled after the recent orders were read or while
\* they could not be, or if its id never reached the row.
FillsTraceable ==
    edited.open => \A t \in Filled \ (edited.counted \cup lost) :
                    /\ edited.order[target[t].level] = t
                    /\ target[t].level \notin edited.hit

\* No contract is booked twice, unless a target filled between the reading of
\* the positions and of the orders; a closed row has booked all of them, unless
\* it missed a fill.
BookedOnceAndAll ==
    /\ posted.booked > Levels => between
    /\ ~posted.open /\ posted.booked < Levels => lost # {}

\* However cycles fail, orders fill between their readings or are placed
\* again, the targets are booked as they have filled.
BookedAsFilled == FillsTraceable /\ BookedOnceAndAll

\* "TP2 hit -> SL at TP1": the stop of an open row is behind the highest level
\* that is booked as hit, unless a stop was refused.
HitMovesStop == posted.open => posted.stop = Highest(posted.hit) \/ unmoved
=============================================================================
