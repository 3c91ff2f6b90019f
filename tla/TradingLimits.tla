---------------------------- MODULE TradingLimits ----------------------------
(***************************************************************************)
(* The limits on live entries, for the alerts and the scanner signals of   *)
(* one account: the daily trade count, the rows of one direction, the      *)
(* reverse close and the stop switch.  Each is read at one point of the    *)
(* pipeline and used at a later one; what may run in between is bounded by *)
(* the global semaphore, the dispatch lock of the scanner and the lock of  *)
(* the symbol.                                                             *)
(*                                                                         *)
(* One process serves the account.  A live limit entry is refused by the   *)
(* exchange adapter, so no row is pending.  Exposure in USDT, clusters and *)
(* VaR are prices: here they are a reason to drop an entry.                *)
(***************************************************************************)
EXTENDS Integers, FiniteSets

CONSTANTS
    Alert,        \* webhook alerts
    Candidate,    \* setups of the market scanner
    Symbol,
    Earlier,      \* the origin of rows that were open before
    NoWish,       \* no decision
    Slots,        \* settings.ai.global_processing_semaphore
    MaxDaily,     \* max_daily_trades
    MaxSame,      \* max_same_direction_positions
    MaxReloads,   \* bound: updates of the settings
    MaxDetached   \* bound: tasks that end before their order is booked

Side == {"long", "short"}
Position == Symbol \X Side
Entry == Alert \cup Candidate

ASSUME LimitsAssumption ==
    /\ IsFiniteSet(Entry) /\ IsFiniteSet(Symbol)
    /\ Alert \cap Candidate = {} /\ Earlier \notin Entry
    /\ NoWish \notin Position
    /\ {Slots, MaxDaily, MaxSame} \subseteq Nat \ {0}
    /\ {MaxReloads, MaxDetached} \subseteq Nat

Opposite(p) == <<p[1], IF p[2] = "long" THEN "short" ELSE "long">>

VARIABLES
    stage,      \* where each entry is
    wish,       \* the position it opens, while it is underway
    ticket,     \* the semaphore an alert underway has a slot of
    reloads,    \* semaphores replaced so far
    stopped,    \* the trading control mode blocks
    open,       \* open rows: the position and the entry it comes from
    loose,      \* orders of entries that the exchange holds without a row
    trades,     \* executed trades of today, counted up to MaxDaily
    opened,     \* those that are entries
    late,       \* orders sent since trading was stopped
    detached,   \* tasks that have ended early
    stacked     \* symbols that ever held two orders of one direction, or
                \* whose order lost its task

limitsVars == <<stage, wish, ticket, reloads, stopped, open, loose, trades,
                opened, late, detached, stacked>>

\* "thread": the task has ended, its call to the exchange goes on.
Stage == {"new", "slot", "locked", "screened", "filtered", "ready",
          "resolved", "spread", "approved", "sent", "thread", "done"}
Sending == {"spread", "approved", "sent"}
Booking == {"ready", "resolved"} \cup Sending
\* From the count of today's trades to the commit of one more.
Counted == {"filtered"} \cup Booking
Underway == {"slot", "locked", "screened"} \cup Counted

In(S) == {e \in Entry : stage[e] \in S}
Held == open \cup loose
OpenOf(d) == {r \in open : r[1][2] = d}

\* Whether e holds the lock of its symbol; an alert takes it first, a
\* candidate after the AI.
Locks(e) == stage[e] \in Booking \/ (e \in Alert /\ stage[e] \in {"locked", "screened"})

LimitsTypeOK ==
    /\ stage \in [Entry -> Stage]
    /\ wish \in [Entry -> Position \cup {NoWish}]
    /\ ticket \in [Entry -> 0..MaxReloads]
    /\ reloads \in 0..MaxReloads /\ detached \in 0..MaxDetached
    /\ stopped \in BOOLEAN
    /\ open \subseteq Position \X (Entry \cup {Earlier})
    /\ loose \subseteq Position \X Entry
    /\ trades \in 0..MaxDaily /\ opened \in Nat /\ late \in Nat
    /\ stacked \subseteq Symbol

LimitsInit ==
    /\ stage = [e \in Entry |-> "new"]
    /\ wish = [e \in Entry |-> NoWish]
    /\ ticket = [e \in Entry |-> 0]
    /\ reloads = 0 /\ detached = 0
    /\ stopped = FALSE
    /\ open \in SUBSET (Position \X {Earlier})
    /\ \A r, q \in open : q[1] # Opposite(r[1])
    /\ \A d \in Side : Cardinality(OpenOf(d)) <= MaxSame
    /\ loose = {}
    /\ trades = 0 /\ opened = 0 /\ late = 0
    /\ stacked = {}

\* An account without signals, for the runs of other components.
LimitsIdle ==
    /\ stage = [e \in Entry |-> "done"]
    /\ wish = [e \in Entry |-> NoWish]
    /\ ticket = [e \in Entry |-> 0]
    /\ reloads = 0 /\ detached = 0 /\ stopped = FALSE
    /\ open = {} /\ loose = {}
    /\ trades = 0 /\ opened = 0 /\ late = 0 /\ stacked = {}

Moves(e, s) == stage' = [stage EXCEPT ![e] = s] /\ UNCHANGED <<wish, ticket>>
Takes(e, p, g) ==
    /\ stage' = [stage EXCEPT ![e] = "slot"]
    /\ wish' = [wish EXCEPT ![e] = p] /\ ticket' = [ticket EXCEPT ![e] = g]
Ends(e) ==
    /\ stage' = [stage EXCEPT ![e] = "done"]
    /\ wish' = [wish EXCEPT ![e] = NoWish] /\ ticket' = [ticket EXCEPT ![e] = 0]

-----------------------------------------------------------------------------
(* Admission.  A waiter may hold the semaphore of before an update.        *)

\* Mutant of SlotFree: a semaphore of its own for each alert.
SlotAnyway(g) == TRUE
SlotFree(g) ==
    Cardinality({a \in Alert : stage[a] \in Underway /\ ticket[a] = g}) < Slots

TakeSlot(a) ==
    /\ stage[a] = "new"
    /\ \E g \in 0..reloads, p \in Position : SlotFree(g) /\ Takes(a, p, g)
    /\ UNCHANGED <<reloads, stopped, open, loose, trades, opened, late,
                   detached, stacked>>

\* Dispatches are serial; one whose position has a row is skipped.
Dispatch(c) ==
    /\ stage[c] = "new"
    /\ Candidate \cap In(Underway) = {}
    /\ \E p \in Position : Takes(c, p, 0) /\ \A r \in open : r[1] # p
    /\ UNCHANGED <<reloads, stopped, open, loose, trades, opened,
                   late, detached, stacked>>

\* Mutant of LockFree: no lock across the two sources of signals.
LockFreeOfKind(e) ==
    \A x \in IF e \in Alert THEN Alert ELSE Candidate :
        Locks(x) => wish[x][1] # wish[e][1]
LockFree(e) == \A x \in Entry : Locks(x) => wish[x][1] # wish[e][1]

LockTicker(e) ==
    /\ \/ e \in Alert /\ stage[e] = "slot" /\ Moves(e, "locked")
       \/ e \in Candidate /\ stage[e] = "filtered" /\ Moves(e, "ready")
    /\ LockFree(e)
    /\ UNCHANGED <<reloads, stopped, open, loose, trades, opened,
                   late, detached, stacked>>

Screen(e) ==
    /\ stage[e] = (IF e \in Alert THEN "locked" ELSE "slot")
    /\ ~stopped
    /\ Moves(e, "screened")
    /\ UNCHANGED <<reloads, stopped, open, loose, trades, opened,
                   late, detached, stacked>>

\* The pre-filter and the AI.
Filter(e) ==
    /\ stage[e] = "screened"
    /\ trades < MaxDaily
    /\ Moves(e, IF e \in Alert THEN "ready" ELSE "filtered")
    /\ UNCHANGED <<reloads, stopped, open, loose, trades, opened,
                   late, detached, stacked>>

-----------------------------------------------------------------------------
(* Under the lock of the symbol.                                           *)

Opposing(e, S) == {r \in S : r[1] = Opposite(wish[e])}

\* A reverse signal closes one row; without a row, all that the exchange
\* reports on the other side.  The close is committed at once and is no
\* trade of its own.
Resolve(e) ==
    /\ stage[e] = "ready"
    /\ \/ \E r \in Opposing(e, open) : open' = open \ {r} /\ UNCHANGED loose
       \/ /\ Opposing(e, open) = {}
          /\ loose' = loose \ Opposing(e, loose)
          /\ UNCHANGED open
    /\ Moves(e, "resolved")
    /\ UNCHANGED <<reloads, stopped, trades, opened, late,
                   detached, stacked>>

\* _check_correlation_risk.
Spread(e) ==
    /\ stage[e] = "resolved"
    /\ Cardinality(OpenOf(wish[e][2])) < MaxSame
    /\ Moves(e, "spread")
    /\ UNCHANGED <<reloads, stopped, open, loose, trades, opened,
                   late, detached, stacked>>

Approve(e) ==
    /\ stage[e] = "spread"
    /\ ~stopped
    /\ Moves(e, "approved")
    /\ UNCHANGED <<reloads, stopped, open, loose, trades, opened,
                   late, detached, stacked>>

Sends == late' = IF stopped THEN late + 1 ELSE late

Send(e) ==
    /\ stage[e] = "approved"
    /\ Sends
    /\ Moves(e, "sent")
    /\ UNCHANGED <<reloads, stopped, open, loose, trades, opened,
                   detached, stacked>>

\* The count is only compared with MaxDaily.
Logged == trades' = IF trades < MaxDaily THEN trades + 1 ELSE trades

\* An entry that the adapter refuses is logged as executed all the same.
Refuse(e) ==
    /\ stage[e] = "approved"
    /\ Logged
    /\ Ends(e)
    /\ UNCHANGED <<reloads, stopped, open, loose, opened, late,
                   detached, stacked>>

Marked(e) == IF \E r \in Held : r[1] = wish[e]
               THEN stacked \cup {wish[e][1]} ELSE stacked

\* log_trade_db and the commit, within the lock.
Book(e) ==
    /\ stage[e] = "sent"
    /\ open' = open \cup {<<wish[e], e>>}
    /\ Logged /\ opened' = opened + 1
    /\ stacked' = Marked(e)
    /\ Ends(e)
    /\ UNCHANGED <<reloads, stopped, loose, late, detached>>

\* A check refuses the entry, a lock times out, an error or a cancellation
\* ends the task before the order.
Drop(e) ==
    /\ stage[e] \in Underway \ {"sent"}
    /\ Ends(e)
    /\ UNCHANGED <<reloads, stopped, open, loose, trades, opened,
                   late, detached, stacked>>

\* The lock is lost, the scan times out or the database fails while the
\* exchange works: the locks are free, and the thread is not cancelled.
Detach(e) ==
    /\ detached < MaxDetached /\ detached' = detached + 1
    /\ \/ stage[e] = "approved" /\ Moves(e, "thread") /\ UNCHANGED loose
       \/ stage[e] = "sent" /\ Ends(e)
          /\ loose' = loose \cup {<<wish[e], e>>}
    /\ stacked' = stacked \cup {wish[e][1]}
    /\ UNCHANGED <<reloads, stopped, open, trades, opened, late>>

ThreadSends(e) ==
    /\ stage[e] = "thread"
    /\ Sends
    /\ loose' = loose \cup {<<wish[e], e>>}
    /\ Ends(e)
    /\ UNCHANGED <<reloads, stopped, open, trades, opened,
                   detached, stacked>>

-----------------------------------------------------------------------------
(* Around the pipeline.                                                    *)

StopTrading ==
    /\ ~stopped /\ stopped' = TRUE
    /\ UNCHANGED <<stage, wish, ticket, reloads, open, loose, trades, opened,
                   late, detached, stacked>>

ResumeTrading ==
    /\ stopped /\ stopped' = FALSE
    /\ late' = 0
    /\ UNCHANGED <<stage, wish, ticket, reloads, open, loose, trades, opened,
                   detached, stacked>>

\* refresh_signal_runtime_settings: a new semaphore for the next alerts.
Reload ==
    /\ reloads < MaxReloads /\ reloads' = reloads + 1
    /\ UNCHANGED <<stage, wish, ticket, stopped, open, loose, trades, opened,
                   late, detached, stacked>>

\* The position monitor closes a row and logs an executed trade.
MonitorCloses ==
    /\ \E r \in open : open' = open \ {r}
    /\ Logged
    /\ UNCHANGED <<stage, wish, ticket, reloads, stopped, loose, opened, late,
                   detached, stacked>>

Midnight ==
    /\ trades > 0
    /\ trades' = 0 /\ opened' = 0
    /\ UNCHANGED <<stage, wish, ticket, reloads, stopped, open, loose, late,
                   detached, stacked>>

LimitsNext ==
    \/ \E a \in Alert : TakeSlot(a)
    \/ \E c \in Candidate : Dispatch(c)
    \/ \E e \in Entry :
        \/ LockTicker(e) \/ Screen(e) \/ Filter(e) \/ Resolve(e) \/ Spread(e)
        \/ Approve(e) \/ Send(e) \/ Refuse(e) \/ Book(e) \/ Drop(e)
        \/ Detach(e) \/ ThreadSends(e)
    \/ StopTrading \/ ResumeTrading \/ Reload \/ MonitorCloses \/ Midnight

LimitsSpec == LimitsInit /\ [][LimitsNext]_limitsVars

-----------------------------------------------------------------------------
\* How many entries can be between the reading of a limit and its use: a
\* slot of each semaphore ever made and the dispatch of the scanner.
Width == Slots * (reloads + 1) + 1

\* The daily limit, the limit of a direction and the stop are read before
\* they are used (pre_filter.py, _check_correlation_risk, trading_allowed):
\* each can be overrun, by no more than the entries underway.
DailyOverrun == opened + Cardinality(In(Counted)) <= MaxDaily - 1 + Width
SideOverrun ==
    \A d \in Side :
        Cardinality(OpenOf(d))
            + Cardinality({e \in In(Sending) : wish[e][2] = d})
          <= MaxSame - 1 + Width
StopOverrun ==
    stopped => late + Cardinality(In({"approved", "thread"})) <= Width + detached
LimitsOverrun == DailyOverrun /\ SideOverrun /\ StopOverrun

\* The reverse close and the lock keep a symbol on one side
\* (_check_position_conflict), unless two orders of one direction met on it
\* or an order lost its task.
OpposedOnlyIfStacked ==
    \A r, q \in Held : q[1] = Opposite(r[1]) => r[1][1] \in stacked

\* README.md:41 promises "reverse-signal auto-liquidation", and
\* signal_processor.py:1555 "Close existing position before opening reverse
\* position": no row of the other side stays open beside the new one.
ReverseLeavesOneSide == \A r, q \in open : q[1] # Opposite(r[1])
=============================================================================
