----------------------------- MODULE DcaStrategy -----------------------------
(***************************************************************************)
(* A live DCA strategy left from before live DCA was disabled: the         *)
(* strategy monitor and the check endpoint (routers/strategies.py) run     *)
(* DCAEngine.check_and_execute (strategies/dca.py) under the lock of the   *)
(* strategy, and the close endpoint runs _close_position without it.  The  *)
(* strategy lives in the memory of the process, in two Redis hashes and in *)
(* a row.  A check begins by loading the Redis record over the memory, and *)
(* every list of the strategies does so without the lock: the position     *)
(* object a check or a close works on may no longer be the one in memory.  *)
(*                                                                         *)
(* Every entry has one unit and one stop; the targets are replaced and     *)
(* cancelled like the stops.  Prices decide nothing but which branch a     *)
(* check takes.  Closes obey CloseContract, stops ProtectiveStop.          *)
(***************************************************************************)
EXTENDS Integers, FiniteSets

CONSTANTS
    MaxEntries,   \* config.max_entries
    MaxFaults     \* bound: failed saves, failed reads, restarts, lost answers

ASSUME DcaAssumption == MaxEntries \in Nat \ {0} /\ MaxFaults \in Nat

EntryStop(k) == <<"entry", k>>
Aggregate(k) == <<"aggregate", k>>
StopOrder == {"entry", "aggregate"} \X (1..MaxEntries)

\* What of a DCAPosition matters: flat is closed_at, main stop_loss_order_id,
\* ids stop_loss_order_ids, entries also the total quantity.
Record == [status : {"active", "cleanup_required", "closed"},
           entries : 1..MaxEntries, main : StopOrder, ids : SUBSET StopOrder,
           flat : BOOLEAN]
Gone == [status |-> "gone"]

VARIABLES
    redis,     \* Redis is configured
    mem,       \* dca_engine.positions
    hash,      \* the Redis record a load finds, in the active or state hash
    dcaRow,    \* the row of strategy_states
    at,        \* where the check is
    caller,    \* who runs it, the monitor or a user
    manual,    \* where the close endpoint is
    marked,    \* the monitor is about to check the strategy
    listing,   \* the record a list of the strategies has read from Redis
    ownObject,  \* the position object the check or the close endpoint goes on
               \* with, when another one has taken its place in memory
    shared,    \* it is the same object for both
    held,      \* contracts on the exchange
    stopBook,      \* stops on the exchange
    used,      \* client order ids of accepted entries
    bought,    \* entries accepted
    dcaFaults,
    excused    \* an answer, a record or an entry was lost, or a close ran
               \* into a check

storeVars == <<hash, dcaRow>>
marketVars == <<held, stopBook, used, bought>>
objectVars == <<ownObject, shared>>
dcaVars == <<redis, mem, storeVars, at, caller, manual, marked, listing,
             objectVars, marketVars, dcaFaults, excused>>

CheckStep == {"idle", "lock", "decide", "enter", "protect", "close",
              "cancel", "sync", "syncFailed", "persist"}
ManualStep == {"idle", "close", "cancel", "sync", "syncFailed", "persist"}
Holder == {"check", "endpoint"}

DcaTypeOK ==
    /\ redis \in BOOLEAN
    /\ mem \in Record \cup {Gone}
    /\ hash \in Record \cup {Gone}
    /\ dcaRow \in Record
    /\ at \in CheckStep
    /\ caller \in {"none", "monitor", "user"}
    /\ (at = "idle") = (caller = "none")
    /\ manual \in ManualStep
    /\ marked \in BOOLEAN
    /\ listing \in Record \cup {Gone}
    /\ ownObject \in [Holder -> Record \cup {Gone}]
    /\ shared \in BOOLEAN
    /\ held \in 0..bought
    /\ stopBook \subseteq StopOrder
    /\ used \subseteq 1..MaxEntries
    /\ bought \in Nat
    /\ dcaFaults \in 0..MaxFaults
    /\ excused \in BOOLEAN

Legacy == [status |-> "active", entries |-> 1, main |-> EntryStop(1),
           ids |-> {EntryStop(1)}, flat |-> FALSE]

DcaInit ==
    /\ redis \in BOOLEAN
    /\ mem = Legacy
    /\ hash = IF redis THEN Legacy ELSE Gone
    /\ dcaRow = Legacy
    /\ at = "idle"
    /\ caller = "none"
    /\ manual = "idle"
    /\ marked = FALSE
    /\ listing = Gone
    /\ ownObject = [h \in Holder |-> Gone]
    /\ shared = FALSE
    /\ held = 1
    /\ stopBook = {EntryStop(1)}
    /\ used = {1}
    /\ bought = 1
    /\ dcaFaults = 0
    /\ excused = FALSE

Fault == dcaFaults < MaxFaults /\ dcaFaults' = dcaFaults + 1
Excuse == excused' = TRUE
Open == {"active", "cleanup_required"}
-----------------------------------------------------------------------------
(***************************************************************************)
(* Memory, Redis and the row.                                              *)
(***************************************************************************)
\* Who works on a position object: a check from the moment the lock is held, a
\* close while _close_position runs.
Works(h) ==
    IF h = "check" THEN at \in {"decide", "enter", "protect", "close", "cancel"}
                   ELSE manual \in {"close", "cancel"}

Object(h) == IF ownObject[h] = Gone THEN mem ELSE ownObject[h]

\* _restore_state_record: a new object takes the place of the one in memory;
\* whoever works on the old one goes on with it.
Replace(r) ==
    LET caught == {h \in Holder : Works(h) /\ ownObject[h] = Gone} IN
    /\ mem' = r
    /\ ownObject' = [h \in Holder |-> IF h \in caught THEN mem ELSE ownObject[h]]
    /\ shared' = (shared \/ caught = Holder)

\* The object of h becomes r, for the other one too if they share it.
Noted(h, r) ==
    [g \in Holder |->
        IF ownObject[h] # Gone /\ (g = h \/ shared) THEN r ELSE ownObject[g]]

Change(h, r) ==
    /\ mem' = IF ownObject[h] = Gone THEN r ELSE mem
    /\ ownObject' = Noted(h, r)
    /\ UNCHANGED shared

\* It does, and h has no more use for it.
Finalize(h, r) ==
    /\ mem' = IF ownObject[h] = Gone THEN r ELSE mem
    /\ ownObject' = [Noted(h, r) EXCEPT ![h] = Gone]
    /\ shared' = FALSE

LetGo(h) == Finalize(h, Object(h))

\* sync_position_state; the write to a hash may fail.
SyncState ==
    \/ hash' = (IF redis THEN mem ELSE Gone) /\ UNCHANGED <<dcaFaults, excused>>
    \/ redis /\ Fault /\ Excuse /\ UNCHANGED hash

\* _persist_strategy_state and the commit.
Persist ==
    \/ dcaRow' = mem /\ UNCHANGED <<dcaFaults, excused>>
    \/ Fault /\ Excuse /\ UNCHANGED dcaRow
-----------------------------------------------------------------------------
(***************************************************************************)
(* A check, by the monitor or the endpoint.                                *)
(***************************************************************************)
\* "Legacy live strategies are migrated to cleanup_required".
Migrated(r) == [r EXCEPT !.status =
                   IF @ = "active" THEN "cleanup_required" ELSE @]

Overlaps(busy) == excused' = (excused \/ busy)

\* refresh_active_from_redis takes no lock: GET /dca/list, GET /overview and
\* the monitor, before it goes through the strategies, read the open records
\* of Redis.  Bound: one such record is on its way at a time.
ReadActive ==
    /\ listing = Gone
    /\ hash # Gone /\ hash.status \in Open
    /\ listing' = hash
    /\ UNCHANGED <<redis, mem, storeVars, at, caller, manual, marked, objectVars,
                   marketVars, dcaFaults, excused>>

\* Then they put it into memory.  An entry the record does not know yet is lost
\* from there, with the ids of its orders.
RestoreActive ==
    /\ listing # Gone
    /\ Replace(listing)
    /\ listing' = Gone
    /\ Overlaps(mem # Gone /\ listing.entries < mem.entries)
    /\ UNCHANGED <<redis, storeVars, at, caller, manual, marked, marketVars,
                   dcaFaults>>

\* run_strategy_monitor_once, after its own refresh: an open strategy is marked
\* in memory, before any lock.
MonitorMarks ==
    /\ ~marked /\ caller # "monitor"
    /\ mem # Gone /\ mem.status \in Open
    /\ mem' = Migrated(mem)
    /\ marked' = TRUE
    /\ UNCHANGED <<redis, storeVars, at, caller, manual, listing, objectVars,
                   marketVars, dcaFaults, excused>>

\* _strategy_exchange_config, the price and the lock; an exception ends it.
MonitorStarts ==
    /\ marked
    /\ marked' = FALSE
    /\ \/ at = "idle" /\ at' = "lock" /\ caller' = "monitor"
          /\ Overlaps(manual # "idle")
       \/ UNCHANGED <<at, caller, excused>>
    /\ UNCHANGED <<redis, mem, storeVars, manual, listing, objectVars, marketVars,
                   dcaFaults>>

\* check_dca_strategy.
UserChecks ==
    /\ at = "idle"
    /\ mem # Gone
    /\ at' = "lock" /\ caller' = "user" /\ Overlaps(manual # "idle")
    /\ UNCHANGED <<redis, mem, storeVars, manual, marked, listing, objectVars,
                   marketVars, dcaFaults>>

\* A request finds no strategy in memory and takes the row's.
Hydrate ==
    /\ mem = Gone
    /\ mem' = dcaRow
    /\ UNCHANGED <<redis, storeVars, at, caller, manual, marked, listing, objectVars,
                   marketVars, dcaFaults, excused>>

\* The lock of the strategy is held from here.  load_position_state(refresh)
\* replaces what is in memory, if the read succeeds.
Refresh ==
    /\ at = "lock"
    /\ \/ hash # Gone /\ Replace(hash) /\ UNCHANGED dcaFaults
       \/ hash = Gone /\ UNCHANGED <<mem, objectVars, dcaFaults>>
       \/ hash # Gone /\ Fault /\ UNCHANGED <<mem, objectVars>>
    /\ at' = "decide"
    /\ UNCHANGED <<redis, storeVars, caller, manual, marked, listing, marketVars,
                   excused>>

\* entries_remaining.
MayAdd(r) == r.entries < MaxEntries

\* A cleanup, or the stop or the target is hit; or a lower price adds an entry.
\* The check works on the object it found when it had the lock.
Decide ==
    /\ at = "decide"
    /\ LET position == Object("check") IN
       \/ position.status = "cleanup_required" /\ at' = "close"
       \/ position.status = "active" /\ at' \in {"close", "sync"}
       \/ position.status = "active" /\ MayAdd(position) /\ at' = "enter"
       \/ position.status = "closed" /\ at' = "persist"
    /\ IF at' \in {"sync", "persist"} THEN LetGo("check")
       ELSE UNCHANGED <<mem, objectVars>>
    /\ UNCHANGED <<redis, storeVars, caller, manual, marked, listing, marketVars,
                   dcaFaults, excused>>

\* Mutant: an entry has a new id every time.
KeyIsNew(k) == TRUE

\* The idempotency key names the strategy and the number of the entry; the
\* exchange refuses a client order id it has seen.
KeyIsFree(k) == k \notin used

Bought(k) == held' = held + 1 /\ bought' = bought + 1 /\ used' = used \cup {k}
EndCheck == at' = "idle" /\ caller' = "none"

\* _add_entry sends the order: filled with its stop, or refused, or unclear.  An
\* entry that is noted on a detached object does not get into memory.
SendEntry ==
    /\ at = "enter"
    /\ LET position == Object("check")
           k == position.entries + 1 IN
       \/ /\ KeyIsFree(k) /\ Bought(k)
          /\ stopBook' = stopBook \cup {EntryStop(k)}
          /\ Change("check",
               [position EXCEPT !.entries = k,
                                !.ids = @ \cup {position.main, EntryStop(k)}])
          /\ at' = "protect"
          /\ Overlaps(ownObject["check"] # Gone)
          /\ UNCHANGED <<caller, dcaFaults>>
       \/ EndCheck /\ LetGo("check") /\ UNCHANGED <<marketVars, dcaFaults, excused>>
       \/ /\ KeyIsFree(k) /\ Bought(k)
          /\ Fault /\ Excuse
          /\ EndCheck /\ LetGo("check")
          /\ UNCHANGED stopBook
    /\ UNCHANGED <<redis, storeVars, manual, marked, listing>>

\* place_protective_stop for the whole position in place of the main stop.
ReplaceStop ==
    /\ at = "protect"
    /\ LET position == Object("check")
           k == position.entries
           old == position.main
           new == Aggregate(k) IN
       \/ \* placed; the stop of the entry is cancelled as well
          \E kept \in BOOLEAN :
            /\ stopBook' \in {(stopBook \cup {new}) \ {old, EntryStop(k)},
                          IF kept THEN (stopBook \cup {new}) \ {old}
                          ELSE (stopBook \cup {new}) \ {old, EntryStop(k)}}
            /\ Finalize("check", [position EXCEPT !.main = new,
                 !.ids = (@ \ ({old} \cup IF kept THEN {} ELSE {EntryStop(k)}))
                            \cup {new}])
            /\ UNCHANGED <<held, dcaFaults, excused>>
       \/ \* the old one could not be cancelled, the new one neither
          /\ \E gone \in SUBSET {old, new} : stopBook' = (stopBook \cup {new}) \ gone
          /\ Finalize("check", [position EXCEPT !.ids = @ \cup {old, new}])
          /\ UNCHANGED <<held, dcaFaults, excused>>
       \/ \* refused, or the new one was rolled back
          /\ stopBook' \in {stopBook, stopBook \ {old}}
          /\ LetGo("check")
          /\ UNCHANGED <<held, dcaFaults, excused>>
       \/ \* timed out: place_protective_stop closes the position
          /\ Fault /\ Excuse
          /\ held' \in 0..held
          /\ LetGo("check")
          /\ UNCHANGED stopBook
    /\ at' = "sync"
    /\ UNCHANGED <<redis, storeVars, caller, manual, marked, listing, used, bought>>
-----------------------------------------------------------------------------
(***************************************************************************)
(* _close_position, in a check or from the close endpoint.                 *)
(***************************************************************************)
\* Mutant: a cleanup never flattens.
ClosedOrCleaning(r) == r.flat \/ r.status = "cleanup_required"

\* "Only skip the reduce-only close after a prior close was durably recorded."
AlreadyFlat(r) == r.flat /\ r.status = "cleanup_required"

\* Where the close of r goes on, and what it leaves on the exchange; an answer
\* no_position would need a wrong read in each of its attempts.
Flatten(r, next) ==
    \/ AlreadyFlat(r) /\ next = "cancel" /\ UNCHANGED held
    \/ ~AlreadyFlat(r) /\ next = "cancel" /\ held' = 0
    \/ /\ ~AlreadyFlat(r) /\ next = "syncFailed" /\ held > 0
       /\ \E left \in 0..held : left >= held - r.entries /\ held' = left

CleanedUp(r, stuck) ==
    [r EXCEPT !.status = IF stuck = {} THEN "closed"
                         ELSE "cleanup_required",
              !.flat = TRUE, !.ids = stuck]

\* Every id is cancelled; a failed cancel may have reached the exchange.
CancelAll(r, stuck) ==
    /\ stuck \subseteq r.ids \cup {r.main}
    /\ \E gone \in {{}, stuck} :
        stopBook' = stopBook \ (((r.ids \cup {r.main}) \ stuck) \cup gone)

CheckCloses ==
    /\ at = "close"
    /\ Flatten(Object("check"), at')
    /\ IF at' = "cancel" THEN UNCHANGED <<mem, objectVars>> ELSE LetGo("check")
    /\ UNCHANGED <<redis, storeVars, caller, manual, marked, listing, stopBook, used,
                   bought, dcaFaults, excused>>

CheckCancels ==
    /\ at = "cancel"
    /\ LET position == Object("check") IN
       \E stuck \in SUBSET (position.ids \cup {position.main}) :
         CancelAll(position, stuck) /\ Finalize("check", CleanedUp(position, stuck))
    /\ at' = "sync"
    /\ UNCHANGED <<redis, storeVars, caller, manual, marked, listing, held, used,
                   bought, dcaFaults, excused>>

\* What is saved is the object in memory, whatever the check worked on.
CheckSyncs ==
    /\ at \in {"sync", "syncFailed"}
    /\ SyncState
    /\ IF at = "sync" THEN at' = "persist" /\ UNCHANGED caller ELSE EndCheck
    /\ UNCHANGED <<redis, mem, dcaRow, manual, marked, listing, objectVars,
                   marketVars>>

CheckPersists ==
    /\ at = "persist"
    /\ Persist
    /\ EndCheck
    /\ UNCHANGED <<redis, mem, hash, manual, marked, listing, objectVars,
                   marketVars>>

\* close_dca_strategy: no lock, no load from Redis, any status.
ManualStarts ==
    /\ manual = "idle"
    /\ mem # Gone
    /\ manual' = "close"
    /\ Overlaps(at # "idle")
    /\ UNCHANGED <<redis, mem, storeVars, at, caller, marked, listing, objectVars,
                   marketVars, dcaFaults>>

ManualCloses ==
    /\ manual = "close"
    /\ Flatten(Object("endpoint"), manual')
    /\ IF manual' = "cancel" THEN UNCHANGED <<mem, objectVars>> ELSE LetGo("endpoint")
    /\ UNCHANGED <<redis, storeVars, at, caller, marked, listing, stopBook, used,
                   bought, dcaFaults, excused>>

ManualCancels ==
    /\ manual = "cancel"
    /\ LET position == Object("endpoint") IN
       \E stuck \in SUBSET (position.ids \cup {position.main}) :
         CancelAll(position, stuck) /\ Finalize("endpoint", CleanedUp(position, stuck))
    /\ manual' = "sync"
    /\ UNCHANGED <<redis, storeVars, at, caller, marked, listing, held, used, bought,
                   dcaFaults, excused>>

ManualSyncs ==
    /\ manual \in {"sync", "syncFailed"}
    /\ SyncState
    /\ manual' = IF manual = "sync" THEN "persist" ELSE "idle"
    /\ UNCHANGED <<redis, mem, dcaRow, at, caller, marked, listing, objectVars,
                   marketVars>>

ManualPersists ==
    /\ manual = "persist"
    /\ Persist
    /\ manual' = "idle"
    /\ UNCHANGED <<redis, mem, hash, at, caller, marked, listing, objectVars,
                   marketVars>>
-----------------------------------------------------------------------------
\* The process dies and starts again.
RestartDca ==
    /\ Fault
    /\ mem' = Gone /\ listing' = Gone /\ marked' = FALSE
    /\ EndCheck /\ manual' = "idle"
    /\ ownObject' = [h \in Holder |-> Gone] /\ shared' = FALSE
    /\ excused' = (excused \/ at # "idle" \/ manual # "idle" \/ dcaRow # mem)
    /\ UNCHANGED <<redis, storeVars, marketVars>>

\* A stop triggers.
TriggerStop ==
    /\ held > 0
    /\ \E o \in stopBook : stopBook' = stopBook \ {o}
    /\ held' \in 0..(held - 1)
    /\ UNCHANGED <<redis, mem, storeVars, at, caller, manual, marked, listing,
                   objectVars, used, bought, dcaFaults, excused>>

DcaNext ==
    \/ ReadActive \/ RestoreActive \/ MonitorMarks \/ MonitorStarts
    \/ UserChecks \/ Hydrate \/ Refresh \/ Decide
    \/ SendEntry \/ ReplaceStop \/ CheckCloses \/ CheckCancels \/ CheckSyncs
    \/ CheckPersists
    \/ ManualStarts \/ ManualCloses \/ ManualCancels \/ ManualSyncs
    \/ ManualPersists
    \/ RestartDca \/ TriggerStop

DcaSpec == DcaInit /\ [][DcaNext]_dcaVars
-----------------------------------------------------------------------------
\* However often a record or an entry is lost and an entry is sent again, by
\* whichever caller, the strategy buys no more than max_entries: the key of an
\* entry is its number, and the exchange takes a client order id once.
EntriesBounded == bought <= MaxEntries

\* A strategy is closed only when it is over: no contracts, and none of the
\* stops that entries and their replacements have left over, of which some
\* could not be cancelled.  Excepted are a lost answer, a lost record, a close
\* endpoint that ran into a check, and an entry that is no longer, or never was,
\* in the object in memory: a list of the strategies put back a record without
\* it, or replaced the object while the entry was being sent.
ClosedIsClean ==
    mem.status = "closed" /\ ~excused => held = 0 /\ stopBook = {}

\* "Legacy live strategies are migrated to cleanup_required; only
\* reduce/cancel work is permitted thereafter": the monitor never enters.
LegacyOnlyReduces == [][caller = "monitor" => bought' = bought]_dcaVars
=============================================================================
