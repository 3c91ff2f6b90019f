----------------------------- MODULE AccountRisk -----------------------------
(***************************************************************************)
(* The loss tracker and the drawdown breaker of one account                *)
(* (core/account_risk.py): an entry of a Redis hash that the processes     *)
(* share, a copy in the memory of each, and a file for their restarts.  A  *)
(* close records its loss, and a signal its equity, under a distributed    *)
(* lock: the hash is read over the memory, the memory changed and saved,   *)
(* the hash written.  A signal reads the losses before, without the lock.  *)
(* Redis calls that fail are not noticed; a lock that is refused is.  What *)
(* the account forgets by that is kept in forgot.                          *)
(*                                                                         *)
(* A loss is the call that records it, and equity a small number: the      *)
(* breaker refuses a fall of Falls[h] within h ticks of the clock.         *)
(***************************************************************************)
EXTENDS Integers, Sequences

CONSTANTS
    Proc,        \* processes that serve the account
    Loss,        \* calls of record_position_pnl
    Check,       \* calls of check_account_loss_limits
    Sampler,     \* calls of check_drawdown_circuit_breaker
    Equity,      \* values of the account
    Falls,       \* the limits of the two rolling windows, by their lengths
    MaxSamples,  \* the 200 samples that are kept
    NoValue,     \* no entry, no owner
    MaxTime,     \* bound: the clock
    MaxDays,     \* bound: midnights
    MaxOutages   \* bound: failed Redis calls, lost keys, deaths

Writer == Loss \cup Sampler
Job == Writer \cup Check
Cell == {"losses", "peaks"}
Window == DOMAIN Falls

ASSUME RiskAssumption ==
    /\ Loss \cap Sampler = {} /\ Writer \cap Check = {} /\ NoValue \notin Job
    /\ Equity \subseteq Int /\ Window \subseteq Nat
    /\ \E h \in Window : \A k \in Window : k <= h
    /\ \A h \in Window : Falls[h] \in Nat \ {0}
    /\ MaxSamples \in Nat \ {0}
    /\ {MaxTime, MaxDays, MaxOutages} \subseteq Nat

Days == 0..MaxDays
Tracker == [date : Days, daily : SUBSET Loss, total : SUBSET Loss]
Sample == [equity : Equity, time : 0..MaxTime]

ASSUME NoValueAssumption == NoValue \notin Tracker /\ NoValue \notin Seq(Sample)

VARIABLES
    hashes,     \* Redis is used; otherwise one process serves the account
    hashed,     \* the entries of the two Redis hashes
    memory,     \* _ACCOUNT_DAILY_TRACKER, _DRAWDOWN_CIRCUIT_BREAKERS
    file,       \* account_risk_tracker.json, drawdown_cb_state.json
    owner,      \* the calls that own the locks
    host,       \* the process of each call
    where,      \* how far it is
    value,      \* what it read, or is about to write
    ended,      \* losses whose call has ended well, and the day each was for
    sampled,    \* samples of the calls that have ended well, in order
    due,        \* the losses that had ended when a check began
    today,      \* the day when it began
    now, day, outages,
    forgot      \* the cells in which a write, a read for one, or a key was lost,
                \* and "peaks" if a call died that had changed them

riskVars == <<hashes, hashed, memory, file, owner, host, where, value, ended,
              sampled, due, today, now, day, outages, forgot>>

Where == {"new", "started", "reading", "blind", "checked", "locked",
          "updated", "stored", "done", "failed"}
CellOf(j) == IF j \in Loss THEN "losses" ELSE "peaks"
CellValue(v) == /\ DOMAIN v = Cell
                /\ v["losses"] \in Tracker \cup {NoValue}
                /\ v["peaks"] \in Seq(Sample) \cup {NoValue}
ValueOK(j) ==
    \/ where[j] \notin {"reading", "blind", "updated", "stored"}
    \/ j \in Check /\ value[j] \in Tracker \cup {NoValue}
    \/ j \in Loss /\ value[j] \in Tracker
    \/ j \in Sampler /\ value[j] \in [equity : Equity, time : 0..MaxTime, blocked : BOOLEAN]

RiskTypeOK ==
    /\ hashes \in BOOLEAN
    /\ CellValue(hashed) /\ CellValue(file)
    /\ DOMAIN memory = Proc /\ \A p \in Proc : CellValue(memory[p])
    /\ owner \in [Cell -> Writer \cup {NoValue}]
    /\ host \in [Job -> Proc] /\ where \in [Job -> Where]
    /\ DOMAIN value = Job /\ \A j \in Job : ValueOK(j)
    /\ ended \in SUBSET (Loss \X Days) /\ sampled \in Seq(Sample)
    /\ due \in [Check -> SUBSET (Loss \X Days)] /\ today \in [Check -> Days]
    /\ now \in 0..MaxTime /\ day \in Days /\ outages \in 0..MaxOutages
    /\ forgot \subseteq Cell

Nothing == [c \in Cell |-> NoValue]

RiskInit ==
    /\ hashes \in BOOLEAN
    /\ hashed = Nothing /\ file = Nothing
    /\ memory = [p \in Proc |-> Nothing]
    /\ owner = Nothing
    /\ host \in [Job -> Proc]
    /\ ~hashes => \A i, j \in Job : host[i] = host[j]
    /\ where \in [Job -> {"new", "done"}]    \* "done": does not come
    /\ value = [j \in Job |-> NoValue]
    /\ ended = {} /\ sampled = <<>>
    /\ due = [s \in Check |-> {}] /\ today = [s \in Check |-> 0]
    /\ now = 0 /\ day = 0 /\ outages = 0 /\ forgot = {}

Outage == outages < MaxOutages /\ outages' = outages + 1
Goes(j, w) == where' = [where EXCEPT ![j] = w]
Keeps(j, c, v) == memory' = [memory EXCEPT ![host[j]][c] = v]
-----------------------------------------------------------------------------
(* check_account_loss_limits, without a lock.                              *)

StartRead(s) ==
    /\ where[s] = "new"
    /\ due' = [due EXCEPT ![s] = ended] /\ today' = [today EXCEPT ![s] = day]
    /\ Goes(s, "started")
    /\ UNCHANGED <<hashes, hashed, memory, file, owner, host, value, ended, sampled,
                   now, day, outages, forgot>>

\* redis_hget_json: nothing, when there is no Redis, no entry or an error.
Get(c, ok) == IF hashes /\ ok THEN hashed[c] ELSE NoValue

ReadLosses(s) ==
    /\ where[s] = "started"
    /\ \E ok \in BOOLEAN :
         /\ IF ok THEN UNCHANGED outages ELSE hashes /\ Outage
         /\ value' = [value EXCEPT ![s] = Get("losses", ok)]
         /\ Goes(s, IF ok THEN "reading" ELSE "blind")
    /\ UNCHANGED <<hashes, hashed, memory, file, owner, host, ended, sampled, due,
                   today, now, day, forgot>>

\* What the limits of the day and of all time are compared with.
Sees(t, d) ==
    IF t = NoValue THEN [daily |-> {}, total |-> {}]
    ELSE [daily |-> IF t.date = d THEN t.daily ELSE {}, total |-> t.total]

Latest(s) == IF value[s] = NoValue THEN memory[host[s]]["losses"] ELSE value[s]

EndRead(s) ==
    /\ where[s] \in {"reading", "blind"}
    /\ Keeps(s, "losses", Latest(s))
    /\ value' = [value EXCEPT ![s] = Sees(Latest(s), today[s])]
    /\ Goes(s, "checked")
    /\ UNCHANGED <<hashes, hashed, file, owner, host, ended, sampled, due, today, now,
                   day, outages, forgot>>
-----------------------------------------------------------------------------
(* record_position_pnl and check_drawdown_circuit_breaker, under the lock. *)

\* Mutant of Free: no lock.
FreeAnyway(c) == TRUE
Free(c) == owner[c] = NoValue

Lock(j) ==
    /\ where[j] = "new" /\ Free(CellOf(j))
    /\ owner' = [owner EXCEPT ![CellOf(j)] = j]
    /\ Goes(j, "locked")
    /\ UNCHANGED <<hashes, hashed, memory, file, host, value, ended, sampled, due,
                   today, now, day, outages, forgot>>

\* A lock that is busy for ten seconds, or Redis fails: the close goes on with
\* risk_tracker_failed, the signal is refused.
LockRefused(j) ==
    /\ where[j] = "new"
    /\ \/ ~Free(CellOf(j)) /\ UNCHANGED outages
       \/ hashes /\ Outage
    /\ Goes(j, "failed")
    /\ UNCHANGED <<hashes, hashed, memory, file, owner, host, value, ended, sampled,
                   due, today, now, day, forgot>>

\* _record_position_pnl_local: a new day keeps the total.
WithLoss(t, l) ==
    LET old == IF t = NoValue THEN [date |-> day, daily |-> {}, total |-> {}] ELSE t
    IN [date |-> day, daily |-> (IF old.date = day THEN old.daily ELSE {}) \cup {l},
        total |-> old.total \cup {l}]

\* Mutant of Newest: the first samples stay.
Oldest(q) == SubSeq(q, 1, IF Len(q) < MaxSamples THEN Len(q) ELSE MaxSamples)
Newest(q) == SubSeq(q, IF Len(q) < MaxSamples THEN 1 ELSE Len(q) - MaxSamples + 1, Len(q))

Longest == CHOOSE h \in Window : \A k \in Window : k <= h
Within(x, h) == now - x.time <= h

\* Samples are in the order of their times: those that are too old come first.
\* There is one that is not, the sample of now.
Recent(q) ==
    SubSeq(q, CHOOSE i \in DOMAIN q : /\ Within(q[i], Longest)
                                      /\ \A k \in 1..(i - 1) : ~Within(q[k], Longest),
           Len(q))

\* _check_drawdown_circuit_breaker_local: append, then trim.
WithSample(q, e) ==
    Newest(Recent(Append(IF q = NoValue THEN <<>> ELSE q, [equity |-> e, time |-> now])))

Falling(q, e) ==
    \E h \in Window : \E i \in DOMAIN q : Within(q[i], h) /\ q[i].equity - e >= Falls[h]

\* The state before: the hash, else the memory, else (peaks) the file.
Before(j, ok) ==
    LET c == CellOf(j)
        own == memory[host[j]][c]
    IN IF Get(c, ok) # NoValue THEN Get(c, ok)
       ELSE IF c = "peaks" /\ own = NoValue THEN file[c] ELSE own

\* A Redis call on cell c, or its failure.
Remembers(c, ok) ==
    IF ok THEN UNCHANGED <<outages, forgot>>
    ELSE hashes /\ Outage /\ forgot' = forgot \cup {c}

Update(j) ==
    /\ where[j] = "locked"
    /\ \E ok \in BOOLEAN :
         /\ Remembers(CellOf(j), ok)
         /\ \/ /\ j \in Loss
               /\ value' = [value EXCEPT ![j] = WithLoss(Before(j, ok), j)]
               /\ Keeps(j, "losses", value'[j])
            \/ /\ j \in Sampler
               /\ \E e \in Equity : LET q == WithSample(Before(j, ok), e) IN
                    /\ Keeps(j, "peaks", q)
                    /\ value' = [value EXCEPT ![j] =
                                   [equity |-> e, time |-> now, blocked |-> Falling(q, e)]]
    /\ file' = [file EXCEPT ![CellOf(j)] = memory'[host[j]][CellOf(j)]]
    /\ Goes(j, "updated")
    /\ UNCHANGED <<hashes, hashed, owner, host, ended, sampled, due, today, now, day>>

\* redis_hset_json: a failure is not noticed.
Store(j) ==
    /\ where[j] = "updated"
    /\ LET v == IF j \in Loss THEN value[j] ELSE memory[host[j]]["peaks"]
       IN \E ok \in BOOLEAN :
            /\ Remembers(CellOf(j), ok)
            /\ hashed' = IF hashes /\ ok THEN [hashed EXCEPT ![CellOf(j)] = v] ELSE hashed
    /\ Goes(j, "stored")
    /\ UNCHANGED <<hashes, memory, file, owner, host, value, ended, sampled, due,
                   today, now, day>>

\* A lock that was lost is reported, if its renewal has noticed.
Release(j) ==
    /\ where[j] = "stored"
    /\ LET kept == owner[CellOf(j)] = j
       IN /\ owner' = IF kept THEN [owner EXCEPT ![CellOf(j)] = NoValue] ELSE owner
          /\ Goes(j, "done") \/ (~kept /\ Goes(j, "failed"))
    /\ IF j \in Loss
         THEN ended' = ended \cup {<<j, value[j].date>>} /\ UNCHANGED sampled
         ELSE /\ sampled' = Append(sampled, [equity |-> value[j].equity,
                                             time |-> value[j].time])
              /\ UNCHANGED ended
    /\ UNCHANGED <<hashes, hashed, memory, file, host, value, due, today, now, day,
                   outages, forgot>>
-----------------------------------------------------------------------------
LoseKey(c) ==
    /\ hashes /\ owner[c] # NoValue
    /\ Outage
    /\ owner' = [owner EXCEPT ![c] = NoValue]
    /\ forgot' = forgot \cup {c}
    /\ UNCHANGED <<hashes, hashed, memory, file, host, where, value, ended, sampled,
                   due, today, now, day>>

\* A restart reads the losses from the file; the keys of the dead expire.
Die(p) ==
    /\ Outage
    /\ memory' = [memory EXCEPT ![p] = [Nothing EXCEPT !["losses"] = file["losses"]]]
    /\ where' = [j \in Job |-> IF host[j] = p /\ where[j] \notin {"new", "checked", "done"}
                               THEN "failed" ELSE where[j]]
    /\ owner' = [c \in Cell |->
                   IF ~hashes /\ owner[c] # NoValue /\ host[owner[c]] = p THEN NoValue
                   ELSE owner[c]]
    /\ forgot' = IF \E j \in Sampler : host[j] = p /\ where[j] \in {"updated", "stored"}
                 THEN forgot \cup {"peaks"} ELSE forgot
    /\ UNCHANGED <<hashes, hashed, file, host, value, ended, sampled, due, today, now,
                   day>>

ExpireKey(c) ==
    /\ owner[c] # NoValue /\ where[owner[c]] = "failed"
    /\ owner' = [owner EXCEPT ![c] = NoValue]
    /\ UNCHANGED <<hashes, hashed, memory, file, host, where, value, ended, sampled,
                   due, today, now, day, outages, forgot>>

Clock ==
    /\ \/ now < MaxTime /\ now' = now + 1 /\ UNCHANGED day
       \/ day < MaxDays /\ day' = day + 1 /\ UNCHANGED now
    /\ UNCHANGED <<hashes, hashed, memory, file, owner, host, where, value, ended,
                   sampled, due, today, outages, forgot>>

RiskNext ==
    \/ \E s \in Check : StartRead(s) \/ ReadLosses(s) \/ EndRead(s)
    \/ \E j \in Writer : Lock(j) \/ LockRefused(j) \/ Update(j) \/ Store(j) \/ Release(j)
    \/ \E c \in Cell : LoseKey(c) \/ ExpireKey(c)
    \/ \E p \in Proc : Die(p)
    \/ Clock

RiskSpec == RiskInit /\ [][RiskNext]_riskVars
-----------------------------------------------------------------------------
Recorded == {l \in Loss : where[l] \in {"updated", "stored", "done"}}

\* Whichever processes recorded them, die and lose requests: a check that could
\* read sees every loss whose call had ended when it began, those of the day too
\* if no midnight passes, unless a write of the hash, a read under its lock or
\* a key was lost; and before an outage none that was not recorded.
LossesSeen ==
    [][\A s \in Check :
         where[s] = "reading" /\ where'[s] = "checked" /\ "losses" \notin forgot =>
           /\ {x[1] : x \in due[s]} \subseteq value'[s].total
           /\ day = today[s] =>
                {x[1] : x \in {y \in due[s] : y[2] = day}} \subseteq value'[s].daily
           /\ outages = 0 => value'[s].total \cup value'[s].daily \subseteq Recorded]_riskVars

Lately == SubSeq(sampled, IF Len(sampled) < MaxSamples THEN 1
                          ELSE Len(sampled) - MaxSamples + 2, Len(sampled))

\* Unless peaks are forgotten: an equity passes if and only if it has not fallen
\* by the limit of a window from any of the samples in it, as far as they are
\* among the last MaxSamples, whichever processes took them.
PeaksSeen ==
    [][\A s \in Sampler :
         where[s] = "locked" /\ where'[s] = "updated" /\ "peaks" \notin forgot' =>
           value'[s].blocked = Falling(Append(Lately, value'[s]), value'[s].equity)]_riskVars
=============================================================================
