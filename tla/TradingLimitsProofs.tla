------------------------- MODULE TradingLimitsProofs -------------------------
(***************************************************************************)
(* How far the limits of TradingLimits can be overrun and when a symbol    *)
(* can hold both sides, for any number of alerts, candidates, symbols and  *)
(* slots, any limits and any number of updates and lost tasks.             *)
(***************************************************************************)
EXTENDS TradingLimits, FiniteSetTheorems, FunctionTheorems, TLAPS

-----------------------------------------------------------------------------
(* Types, and which entries have a wish.                                   *)

HasWish(e) == stage[e] \in Underway \cup {"thread"}
WishInv == \A e \in Entry : HasWish(e) => wish[e] \in Position

\* The bounds are natural numbers.
LEMMA Bounds ==
  /\ Slots \in Nat /\ Slots > 0 /\ MaxDaily \in Nat /\ MaxDaily > 0
  /\ MaxSame \in Nat /\ MaxSame > 0 /\ MaxReloads \in Nat /\ MaxDetached \in Nat
BY LimitsAssumption DEF LimitsAssumption

\* The two sides of a symbol.
LEMMA OppositeFacts ==
  ASSUME NEW p \in Position
  PROVE  /\ Opposite(p) \in Position
         /\ Opposite(p)[1] = p[1]
         /\ Opposite(p) # p
         /\ Opposite(Opposite(p)) = p
         /\ \A q \in Position : q[1] = p[1] => q = p \/ q = Opposite(p)
BY DEF Position, Side, Opposite

\* Every variable keeps its type, and an entry underway has a wish.
LEMMA TypeStep ==
  ASSUME LimitsTypeOK, WishInv, [LimitsNext]_limitsVars
  PROVE  LimitsTypeOK' /\ WishInv'
<1> USE Bounds DEF LimitsTypeOK, WishInv, HasWish, Moves, Takes, Ends,
        Entry, Underway, Counted, Booking, Sending, Stage
<1>1. CASE UNCHANGED limitsVars
  BY <1>1 DEF limitsVars
<1>2. ASSUME NEW a \in Alert, TakeSlot(a)
      PROVE  LimitsTypeOK' /\ WishInv'
  <2>1. PICK g \in 0..reloads, p \in Position : Takes(a, p, g)
    BY <1>2 DEF TakeSlot
  <2>2. g \in 0..MaxReloads
    OBVIOUS
  <2> QED BY <1>2, <2>1, <2>2 DEF TakeSlot
<1>3. ASSUME NEW c \in Candidate, Dispatch(c)
      PROVE  LimitsTypeOK' /\ WishInv'
  <2>1. PICK p \in Position : Takes(c, p, 0)
    BY <1>3 DEF Dispatch
  <2> QED BY <1>3, <2>1 DEF Dispatch
<1>4. ASSUME NEW e \in Entry,
             \/ LockTicker(e) \/ Screen(e) \/ Filter(e) \/ Spread(e)
             \/ Approve(e) \/ Drop(e)
      PROVE  LimitsTypeOK' /\ WishInv'
  BY <1>4 DEF LockTicker, Screen, Filter, Spread, Approve, Drop
<1>5. ASSUME NEW e \in Entry, Resolve(e)
      PROVE  LimitsTypeOK' /\ WishInv'
  BY <1>5 DEF Resolve
<1>6. ASSUME NEW e \in Entry, Send(e) \/ Refuse(e)
      PROVE  LimitsTypeOK' /\ WishInv'
  BY <1>6 DEF Send, Refuse, Sends, Logged
<1>7. ASSUME NEW e \in Entry, Book(e)
      PROVE  LimitsTypeOK' /\ WishInv'
  <2>1. wish[e] \in Position /\ wish[e][1] \in Symbol
    BY <1>7 DEF Book, Position
  <2>2. open' \subseteq Position \X (Entry \cup {Earlier})
    BY <1>7, <2>1 DEF Book
  <2>3. stacked' \subseteq Symbol
    BY <1>7, <2>1 DEF Book, Marked
  <2> QED BY <1>7, <2>2, <2>3 DEF Book, Logged
<1>8. ASSUME NEW e \in Entry, Detach(e)
      PROVE  LimitsTypeOK' /\ WishInv'
  <2>1. wish[e] \in Position /\ wish[e][1] \in Symbol
    BY <1>8 DEF Detach, Position
  <2>2. loose' \subseteq Position \X Entry
    BY <1>8, <2>1 DEF Detach
  <2> QED BY <1>8, <2>1, <2>2 DEF Detach
<1>9. ASSUME NEW e \in Entry, ThreadSends(e)
      PROVE  LimitsTypeOK' /\ WishInv'
  <2>1. wish[e] \in Position
    BY <1>9 DEF ThreadSends
  <2>2. loose' \subseteq Position \X Entry
    BY <1>9, <2>1 DEF ThreadSends
  <2> QED BY <1>9, <2>2 DEF ThreadSends, Sends
<1>10. CASE StopTrading \/ ResumeTrading \/ Reload \/ Midnight
  <2>1. UNCHANGED <<stage, wish, ticket, open, loose, detached, stacked>>
    BY <1>10 DEF StopTrading, ResumeTrading, Reload, Midnight
  <2>2. /\ reloads' \in 0..MaxReloads
        /\ trades' \in 0..MaxDaily /\ opened' \in Nat /\ late' \in Nat
    BY <1>10 DEF StopTrading, ResumeTrading, Reload, Midnight
  <2>3. stopped' \in BOOLEAN
    BY <1>10, ZenonT(30) DEF StopTrading, ResumeTrading, Reload, Midnight
  <2> QED BY <2>1, <2>2, <2>3
<1>11. CASE MonitorCloses
  BY <1>11 DEF MonitorCloses, Logged
<1> HIDE DEF LimitsTypeOK, WishInv, HasWish, Moves, Takes, Ends,
        Entry, Underway, Counted, Booking, Sending, Stage
<1>12. CASE LimitsNext
  BY <1>2, <1>3, <1>4, <1>5, <1>6, <1>7, <1>8, <1>9, <1>10, <1>11, <1>12 DEF LimitsNext
<1> QED BY <1>1, <1>12

\* Initially no entry is underway.
LEMMA TypeInit == LimitsInit => LimitsTypeOK /\ WishInv
<1> SUFFICES ASSUME LimitsInit PROVE LimitsTypeOK /\ WishInv
  OBVIOUS
<1>1. open \in SUBSET (Position \X {Earlier})
  BY DEF LimitsInit
<1>2. open \subseteq Position \X (Entry \cup {Earlier})
  BY <1>1
<1>3. WishInv
  BY DEF LimitsInit, WishInv, HasWish, Underway, Counted, Booking, Sending
<1>4. /\ stage \in [Entry -> Stage]
      /\ wish \in [Entry -> Position \cup {NoWish}]
      /\ ticket \in [Entry -> 0..MaxReloads]
  BY Bounds DEF LimitsInit, Stage
<1>5. /\ loose \subseteq Position \X Entry /\ stacked \subseteq Symbol
      /\ reloads \in 0..MaxReloads /\ detached \in 0..MaxDetached
      /\ trades \in 0..MaxDaily /\ opened \in Nat /\ late \in Nat
  BY Bounds DEF LimitsInit
<1>6. stopped \in BOOLEAN
  BY Zenon DEF LimitsInit
<1> QED BY <1>2, <1>3, <1>4, <1>5, <1>6 DEF LimitsTypeOK

\* Every reachable state is well typed.
THEOREM LimitsTypeCorrect == LimitsSpec => []LimitsTypeOK
<1>1. LimitsTypeOK /\ WishInv /\ [LimitsNext]_limitsVars => LimitsTypeOK' /\ WishInv'
  BY TypeStep
<1> QED BY TypeInit, <1>1, PTL DEF LimitsSpec

-----------------------------------------------------------------------------
(* The two sides of a symbol.  The lock keeps entries of one symbol apart  *)
(* from the reverse close to the booking; of two rows of one direction the *)
(* reverse close takes one, and an order without a task is outside the     *)
(* lock: both are recorded in stacked.                                     *)

Decided == {"resolved"} \cup Sending

LockExclusion ==
    \A x, y \in Entry : Locks(x) /\ Locks(y) /\ x # y => wish[x][1] # wish[y][1]
LooseAreStacked == \A r \in loose : r[1][1] \in stacked
ThreadsAreStacked == \A e \in Entry : stage[e] = "thread" => wish[e][1] \in stacked
Resolved(e) == wish[e][1] \in stacked \/ \A r \in Held : r[1] # Opposite(wish[e])
DecidedAreResolved == \A e \in Entry : stage[e] \in Decided => Resolved(e)
OneRowUnlessStacked ==
    \A r, q \in open : r # q /\ r[1] = q[1] => r[1][1] \in stacked

SideInv ==
    /\ LockExclusion /\ LooseAreStacked /\ ThreadsAreStacked
    /\ DecidedAreResolved /\ OneRowUnlessStacked /\ OpposedOnlyIfStacked

\* A step that adds no order, marks no symbol and detaches no task.
LEMMA SideQuiet ==
  ASSUME SideInv, NEW e \in Entry,
         open' \subseteq open, loose' \subseteq loose, stacked' = stacked,
         \A x \in Entry \ {e} : stage'[x] = stage[x] /\ wish'[x] = wish[x],
         Locks(e)' => /\ wish'[e] = wish[e]
                      /\ \A x \in Entry \ {e} : Locks(x) => wish[x][1] # wish[e][1],
         stage'[e] \in Decided => Resolved(e)',
         stage'[e] # "thread"
  PROVE  SideInv'
<1>1. Held' \subseteq Held
  BY DEF Held
<1>2. LockExclusion'
  BY DEF SideInv, LockExclusion, Locks
<1>3. LooseAreStacked' /\ ThreadsAreStacked' /\ OneRowUnlessStacked'
  BY DEF SideInv, LooseAreStacked, ThreadsAreStacked, OneRowUnlessStacked
<1>4. DecidedAreResolved'
  BY <1>1 DEF SideInv, DecidedAreResolved, Resolved, Opposite
<1>5. OpposedOnlyIfStacked'
  BY <1>1 DEF SideInv, OpposedOnlyIfStacked, Opposite
<1> QED BY <1>2, <1>3, <1>4, <1>5 DEF SideInv

\* An order that appears on a symbol that is marked, or that no other entry
\* has the lock of, while the entry it comes from has resolved the other side.
LEMMA SideOrder ==
  ASSUME LimitsTypeOK, WishInv, SideInv, NEW e \in Entry, wish[e] \in Position,
         Held' = Held \cup {<<wish[e], e>>},
         \/ open' = open \cup {<<wish[e], e>>} /\ loose' = loose
         \/ loose' = loose \cup {<<wish[e], e>>} /\ open' = open
             /\ wish[e][1] \in stacked',
         stacked \subseteq stacked',
         (\E r \in Held : r[1] = wish[e]) => wish[e][1] \in stacked',
         wish[e][1] \in stacked' \/ (Locks(e) /\ stage[e] \in Decided),
         Ends(e)
  PROVE  SideInv'
<1> DEFINE row == <<wish[e], e>>
<1>1. /\ stage'[e] = "done"
      /\ \A x \in Entry \ {e} : stage'[x] = stage[x] /\ wish'[x] = wish[x]
  BY DEF Ends, LimitsTypeOK
<1>2. LockExclusion'
  BY <1>1 DEF SideInv, LockExclusion, Locks, Booking, Sending
<1>3. LooseAreStacked' /\ ThreadsAreStacked'
  BY <1>1 DEF SideInv, LooseAreStacked, ThreadsAreStacked
<1>4. OneRowUnlessStacked'
  BY DEF SideInv, OneRowUnlessStacked, Held
<1>5. DecidedAreResolved'
  <2> SUFFICES ASSUME NEW x \in Entry, stage'[x] \in Decided,
                      wish'[x][1] \notin stacked',
                      NEW r \in Held', r[1] = Opposite(wish'[x])
               PROVE  FALSE
    BY DEF DecidedAreResolved, Resolved, Opposite
  <2>1. x # e /\ stage'[x] = stage[x] /\ wish'[x] = wish[x]
    BY <1>1 DEF Decided, Sending
  <2>2. wish[x] \in Position /\ Locks(x)
    BY <2>1 DEF WishInv, HasWish, Underway, Counted, Booking, Decided, Locks
  <2>3. r = row
    BY <2>1 DEF SideInv, DecidedAreResolved, Resolved
  <2>4. wish[e][1] = wish[x][1]
    BY <2>1, <2>2, <2>3, OppositeFacts
  <2> QED BY <2>1, <2>2, <2>4 DEF SideInv, LockExclusion
<1>6. OpposedOnlyIfStacked'
  <2> SUFFICES ASSUME NEW r \in Held', NEW q \in Held', q[1] = Opposite(r[1]),
                      r[1][1] \notin stacked'
               PROVE  FALSE
    BY DEF OpposedOnlyIfStacked, Opposite
  <2>1. Held \subseteq Position \X (Entry \cup {Earlier})
    BY DEF Held, LimitsTypeOK
  <2>2. /\ r[1] \in Position /\ q[1] \in Position
        /\ r[1] = Opposite(q[1]) /\ q[1][1] = r[1][1] /\ q[1] # r[1]
    BY <2>1, OppositeFacts
  <2>3. r = row \/ q = row
    BY DEF SideInv, OpposedOnlyIfStacked
  <2>4. row[1] = wish[e] /\ Held' = Held \cup {row} /\ r # q
    BY <2>2
  <2>5. wish[e][1] \notin stacked /\ wish[e][1] \notin stacked'
    BY <2>2, <2>3, <2>4
  <2>6. Resolved(e)
    BY <2>5 DEF SideInv, DecidedAreResolved
  <2>7. CASE r = row
    BY <2>2, <2>4, <2>5, <2>6, <2>7 DEF Resolved
  <2>8. CASE q = row
    BY <2>2, <2>4, <2>5, <2>6, <2>8 DEF Resolved
  <2> QED BY <2>3, <2>7, <2>8
<1> QED BY <1>2, <1>3, <1>4, <1>5, <1>6 DEF SideInv

\* Every step keeps the two sides apart.
LEMMA SideStep ==
  ASSUME LimitsTypeOK, WishInv, SideInv, [LimitsNext]_limitsVars
  PROVE  SideInv'
<1>1. CASE UNCHANGED limitsVars
  BY <1>1 DEF limitsVars, SideInv, LockExclusion, Locks, LooseAreStacked,
     ThreadsAreStacked, DecidedAreResolved, Resolved, Held, OneRowUnlessStacked,
     OpposedOnlyIfStacked
<1>2. ASSUME NEW e \in Entry, NEW p \in Position, NEW g \in 0..MaxReloads,
             Takes(e, p, g), UNCHANGED <<open, loose, stacked>>
      PROVE  SideInv'
  <2>1. /\ stage'[e] = "slot" /\ wish'[e] = p
        /\ \A x \in Entry \ {e} : stage'[x] = stage[x] /\ wish'[x] = wish[x]
    BY <1>2 DEF Takes, LimitsTypeOK
  <2>2. ~Locks(e)' /\ stage'[e] \notin Decided /\ stage'[e] # "thread"
    BY <2>1 DEF Locks, Booking, Sending, Decided
  <2> QED BY <1>2, <2>1, <2>2, SideQuiet
<1>3. ASSUME NEW e \in Entry, NEW s \in Stage, Moves(e, s),
             open' \subseteq open, loose' \subseteq loose, stacked' = stacked,
             s # "thread",
             s \in Decided => Locks(e) /\ Resolved(e)',
             Locks(e)' => Locks(e) \/ LockFree(e)
      PROVE  SideInv'
  <2>1. /\ stage'[e] = s /\ wish' = wish
        /\ \A x \in Entry \ {e} : stage'[x] = stage[x]
    BY <1>3 DEF Moves, LimitsTypeOK
  <2>2. ASSUME Locks(e)', NEW x \in Entry \ {e}, Locks(x)
        PROVE  wish[x][1] # wish[e][1]
    BY <1>3, <2>2 DEF SideInv, LockExclusion, LockFree
  <2> QED BY <1>3, <2>1, <2>2, SideQuiet
<1>4. ASSUME NEW e \in Entry, Ends(e), UNCHANGED <<open, loose, stacked>>
      PROVE  SideInv'
  <2>1. /\ stage'[e] = "done"
        /\ \A x \in Entry \ {e} : stage'[x] = stage[x] /\ wish'[x] = wish[x]
    BY <1>4 DEF Ends, LimitsTypeOK
  <2>2. ~Locks(e)' /\ stage'[e] \notin Decided
    BY <2>1 DEF Locks, Booking, Sending, Decided
  <2> QED BY <1>4, <2>1, <2>2, SideQuiet
<1>5. ASSUME NEW a \in Alert, TakeSlot(a) PROVE SideInv'
  <2>1. PICK g \in 0..reloads, p \in Position : Takes(a, p, g)
    BY <1>5 DEF TakeSlot
  <2>2. g \in 0..MaxReloads /\ a \in Entry
    BY Bounds DEF LimitsTypeOK, Entry
  <2> QED BY <1>2, <1>5, <2>1, <2>2 DEF TakeSlot
<1>6. ASSUME NEW c \in Candidate, Dispatch(c) PROVE SideInv'
  <2>1. PICK p \in Position : Takes(c, p, 0)
    BY <1>6 DEF Dispatch
  <2>2. 0 \in 0..MaxReloads /\ c \in Entry
    BY Bounds DEF Entry
  <2> QED BY <1>2, <1>6, <2>1, <2>2 DEF Dispatch
<1>7. ASSUME NEW e \in Entry, LockTicker(e) \/ Screen(e) \/ Filter(e)
      PROVE  SideInv'
  <2>1. PICK s \in {"locked", "ready", "screened", "filtered"} :
          /\ Moves(e, s) /\ UNCHANGED <<open, loose, stacked>>
          /\ Locks(e)' => Locks(e) \/ LockFree(e)
    <3>1. CASE LockTicker(e)
      BY <3>1 DEF LockTicker
    <3>2. CASE Screen(e)
      BY <3>2 DEF Screen, Locks, Moves, LimitsTypeOK, Booking, Sending
    <3>3. CASE Filter(e)
      BY <3>3 DEF Filter, Locks, Moves, LimitsTypeOK, Booking, Sending, Entry
    <3> QED BY <1>7, <3>1, <3>2, <3>3
  <2>2. s \in Stage /\ s \notin Decided /\ s # "thread"
    BY DEF Stage, Decided, Sending
  <2> QED BY <1>3, <2>1, <2>2
<1>8. ASSUME NEW e \in Entry, Resolve(e) PROVE SideInv'
  <2>1. /\ Locks(e) /\ wish[e] \in Position /\ "resolved" \in Stage
        /\ Moves(e, "resolved") /\ wish' = wish /\ stacked' = stacked
    BY <1>8 DEF Resolve, Locks, Booking, WishInv, HasWish, Underway, Counted,
       Stage, Moves
  <2>2. open' \subseteq open /\ loose' \subseteq loose
    BY <1>8 DEF Resolve
  <2>3. Resolved(e)'
    <3> SUFFICES ASSUME wish[e][1] \notin stacked, NEW r \in Held',
                        r[1] = Opposite(wish[e])
                 PROVE  FALSE
      BY <2>1 DEF Resolved, Opposite
    <3>1. r[1][1] \notin stacked
      BY <2>1, OppositeFacts
    <3>2. r \in open' /\ r \in Opposing(e, open)
      BY <2>2, <3>1 DEF Held, SideInv, LooseAreStacked, Opposing
    <3>3. PICK q \in Opposing(e, open) : open' = open \ {q}
      BY <1>8, <3>2 DEF Resolve
    <3> QED BY <3>1, <3>2, <3>3 DEF Opposing, SideInv, OneRowUnlessStacked
  <2> QED BY <1>3, <2>1, <2>2, <2>3
<1>9. ASSUME NEW e \in Entry, Spread(e) \/ Approve(e) \/ Send(e)
      PROVE  SideInv'
  <2>1. PICK s \in Sending : Moves(e, s)
    BY <1>9 DEF Spread, Approve, Send, Sending
  <2>2. stage[e] \in Decided /\ Locks(e) /\ UNCHANGED <<open, loose, stacked>>
    BY <1>9 DEF Spread, Approve, Send, Sending, Decided, Locks, Booking
  <2>3. Resolved(e)'
    BY <2>1, <2>2 DEF SideInv, DecidedAreResolved, Resolved, Moves, Held
  <2> QED BY <1>3, <2>1, <2>2, <2>3 DEF Stage, Sending
<1>10. ASSUME NEW e \in Entry, Refuse(e) \/ Drop(e) PROVE SideInv'
  BY <1>4, <1>10 DEF Refuse, Drop
<1>11. ASSUME NEW e \in Entry, Book(e) PROVE SideInv'
  <2>1. wish[e] \in Position /\ Locks(e) /\ stage[e] \in Decided
    BY <1>11 DEF Book, WishInv, HasWish, Underway, Counted, Booking, Sending,
       Locks, Decided
  <2>2. /\ stacked \subseteq stacked'
        /\ (\E r \in Held : r[1] = wish[e]) => wish[e][1] \in stacked'
    BY <1>11 DEF Book, Marked
  <2>3. /\ open' = open \cup {<<wish[e], e>>} /\ loose' = loose
        /\ Held' = Held \cup {<<wish[e], e>>} /\ Ends(e)
    BY <1>11 DEF Book, Held
  <2> QED BY <2>1, <2>2, <2>3, SideOrder
<1>12. ASSUME NEW e \in Entry, Detach(e) PROVE SideInv'
  <2>1. stacked' = stacked \cup {wish[e][1]} /\ open' = open
    BY <1>12 DEF Detach
  <2>2. CASE stage[e] = "sent"
    <3>1. wish[e] \in Position /\ Ends(e) /\ loose' = loose \cup {<<wish[e], e>>}
      BY <1>12, <2>2 DEF Detach, WishInv, HasWish, Underway, Counted, Booking, Sending
    <3>2. Held' = Held \cup {<<wish[e], e>>}
      BY <2>1, <3>1 DEF Held
    <3> QED BY <2>1, <3>1, <3>2, SideOrder
  <2>3. CASE stage[e] = "approved"
    <3>1. /\ stage'[e] = "thread" /\ wish' = wish /\ loose' = loose
          /\ \A x \in Entry \ {e} : stage'[x] = stage[x]
      BY <1>12, <2>3 DEF Detach, Moves, LimitsTypeOK
    <3>2. LockExclusion' /\ DecidedAreResolved'
      BY <2>1, <3>1 DEF SideInv, LockExclusion, Locks, Booking, Sending, Decided,
         DecidedAreResolved, Resolved, Held
    <3>3. LooseAreStacked' /\ ThreadsAreStacked' /\ OneRowUnlessStacked'
      BY <2>1, <3>1 DEF SideInv, LooseAreStacked, ThreadsAreStacked, OneRowUnlessStacked
    <3>4. OpposedOnlyIfStacked'
      BY <2>1, <3>1 DEF SideInv, OpposedOnlyIfStacked, Held
    <3> QED BY <3>2, <3>3, <3>4 DEF SideInv
  <2> QED BY <1>12, <2>2, <2>3 DEF Detach
<1>13. ASSUME NEW e \in Entry, ThreadSends(e) PROVE SideInv'
  <2>1. wish[e] \in Position /\ wish[e][1] \in stacked /\ stacked' = stacked
    BY <1>13 DEF ThreadSends, WishInv, HasWish, SideInv, ThreadsAreStacked
  <2>2. /\ open' = open /\ loose' = loose \cup {<<wish[e], e>>}
        /\ Held' = Held \cup {<<wish[e], e>>} /\ Ends(e)
    BY <1>13 DEF ThreadSends, Held
  <2> QED BY <2>1, <2>2, SideOrder
<1>14. CASE StopTrading \/ ResumeTrading \/ Reload \/ Midnight \/ MonitorCloses
  <2>1. UNCHANGED <<stage, wish, loose, stacked>> /\ open' \subseteq open
    BY <1>14 DEF StopTrading, ResumeTrading, Reload, Midnight, MonitorCloses
  <2> QED BY <2>1 DEF SideInv, LockExclusion, Locks, LooseAreStacked,
     ThreadsAreStacked, DecidedAreResolved, Resolved, Held, OneRowUnlessStacked,
     OpposedOnlyIfStacked
<1>15. CASE LimitsNext
  BY <1>5, <1>6, <1>7, <1>8, <1>9, <1>10, <1>11, <1>12, <1>13, <1>14, <1>15
     DEF LimitsNext
<1> QED BY <1>1, <1>15

\* Rows of before come from one origin, so no two of them are on one side.
LEMMA SideInit == LimitsInit => SideInv
<1> SUFFICES ASSUME LimitsInit PROVE SideInv
  OBVIOUS
<1>1. /\ stage = [e \in Entry |-> "new"] /\ loose = {} /\ Held = open
      /\ open \in SUBSET (Position \X {Earlier})
      /\ \A r, q \in open : q[1] # Opposite(r[1])
  BY DEF LimitsInit, Held
<1>2. \A e \in Entry : ~Locks(e) /\ stage[e] \notin Decided /\ stage[e] # "thread"
  BY <1>1 DEF Locks, Booking, Sending, Decided
<1>3. \A r, q \in open : r[1] = q[1] => r = q
  BY <1>1
<1> QED BY <1>1, <1>2, <1>3 DEF SideInv, LockExclusion, LooseAreStacked,
    ThreadsAreStacked, DecidedAreResolved, OneRowUnlessStacked, OpposedOnlyIfStacked

\* The reverse close and the lock of the symbol keep it on one side, unless
\* two orders of one direction met on it or an order lost its task.
THEOREM SidesStayApart == LimitsSpec => []OpposedOnlyIfStacked
<1> DEFINE Inv == LimitsTypeOK /\ WishInv /\ SideInv
<1>1. LimitsInit => Inv
  BY TypeInit, SideInit
<1>2. Inv /\ [LimitsNext]_limitsVars => Inv'
  BY TypeStep, SideStep
<1>3. Inv => OpposedOnlyIfStacked
  BY DEF SideInv
<1> QED BY <1>1, <1>2, <1>3, PTL DEF LimitsSpec

-----------------------------------------------------------------------------
(* Counting: how many entries can be underway at once.                     *)

\* Elements of a larger set that are not in the smaller one make room.
LEMMA Room ==
  ASSUME NEW B, IsFiniteSet(B), NEW A \in SUBSET B
  PROVE  /\ IsFiniteSet(A) /\ Cardinality(A) \in Nat /\ Cardinality(B) \in Nat
         /\ Cardinality(A) <= Cardinality(B)
         /\ \A e \in B \ A : Cardinality(A) + 1 <= Cardinality(B)
<1>1. IsFiniteSet(A) /\ Cardinality(A) <= Cardinality(B)
  BY FS_Subset
<1>2. Cardinality(A) \in Nat /\ Cardinality(B) \in Nat
  BY <1>1, FS_CardinalityType
<1>3. ASSUME NEW e \in B \ A PROVE Cardinality(A) + 1 <= Cardinality(B)
  BY <1>1, <1>2, FS_Subset
<1> QED BY <1>1, <1>2, <1>3

\* One more element makes a set larger by one at most.
LEMMA OneMore ==
  ASSUME NEW S, IsFiniteSet(S), NEW x
  PROVE  /\ IsFiniteSet(S \cup {x}) /\ Cardinality(S \cup {x}) \in Nat
         /\ Cardinality(S \cup {x}) <= Cardinality(S) + 1
<1>1. IsFiniteSet(S \cup {x}) /\ Cardinality(S) \in Nat
  BY FS_AddElement, FS_CardinalityType
<1>2. Cardinality(S \cup {x}) = IF x \in S THEN Cardinality(S) ELSE Cardinality(S) + 1
  BY FS_AddElement
<1> QED BY <1>1, <1>2, FS_CardinalityType

\* A set of at most n elements can be numbered up to n.
LEMMA Numbered ==
  ASSUME NEW S, IsFiniteSet(S), NEW n \in Nat, Cardinality(S) <= n
  PROVE  \E f \in [S -> 1..n] : \A a, b \in S : f[a] = f[b] => a = b
<1> DEFINE c == Cardinality(S)
<1>1. PICK h : h \in Bijection(1..c, S)
  BY FS_CardinalityType, Fun_ExistsBij
<1>2. PICK k : k \in Bijection(S, 1..c)
  BY <1>1, Fun_BijInverse
<1>3. k \in [S -> 1..c] /\ \A a, b \in S : k[a] = k[b] => a = b
  BY <1>2 DEF Bijection, Injection, IsInjective
<1>4. c \in Nat /\ 1..c \subseteq 1..n
  BY FS_CardinalityType
<1> QED BY <1>3, <1>4

\* At most n elements with each of m + 1 labels are at most n * (m + 1).
LEMMA Labelled ==
  ASSUME NEW S, IsFiniteSet(S), NEW n \in Nat, NEW m \in Nat,
         NEW t, \A a \in S : t[a] \in 0..m,
         \A g \in 0..m : Cardinality({a \in S : t[a] = g}) <= n
  PROVE  Cardinality(S) <= n * (m + 1)
<1> DEFINE P(g) == {a \in S : t[a] = g}
           Inj(g, f) == \A a, b \in P(g) : f[a] = f[b] => a = b
           F(g) == CHOOSE f \in [P(g) -> 1..n] : Inj(g, f)
           h == [a \in S |-> <<F(t[a])[a], t[a]>>]
           T == (1..n) \X (0..m)
<1>1. ASSUME NEW g \in 0..m
      PROVE  F(g) \in [P(g) -> 1..n] /\ Inj(g, F(g))
  <2>1. IsFiniteSet(P(g)) /\ Cardinality(P(g)) <= n
    BY FS_Subset
  <2>2. \E f \in [P(g) -> 1..n] : Inj(g, f)
    BY <2>1, Numbered
  <2> QED BY <2>2
<1> HIDE DEF F
<1>2. h \in [S -> T]
  <2> SUFFICES ASSUME NEW a \in S PROVE F(t[a])[a] \in 1..n
    OBVIOUS
  <2> QED BY <1>1
<1>3. ASSUME NEW a \in S, NEW b \in S, h[a] = h[b] PROVE a = b
  <2>1. t[a] = t[b] /\ F(t[a])[a] = F(t[b])[b]
    BY <1>3
  <2>2. a \in P(t[a]) /\ b \in P(t[a]) /\ t[a] \in 0..m
    BY <2>1
  <2> QED BY <1>1, <2>1, <2>2
<1>4. h \in Injection(S, T)
  BY <1>2, <1>3, Fun_IsInj
<1>5. /\ IsFiniteSet(1..n) /\ Cardinality(1..n) = n
      /\ IsFiniteSet(0..m) /\ Cardinality(0..m) = m + 1
  BY FS_Interval
<1>6. IsFiniteSet(T) /\ Cardinality(T) = n * (m + 1)
  <2>1. IsFiniteSet(T) /\ Cardinality(T) = Cardinality(1..n) * Cardinality(0..m)
    BY <1>5, FS_Product, Zenon
  <2> QED BY <1>5, <2>1
<1> QED BY <1>4, <1>6, FS_Injection

-----------------------------------------------------------------------------
(* Slots and the dispatch lock bound the entries underway.                 *)

OfTicket(g) == {a \in Alert : stage[a] \in Underway /\ ticket[a] = g}
SlotsInv ==
    /\ \A a \in Alert : stage[a] \in Underway => ticket[a] \in 0..reloads
    /\ \A g \in 0..MaxReloads : Cardinality(OfTicket(g)) <= Slots
    /\ \A c, d \in Candidate :
          stage[c] \in Underway /\ stage[d] \in Underway => c = d

\* Every set of entries is finite, and so are the sets of entries at stages.
LEMMA EntriesFinite ==
  /\ IsFiniteSet(Entry) /\ IsFiniteSet(Alert) /\ IsFiniteSet(Candidate)
  /\ \A S : IsFiniteSet(In(S)) /\ Cardinality(In(S)) \in Nat
  /\ \A S : IsFiniteSet(In(S)') /\ Cardinality(In(S)') \in Nat
<1>1. IsFiniteSet(Entry)
  BY LimitsAssumption DEF LimitsAssumption
<1>2. IsFiniteSet(Alert) /\ IsFiniteSet(Candidate)
  BY <1>1, FS_Subset DEF Entry
<1>3. ASSUME NEW S PROVE IsFiniteSet(In(S)) /\ Cardinality(In(S)) \in Nat
  BY <1>1, Room DEF In
<1>4. ASSUME NEW S PROVE IsFiniteSet(In(S)') /\ Cardinality(In(S)') \in Nat
  BY <1>1, Room DEF In
<1> QED BY <1>1, <1>2, <1>3, <1>4

WidthBounds == Width \in Nat /\ Width > 0 /\ Cardinality(In(Underway)) <= Width

\* The entries underway are at most Width.
LEMMA UnderwayBound == LimitsTypeOK /\ SlotsInv => WidthBounds
<1> SUFFICES ASSUME LimitsTypeOK, SlotsInv PROVE WidthBounds
  OBVIOUS
<1> DEFINE A == {a \in Alert : stage[a] \in Underway}
           C == {c \in Candidate : stage[c] \in Underway}
<1>1. reloads \in Nat /\ 0..reloads \subseteq 0..MaxReloads
  BY Bounds DEF LimitsTypeOK
<1>2. IsFiniteSet(A) /\ Cardinality(A) \in Nat /\ IsFiniteSet(C) /\ Cardinality(C) \in Nat
  BY EntriesFinite, Room
<1>3. Cardinality(A) <= Slots * (reloads + 1)
  <2>1. ASSUME NEW g \in 0..reloads
        PROVE  Cardinality({a \in A : ticket[a] = g}) <= Slots
    <3>1. {a \in A : ticket[a] = g} = OfTicket(g)
      BY DEF OfTicket
    <3> QED BY <1>1, <3>1 DEF SlotsInv
  <2>2. \A a \in A : ticket[a] \in 0..reloads
    BY DEF SlotsInv
  <2> QED BY <1>1, <1>2, <2>1, <2>2, Bounds, Labelled
<1>4. Cardinality(C) <= 1
  <2>1. CASE C = {}
    BY <2>1, FS_EmptySet
  <2>2. CASE C # {}
    <3>1. PICK c : C = {c}
      BY <2>2 DEF SlotsInv
    <3> QED BY <3>1, FS_Singleton
  <2> QED BY <2>1, <2>2
<1>5. In(Underway) = A \cup C /\ A \cap C = {}
  BY LimitsAssumption DEF LimitsAssumption, In, Entry
<1>6. Cardinality(In(Underway)) = Cardinality(A) + Cardinality(C)
  <2>1. Cardinality(A \cap C) = 0
    BY <1>5, FS_EmptySet
  <2>2. Cardinality(A \cup C) = Cardinality(A) + Cardinality(C) - Cardinality(A \cap C)
    BY <1>2, FS_Union
  <2> HIDE DEF A, C
  <2> QED BY <1>2, <1>5, <2>1, <2>2
<1>7. Slots * (reloads + 1) \in Nat
  BY <1>1, Bounds
<1> QED BY <1>2, <1>3, <1>4, <1>6, <1>7 DEF Width, WidthBounds

\* A step that takes no slot keeps the bound of the slots.
LEMMA SlotsQuiet ==
  ASSUME SlotsInv, LimitsTypeOK, reloads' \in Nat, reloads <= reloads',
         \A x \in Entry : stage'[x] \in Underway =>
             stage[x] \in Underway /\ ticket'[x] = ticket[x]
  PROVE  SlotsInv'
<1>1. ASSUME NEW g \in 0..MaxReloads PROVE Cardinality(OfTicket(g)') <= Slots
  <2>1. OfTicket(g)' \in SUBSET OfTicket(g) /\ OfTicket(g) \in SUBSET Alert
    BY DEF OfTicket, Entry
  <2>2. IsFiniteSet(OfTicket(g))
    BY <2>1, EntriesFinite, Room
  <2> QED BY <2>1, <2>2, Room, Bounds DEF SlotsInv
<1>2. \A a \in Alert : stage'[a] \in Underway => ticket'[a] \in 0..reloads'
  BY DEF SlotsInv, LimitsTypeOK, Entry
<1> QED BY <1>1, <1>2 DEF SlotsInv, Entry

\* Every step keeps the bound of the slots.
LEMMA SlotsStep ==
  ASSUME LimitsTypeOK, SlotsInv, [LimitsNext]_limitsVars
  PROVE  SlotsInv'
<1>1. CASE UNCHANGED limitsVars
  BY <1>1 DEF limitsVars, SlotsInv, OfTicket
<1>2. ASSUME NEW a \in Alert, TakeSlot(a) PROVE SlotsInv'
  <2>1. PICK g \in 0..reloads, p \in Position : SlotFree(g) /\ Takes(a, p, g)
    BY <1>2 DEF TakeSlot
  <2>2. /\ stage[a] = "new" /\ reloads' = reloads
        /\ stage'[a] = "slot" /\ ticket'[a] = g /\ a \in Entry /\ a \notin Candidate
        /\ \A x \in Entry \ {a} : stage'[x] = stage[x] /\ ticket'[x] = ticket[x]
    BY <1>2, <2>1, LimitsAssumption DEF LimitsAssumption, TakeSlot, Takes, LimitsTypeOK, Entry
  <2>3. stage[a] \notin Underway
    BY <2>2 DEF Underway, Counted, Booking, Sending
  <2>4. ASSUME NEW h \in 0..MaxReloads PROVE Cardinality(OfTicket(h)') <= Slots
    <3>1. OfTicket(h) \in SUBSET Alert
      BY DEF OfTicket
    <3>2. IsFiniteSet(OfTicket(h)) /\ Cardinality(OfTicket(h)) \in Nat
      BY <3>1, EntriesFinite, Room
    <3>3. CASE h = g
      <4>1. OfTicket(h)' \in SUBSET (OfTicket(h) \cup {a})
        BY <2>2 DEF OfTicket, Entry
      <4>2. /\ IsFiniteSet(OfTicket(h) \cup {a})
            /\ Cardinality(OfTicket(h) \cup {a}) <= Cardinality(OfTicket(h)) + 1
        BY <3>2, OneMore
      <4>3. Cardinality(OfTicket(h)) < Slots
        BY <2>1, <3>3 DEF SlotFree, OfTicket
      <4>4. /\ Cardinality(OfTicket(h)') <= Cardinality(OfTicket(h) \cup {a})
            /\ Cardinality(OfTicket(h)') \in Nat /\ Cardinality(OfTicket(h) \cup {a}) \in Nat
        BY <4>1, <4>2, Room
      <4> QED BY <3>2, <4>2, <4>3, <4>4, Bounds
    <3>4. CASE h # g
      <4>1. OfTicket(h)' = OfTicket(h)
        BY <2>2, <2>3, <3>4 DEF OfTicket, Entry
      <4> QED BY <4>1 DEF SlotsInv
    <3> QED BY <3>3, <3>4
  <2>5. \A x \in Alert : stage'[x] \in Underway => ticket'[x] \in 0..reloads'
    BY <2>2 DEF SlotsInv, Entry
  <2>6. \A c, d \in Candidate : stage'[c] \in Underway /\ stage'[d] \in Underway => c = d
    BY <2>2 DEF SlotsInv, Entry
  <2> QED BY <2>4, <2>5, <2>6 DEF SlotsInv
<1>3. ASSUME NEW c \in Candidate, Dispatch(c) PROVE SlotsInv'
  <2>1. PICK p \in Position : Takes(c, p, 0)
    BY <1>3 DEF Dispatch
  <2>2. /\ reloads' = reloads /\ c \in Entry /\ c \notin Alert
        /\ \A x \in Entry \ {c} : stage'[x] = stage[x] /\ ticket'[x] = ticket[x]
    BY <1>3, <2>1, LimitsAssumption DEF LimitsAssumption, Dispatch, Takes, LimitsTypeOK, Entry
  <2>3. \A g : OfTicket(g)' = OfTicket(g)
    BY <2>2 DEF OfTicket, Entry
  <2>4. \A x \in Candidate : stage[x] \notin Underway
    BY <1>3 DEF Dispatch, In, Entry
  <2> QED BY <2>2, <2>3, <2>4 DEF SlotsInv, Entry
<1>4. ASSUME NEW e \in Entry, NEW s, Moves(e, s), stage[e] \in Underway, reloads' = reloads
      PROVE  SlotsInv'
  <2>1. \A x \in Entry : stage'[x] \in Underway =>
             stage[x] \in Underway /\ ticket'[x] = ticket[x]
    BY <1>4 DEF Moves, LimitsTypeOK
  <2>2. reloads' \in Nat /\ reloads <= reloads'
    BY <1>4, Bounds DEF LimitsTypeOK
  <2> QED BY <2>1, <2>2, SlotsQuiet
<1>5. ASSUME NEW e \in Entry, Ends(e), reloads' = reloads
      PROVE  SlotsInv'
  <2>1. \A x \in Entry : stage'[x] \in Underway =>
             stage[x] \in Underway /\ ticket'[x] = ticket[x]
    BY <1>5 DEF Ends, LimitsTypeOK, Underway, Counted, Booking, Sending
  <2>2. reloads' \in Nat /\ reloads <= reloads'
    BY <1>5, Bounds DEF LimitsTypeOK
  <2> QED BY <2>1, <2>2, SlotsQuiet
<1>6. ASSUME NEW e \in Entry, \/ LockTicker(e) \/ Screen(e) \/ Filter(e) \/ Resolve(e)
                              \/ Spread(e) \/ Approve(e) \/ Send(e)
      PROVE  SlotsInv'
  <2>1. stage[e] \in Underway /\ reloads' = reloads
    BY <1>6 DEF LockTicker, Screen, Filter, Resolve, Spread, Approve, Send,
       Underway, Counted, Booking, Sending
  <2>2. \E s : Moves(e, s)
    BY <1>6 DEF LockTicker, Screen, Filter, Resolve, Spread, Approve, Send
  <2> QED BY <1>4, <2>1, <2>2
<1>7. ASSUME NEW e \in Entry, Refuse(e) \/ Book(e) \/ Drop(e) \/ ThreadSends(e)
      PROVE  SlotsInv'
  BY <1>5, <1>7 DEF Refuse, Book, Drop, ThreadSends
<1>8. ASSUME NEW e \in Entry, Detach(e) PROVE SlotsInv'
  <2>1. CASE stage[e] = "approved" /\ Moves(e, "thread")
    BY <1>4, <1>8, <2>1 DEF Detach, Underway, Counted, Booking, Sending
  <2>2. CASE Ends(e)
    BY <1>5, <1>8, <2>2 DEF Detach
  <2> QED BY <1>8, <2>1, <2>2 DEF Detach
<1>9. CASE StopTrading \/ ResumeTrading \/ Reload \/ MonitorCloses \/ Midnight
  <2>1. UNCHANGED <<stage, ticket>>
    BY <1>9 DEF StopTrading, ResumeTrading, Reload, MonitorCloses, Midnight
  <2>2. reloads' \in Nat /\ reloads <= reloads'
    BY <1>9, Bounds DEF StopTrading, ResumeTrading, Reload, MonitorCloses, Midnight,
       LimitsTypeOK
  <2> QED BY <2>1, <2>2, SlotsQuiet
<1>10. CASE LimitsNext
  BY <1>2, <1>3, <1>6, <1>7, <1>8, <1>9, <1>10 DEF LimitsNext
<1> QED BY <1>1, <1>10

-----------------------------------------------------------------------------
(* The overruns.  A limit is used by entries that were underway when it    *)
(* was read, and an entry underway has a slot or the dispatch lock.        *)

Heading(d) == {e \in In(Sending) : wish[e][2] = d}
Pending == Cardinality(In(Counted))
Late == In({"approved", "thread"})

CountInv ==
    /\ trades < MaxDaily => opened <= trades
    /\ ~stopped => late = 0
    /\ Cardinality(In({"thread"})) <= detached
OverrunInv == SlotsInv /\ CountInv /\ LimitsOverrun

\* A step of one entry changes the stage of no other, and only a start or an
\* end changes a wish.
LEMMA OneEntryMoves ==
  ASSUME LimitsTypeOK, NEW e \in Entry
  PROVE  /\ \A s : Moves(e, s) =>
               /\ stage'[e] = s /\ wish' = wish
               /\ \A x \in Entry \ {e} : stage'[x] = stage[x]
         /\ Ends(e) =>
               /\ stage'[e] = "done"
               /\ \A x \in Entry \ {e} : stage'[x] = stage[x] /\ wish'[x] = wish[x]
         /\ \A p, g : Takes(e, p, g) =>
               /\ stage'[e] = "slot"
               /\ \A x \in Entry \ {e} : stage'[x] = stage[x] /\ wish'[x] = wish[x]
BY DEF Moves, Ends, Takes, LimitsTypeOK

\* As many slots for more semaphores are more.
LEMMA MoreSlots ==
  ASSUME NEW n \in Nat, NEW a \in Nat, NEW b \in Nat, a <= b
  PROVE  n * (a + 1) \in Nat /\ n * (b + 1) \in Nat /\ n * (a + 1) <= n * (b + 1)
<1>1. PICK k \in Nat : b = a + k
  <2>1. b - a \in Nat /\ b = a + (b - a)
    OBVIOUS
  <2> QED BY <2>1
<1>2. n * (a + 1) \in Nat /\ n * k \in Nat
  OBVIOUS
<1>3. n * (b + 1) = n * (a + 1) + n * k
  BY <1>1
<1> QED BY <1>2, <1>3

\* The width never shrinks.
LEMMA WidthGrows ==
  ASSUME LimitsTypeOK, LimitsTypeOK', SlotsInv, SlotsInv', reloads <= reloads'
  PROVE  /\ Width \in Nat /\ Width' \in Nat /\ Width > 0 /\ Width <= Width'
         /\ \A S \in SUBSET Underway : Cardinality(In(S)') <= Width'
<1>1. Width \in Nat /\ Width > 0
  BY UnderwayBound DEF WidthBounds
<1>2. Width' \in Nat /\ Cardinality(In(Underway)') <= Width'
  <2>1. WidthBounds'
    BY UnderwayBound, PTL
  <2> QED BY <2>1 DEF WidthBounds
<1>3. Width <= Width'
  <2>1. reloads \in Nat /\ reloads' \in Nat
    BY Bounds DEF LimitsTypeOK
  <2>2. /\ Slots * (reloads + 1) <= Slots * (reloads' + 1)
        /\ Slots * (reloads + 1) \in Nat /\ Slots * (reloads' + 1) \in Nat
    BY <2>1, Bounds, MoreSlots
  <2> QED BY <2>2 DEF Width
<1>4. ASSUME NEW S \in SUBSET Underway PROVE Cardinality(In(S)') <= Width'
  <2>1. In(S)' \in SUBSET In(Underway)' /\ In(Underway)' \in SUBSET Entry
    BY DEF In
  <2>2. IsFiniteSet(In(Underway)')
    BY <2>1, EntriesFinite, FS_Subset
  <2>3. /\ Cardinality(In(S)') <= Cardinality(In(Underway)')
        /\ Cardinality(In(S)') \in Nat /\ Cardinality(In(Underway)') \in Nat
    BY <2>1, <2>2, Room
  <2> QED BY <1>2, <2>3
<1> QED BY <1>1, <1>2, <1>3, <1>4

\* Only an update of the settings replaces the semaphore.
LEMMA ReloadsGrow ==
  ASSUME LimitsTypeOK, [LimitsNext]_limitsVars
  PROVE  reloads <= reloads'
<1>1. reloads \in Nat
  BY Bounds DEF LimitsTypeOK
<1>2. reloads' = reloads \/ reloads' = reloads + 1
  BY DEF LimitsNext, limitsVars, TakeSlot, Dispatch, LockTicker, Screen, Filter,
     Resolve, Spread, Approve, Send, Refuse, Book, Drop, Detach, ThreadSends,
     StopTrading, ResumeTrading, Reload, MonitorCloses, Midnight
<1> QED BY <1>1, <1>2

\* The trades of today: they are counted when they are booked, and compared
\* with the limit by entries that are counted only later.
LEMMA DailyStep ==
  ASSUME LimitsTypeOK, LimitsTypeOK', OverrunInv, SlotsInv', [LimitsNext]_limitsVars
  PROVE  (trades' < MaxDaily => opened' <= trades') /\ DailyOverrun'
<1>1. /\ Pending \in Nat /\ Width \in Nat /\ MaxDaily \in Nat /\ MaxDaily > 0
      /\ trades \in Nat /\ opened \in Nat
      /\ opened + Pending <= MaxDaily - 1 + Width
      /\ trades < MaxDaily => opened <= trades
  BY EntriesFinite, WidthGrows, ReloadsGrow, Bounds
     DEF OverrunInv, LimitsOverrun, DailyOverrun, CountInv, LimitsTypeOK, Pending
<1>2. PICK n \in Nat, w \in Nat : n = Pending' /\ w = Width' /\ Width <= w /\ n <= w
  <2>1. Pending' \in Nat
    BY EntriesFinite DEF Pending
  <2>2. Counted \in SUBSET Underway
    BY DEF Underway
  <2>3. Pending' <= Width' /\ Width' \in Nat /\ Width <= Width'
    BY <2>2, WidthGrows, ReloadsGrow DEF OverrunInv, Pending
  <2> QED BY <2>1, <2>3
<1>0. n \in Nat /\ w \in Nat /\ Width <= w /\ n <= w
  BY <1>2
<1>3. ASSUME NEW o \in Nat, o = opened', o + n <= MaxDaily - 1 + w,
             trades' < MaxDaily => o <= trades'
      PROVE  (trades' < MaxDaily => opened' <= trades') /\ DailyOverrun'
  BY <1>2, <1>3 DEF DailyOverrun, Pending
<1>4. ASSUME In(Counted)' \in SUBSET In(Counted), opened' = opened,
             trades' = trades \/ Logged
      PROVE  (trades' < MaxDaily => opened' <= trades') /\ DailyOverrun'
  <2>1. n <= Pending
    BY <1>2, <1>4, EntriesFinite, Room DEF Pending
  <2>2. opened + n <= MaxDaily - 1 + w
    BY <1>0, <1>1, <2>1
  <2>3. trades' < MaxDaily => opened <= trades'
    BY <1>1, <1>4 DEF Logged
  <2> QED BY <1>1, <1>3, <1>4, <2>2, <2>3
<1>5. ASSUME NEW e \in Entry, Filter(e)
      PROVE  (trades' < MaxDaily => opened' <= trades') /\ DailyOverrun'
  <2>1. trades < MaxDaily /\ opened' = opened /\ trades' = trades
    BY <1>5 DEF Filter
  <2>2. opened + n <= MaxDaily - 1 + w
    BY <1>0, <1>1, <2>1
  <2> QED BY <1>1, <1>3, <2>1, <2>2
<1>6. ASSUME NEW e \in Entry, Book(e)
      PROVE  (trades' < MaxDaily => opened' <= trades') /\ DailyOverrun'
  <2>1. /\ opened' = opened + 1 /\ Logged /\ stage[e] = "sent" /\ stage'[e] = "done"
        /\ \A x \in Entry \ {e} : stage'[x] = stage[x]
    BY <1>6, OneEntryMoves DEF Book
  <2>2. In(Counted)' \in SUBSET In(Counted) /\ e \in In(Counted) \ In(Counted)'
    BY <2>1 DEF In, Counted, Booking, Sending
  <2>3. n + 1 <= Pending
    BY <1>2, <2>2, EntriesFinite, Room DEF Pending
  <2>4. (opened + 1) + n <= MaxDaily - 1 + w
    BY <1>0, <1>1, <2>3
  <2>5. trades' < MaxDaily => opened + 1 <= trades'
    BY <1>1, <2>1 DEF Logged
  <2> QED BY <1>1, <1>3, <2>1, <2>4, <2>5
<1>7. CASE Midnight
  <2>1. opened' = 0 /\ trades' = 0
    BY <1>7 DEF Midnight
  <2>2. 0 + n <= MaxDaily - 1 + w
    BY <1>0, <1>1
  <2> QED BY <1>3, <2>1, <2>2
<1>8. ASSUME NEW e \in Entry, stage'[e] \in Counted => stage[e] \in Counted,
             \A x \in Entry \ {e} : stage'[x] = stage[x]
      PROVE  In(Counted)' \in SUBSET In(Counted)
  BY <1>8 DEF In
<1>9. ASSUME NEW a \in Alert, TakeSlot(a)
      PROVE  (trades' < MaxDaily => opened' <= trades') /\ DailyOverrun'
  <2>1. a \in Entry /\ stage'[a] = "slot" /\ \A x \in Entry \ {a} : stage'[x] = stage[x]
    BY <1>9, OneEntryMoves DEF TakeSlot, Entry
  <2>2. opened' = opened /\ trades' = trades /\ In(Counted)' \in SUBSET In(Counted)
    BY <1>8, <1>9, <2>1 DEF TakeSlot, Counted, Booking, Sending
  <2> QED BY <1>4, <2>2
<1>10. ASSUME NEW c \in Candidate, Dispatch(c)
      PROVE  (trades' < MaxDaily => opened' <= trades') /\ DailyOverrun'
  <2>1. c \in Entry /\ stage'[c] = "slot" /\ \A x \in Entry \ {c} : stage'[x] = stage[x]
    BY <1>10, OneEntryMoves DEF Dispatch, Entry
  <2>2. opened' = opened /\ trades' = trades /\ In(Counted)' \in SUBSET In(Counted)
    BY <1>8, <1>10, <2>1 DEF Dispatch, Counted, Booking, Sending
  <2> QED BY <1>4, <2>2
<1>11. ASSUME NEW e \in Entry,
             \/ LockTicker(e) \/ Screen(e) \/ Resolve(e) \/ Spread(e) \/ Approve(e)
             \/ Send(e) \/ Refuse(e) \/ Drop(e) \/ Detach(e) \/ ThreadSends(e)
      PROVE  (trades' < MaxDaily => opened' <= trades') /\ DailyOverrun'
  <2>1. /\ \A x \in Entry \ {e} : stage'[x] = stage[x]
        /\ stage'[e] \in Counted => stage[e] \in Counted
    BY <1>11, OneEntryMoves DEF LockTicker, Screen, Resolve, Spread, Approve, Send,
       Refuse, Drop, Detach, ThreadSends, Counted, Booking, Sending
  <2>2. opened' = opened /\ (trades' = trades \/ Logged)
    BY <1>11 DEF LockTicker, Screen, Resolve, Spread, Approve, Send,
       Refuse, Drop, Detach, ThreadSends
  <2> QED BY <1>4, <1>8, <2>1, <2>2
<1>12. CASE StopTrading \/ ResumeTrading \/ Reload \/ MonitorCloses \/ UNCHANGED limitsVars
  <2>1. stage' = stage /\ opened' = opened /\ (trades' = trades \/ Logged)
    BY <1>12 DEF StopTrading, ResumeTrading, Reload, MonitorCloses, limitsVars
  <2>2. In(Counted)' \in SUBSET In(Counted)
    BY <2>1 DEF In
  <2> QED BY <1>4, <2>1, <2>2
<1>13. CASE LimitsNext
  BY <1>5, <1>6, <1>7, <1>9, <1>10, <1>11, <1>12, <1>13 DEF LimitsNext
<1> QED BY <1>12, <1>13

\* The rows are finitely many.
LEMMA RowsFinite ==
  /\ \A S : S \subseteq Position \X (Entry \cup {Earlier}) => IsFiniteSet(S)
  /\ LimitsTypeOK => \A d : IsFiniteSet(OpenOf(d)) /\ Cardinality(OpenOf(d)) \in Nat
  /\ LimitsTypeOK' => \A d : IsFiniteSet(OpenOf(d)') /\ Cardinality(OpenOf(d)') \in Nat
<1>1. IsFiniteSet(Side) /\ IsFiniteSet(Symbol) /\ IsFiniteSet(Entry)
  <2>1. IsFiniteSet({"long"}) /\ IsFiniteSet({"short"}) /\ Side = {"long"} \cup {"short"}
    BY FS_Singleton DEF Side
  <2> QED BY <2>1, FS_Union, LimitsAssumption DEF LimitsAssumption
<1>2. IsFiniteSet(Position) /\ IsFiniteSet(Entry \cup {Earlier})
  BY <1>1, FS_Product, FS_AddElement DEF Position
<1>3. IsFiniteSet(Position \X (Entry \cup {Earlier}))
  BY <1>2, FS_Product
<1>4. ASSUME NEW S, S \subseteq Position \X (Entry \cup {Earlier})
      PROVE  IsFiniteSet(S) /\ Cardinality(S) \in Nat
  BY <1>3, <1>4, Room
<1>5. ASSUME LimitsTypeOK, NEW d
      PROVE  IsFiniteSet(OpenOf(d)) /\ Cardinality(OpenOf(d)) \in Nat
  <2>1. OpenOf(d) \subseteq Position \X (Entry \cup {Earlier})
    BY <1>5 DEF OpenOf, LimitsTypeOK
  <2> QED BY <1>4, <2>1
<1>6. ASSUME LimitsTypeOK', NEW d
      PROVE  IsFiniteSet(OpenOf(d)') /\ Cardinality(OpenOf(d)') \in Nat
  <2>1. OpenOf(d)' \subseteq Position \X (Entry \cup {Earlier})
    BY <1>6 DEF OpenOf, LimitsTypeOK
  <2> QED BY <1>4, <2>1
<1> QED BY <1>4, <1>5, <1>6

\* The rows of one direction: they are compared with the limit by entries
\* that get their row only later.
LEMMA SideLimitStep ==
  ASSUME LimitsTypeOK, LimitsTypeOK', OverrunInv, SlotsInv', [LimitsNext]_limitsVars
  PROVE  SideOverrun'
<1> SUFFICES ASSUME NEW d \in Side
             PROVE  Cardinality(OpenOf(d)') + Cardinality(Heading(d)') <= MaxSame - 1 + Width'
  BY DEF SideOverrun, Heading
<1>1. /\ IsFiniteSet(OpenOf(d)) /\ IsFiniteSet(Heading(d)) /\ IsFiniteSet(Heading(d)')
      /\ Cardinality(OpenOf(d)) \in Nat /\ Cardinality(Heading(d)) \in Nat
      /\ Heading(d)' \in SUBSET In(Sending)'
  <2>1. /\ Heading(d) \in SUBSET In(Sending) /\ Heading(d)' \in SUBSET In(Sending)'
    BY DEF Heading
  <2> QED BY <2>1, RowsFinite, EntriesFinite, Room
<1>2. /\ Width \in Nat /\ MaxSame \in Nat /\ MaxSame > 0
      /\ Cardinality(OpenOf(d)) + Cardinality(Heading(d)) <= MaxSame - 1 + Width
  BY WidthGrows, ReloadsGrow, Bounds DEF OverrunInv, LimitsOverrun, SideOverrun, Heading
<1>3. PICK r \in Nat, n \in Nat, w \in Nat :
        /\ r = Cardinality(OpenOf(d)') /\ n = Cardinality(Heading(d)') /\ w = Width'
        /\ n <= w /\ Width <= w
  <2>1. Cardinality(OpenOf(d)') \in Nat
    BY RowsFinite
  <2>2. /\ Cardinality(Heading(d)') \in Nat /\ Cardinality(In(Sending)') \in Nat
        /\ Cardinality(Heading(d)') <= Cardinality(In(Sending)')
    BY <1>1, EntriesFinite, Room
  <2>3. /\ Cardinality(In(Sending)') <= Width' /\ Width' \in Nat /\ Width <= Width'
    <3>1. Sending \in SUBSET Underway
      BY DEF Underway, Counted, Booking
    <3> QED BY <3>1, WidthGrows, ReloadsGrow DEF OverrunInv
  <2>4. Cardinality(Heading(d)') <= Width'
    BY <2>2, <2>3
  <2> QED BY <2>1, <2>2, <2>3, <2>4
<1>4. r \in Nat /\ n \in Nat /\ w \in Nat /\ n <= w /\ Width <= w
  BY <1>3
<1> SUFFICES r + n <= MaxSame - 1 + w
  BY <1>3
<1>5. ASSUME OpenOf(d)' \in SUBSET OpenOf(d), Heading(d)' \in SUBSET Heading(d)
      PROVE  r + n <= MaxSame - 1 + w
  <2>1. r <= Cardinality(OpenOf(d)) /\ n <= Cardinality(Heading(d))
    BY <1>1, <1>3, <1>5, Room
  <2> QED BY <1>1, <1>2, <1>4, <2>1
<1>6. ASSUME NEW e \in Entry, Spread(e)
      PROVE  r + n <= MaxSame - 1 + w
  <2>1. /\ stage'[e] = "spread" /\ wish' = wish /\ open' = open
        /\ Cardinality(OpenOf(wish[e][2])) < MaxSame
        /\ \A x \in Entry \ {e} : stage'[x] = stage[x]
    BY <1>6, OneEntryMoves DEF Spread
  <2>2. CASE wish[e][2] = d
    <3>1. r = Cardinality(OpenOf(d)) /\ Cardinality(OpenOf(d)) < MaxSame
      BY <1>3, <2>1, <2>2 DEF OpenOf
    <3>2. r < MaxSame
      BY <3>1
    <3> QED BY <1>2, <1>4, <3>2
  <2>3. CASE wish[e][2] # d
    <3>1. Heading(d)' \in SUBSET Heading(d) /\ OpenOf(d)' \in SUBSET OpenOf(d)
      BY <2>1, <2>3 DEF Heading, OpenOf, In
    <3> QED BY <1>5, <3>1
  <2> QED BY <2>2, <2>3
<1>7. ASSUME NEW e \in Entry, Book(e)
      PROVE  r + n <= MaxSame - 1 + w
  <2>1. /\ stage[e] = "sent" /\ stage'[e] = "done"
        /\ open' = open \cup {<<wish[e], e>>}
        /\ \A x \in Entry \ {e} : stage'[x] = stage[x] /\ wish'[x] = wish[x]
    BY <1>7, OneEntryMoves DEF Book
  <2>2. Heading(d)' \in SUBSET Heading(d)
    BY <2>1 DEF Heading, In, Sending
  <2>3. CASE wish[e][2] = d
    <3>1. e \in Heading(d) \ Heading(d)'
      BY <2>1, <2>3 DEF Heading, In, Sending
    <3>2. n + 1 <= Cardinality(Heading(d))
      BY <1>1, <1>3, <2>2, <3>1, Room
    <3>3. OpenOf(d)' = OpenOf(d) \cup {<<wish[e], e>>}
      BY <2>1, <2>3 DEF OpenOf
    <3>4. Cardinality(OpenOf(d) \cup {<<wish[e], e>>}) <= Cardinality(OpenOf(d)) + 1
      BY <1>1, OneMore
    <3>5. r <= Cardinality(OpenOf(d)) + 1
      BY <1>3, <3>3, <3>4
    <3> QED BY <1>1, <1>2, <1>4, <3>2, <3>5
  <2>4. CASE wish[e][2] # d
    <3>1. OpenOf(d)' \in SUBSET OpenOf(d)
      BY <2>1, <2>4 DEF OpenOf
    <3> QED BY <1>5, <2>2, <3>1
  <2> QED BY <2>3, <2>4
<1>8. ASSUME NEW e \in Entry, stage'[e] \in Sending => stage[e] \in Sending /\ wish'[e] = wish[e],
             \A x \in Entry \ {e} : stage'[x] = stage[x] /\ wish'[x] = wish[x],
             open' \subseteq open
      PROVE  r + n <= MaxSame - 1 + w
  <2>1. OpenOf(d)' \in SUBSET OpenOf(d)
    BY <1>8 DEF OpenOf
  <2>2. Heading(d)' \in SUBSET Heading(d)
    BY <1>8 DEF Heading, In
  <2> QED BY <1>5, <2>1, <2>2
<1>9. ASSUME NEW a \in Alert, TakeSlot(a)
      PROVE  r + n <= MaxSame - 1 + w
  <2>1. /\ a \in Entry /\ stage'[a] = "slot" /\ open' = open
        /\ \A x \in Entry \ {a} : stage'[x] = stage[x] /\ wish'[x] = wish[x]
    BY <1>9, OneEntryMoves DEF TakeSlot, Entry
  <2> QED BY <1>8, <2>1 DEF Sending
<1>10. ASSUME NEW c \in Candidate, Dispatch(c)
      PROVE  r + n <= MaxSame - 1 + w
  <2>1. /\ c \in Entry /\ stage'[c] = "slot" /\ open' = open
        /\ \A x \in Entry \ {c} : stage'[x] = stage[x] /\ wish'[x] = wish[x]
    BY <1>10, OneEntryMoves DEF Dispatch, Entry
  <2> QED BY <1>8, <2>1 DEF Sending
<1>11. ASSUME NEW e \in Entry,
             \/ LockTicker(e) \/ Screen(e) \/ Filter(e) \/ Resolve(e) \/ Approve(e)
             \/ Send(e) \/ Refuse(e) \/ Drop(e) \/ Detach(e) \/ ThreadSends(e)
      PROVE  r + n <= MaxSame - 1 + w
  <2>1. /\ \A x \in Entry \ {e} : stage'[x] = stage[x] /\ wish'[x] = wish[x]
        /\ stage'[e] \in Sending => stage[e] \in Sending /\ wish'[e] = wish[e]
    BY <1>11, OneEntryMoves DEF LockTicker, Screen, Filter, Resolve, Approve, Send,
       Refuse, Drop, Detach, ThreadSends, Sending
  <2>2. open' \subseteq open
    BY <1>11 DEF LockTicker, Screen, Filter, Resolve, Approve, Send,
       Refuse, Drop, Detach, ThreadSends
  <2> QED BY <1>8, <2>1, <2>2
<1>12. CASE \/ StopTrading \/ ResumeTrading \/ Reload \/ MonitorCloses \/ Midnight
            \/ UNCHANGED limitsVars
  <2>1. stage' = stage /\ wish' = wish /\ open' \subseteq open
    BY <1>12 DEF StopTrading, ResumeTrading, Reload, MonitorCloses, Midnight, limitsVars
  <2>2. OpenOf(d)' \in SUBSET OpenOf(d) /\ Heading(d)' \in SUBSET Heading(d)
    BY <2>1 DEF OpenOf, Heading, In
  <2> QED BY <1>5, <2>2
<1>13. CASE LimitsNext
  BY <1>6, <1>7, <1>9, <1>10, <1>11, <1>12, <1>13 DEF LimitsNext
<1> QED BY <1>12, <1>13

\* The stop: it is read before the order is sent, and a task that ends leaves
\* its order to a thread.
LEMMA StopStep ==
  ASSUME LimitsTypeOK, LimitsTypeOK', OverrunInv, SlotsInv', [LimitsNext]_limitsVars
  PROVE  /\ ~stopped' => late' = 0
         /\ Cardinality(In({"thread"})') <= detached'
         /\ StopOverrun'
<1> DEFINE Threads == In({"thread"})
           Goal == /\ ~stopped' => late' = 0
                   /\ Cardinality(Threads') <= detached'
                   /\ StopOverrun'
<1>1. /\ IsFiniteSet(Late) /\ IsFiniteSet(Threads) /\ IsFiniteSet(Late') /\ IsFiniteSet(Threads')
      /\ Cardinality(Late) \in Nat /\ Cardinality(Threads) \in Nat
      /\ late \in Nat /\ detached \in Nat /\ Width \in Nat
      /\ Cardinality(Threads) <= detached
  <2>1. detached \in Nat /\ late \in Nat
    BY Bounds DEF LimitsTypeOK
  <2>2. Width \in Nat
    BY WidthGrows, ReloadsGrow DEF OverrunInv
  <2> QED BY <2>1, <2>2, EntriesFinite DEF Late, OverrunInv, CountInv
<1>2. /\ ~stopped => late = 0
      /\ stopped => late + Cardinality(Late) <= Width + detached
  BY DEF OverrunInv, CountInv, LimitsOverrun, StopOverrun, Late
<1>3. PICK n \in Nat, t \in Nat, w \in Nat :
        n = Cardinality(Late') /\ t = Cardinality(Threads') /\ w = Width' /\ Width <= w
  BY EntriesFinite, WidthGrows, ReloadsGrow DEF OverrunInv, Late
<1>4. n \in Nat /\ t \in Nat /\ w \in Nat /\ Width <= w
  BY <1>3
<1>5. n <= w + t
  <2>1. Late' = In({"approved"})' \cup Threads'
    BY DEF Late, In
  <2>2. Cardinality(Late') = Cardinality(In({"approved"})') + Cardinality(Threads')
                               - Cardinality(In({"approved"})' \cap Threads')
    BY <2>1, EntriesFinite, FS_Union
  <2>3. Cardinality(In({"approved"})' \cap Threads') \in Nat
    BY EntriesFinite, FS_Intersection, FS_CardinalityType
  <2>4. {"approved"} \in SUBSET Underway
    BY DEF Underway, Counted, Booking, Sending
  <2>5. Cardinality(In({"approved"})') <= w /\ Cardinality(In({"approved"})') \in Nat
    BY <1>3, <2>4, WidthGrows, ReloadsGrow, EntriesFinite DEF OverrunInv
  <2>6. n = Cardinality(In({"approved"})') + t - Cardinality(In({"approved"})' \cap Threads')
    BY <1>3, <2>2
  <2> QED BY <1>4, <2>3, <2>5, <2>6
<1>6. ASSUME NEW l \in Nat, l = late', NEW k \in Nat, k = detached', t <= k,
             ~stopped' => l = 0, stopped' => l + n <= w + k
      PROVE  Goal
  BY <1>3, <1>6 DEF StopOverrun, Late
<1>7. ASSUME Late' \in SUBSET Late, Threads' \in SUBSET Threads,
             late' = late, detached' = detached, stopped' = stopped
      PROVE  Goal
  <2>1. n <= Cardinality(Late) /\ t <= Cardinality(Threads)
    BY <1>1, <1>3, <1>7, Room
  <2>2. t <= detached /\ (stopped => late + n <= w + detached)
    BY <1>1, <1>2, <1>4, <2>1
  <2> QED BY <1>1, <1>2, <1>6, <1>7, <2>2
<1>8. ASSUME NEW e \in Entry, stage'[e] \in {"approved", "thread"} => stage'[e] = stage[e],
             \A x \in Entry \ {e} : stage'[x] = stage[x],
             late' = late, detached' = detached, stopped' = stopped
      PROVE  Goal
  <2>1. Late' \in SUBSET Late /\ Threads' \in SUBSET Threads
    BY <1>8 DEF Late, In
  <2> QED BY <1>7, <1>8, <2>1
<1> HIDE DEF Goal
<1>9. ASSUME NEW a \in Alert, TakeSlot(a) PROVE Goal
  <2>1. a \in Entry /\ stage'[a] = "slot" /\ \A x \in Entry \ {a} : stage'[x] = stage[x]
    BY <1>9, OneEntryMoves DEF TakeSlot, Entry
  <2> QED BY <1>8, <1>9, <2>1 DEF TakeSlot
<1>10. ASSUME NEW c \in Candidate, Dispatch(c) PROVE Goal
  <2>1. c \in Entry /\ stage'[c] = "slot" /\ \A x \in Entry \ {c} : stage'[x] = stage[x]
    BY <1>10, OneEntryMoves DEF Dispatch, Entry
  <2> QED BY <1>8, <1>10, <2>1 DEF Dispatch
<1>11. ASSUME NEW e \in Entry,
             \/ LockTicker(e) \/ Screen(e) \/ Filter(e) \/ Resolve(e) \/ Spread(e)
             \/ Refuse(e) \/ Book(e) \/ Drop(e)
      PROVE  Goal
  <2>1. /\ \A x \in Entry \ {e} : stage'[x] = stage[x]
        /\ stage'[e] \notin {"approved", "thread"}
    BY <1>11, OneEntryMoves DEF LockTicker, Screen, Filter, Resolve, Spread,
       Refuse, Book, Drop
  <2>2. late' = late /\ detached' = detached /\ stopped' = stopped
    BY <1>11 DEF LockTicker, Screen, Filter, Resolve, Spread, Refuse, Book, Drop
  <2> QED BY <1>8, <2>1, <2>2
<1>12. ASSUME NEW e \in Entry, Approve(e) PROVE Goal
  <2>1. /\ ~stopped /\ stopped' = stopped /\ late' = late /\ detached' = detached
        /\ stage'[e] = "approved" /\ \A x \in Entry \ {e} : stage'[x] = stage[x]
    BY <1>12, OneEntryMoves DEF Approve
  <2>2. Threads' \in SUBSET Threads
    BY <2>1 DEF In
  <2>3. t <= Cardinality(Threads)
    BY <1>1, <1>3, <2>2, Room
  <2>4. t <= detached
    BY <1>1, <1>4, <2>3
  <2> QED BY <1>1, <1>2, <1>6, <2>1, <2>4
<1>13. ASSUME NEW e \in Entry, Send(e) \/ ThreadSends(e) PROVE Goal
  <2>1. /\ stopped' = stopped /\ detached' = detached /\ Sends
        /\ stage[e] \in {"approved", "thread"} /\ stage'[e] \in {"sent", "done"}
        /\ \A x \in Entry \ {e} : stage'[x] = stage[x]
    BY <1>13, OneEntryMoves DEF Send, ThreadSends
  <2>2. /\ Late' \in SUBSET Late /\ e \in Late \ Late'
        /\ Threads' \in SUBSET Threads
    BY <2>1 DEF Late, In
  <2>3. n + 1 <= Cardinality(Late) /\ t <= Cardinality(Threads)
    BY <1>1, <1>3, <2>2, Room
  <2>4. t <= detached
    BY <1>1, <1>4, <2>3
  <2>5. CASE stopped
    <3>1. (late + 1) + n <= w + detached
      BY <1>1, <1>2, <1>4, <2>3, <2>5
    <3> QED BY <1>1, <1>6, <2>1, <2>4, <2>5, <3>1 DEF Sends
  <2>6. CASE ~stopped
    BY <1>1, <1>2, <1>6, <2>1, <2>4, <2>6 DEF Sends
  <2> QED BY <2>5, <2>6
<1>14. ASSUME NEW e \in Entry, Detach(e) PROVE Goal
  <2>1. /\ stopped' = stopped /\ late' = late /\ detached' = detached + 1
        /\ (stage[e] = "approved" /\ stage'[e] = "thread") \/ stage'[e] = "done"
        /\ \A x \in Entry \ {e} : stage'[x] = stage[x]
    BY <1>14, OneEntryMoves DEF Detach
  <2>2. Late' \in SUBSET Late /\ Threads' \in SUBSET (Threads \cup {e})
    BY <2>1 DEF Late, In
  <2>3. n <= Cardinality(Late)
    BY <1>1, <1>3, <2>2, Room
  <2>4. /\ IsFiniteSet(Threads \cup {e})
        /\ Cardinality(Threads \cup {e}) <= Cardinality(Threads) + 1
    BY <1>1, OneMore
  <2>5. t <= Cardinality(Threads \cup {e}) /\ Cardinality(Threads \cup {e}) \in Nat
    BY <1>3, <2>2, <2>4, Room
  <2>6. t <= detached + 1 /\ (stopped => late + n <= w + (detached + 1))
    BY <1>1, <1>2, <1>4, <2>3, <2>4, <2>5
  <2> QED BY <1>1, <1>2, <1>6, <2>1, <2>6
<1>15. ASSUME StopTrading \/ ResumeTrading PROVE Goal
  <2>1. /\ stage' = stage /\ detached' = detached
        /\ \/ ~stopped /\ late' = late
           \/ ~stopped' /\ late' = 0
    BY <1>15 DEF StopTrading, ResumeTrading
  <2>2. Threads' \in SUBSET Threads
    BY <2>1 DEF In
  <2>3. t <= Cardinality(Threads)
    BY <1>1, <1>3, <2>2, Room
  <2>4. t <= detached /\ 0 + n <= w + detached
    BY <1>1, <1>4, <1>5, <2>3
  <2>5. late' = 0
    BY <1>2, <2>1
  <2> QED BY <1>1, <1>6, <2>1, <2>4, <2>5
<1>16. ASSUME Reload \/ MonitorCloses \/ Midnight \/ UNCHANGED limitsVars PROVE Goal
  <2>1. stage' = stage /\ late' = late /\ detached' = detached /\ stopped' = stopped
    BY <1>16 DEF Reload, MonitorCloses, Midnight, limitsVars
  <2>2. Late' \in SUBSET Late /\ Threads' \in SUBSET Threads
    BY <2>1 DEF Late, In
  <2> QED BY <1>7, <2>1, <2>2
<1>17. ASSUME LimitsNext PROVE Goal
  BY <1>9, <1>10, <1>11, <1>12, <1>13, <1>14, <1>15, <1>16, <1>17 DEF LimitsNext
<1> QED BY <1>16, <1>17 DEF Goal

\* Initially nothing is underway.
LEMMA OverrunInit == LimitsInit => OverrunInv
<1> SUFFICES ASSUME LimitsInit PROVE OverrunInv
  OBVIOUS
<1>1. LimitsTypeOK
  BY TypeInit
<1>2. \A e \in Entry : stage[e] = "new"
  BY DEF LimitsInit
<1>3. \A S : "new" \notin S => In(S) = {}
  BY <1>2 DEF In
<1>4. "new" \notin Underway /\ "new" \notin Counted /\ "new" \notin Sending
  BY DEF Underway, Counted, Booking, Sending
<1>5. Cardinality({}) = 0
  BY FS_EmptySet
<1>6. SlotsInv
  <2>1. \A g : OfTicket(g) = {}
    BY <1>2, <1>4 DEF OfTicket, Entry
  <2> QED BY <1>2, <1>4, <1>5, <2>1, Bounds DEF SlotsInv, Entry
<1>7. Width \in Nat /\ Width > 0
  BY <1>1, <1>6, UnderwayBound DEF WidthBounds
<1>8. Cardinality(In({"thread"})) = 0 /\ Cardinality(In(Counted)) = 0
  BY <1>3, <1>4, <1>5
<1>9. /\ trades = 0 /\ opened = 0 /\ late = 0 /\ detached = 0 /\ stopped = FALSE
      /\ \A d \in Side : Cardinality(OpenOf(d)) <= MaxSame
  BY DEF LimitsInit
<1>10. CountInv
  BY <1>8, <1>9 DEF CountInv
<1>11. DailyOverrun /\ StopOverrun
  BY <1>7, <1>8, <1>9, Bounds DEF DailyOverrun, StopOverrun
<1>12. ASSUME NEW d \in Side
       PROVE  Cardinality(OpenOf(d)) + Cardinality(Heading(d)) <= MaxSame - 1 + Width
  <2>1. Heading(d) = {}
    BY <1>3, <1>4 DEF Heading
  <2>2. Cardinality(OpenOf(d)) \in Nat
    BY <1>1, RowsFinite
  <2> QED BY <1>5, <1>7, <1>9, <2>1, <2>2, Bounds
<1> QED BY <1>6, <1>10, <1>11, <1>12 DEF OverrunInv, LimitsOverrun, SideOverrun, Heading

\* The daily limit, the limit of a direction and the stop are overrun by no
\* more than the entries that can be underway.
THEOREM OverrunIsBounded == LimitsSpec => []LimitsOverrun
<1> DEFINE Inv == LimitsTypeOK /\ WishInv /\ OverrunInv
<1>1. LimitsInit => Inv
  BY TypeInit, OverrunInit
<1>2. Inv /\ [LimitsNext]_limitsVars => Inv'
  <2> SUFFICES ASSUME Inv, [LimitsNext]_limitsVars PROVE Inv'
    OBVIOUS
  <2>1. LimitsTypeOK' /\ WishInv'
    BY TypeStep
  <2>2. SlotsInv'
    BY SlotsStep DEF OverrunInv
  <2>3. /\ trades' < MaxDaily => opened' <= trades'
        /\ DailyOverrun'
    BY <2>1, <2>2, DailyStep
  <2>4. SideOverrun'
    BY <2>1, <2>2, SideLimitStep
  <2>5. /\ ~stopped' => late' = 0
        /\ Cardinality(In({"thread"})') <= detached'
        /\ StopOverrun'
    BY <2>1, <2>2, StopStep
  <2> QED BY <2>1, <2>2, <2>3, <2>4, <2>5 DEF OverrunInv, CountInv, LimitsOverrun
<1>3. Inv => LimitsOverrun
  BY DEF OverrunInv
<1> QED BY <1>1, <1>2, <1>3, PTL DEF LimitsSpec
=============================================================================
