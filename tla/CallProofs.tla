----------------------------- MODULE CallProofs -----------------------------
(***************************************************************************)
(* The safety properties and the types of the calls that send orders and   *)
(* of the requests that move money (ReduceOnlyClose, TradeEntry,           *)
(* DcaStrategy and Subscriptions), for every size of a position and an     *)
(* entry, every number of retries, reads, purchases, rows and payments,    *)
(* and any number of concurrent requests.                                  *)
(***************************************************************************)
EXTENDS ReduceOnlyClose, TradeEntry, DcaStrategy, Subscriptions,
        FiniteSetTheorems, TLAPS

-----------------------------------------------------------------------------
(***************************************************************************)
(* A call of _close_position (ReduceOnlyClose).  It keeps one order alive  *)
(* and implements its contract when at most one read of the position is    *)
(* wrong.                                                                  *)
(***************************************************************************)
\* What an order has filled and has left is within the position it was for.
OrderAmounts ==
    \A c \in Coid : order[c].filled + order[c].left <= HeldSize

\* The orders of the earlier ids are over, those of later ids do not exist.
Sequenced ==
    \A c \in Coid :
        /\ c < sequence => order[c].state = "ended"
        /\ c > sequence => order[c].state = "none"

\* The call moves on to the next id only when the order of this one has ended,
\* at most once per attempt.
EndedRead == place = "verify" /\ purpose = "ended" => order[sequence].state = "ended"
Behind ==
    /\ place = "fetch" => attempt = 1 \/ sequence < attempt
    /\ place = "lookup" => sequence < attempt
    /\ place = "verify" /\ purpose \in {"live", "ended"} => sequence < attempt

\* After one empty read the position is flat, or the one wrong read is spent.
ReadOnce == flats = 1 => position = 0 \/ glitches = 1

Answered == verdict = "none" <=> place # "done"

CInv ==
    /\ CloseTypeOK
    /\ OrderAmounts /\ Sequenced /\ EndedRead /\ Behind /\ ReadOnce /\ Answered

\* Steps that touch no order.
Quiet == UNCHANGED <<position, want, order>>

-----------------------------------------------------------------------------
\* The constants and the ids.
LEMMA CloseBounds ==
    /\ HeldSize \in Nat /\ HeldSize > 0
    /\ MaxRetries \in Nat /\ MaxRetries > 0
    /\ VerifyReads \in Nat /\ VerifyReads > 0
    /\ MaxGlitches \in {0, 1}
BY CloseAssumption

LEMMA CInvInit == CloseInit => CInv
<1> SUFFICES ASSUME CloseInit PROVE CInv
  OBVIOUS
<1>1. order \in [Coid -> [state : OrderState, left : 0..HeldSize, filled : 0..HeldSize]]
  BY CloseBounds DEF CloseInit, OrderState
<1>2. CloseTypeOK
  <2>1. full \in BOOLEAN /\ unconfirmed \in BOOLEAN
    BY Zenon DEF CloseInit
  <2>2. place \in CallPlace /\ purpose \in Purpose /\ verdict \in Verdict
    BY DEF CloseInit, CallPlace, Purpose, Verdict
  <2> QED BY <1>1, <2>1, <2>2, CloseBounds DEF CloseInit, CloseTypeOK
<1>3. OrderAmounts /\ Sequenced
  BY CloseBounds DEF CloseInit, OrderAmounts, Sequenced, Coid
<1>4. EndedRead /\ Behind /\ ReadOnce /\ Answered
  BY DEF CloseInit, EndedRead, Behind, ReadOnce, Answered
<1> QED BY <1>2, <1>3, <1>4 DEF CInv

\* A read that reports nothing is true or the wrong one.
LEMMA ReportFacts ==
  ASSUME CInv, NEW read \in 0..position, Reports(read)
  PROVE  /\ glitches' \in 0..MaxGlitches
         /\ glitches = 1 => glitches' = 1
         /\ read = 0 => position = 0 \/ (glitches = 0 /\ glitches' = 1)
         /\ read \in 0..HeldSize
BY CloseBounds DEF CInv, CloseTypeOK, Reports

\* The answer, or the next attempt.
LEMMA RetryFacts ==
  ASSUME CInv, NEW v \in Verdict \ {"none"}, Retry(v), place # "done"
  PROVE  /\ attempt' \in 1..MaxRetries
         /\ attempt' >= attempt
         /\ verdict' \in Verdict
         /\ verdict' = "none" <=> place' # "done"
         /\ \/ place' = "fetch" /\ attempt' = attempt + 1 /\ verdict' = "none"
            \/ place' = "done" /\ attempt' = attempt /\ verdict' = v
BY CloseBounds DEF CInv, CloseTypeOK, Retry, Finish, Answered

-----------------------------------------------------------------------------
LEMMA ReadStep == CInv /\ ReadPositions => CInv'
<1> SUFFICES ASSUME CInv, ReadPositions PROVE CInv'
  OBVIOUS
<1> USE DEF CInv
<1>1. PICK read \in 0..position :
        /\ Reports(read)
        /\ \/ /\ read > 0
              /\ orderQty' = IF want = Whole THEN read ELSE Lesser(read, want)
              /\ full' = (want = Whole \/ want >= read)
              /\ place' = IF attempt > 1 THEN "lookup" ELSE "send"
              /\ UNCHANGED <<attempt, verdict, readVars>>
           \/ /\ read = 0 /\ unconfirmed
              /\ StartReads("gone") /\ place' = "verify"
              /\ UNCHANGED <<attempt, verdict, orderQty, full>>
           \/ /\ read = 0 /\ ~unconfirmed
              /\ Retry("no_position")
              /\ UNCHANGED <<orderQty, full, readVars>>
  BY DEF ReadPositions
<1>2. place = "fetch" /\ UNCHANGED <<position, want, order, sequence, unconfirmed>>
  BY DEF ReadPositions
<1>3. /\ glitches' \in 0..MaxGlitches
      /\ glitches = 1 => glitches' = 1
      /\ read \in 0..HeldSize
  BY <1>1, ReportFacts
<1>4. CASE /\ read > 0
           /\ orderQty' = IF want = Whole THEN read ELSE Lesser(read, want)
           /\ full' = (want = Whole \/ want >= read)
           /\ place' = IF attempt > 1 THEN "lookup" ELSE "send"
           /\ UNCHANGED <<attempt, verdict, readVars>>
  <2>1. orderQty' \in 0..HeldSize
    BY <1>2, <1>3, <1>4, CloseBounds DEF CloseTypeOK, Lesser
  <2>2. full' \in BOOLEAN
    BY <1>4, Zenon
  <2>3. CloseTypeOK'
    BY <1>2, <1>3, <1>4, <2>1, <2>2 DEF CloseTypeOK, readVars, CallPlace
  <2>4. (OrderAmounts /\ Sequenced)'
    BY <1>2 DEF OrderAmounts, Sequenced
  <2>5. (EndedRead /\ Behind /\ ReadOnce /\ Answered)'
    BY <1>2, <1>3, <1>4
    DEF CloseTypeOK, EndedRead, Behind, ReadOnce, Answered, readVars
  <2> QED BY <2>3, <2>4, <2>5
<1>5. CASE /\ read = 0 /\ unconfirmed
           /\ StartReads("gone") /\ place' = "verify"
           /\ UNCHANGED <<attempt, verdict, orderQty, full>>
  <2>1. CloseTypeOK'
    BY <1>2, <1>3, <1>5, CloseBounds DEF CloseTypeOK, StartReads, CallPlace, Purpose
  <2>2. (OrderAmounts /\ Sequenced)'
    BY <1>2 DEF OrderAmounts, Sequenced
  <2>3. (EndedRead /\ Behind /\ ReadOnce /\ Answered)'
    BY <1>2, <1>3, <1>5
    DEF CloseTypeOK, EndedRead, Behind, ReadOnce, Answered, StartReads
  <2> QED BY <2>1, <2>2, <2>3
<1>6. CASE /\ read = 0 /\ ~unconfirmed
           /\ Retry("no_position")
           /\ UNCHANGED <<orderQty, full, readVars>>
  <2>1. /\ attempt' \in 1..MaxRetries
        /\ attempt' >= attempt
        /\ verdict' \in Verdict
        /\ verdict' = "none" <=> place' # "done"
        /\ \/ place' = "fetch" /\ attempt' = attempt + 1 /\ verdict' = "none"
           \/ place' = "done" /\ attempt' = attempt /\ verdict' = "no_position"
    BY <1>2, <1>6, RetryFacts DEF Verdict
  <2>2. CloseTypeOK'
    BY <1>2, <1>3, <1>6, <2>1 DEF CloseTypeOK, readVars, CallPlace
  <2>3. (OrderAmounts /\ Sequenced)'
    BY <1>2 DEF OrderAmounts, Sequenced
  <2>4. (EndedRead /\ Behind /\ ReadOnce /\ Answered)'
    BY <1>2, <1>3, <1>6, <2>1
    DEF CloseTypeOK, EndedRead, Behind, ReadOnce, Answered, readVars
  <2> QED BY <2>2, <2>3, <2>4
<1> QED BY <1>1, <1>4, <1>5, <1>6

\* Another attempt, or the end, without an order being touched.
LEMMA RetryStep ==
  ASSUME CInv, NEW v \in Verdict \ {"none"}, Retry(v), place # "done", Quiet,
         UNCHANGED <<sequence, orderQty, full, readVars, unconfirmed, glitches>>
  PROVE  CInv'
<1> USE DEF CInv
<1>1. /\ attempt' \in 1..MaxRetries
      /\ attempt' >= attempt
      /\ verdict' \in Verdict
      /\ verdict' = "none" <=> place' # "done"
      /\ \/ place' = "fetch" /\ attempt' = attempt + 1 /\ verdict' = "none"
         \/ place' = "done" /\ attempt' = attempt /\ verdict' = v
  BY RetryFacts
<1>2. CloseTypeOK'
  BY <1>1 DEF Quiet, CloseTypeOK, readVars, CallPlace
<1>3. (OrderAmounts /\ Sequenced)'
  BY DEF Quiet, OrderAmounts, Sequenced
<1>4. (EndedRead /\ Behind /\ ReadOnce /\ Answered)'
  BY <1>1 DEF Quiet, CloseTypeOK, EndedRead, Behind, ReadOnce, Answered, readVars
<1> QED BY <1>2, <1>3, <1>4

LEMMA ReadErrorSteps ==
    CInv /\ (NetworkFails \/ ReadRefused \/ LookUpOrder \/ LookUpFails) => CInv'
<1> SUFFICES ASSUME CInv, NetworkFails \/ ReadRefused \/ LookUpOrder \/ LookUpFails
             PROVE  CInv'
  OBVIOUS
<1> USE DEF CInv
<1>1. CASE NetworkFails
  BY <1>1, RetryStep DEF NetworkFails, Quiet, Verdict
<1>2. CASE ReadRefused
  <2>1. CloseTypeOK'
    BY <1>2, CloseBounds
    DEF ReadRefused, CloseTypeOK, StartReads, CallPlace, Purpose
  <2>2. (OrderAmounts /\ Sequenced)'
    BY <1>2 DEF ReadRefused, OrderAmounts, Sequenced
  <2>3. (EndedRead /\ Behind /\ ReadOnce /\ Answered)'
    BY <1>2
    DEF ReadRefused, EndedRead, Behind, ReadOnce, Answered, StartReads
  <2> QED BY <2>1, <2>2, <2>3
<1>3. CASE LookUpOrder
  <2>1. /\ place = "lookup" /\ glitches' = glitches /\ Quiet
        /\ UNCHANGED <<attempt, sequence, orderQty, full, unconfirmed, verdict>>
        /\ \/ /\ order[sequence].state # "none"
              /\ StartReads(order[sequence].state) /\ place' = "verify"
           \/ place' = "send" /\ UNCHANGED readVars
    BY <1>3 DEF LookUpOrder, Quiet
  <2>2. order[sequence].state \in OrderState
    BY CloseBounds DEF CloseTypeOK, Coid
  <2>3. CloseTypeOK'
    BY <2>1, <2>2, CloseBounds
    DEF CloseTypeOK, StartReads, CallPlace, Purpose, Quiet, readVars, OrderState
  <2>4. (OrderAmounts /\ Sequenced)'
    BY <2>1 DEF Quiet, OrderAmounts, Sequenced
  <2>5. (EndedRead /\ Behind /\ ReadOnce /\ Answered)'
    BY <2>1
    DEF EndedRead, Behind, ReadOnce, Answered, StartReads, Quiet, readVars
  <2> QED BY <2>3, <2>4, <2>5
<1>4. CASE LookUpFails
  <2>1. CloseTypeOK'
    BY <1>4 DEF LookUpFails, CloseTypeOK, CallPlace, readVars
  <2>2. (OrderAmounts /\ Sequenced)'
    BY <1>4 DEF LookUpFails, OrderAmounts, Sequenced
  <2>3. (EndedRead /\ Behind /\ ReadOnce /\ Answered)'
    BY <1>4
    DEF LookUpFails, EndedRead, Behind, ReadOnce, Answered, readVars
  <2> QED BY <2>1, <2>2, <2>3
<1> QED BY <1>1, <1>2, <1>3, <1>4

-----------------------------------------------------------------------------
\* An order is accepted under an id that was not used: the id in use.
LEMMA AcceptedFacts ==
  ASSUME CInv, Accepted
  PROVE  /\ order' \in [Coid -> [state : OrderState, left : 0..HeldSize,
                                 filled : 0..HeldSize]]
         /\ \A c \in Coid : order'[c].filled + order'[c].left <= HeldSize
         /\ order[sequence].state = "none"
         /\ \A c \in Coid \ {sequence} : order'[c] = order[c]
<1> USE DEF CInv
<1>1. sequence \in Coid /\ orderQty \in 0..HeldSize
  BY CloseBounds DEF CloseTypeOK, Coid
<1>2. /\ order[sequence].state = "none"
      /\ order' = [order EXCEPT ![sequence] =
                      [state |-> "live", left |-> orderQty, filled |-> 0]]
  BY DEF Accepted, EffectiveCoid
<1>3. \A c \in Coid \ {sequence} : order'[c] = order[c]
  BY <1>2 DEF CloseTypeOK
<1>4. order'[sequence] = [state |-> "live", left |-> orderQty, filled |-> 0]
  BY <1>1, <1>2 DEF CloseTypeOK
<1>5. [state |-> "live", left |-> orderQty, filled |-> 0] \in
        [state : OrderState, left : 0..HeldSize, filled : 0..HeldSize]
  BY <1>1, CloseBounds DEF OrderState
<1>6. order' \in [Coid -> [state : OrderState, left : 0..HeldSize,
                           filled : 0..HeldSize]]
  BY <1>2, <1>5 DEF CloseTypeOK
<1>7. \A c \in Coid : order'[c].filled + order'[c].left <= HeldSize
  BY <1>1, <1>3, <1>4, CloseBounds DEF OrderAmounts
<1> QED BY <1>2, <1>3, <1>6, <1>7

LEMMA SendStep == CInv /\ SendOrder => CInv'
<1> SUFFICES ASSUME CInv, SendOrder PROVE CInv'
  OBVIOUS
<1> USE DEF CInv
<1>1. /\ place = "send"
      /\ UNCHANGED <<position, want, sequence, orderQty, full, unconfirmed, glitches>>
      /\ Accepted \/ UNCHANGED order
  BY DEF SendOrder
<1>2. /\ order' \in [Coid -> [state : OrderState, left : 0..HeldSize,
                              filled : 0..HeldSize]]
      /\ OrderAmounts' /\ Sequenced'
  <2>1. CASE UNCHANGED order
    BY <1>1, <2>1 DEF CloseTypeOK, OrderAmounts, Sequenced
  <2>2. CASE Accepted
    <3>1. Sequenced'
      BY <1>1, <2>2, AcceptedFacts, CloseBounds DEF CloseTypeOK, Sequenced, Coid
    <3> QED BY <2>2, <3>1, AcceptedFacts DEF OrderAmounts
  <2> QED BY <1>1, <2>1, <2>2
<1>3. CASE /\ StartReads("sent") /\ place' = "verify"
           /\ UNCHANGED <<attempt, verdict>>
  <2>1. CloseTypeOK'
    BY <1>1, <1>2, <1>3, CloseBounds DEF CloseTypeOK, StartReads, CallPlace, Purpose
  <2>2. (EndedRead /\ Behind /\ ReadOnce /\ Answered)'
    BY <1>1, <1>3 DEF EndedRead, Behind, ReadOnce, Answered, StartReads
  <2> QED BY <1>2, <2>1, <2>2
<1>4. ASSUME NEW v \in {"close_unconfirmed", "error"},
             \/ Retry(v)
             \/ Finish(v),
             UNCHANGED readVars
      PROVE  CInv'
  <2>1. /\ attempt' \in 1..MaxRetries
        /\ attempt' >= attempt
        /\ verdict' \in Verdict
        /\ verdict' = "none" <=> place' # "done"
        /\ \/ place' = "fetch" /\ attempt' = attempt + 1
           \/ place' = "done" /\ attempt' = attempt
    BY <1>1, <1>4, RetryFacts DEF Verdict, Finish, CloseTypeOK
  <2>2. CloseTypeOK'
    BY <1>1, <1>2, <1>4, <2>1 DEF CloseTypeOK, readVars, CallPlace
  <2>3. (EndedRead /\ Behind /\ ReadOnce /\ Answered)'
    BY <1>1, <1>4, <2>1
    DEF CloseTypeOK, EndedRead, Behind, ReadOnce, Answered, readVars
  <2> QED BY <1>2, <2>2, <2>3
<1> QED BY <1>3, <1>4 DEF SendOrder

\* The second empty read in a row proves the position flat: the first one and
\* this one are not both wrong.
LEMMA VerifyStep == CInv /\ VerifyRead => CInv' /\ (verdict' # "none" => position = 0)
<1> SUFFICES ASSUME CInv, VerifyRead
             PROVE  CInv' /\ (verdict' # "none" => position = 0)
  OBVIOUS
<1> USE DEF CInv
<1>1. PICK read \in 0..position :
        /\ Reports(read)
        /\ IF read = 0 /\ flats + 1 >= FlatReads
           THEN Finish("closed") /\ UNCHANGED readVars
           ELSE /\ flats' = IF read = 0 THEN flats + 1 ELSE 0
                /\ reads' = reads - 1
                /\ UNCHANGED <<place, attempt, verdict, purpose>>
  BY DEF VerifyRead
<1>2. /\ place = "verify" /\ reads > 0
      /\ UNCHANGED <<position, want, order, sequence, orderQty, full, unconfirmed>>
  BY DEF VerifyRead
<1>3. /\ glitches' \in 0..MaxGlitches
      /\ glitches = 1 => glitches' = 1
      /\ read = 0 => position = 0 \/ (glitches = 0 /\ glitches' = 1)
  BY <1>1, ReportFacts
<1>4. (OrderAmounts /\ Sequenced)'
  BY <1>2 DEF OrderAmounts, Sequenced
<1>5. CASE read = 0 /\ flats + 1 >= FlatReads
  <2>1. place' = "done" /\ verdict' = "closed" /\ UNCHANGED <<attempt, readVars>>
    BY <1>1, <1>5 DEF Finish
  <2>2. flats = 1
    BY <1>5 DEF CloseTypeOK, FlatReads
  <2>3. position = 0
    BY <1>3, <1>5, <2>2 DEF ReadOnce
  <2>4. CloseTypeOK'
    BY <1>2, <1>3, <2>1 DEF CloseTypeOK, readVars, CallPlace, Verdict
  <2>5. (EndedRead /\ Behind /\ ReadOnce /\ Answered)'
    BY <1>2, <2>1, <2>3 DEF EndedRead, Behind, ReadOnce, Answered, readVars
  <2> QED BY <1>4, <2>3, <2>4, <2>5
<1>6. CASE ~(read = 0 /\ flats + 1 >= FlatReads)
  <2>1. /\ flats' = IF read = 0 THEN flats + 1 ELSE 0
        /\ reads' = reads - 1
        /\ UNCHANGED <<place, attempt, verdict, purpose>>
    BY <1>1, <1>6
  <2>2. flats' \in 0..1 /\ reads' \in 0..VerifyReads
    BY <1>2, <1>6, <2>1, CloseBounds DEF CloseTypeOK, FlatReads
  <2>3. CloseTypeOK'
    BY <1>2, <1>3, <2>1, <2>2 DEF CloseTypeOK
  <2>4. ReadOnce'
    BY <1>2, <1>3, <2>1 DEF ReadOnce
  <2>5. (EndedRead /\ Behind /\ Answered)' /\ verdict' = "none"
    BY <1>2, <2>1 DEF EndedRead, Behind, Answered
  <2> QED BY <1>4, <2>3, <2>4, <2>5
<1> QED BY <1>5, <1>6

LEMMA NotFlatStep == CInv /\ NotFlat => CInv'
<1> SUFFICES ASSUME CInv, NotFlat PROVE CInv'
  OBVIOUS
<1> USE DEF CInv
<1>1. /\ place = "verify" /\ Quiet
      /\ UNCHANGED <<orderQty, full, readVars, glitches>>
  BY DEF NotFlat, Quiet
<1>2. ASSUME NEW v \in {"partial_closed", "close_unconfirmed"},
             Finish(v) \/ Retry(v), sequence' = sequence,
             unconfirmed' \in BOOLEAN
      PROVE  CInv'
  <2>1. /\ attempt' \in 1..MaxRetries
        /\ attempt' >= attempt
        /\ verdict' \in Verdict
        /\ verdict' = "none" <=> place' # "done"
        /\ \/ place' = "fetch" /\ attempt' = attempt + 1
           \/ place' = "done" /\ attempt' = attempt
    BY <1>1, <1>2, RetryFacts DEF Verdict, Finish, CloseTypeOK
  <2>2. CloseTypeOK'
    BY <1>1, <1>2, <2>1 DEF Quiet, CloseTypeOK, readVars, CallPlace
  <2>3. (OrderAmounts /\ Sequenced)'
    BY <1>1, <1>2 DEF Quiet, OrderAmounts, Sequenced
  <2>4. (EndedRead /\ Behind /\ ReadOnce /\ Answered)'
    BY <1>1, <1>2, <2>1
    DEF Quiet, CloseTypeOK, EndedRead, Behind, ReadOnce, Answered, readVars
  <2> QED BY <2>2, <2>3, <2>4
<1>3. CASE /\ purpose = "ended"
           /\ sequence' = sequence + 1 /\ place' = "send"
           /\ UNCHANGED <<attempt, verdict, unconfirmed>>
  <2>1. order[sequence].state = "ended" /\ sequence < attempt
    BY <1>1, <1>3 DEF EndedRead, Behind
  <2>2. CloseTypeOK'
    BY <1>1, <1>3, <2>1 DEF Quiet, CloseTypeOK, readVars, CallPlace
  <2>3. OrderAmounts'
    BY <1>1 DEF Quiet, OrderAmounts
  <2>4. Sequenced'
    BY <1>1, <1>3, <2>1, CloseBounds DEF Quiet, Sequenced, CloseTypeOK, Coid
  <2>5. (EndedRead /\ Behind /\ ReadOnce /\ Answered)'
    BY <1>1, <1>3 DEF Quiet, EndedRead, Behind, ReadOnce, Answered, readVars
  <2> QED BY <2>2, <2>3, <2>4, <2>5
<1>4. unconfirmed \in BOOLEAN /\ TRUE \in BOOLEAN
  BY DEF CloseTypeOK
<1>5. CASE /\ purpose = "sent" /\ ~full
           /\ Finish("partial_closed")
           /\ UNCHANGED <<sequence, unconfirmed>>
  BY <1>2, <1>4, <1>5
<1>6. CASE /\ purpose = "live" \/ (purpose = "sent" /\ full)
           /\ unconfirmed' = TRUE
           /\ Retry("close_unconfirmed")
           /\ UNCHANGED sequence
  BY <1>2, <1>4, <1>6
<1>7. CASE /\ purpose \in {"gone", "refused", "live"}
           /\ Finish("close_unconfirmed")
           /\ UNCHANGED <<sequence, unconfirmed>>
  BY <1>2, <1>4, <1>7
<1> QED BY <1>3, <1>5, <1>6, <1>7 DEF NotFlat

\* What the exchange does leaves the call where it is, moves no order back
\* from its end, and only reduces the position.
LEMMA ExchangeStep ==
    CInv /\ ((\E c \in Coid : Fill(c) \/ Expire(c)) \/ OtherClose)
    => CInv' /\ position' \in 0..position /\ verdict' = verdict
<1> SUFFICES ASSUME CInv, (\E c \in Coid : Fill(c) \/ Expire(c)) \/ OtherClose
             PROVE  CInv' /\ position' \in 0..position /\ verdict' = verdict
  OBVIOUS
<1> USE DEF CInv
<1>1. ASSUME position' \in 0..position,
             order' \in [Coid -> [state : OrderState, left : 0..HeldSize,
                                  filled : 0..HeldSize]],
             \A c \in Coid :
                /\ order'[c].filled + order'[c].left
                     = order[c].filled + order[c].left
                /\ \/ order'[c].state = order[c].state
                   \/ order[c].state = "live" /\ order'[c].state = "ended",
             UNCHANGED <<want, place, attempt, sequence, orderQty, full, readVars,
                         unconfirmed, verdict, glitches>>
      PROVE  CInv' /\ position' \in 0..position /\ verdict' = verdict
  <2>1. CloseTypeOK'
    BY <1>1, CloseBounds DEF CloseTypeOK, readVars
  <2>2. OrderAmounts'
    BY <1>1 DEF OrderAmounts
  <2>3. Sequenced'
    BY <1>1 DEF Sequenced
  <2>4. EndedRead'
    BY <1>1, CloseBounds DEF EndedRead, CloseTypeOK, Coid, readVars
  <2>5. (Behind /\ ReadOnce /\ Answered)'
    BY <1>1, CloseBounds DEF Behind, ReadOnce, Answered, CloseTypeOK, readVars
  <2> QED BY <1>1, <2>1, <2>2, <2>3, <2>4, <2>5
<1>2. ASSUME NEW c \in Coid, Fill(c)
      PROVE  CInv' /\ position' \in 0..position /\ verdict' = verdict
  <2>1. PICK q \in 1..Lesser(order[c].left, position) :
            /\ position' = position - q
            /\ order' = [order EXCEPT
                   ![c].filled = @ + q,
                   ![c].left = @ - q,
                   ![c].state = IF @ = "live" /\ (q = order[c].left \/ q = position)
                                THEN "ended" ELSE @]
    BY <1>2 DEF Fill
  <2>2. /\ order[c].left \in 0..HeldSize /\ order[c].filled \in 0..HeldSize
        /\ order[c].state = "live" /\ position \in 0..HeldSize
        /\ order[c].filled + order[c].left <= HeldSize
    BY <1>2 DEF Fill, CloseTypeOK, OrderAmounts
  <2>3. q >= 1 /\ q <= order[c].left /\ q <= position /\ q \in Nat
    BY <2>2, CloseBounds DEF Lesser
  <2>4. position' \in 0..position
    BY <2>1, <2>2, <2>3, CloseBounds
  <2>5. PICK s \in {"live", "ended"} :
          order'[c] = [state |-> s, left |-> order[c].left - q,
                       filled |-> order[c].filled + q]
    BY <2>1, <2>2 DEF CloseTypeOK
  <2>6. \A d \in Coid \ {c} : order'[d] = order[d]
    BY <2>1 DEF CloseTypeOK
  <2>7. order'[c] \in [state : OrderState, left : 0..HeldSize, filled : 0..HeldSize]
    BY <2>2, <2>3, <2>5, CloseBounds DEF OrderState
  <2>8. order' \in [Coid -> [state : OrderState, left : 0..HeldSize,
                             filled : 0..HeldSize]]
    <3>1. order' = [d \in Coid |-> order'[d]]
      BY <2>1 DEF CloseTypeOK
    <3>2. \A d \in Coid : order'[d] \in [state : OrderState, left : 0..HeldSize,
                                         filled : 0..HeldSize]
      BY <2>6, <2>7 DEF CloseTypeOK
    <3> QED BY <3>1, <3>2
  <2>9. \A d \in Coid :
            /\ order'[d].filled + order'[d].left = order[d].filled + order[d].left
            /\ \/ order'[d].state = order[d].state
               \/ order[d].state = "live" /\ order'[d].state = "ended"
    BY <2>2, <2>3, <2>5, <2>6, CloseBounds
  <2> QED BY <1>1, <1>2, <2>4, <2>8, <2>9 DEF Fill
<1>3. ASSUME NEW c \in Coid, Expire(c)
      PROVE  CInv' /\ position' \in 0..position /\ verdict' = verdict
  <2>1. order' = [order EXCEPT ![c].state = "ended"] /\ order[c].state = "live"
    BY <1>3 DEF Expire
  <2>2. order' \in [Coid -> [state : OrderState, left : 0..HeldSize,
                             filled : 0..HeldSize]]
    BY <2>1 DEF CloseTypeOK, OrderState
  <2>3. \A d \in Coid :
            /\ order'[d].filled + order'[d].left = order[d].filled + order[d].left
            /\ \/ order'[d].state = order[d].state
               \/ order[d].state = "live" /\ order'[d].state = "ended"
    BY <2>1 DEF CloseTypeOK
  <2>4. position' \in 0..position
    BY <1>3, CloseBounds DEF Expire, CloseTypeOK
  <2> QED BY <1>1, <1>3, <2>2, <2>3, <2>4 DEF Expire
<1>4. CASE OtherClose
  <2>1. position' \in 0..position
    BY <1>4, CloseBounds DEF OtherClose, CloseTypeOK
  <2> QED BY <1>1, <1>4, <2>1 DEF OtherClose, CloseTypeOK
<1> QED BY <1>2, <1>3, <1>4

LEMMA CInvNext == CInv /\ [CloseNext]_closeVars => CInv'
<1> SUFFICES ASSUME CInv, [CloseNext]_closeVars PROVE CInv'
  OBVIOUS
<1>1. CASE UNCHANGED closeVars
  BY <1>1
  DEF CInv, closeVars, CloseTypeOK, OrderAmounts, Sequenced, EndedRead, Behind,
      ReadOnce, Answered
<1>2. CASE CloseNext
  BY <1>2, ReadStep, ReadErrorSteps, SendStep, VerifyStep, NotFlatStep,
     ExchangeStep
  DEF CloseNext
<1> QED BY <1>1, <1>2

LEMMA CInvHolds == CloseSpec => []CInv
BY CInvInit, CInvNext, PTL DEF CloseSpec

\* The place, the attempt and the ids of a call of _close_position, and the
\* fills of its orders, have the values they are declared with: it stays within
\* its retries and its reads of the position (exchange.py).
THEOREM CloseTypeCorrect == CloseSpec => []CloseTypeOK
<1>1. CInv => CloseTypeOK
  BY DEF CInv
<1> QED BY <1>1, CInvHolds, PTL

-----------------------------------------------------------------------------
\* At any moment at most one order of the call can still fill: all others are
\* under ids that are over or were not used.
THEOREM OneOrderAlive == CloseSpec => []OneCloseAlive
<1>1. CInv => OneCloseAlive
  <2> SUFFICES ASSUME CInv PROVE OneCloseAlive
    OBVIOUS
  <2> DEFINE Alive == {c \in Coid : order[c].state = "live"}
  <2>1. sequence \in Nat /\ Coid \subseteq Nat
    BY CloseBounds DEF CInv, CloseTypeOK, Coid
  <2>2. \A c \in Coid : order[c].state = "live" => c = sequence
    BY <2>1 DEF CInv, Sequenced
  <2>3. Alive \subseteq {sequence}
    BY <2>2
  <2>4. IsFiniteSet({sequence}) /\ Cardinality({sequence}) = 1
    BY FS_Singleton
  <2>5. Cardinality(Alive) <= 1
    BY <2>3, <2>4, FS_Subset
  <2> QED BY <2>5 DEF OneCloseAlive
<1> QED BY <1>1, CInvHolds, PTL

\* A call answers once, answers "closed" only when the exchange holds nothing
\* although one read of the position may be wrong, and never adds exposure.
THEOREM CloseKeepsContract == CloseSpec => ImplementsClose
<1>1. CloseInit => Contract!ContractInit
  BY CloseBounds DEF CloseInit, Contract!ContractInit
<1>2. CInv /\ [CloseNext]_closeVars
      => [Contract!Shrink \/ Contract!Reply]_(Contract!contractVars)
  <2> SUFFICES ASSUME CInv, [CloseNext]_closeVars
               PROVE  \/ Contract!Shrink \/ Contract!Reply
                      \/ UNCHANGED <<position, verdict>>
    BY DEF Contract!contractVars
  <2>1. CASE UNCHANGED closeVars
    BY <2>1 DEF closeVars
  <2>2. CASE (\E c \in Coid : Fill(c) \/ Expire(c)) \/ OtherClose
    BY <2>2, ExchangeStep DEF Contract!Shrink
  <2>3. ASSUME ReadPositions \/ NetworkFails \/ ReadRefused \/ LookUpOrder
               \/ LookUpFails \/ SendOrder \/ VerifyRead \/ NotFlat
        PROVE  \/ Contract!Reply \/ UNCHANGED <<position, verdict>>
    <3>1. position' = position /\ place # "done"
      BY <2>3
      DEF ReadPositions, NetworkFails, ReadRefused, LookUpOrder, LookUpFails,
          SendOrder, VerifyRead, NotFlat
    <3>2. verdict = "none" /\ verdict' \in Verdict
      BY <2>3, <3>1, CInvNext DEF CInv, Answered, CloseNext, CloseTypeOK
    <3>3. verdict' = "closed" => position = 0
      <4>1. CASE VerifyRead
        BY <4>1, VerifyStep
      <4>2. CASE ~VerifyRead
        BY <2>3, <3>2, <4>2
        DEF ReadPositions, NetworkFails, ReadRefused, LookUpOrder, LookUpFails,
            SendOrder, NotFlat, Retry, Finish
      <4> QED BY <4>1, <4>2
    <3> QED BY <3>1, <3>2, <3>3
        DEF Contract!Reply, Contract!Answers, Verdict
  <2> QED BY <2>1, <2>2, <2>3 DEF CloseNext
<1> QED
  BY <1>1, <1>2, CInvHolds, PTL
  DEF CloseSpec, ImplementsClose, Contract!ContractSpec
-----------------------------------------------------------------------------
(***************************************************************************)
(* A market entry (TradeEntry).                                            *)
(***************************************************************************)
Sizes ==
    /\ filled \in 0..EntrySize /\ contracts \in 0..filled /\ seen \in 0..filled
    /\ cover \in 0..EntrySize
    /\ filled = EntrySize => entry # "live"
    /\ entry \in EntryState

\* Until the answer; before the order; before the protection.
Opening ==
    /\ step \in Step
    /\ step # "done" => outcome = "none" /\ ~rolledBack
    /\ step = "submit" => entry = "none" /\ filled = 0
    /\ step \in {"submit", "answered", "cancel", "refetch", "wait", "targets"}
       => book = {} /\ known = {} /\ errors = {} /\ ~ambiguous

\* What an answer of the exchange to the order stands for.
Fills ==
    /\ step \in {"answered", "wait"} => (confirmed <=> ~partial)
    /\ step = "answered" => /\ partial <=> (seen > 0 /\ seen < EntrySize)
                            /\ seen \in {0, EntrySize} => cover = EntrySize
    /\ step = "wait" => cover = EntrySize /\ ~partial
    /\ step = "cancel" => partial
    /\ step = "refetch" => partial /\ ~confirmed

\* What is protected covers the fill, and what may still come: a remainder is
\* either over, or covered, or flagged.
Covers ==
    step \in {"targets", "stops", "check"} =>
        /\ \/ cover = EntrySize
           \/ partial /\ ~confirmed
           \/ "raced" \in marks
           \/ entry # "live" /\ filled <= cover
        /\ "waited" \notin marks /\ (~partial \/ confirmed) => entry # "live"

\* The protective orders on the exchange are those of the result and one whose
\* answer was lost.
Listing ==
    /\ step # "done" => book \subseteq known \cup {"lost"}
    /\ "lost" \in book => ambiguous \/ step = "done"
    /\ step \in {"stops", "check"} /\ "triggered" \notin marks => known \subseteq book
    /\ step = "check" => known \cap {"stop", "trail"} # {} \/ errors \cap {"stop", "trail"} # {}

\* The rollback.
Unwinding ==
    /\ step \in {"cleanup", "close"} /\ "waited" \notin marks /\ ~unresolved
       => entry # "live"
    /\ step = "close" /\ ~unresolved => book \subseteq {"lost", "trail"}

EInv ==
    /\ Sizes /\ Opening /\ Fills /\ Covers /\ Listing /\ Unwinding
    /\ FillIsStopped /\ ErrorIsHarmless /\ RolledBackIsOver

LEMMA EInvInit == EntryInit => EInv
<1> SUFFICES ASSUME EntryInit PROVE EInv
  OBVIOUS
<1>1. EntrySize \in Nat \ {0}
  BY EntryAssumption
<1> QED
  BY <1>1
  DEF EntryInit, EInv, Sizes, Opening, Fills, Covers, Listing, Unwinding, Step,
      EntryState, FillIsStopped, ErrorIsHarmless, RolledBackIsOver

LEMMA OrderSteps ==
    EInv /\ (Reject \/ Submit \/ SubmitUnclear \/ SlippageExceeded \/ Classify) => EInv'
<1> SUFFICES ASSUME EInv, Reject \/ Submit \/ SubmitUnclear \/ SlippageExceeded \/ Classify
             PROVE  EInv'
  OBVIOUS
<1> USE EntryAssumption
<1> USE DEF EInv, Sizes, Opening, Fills, Covers, Listing, Unwinding, Step,
      EntryState, FillIsStopped, ErrorIsHarmless, RolledBackIsOver, exchangeVars, answerVars
<1>1. CASE Reject
  BY <1>1 DEF Reject, Answer
<1>2. CASE Submit
  <2>1. (partial' <=> (seen' > 0 /\ seen' < EntrySize)) /\ (confirmed' <=> ~partial')
    BY <1>2, Zenon DEF Submit
  <2>2. /\ filled' \in 0..EntrySize /\ contracts' = filled' /\ seen' = filled'
        /\ entry' \in IF filled' < EntrySize THEN {"live", "ended"} ELSE {"ended"}
        /\ cover' = IF seen' > 0 THEN seen' ELSE EntrySize
        /\ step = "submit" /\ step' = "answered"
        /\ UNCHANGED <<book, known, errors, ambiguous, outcome, reconcile, rolledBack, marks>>
    BY <1>2 DEF Submit, Accept, FillOf, GoOn
  <2>3. cover' = EntrySize \/ seen' \notin {0, EntrySize}
    BY <2>2
  <2> QED BY <2>1, <2>2, <2>3
<1>3. CASE SubmitUnclear
  BY <1>3 DEF SubmitUnclear, Accept, Answer
<1>4. CASE SlippageExceeded
  <2>1. PICK closed \in BOOLEAN : CloseFill(closed) /\ Answer("error", ~closed, closed)
    BY <1>4 DEF SlippageExceeded
  <2>2. /\ rolledBack' => "slippage" \in marks'
        /\ ~reconcile' => rolledBack'
    BY <1>4, <2>1, Zenon DEF SlippageExceeded, Answer
  <2> QED BY <1>4, <2>1, <2>2 DEF SlippageExceeded, CloseFill, Answer
<1>5. CASE Classify
  <2>1. CASE partial /\ GoOn("cancel")
    BY <1>5, <2>1 DEF Classify, GoOn
  <2>2. CASE seen = EntrySize /\ GoOn("targets")
    BY <1>5, <2>2 DEF Classify, GoOn
  <2>3. CASE seen = 0 /\ entry = "live" /\ GoOn("wait")
    BY <1>5, <2>3 DEF Classify, GoOn
  <2>4. CASE seen = 0 /\ filled = 0 /\ entry = "ended" /\ Answer("error", FALSE, FALSE)
    BY <1>5, <2>4 DEF Classify, Answer
  <2> QED BY <1>5, <2>1, <2>2, <2>3, <2>4 DEF Classify
<1> QED BY <1>1, <1>2, <1>3, <1>4, <1>5

LEMMA SettleSteps ==
    EInv /\ (CancelRemainder \/ Refetch \/ Wait) => EInv'
<1> SUFFICES ASSUME EInv, CancelRemainder \/ Refetch \/ Wait PROVE  EInv'
  OBVIOUS
<1> USE EntryAssumption
<1> USE DEF EInv, Sizes, Opening, Fills, Covers, Listing, Unwinding, Step,
      EntryState, FillIsStopped, ErrorIsHarmless, RolledBackIsOver, exchangeVars, answerVars
<1>1. CASE CancelRemainder
  <2>1. PICK ok \in BOOLEAN :
            /\ CancelEntry(ok)
            /\ confirmed' = ok
            /\ cover' = IF ok THEN seen ELSE EntrySize
            /\ GoOn(IF ok THEN "targets" ELSE "refetch")
            /\ marks' = IF ok /\ filled > seen THEN marks \cup {"raced"} ELSE marks
    BY <1>1 DEF CancelRemainder
  <2>2. CASE ok
    BY <1>1, <2>1, <2>2 DEF CancelRemainder, CancelEntry, GoOn
  <2>3. CASE ~ok
    <3>1. ~confirmed'
      BY <2>1, <2>3, Zenon
    <3> QED BY <1>1, <2>1, <2>3, <3>1 DEF CancelRemainder, CancelEntry, GoOn
  <2> QED BY <2>2, <2>3
<1>2. CASE Refetch
  <2>1. /\ step = "refetch" /\ step' = "targets"
        /\ cover' = IF confirmed' THEN seen' ELSE EntrySize
        /\ UNCHANGED <<entry, filled, contracts, book, outcome, reconcile, rolledBack,
                       known, errors, ambiguous, unresolved, marks>>
    BY <1>2 DEF Refetch, GoOn
  <2>2. CASE /\ seen' = filled
             /\ confirmed' = (entry = "ended")
             /\ partial' = (filled < EntrySize)
    <3>1. (confirmed' <=> entry = "ended") /\ (partial' <=> filled < EntrySize)
      BY <2>2, Zenon
    <3>2. seen' = filled
      BY <2>2
    <3> QED BY <2>1, <3>1, <3>2
  <2>3. CASE UNCHANGED <<seen, confirmed, partial>>
    BY <2>1, <2>3
  <2> QED BY <1>2, <2>2, <2>3 DEF Refetch
<1>3. CASE Wait
  <2>1. /\ step = "wait" /\ marks' = marks \cup {"waited"}
        /\ UNCHANGED <<filled, contracts, book, confirmed, cover, known, errors,
                       ambiguous, unresolved>>
    BY <1>3 DEF Wait
  <2>2. CASE /\ filled > 0
             /\ seen' = filled
             /\ GoOn("targets")
             /\ UNCHANGED entry
    BY <2>1, <2>2 DEF GoOn
  <2>3. CASE /\ Answer("error", TRUE, FALSE)
             /\ entry' \in {"ended", entry}
             /\ UNCHANGED <<seen, partial>>
    BY <2>1, <2>3 DEF Answer
  <2> QED BY <1>3, <2>2, <2>3 DEF Wait
<1> QED BY <1>1, <1>2, <1>3

LEMMA ProtectionSteps ==
    EInv /\ (PlaceTargets \/ PlaceStop \/ Protected) => EInv'
<1> SUFFICES ASSUME EInv, PlaceTargets \/ PlaceStop \/ Protected PROVE  EInv'
  OBVIOUS
<1> USE EntryAssumption
<1> USE DEF EInv, Sizes, Opening, Fills, Covers, Listing, Unwinding, Step,
      EntryState, FillIsStopped, ErrorIsHarmless, RolledBackIsOver, exchangeVars, answerVars
<1>1. CASE PlaceTargets
  BY <1>1 DEF PlaceTargets, Place, Placed, Refused, TimedOut, GoOn
<1>2. CASE PlaceStop
  BY <1>2 DEF PlaceStop, Place, Placed, Refused, TimedOut, GoOn
<1>3. CASE Protected
  <2>1. /\ outcome' \in {"partial", "filled"}
        /\ ~reconcile' => ~partial \/ confirmed
        /\ ~rolledBack'
    BY <1>3, Zenon DEF Protected, Answer
  <2>2. /\ step = "check" /\ step' = "done"
        /\ errors \cap {"stop", "target"} = {}
        /\ "trail" \in errors => "stop" \in known
        /\ UNCHANGED <<entry, filled, contracts, book, seen, partial, confirmed,
                       cover, known, errors, ambiguous, unresolved, marks>>
    BY <1>3 DEF Protected, Failed, Answer
  <2>3. FillIsStopped'
    <3> SUFFICES ASSUME ~reconcile', marks \cap {"raced", "triggered"} = {}
                 PROVE  /\ book \cap {"stop", "trail"} # {}
                        /\ contracts <= cover
                        /\ entry = "live" => cover = EntrySize
      BY <2>2
    <3>1. known \subseteq book /\ known \cap {"stop", "trail"} # {}
      BY <2>2
    <3>2. \/ cover = EntrySize
          \/ entry # "live" /\ filled <= cover
      BY <2>1, <2>2
    <3> QED BY <3>1, <3>2
  <2> QED BY <2>1, <2>2, <2>3
<1> QED BY <1>1, <1>2, <1>3

LEMMA RollbackSteps ==
    EInv /\ (Unprotected \/ CleanUp \/ CloseUnprotected) => EInv'
<1> SUFFICES ASSUME EInv, Unprotected \/ CleanUp \/ CloseUnprotected PROVE  EInv'
  OBVIOUS
<1> USE EntryAssumption
<1> USE DEF EInv, Sizes, Opening, Fills, Covers, Listing, Unwinding, Step,
      EntryState, FillIsStopped, ErrorIsHarmless, RolledBackIsOver, exchangeVars, answerVars
<1>1. CASE Unprotected
  BY <1>1 DEF Unprotected, CancelEntry, GoOn
<1>2. CASE CleanUp
  BY <1>2 DEF CleanUp, Cleaned, GoOn
<1>3. CASE CloseUnprotected
  <2>1. PICK closed \in BOOLEAN :
            /\ CloseFill(closed)
            /\ IF ~closed THEN Answer("partial_protection", FALSE, FALSE)
               ELSE IF unresolved \/ ambiguous
               THEN Answer("manual_review", TRUE, FALSE)
               ELSE Answer("error", FALSE, TRUE)
    BY <1>3 DEF CloseUnprotected
  <2>2. /\ step = "close" /\ step' = "done"
        /\ contracts' \in 0..contracts
        /\ UNCHANGED <<entry, filled, book, seen, partial, confirmed, cover, known,
                       errors, ambiguous, unresolved, marks>>
    BY <1>3, <2>1 DEF CloseUnprotected, CloseFill, Answer
  <2>3. CASE ~closed \/ unresolved \/ ambiguous
    <3>1. outcome' \in {"partial_protection", "manual_review"} /\ ~rolledBack'
      BY <2>1, <2>3 DEF Answer
    <3> QED BY <2>2, <3>1
  <2>4. CASE closed /\ ~unresolved /\ ~ambiguous
    <3>1. outcome' = "error" /\ rolledBack' /\ contracts' = 0
      BY <2>1, <2>4 DEF Answer, CloseFill
    <3>2. "trail" \notin known => book = {}
      BY <2>2, <2>4
    <3>3. RolledBackIsOver'
      BY <2>2, <2>4, <3>1, <3>2
    <3> QED BY <2>2, <3>1, <3>3
  <2> QED BY <2>3, <2>4
<1> QED BY <1>1, <1>2, <1>3

LEMMA FillSteps ==
    EInv /\ (EntryFills \/ EntryEnds \/ \E o \in Protective : Trigger(o)) => EInv'
<1> SUFFICES ASSUME EInv, EntryFills \/ EntryEnds \/ \E o \in Protective : Trigger(o)
             PROVE  EInv'
  OBVIOUS
<1> USE EntryAssumption
<1> USE DEF EInv, Sizes, Opening, Fills, Covers, Listing, Unwinding, Step,
      EntryState, FillIsStopped, ErrorIsHarmless, RolledBackIsOver, exchangeVars, answerVars,
      callVars
<1>1. CASE EntryFills
  <2>1. /\ entry = "live" /\ filled' \in (filled + 1)..EntrySize
        /\ contracts' \in 0..filled'
        /\ entry' \in {"live", "ended"}
        /\ filled' = EntrySize => entry' = "ended"
        /\ UNCHANGED <<step, seen, partial, confirmed, cover, known, errors, ambiguous,
                       unresolved, outcome, reconcile, rolledBack, book, marks>>
    <3>1. PICK n \in (filled + 1)..EntrySize :
              filled' = n /\ contracts' = contracts + (n - filled)
      BY <1>1 DEF EntryFills
    <3>2. contracts + (n - filled) \in 0..n
      OBVIOUS
    <3>3. contracts' \in 0..filled'
      BY <3>1, <3>2
    <3> QED BY <1>1, <3>3 DEF EntryFills
  <2>2. (Sizes /\ Opening /\ Fills)'
    BY <2>1
  <2>3. (Covers /\ Listing /\ Unwinding)'
    BY <2>1
  <2>4. (ErrorIsHarmless /\ RolledBackIsOver)'
    BY <2>1
  <2>5. contracts' <= EntrySize
    BY <2>1
  <2>6. FillIsStopped'
    BY <2>1, <2>5
  <2> QED BY <2>2, <2>3, <2>4, <2>6
<1>2. CASE EntryEnds
  BY <1>2 DEF EntryEnds
<1>3. ASSUME NEW o \in Protective, Trigger(o) PROVE EInv'
  <2>1. /\ o \in book /\ contracts > 0
        /\ book' = book \ {o} /\ marks' = marks \cup {"triggered"}
        /\ contracts' \in 0..(contracts - 1)
        /\ UNCHANGED <<step, seen, partial, confirmed, cover, known, errors, ambiguous,
                       unresolved, outcome, reconcile, rolledBack, entry, filled>>
    BY <1>3 DEF Trigger
  <2>2. (Sizes /\ Opening /\ Fills)'
    BY <2>1
  <2>3. (Covers /\ Listing /\ Unwinding)'
    BY <2>1
  <2>4. (FillIsStopped /\ ErrorIsHarmless /\ RolledBackIsOver)'
    BY <2>1
  <2> QED BY <2>2, <2>3, <2>4
<1> QED BY <1>1, <1>2, <1>3

LEMMA EInvNext == EInv /\ [EntryNext]_entryVars => EInv'
<1> SUFFICES ASSUME EInv, [EntryNext]_entryVars PROVE EInv'
  OBVIOUS
<1>1. CASE UNCHANGED entryVars
  BY <1>1
  DEF entryVars, exchangeVars, answerVars, EInv, Sizes, Opening, Fills, Covers,
      Listing, Unwinding, FillIsStopped, ErrorIsHarmless, RolledBackIsOver
<1>2. CASE EntryNext
  BY <1>2, OrderSteps, SettleSteps, ProtectionSteps, RollbackSteps, FillSteps
  DEF EntryNext
<1> QED BY <1>1, <1>2

LEMMA EInvHolds == EntrySpec => []EInv
BY EInvInit, EInvNext, PTL DEF EntrySpec

\* A market entry that is reported filled, with nothing to reconcile, has a
\* stop for all that is or will be filled.
THEOREM FilledIsStopped == EntrySpec => []FillIsStopped
<1>1. EInv => FillIsStopped
  BY DEF EInv
<1> QED BY <1>1, EInvHolds, PTL

\* A bare error stands for an order that had no fill and gets none: the queue
\* may try the alert again.
THEOREM ErrorsAreHarmless == EntrySpec => []ErrorIsHarmless
<1>1. EInv => ErrorIsHarmless
  BY DEF EInv
<1> QED BY <1>1, EInvHolds, PTL

\* An entry that is reported as rolled back has left nothing on the exchange,
\* but for the paths the property excepts.
THEOREM RolledBackIsGone == EntrySpec => []RolledBackIsOver
<1>1. EInv => RolledBackIsOver
  BY DEF EInv
<1> QED BY <1>1, EInvHolds, PTL
\* The values of the variables of an entry.
Flags ==
    /\ moving \in BOOLEAN /\ partial \in BOOLEAN /\ confirmed \in BOOLEAN
    /\ ambiguous \in BOOLEAN /\ unresolved \in BOOLEAN
    /\ reconcile \in BOOLEAN /\ rolledBack \in BOOLEAN

Lists ==
    /\ book \subseteq Protective /\ known \subseteq Protective \ {"lost"}
    /\ errors \subseteq {"target", "stop", "trail"}
    /\ outcome \in Verdicts /\ marks \subseteq Mark

LEMMA EntryTypesStart == EntryInit => Flags /\ Lists
BY DEF EntryInit, Flags, Lists, Verdicts

LEMMA FlagsNext == ASSUME Flags, [EntryNext]_entryVars PROVE Flags'
<1> USE DEF Flags
<1>1. CASE Reject \/ SubmitUnclear \/ SlippageExceeded \/ Classify
  BY <1>1, Zenon DEF Reject, SubmitUnclear, SlippageExceeded, Classify, Answer, GoOn, answerVars
<1>2. CASE Submit
  BY <1>2, Zenon DEF Submit, GoOn, answerVars
<1>3. CASE CancelRemainder
  BY <1>3, Zenon DEF CancelRemainder, GoOn, answerVars
<1>4. CASE PlaceTargets \/ PlaceStop
  BY <1>4, Zenon DEF PlaceTargets, PlaceStop, Place, Placed, Refused, TimedOut, GoOn, answerVars
<1>5. CASE Protected \/ Unprotected
  BY <1>5, Zenon DEF Protected, Unprotected, Answer, GoOn, answerVars
<1>6. CASE CleanUp \/ CloseUnprotected
  BY <1>6, Zenon DEF CleanUp, CloseUnprotected, Answer, GoOn, answerVars
<1>7. CASE UNCHANGED callVars \/ UNCHANGED entryVars
  BY <1>7, Zenon DEF callVars, entryVars, answerVars
<1>8. CASE Refetch
  <2>1. /\ UNCHANGED <<moving, ambiguous, unresolved, answerVars>>
        /\ \/ (confirmed' = (entry = "ended")) /\ (partial' = (filled < EntrySize))
           \/ UNCHANGED <<confirmed, partial>>
    BY <1>8, Zenon DEF Refetch, GoOn
  <2>2. (entry = "ended") \in BOOLEAN /\ (filled < EntrySize) \in BOOLEAN
    BY SMT
  <2>3. confirmed' \in BOOLEAN /\ partial' \in BOOLEAN
    BY <2>1, <2>2, Zenon
  <2> QED BY <2>1, <2>3 DEF answerVars
<1>9. CASE Wait
  <2>1. /\ UNCHANGED <<moving, confirmed, ambiguous, unresolved>>
        /\ (partial' = (filled < EntrySize)) \/ UNCHANGED partial
        /\ UNCHANGED answerVars \/ Answer("error", TRUE, FALSE)
    BY <1>9, Zenon DEF Wait, GoOn
  <2>2. (filled < EntrySize) \in BOOLEAN
    BY SMT
  <2>3. partial' \in BOOLEAN /\ reconcile' \in BOOLEAN /\ rolledBack' \in BOOLEAN
    BY <2>1, <2>2, Zenon DEF answerVars, Answer
  <2> QED BY <2>1, <2>3
<1> QED BY <1>1, <1>2, <1>3, <1>4, <1>5, <1>6, <1>7, <1>8, <1>9
       DEF EntryNext, EntryFills, EntryEnds, Trigger

LEMMA ListsNext == ASSUME Lists, [EntryNext]_entryVars PROVE Lists'
<1> USE DEF Lists, Verdicts, Mark, Protective
<1>1. CASE Reject \/ Submit \/ SubmitUnclear \/ SlippageExceeded \/ Classify
  BY <1>1 DEF Reject, Submit, SubmitUnclear, SlippageExceeded, Classify, Accept, CloseFill,
              exchangeVars, Answer, GoOn, answerVars
<1>3. CASE CancelRemainder \/ Refetch \/ Wait
  BY <1>3 DEF CancelRemainder, Refetch, Wait, exchangeVars, Answer, GoOn, answerVars
<1>4. CASE PlaceTargets
  BY <1>4 DEF PlaceTargets, Place, Placed, Refused, TimedOut, GoOn, answerVars
<1>9. CASE PlaceStop
  BY <1>9 DEF PlaceStop, Place, Placed, Refused, TimedOut, GoOn, answerVars
<1>5. CASE Protected \/ Unprotected
  BY <1>5 DEF Protected, Unprotected, exchangeVars, Answer, GoOn, answerVars
<1>6. CASE CleanUp
  BY <1>6 DEF CleanUp, GoOn, answerVars
<1>8. CASE CloseUnprotected
  BY <1>8 DEF CloseUnprotected, CloseFill, Answer
<1>7. CASE UNCHANGED entryVars \/ EntryFills \/ EntryEnds \/ \E o \in Protective : Trigger(o)
  BY <1>7 DEF callVars, entryVars, exchangeVars, answerVars, EntryFills, EntryEnds, Trigger
<1> QED BY <1>1, <1>3, <1>4, <1>5, <1>6, <1>7, <1>8, <1>9 DEF EntryNext

\* The steps, fills and marks of an entry have the values they are declared
\* with (execute_trade), whatever the exchange answers.
THEOREM EntryTypeCorrect == EntrySpec => []EntryTypeOK
<1>1. EInv /\ Flags /\ Lists => EntryTypeOK
  BY DEF EInv, Sizes, Opening, Flags, Lists, EntryTypeOK
<1>2. EntryInit => EInv /\ Flags /\ Lists
  BY EInvInit, EntryTypesStart
<1>3. EInv /\ Flags /\ Lists /\ [EntryNext]_entryVars => (EInv /\ Flags /\ Lists)'
  BY EInvNext, FlagsNext, ListsNext
<1> QED BY <1>1, <1>2, <1>3, PTL DEF EntrySpec

-----------------------------------------------------------------------------
(***************************************************************************)
(* A DCA strategy (DcaStrategy).                                           *)
(***************************************************************************)
\* What the stores and the lists hold is a strategy or nothing; a position
\* object out of memory is one a check or a close still works on.
Stored ==
    /\ mem \in Record \cup {Gone} /\ hash \in Record \cup {Gone}
    /\ listing \in Record \cup {Gone} /\ dcaRow \in Record
    /\ ownObject \in [Holder -> Record \cup {Gone}]
    /\ at # "idle" \/ manual # "idle" \/ marked => mem # Gone
    /\ \A h \in Holder : ~Works(h) => ownObject[h] = Gone
    /\ shared => /\ ownObject["check"] # Gone
                 /\ ownObject["check"] = ownObject["endpoint"]

\* The entries bought are those whose numbers are used; the next one is within
\* the maximum when it is sent.
EntriesUsed ==
    /\ used \subseteq 1..MaxEntries
    /\ bought = Cardinality(used)
    /\ at = "enter" => Object("check").entries < MaxEntries

DInv == Stored /\ EntriesUsed

LEMMA Somewhere == \A r \in Record : r # Gone
<1>1. \A r \in Record : r.status # "gone"
  BY DEF Record
<1>2. Gone.status = "gone"
  BY DEF Gone
<1> QED BY <1>1, <1>2

LEMMA RecordFacts ==
  ASSUME NEW r \in Record
  PROVE  /\ Migrated(r) \in Record /\ Migrated(r).entries = r.entries
         /\ r.entries \in 1..MaxEntries /\ r.main \in StopOrder /\ r.ids \subseteq StopOrder
         /\ \A stuck \in SUBSET (r.ids \cup {r.main}) :
              CleanedUp(r, stuck) \in Record /\ CleanedUp(r, stuck).entries = r.entries
<1>1. /\ r.entries \in 1..MaxEntries /\ r.main \in StopOrder /\ r.ids \subseteq StopOrder
  BY DEF Record
<1>2. Migrated(r) \in Record /\ Migrated(r).entries = r.entries
  BY DEF Record, Migrated
<1>3. ASSUME NEW stuck \in SUBSET (r.ids \cup {r.main})
      PROVE  CleanedUp(r, stuck) \in Record /\ CleanedUp(r, stuck).entries = r.entries
  BY <1>1 DEF Record, CleanedUp
<1> QED BY <1>1, <1>2, <1>3

LEMMA DInvInit == DcaInit => DInv
<1> SUFFICES ASSUME DcaInit PROVE DInv
  OBVIOUS
<1> USE DcaAssumption
<1>1. Legacy \in Record
  BY DEF Legacy, Record, StopOrder, EntryStop
<1>2. Stored
  BY <1>1, Somewhere DEF DcaInit, Stored
<1>3. Cardinality({1}) = 1
  BY FS_Singleton
<1> QED BY <1>2, <1>3 DEF DcaInit, DInv, EntriesUsed

\* Whoever works on a strategy works on a record.
LEMMA ObjectFacts ==
  ASSUME DInv, NEW h \in Holder, mem # Gone
  PROVE  /\ Object(h) \in Record
         /\ ~Works(h) => Object(h) = mem
BY DEF DInv, Stored, Object

LEMMA WorksFacts ==
  ASSUME DInv, NEW h \in Holder, Works(h)
  PROVE  mem # Gone
BY DEF DInv, Stored, Works

\* A record that takes the place of the one in memory leaves those who work on
\* the old one with what they had.
LEMMA ReplaceFacts ==
  ASSUME DInv, NEW r \in Record, Replace(r)
  PROVE  /\ mem' = r /\ mem' # Gone
         /\ ownObject' \in [Holder -> Record \cup {Gone}]
         /\ \A h \in Holder : ~Works(h) => ownObject'[h] = ownObject[h]
         /\ \A h \in Holder : Works(h) => Object(h)' = Object(h)
         /\ shared' => /\ ownObject'["check"] # Gone
                       /\ ownObject'["check"] = ownObject'["endpoint"]
<1>1. mem' = r /\ mem' # Gone
  BY Somewhere DEF Replace
<1>2. \A h \in Holder : ownObject'[h] = IF Works(h) /\ ownObject[h] = Gone
                                       THEN mem ELSE ownObject[h]
  BY DEF Replace
<1>3. ownObject' \in [Holder -> Record \cup {Gone}]
  BY DEF Replace, DInv, Stored
<1>4. \A h \in Holder : Works(h) => Object(h)' = Object(h)
  BY <1>2, WorksFacts DEF Object
<1>5. shared' => /\ ownObject'["check"] # Gone
                 /\ ownObject'["check"] = ownObject'["endpoint"]
  <2>1. CASE shared
    BY <1>2, <2>1 DEF DInv, Stored, Holder
  <2>2. CASE \A h \in Holder : Works(h) /\ ownObject[h] = Gone
    <3>1. mem # Gone
      BY <2>2, WorksFacts DEF Holder
    <3> QED BY <1>2, <2>2, <3>1 DEF Holder
  <2>3. shared' => shared \/ \A h \in Holder : Works(h) /\ ownObject[h] = Gone
    BY DEF Replace
  <2> QED BY <2>1, <2>2, <2>3
<1> QED BY <1>1, <1>2, <1>3, <1>4, <1>5

\* A change of one's object changes that of the other only if it is the same.
LEMMA NotedFacts ==
  ASSUME DInv, mem # Gone, NEW h \in Holder, NEW r \in Record,
         Change(h, r) \/ Finalize(h, r)
  PROVE  /\ mem' \in Record /\ mem' # Gone
         /\ mem' = r \/ mem' = mem
         /\ ownObject[h] = Gone => mem' = r
         /\ ownObject[h] # Gone => mem' = mem
         /\ ownObject' \in [Holder -> Record \cup {Gone}]
         /\ \A g \in Holder : ownObject[g] = Gone => ownObject'[g] = Gone
         /\ \A g \in Holder \ {h} :
              \/ Object(g)' = Object(g)
              \/ Object(g) = Object(h) /\ Object(g)' = r
         /\ shared' => /\ ownObject'["check"] # Gone
                       /\ ownObject'["check"] = ownObject'["endpoint"]
         /\ Finalize(h, r) => ownObject'[h] = Gone
         /\ Change(h, r) => Object(h)' = r
<1> USE DEF DInv, Stored
<1>0. r # Gone /\ mem \in Record
  BY Somewhere
<1>1. /\ mem' = IF ownObject[h] = Gone THEN r ELSE mem
      /\ mem' \in Record /\ mem' # Gone
  BY <1>0 DEF Change, Finalize
<1> DEFINE w == Noted(h, r)
<1>2. /\ w \in [Holder -> Record \cup {Gone}]
      /\ \A g \in Holder : w[g] = IF ownObject[h] # Gone /\ (g = h \/ shared)
                                  THEN r ELSE ownObject[g]
  BY <1>0 DEF Noted
<1>3. \/ Change(h, r) /\ ownObject' = w /\ shared' = shared
      \/ Finalize(h, r) /\ ownObject' = [w EXCEPT ![h] = Gone] /\ ~shared'
  BY DEF Change, Finalize
<1> HIDE DEF w
<1>4. ownObject' \in [Holder -> Record \cup {Gone}]
  BY <1>2, <1>3
<1>5. \A g \in Holder \ {h} : ownObject'[g] = w[g]
  BY <1>2, <1>3
<1>6. ownObject'[h] = w[h] \/ ownObject'[h] = Gone
  BY <1>2, <1>3
<1>7. \A g \in Holder : ownObject[g] = Gone => ownObject'[g] = Gone
  BY <1>2, <1>5, <1>6 DEF Holder
<1>8. ASSUME NEW g \in Holder \ {h}
      PROVE  \/ Object(g)' = Object(g)
             \/ Object(g) = Object(h) /\ Object(g)' = r
  BY <1>0, <1>1, <1>2, <1>5 DEF Object, Holder
<1>9. shared' => /\ ownObject'["check"] # Gone
                 /\ ownObject'["check"] = ownObject'["endpoint"]
  BY <1>0, <1>2, <1>3 DEF Holder
<1>10. Finalize(h, r) => ownObject'[h] = Gone
  BY <1>2 DEF Finalize, w
<1>11. Change(h, r) => Object(h)' = r
  BY <1>0, <1>1, <1>2 DEF Change, Object, w
<1> QED BY <1>1, <1>4, <1>7, <1>8, <1>9, <1>10, <1>11

\* Steps that buy nothing.
LEMMA NoPurchase ==
  ASSUME DInv, Stored', UNCHANGED <<used, bought>>,
         at' = "enter" => at = "enter" /\ Object("check")'.entries = Object("check").entries
  PROVE  DInv'
BY DEF DInv, EntriesUsed

\* Steps that move the check or the close endpoint and leave the objects alone.
LEMMA ObjectsStay ==
  ASSUME DInv, UNCHANGED <<mem, ownObject, shared>>,
         hash' \in {hash, mem, Gone}, listing' \in {listing, hash, Gone},
         dcaRow' = dcaRow \/ (mem # Gone /\ dcaRow' = mem),
         at' # "idle" \/ manual' # "idle" \/ marked' => mem # Gone,
         \A h \in Holder : Works(h) => Works(h)'
  PROVE  Stored' /\ \A h \in Holder : Object(h)' = Object(h)
<1>1. Stored'
  BY DEF DInv, Stored
<1>2. \A h \in Holder : Object(h)' = Object(h)
  BY DEF Object
<1> QED BY <1>1, <1>2

LEMMA ListSteps ==
    DInv /\ (ReadActive \/ RestoreActive \/ MonitorMarks \/ MonitorStarts) => DInv'
<1> SUFFICES ASSUME DInv, ReadActive \/ RestoreActive \/ MonitorMarks \/ MonitorStarts
             PROVE  DInv'
  OBVIOUS
<1> USE DEF storeVars, marketVars, objectVars
<1>1. CASE ReadActive
  <2>1. /\ UNCHANGED <<mem, ownObject, shared, hash, dcaRow, at, manual, marked, used, bought>>
        /\ listing' = hash
    BY <1>1 DEF ReadActive
  <2>2. Stored' /\ \A h \in Holder : Object(h)' = Object(h)
    BY <2>1, ObjectsStay DEF Works, DInv, Stored
  <2> QED BY <2>1, <2>2, NoPurchase DEF Holder
<1>2. CASE RestoreActive
  <2>1. /\ listing # Gone /\ Replace(listing) /\ listing' = Gone
        /\ UNCHANGED <<hash, dcaRow, at, manual, marked, used, bought>>
    BY <1>2 DEF RestoreActive
  <2>2. listing \in Record
    BY <2>1 DEF DInv, Stored
  <2>3. \A h \in Holder : Works(h)' = Works(h)
    BY <2>1 DEF Works
  <2>4. Stored'
    BY <2>1, <2>2, <2>3, ReplaceFacts DEF DInv, Stored
  <2>5. at = "enter" => Object("check")' = Object("check")
    BY <2>1, <2>2, ReplaceFacts DEF Works, Holder
  <2> QED BY <2>1, <2>4, <2>5, NoPurchase
<1>3. CASE MonitorMarks
  <2>1. /\ mem # Gone /\ mem' = Migrated(mem)
        /\ UNCHANGED <<ownObject, shared, hash, dcaRow, listing, at, manual, used, bought>>
    BY <1>3 DEF MonitorMarks
  <2>2. mem \in Record /\ mem' \in Record /\ mem' # Gone /\ mem'.entries = mem.entries
    BY <2>1, RecordFacts, Somewhere DEF DInv, Stored
  <2>3. Stored'
    BY <2>1, <2>2 DEF DInv, Stored, Works
  <2>4. Object("check")'.entries = Object("check").entries
    BY <2>1, <2>2 DEF Object
  <2> QED BY <2>1, <2>3, <2>4, NoPurchase
<1>4. CASE MonitorStarts
  <2>1. /\ UNCHANGED <<mem, ownObject, shared, hash, dcaRow, listing, manual, used, bought>>
        /\ marked /\ ~marked' /\ at' \in {at, "lock"} /\ (at = "idle" \/ at' = at)
    BY <1>4 DEF MonitorStarts
  <2>2. Stored' /\ \A h \in Holder : Object(h)' = Object(h)
    BY <2>1, ObjectsStay DEF Works, DInv, Stored
  <2> QED BY <2>1, <2>2, NoPurchase DEF Holder
<1> QED BY <1>1, <1>2, <1>3, <1>4

LEMMA CheckSteps ==
    DInv /\ (UserChecks \/ Hydrate \/ Refresh \/ Decide) => DInv'
<1> SUFFICES ASSUME DInv, UserChecks \/ Hydrate \/ Refresh \/ Decide
             PROVE  DInv'
  OBVIOUS
<1> USE DEF storeVars, marketVars, objectVars
<1>1. CASE UserChecks
  <2>1. /\ UNCHANGED <<mem, ownObject, shared, hash, dcaRow, listing, manual, marked, used,
                       bought>>
        /\ at = "idle" /\ at' = "lock" /\ mem # Gone
    BY <1>1 DEF UserChecks
  <2>2. Stored'
    BY <2>1, ObjectsStay DEF Works
  <2> QED BY <2>1, <2>2, NoPurchase
<1>2. CASE Hydrate
  <2>1. /\ mem = Gone /\ mem' = dcaRow
        /\ UNCHANGED <<ownObject, shared, hash, dcaRow, listing, at, manual, marked, used,
                       bought>>
    BY <1>2 DEF Hydrate
  <2>2. at = "idle" /\ mem' \in Record /\ mem' # Gone
    BY <2>1, Somewhere DEF DInv, Stored
  <2>3. Stored'
    BY <2>1, <2>2 DEF DInv, Stored, Works
  <2> QED BY <2>1, <2>2, <2>3, NoPurchase
<1>3. CASE Refresh
  <2>1. /\ at = "lock" /\ at' = "decide" /\ mem # Gone
        /\ UNCHANGED <<hash, dcaRow, listing, manual, marked, used, bought>>
    BY <1>3 DEF Refresh, DInv, Stored
  <2>2. \A h \in Holder : Works(h) => Works(h)'
    BY <2>1 DEF Works
  <2>3. CASE hash # Gone /\ Replace(hash)
    <3>1. hash \in Record
      BY <2>3 DEF DInv, Stored
    <3>2. Stored'
      BY <2>1, <2>2, <2>3, <3>1, ReplaceFacts DEF DInv, Stored
    <3> QED BY <2>1, <3>2, NoPurchase
  <2>4. CASE UNCHANGED <<mem, objectVars>>
    <3>1. Stored'
      BY <2>1, <2>2, <2>4, ObjectsStay
    <3> QED BY <2>1, <3>1, NoPurchase
  <2> QED BY <1>3, <2>3, <2>4 DEF Refresh
<1>4. CASE Decide
  <2>1. /\ at = "decide" /\ mem # Gone /\ "check" \in Holder
        /\ UNCHANGED <<hash, dcaRow, listing, manual, marked, used, bought>>
    BY <1>4 DEF Decide, DInv, Stored, Holder
  <2>2. \A h \in Holder \ {"check"} : Works(h)' = Works(h)
    BY <2>1 DEF Works, Holder
  <2>3. CASE at' \in {"sync", "persist"}
    <3>1. Finalize("check", Object("check")) /\ Object("check") \in Record
      BY <1>4, <2>1, <2>3, ObjectFacts DEF Decide, LetGo
    <3>2. Stored'
      BY <2>1, <2>2, <3>1, NotedFacts DEF DInv, Stored
    <3> QED BY <2>1, <2>3, <3>2, NoPurchase
  <2>4. CASE at' = "close"
    <3>1. Stored'
      BY <1>4, <2>1, <2>4, ObjectsStay DEF Decide, Works
    <3> QED BY <2>1, <2>4, <3>1, NoPurchase
  <2>5. CASE at' = "enter" /\ MayAdd(Object("check"))
    <3>1. UNCHANGED <<mem, ownObject, shared>>
      BY <1>4, <2>5 DEF Decide
    <3>2. Stored' /\ Object("check")' = Object("check")
      BY <2>1, <2>5, <3>1, ObjectsStay DEF Works
    <3> QED BY <2>1, <2>5, <3>2 DEF MayAdd, DInv, EntriesUsed
  <2> QED BY <1>4, <2>3, <2>4, <2>5 DEF Decide
<1> QED BY <1>1, <1>2, <1>3, <1>4

\* The number of an entry that is sent is new, or the exchange refuses it.
LEMMA SendEntryStep == DInv /\ SendEntry => DInv'
<1> SUFFICES ASSUME DInv, SendEntry PROVE DInv'
  OBVIOUS
<1> USE DcaAssumption DEF storeVars, marketVars
<1> DEFINE own == Object("check")
           k == own.entries + 1
<1>1. /\ at = "enter" /\ mem # Gone /\ at' # "enter" /\ "check" \in Holder
      /\ UNCHANGED <<hash, dcaRow, listing, manual, marked>>
  BY DEF SendEntry, DInv, Stored, EndCheck, Holder
<1>2. own \in Record /\ own.entries \in 1..MaxEntries /\ own.entries < MaxEntries
  BY <1>1, ObjectFacts, RecordFacts DEF DInv, EntriesUsed
<1>3. k \in 1..MaxEntries
  BY <1>2
<1>4. \A h \in Holder \ {"check"} : Works(h)' = Works(h)
  BY <1>1 DEF Works, Holder
<1> HIDE DEF own
<1>5. ASSUME KeyIsFree(k), Bought(k)
      PROVE  EntriesUsed'
  <2>1. used' = used \cup {k} /\ bought' = bought + 1 /\ k \notin used
    BY <1>5 DEF KeyIsFree, Bought
  <2>2. IsFiniteSet(used)
    <3>1. IsFiniteSet(1..MaxEntries)
      BY FS_Interval
    <3>2. used \subseteq 1..MaxEntries
      BY DEF DInv, EntriesUsed
    <3> QED BY <3>1, <3>2, FS_Subset
  <2>3. Cardinality(used \cup {k}) = Cardinality(used) + 1
    BY <2>1, <2>2, FS_AddElement
  <2> QED BY <1>1, <1>3, <2>1, <2>3 DEF EntriesUsed, DInv
<1>6. CASE /\ KeyIsFree(k) /\ Bought(k) /\ at' = "protect"
           /\ Change("check", [own EXCEPT !.entries = k,
                                 !.ids = @ \cup {own.main, EntryStop(k)}])
  <2> DEFINE r == [own EXCEPT !.entries = k,
                                   !.ids = @ \cup {own.main, EntryStop(k)}]
  <2>1. EntryStop(k) \in StopOrder
    BY <1>3 DEF EntryStop, StopOrder
  <2>2. r \in Record
    BY <1>2, <1>3, <2>1 DEF Record
  <2>3. Change("check", r)
    BY <1>6
  <2> HIDE DEF r
  <2>4. /\ mem' \in Record /\ mem' # Gone /\ ownObject' \in [Holder -> Record \cup {Gone}]
        /\ \A g \in Holder : ownObject[g] = Gone => ownObject'[g] = Gone
        /\ shared' => /\ ownObject'["check"] # Gone
                      /\ ownObject'["check"] = ownObject'["endpoint"]
    BY <1>1, <2>2, <2>3, NotedFacts
  <2>5. Works("check")'
    BY <1>6 DEF Works
  <2>6. Stored'
    BY <1>1, <1>4, <2>4, <2>5 DEF DInv, Stored
  <2> QED BY <1>5, <1>6, <2>6 DEF DInv
<1>7. CASE /\ LetGo("check")
           /\ UNCHANGED <<used, bought>> \/ (KeyIsFree(k) /\ Bought(k))
  <2>1. Finalize("check", own)
    BY <1>7 DEF LetGo, own
  <2>2. Stored'
    BY <1>1, <1>2, <1>4, <2>1, NotedFacts DEF DInv, Stored
  <2>3. EntriesUsed'
    BY <1>1, <1>5, <1>7 DEF EntriesUsed, DInv
  <2> QED BY <2>2, <2>3 DEF DInv
<1> QED BY <1>6, <1>7 DEF SendEntry, own

\* What the object of a check is given by a replaced stop.
LEMMA StopRecord ==
  ASSUME NEW r \in Record, NEW kept \in BOOLEAN
  PROVE  /\ [r EXCEPT !.main = Aggregate(r.entries),
              !.ids = (@ \ ({r.main} \cup IF kept THEN {} ELSE {EntryStop(r.entries)}))
                        \cup {Aggregate(r.entries)}] \in Record
         /\ [r EXCEPT !.ids = @ \cup {r.main, Aggregate(r.entries)}] \in Record
<1> DEFINE new == Aggregate(r.entries)
           less == {r.main} \cup IF kept THEN {} ELSE {EntryStop(r.entries)}
<1>1. new \in StopOrder /\ r.ids \subseteq StopOrder /\ r.main \in StopOrder
  BY RecordFacts DEF Aggregate, StopOrder
<1> HIDE DEF new, less
<1>2. [r EXCEPT !.main = new, !.ids = (@ \ less) \cup {new}] \in Record
  BY <1>1 DEF Record
<1>3. [r EXCEPT !.ids = @ \cup {r.main, new}] \in Record
  BY <1>1 DEF Record
<1> QED BY <1>2, <1>3 DEF new, less

LEMMA ReplaceStopStep == DInv /\ ReplaceStop => DInv'
<1> SUFFICES ASSUME DInv, ReplaceStop PROVE DInv'
  OBVIOUS
<1> USE DEF storeVars, marketVars
<1>1. /\ at = "protect" /\ at' = "sync" /\ mem # Gone /\ "check" \in Holder
      /\ UNCHANGED <<hash, dcaRow, listing, manual, marked, used, bought>>
  BY DEF ReplaceStop, DInv, Stored, Holder
<1>2. Object("check") \in Record
  BY <1>1, ObjectFacts
<1>3. \A h \in Holder \ {"check"} : Works(h)' = Works(h)
  BY <1>1 DEF Works, Holder
<1>4. PICK r \in Record : Finalize("check", r)
  BY <1>2, StopRecord, Zenon DEF ReplaceStop, LetGo
<1>5. Stored'
  BY <1>1, <1>3, <1>4, NotedFacts DEF DInv, Stored
<1> QED BY <1>1, <1>5, NoPurchase

LEMMA ClosingSteps ==
    DInv /\ (CheckCloses \/ CheckCancels \/ CheckSyncs \/ CheckPersists) => DInv'
<1> SUFFICES ASSUME DInv, CheckCloses \/ CheckCancels \/ CheckSyncs \/ CheckPersists
             PROVE  DInv'
  OBVIOUS
<1> USE DEF storeVars, marketVars, objectVars
<1>0. /\ mem # Gone /\ "check" \in Holder /\ Object("check") \in Record
      /\ UNCHANGED <<listing, manual, marked, used, bought>>
      /\ at' # "enter"
  <2>1. at # "idle" /\ UNCHANGED <<listing, manual, marked, used, bought>>
    BY DEF CheckCloses, CheckCancels, CheckSyncs, CheckPersists
  <2>2. at' # "enter"
    BY DEF CheckCloses, Flatten, CheckCancels, CheckSyncs, CheckPersists, EndCheck
  <2> QED BY <2>1, <2>2, ObjectFacts DEF DInv, Stored, Holder
<1>1. \A h \in Holder \ {"check"} : Works(h)' = Works(h)
  BY <1>0 DEF Works, Holder
<1>2. CASE CheckCloses
  <2>1. UNCHANGED <<hash, dcaRow>> /\ at = "close"
    BY <1>2 DEF CheckCloses
  <2>2. CASE at' = "cancel" /\ UNCHANGED <<mem, objectVars>>
    <3>1. Stored'
      BY <1>0, <2>1, <2>2, ObjectsStay DEF Works
    <3> QED BY <1>0, <3>1, NoPurchase
  <2>3. CASE at' # "cancel" /\ LetGo("check")
    <3>1. Stored'
      BY <1>0, <1>1, <2>1, <2>3, NotedFacts DEF DInv, Stored, LetGo
    <3> QED BY <1>0, <3>1, NoPurchase
  <2> QED BY <1>2, <2>2, <2>3 DEF CheckCloses
<1>3. CASE CheckCancels
  <2>1. UNCHANGED <<hash, dcaRow>>
    BY <1>3 DEF CheckCancels
  <2>2. PICK r \in Record : Finalize("check", r)
    BY <1>0, <1>3, RecordFacts DEF CheckCancels
  <2>3. Stored'
    BY <1>0, <1>1, <2>1, <2>2, NotedFacts DEF DInv, Stored
  <2> QED BY <1>0, <2>3, NoPurchase
<1>4. CASE CheckSyncs \/ CheckPersists
  <2>1. UNCHANGED <<mem, ownObject, shared>> /\ at \in {"sync", "syncFailed", "persist"}
    BY <1>4 DEF CheckSyncs, CheckPersists
  <2>2. /\ hash' \in {hash, mem, Gone} /\ dcaRow' \in {dcaRow, mem}
    BY <1>4 DEF CheckSyncs, CheckPersists, SyncState, Persist
  <2>3. Stored'
    BY <1>0, <2>1, <2>2, ObjectsStay DEF Works
  <2> QED BY <1>0, <2>3, NoPurchase
<1> QED BY <1>2, <1>3, <1>4

LEMMA ManualSteps ==
    DInv /\ (ManualStarts \/ ManualCloses \/ ManualCancels \/ ManualSyncs
             \/ ManualPersists) => DInv'
<1> SUFFICES ASSUME DInv, \/ ManualStarts \/ ManualCloses \/ ManualCancels
                          \/ ManualSyncs \/ ManualPersists
             PROVE  DInv'
  OBVIOUS
<1> USE DEF storeVars, marketVars, objectVars
<1>0. /\ mem # Gone /\ {"check", "endpoint"} \subseteq Holder
      /\ Object("endpoint") \in Record /\ Object("check") \in Record
      /\ UNCHANGED <<listing, at, marked, used, bought>>
  <2>1. /\ manual # "idle" \/ mem # Gone
        /\ UNCHANGED <<listing, at, marked, used, bought>>
    BY DEF ManualStarts, ManualCloses, ManualCancels, ManualSyncs, ManualPersists
  <2> QED BY <2>1, ObjectFacts DEF DInv, Stored, Holder
<1>1. \A h \in Holder \ {"endpoint"} : Works(h)' = Works(h)
  BY <1>0 DEF Works, Holder
<1>2. CASE ManualStarts
  <2>1. /\ UNCHANGED <<mem, ownObject, shared, hash, dcaRow>>
        /\ manual = "idle" /\ manual' = "close"
    BY <1>2 DEF ManualStarts
  <2>2. Stored' /\ Object("check")' = Object("check")
    BY <1>0, <2>1, ObjectsStay DEF Works
  <2> QED BY <1>0, <2>1, <2>2, NoPurchase
<1>3. CASE ManualCloses
  <2>1. UNCHANGED <<hash, dcaRow>> /\ manual = "close"
    BY <1>3 DEF ManualCloses
  <2>2. CASE manual' = "cancel" /\ UNCHANGED <<mem, objectVars>>
    <3>1. Stored' /\ Object("check")' = Object("check")
      BY <1>0, <2>1, <2>2, ObjectsStay DEF Works
    <3> QED BY <1>0, <3>1, NoPurchase
  <2>3. CASE manual' # "cancel" /\ LetGo("endpoint")
    <3>1. Stored'
      BY <1>0, <1>1, <2>1, <2>3, NotedFacts DEF DInv, Stored, LetGo
    <3>2. Object("check")' = Object("check")
      BY <1>0, <2>3, NotedFacts DEF LetGo, Holder
    <3> QED BY <1>0, <3>1, <3>2, NoPurchase
  <2> QED BY <1>3, <2>2, <2>3 DEF ManualCloses
<1>4. CASE ManualCancels
  <2>1. UNCHANGED <<hash, dcaRow>>
    BY <1>4 DEF ManualCancels
  <2>2. PICK r \in Record : /\ Finalize("endpoint", r)
                            /\ r.entries = Object("endpoint").entries
    BY <1>0, <1>4, RecordFacts DEF ManualCancels
  <2>3. Stored'
    BY <1>0, <1>1, <2>1, <2>2, NotedFacts DEF DInv, Stored
  <2>4. Object("check")'.entries = Object("check").entries
    BY <1>0, <2>2, NotedFacts DEF Holder
  <2> QED BY <1>0, <2>3, <2>4, NoPurchase
<1>5. CASE ManualSyncs \/ ManualPersists
  <2>1. /\ UNCHANGED <<mem, ownObject, shared>> /\ manual \in {"sync", "syncFailed", "persist"}
        /\ hash' \in {hash, mem, Gone} /\ dcaRow' \in {dcaRow, mem}
    BY <1>5 DEF ManualSyncs, ManualPersists, SyncState, Persist
  <2>2. Stored' /\ Object("check")' = Object("check")
    BY <1>0, <2>1, ObjectsStay DEF Works
  <2> QED BY <1>0, <2>2, NoPurchase
<1> QED BY <1>2, <1>3, <1>4, <1>5

LEMMA DInvHolds == DcaSpec => []DInv
<1>1. DInv /\ [DcaNext]_dcaVars => DInv'
  <2> SUFFICES ASSUME DInv, [DcaNext]_dcaVars PROVE DInv'
    OBVIOUS
  <2>1. CASE UNCHANGED dcaVars
    BY <2>1
    DEF dcaVars, storeVars, marketVars, objectVars, DInv, Stored, EntriesUsed, Object, Works
  <2>2. CASE RestartDca
    <3>1. /\ mem' = Gone /\ listing' = Gone /\ ~marked' /\ ~shared'
          /\ at' = "idle" /\ manual' = "idle" /\ ownObject' = [h \in Holder |-> Gone]
          /\ UNCHANGED <<hash, dcaRow, used, bought>>
      BY <2>2 DEF RestartDca, EndCheck, storeVars, marketVars
    <3>2. Stored'
      BY <3>1 DEF DInv, Stored
    <3> QED BY <3>1, <3>2, NoPurchase
  <2>3. CASE TriggerStop
    <3>1. /\ UNCHANGED <<mem, hash, dcaRow, listing, at, manual, marked, ownObject, shared>>
          /\ UNCHANGED <<used, bought>>
      BY <2>3 DEF TriggerStop, storeVars, objectVars
    <3>2. Stored' /\ Object("check")' = Object("check")
      BY <3>1 DEF DInv, Stored, Object, Works
    <3> QED BY <3>1, <3>2, NoPurchase
  <2> QED
    BY <2>1, <2>2, <2>3, ListSteps, CheckSteps, SendEntryStep, ReplaceStopStep,
       ClosingSteps, ManualSteps
    DEF DcaNext
<1> QED BY <1>1, DInvInit, PTL DEF DcaSpec

\* However many records and entries are lost and entries sent again, a strategy
\* never buys more than its maximum: the numbers of the entries are bounded and
\* used once.
THEOREM PurchasesBounded == DcaSpec => []EntriesBounded
<1>1. DInv => EntriesBounded
  <2> SUFFICES ASSUME DInv PROVE EntriesBounded
    OBVIOUS
  <2>1. MaxEntries \in Nat
    BY DcaAssumption
  <2>2. IsFiniteSet(1..MaxEntries) /\ Cardinality(1..MaxEntries) = MaxEntries
    BY <2>1, FS_Interval
  <2>3. Cardinality(used) <= Cardinality(1..MaxEntries)
    BY <2>2, FS_Subset DEF DInv, EntriesUsed
  <2> QED BY <2>2, <2>3 DEF EntriesBounded, DInv, EntriesUsed
<1> QED BY <1>1, DInvHolds, PTL

\* A record from which a close can find everything: the stops on the exchange
\* are its own, and it is flat, or closed, only if it is.
TracesOf(r, stops, n) ==
    /\ stops \subseteq r.ids \cup {r.main}
    /\ r.flat => n = 0 /\ r.status # "active"
    /\ r.status = "closed" => n = 0 /\ stops = {}

\* The strategy as a request would find it.
Strategy == IF mem = Gone THEN dcaRow ELSE mem

\* A record that may still come into memory: it knows every entry, and then a
\* close can use it, or it is an older one.
CouldReplace(r) ==
    /\ r.entries <= Strategy.entries
    /\ r.entries = Strategy.entries => TracesOf(r, stopBook, held)

\* Until a record or an entry is lost, the memory traces the exchange, and so
\* does every record that could take its place: one without the entry that was
\* just bought is read only before the check has saved it.
Trusted ==
    /\ at = "idle" \/ manual = "idle"
    /\ TracesOf(Strategy, stopBook, held)
    /\ hash # Gone => CouldReplace(hash)
    /\ listing # Gone => CouldReplace(listing)
    /\ hash # Gone /\ at \notin {"protect", "sync"} => hash.entries = Strategy.entries
    /\ mem = Gone /\ listing # Gone => listing.entries = Strategy.entries
    /\ at = "protect" =>
         /\ ownObject["check"] = Gone
         /\ \A r \in {hash, listing} : r # Gone => r.entries < mem.entries
    /\ at \in {"enter", "protect"} =>
         Object("check").status \in Open /\ ~Object("check").flat
    /\ \A h \in Holder :
         Works(h) /\ Object(h).flat => held = 0 /\ Object(h).status # "active"
    /\ at = "cancel" \/ manual = "cancel" => held = 0

TrustedUnlost == ~excused => Trusted

LEMMA TrustedStart == DcaInit => TrustedUnlost
<1> SUFFICES ASSUME DcaInit PROVE Trusted
  BY DEF TrustedUnlost
<1>1. TracesOf(Legacy, {EntryStop(1)}, 1)
  BY DEF TracesOf, Legacy
<1>2. Legacy \in Record /\ Legacy # Gone /\ Legacy.entries = 1
  <2>1. Legacy \in Record /\ Legacy.entries = 1
    BY DcaAssumption DEF Legacy, Record, StopOrder, EntryStop
  <2> QED BY <2>1, Somewhere
<1> QED BY <1>1, <1>2 DEF DcaInit, Trusted, Strategy, CouldReplace, Holder, Works

\* An exchange with fewer stops and contracts is still covered.
LEMMA TracesLess ==
    ASSUME NEW r, NEW b, NEW n, NEW c, NEW m, TracesOf(r, b, n), c \subseteq b, n = 0 => m = 0
    PROVE  TracesOf(r, c, m)
BY DEF TracesOf

LEMMA CoversMigrated ==
    ASSUME NEW r \in Record, NEW b, NEW n, TracesOf(r, b, n)
    PROVE  TracesOf(Migrated(r), b, n)
BY DEF TracesOf, Migrated, Record

\* What is left of a flat exchange after a round of cancels.
LEMMA CoversCleaned ==
    ASSUME NEW r \in Record, NEW b, NEW stuck \in SUBSET (r.ids \cup {r.main}),
           NEW gone \in {{}, stuck}, TracesOf(r, b, 0)
    PROVE  TracesOf(CleanedUp(r, stuck), b \ (((r.ids \cup {r.main}) \ stuck) \cup gone), 0)
<1>1. r.ids \subseteq StopOrder /\ r.main \in StopOrder
  BY RecordFacts
<1> DEFINE s == CleanedUp(r, stuck)
<1>2. /\ s.ids = stuck /\ s.main = r.main
      /\ s.status = IF stuck = {} THEN "closed" ELSE "cleanup_required"
  BY DEF CleanedUp, Record
<1> HIDE DEF s
<1> QED BY <1>1, <1>2 DEF TracesOf, s

\* The lists and the marks of the monitor.
LEMMA TrustedLists ==
    DInv /\ TrustedUnlost /\ (ReadActive \/ RestoreActive \/ MonitorMarks \/ MonitorStarts)
      => TrustedUnlost'
<1> SUFFICES ASSUME DInv, TrustedUnlost, ~excused',
                    ReadActive \/ RestoreActive \/ MonitorMarks \/ MonitorStarts
             PROVE  Trusted'
  BY DEF TrustedUnlost
<1> USE DEF storeVars, marketVars, objectVars
<1>0. ~excused /\ Trusted /\ UNCHANGED <<hash, dcaRow, manual, stopBook, held>>
  <2>1. \/ excused' = excused
        \/ excused' = (excused \/ (mem # Gone /\ listing.entries < mem.entries))
        \/ excused' = (excused \/ manual # "idle")
    BY DEF ReadActive, RestoreActive, MonitorMarks, MonitorStarts, Overlaps
  <2>2. UNCHANGED <<hash, dcaRow, manual, stopBook, held>>
    BY DEF ReadActive, RestoreActive, MonitorMarks, MonitorStarts
  <2>3. ~excused
    BY <2>1, Zenon
  <2> QED BY <2>2, <2>3 DEF TrustedUnlost
<1>1. CASE ReadActive
  <2>1. UNCHANGED <<mem, ownObject, at>> /\ hash # Gone /\ listing' = hash
    BY <1>1 DEF ReadActive
  <2>2. mem = Gone => at = "idle"
    BY DEF DInv, Stored
  <2> QED BY <1>0, <2>1, <2>2 DEF Trusted, Strategy, CouldReplace, Object, Works
<1>2. CASE RestoreActive
  <2>1. /\ listing # Gone /\ Replace(listing) /\ listing' = Gone /\ UNCHANGED at
        /\ excused' = (excused \/ (mem # Gone /\ listing.entries < mem.entries))
    BY <1>2 DEF RestoreActive, Overlaps
  <2>2. ~(mem # Gone /\ listing.entries < mem.entries)
    BY <2>1, Zenon
  <2>3. listing \in Record
    BY <2>1 DEF DInv, Stored
  <2>4. /\ mem' = listing /\ mem' # Gone /\ Strategy' = listing
        /\ \A h \in Holder : Works(h) => Object(h)' = Object(h)
        /\ \A h \in Holder : Works(h)' = Works(h)
    BY <1>0, <2>1, <2>3, ReplaceFacts DEF Strategy, Works
  <2>5. Strategy.entries \in Int /\ listing.entries \in Int
    BY <2>3, RecordFacts DEF Strategy, DInv, Stored
  <2>6. listing.entries = Strategy.entries
    <3>1. CASE mem = Gone
      BY <1>0, <2>1, <3>1 DEF Trusted
    <3>2. CASE mem # Gone
      BY <1>0, <2>1, <2>2, <2>5, <3>2 DEF Trusted, CouldReplace, Strategy
    <3> QED BY <3>1, <3>2
  <2>7. at # "protect"
    BY <1>0, <2>1, <2>2, <2>6 DEF Trusted, DInv, Stored, Strategy
  <2>8. TracesOf(listing, stopBook, held)
    BY <1>0, <2>1, <2>6 DEF Trusted, CouldReplace
  <2>9. at = "enter" => Object("check")' = Object("check")
    BY <2>4 DEF Works, Holder
  <2> QED BY <1>0, <2>1, <2>4, <2>6, <2>7, <2>8, <2>9 DEF Trusted, CouldReplace
<1>3. CASE MonitorMarks
  <2>1. /\ mem # Gone /\ mem' = Migrated(mem) /\ UNCHANGED <<ownObject, listing, at>>
    BY <1>3 DEF MonitorMarks
  <2>2. mem \in Record /\ mem' \in Record /\ mem' # Gone /\ mem'.entries = mem.entries
    BY <2>1, RecordFacts, Somewhere DEF DInv, Stored
  <2>3. /\ Strategy' = mem' /\ Strategy = mem
        /\ TracesOf(mem', stopBook, held)
    BY <1>0, <2>1, <2>2, CoversMigrated DEF Strategy, Trusted
  <2>4. \A h \in Holder :
          /\ Object(h)'.flat = Object(h).flat
          /\ Object(h).status \in Open => Object(h)'.status \in Open
          /\ Object(h).status # "active" => Object(h)'.status # "active"
    BY <2>1, <2>2 DEF Object, Migrated, Record, Open
  <2>5. \A h \in Holder : Works(h)' = Works(h)
    BY <1>0, <2>1 DEF Works
  <2>6. /\ hash # Gone => CouldReplace(hash)'
        /\ listing # Gone => CouldReplace(listing)'
    BY <1>0, <2>1, <2>2, <2>3 DEF Trusted, CouldReplace
  <2> QED BY <1>0, <2>1, <2>2, <2>3, <2>4, <2>5, <2>6 DEF Trusted, Holder
<1>4. CASE MonitorStarts
  <2>1. /\ UNCHANGED <<mem, ownObject, listing>>
        /\ \/ at = "idle" /\ at' = "lock" /\ excused' = (excused \/ manual # "idle")
           \/ at' = at
    BY <1>4 DEF MonitorStarts, Overlaps
  <2>2. at' = at \/ (at = "idle" /\ at' = "lock" /\ manual = "idle")
    BY <2>1, Zenon
  <2> QED BY <1>0, <2>1, <2>2 DEF Trusted, Strategy, CouldReplace, Object, Works
<1> QED BY <1>1, <1>2, <1>3, <1>4

LEMMA TrustedCheck ==
    DInv /\ TrustedUnlost /\ (UserChecks \/ Hydrate \/ Refresh \/ Decide) => TrustedUnlost'
<1> SUFFICES ASSUME DInv, TrustedUnlost, ~excused', UserChecks \/ Hydrate \/ Refresh \/ Decide
             PROVE  Trusted'
  BY DEF TrustedUnlost
<1> USE DEF storeVars, marketVars, objectVars
<1>0. ~excused /\ Trusted /\ UNCHANGED <<hash, dcaRow, listing, manual, stopBook, held>>
  <2>1. excused' = excused \/ excused' = (excused \/ manual # "idle")
    BY DEF UserChecks, Hydrate, Refresh, Decide, Overlaps
  <2>2. UNCHANGED <<hash, dcaRow, listing, manual, stopBook, held>>
    BY DEF UserChecks, Hydrate, Refresh, Decide
  <2>3. ~excused
    BY <2>1, Zenon
  <2> QED BY <2>2, <2>3 DEF TrustedUnlost
<1>1. CASE UserChecks
  <2>1. /\ at = "idle" /\ at' = "lock" /\ UNCHANGED <<mem, ownObject>>
        /\ excused' = (excused \/ manual # "idle")
    BY <1>1 DEF UserChecks, Overlaps
  <2>2. manual = "idle"
    BY <2>1, Zenon
  <2> QED BY <1>0, <2>1, <2>2 DEF Trusted, Strategy, CouldReplace, Object, Works
<1>2. CASE Hydrate
  <2>1. mem = Gone /\ mem' = dcaRow /\ UNCHANGED <<at, ownObject>>
    BY <1>2 DEF Hydrate
  <2>2. /\ at = "idle" /\ manual = "idle" /\ dcaRow # Gone
        /\ Strategy' = Strategy
    BY <1>0, <2>1, Somewhere DEF DInv, Stored, Strategy
  <2> QED BY <1>0, <2>1, <2>2 DEF Trusted, CouldReplace, Works
<1>3. CASE Refresh
  <2>1. at = "lock" /\ at' = "decide" /\ mem # Gone /\ manual = "idle"
    BY <1>0, <1>3 DEF Refresh, DInv, Stored, Trusted
  <2>2. /\ ~Works("check") /\ ownObject["check"] = Gone
        /\ \A h \in Holder : Works(h)' => h = "check"
        /\ Strategy = mem /\ TracesOf(mem, stopBook, held)
    BY <1>0, <2>1 DEF Works, DInv, Stored, Holder, Strategy, Trusted
  <2>3. CASE hash # Gone /\ Replace(hash)
    <3>1. hash \in Record
      BY <2>3 DEF DInv, Stored
    <3>2. /\ mem' = hash /\ mem' # Gone /\ ownObject'["check"] = Gone
          /\ Strategy' = hash /\ Object("check")' = hash
      BY <2>2, <2>3, <3>1, ReplaceFacts DEF Holder, Strategy, Object
    <3>3. hash.entries = Strategy.entries /\ TracesOf(hash, stopBook, held)
      BY <1>0, <2>1, <2>3 DEF Trusted, CouldReplace
    <3>4. hash.flat => held = 0 /\ hash.status # "active"
      BY <3>3 DEF TracesOf
    <3> QED BY <1>0, <2>1, <2>2, <3>2, <3>3, <3>4 DEF Trusted, CouldReplace
  <2>4. CASE UNCHANGED <<mem, objectVars>>
    <3>1. Object("check")' = mem /\ Strategy' = mem
      BY <2>1, <2>2, <2>4 DEF Object, Strategy
    <3>2. mem.flat => held = 0 /\ mem.status # "active"
      BY <2>2 DEF TracesOf
    <3> QED BY <1>0, <2>1, <2>2, <2>4, <3>1, <3>2 DEF Trusted, CouldReplace
  <2> QED BY <1>3, <2>3, <2>4 DEF Refresh
<1>4. CASE Decide
  <2>1. at = "decide" /\ mem # Gone /\ manual = "idle" /\ "check" \in Holder
    BY <1>0, <1>4 DEF Decide, DInv, Stored, Trusted, Holder
  <2>2. /\ Object("check") \in Record /\ Works("check")
        /\ Object("check").flat => held = 0 /\ Object("check").status # "active"
    BY <1>0, <2>1, ObjectFacts DEF Works, Trusted
  <2>3. mem' = mem /\ Strategy' = Strategy
    <3>1. CASE LetGo("check")
      <4>1. mem' = mem
        BY <3>1 DEF LetGo, Finalize, Object
      <4> QED BY <1>0, <4>1 DEF Strategy
    <3>2. CASE UNCHANGED mem
      BY <1>0, <3>2 DEF Strategy
    <3> QED BY <1>4, <3>1, <3>2 DEF Decide
  <2>4. CASE at' \in {"sync", "persist"}
    <3>1. \A h \in Holder : ~Works(h)'
      BY <1>0, <2>1, <2>4 DEF Works
    <3> QED BY <1>0, <2>1, <2>3, <2>4, <3>1 DEF Trusted, CouldReplace
  <2>5. CASE at' \in {"close", "enter"} /\ UNCHANGED ownObject
    <3>1. /\ \A h \in Holder : Works(h)' = Works(h) /\ Object(h)' = Object(h)
      BY <1>0, <2>1, <2>3, <2>5 DEF Works, Object
    <3>2. at' = "enter" => Object("check").status = "active"
      BY <1>4 DEF Decide
    <3>3. at' = "enter" => Object("check").status \in Open /\ ~Object("check").flat
      BY <2>2, <3>2 DEF Open
    <3> QED BY <1>0, <2>1, <2>3, <2>5, <3>1, <3>3 DEF Trusted, CouldReplace, Holder
  <2>6. at' \in {"sync", "persist"} \/ (at' \in {"close", "enter"} /\ UNCHANGED ownObject)
    BY <1>4 DEF Decide
  <2> QED BY <2>4, <2>5, <2>6
<1> QED BY <1>1, <1>2, <1>3, <1>4

\* Whoever has finished with an object without changing it leaves the memory.
LEMMA LetGoFacts ==
  ASSUME NEW h \in Holder, LetGo(h)
  PROVE  mem' = mem /\ Strategy' = IF mem = Gone THEN dcaRow' ELSE mem
<1>1. mem' = mem
  BY DEF LetGo, Finalize, Object
<1> QED BY <1>1 DEF Strategy

LEMMA TrustedEntry == DInv /\ TrustedUnlost /\ SendEntry => TrustedUnlost'
<1> SUFFICES ASSUME DInv, TrustedUnlost, ~excused', SendEntry PROVE Trusted'
  BY DEF TrustedUnlost
<1> USE DEF storeVars, marketVars
<1>1. /\ at = "enter" /\ mem # Gone /\ mem \in Record /\ "check" \in Holder
      /\ UNCHANGED <<hash, dcaRow, listing, manual>>
  BY DEF SendEntry, DInv, Stored, Holder
<1> DEFINE own == Object("check")
           k == own.entries + 1
           r == [own EXCEPT !.entries = k,
                                 !.ids = @ \cup {own.main, EntryStop(k)}]
<1>2. \/ /\ Bought(k) /\ stopBook' = stopBook \cup {EntryStop(k)} /\ at' = "protect"
         /\ Change("check", r) /\ excused' = (excused \/ ownObject["check"] # Gone)
      \/ EndCheck /\ LetGo("check") /\ UNCHANGED <<stopBook, held, excused>>
  BY DEF SendEntry, Excuse, Overlaps
<1>3. ~excused
  BY <1>2, Zenon
<1>4. Trusted /\ manual = "idle" /\ Strategy = mem
  BY <1>1, <1>3 DEF TrustedUnlost, Trusted, Strategy
<1>5. CASE EndCheck /\ LetGo("check") /\ UNCHANGED <<stopBook, held, excused>>
  <2>1. mem' = mem /\ Strategy' = Strategy /\ at' = "idle"
    BY <1>1, <1>4, <1>5, LetGoFacts DEF EndCheck
  <2> QED BY <1>1, <1>4, <1>5, <2>1 DEF Trusted, CouldReplace, Works
<1>6. CASE /\ Bought(k) /\ stopBook' = stopBook \cup {EntryStop(k)} /\ at' = "protect"
           /\ Change("check", r) /\ excused' = (excused \/ ownObject["check"] # Gone)
  <2>1. ownObject["check"] = Gone
    BY <1>6, Zenon
  <2>2. own = mem
    BY <2>1 DEF Object
  <2>3. mem.status \in Open /\ ~mem.flat
    BY <1>1, <1>4, <2>2 DEF Trusted
  <2>4. /\ r.entries = mem.entries + 1 /\ r.ids = mem.ids \cup {mem.main, EntryStop(k)}
        /\ r.main = mem.main /\ r.status = mem.status /\ r.flat = mem.flat
    BY <1>1, <2>2 DEF Record
  <2>5. mem' = r /\ ownObject'["check"] = Gone
    BY <1>6, <2>1, <1>1 DEF Change, Noted, DInv, Stored
  <2> HIDE DEF r
  <2>6. r # Gone
    BY <2>3, <2>4 DEF Open, Gone
  <2>7. Strategy' = r /\ Object("check")' = r
    BY <2>5, <2>6 DEF Strategy, Object
  <2>8. TracesOf(r, stopBook', held')
    BY <1>4, <1>6, <2>3, <2>4 DEF TracesOf, Trusted, Open
  <2>9. mem.entries \in Nat /\ (hash # Gone => hash.entries \in Nat)
        /\ (listing # Gone => listing.entries \in Nat)
    BY <1>1, RecordFacts DEF DInv, Stored
  <2>10. \A x \in {hash, listing} : x # Gone => x.entries < r.entries
    BY <1>4, <2>4, <2>9 DEF Trusted, CouldReplace
  <2>11. /\ hash # Gone => CouldReplace(hash)'
         /\ listing # Gone => CouldReplace(listing)'
    BY <1>1, <2>7, <2>9, <2>10, <2>4 DEF CouldReplace
  <2>12. \A h \in Holder : ~(Works(h)' /\ Object(h)'.flat)
    BY <1>1, <1>4, <2>3, <2>4, <2>7 DEF Works, Holder
  <2> QED BY <1>1, <1>4, <1>6, <2>3, <2>4, <2>5, <2>6, <2>7, <2>8, <2>10, <2>11, <2>12
          DEF Trusted
<1> QED BY <1>2, <1>5, <1>6

LEMMA TrustedStop == DInv /\ TrustedUnlost /\ ReplaceStop => TrustedUnlost'
<1> SUFFICES ASSUME DInv, TrustedUnlost, ~excused', ReplaceStop PROVE Trusted'
  BY DEF TrustedUnlost
<1>a. ~Excuse
  BY DEF Excuse
<1>0. /\ at = "protect" /\ at' = "sync" /\ UNCHANGED <<hash, dcaRow, manual, listing>>
  BY Zenon DEF ReplaceStop, storeVars
<1>1. UNCHANGED <<held, excused>>
  BY <1>a, Zenon DEF ReplaceStop
<1>2. /\ ~excused /\ Trusted /\ manual = "idle" /\ mem \in Record /\ mem # Gone
      /\ Strategy = mem /\ ownObject["check"] = Gone /\ Object("check") = mem
      /\ "check" \in Holder
  BY <1>0, <1>1 DEF TrustedUnlost, Trusted, DInv, Stored, Strategy, Object, Holder
<1>3. TracesOf(mem, stopBook, held) /\ mem.status \in Open /\ ~mem.flat
  BY <1>0, <1>2 DEF Trusted
<1> DEFINE k == mem.entries
           old == mem.main
           new == Aggregate(k)
<1>4. ASSUME NEW r, r.status = mem.status, r.flat = mem.flat,
             stopBook' \subseteq r.ids \cup {r.main}
      PROVE  TracesOf(r, stopBook', held) /\ r # Gone
  BY <1>3, <1>4 DEF TracesOf, Open, Gone
<1>5. TracesOf(mem', stopBook', held) /\ mem' # Gone /\ mem'.entries = mem.entries
  <2>1. ASSUME NEW kept \in BOOLEAN,
               stopBook' \in {(stopBook \cup {new}) \ {old, EntryStop(k)},
                              IF kept THEN (stopBook \cup {new}) \ {old}
                              ELSE (stopBook \cup {new}) \ {old, EntryStop(k)}},
               Finalize("check", [mem EXCEPT !.main = new,
                         !.ids = (@ \ ({old} \cup IF kept THEN {} ELSE {EntryStop(k)}))
                                   \cup {new}])
        PROVE  TracesOf(mem', stopBook', held) /\ mem' # Gone /\ mem'.entries = mem.entries
    <3> DEFINE ids == (mem.ids \ ({old} \cup IF kept THEN {} ELSE {EntryStop(k)})) \cup {new}
    <3>1. mem' = [mem EXCEPT !.main = new, !.ids = ids]
      BY <1>2, <2>1 DEF Finalize
    <3>2. stopBook' \subseteq ids
      <4>1. CASE kept
        BY <1>3, <2>1, <4>1 DEF TracesOf
      <4>2. CASE ~kept
        BY <1>3, <2>1, <4>2 DEF TracesOf
      <4> QED BY <4>1, <4>2
    <3> HIDE DEF ids
    <3>3. /\ mem'.ids = ids /\ mem'.status = mem.status /\ mem'.flat = mem.flat
          /\ mem'.entries = mem.entries
      BY <1>2, <3>1 DEF Record
    <3> QED BY <1>4, <3>2, <3>3
  <2>2. ASSUME NEW gone \in SUBSET {old, new},
               stopBook' = (stopBook \cup {new}) \ gone,
               Finalize("check", [mem EXCEPT !.ids = @ \cup {old, new}])
        PROVE  TracesOf(mem', stopBook', held) /\ mem' # Gone /\ mem'.entries = mem.entries
    <3>1. mem' = [mem EXCEPT !.ids = @ \cup {old, new}]
      BY <1>2, <2>2 DEF Finalize
    <3>2. /\ mem'.ids = mem.ids \cup {old, new} /\ mem'.status = mem.status
          /\ mem'.flat = mem.flat /\ mem'.entries = mem.entries
      BY <1>2, <3>1 DEF Record
    <3>3. stopBook' \subseteq mem'.ids
      BY <1>3, <2>2, <3>2 DEF TracesOf
    <3> QED BY <1>4, <3>2, <3>3
  <2>3. ASSUME stopBook' \in {stopBook, stopBook \ {old}}, LetGo("check")
        PROVE  TracesOf(mem', stopBook', held) /\ mem' # Gone /\ mem'.entries = mem.entries
    BY <1>2, <1>3, <2>3, LetGoFacts DEF TracesOf
  <2> QED BY Zenon, <1>a, <1>2, <2>1, <2>2, <2>3 DEF ReplaceStop
<1>6. /\ Strategy' = mem'
      /\ hash # Gone => CouldReplace(hash)'
      /\ listing # Gone => CouldReplace(listing)'
  <2>1. \A x \in {hash, listing} : x # Gone => x.entries < mem.entries
    BY <1>0, <1>2 DEF Trusted
  <2>2. mem.entries \in Nat /\ \A x \in {hash, listing} : x # Gone => x.entries \in Nat
    BY <1>2, RecordFacts DEF DInv, Stored
  <2> QED BY <1>0, <1>5, <2>1, <2>2 DEF CouldReplace, Strategy
<1> QED BY <1>0, <1>1, <1>2, <1>5, <1>6 DEF Trusted, Works

\* A close leaves less on the exchange and no entry out of the memory.
LEMMA TrustedFrame ==
  ASSUME Trusted, Strategy'.entries = Strategy.entries, stopBook' \subseteq stopBook,
         held = 0 => held' = 0, UNCHANGED <<hash, listing>>
  PROVE  /\ hash # Gone => CouldReplace(hash)'
         /\ listing # Gone => CouldReplace(listing)'
         /\ \A r : TracesOf(r, stopBook, held) => TracesOf(r, stopBook', held')
BY TracesLess DEF Trusted, CouldReplace

LEMMA FlattenFacts ==
  ASSUME NEW r, NEW next, Flatten(r, next), r.flat => held = 0
  PROVE  /\ next \in {"cancel", "syncFailed"}
         /\ held = 0 => held' = 0
         /\ next = "cancel" => held' = 0
BY DEF Flatten, AlreadyFlat

LEMMA CleanedFacts ==
  ASSUME DInv, Trusted, mem # Gone, NEW h \in Holder, held = 0,
         NEW stuck \in SUBSET (Object(h).ids \cup {Object(h).main}),
         CancelAll(Object(h), stuck), Finalize(h, CleanedUp(Object(h), stuck))
  PROVE  /\ mem' # Gone /\ Strategy' = mem' /\ Strategy'.entries = Strategy.entries
         /\ stopBook' \subseteq stopBook /\ TracesOf(mem', stopBook', 0)
<1>1. Object(h) \in Record /\ mem \in Record /\ Strategy = mem /\ TracesOf(mem, stopBook, 0)
  BY ObjectFacts DEF DInv, Stored, Strategy, Trusted
<1> DEFINE r == CleanedUp(Object(h), stuck)
<1>2. r \in Record
  BY <1>1, RecordFacts
<1>3. PICK gone \in {{}, stuck} :
        stopBook' = stopBook \ (((Object(h).ids \cup {Object(h).main}) \ stuck) \cup gone)
  BY DEF CancelAll
<1>4. CASE ownObject[h] = Gone
  <2>1. Object(h) = mem
    BY <1>4 DEF Object
  <2>2. TracesOf(r, stopBook', 0) /\ r.entries = mem.entries
    BY <1>1, <1>3, <2>1, CoversCleaned, RecordFacts
  <2>3. mem' = r
    BY <1>4 DEF Finalize
  <2> QED BY <1>1, <1>2, <1>3, <2>2, <2>3, Somewhere DEF Strategy
<1>5. CASE ownObject[h] # Gone
  <2>1. mem' = mem
    BY <1>5 DEF Finalize
  <2> QED BY <1>1, <1>3, <2>1, TracesLess DEF Strategy
<1> QED BY <1>4, <1>5

LEMMA TrustedClosing ==
    DInv /\ TrustedUnlost /\ (CheckCloses \/ CheckCancels \/ CheckSyncs \/ CheckPersists)
      => TrustedUnlost'
<1> SUFFICES ASSUME DInv, TrustedUnlost, ~excused',
                    CheckCloses \/ CheckCancels \/ CheckSyncs \/ CheckPersists
             PROVE  Trusted'
  BY DEF TrustedUnlost
<1> USE DEF storeVars, marketVars, objectVars
<1>0. /\ ~excused /\ Trusted /\ at # "idle" /\ UNCHANGED <<manual, listing>>
  BY DEF TrustedUnlost, CheckCloses, CheckCancels, CheckSyncs, CheckPersists, SyncState,
         Persist, Excuse
<1>1. /\ manual = "idle" /\ manual' = "idle" /\ mem \in Record /\ mem # Gone /\ Strategy = mem
      /\ TracesOf(mem, stopBook, held) /\ "check" \in Holder
  BY <1>0 DEF Trusted, DInv, Stored, Strategy, Holder
<1>2. \A h \in Holder : Works(h)' => h = "check"
  BY <1>1 DEF Works, Holder
<1>3. CASE CheckCloses
  <2>1. /\ at = "close" /\ Flatten(Object("check"), at')
        /\ UNCHANGED <<hash, dcaRow, stopBook>>
    BY <1>3 DEF CheckCloses
  <2>2. Object("check").flat => held = 0
    BY <1>0, <1>1, <2>1 DEF Trusted, Works
  <2>3. /\ at' \in {"cancel", "syncFailed"}
        /\ held = 0 => held' = 0
        /\ at' = "cancel" => held' = 0
    BY <2>1, <2>2, FlattenFacts
  <2>4. mem' = mem /\ Strategy' = Strategy
    BY <1>1, <1>3, <2>1, LetGoFacts DEF CheckCloses, Strategy
  <2>5. /\ hash # Gone => CouldReplace(hash)'
        /\ listing # Gone => CouldReplace(listing)'
        /\ TracesOf(mem, stopBook', held')
    BY <1>0, <1>1, <2>1, <2>3, <2>4, TrustedFrame
  <2>6. at' = "cancel" => Object("check")' = Object("check")
    BY <1>3, <2>4 DEF CheckCloses, Object
  <2>7. at' = "cancel" /\ Object("check").flat => Object("check").status # "active"
    BY <1>0, <1>1, <2>1 DEF Trusted, Works
  <2>8. Works("check")' => at' = "cancel"
    BY <2>3 DEF Works
  <2> QED BY <1>0, <1>1, <1>2, <2>1, <2>3, <2>4, <2>5, <2>6, <2>7, <2>8 DEF Trusted
<1>4. CASE CheckCancels
  <2>1. /\ held = 0 /\ held' = 0 /\ at = "cancel" /\ at' = "sync" /\ UNCHANGED <<hash, dcaRow>>
    BY <1>0, <1>4 DEF Trusted, CheckCancels
  <2>2. PICK stuck \in SUBSET (Object("check").ids \cup {Object("check").main}) :
          /\ CancelAll(Object("check"), stuck)
          /\ Finalize("check", CleanedUp(Object("check"), stuck))
    BY <1>4 DEF CheckCancels
  <2>3. /\ mem' # Gone /\ Strategy' = mem' /\ Strategy'.entries = Strategy.entries
        /\ stopBook' \subseteq stopBook /\ TracesOf(mem', stopBook', 0)
    BY <1>0, <1>1, <2>1, <2>2, CleanedFacts
  <2>4. /\ hash # Gone => CouldReplace(hash)'
        /\ listing # Gone => CouldReplace(listing)'
    BY <1>0, <2>1, <2>3, TrustedFrame
  <2>5. ~Works("check")'
    BY <2>1 DEF Works
  <2> QED BY <1>0, <1>1, <1>2, <2>1, <2>3, <2>4, <2>5 DEF Trusted
<1>5. CASE CheckSyncs
  <2>1. /\ at' \in {"persist", "idle"} /\ UNCHANGED <<mem, dcaRow, stopBook, held>>
        /\ hash' \in {mem, Gone}
    BY <1>5 DEF CheckSyncs, SyncState, EndCheck, Excuse
  <2>2. Strategy' = mem
    BY <1>1, <2>1 DEF Strategy
  <2>3. CouldReplace(mem)' /\ (listing # Gone => CouldReplace(listing)')
    BY <1>0, <1>1, <2>1, <2>2, RecordFacts DEF Trusted, CouldReplace
  <2>4. hash' # Gone => hash' = mem
    BY <2>1
  <2>5. ~Works("check")'
    BY <2>1 DEF Works
  <2> HIDE DEF CouldReplace
  <2>6. hash' # Gone => CouldReplace(hash)'
    BY <2>1, <2>3, <2>4 DEF CouldReplace
  <2> QED BY <1>0, <1>1, <1>2, <2>1, <2>2, <2>3, <2>4, <2>5, <2>6 DEF Trusted
<1>6. CASE CheckPersists
  <2>1. /\ at = "persist" /\ at' = "idle" /\ UNCHANGED <<mem, hash, stopBook, held>>
    BY <1>6 DEF CheckPersists, EndCheck
  <2>2. Strategy' = mem /\ ~Works("check")'
    BY <1>1, <2>1 DEF Strategy, Works
  <2> QED BY <1>0, <1>1, <1>2, <2>1, <2>2 DEF Trusted, CouldReplace
<1> QED BY <1>3, <1>4, <1>5, <1>6

LEMMA TrustedManual ==
    DInv /\ TrustedUnlost
    /\ (ManualStarts \/ ManualCloses \/ ManualCancels \/ ManualSyncs \/ ManualPersists)
      => TrustedUnlost'
<1> SUFFICES ASSUME DInv, TrustedUnlost, ~excused',
                    \/ ManualStarts \/ ManualCloses \/ ManualCancels
                    \/ ManualSyncs \/ ManualPersists
             PROVE  Trusted'
  BY DEF TrustedUnlost
<1> USE DEF storeVars, marketVars, objectVars
<1>0. /\ ~excused /\ Trusted /\ UNCHANGED <<at, listing>>
      /\ mem \in Record /\ mem # Gone
  <2>1. excused' = excused \/ excused' = (excused \/ at # "idle")
    BY DEF ManualStarts, ManualCloses, ManualCancels, ManualSyncs, ManualPersists,
           Overlaps, SyncState, Persist, Excuse
  <2>2. UNCHANGED <<at, listing>> /\ mem \in Record /\ mem # Gone
    BY DEF ManualStarts, ManualCloses, ManualCancels, ManualSyncs, ManualPersists,
           DInv, Stored
  <2>3. ~excused
    BY <2>1, Zenon
  <2> QED BY <2>2, <2>3 DEF TrustedUnlost
<1>1. Strategy = mem /\ TracesOf(mem, stopBook, held) /\ "endpoint" \in Holder
  BY <1>0 DEF Trusted, Strategy, Holder
<1>2. CASE ManualStarts
  <2>1. /\ manual' = "close" /\ excused' = (excused \/ at # "idle") /\ manual = "idle"
        /\ UNCHANGED <<mem, ownObject, hash, dcaRow, stopBook, held>>
    BY <1>2 DEF ManualStarts, Overlaps
  <2>2. at = "idle"
    BY <2>1, Zenon
  <2>3. ~Works("endpoint")
    BY <2>1 DEF Works
  <2>4. Object("endpoint")' = mem
    BY <1>1, <2>1, <2>3 DEF Object, DInv, Stored
  <2>5. \A h \in Holder : Works(h)' => h = "endpoint"
    BY <1>0, <2>2 DEF Works, Holder
  <2>6. mem.flat => held = 0 /\ mem.status # "active"
    BY <1>1 DEF TracesOf
  <2> QED BY <1>0, <1>1, <2>1, <2>2, <2>4, <2>5, <2>6 DEF Trusted, Strategy, CouldReplace
<1>3. /\ ~ManualStarts => at = "idle" /\ manual # "idle"
      /\ at = "idle" => \A h \in Holder : Works(h)' => h = "endpoint"
  BY <1>0 DEF Trusted, ManualCloses, ManualCancels, ManualSyncs, ManualPersists, Works, Holder
<1>4. CASE ManualCloses
  <2>1. /\ manual = "close" /\ Flatten(Object("endpoint"), manual') /\ at = "idle"
        /\ UNCHANGED <<hash, dcaRow, stopBook>>
    BY <1>0, <1>4 DEF ManualCloses, Trusted
  <2>2. Object("endpoint").flat => held = 0 /\ Object("endpoint").status # "active"
    BY <1>0, <1>1, <2>1 DEF Trusted, Works
  <2>3. /\ manual' \in {"cancel", "syncFailed"}
        /\ held = 0 => held' = 0
        /\ manual' = "cancel" => held' = 0
    BY <2>1, <2>2, FlattenFacts
  <2>4. mem' = mem /\ Strategy' = Strategy
    BY <1>0, <1>1, <1>4, <2>1, LetGoFacts DEF ManualCloses, Strategy
  <2>5. /\ hash # Gone => CouldReplace(hash)'
        /\ listing # Gone => CouldReplace(listing)'
        /\ TracesOf(mem, stopBook', held')
    BY <1>0, <1>1, <2>1, <2>3, <2>4, TrustedFrame
  <2>6. manual' = "cancel" => Object("endpoint")' = Object("endpoint")
    BY <1>4, <2>4 DEF ManualCloses, Object
  <2>7. Works("endpoint")' => manual' = "cancel"
    BY <2>3 DEF Works
  <2> QED BY <1>0, <1>1, <1>3, <2>1, <2>2, <2>3, <2>4, <2>5, <2>6, <2>7 DEF Trusted
<1>5. CASE ManualCancels
  <2>1. /\ at = "idle" /\ held = 0 /\ held' = 0 /\ manual' = "sync"
        /\ UNCHANGED <<hash, dcaRow>>
    BY <1>0, <1>5 DEF ManualCancels, Trusted
  <2>2. PICK stuck \in SUBSET (Object("endpoint").ids \cup {Object("endpoint").main}) :
          /\ CancelAll(Object("endpoint"), stuck)
          /\ Finalize("endpoint", CleanedUp(Object("endpoint"), stuck))
    BY <1>5 DEF ManualCancels
  <2>3. /\ mem' # Gone /\ Strategy' = mem' /\ Strategy'.entries = Strategy.entries
        /\ stopBook' \subseteq stopBook /\ TracesOf(mem', stopBook', 0)
    BY <1>0, <1>1, <2>1, <2>2, CleanedFacts
  <2>4. /\ hash # Gone => CouldReplace(hash)'
        /\ listing # Gone => CouldReplace(listing)'
    BY <1>0, <2>1, <2>3, TrustedFrame
  <2>5. ~Works("endpoint")'
    BY <2>1 DEF Works
  <2> QED BY <1>0, <1>1, <1>3, <2>1, <2>3, <2>4, <2>5 DEF Trusted
<1>6. CASE ManualSyncs
  <2>1. /\ at = "idle" /\ hash' \in {mem, Gone} /\ manual' \in {"persist", "idle"}
        /\ UNCHANGED <<mem, dcaRow, stopBook, held>>
    BY <1>0, <1>6 DEF ManualSyncs, SyncState, Excuse, Trusted
  <2>2. Strategy' = mem /\ ~Works("endpoint")'
    BY <1>0, <2>1 DEF Strategy, Works
  <2>3. CouldReplace(mem)' /\ (listing # Gone => CouldReplace(listing)')
    BY <1>0, <1>1, <2>1, <2>2, RecordFacts DEF Trusted, CouldReplace
  <2>4. hash' # Gone => hash' = mem
    BY <2>1
  <2>5. hash' # Gone => CouldReplace(hash)'
    BY <2>1, <2>3, <2>4 DEF CouldReplace
  <2> QED BY <1>0, <1>1, <1>3, <2>1, <2>2, <2>3, <2>4, <2>5 DEF Trusted
<1>7. CASE ManualPersists
  <2>1. /\ at = "idle" /\ manual' = "idle" /\ UNCHANGED <<mem, hash, stopBook, held>>
    BY <1>0, <1>7 DEF ManualPersists, Trusted
  <2>2. Strategy' = mem /\ ~Works("endpoint")'
    BY <1>0, <2>1 DEF Strategy, Works
  <2> QED BY <1>0, <1>1, <1>3, <2>1, <2>2 DEF Trusted, CouldReplace
<1> QED BY <1>2, <1>4, <1>5, <1>6, <1>7

LEMMA TrustedNext ==
    ASSUME DInv, TrustedUnlost, [DcaNext]_dcaVars
    PROVE  TrustedUnlost'
<1>1. CASE RestartDca
  <2> SUFFICES ASSUME ~excused' PROVE Trusted'
    BY DEF TrustedUnlost
  <2>1. /\ mem' = Gone /\ at' = "idle" /\ manual' = "idle" /\ listing' = Gone
        /\ UNCHANGED <<hash, dcaRow, stopBook, held>>
        /\ excused' = (excused \/ at # "idle" \/ manual # "idle" \/ dcaRow # mem)
    BY <1>1 DEF RestartDca, EndCheck, storeVars, marketVars
  <2>2. ~excused /\ at = "idle" /\ dcaRow = mem
    BY <2>1, Zenon
  <2>3. Trusted /\ mem # Gone /\ Strategy = mem /\ Strategy' = mem
    BY <2>1, <2>2, Somewhere DEF DInv, Stored, TrustedUnlost, Strategy
  <2> QED BY <2>1, <2>2, <2>3 DEF Trusted, CouldReplace, Works
<1>2. CASE TriggerStop
  <2> SUFFICES ASSUME ~excused' PROVE Trusted'
    BY DEF TrustedUnlost
  <2>1. /\ Trusted /\ held > 0 /\ stopBook' \subseteq stopBook
        /\ UNCHANGED <<mem, hash, dcaRow, listing, at, manual, ownObject>>
    BY <1>2 DEF TriggerStop, TrustedUnlost, storeVars, objectVars
  <2>2. /\ Strategy' = Strategy /\ held # 0
        /\ \A h \in Holder : Works(h)' = Works(h) /\ Object(h)' = Object(h)
    BY <2>1 DEF Strategy, Works, Object
  <2>3. /\ hash # Gone => CouldReplace(hash)'
        /\ listing # Gone => CouldReplace(listing)'
        /\ TracesOf(Strategy, stopBook', held')
    BY <2>1, <2>2, TrustedFrame DEF Trusted
  <2> QED BY <2>1, <2>2, <2>3 DEF Trusted, Holder
<1>3. CASE UNCHANGED dcaVars
  BY <1>3
  DEF dcaVars, storeVars, marketVars, objectVars, TrustedUnlost, Trusted, TracesOf,
      CouldReplace, Strategy, Object, Works
<1> QED BY <1>1, <1>2, <1>3, TrustedLists, TrustedCheck, TrustedEntry, TrustedStop,
           TrustedClosing, TrustedManual DEF DcaNext

\* A strategy that is closed is over: no contracts and none of its stops, for
\* any number of entries, whichever caller closes it and whatever the lists put
\* into memory meanwhile, unless an answer, a record or an entry was lost or a
\* close ran into a check.
THEOREM ClosedIsOver == DcaSpec => []ClosedIsClean
<1>1. TrustedUnlost => ClosedIsClean
  <2> SUFFICES ASSUME TrustedUnlost, mem.status = "closed", ~excused
               PROVE  held = 0 /\ stopBook = {}
    BY DEF ClosedIsClean
  <2>1. mem # Gone
    BY DEF Gone
  <2> QED BY <2>1 DEF TrustedUnlost, Trusted, TracesOf, Strategy
<1>2. DInv /\ TrustedUnlost /\ [DcaNext]_dcaVars => TrustedUnlost'
  BY TrustedNext
<1> QED BY <1>1, <1>2, DInvHolds, TrustedStart, PTL DEF DcaSpec

\* The values of the variables of a strategy that DInv leaves open.
Places ==
    /\ redis \in BOOLEAN
    /\ at \in CheckStep /\ caller \in {"none", "monitor", "user"}
    /\ at = "idle" <=> caller = "none"
    /\ manual \in ManualStep
    /\ held \in Nat /\ bought \in Nat /\ held <= bought
    /\ stopBook \subseteq StopOrder
    /\ dcaFaults \in 0..MaxFaults
    /\ excused \in BOOLEAN

Marks == marked \in BOOLEAN /\ shared \in BOOLEAN

LEMMA PlacesStart == DcaInit => Places /\ Marks
<1>1. DcaInit => stopBook \subseteq StopOrder /\ dcaFaults \in 0..MaxFaults
  BY DcaAssumption DEF DcaInit, StopOrder, EntryStop
<1>2. DcaInit => redis \in BOOLEAN /\ excused \in BOOLEAN
  BY Zenon DEF DcaInit
<1>3. DcaInit => Marks
  BY Zenon DEF DcaInit, Marks
<1>4. DcaInit => /\ at = "idle" /\ caller = "none" /\ manual = "idle" /\ held = 1 /\ bought = 1
  BY DEF DcaInit
<1> QED BY <1>1, <1>2, <1>3, <1>4 DEF Places, CheckStep, ManualStep

LEMMA MarksNext ==
  ASSUME Marks, [DcaNext]_dcaVars
  PROVE  Marks'
<1>1. shared' \in BOOLEAN
  <2>1. \/ shared' = shared \/ shared' = FALSE
        \/ shared' = (shared \/ {h \in Holder : Works(h) /\ ownObject[h] = Gone} = Holder)
    BY DEF DcaNext, ReadActive, RestoreActive, MonitorMarks, MonitorStarts, UserChecks,
           Hydrate, Refresh, Decide, SendEntry, ReplaceStop, CheckCloses, CheckCancels,
           CheckSyncs, CheckPersists, ManualStarts, ManualCloses, ManualCancels,
           ManualSyncs, ManualPersists, RestartDca, TriggerStop, dcaVars, objectVars,
           Replace, Change, LetGo, Finalize
  <2> QED BY <2>1, Zenon DEF Marks
<1>2. marked' \in BOOLEAN
  <2>1. marked' = marked \/ marked' = TRUE \/ marked' = FALSE
    BY DEF DcaNext, ReadActive, RestoreActive, MonitorMarks, MonitorStarts, UserChecks,
           Hydrate, Refresh, Decide, SendEntry, ReplaceStop, CheckCloses, CheckCancels,
           CheckSyncs, CheckPersists, ManualStarts, ManualCloses, ManualCancels,
           ManualSyncs, ManualPersists, RestartDca, TriggerStop, dcaVars
  <2> QED BY <2>1, Zenon DEF Marks
<1> QED BY <1>1, <1>2 DEF Marks

LEMMA PlacesNext ==
  ASSUME DInv, DInv', Places, [DcaNext]_dcaVars
  PROVE  Places'
<1> USE DcaAssumption DEF Places, CheckStep, ManualStep, Fault, Excuse
<1>1. CASE ReadActive \/ RestoreActive \/ MonitorMarks
  <2>1. /\ UNCHANGED <<redis, at, caller, manual, held, bought, stopBook, dcaFaults>>
        /\ excused' = excused \/ \E busy \in BOOLEAN : excused' = (excused \/ busy)
    BY <1>1 DEF ReadActive, RestoreActive, MonitorMarks, Overlaps, storeVars, marketVars
  <2>2. excused' \in BOOLEAN /\ redis' \in BOOLEAN
    BY <2>1, Zenon
  <2> QED BY <2>1, <2>2
<1>16. CASE MonitorStarts
  BY <1>16 DEF MonitorStarts, Overlaps, storeVars, marketVars
<1>2. CASE UserChecks \/ Hydrate
  BY <1>2 DEF UserChecks, Hydrate, Overlaps, storeVars, marketVars
<1>3. CASE Refresh
  BY <1>3 DEF Refresh, storeVars, marketVars
<1>4. CASE Decide
  BY <1>4 DEF Decide, storeVars, marketVars
<1>5. CASE SendEntry
  <2> DEFINE k == Object("check").entries + 1
  <2>1. at = "enter" => k \in 1..MaxEntries
    <3>1. at = "enter" => Object("check").entries \in 1..MaxEntries
      BY ObjectFacts, RecordFacts DEF DInv, Stored, Holder
    <3> QED BY <3>1 DEF DInv, EntriesUsed
  <2>2. at = "enter" => EntryStop(k) \in StopOrder
    BY <2>1 DEF StopOrder, EntryStop
  <2>3. /\ at = "enter" /\ UNCHANGED <<redis, manual>>
        /\ UNCHANGED <<held, bought>> \/ (held' = held + 1 /\ bought' = bought + 1)
        /\ stopBook' = stopBook \/ stopBook' = stopBook \cup {EntryStop(k)}
        /\ (at' = "protect" /\ caller' = caller) \/ EndCheck
        /\ UNCHANGED dcaFaults \/ Fault
        /\ UNCHANGED excused \/ Overlaps(ownObject["check"] # Gone) \/ Excuse
    BY <1>5, Zenon DEF SendEntry, Bought, marketVars
  <2>4. stopBook' \subseteq StopOrder
    BY <2>2, <2>3
  <2>5. excused' \in BOOLEAN /\ redis' \in BOOLEAN
    BY <2>3, Zenon DEF Overlaps
  <2>6. dcaFaults' \in 0..MaxFaults
    BY <2>3
  <2> QED BY <2>3, <2>4, <2>5, <2>6 DEF EndCheck
<1>6. CASE ReplaceStop
  <2>1. at = "protect" => Object("check") \in Record
    BY ObjectFacts DEF DInv, Stored, Holder
  <2>2. at = "protect" => Aggregate(Object("check").entries) \in StopOrder
    BY <2>1, RecordFacts DEF StopOrder, Aggregate
  <2>3. /\ at = "protect" /\ at' = "sync" /\ UNCHANGED <<redis, manual, caller, bought>>
        /\ stopBook' \subseteq stopBook \cup {Aggregate(Object("check").entries)}
        /\ held' = held \/ held' \in 0..held
        /\ UNCHANGED dcaFaults \/ Fault
        /\ UNCHANGED excused \/ Excuse
    BY <1>6 DEF ReplaceStop
  <2>4. stopBook' \subseteq StopOrder
    BY <2>2, <2>3
  <2>5. excused' \in BOOLEAN /\ redis' \in BOOLEAN
    BY <2>3, Zenon
  <2>6. dcaFaults' \in 0..MaxFaults
    BY <2>3
  <2> QED BY <2>3, <2>4, <2>5, <2>6
<1>7. CASE CheckCloses \/ ManualCloses
  BY <1>7 DEF CheckCloses, ManualCloses, Flatten, storeVars, marketVars
<1>8. CASE CheckCancels
  BY <1>8 DEF CheckCancels, CancelAll, storeVars, marketVars
<1>9. CASE CheckSyncs \/ CheckPersists
  <2>1. /\ UNCHANGED <<redis, manual, marketVars>>
        /\ at \in {"sync", "syncFailed", "persist"}
        /\ (at' = "persist" /\ caller' = caller) \/ EndCheck
        /\ UNCHANGED dcaFaults \/ Fault
        /\ UNCHANGED excused \/ Excuse
    BY <1>9 DEF CheckSyncs, CheckPersists, SyncState, Persist
  <2>2. excused' \in BOOLEAN /\ redis' \in BOOLEAN
    BY <2>1, Zenon
  <2>3. dcaFaults' \in 0..MaxFaults
    BY <2>1
  <2> QED BY <2>1, <2>2, <2>3 DEF marketVars, EndCheck
<1>10. CASE ManualStarts
  BY <1>10 DEF ManualStarts, Overlaps, storeVars, marketVars
<1>11. CASE ManualCancels
  BY <1>11 DEF ManualCancels, CancelAll, storeVars, marketVars
<1>12. CASE ManualSyncs \/ ManualPersists
  <2>1. /\ UNCHANGED <<redis, at, caller, marketVars>>
        /\ manual' \in ManualStep
        /\ UNCHANGED dcaFaults \/ Fault
        /\ UNCHANGED excused \/ Excuse
    BY <1>12 DEF ManualSyncs, ManualPersists, SyncState, Persist
  <2>2. excused' \in BOOLEAN /\ redis' \in BOOLEAN
    BY <2>1, Zenon
  <2>3. dcaFaults' \in 0..MaxFaults
    BY <2>1
  <2> QED BY <2>1, <2>2, <2>3 DEF marketVars
<1>13. CASE RestartDca
  BY <1>13 DEF RestartDca, EndCheck, storeVars, marketVars
<1>14. CASE TriggerStop
  BY <1>14 DEF TriggerStop, storeVars, marketVars
<1>15. CASE UNCHANGED dcaVars
  BY <1>15 DEF dcaVars, storeVars, marketVars
<1> QED BY <1>1, <1>2, <1>3, <1>4, <1>5, <1>6, <1>7, <1>8, <1>9, <1>10, <1>11, <1>12,
           <1>13, <1>14, <1>15, <1>16 DEF DcaNext

\* The strategy in memory, in Redis and in its row, and the steps of a check and
\* of the close endpoint have the values they are declared with (strategies/dca.py).
THEOREM DcaTypeCorrect == DcaSpec => []DcaTypeOK
<1>1. DInv /\ Places /\ Marks => DcaTypeOK
  <2> SUFFICES ASSUME DInv, Places, Marks PROVE DcaTypeOK
    OBVIOUS
  <2>1. held \in 0..bought
    BY DEF Places
  <2>2. (at = "idle") = (caller = "none")
    BY DEF Places
  <2> QED BY <2>1, <2>2 DEF DInv, Stored, EntriesUsed, Places, Marks, DcaTypeOK
<1>2. DcaInit => DInv /\ Places /\ Marks
  BY DInvInit, PlacesStart
<1>3. DInv /\ DInv' /\ Places /\ [DcaNext]_dcaVars => Places'
  BY PlacesNext
<1>4. Marks /\ [DcaNext]_dcaVars => Marks'
  BY MarksNext
<1> QED BY <1>1, <1>2, <1>3, <1>4, DInvHolds, PTL DEF DcaSpec

-----------------------------------------------------------------------------
(***************************************************************************)
(* Subscriptions and payments (Subscriptions).                             *)
(***************************************************************************)
ReqRecord == [job : {"none"} \cup UserJob \cup AdminJob,
              at : {"idle", "user", "code", "decide", "insert",
                    "lock", "submit", "reject"} \cup Activating,
              row : {0} \cup Row, pay : {0} \cup Pay,
              new : RowStatus, old : SUBSET Row, money : Int]

Requests ==
    /\ req \in [Request -> ReqRecord]
    /\ sub \in [Row -> RowStatus]
    /\ pay \in [Pay -> [row : {0} \cup Row, status : PayStatus]]
    /\ balance \in Int /\ spent \in Int /\ redeemed \in Int
    /\ code \in BOOLEAN

\* Where the requests for each job can be.
JobSteps ==
    \A s \in Request :
        /\ req[s].job = "none" <=> req[s].at = "idle"
        /\ req[s].at \in {"user", "decide"} => req[s].job \in {"subscribe", "redeem"}
        /\ req[s].at = "code" => req[s].job = "redeem"
        /\ req[s].at = "load" => req[s].job = "confirm"
        /\ req[s].at \in Activating => req[s].job \in {"subscribe", "redeem", "grant", "confirm"}
        /\ req[s].job \in {"subscribe", "redeem", "grant"} => req[s].pay = 0
        /\ req[s].job = "confirm" <=> req[s].at \in Activating /\ req[s].pay # 0
        /\ req[s].at \in {"lock", "submit", "reject"} => req[s].pay \in Pay

\* A request that has decided holds the row of the user, and carries the
\* balance its commit will write; one that redeems holds the code as well.
HoldsFor(s) ==
    /\ req[s].job \in {"subscribe", "redeem"} /\ req[s].at \in {"decide"} \cup Activating
       <=> userLock = s
    /\ userLock = s =>
        req[s].money = IF req[s].at = "decide" THEN balance
                       ELSE IF req[s].job = "redeem" THEN balance + 1
                       ELSE IF req[s].new = "active" THEN balance - Price
                       ELSE balance
    /\ req[s].job = "redeem" /\ req[s].at # "code" <=> codeLock = s
    /\ codeLock = s => code

Holds == \A s \in Request : HoldsFor(s)

Money ==
    /\ redeemed = IF code THEN 0 ELSE 1
    /\ balance = Deposit + redeemed - spent

\* A payment that is being submitted is pending, and nobody else writes it.
PayLocks ==
    \A s \in Request : req[s].at = "submit" =>
        /\ pay[req[s].pay].status = "pending"
        /\ \A t \in Others(s) : req[s].pay \notin LockedPays(t)

SubInv == Requests /\ JobSteps /\ Holds /\ Money /\ PayLocks

LEMMA SubStart == SubscriptionInit => SubInv
<1> SUFFICES ASSUME SubscriptionInit PROVE SubInv
  OBVIOUS
<1> USE SubscriptionAssumption DEF SubscriptionInit, Idle, Begun
<1>1. Requests
  BY DEF Requests, ReqRecord, UserJob, AdminJob, Activating, RowStatus, PayStatus
<1>2. JobSteps
  BY DEF JobSteps, Activating
<1>3. Holds
  BY DEF Holds, HoldsFor, Activating
<1>4. Money
  BY DEF Money
<1>5. PayLocks
  BY DEF PayLocks
<1> QED BY <1>1, <1>2, <1>3, <1>4, <1>5 DEF SubInv

\* Every request but that of s is as it was.
LEMMA OnlyOne ==
    ASSUME NEW s \in Request, Requests, NEW r \in ReqRecord,
           req' = [req EXCEPT ![s] = r]
    PROVE  /\ req' \in [Request -> ReqRecord]
           /\ req'[s] = r
           /\ \A t \in Request : t # s => req'[t] = req[t]
BY DEF Requests

LEMMA IdleRecord == Idle \in ReqRecord
BY DEF Idle, Begun, ReqRecord, UserJob, AdminJob, RowStatus

\* A request that ends.
LEMMA LeaveFacts ==
    ASSUME NEW s \in Request, SubInv, Leave(s)
    PROVE  /\ req' \in [Request -> ReqRecord]
           /\ req'[s] = Idle
           /\ \A t \in Request : t # s => req'[t] = req[t]
BY IdleRecord, OnlyOne DEF Leave, SubInv

\* The end of a request that writes neither money nor code nor a payment that
\* another request submits.
LEMMA LeaveKeeps ==
    ASSUME NEW s \in Request, SubInv, Leave(s),
           UNCHANGED <<sub, pay, balance, code, spent, redeemed>>
    PROVE  SubInv'
<1> USE SubscriptionAssumption
<1>0. /\ req' \in [Request -> ReqRecord]
      /\ req'[s] = Idle
      /\ \A t \in Request : t # s => req'[t] = req[t]
  BY LeaveFacts
<1>1. Requests'
  BY <1>0 DEF SubInv, Requests
<1>2. JobSteps'
  BY <1>0 DEF SubInv, JobSteps, Idle, Begun, Activating
<1>3. Holds'
  BY <1>0 DEF SubInv, Holds, HoldsFor, Idle, Begun, Activating, Leave
<1>4. Money'
  BY DEF SubInv, Money
<1>5. PayLocks'
  BY <1>0 DEF SubInv, PayLocks, Idle, Begun, Others, LockedPays
<1> QED BY <1>1, <1>2, <1>3, <1>4, <1>5 DEF SubInv

\* A request that moves on, or arrives, and may take a lock that is free.
LEMMA MoveKeeps ==
    ASSUME NEW s \in Request, SubInv, NEW r \in ReqRecord,
           req' = [req EXCEPT ![s] = r],
           UNCHANGED <<sub, pay, balance, code, spent, redeemed>>,
           \A t \in Others(s) : /\ userLock' = t <=> userLock = t
                                /\ codeLock' = t <=> codeLock = t,
           r.job = "none" <=> r.at = "idle",
           r.at \in {"user", "decide"} => r.job \in {"subscribe", "redeem"},
           r.at = "code" => r.job = "redeem",
           r.at = "load" => r.job = "confirm",
           r.at \in Activating => r.job \in {"subscribe", "redeem", "grant", "confirm"},
           r.job \in {"subscribe", "redeem", "grant"} => r.pay = 0,
           r.job = "confirm" <=> r.at \in Activating /\ r.pay # 0,
           r.at \in {"lock", "submit", "reject"} => r.pay \in Pay,
           r.job \in {"subscribe", "redeem"} /\ (r.at = "decide" \/ r.at \in Activating)
               <=> userLock' = s,
           userLock' = s =>
               r.money = IF r.at = "decide" THEN balance
                         ELSE IF r.job = "redeem" THEN balance + 1
                         ELSE IF r.new = "active" THEN balance - Price
                         ELSE balance,
           r.job = "redeem" /\ r.at # "code" <=> codeLock' = s,
           codeLock' = s => code,
           r.at = "submit" =>
               /\ pay[r.pay].status = "pending"
               /\ \A t \in Others(s) : r.pay \notin LockedPays(t),
           r.at \in {"snapshot", "update", "commit"} /\ r.pay # 0 =>
               \/ req[s].at \in {"snapshot", "update"} /\ r.pay = req[s].pay
               \/ PayFree(s, r.pay)
    PROVE  SubInv'
<1> USE SubscriptionAssumption
<1>0. /\ req' \in [Request -> ReqRecord]
      /\ req'[s] = r
      /\ \A t \in Request : t # s => req'[t] = req[t]
  BY OnlyOne DEF SubInv
<1>1. Requests'
  BY <1>0 DEF SubInv, Requests
<1>2. JobSteps'
  BY <1>0 DEF SubInv, JobSteps
<1>3. Holds'
  <2>1. HoldsFor(s)'
    BY <1>0 DEF HoldsFor
  <2>2. ASSUME NEW t \in Others(s) PROVE HoldsFor(t)'
    <3>1. HoldsFor(t) /\ t \in Request /\ t # s
      BY DEF SubInv, Holds, Others
    <3>2. req'[t] = req[t]
      BY <1>0, <3>1
    <3>3. /\ userLock' = t <=> userLock = t
          /\ codeLock' = t <=> codeLock = t
      OBVIOUS
    <3>4. balance' = balance /\ (code' <=> code)
      OBVIOUS
    <3> QED BY <3>1, <3>2, <3>3, <3>4 DEF HoldsFor
  <2> QED BY <2>1, <2>2 DEF Holds, Others
<1>4. Money'
  BY DEF SubInv, Money
<1>5. PayLocks'
  <2> SUFFICES ASSUME NEW t \in Request, req'[t].at = "submit"
               PROVE  /\ pay[req'[t].pay].status = "pending"
                      /\ \A u \in Others(t) : req'[t].pay \notin LockedPays(u)'
    BY DEF PayLocks, Others
  <2>1. CASE t = s
    BY <1>0, <2>1 DEF Others, LockedPays
  <2>2. CASE t # s
    <3>1. req'[t] = req[t] /\ req[t].at = "submit"
      BY <1>0, <2>2
    <3>2. pay[req[t].pay].status = "pending" /\ req[t].pay \in Pay
      BY <3>1 DEF SubInv, PayLocks, JobSteps
    <3>3. ASSUME NEW u \in Others(t) PROVE req[t].pay \notin LockedPays(u)'
      <4>1. req[t].pay \notin LockedPays(u)
        BY <3>1 DEF SubInv, PayLocks
      <4>2. CASE u # s
        BY <1>0, <4>1, <4>2 DEF Others, LockedPays
      <4>3. CASE u = s
        <5>1. LockedPays(u)' = IF r.at \in {"snapshot", "update", "commit", "submit"}
                               THEN {r.pay} ELSE {}
          BY <1>0, <4>3 DEF LockedPays
        <5>2. 0 \notin Pay
          BY DEF Pay
        <5>3. PayFree(s, r.pay) => req[t].pay # r.pay
          BY <3>1, <2>2 DEF PayFree, Others, LockedPays
        <5>4. r.at = "submit" => req[t].pay # r.pay
          BY <3>1, <2>2 DEF Others, LockedPays
        <5>5. req[s].at \in {"snapshot", "update"} => req[t].pay # req[s].pay
          BY <4>1, <4>3 DEF LockedPays
        <5> QED BY <5>1, <5>2, <5>3, <5>4, <5>5, <3>2
      <4> QED BY <4>2, <4>3
    <3> QED BY <3>1, <3>2, <3>3
  <2> QED BY <2>1, <2>2
<1> QED BY <1>1, <1>2, <1>3, <1>4, <1>5 DEF SubInv

LEMMA StartKeeps ==
    ASSUME NEW s \in Request, SubInv, Start(s)
    PROVE  SubInv'
<1> USE SubscriptionAssumption DEF SubInv
<1>1. req[s] = Idle /\ UNCHANGED <<sub, pay, balance, code, spent, redeemed, userLock, codeLock>>
  BY DEF Start, StartSubscribe, StartRedeem, StartPay, StartSubmit, StartConfirm,
         StartReject, StartGrant, StartJob, tableVars
<1>2. userLock # s /\ codeLock # s
  BY <1>1 DEF Holds, HoldsFor, Idle, Begun, Activating
<1>3. PICK r \in ReqRecord :
          /\ req' = [req EXCEPT ![s] = r]
          /\ \/ r.job = "subscribe" /\ r.at = "user" /\ r.pay = 0
             \/ r.job = "redeem" /\ r.at = "code" /\ r.pay = 0
             \/ r.job = "pay" /\ r.at = "insert" /\ r.pay = 0
             \/ r.job = "submit" /\ r.at = "lock" /\ r.pay \in Pay
             \/ r.job = "confirm" /\ r.at = "load" /\ r.pay \in Pay
             \/ r.job = "reject" /\ r.at = "reject" /\ r.pay \in Pay
             \/ r.job = "grant" /\ r.at \in {"flush", "commit"} /\ r.pay = 0
  <2>1. ASSUME NEW j \in UserJob \cup AdminJob, NEW row \in {0} \cup Row,
               NEW p \in {0} \cup Pay, NEW status \in RowStatus,
               NEW a \in {"user", "code", "insert", "lock", "load", "reject",
                          "flush", "commit"}
        PROVE  Begun(j, a, row, p, status, 0) \in ReqRecord
    BY DEF Begun, ReqRecord, Activating
  <2>2. CASE StartSubscribe(s)
    <3>1. req' = [req EXCEPT ![s] = Begun("subscribe", "user", 0, 0, "none", 0)]
      BY <2>2 DEF StartSubscribe, StartJob
    <3>2. Begun("subscribe", "user", 0, 0, "none", 0) \in ReqRecord
      BY <2>1 DEF UserJob, AdminJob, RowStatus, Requests
    <3> QED BY <3>1, <3>2 DEF Begun
  <2>3. CASE StartRedeem(s)
    <3>1. req' = [req EXCEPT ![s] = Begun("redeem", "code", 0, 0, "none", 0)]
      BY <2>3 DEF StartRedeem, StartJob
    <3>2. Begun("redeem", "code", 0, 0, "none", 0) \in ReqRecord
      BY <2>1 DEF UserJob, AdminJob, RowStatus, Requests
    <3> QED BY <3>1, <3>2 DEF Begun
  <2>4. CASE StartPay(s)
    <3>1. PICK row \in Row :
              req' = [req EXCEPT ![s] = Begun("pay", "insert", row, 0, "none", 0)]
      BY <2>4 DEF StartPay, StartJob
    <3>2. Begun("pay", "insert", row, 0, "none", 0) \in ReqRecord
      BY <2>1 DEF UserJob, AdminJob, RowStatus, Requests
    <3> QED BY <3>1, <3>2 DEF Begun
  <2>5. CASE StartSubmit(s)
    <3>1. PICK p \in Pay :
              req' = [req EXCEPT ![s] = Begun("submit", "lock", 0, p, "none", 0)]
      BY <2>5 DEF StartSubmit, StartJob
    <3>2. Begun("submit", "lock", 0, p, "none", 0) \in ReqRecord
      BY <2>1 DEF UserJob, AdminJob, RowStatus, Requests
    <3> QED BY <3>1, <3>2 DEF Begun
  <2>6. CASE StartConfirm(s)
    <3>1. PICK p \in Pay :
              req' = [req EXCEPT ![s] = Begun("confirm", "load", pay[p].row, p, "none", 0)]
      BY <2>6 DEF StartConfirm, StartJob
    <3>2. Begun("confirm", "load", pay[p].row, p, "none", 0) \in ReqRecord
      BY <2>1 DEF UserJob, AdminJob, RowStatus, Requests
    <3> QED BY <3>1, <3>2 DEF Begun
  <2>7. CASE StartReject(s)
    <3>1. PICK p \in Pay :
              req' = [req EXCEPT ![s] = Begun("reject", "reject", 0, p, "none", 0)]
      BY <2>7 DEF StartReject, StartJob
    <3>2. Begun("reject", "reject", 0, p, "none", 0) \in ReqRecord
      BY <2>1 DEF UserJob, AdminJob, RowStatus, Requests
    <3> QED BY <3>1, <3>2 DEF Begun
  <2>8. CASE StartGrant(s)
    <3>1. PICK row \in Row, status \in {"active", "pending"},
               stmt \in {"flush", "commit"} :
              req' = [req EXCEPT ![s] = Begun("grant", stmt, row, 0, status, 0)]
      BY <2>8 DEF StartGrant, StartJob
    <3>2. Begun("grant", stmt, row, 0, status, 0) \in ReqRecord
      BY <2>1 DEF UserJob, AdminJob, RowStatus, Requests
    <3> QED BY <3>1, <3>2 DEF Begun
  <2> QED BY <2>2, <2>3, <2>4, <2>5, <2>6, <2>7, <2>8 DEF Start
<1>4. 0 \notin Pay
  BY DEF Pay
<1> QED BY <1>1, <1>2, <1>3, <1>4, MoveKeeps DEF Activating

\* The steps of a request up to its commit.
LEMMA StepKeeps ==
    ASSUME NEW s \in Request, SubInv,
           \/ LockCode(s) \/ LockUser(s) \/ Subscribe(s) \/ Redeem(s) \/ LoadRow(s)
           \/ Flush(s) \/ Snapshot(s) \/ Deactivate(s) \/ LockPayment(s)
    PROVE  SubInv'
<1> USE SubscriptionAssumption
<1> DEFINE q == req[s]
<1>0. /\ q \in ReqRecord /\ q = req[s]
      /\ UNCHANGED <<sub, pay, balance, code, spent, redeemed>>
      /\ 0 \notin Pay
  <2>1. q \in ReqRecord
    BY DEF SubInv, Requests
  <2>2. UNCHANGED <<sub, pay, balance, code, spent, redeemed>>
    BY DEF LockCode, LockUser, Subscribe, Redeem, LoadRow, Flush,
           Snapshot, Deactivate, LockPayment, tableVars
  <2> QED BY <2>1, <2>2 DEF Pay
<1>1. CASE Leave(s)
  BY <1>0, <1>1, LeaveKeeps
<1>2. CASE LockCode(s) /\ ~Leave(s)
  <2> DEFINE r == [q EXCEPT !.at = "user"]
  <2>1. req' = [req EXCEPT ![s] = r]
    BY <1>2 DEF LockCode, Go
  <2>2. /\ q.at = "code" /\ code /\ codeLock = Nobody /\ codeLock' = s /\ userLock' = userLock
    BY <1>2 DEF LockCode, CodeFree
  <2>3. r \in ReqRecord /\ r.at = "user" /\ r.job = q.job /\ r.pay = q.pay
    BY <1>0 DEF ReqRecord
  <2>4. q.job = "redeem" /\ q.pay = 0 /\ userLock # s
    BY <2>2 DEF SubInv, JobSteps, Holds, HoldsFor, Activating
  <2>5. \A t \in Others(s) : /\ userLock' = t <=> userLock = t
                             /\ codeLock' = t <=> codeLock = t
    BY <2>2, SubscriptionAssumption DEF Others
  <2> HIDE DEF r, q
  <2> QED BY <1>0, <2>1, <2>2, <2>3, <2>4, <2>5, MoveKeeps DEF Activating
<1>3. CASE LockUser(s)
  <2> DEFINE r == [q EXCEPT !.at = "decide", !.money = balance]
  <2>1. req' = [req EXCEPT ![s] = r] /\ q.at = "user" /\ codeLock' = codeLock
    BY <1>3 DEF LockUser, SubInv, Requests, ReqRecord
  <2>2. userLock = Nobody /\ userLock' = s
    BY <1>3 DEF LockUser, UserFree
  <2>3. r \in ReqRecord /\ r.job = q.job /\ r.at = "decide" /\ r.money = balance
        /\ r.pay = q.pay
    BY <1>0 DEF ReqRecord, SubInv, Requests
  <2>4. /\ q.job \in {"subscribe", "redeem"} /\ q.pay = 0
        /\ q.job = "redeem" <=> codeLock = s
        /\ codeLock = s => code
    BY <2>1 DEF SubInv, JobSteps, Holds, HoldsFor
  <2>5. \A t \in Others(s) : /\ userLock' = t <=> userLock = t
                             /\ codeLock' = t <=> codeLock = t
    BY <2>1, <2>2, SubscriptionAssumption DEF Others
  <2> HIDE DEF r
  <2> QED BY <1>0, <2>1, <2>2, <2>3, <2>4, <2>5, MoveKeeps DEF Activating
<1>4. CASE Subscribe(s) /\ ~Leave(s)
  <2>1. PICK row \in Row :
            req' = [req EXCEPT ![s] =
                IF q.money >= Price
                THEN Begun("subscribe", "flush", row, 0, "active", q.money - Price)
                ELSE Begun("subscribe", "commit", row, 0, "pending", q.money)]
    BY <1>4 DEF Subscribe
  <2>2. PICK r \in ReqRecord :
            /\ req' = [req EXCEPT ![s] = r]
            /\ r.job = "subscribe" /\ r.pay = 0
            /\ \/ r.new = "active" /\ r.at = "flush" /\ r.money = q.money - Price
               \/ r.new = "pending" /\ r.at = "commit" /\ r.money = q.money
    <3> DEFINE r1 == Begun("subscribe", "flush", row, 0, "active", q.money - Price)
               r2 == Begun("subscribe", "commit", row, 0, "pending", q.money)
    <3>1. q.money \in Int
      BY <1>0 DEF ReqRecord
    <3>2. /\ r1 \in ReqRecord /\ r1.job = "subscribe" /\ r1.pay = 0 /\ r1.new = "active"
          /\ r1.at = "flush" /\ r1.money = q.money - Price
      BY <3>1 DEF ReqRecord, Begun, RowStatus, UserJob, Activating
    <3>3. /\ r2 \in ReqRecord /\ r2.job = "subscribe" /\ r2.pay = 0 /\ r2.new = "pending"
          /\ r2.at = "commit" /\ r2.money = q.money
      BY <3>1 DEF ReqRecord, Begun, RowStatus, UserJob, Activating
    <3> HIDE DEF r1, r2
    <3> QED BY <2>1, <3>2, <3>3 DEF r1, r2
  <2>3. /\ q.at = "decide" /\ q.job = "subscribe" /\ UNCHANGED <<userLock, codeLock>>
    BY <1>4 DEF Subscribe
  <2>4. userLock = s /\ q.money = balance /\ codeLock # s
    BY <2>3 DEF SubInv, JobSteps, Holds, HoldsFor
  <2> QED BY <1>0, <2>2, <2>3, <2>4, MoveKeeps DEF Others, Activating
<1>5. CASE Redeem(s)
  <2>1. PICK row \in Row :
            req' = [req EXCEPT ![s] = Begun("redeem", "flush", row, 0, "active", q.money + 1)]
    BY <1>5 DEF Redeem
  <2> DEFINE r == Begun("redeem", "flush", row, 0, "active", q.money + 1)
  <2>2. req' = [req EXCEPT ![s] = r]
    BY <2>1
  <2>3. /\ r \in ReqRecord /\ r.job = "redeem" /\ r.pay = 0 /\ r.new = "active"
        /\ r.at = "flush" /\ r.money = q.money + 1
    BY <1>0 DEF ReqRecord, Begun, RowStatus, UserJob, Activating
  <2>4. q.at = "decide" /\ q.job = "redeem" /\ UNCHANGED <<userLock, codeLock>>
    BY <1>5 DEF Redeem
  <2>5. userLock = s /\ q.money = balance /\ codeLock = s /\ code
    BY <2>4 DEF SubInv, JobSteps, Holds, HoldsFor
  <2> HIDE DEF r
  <2> QED BY <1>0, <2>2, <2>3, <2>4, <2>5, MoveKeeps DEF Others, Activating
<1>6. CASE LoadRow(s)
  <2> DEFINE r == [q EXCEPT !.at = "flush",
                            !.new = IF sub[q.row] = "active" THEN "none" ELSE "active"]
  <2>1. req' = [req EXCEPT ![s] = r] /\ q.at = "load" /\ UNCHANGED <<userLock, codeLock>>
    BY <1>6 DEF LoadRow, SubInv, Requests, ReqRecord
  <2>2. r \in ReqRecord /\ r.at = "flush" /\ r.job = q.job /\ r.pay = q.pay
    BY <1>0 DEF ReqRecord, RowStatus, Activating
  <2>3. q.job = "confirm" /\ q.pay # 0 /\ userLock # s /\ codeLock # s
    BY <2>1 DEF SubInv, JobSteps, Holds, HoldsFor, Activating
  <2> HIDE DEF r, q
  <2> QED BY <1>0, <2>1, <2>2, <2>3, MoveKeeps DEF Activating, Others
<1>7. CASE Flush(s)
  <2> DEFINE r == [q EXCEPT !.at = "snapshot"]
  <2>1. req' = [req EXCEPT ![s] = r] /\ q.at = "flush"
        /\ UNCHANGED <<userLock, codeLock>>
    BY <1>7 DEF Flush, Go
  <2>2. q.pay # 0 => PayFree(s, q.pay)
    BY <1>7 DEF Flush
  <2>3. /\ r \in ReqRecord /\ r.at = "snapshot" /\ r.job = q.job /\ r.pay = q.pay
        /\ r.money = q.money /\ r.new = q.new
    BY <1>0 DEF ReqRecord, Activating
  <2>5. /\ q.job \in {"subscribe", "redeem", "grant", "confirm"}
        /\ q.job \in {"subscribe", "redeem", "grant"} => q.pay = 0
        /\ q.job = "confirm" <=> q.pay # 0
    BY <2>1 DEF SubInv, JobSteps, Activating
  <2>6. /\ q.job \in {"subscribe", "redeem"} <=> userLock = s
        /\ userLock = s => q.money = IF q.job = "redeem" THEN balance + 1
                                     ELSE IF q.new = "active" THEN balance - Price
                                     ELSE balance
        /\ q.job = "redeem" <=> codeLock = s
        /\ codeLock = s => code
    BY <2>1 DEF SubInv, Holds, HoldsFor, Activating
  <2> HIDE DEF r, q
  <2> QED BY <1>0, <2>1, <2>2, <2>3, <2>5, <2>6, MoveKeeps DEF Activating, Others
<1>8. CASE Snapshot(s)
  <2> DEFINE r == [q EXCEPT !.at = "update", !.old = ActiveRows(s)]
  <2>1. req' = [req EXCEPT ![s] = r] /\ q.at = "snapshot" /\ UNCHANGED <<userLock, codeLock>>
    BY <1>8 DEF Snapshot, SubInv, Requests, ReqRecord
  <2>2. /\ r \in ReqRecord /\ r.at = "update" /\ r.job = q.job /\ r.pay = q.pay
        /\ r.money = q.money /\ r.new = q.new
    BY <1>0 DEF ReqRecord, ActiveRows, Activating
  <2>3. /\ q.job \in {"subscribe", "redeem", "grant", "confirm"}
        /\ q.job \in {"subscribe", "redeem", "grant"} => q.pay = 0
        /\ q.job = "confirm" <=> q.pay # 0
    BY <2>1 DEF SubInv, JobSteps, Activating
  <2>4. /\ q.job \in {"subscribe", "redeem"} <=> userLock = s
        /\ userLock = s => q.money = IF q.job = "redeem" THEN balance + 1
                                     ELSE IF q.new = "active" THEN balance - Price
                                     ELSE balance
        /\ q.job = "redeem" <=> codeLock = s
        /\ codeLock = s => code
    BY <2>1 DEF SubInv, Holds, HoldsFor, Activating
  <2> HIDE DEF r, q
  <2> QED BY <1>0, <2>1, <2>2, <2>3, <2>4, MoveKeeps DEF Activating, Others
<1>9. CASE Deactivate(s)
  <2> DEFINE r == [q EXCEPT !.at = "commit", !.old = {o \in q.old : sub[o] = "active"}]
  <2>1. req' = [req EXCEPT ![s] = r] /\ q.at = "update" /\ UNCHANGED <<userLock, codeLock>>
    BY <1>9 DEF Deactivate, SubInv, Requests, ReqRecord
  <2>2. /\ r \in ReqRecord /\ r.at = "commit" /\ r.job = q.job /\ r.pay = q.pay
        /\ r.money = q.money /\ r.new = q.new
    BY <1>0 DEF ReqRecord, Activating
  <2>3. /\ q.job \in {"subscribe", "redeem", "grant", "confirm"}
        /\ q.job \in {"subscribe", "redeem", "grant"} => q.pay = 0
        /\ q.job = "confirm" <=> q.pay # 0
    BY <2>1 DEF SubInv, JobSteps, Activating
  <2>4. /\ q.job \in {"subscribe", "redeem"} <=> userLock = s
        /\ userLock = s => q.money = IF q.job = "redeem" THEN balance + 1
                                     ELSE IF q.new = "active" THEN balance - Price
                                     ELSE balance
        /\ q.job = "redeem" <=> codeLock = s
        /\ codeLock = s => code
    BY <2>1 DEF SubInv, Holds, HoldsFor, Activating
  <2> HIDE DEF r, q
  <2> QED BY <1>0, <2>1, <2>2, <2>3, <2>4, MoveKeeps DEF Activating, Others
<1>10. CASE LockPayment(s) /\ ~Leave(s)
  <2> DEFINE r == [q EXCEPT !.at = "submit"]
  <2>1. req' = [req EXCEPT ![s] = r] /\ q.at = "lock"
        /\ UNCHANGED <<userLock, codeLock>>
    BY <1>10 DEF LockPayment, Go
  <2>2. PayFree(s, q.pay) /\ pay[q.pay].status = "pending"
    BY <1>10 DEF LockPayment, StillPending
  <2>3. r \in ReqRecord /\ r.at = "submit" /\ r.job = q.job /\ r.pay = q.pay
    BY <1>0 DEF ReqRecord
  <2>4. /\ q.pay \in Pay /\ q.job \notin {"none", "subscribe", "redeem", "grant", "confirm"}
        /\ userLock # s /\ codeLock # s
    BY <1>0, <2>1 DEF SubInv, JobSteps, Holds, HoldsFor, Activating
  <2> HIDE DEF r, q
  <2> QED BY <1>0, <2>1, <2>2, <2>3, <2>4, MoveKeeps DEF Activating, Others, PayFree
<1> QED BY <1>1, <1>2, <1>3, <1>4, <1>5, <1>6, <1>7, <1>8, <1>9, <1>10

\* The transactions that end, and the date.
LEMMA CommitKeeps ==
    ASSUME NEW s \in Request, SubInv, CommitJob(s)
    PROVE  SubInv'
<1> USE SubscriptionAssumption
<1> DEFINE q == req[s]
<1>0. /\ req' \in [Request -> ReqRecord]
      /\ req'[s] = Idle
      /\ \A t \in Request : t # s => req'[t] = req[t]
  BY LeaveFacts DEF CommitJob
<1>1. /\ q \in ReqRecord /\ q.at = "commit" /\ Leave(s)
      /\ q.job \in {"subscribe", "redeem", "grant", "confirm"}
      /\ q.job = "confirm" => q.pay \in Pay
  BY DEF SubInv, Requests, JobSteps, CommitJob, Activating, ReqRecord
<1>2. sub' \in [Row -> RowStatus]
  BY <1>1 DEF SubInv, Requests, CommitJob, StatusAfter, ReqRecord, RowStatus
<1>3. /\ pay' \in [Pay -> [row : {0} \cup Row, status : PayStatus]]
      /\ \A p \in Pay : p # q.pay => pay'[p] = pay[p]
  <2>1. CASE q.job = "confirm"
    BY <1>1, <2>1 DEF SubInv, Requests, CommitJob, PayStatus
  <2>2. CASE q.job # "confirm"
    BY <2>2 DEF SubInv, Requests, CommitJob
  <2> QED BY <2>1, <2>2
<1>4. /\ q.job \in {"subscribe", "redeem"} <=> userLock = s
      /\ q.job = "redeem" <=> codeLock = s
      /\ codeLock = s => code
      /\ userLock = s => q.money = IF q.job = "redeem" THEN balance + 1
                                   ELSE IF q.new = "active" THEN balance - Price
                                   ELSE balance
  BY <1>1 DEF SubInv, Holds, HoldsFor, Activating
<1>5. /\ balance' = Deposit + redeemed' - spent'
      /\ q.job # "redeem" => redeemed' = redeemed /\ (code' <=> code)
      /\ q.job = "redeem" => redeemed' = 1 /\ ~code'
      /\ balance' \in Int /\ spent' \in Int /\ redeemed' \in Int
      /\ q.job \notin {"subscribe", "redeem"} => balance' = balance
  <2>1. CASE q.job = "subscribe" /\ q.new = "active"
    BY <1>1, <1>4, <2>1 DEF SubInv, Money, Requests, CommitJob
  <2>2. CASE q.job = "subscribe" /\ q.new # "active"
    BY <1>1, <1>4, <2>2 DEF SubInv, Money, Requests, CommitJob
  <2>3. CASE q.job = "redeem"
    <3>1. /\ code /\ redeemed = 0 /\ balance = Deposit - spent
          /\ spent \in Int /\ balance \in Int
      BY <1>4, <2>3 DEF SubInv, Money, Requests
    <3>2. /\ balance' = q.money /\ spent' = spent /\ redeemed' = redeemed + 1
      BY <1>1, <1>4, <2>3 DEF CommitJob
    <3>3. q.money = balance + 1
      BY <1>4, <2>3
    <3>4. ~code'
      BY <2>3 DEF CommitJob
    <3> QED BY <2>3, <3>1, <3>2, <3>3, <3>4
  <2>4. CASE q.job \in {"grant", "confirm"}
    BY <1>1, <1>4, <2>4 DEF SubInv, Money, Requests, CommitJob
  <2> QED BY <1>1, <2>1, <2>2, <2>3, <2>4
<1>6. code' \in BOOLEAN
  BY DEF CommitJob
<1>7. Requests'
  BY <1>0, <1>2, <1>3, <1>5, <1>6 DEF Requests
<1>8. JobSteps'
  BY <1>0 DEF SubInv, JobSteps, Idle, Begun, Activating
<1>9. Holds'
  <2>1. HoldsFor(s)'
    BY <1>0, <1>1 DEF HoldsFor, Idle, Begun, Activating, Leave
  <2>2. ASSUME NEW t \in Request, t # s PROVE HoldsFor(t)'
    <3>1. HoldsFor(t)
      BY DEF SubInv, Holds
    <3>2. req'[t] = req[t]
      BY <1>0, <2>2
    <3>3. /\ userLock' = t <=> userLock = t
          /\ codeLock' = t <=> codeLock = t
      BY <1>1, <2>2 DEF Leave
    <3>4. userLock = t => balance' = balance
      BY <1>4, <1>1, <1>5, <2>2
    <3>5. codeLock = t => code'
      BY <1>4, <1>1, <1>5, <2>2, <3>1 DEF HoldsFor
    <3>6. CASE userLock = t
      BY <3>1, <3>2, <3>3, <3>4, <3>5, <3>6 DEF HoldsFor
    <3>7. CASE userLock # t
      BY <3>1, <3>2, <3>3, <3>5, <3>7 DEF HoldsFor
    <3> QED BY <3>6, <3>7
  <2> QED BY <2>1, <2>2 DEF Holds
<1>10. Money'
  <2>1. redeemed' = IF code' THEN 0 ELSE 1
    BY <1>5 DEF SubInv, Money
  <2> QED BY <2>1, <1>5 DEF Money
<1>11. PayLocks'
  <2> SUFFICES ASSUME NEW t \in Request, req'[t].at = "submit"
               PROVE  /\ pay'[req'[t].pay].status = "pending"
                      /\ \A u \in Others(t) : req'[t].pay \notin LockedPays(u)'
    BY DEF PayLocks, Others
  <2>1. t # s /\ req'[t] = req[t] /\ req[t].at = "submit"
    BY <1>0 DEF Idle, Begun
  <2>2. /\ pay[req[t].pay].status = "pending" /\ req[t].pay \in Pay
        /\ \A u \in Others(t) : req[t].pay \notin LockedPays(u)
    BY <2>1 DEF SubInv, PayLocks, JobSteps
  <2>3. req[t].pay # q.pay
    BY <1>1, <2>1, <2>2 DEF Others, LockedPays
  <2>4. ASSUME NEW u \in Others(t) PROVE req[t].pay \notin LockedPays(u)'
    BY <1>0, <2>2 DEF LockedPays, Others, Idle, Begun
  <2> QED BY <1>3, <2>1, <2>2, <2>3, <2>4
<1> QED BY <1>7, <1>8, <1>9, <1>10, <1>11 DEF SubInv

\* CreatePayment, SubmitPayment and RejectPayment write one payment, which no
\* other request submits, and leave.
LEMMA PayKeeps ==
    ASSUME NEW s \in Request, SubInv, Leave(s), NEW p \in Pay,
           \A t \in Others(s) : req[t].at = "submit" => req[t].pay # p,
           NEW e \in [row : {0} \cup Row, status : PayStatus],
           pay' = [pay EXCEPT ![p] = e],
           UNCHANGED <<sub, balance, code, spent, redeemed>>
    PROVE  SubInv'
<1> USE SubscriptionAssumption
<1>0. /\ req' \in [Request -> ReqRecord]
      /\ req'[s] = Idle
      /\ \A t \in Request : t # s => req'[t] = req[t]
  BY LeaveFacts
<1>1. Requests'
  BY <1>0 DEF SubInv, Requests
<1>2. JobSteps'
  BY <1>0 DEF SubInv, JobSteps, Idle, Begun, Activating
<1>3. Holds'
  BY <1>0 DEF SubInv, Holds, HoldsFor, Idle, Begun, Activating, Leave
<1>4. Money'
  BY DEF SubInv, Money
<1>5. PayLocks'
  <2> SUFFICES ASSUME NEW t \in Request, req'[t].at = "submit"
               PROVE  /\ pay'[req'[t].pay].status = "pending"
                      /\ \A u \in Others(t) : req'[t].pay \notin LockedPays(u)'
    BY DEF PayLocks, Others
  <2>1. t # s /\ req'[t] = req[t] /\ req[t].at = "submit"
    BY <1>0 DEF Idle, Begun
  <2>2. /\ pay[req[t].pay].status = "pending" /\ req[t].pay \in Pay
        /\ \A u \in Others(t) : req[t].pay \notin LockedPays(u)
    BY <2>1 DEF SubInv, PayLocks, JobSteps
  <2>3. req[t].pay # p
    BY <2>1 DEF Others
  <2>4. ASSUME NEW u \in Others(t) PROVE req[t].pay \notin LockedPays(u)'
    BY <1>0, <2>2 DEF LockedPays, Others, Idle, Begun
  <2> QED BY <2>1, <2>2, <2>3, <2>4 DEF SubInv, Requests
<1> QED BY <1>1, <1>2, <1>3, <1>4, <1>5 DEF SubInv

LEMMA SubNext ==
    ASSUME SubInv, [SubscriptionNext]_subscriptionVars
    PROVE  SubInv'
<1>1. ASSUME NEW s \in Request, Start(s) PROVE SubInv'
  BY <1>1, StartKeeps
<1>2. ASSUME NEW s \in Request,
             \/ LockCode(s) \/ LockUser(s) \/ Subscribe(s) \/ Redeem(s) \/ LoadRow(s)
             \/ Flush(s) \/ Snapshot(s) \/ Deactivate(s) \/ LockPayment(s)
      PROVE  SubInv'
  BY <1>2, StepKeeps
<1>3. ASSUME NEW s \in Request, CommitJob(s) PROVE SubInv'
  BY <1>3, CommitKeeps
<1>4. ASSUME NEW s \in Request, CreatePayment(s) PROVE SubInv'
  <2>1. PICK p \in Pay :
            /\ pay[p].status = "none"
            /\ pay' = [pay EXCEPT ![p] = [row |-> req[s].row, status |-> "pending"]]
    BY <1>4 DEF CreatePayment
  <2>2. [row |-> req[s].row, status |-> "pending"] \in [row : {0} \cup Row, status : PayStatus]
    BY DEF SubInv, Requests, ReqRecord, PayStatus
  <2>3. \A t \in Others(s) : req[t].at = "submit" => req[t].pay # p
    BY <2>1 DEF SubInv, PayLocks, Others
  <2> QED BY <1>4, <2>1, <2>2, <2>3, PayKeeps DEF CreatePayment
<1>5. ASSUME NEW s \in Request, SubmitPayment(s) PROVE SubInv'
  <2>1. /\ req[s].at = "submit" /\ req[s].pay \in Pay
        /\ \A t \in Others(s) : req[s].pay \notin LockedPays(t)
    BY <1>5 DEF SubmitPayment, SubInv, JobSteps, PayLocks
  <2>2. PICK status \in {"submitted", "expired", "pending"} :
            pay' = [pay EXCEPT ![req[s].pay] = [pay[req[s].pay] EXCEPT !.status = status]]
    BY <1>5 DEF SubmitPayment
  <2>3. [pay[req[s].pay] EXCEPT !.status = status] \in [row : {0} \cup Row, status : PayStatus]
    BY <2>1 DEF SubInv, Requests, PayStatus
  <2>4. \A t \in Others(s) : req[t].at = "submit" => req[t].pay # req[s].pay
    BY <2>1 DEF LockedPays
  <2> QED BY <1>5, <2>1, <2>2, <2>3, <2>4, PayKeeps DEF SubmitPayment
<1>6. ASSUME NEW s \in Request, RejectPayment(s) PROVE SubInv'
  <2>1. /\ req[s].at = "reject" /\ req[s].pay \in Pay
        /\ \A t \in Others(s) : req[s].pay \notin LockedPays(t)
    BY <1>6 DEF RejectPayment, SubInv, JobSteps, PayFree
  <2>2. pay' = [pay EXCEPT ![req[s].pay] = [pay[req[s].pay] EXCEPT !.status = "rejected"]]
    BY <1>6 DEF RejectPayment
  <2>3. [pay[req[s].pay] EXCEPT !.status = "rejected"] \in [row : {0} \cup Row, status : PayStatus]
    BY <2>1 DEF SubInv, Requests, PayStatus
  <2>4. \A t \in Others(s) : req[t].at = "submit" => req[t].pay # req[s].pay
    BY <2>1 DEF LockedPays
  <2> QED BY <1>6, <2>1, <2>2, <2>3, <2>4, PayKeeps DEF RejectPayment
<1>7. ASSUME NEW s \in Request, AbortJob(s) PROVE SubInv'
  BY <1>7, LeaveKeeps DEF AbortJob, tableVars
<1>8. CASE UNCHANGED <<sub, pay, balance, code, spent, redeemed, userLock, codeLock, req>>
  <2>1. Requests' /\ Money'
    BY <1>8 DEF SubInv, Requests, Money
  <2>2. JobSteps' /\ PayLocks'
    BY <1>8 DEF SubInv, JobSteps, PayLocks, LockedPays
  <2>3. Holds'
    BY <1>8 DEF SubInv, Holds, HoldsFor
  <2> QED BY <2>1, <2>2, <2>3 DEF SubInv
<1>9. CASE Lapse
  BY <1>8, <1>9 DEF Lapse
<1>10. CASE UNCHANGED subscriptionVars
  BY <1>8, <1>10 DEF subscriptionVars, tableVars
<1> QED BY <1>1, <1>2, <1>3, <1>4, <1>5, <1>6, <1>7, <1>9, <1>10 DEF SubscriptionNext

\* A code is redeemed at most once and the balance is what was deposited and
\* redeemed less what was spent, for any number of concurrent requests: the row
\* of the user is locked from the read of the balance to its write.
THEOREM BalanceAlwaysAdds == SubscriptionSpec => []BalanceAdds
<1>1. SubInv => BalanceAdds
  BY DEF SubInv, Money, BalanceAdds
<1> QED BY <1>1, SubStart, SubNext, PTL DEF SubscriptionSpec

\* A request of the user writes a payment only while it is pending and locked,
\* so that the decision of an administrator stays, for any number of requests.
THEOREM DecisionsStand == SubscriptionSpec => DecisionStands
<1>1. SubInv /\ [SubscriptionNext]_subscriptionVars
      => [\A p \in Pay : Judged(p) => Judged(p)']_subscriptionVars
  <2> SUFFICES ASSUME SubInv, SubscriptionNext, NEW p \in Pay, Judged(p)
               PROVE  Judged(p)'
    BY DEF Judged, subscriptionVars, tableVars
  <2>1. CASE pay' = pay
    BY <2>1 DEF Judged
  <2>2. ASSUME NEW s \in Request, CreatePayment(s) PROVE Judged(p)'
    BY <2>2 DEF CreatePayment, Judged, SubInv, Requests
  <2>3. ASSUME NEW s \in Request, SubmitPayment(s) PROVE Judged(p)'
    BY <2>3 DEF SubmitPayment, Judged, SubInv, Requests, PayLocks
  <2>4. ASSUME NEW s \in Request, RejectPayment(s) PROVE Judged(p)'
    BY <2>4 DEF RejectPayment, Judged, SubInv, Requests, JobSteps
  <2>5. ASSUME NEW s \in Request, CommitJob(s) PROVE Judged(p)'
    <3>1. CASE req[s].job = "confirm"
      BY <2>5, <3>1 DEF CommitJob, Judged, SubInv, Requests
    <3>2. CASE req[s].job # "confirm"
      BY <2>5, <3>2 DEF CommitJob, Judged
    <3> QED BY <3>1, <3>2
  <2>6. \/ pay' = pay
        \/ \E s \in Request :
              CreatePayment(s) \/ SubmitPayment(s) \/ RejectPayment(s) \/ CommitJob(s)
    BY DEF SubscriptionNext, Start, StartSubscribe, StartRedeem, StartPay, StartSubmit,
           StartConfirm, StartReject, StartGrant, StartJob, LockCode, LockUser, Subscribe,
           Redeem, LoadRow, Flush, Snapshot, Deactivate, LockPayment, AbortJob, Lapse, tableVars
  <2> QED BY <2>1, <2>2, <2>3, <2>4, <2>5, <2>6
<1> QED BY <1>1, SubStart, SubNext, PTL DEF SubscriptionSpec, DecisionStands

\* A request that has written its row, and may cancel others on commit.
Writing(s) ==
    \/ req[s].at \in {"snapshot", "update"}
    \/ req[s].at = "commit" /\ req[s].new # "pending"

\* While nothing has crossed, one request writes at a time, and what it will
\* cancel are all other active rows.
OneWrites == \A s, t \in Request : Writing(s) /\ Writing(t) => s = t
CancelsAll ==
    \A s \in Request : Writing(s) /\ req[s].at # "snapshot" =>
        \A r \in Row : sub[r] = "active" => r \in req[s].old \cup {req[s].row}
AtMostOne == \A r, q \in Row : sub[r] = "active" /\ sub[q] = "active" => r = q

Uncrossed == ~crossed => OneWrites /\ CancelsAll /\ AtMostOne

LEMMA UncrossedStart == SubscriptionInit => Uncrossed
BY DEF SubscriptionInit, Uncrossed, OneWrites, CancelsAll, AtMostOne, Writing, Idle, Begun

\* Steps that write no subscription, and after which nobody else writes.
LEMMA UncrossedQuiet ==
    ASSUME Uncrossed, UNCHANGED <<sub, crossed>>,
           \A t \in Request : req'[t] = req[t] \/ ~Writing(t)'
    PROVE  Uncrossed'
BY DEF Uncrossed, OneWrites, CancelsAll, AtMostOne, Writing

LEMMA UncrossedLeave ==
    ASSUME Uncrossed, SubInv, NEW s \in Request, Leave(s), UNCHANGED <<sub, crossed>>
    PROVE  Uncrossed'
<1>1. req'[s] = Idle /\ \A t \in Request : t # s => req'[t] = req[t]
  BY LeaveFacts
<1>2. ~Writing(s)'
  BY <1>1 DEF Writing, Idle, Begun
<1> QED BY <1>1, <1>2, UncrossedQuiet

LEMMA UncrossedBegin ==
    ASSUME Uncrossed, SubInv, NEW s \in Request,
           Start(s) \/ LockCode(s) \/ LockUser(s) \/ Subscribe(s) \/ Redeem(s)
           \/ LoadRow(s) \/ LockPayment(s)
    PROVE  Uncrossed'
<1>1. UNCHANGED <<sub, crossed>>
  BY DEF Start, StartSubscribe, StartRedeem, StartPay, StartSubmit, StartConfirm,
         StartReject, StartGrant, StartJob, LockCode, LockUser, Subscribe, Redeem,
         LoadRow, LockPayment, tableVars
<1>2. CASE Leave(s)
  BY <1>1, <1>2, UncrossedLeave
<1>3. CASE ~Leave(s)
  <2>1. /\ \A t \in Request : t # s => req'[t] = req[t]
        /\ req'[s].at \notin {"snapshot", "update"}
        /\ req'[s].at = "commit" => req'[s].new = "pending"
    <3> USE DEF SubInv, Requests, ReqRecord
    <3>1. CASE Start(s)
      BY <3>1 DEF Start, StartSubscribe, StartRedeem, StartPay, StartSubmit, StartConfirm,
                  StartReject, StartGrant, StartJob, Begun
    <3>2. CASE LockCode(s) \/ LockUser(s) \/ LoadRow(s) \/ LockPayment(s)
      BY <1>3, <3>2 DEF LockCode, LockUser, LoadRow, LockPayment, Go
    <3>3. CASE Subscribe(s) \/ Redeem(s)
      BY <1>3, <3>3 DEF Subscribe, Redeem, Begun
    <3> QED BY <3>1, <3>2, <3>3
  <2>2. ~Writing(s)'
    BY <2>1 DEF Writing
  <2> QED BY <1>1, <2>1, <2>2, UncrossedQuiet
<1> QED BY <1>2, <1>3

\* Two users' activations never overlap, since both hold the row of the user.
LEMMA UncrossedFlush ==
    ASSUME Uncrossed, SubInv, NEW s \in Request, Flush(s)
    PROVE  Uncrossed'
<1> SUFFICES ASSUME ~crossed' PROVE OneWrites' /\ CancelsAll' /\ AtMostOne'
  BY DEF Uncrossed
<1>1. /\ ~crossed /\ sub' = sub /\ req[s].at = "flush"
      /\ \A t \in Others(s) :
            req[t].at \in Activating => {req[s].job, req[t].job} \cap AdminJob = {}
  BY DEF Flush, tableVars
<1>2. /\ req'[s] = [req[s] EXCEPT !.at = "snapshot"]
      /\ \A t \in Request : t # s => req'[t] = req[t]
  BY DEF Flush, Go, SubInv, Requests
<1>3. req'[s].at = "snapshot"
  BY <1>2 DEF SubInv, Requests, ReqRecord
<1>4. ASSUME NEW t \in Request, t # s PROVE ~Writing(t)
  <2> SUFFICES ASSUME Writing(t) PROVE FALSE
    OBVIOUS
  <2>1. req[t].at \in Activating /\ req[s].at \in Activating
    BY <1>1 DEF Writing, Activating
  <2>2. req[s].job \notin AdminJob /\ req[t].job \notin AdminJob
    BY <1>1, <1>4, <2>1 DEF Others
  <2>3. {req[s].job, req[t].job} \subseteq {"subscribe", "redeem"}
    BY <2>1, <2>2 DEF SubInv, JobSteps, AdminJob
  <2>4. userLock = s /\ userLock = t
    BY <2>1, <2>3 DEF SubInv, Holds, HoldsFor
  <2> QED BY <1>4, <2>4
<1>5. \A t \in Request : t # s => ~Writing(t)'
  BY <1>2, <1>4 DEF Writing
<1> QED BY <1>1, <1>3, <1>5 DEF Uncrossed, OneWrites, CancelsAll, AtMostOne

LEMMA UncrossedCollect ==
    ASSUME Uncrossed, SubInv, NEW s \in Request, Snapshot(s) \/ Deactivate(s)
    PROVE  Uncrossed'
<1> SUFFICES ASSUME ~crossed' PROVE OneWrites' /\ CancelsAll' /\ AtMostOne'
  BY DEF Uncrossed
<1>1. /\ ~crossed /\ sub' = sub
      /\ OneWrites /\ CancelsAll /\ AtMostOne
      /\ req[s].at \in {"snapshot", "update"}
      /\ req[s] \in ReqRecord
  BY DEF Snapshot, Deactivate, tableVars, Uncrossed, SubInv, Requests
<1>2. \A t \in Request : t # s => req'[t] = req[t]
  BY DEF Snapshot, Deactivate, SubInv, Requests
<1>3. /\ req'[s].row = req[s].row /\ req'[s].at # "snapshot"
      /\ \A r \in Row : sub[r] = "active" => r \in req'[s].old \cup {req[s].row}
  <2>1. CASE Snapshot(s)
    <3>1. req'[s] = [req[s] EXCEPT !.at = "update", !.old = ActiveRows(s)]
      BY <2>1 DEF Snapshot, SubInv, Requests
    <3> QED BY <1>1, <3>1 DEF ReqRecord, ActiveRows
  <2>2. CASE Deactivate(s)
    <3>1. /\ req'[s] = [req[s] EXCEPT !.at = "commit",
                                      !.old = {r \in req[s].old : sub[r] = "active"}]
          /\ req[s].at = "update"
      BY <2>2 DEF Deactivate, SubInv, Requests
    <3>2. \A r \in Row : sub[r] = "active" => r \in req[s].old \cup {req[s].row}
      BY <1>1, <3>1 DEF CancelsAll, Writing
    <3> QED BY <1>1, <3>1, <3>2 DEF ReqRecord
  <2> QED BY <2>1, <2>2
<1>4. \A t \in Request : t # s => ~Writing(t)'
  BY <1>1, <1>2 DEF OneWrites, Writing
<1>5. OneWrites'
  BY <1>4 DEF OneWrites
<1>6. CancelsAll'
  BY <1>1, <1>3, <1>4 DEF CancelsAll
<1>7. AtMostOne'
  BY <1>1 DEF AtMostOne
<1> QED BY <1>5, <1>6, <1>7

\* The commit leaves its own row, or adds no active one.
LEMMA UncrossedCommit ==
    ASSUME Uncrossed, SubInv, NEW s \in Request, CommitJob(s)
    PROVE  Uncrossed'
<1> SUFFICES ASSUME ~crossed' PROVE OneWrites' /\ CancelsAll' /\ AtMostOne'
  BY DEF Uncrossed
<1>1. /\ OneWrites /\ CancelsAll /\ AtMostOne
      /\ req[s].at = "commit" /\ Leave(s)
      /\ sub' = [r \in Row |-> StatusAfter(s, r)]
  BY DEF CommitJob, Uncrossed
<1>2. req'[s] = Idle /\ \A t \in Request : t # s => req'[t] = req[t]
  BY <1>1, LeaveFacts
<1>3. ~Writing(s)' /\ \A t \in Request : t # s => (Writing(t)' <=> Writing(t))
  BY <1>2 DEF Writing, Idle, Begun
<1>4. OneWrites'
  BY <1>1, <1>3 DEF OneWrites
<1>5. CASE Writing(s)
  <2>1. \A r \in Row : sub'[r] = "active" => r = req[s].row
    BY <1>1, <1>5 DEF CancelsAll, StatusAfter
  <2>2. \A t \in Request : ~Writing(t)'
    BY <1>1, <1>3, <1>5 DEF OneWrites
  <2> QED BY <1>4, <2>1, <2>2 DEF CancelsAll, AtMostOne
<1>6. CASE ~Writing(s)
  <2>1. req[s].new = "pending"
    BY <1>1, <1>6 DEF Writing
  <2>2. \A r \in Row : sub'[r] = "active" => sub[r] = "active"
    BY <1>1, <2>1 DEF StatusAfter
  <2>3. AtMostOne'
    BY <1>1, <2>2 DEF AtMostOne
  <2>4. CancelsAll'
    BY <1>1, <1>2, <1>3, <2>2 DEF CancelsAll
  <2> QED BY <1>4, <2>3, <2>4
<1> QED BY <1>5, <1>6

LEMMA UncrossedNext ==
    ASSUME Uncrossed, SubInv, [SubscriptionNext]_subscriptionVars
    PROVE  Uncrossed'
<1>1. ASSUME NEW s \in Request,
             Start(s) \/ LockCode(s) \/ LockUser(s) \/ Subscribe(s) \/ Redeem(s)
             \/ LoadRow(s) \/ LockPayment(s)
      PROVE  Uncrossed'
  BY <1>1, UncrossedBegin
<1>2. ASSUME NEW s \in Request, Flush(s) PROVE Uncrossed'
  BY <1>2, UncrossedFlush
<1>3. ASSUME NEW s \in Request, Snapshot(s) \/ Deactivate(s) PROVE Uncrossed'
  BY <1>3, UncrossedCollect
<1>4. ASSUME NEW s \in Request, CommitJob(s) PROVE Uncrossed'
  BY <1>4, UncrossedCommit
<1>5. ASSUME NEW s \in Request,
             CreatePayment(s) \/ SubmitPayment(s) \/ RejectPayment(s) \/ AbortJob(s)
      PROVE  Uncrossed'
  BY <1>5, UncrossedLeave DEF CreatePayment, SubmitPayment, RejectPayment, AbortJob, tableVars
<1>6. CASE UNCHANGED <<sub, crossed, req>>
  BY <1>6, UncrossedQuiet
<1>7. CASE Lapse
  BY <1>6, <1>7 DEF Lapse
<1>8. CASE UNCHANGED subscriptionVars
  BY <1>6, <1>8 DEF subscriptionVars, tableVars
<1> QED BY <1>1, <1>2, <1>3, <1>4, <1>5, <1>7, <1>8 DEF SubscriptionNext

\* A user has at most one active subscription, whatever he requests at the same
\* time and however his payments are decided, as long as no administrator
\* activates one while another activation is under way.
THEOREM OneSubscription == SubscriptionSpec => []OneActiveUncrossed
<1>1. Uncrossed => OneActiveUncrossed
  <2> SUFFICES ASSUME Uncrossed, ~crossed PROVE OneActive
    BY DEF OneActiveUncrossed
  <2> DEFINE A == {r \in Row : sub[r] = "active"}
  <2>1. CASE A = {}
    BY <2>1, FS_EmptySet DEF OneActive
  <2>2. CASE A # {}
    <3>1. PICK r : A = {r}
      BY <2>2 DEF Uncrossed, AtMostOne
    <3>2. Cardinality(A) = 1
      BY <3>1, FS_Singleton
    <3> QED BY <3>2 DEF OneActive
  <2> QED BY <2>1, <2>2
<1>2. SubscriptionInit => SubInv /\ Uncrossed
  BY SubStart, UncrossedStart
<1>3. SubInv /\ Uncrossed /\ [SubscriptionNext]_subscriptionVars => (SubInv /\ Uncrossed)'
  BY SubNext, UncrossedNext
<1> QED BY <1>1, <1>2, <1>3, PTL DEF SubscriptionSpec

\* What is paid is there: the balance that a request carries is not negative,
\* and no more than the deposit and the code are worth.
Funds ==
    /\ balance \in 0..(Deposit + 1) /\ spent \in Nat /\ redeemed \in Nat
    /\ \A s \in Request : req[s].money \in 0..(Deposit + 1)

Locked ==
    /\ userLock \in Request \cup {Nobody} /\ codeLock \in Request \cup {Nobody}
    /\ lapsed \subseteq Row /\ crossed \in BOOLEAN

\* What a request can do with the balance that it carries.
LEMMA MoneyMoves ==
  ASSUME NEW s \in Request, SubInv,
         \/ Start(s)
         \/ LockCode(s) \/ LockUser(s) \/ Subscribe(s) \/ Redeem(s)
         \/ LoadRow(s) \/ Flush(s) \/ Snapshot(s) \/ Deactivate(s) \/ CommitJob(s)
         \/ CreatePayment(s) \/ LockPayment(s) \/ SubmitPayment(s)
         \/ RejectPayment(s) \/ AbortJob(s)
  PROVE  /\ \A t \in Request : t # s => req'[t] = req[t]
         /\ \/ req'[s].money \in {0, req[s].money, balance}
            \/ req[s].money >= Price /\ req'[s].money = req[s].money - Price
            \/ /\ req[s].at = "decide" /\ req[s].job = "redeem"
               /\ req'[s].money = req[s].money + 1
<1>0. req \in [Request -> ReqRecord]
  BY DEF SubInv, Requests
<1>1. CASE Leave(s)
  BY <1>1, LeaveFacts DEF Idle, Begun
<1>2. ASSUME NEW place1, Go(s, place1) PROVE (\A t \in Request : t # s => req'[t] = req[t])
                                         /\ req'[s].money = req[s].money
  BY <1>0, <1>2 DEF Go, ReqRecord
<1>3. CASE Start(s)
  <2>1. PICK job, place1, r, p, status : req' = [req EXCEPT ![s] = Begun(job, place1, r, p, status, 0)]
    <3>1. CASE StartGrant(s)
      BY <3>1 DEF StartGrant
    <3> QED BY <1>3, <3>1, Zenon DEF Start, StartSubscribe, StartRedeem, StartPay, StartSubmit,
                                     StartConfirm, StartReject, StartJob
  <2> QED BY <1>0, <2>1 DEF Begun
<1>4. CASE LockUser(s) \/ LoadRow(s) \/ Snapshot(s) \/ Deactivate(s)
  <2>1. CASE LockUser(s)
    BY <1>0, <2>1 DEF LockUser, ReqRecord
  <2>2. CASE LoadRow(s)
    BY <1>0, <2>2 DEF LoadRow, ReqRecord
  <2>3. CASE Snapshot(s)
    BY <1>0, <2>3 DEF Snapshot, ReqRecord
  <2>4. CASE Deactivate(s)
    BY <1>0, <2>4 DEF Deactivate, ReqRecord
  <2> QED BY <1>4, <2>1, <2>2, <2>3, <2>4
<1>5. CASE Subscribe(s) /\ ~Leave(s)
  BY <1>0, <1>5 DEF Subscribe, Begun
<1>6. CASE Redeem(s)
  BY <1>0, <1>6 DEF Redeem, Begun
<1>7. CASE LockCode(s) \/ Flush(s) \/ LockPayment(s)
  BY <1>1, <1>2, <1>7 DEF LockCode, Flush, LockPayment
<1> QED BY <1>1, <1>3, <1>4, <1>5, <1>6, <1>7
        DEF CommitJob, CreatePayment, SubmitPayment, RejectPayment, AbortJob

LEMMA FundsNext ==
  ASSUME SubInv, SubInv', Funds, [SubscriptionNext]_subscriptionVars
  PROVE  Funds'
<1> USE SubscriptionAssumption
<1>1. /\ balance = Deposit + redeemed - spent /\ balance' = Deposit + redeemed' - spent'
      /\ redeemed \in {0, 1} /\ redeemed' \in {0, 1}
      /\ spent' \in Int /\ balance' \in Int
  BY DEF SubInv, Money, Requests
<1>2. CASE UNCHANGED subscriptionVars \/ Lapse
  BY <1>2 DEF subscriptionVars, tableVars, Lapse, Funds
<1>3. ASSUME NEW s \in Request,
             \/ Start(s)
             \/ LockCode(s) \/ LockUser(s) \/ Subscribe(s) \/ Redeem(s)
             \/ LoadRow(s) \/ Flush(s) \/ Snapshot(s) \/ Deactivate(s) \/ CommitJob(s)
             \/ CreatePayment(s) \/ LockPayment(s) \/ SubmitPayment(s)
             \/ RejectPayment(s) \/ AbortJob(s)
      PROVE  Funds'
  <2>1. /\ \A t \in Request : t # s => req'[t] = req[t]
        /\ \/ req'[s].money \in {0, req[s].money, balance}
           \/ req[s].money >= Price /\ req'[s].money = req[s].money - Price
           \/ /\ req[s].at = "decide" /\ req[s].job = "redeem"
              /\ req'[s].money = req[s].money + 1
    BY <1>3, MoneyMoves
  <2>2. req[s].at = "decide" /\ req[s].job = "redeem" => req[s].money <= Deposit
    <3>1. req[s].at = "decide" /\ req[s].job = "redeem" =>
            userLock = s /\ codeLock = s /\ code /\ req[s].money = balance
      BY DEF SubInv, Holds, HoldsFor, Activating
    <3>2. code => redeemed = 0
      BY DEF SubInv, Money
    <3> QED BY <1>1, <3>1, <3>2 DEF Funds
  <2>3. req'[s].money \in 0..(Deposit + 1)
    <3>1. req[s].money \in 0..(Deposit + 1) /\ balance \in 0..(Deposit + 1)
      BY DEF Funds
    <3> QED BY <2>1, <2>2, <3>1
  <2>4. \A t \in Request : req'[t].money \in 0..(Deposit + 1)
    BY <2>1, <2>3 DEF Funds
  <2>5. /\ balance' = balance \/ balance' = req[s].money
        /\ spent' = spent \/ spent' = spent + Price
    BY <1>3 DEF Start, StartSubscribe, StartRedeem, StartPay, StartSubmit, StartConfirm,
           StartReject, StartGrant, StartJob, LockCode, LockUser, Subscribe, Redeem,
           LoadRow, Flush, Snapshot, Deactivate, CommitJob, CreatePayment, LockPayment,
           SubmitPayment, RejectPayment, AbortJob, tableVars
  <2>6. balance' \in 0..(Deposit + 1) /\ spent' \in Nat
    BY <2>5 DEF Funds
  <2> QED BY <1>1, <2>4, <2>6 DEF Funds
<1> QED BY <1>2, <1>3 DEF SubscriptionNext

LEMMA LockedNext ==
  ASSUME SubInv, Locked, [SubscriptionNext]_subscriptionVars
  PROVE  Locked'
<1> USE DEF Locked
<1>1. CASE UNCHANGED subscriptionVars \/ Lapse
  <2>1. crossed' = crossed
    BY <1>1 DEF subscriptionVars, Lapse
  <2>2. crossed' \in BOOLEAN
    BY <2>1, Zenon
  <2> QED BY <1>1, <2>2 DEF subscriptionVars, tableVars, Lapse
<1>2. ASSUME NEW s \in Request,
             \/ Start(s)
             \/ LockCode(s) \/ LockUser(s) \/ Subscribe(s) \/ Redeem(s)
             \/ LoadRow(s) \/ Flush(s) \/ Snapshot(s) \/ Deactivate(s) \/ CommitJob(s)
             \/ CreatePayment(s) \/ LockPayment(s) \/ SubmitPayment(s)
             \/ RejectPayment(s) \/ AbortJob(s)
      PROVE  Locked'
  <2>1. userLock' \in {userLock, s, Nobody} /\ codeLock' \in {codeLock, s, Nobody}
        /\ lapsed' \subseteq lapsed
    BY <1>2 DEF Start, StartSubscribe, StartRedeem, StartPay, StartSubmit, StartConfirm,
           StartReject, StartGrant, StartJob, LockCode, LockUser, Subscribe, Redeem, Leave,
           LoadRow, Flush, Snapshot, Deactivate, CommitJob, CreatePayment, LockPayment,
           SubmitPayment, RejectPayment, AbortJob, tableVars
  <2>2. CASE Flush(s)
    <3>1. crossed' = (crossed \/ \E t \in Others(s) :
             req[t].at \in Activating /\ {req[s].job, req[t].job} \cap AdminJob # {})
      BY <2>2, Zenon DEF Flush
    <3> DEFINE C == \E t \in Others(s) :
             req[t].at \in Activating /\ {req[s].job, req[t].job} \cap AdminJob # {}
    <3>2. crossed' = (crossed \/ C)
      BY <3>1, Zenon
    <3> HIDE DEF C
    <3>3. crossed' \in BOOLEAN
      BY <3>2, SMT
    <3> QED BY <2>1, <3>3
  <2>3. CASE ~Flush(s)
    <3>1. crossed' = crossed
      BY <1>2, <2>3, Zenon
         DEF Start, StartSubscribe, StartRedeem, StartPay, StartSubmit, StartConfirm,
           StartReject, StartGrant, StartJob, LockCode, LockUser, Subscribe, Redeem,
           LoadRow, Snapshot, Deactivate, CommitJob, CreatePayment, LockPayment,
           SubmitPayment, RejectPayment, AbortJob
    <3>2. crossed' \in BOOLEAN
      BY <3>1, Zenon
    <3> QED BY <2>1, <3>2
  <2> QED BY <2>2, <2>3
<1> QED BY <1>1, <1>2 DEF SubscriptionNext

\* The rows, payments, locks and requests have the values they are declared
\* with: in particular no request, however they overlap, carries or writes a
\* balance below zero (core/database.py, routers/subscription.py).
THEOREM SubscriptionTypeCorrect == SubscriptionSpec => []SubscriptionTypeOK
<1>1. SubInv /\ Funds /\ Locked => SubscriptionTypeOK
  <2> SUFFICES ASSUME SubInv, Funds, Locked PROVE SubscriptionTypeOK
    OBVIOUS
  <2>1. \A s \in Request : req[s].money \in 0..(Deposit + 1)
    BY DEF Funds
  <2>2. req \in [Request -> [job : {"none"} \cup UserJob \cup AdminJob,
                            at : {"idle", "user", "code", "decide", "insert",
                                  "lock", "submit", "reject"} \cup Activating,
                            row : {0} \cup Row, pay : {0} \cup Pay,
                            new : RowStatus, old : SUBSET Row,
                            money : 0..(Deposit + 1)]]
    BY <2>1 DEF SubInv, Requests, ReqRecord
  <2> QED BY <2>2 DEF SubInv, Requests, Funds, Locked, SubscriptionTypeOK
<1>2. SubscriptionInit => SubInv /\ Funds /\ Locked
  <2> SUFFICES ASSUME SubscriptionInit PROVE SubInv /\ Funds /\ Locked
    OBVIOUS
  <2>1. Funds
    BY SubscriptionAssumption DEF SubscriptionInit, Funds, Idle, Begun
  <2>2. Locked
    <3>1. userLock = Nobody /\ codeLock = Nobody /\ lapsed = {}
      BY DEF SubscriptionInit
    <3>2. crossed \in BOOLEAN
      BY Zenon DEF SubscriptionInit
    <3> QED BY <3>1, <3>2 DEF Locked
  <2> QED BY <2>1, <2>2, SubStart
<1>3. SubInv /\ [SubscriptionNext]_subscriptionVars => SubInv'
  BY SubNext
<1>4. SubInv /\ SubInv' /\ Funds /\ Locked /\ [SubscriptionNext]_subscriptionVars
        => Funds' /\ Locked'
  BY FundsNext, LockedNext
<1> QED BY <1>1, <1>2, <1>3, <1>4, PTL DEF SubscriptionSpec

=============================================================================
