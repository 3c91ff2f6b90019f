--------------------------- MODULE ReduceOnlyClose --------------------------
(***************************************************************************)
(* One call of _close_position (exchange.py): read the position, send a    *)
(* reduce-only order, read the position until it is flat, try again.  The  *)
(* exchange fills or cancels the orders at any time, loses answers, and    *)
(* may once report no position although there is one.                      *)
(*                                                                         *)
(* An order is named by the number of its client order id: 1 is the id of  *)
(* the call, n the id with the suffix _r<n>.                               *)
(***************************************************************************)
EXTENDS Integers, FiniteSets

CONSTANTS
    HeldSize,         \* contracts held when the call begins
    MaxRetries,   \* max_retries
    VerifyReads,  \* _CLOSE_VERIFY_ATTEMPTS
    MaxGlitches   \* bound: reads that miss the position

ASSUME CloseAssumption ==
    /\ HeldSize \in Nat \ {0}
    /\ MaxRetries \in Nat \ {0}
    /\ VerifyReads \in Nat \ {0}
    /\ MaxGlitches \in {0, 1}

Coid == 1..(MaxRetries + 1)
Whole == 0    \* close_quantity = None

CallPlace == {"fetch", "lookup", "send", "verify", "done"}
Verdict == {"none", "closed", "partial_closed", "close_unconfirmed",
            "no_position", "error"}
\* Why the position is read again: after an order of this attempt, for an
\* order of an earlier attempt that is still live or has ended, because the
\* position was not found, because the exchange refused an earlier read.
Purpose == {"sent", "live", "ended", "gone", "refused"}

VARIABLES
    position,    \* contracts the exchange holds
    want,        \* close_quantity
    order,       \* the orders of the call, by client order id
    place,       \* where the call is
    attempt,
    sequence,    \* residual_sequence
    orderQty,    \* quantity and requested_full_close of this attempt
    full,
    purpose,     \* the reads under way
    reads,
    flats,       \* consecutive_flat_reads
    unconfirmed, \* last_unconfirmed is set
    verdict,
    glitches

closeVars == <<position, want, order, place, attempt, sequence, orderQty, full,
               purpose, reads, flats, unconfirmed, verdict, glitches>>
readVars == <<purpose, reads, flats>>

OrderState == {"none", "live", "ended"}

CloseTypeOK ==
    /\ position \in 0..HeldSize
    /\ want \in 0..HeldSize
    /\ order \in [Coid -> [state : OrderState, left : 0..HeldSize, filled : 0..HeldSize]]
    /\ place \in CallPlace
    /\ attempt \in 1..MaxRetries
    /\ sequence \in 1..attempt
    /\ orderQty \in 0..HeldSize
    /\ full \in BOOLEAN
    /\ purpose \in Purpose
    /\ reads \in 0..VerifyReads
    /\ flats \in 0..1
    /\ unconfirmed \in BOOLEAN
    /\ verdict \in Verdict
    /\ glitches \in 0..MaxGlitches

CloseInit ==
    /\ position = HeldSize
    /\ want \in 0..HeldSize
    /\ order = [c \in Coid |-> [state |-> "none", left |-> 0, filled |-> 0]]
    /\ place = "fetch"
    /\ attempt = 1
    /\ sequence = 1
    /\ orderQty = 0
    /\ full = FALSE
    /\ purpose = "sent"
    /\ reads = 0
    /\ flats = 0
    /\ unconfirmed = FALSE
    /\ verdict = "none"
    /\ glitches = 0

Lesser(m, n) == IF m < n THEN m ELSE n
-----------------------------------------------------------------------------
(***************************************************************************)
(* The call.                                                               *)
(***************************************************************************)
Finish(v) == place' = "done" /\ verdict' = v /\ UNCHANGED attempt

\* continue, or the answer after the loop.
Retry(v) ==
    IF attempt < MaxRetries
    THEN attempt' = attempt + 1 /\ place' = "fetch" /\ UNCHANGED verdict
    ELSE Finish(v)

\* A read of the position: what it reports and whether it is a glitch.
Reports(held) ==
    \/ held = position /\ UNCHANGED glitches
    \/ /\ held = 0 /\ position > 0
       /\ glitches < MaxGlitches /\ glitches' = glitches + 1

StartReads(p) == purpose' = p /\ reads' = VerifyReads /\ flats' = 0

ReadPositions ==
    /\ place = "fetch"
    /\ \E held \in 0..position :
        /\ Reports(held)
        /\ \/ /\ held > 0
              /\ orderQty' = IF want = Whole THEN held ELSE Lesser(held, want)
              /\ full' = (want = Whole \/ want >= held)
              /\ place' = IF attempt > 1 THEN "lookup" ELSE "send"
              /\ UNCHANGED <<attempt, verdict, readVars>>
           \/ /\ held = 0 /\ unconfirmed
              /\ StartReads("gone") /\ place' = "verify"
              /\ UNCHANGED <<attempt, verdict, orderQty, full>>
           \/ /\ held = 0 /\ ~unconfirmed
              /\ Retry("no_position")
              /\ UNCHANGED <<orderQty, full, readVars>>
    /\ UNCHANGED <<position, want, order, sequence, unconfirmed>>

\* A transient error ends the attempt, wherever it strikes.
NetworkFails ==
    /\ place \in {"fetch", "verify"}
    /\ place = "verify" => purpose \in {"sent", "gone"}
    /\ Retry("close_unconfirmed")
    /\ UNCHANGED <<position, want, order, sequence, orderQty, full, readVars,
                   unconfirmed, glitches>>

\* The exchange refuses a read of the position: it is read again, once.
ReadRefused ==
    /\ \/ place = "fetch"
       \/ place = "verify" /\ purpose \in {"sent", "gone"}
    /\ StartReads("refused") /\ place' = "verify"
    /\ UNCHANGED <<position, want, order, attempt, sequence, orderQty, full,
                   unconfirmed, verdict, glitches>>

\* fetch_orders: the order of this id, unless it is missed or the call fails.
LookUpOrder ==
    /\ place = "lookup"
    /\ \/ /\ order[sequence].state # "none"
          /\ StartReads(order[sequence].state) /\ place' = "verify"
       \/ place' = "send" /\ UNCHANGED readVars
    /\ UNCHANGED <<position, want, order, attempt, sequence, orderQty, full,
                   unconfirmed, verdict, glitches>>

\* Reads after a lookup are inside its try: a failure leads to the send.
LookUpFails ==
    /\ place = "verify" /\ purpose \in {"live", "ended"}
    /\ place' = "send"
    /\ UNCHANGED <<position, want, order, attempt, sequence, orderQty, full,
                   readVars, unconfirmed, verdict, glitches>>

\* Mutant: every attempt has an id of its own.
CoidPerAttempt == attempt

\* effective_coid.
EffectiveCoid == sequence

Accepted ==
    /\ order[EffectiveCoid].state = "none"
    /\ order' = [order EXCEPT ![EffectiveCoid] =
                    [state |-> "live", left |-> orderQty, filled |-> 0]]

\* create_order: accepted and answered, lost with or without being accepted,
\* or refused (an id that was used before always is).
SendOrder ==
    /\ place = "send"
    /\ \/ Accepted /\ StartReads("sent") /\ place' = "verify"
          /\ UNCHANGED <<attempt, verdict>>
       \/ (Accepted \/ UNCHANGED order) /\ Retry("close_unconfirmed")
          /\ UNCHANGED readVars
       \/ Finish("error") /\ UNCHANGED <<order, readVars>>
    /\ UNCHANGED <<position, want, sequence, orderQty, full, unconfirmed,
                   glitches>>

\* Mutant: one read without a position is enough.
FlatReads1 == 1

\* A single empty read is no proof.
FlatReads == 2

VerifyRead ==
    /\ place = "verify"
    /\ reads > 0
    /\ \E held \in 0..position :
        /\ Reports(held)
        /\ IF held = 0 /\ flats + 1 >= FlatReads
           THEN Finish("closed") /\ UNCHANGED readVars
           ELSE /\ flats' = IF held = 0 THEN flats + 1 ELSE 0
                /\ reads' = reads - 1
                /\ UNCHANGED <<place, attempt, verdict, purpose>>
    /\ UNCHANGED <<position, want, order, sequence, orderQty, full, unconfirmed>>

\* The reads are used up and the position is not proved flat.
NotFlat ==
    /\ place = "verify"
    /\ reads = 0
    /\ \/ /\ purpose = "sent" /\ ~full
          /\ Finish("partial_closed")
          /\ UNCHANGED <<sequence, unconfirmed>>
       \/ /\ purpose = "live" \/ (purpose = "sent" /\ full)
          /\ unconfirmed' = TRUE
          /\ Retry("close_unconfirmed")
          /\ UNCHANGED sequence
       \/ /\ purpose = "ended"
          /\ sequence' = sequence + 1 /\ place' = "send"
          /\ UNCHANGED <<attempt, verdict, unconfirmed>>
       \/ /\ purpose \in {"gone", "refused", "live"}
          /\ Finish("close_unconfirmed")
          /\ UNCHANGED <<sequence, unconfirmed>>
    /\ UNCHANGED <<position, want, order, orderQty, full, readVars, glitches>>
-----------------------------------------------------------------------------
(***************************************************************************)
(* The exchange.                                                           *)
(***************************************************************************)
\* A live order takes what is there, and ends when it has nothing to take.
Fill(c) ==
    /\ order[c].state = "live"
    /\ \E q \in 1..Lesser(order[c].left, position) :
        /\ position' = position - q
        /\ order' = [order EXCEPT
               ![c].filled = @ + q,
               ![c].left = @ - q,
               ![c].state = IF @ = "live" /\ (q = order[c].left \/ q = position)
                            THEN "ended" ELSE @]
    /\ UNCHANGED <<want, place, attempt, sequence, orderQty, full, readVars,
                   unconfirmed, verdict, glitches>>

\* It is cancelled or expires.
Expire(c) ==
    /\ order[c].state = "live"
    /\ order' = [order EXCEPT ![c].state = "ended"]
    /\ UNCHANGED <<position, want, place, attempt, sequence, orderQty, full,
                   readVars, unconfirmed, verdict, glitches>>

\* A stop, a target or an operator reduces the position meanwhile.
OtherClose ==
    /\ position > 0
    /\ \E held \in 0..(position - 1) : position' = held
    /\ UNCHANGED <<want, order, place, attempt, sequence, orderQty, full,
                   readVars, unconfirmed, verdict, glitches>>

CloseNext ==
    \/ ReadPositions \/ NetworkFails \/ ReadRefused \/ LookUpOrder
    \/ LookUpFails \/ SendOrder \/ VerifyRead \/ NotFlat
    \/ \E c \in Coid : Fill(c) \/ Expire(c)
    \/ OtherClose

CloseSpec == CloseInit /\ [][CloseNext]_closeVars
-----------------------------------------------------------------------------
\* A retry never sends an order while an earlier one of the call may still
\* fill: that would be a second close (exchange.py, "P0" note on the id).
OneCloseAlive == Cardinality({c \in Coid : order[c].state = "live"}) <= 1

\* A close is confirmed only for a flat position, one wrong read or not, and
\* a call never adds exposure.
Contract == INSTANCE CloseContract WITH answer <- verdict
ImplementsClose == Contract!ContractSpec
=============================================================================
