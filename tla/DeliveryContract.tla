-------------------------- MODULE DeliveryContract --------------------------
(***************************************************************************)
(* What the durable queue promises for each stored alert, with no workers, *)
(* leases or attempts: an alert is admitted once, is open until it is      *)
(* settled, stays settled unless the operator reopens it, and sends at     *)
(* most one order unless a crash or the operator has licensed another.     *)
(***************************************************************************)
EXTENDS Naturals

CONSTANT Event

VARIABLES phase, orders, licensed

vars == <<phase, orders, licensed>>

Init ==
    /\ phase = [e \in Event |-> "absent"]
    /\ orders = [e \in Event |-> 0]
    /\ licensed = [e \in Event |-> FALSE]

Admit(e) ==
    /\ phase[e] = "absent"
    /\ phase' = [phase EXCEPT ![e] = "open"]
    /\ UNCHANGED <<orders, licensed>>

Settle(e) ==
    /\ phase[e] = "open"
    /\ phase' = [phase EXCEPT ![e] = "settled"]
    /\ UNCHANGED <<orders, licensed>>

\* Admitting an alert settles, in the same transaction, the stale
\* reservations of its fingerprint that no worker runs.
Replace(e, gone) ==
    /\ phase[e] = "absent"
    /\ \A d \in gone : phase[d] = "open"
    /\ phase' = [d \in Event |-> IF d = e THEN "open"
                                 ELSE IF d \in gone THEN "settled"
                                 ELSE phase[d]]
    /\ UNCHANGED <<orders, licensed>>

Order(e) ==
    /\ phase[e] = "open"
    /\ orders[e] = 0 \/ licensed[e]
    /\ orders' = [orders EXCEPT ![e] = @ + 1]
    /\ UNCHANGED <<phase, licensed>>

\* A process dies between the order and the record of its outcome; if the
\* row had been given up meanwhile, it is settled by the same step.
License(e) ==
    /\ phase[e] = "open"
    /\ licensed' = [licensed EXCEPT ![e] = TRUE]
    /\ \/ UNCHANGED phase
       \/ phase' = [phase EXCEPT ![e] = "settled"]
    /\ UNCHANGED orders

Reopen(e) ==
    /\ phase[e] # "absent"
    /\ phase' = [phase EXCEPT ![e] = "open"]
    /\ licensed' = [licensed EXCEPT ![e] = TRUE]
    /\ UNCHANGED orders

Next ==
    \E e \in Event : \/ Admit(e) \/ Settle(e) \/ Order(e)
                     \/ License(e) \/ Reopen(e)
                     \/ \E gone \in SUBSET (Event \ {e}) : Replace(e, gone)

Spec == Init /\ [][Next]_vars
=============================================================================
