--------------------------- MODULE CloseContract ----------------------------
(***************************************************************************)
(* What the callers of _close_position (exchange.py) rely on: an answer is *)
(* given once, and the answer "closed" is given only when the exchange     *)
(* holds nothing; whatever the answer, a close never adds exposure.        *)
(***************************************************************************)
EXTENDS Naturals

VARIABLES position, answer

contractVars == <<position, answer>>

Answers == {"closed", "partial_closed", "close_unconfirmed", "no_position",
            "error"}

ContractInit == position \in Nat /\ answer = "none"

Shrink == position' \in 0..position /\ UNCHANGED answer

Reply ==
    /\ answer = "none"
    /\ answer' \in Answers
    /\ answer' = "closed" => position = 0
    /\ UNCHANGED position

ContractSpec == ContractInit /\ [][Shrink \/ Reply]_contractVars
=============================================================================
