--------------------------- MODULE MCOrderJournal ---------------------------
(***************************************************************************)
(* Instances of OrderJournal for TLC: two attempts, whose client order ids *)
(* are equal or distinct as Init chooses, or are all equal.                *)
(***************************************************************************)
EXTENDS OrderJournal, TLC

CONSTANTS o1, o2, c1, c2

MCAttempt == {o1, o2}
MCClientId == {c1, c2}
MCSharedId == {c1}
=============================================================================
