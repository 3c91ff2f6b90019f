------------------------------ MODULE MCMonitor ------------------------------
(***************************************************************************)
(* The components that follow an open position, checked side by side: in   *)
(* each behaviour one of them moves and the others stay where they began.  *)
(***************************************************************************)
EXTENDS PositionLedger, ProtectiveStop, GhostPosition, TLC

CONSTANTS m1, r1, s1
MCManual == {m1}
MCReverse == {r1}
MCSignal == {s1}

VARIABLE part

MCInit ==
    /\ part \in {"ledger", "stop", "ghost"}
    /\ LedgerInit /\ StopInit /\ GhostInit
    /\ part # "ledger" => live
    /\ part # "ghost" => entryAt = "ended" /\ ~far

MCNext ==
    /\ UNCHANGED part
    /\ \/ part = "ledger" /\ LedgerNext /\ UNCHANGED <<stopVars, ghostVars>>
       \/ part = "stop" /\ StopNext /\ UNCHANGED <<ledgerVars, ghostVars>>
       \/ part = "ghost" /\ GhostNext /\ UNCHANGED <<ledgerVars, stopVars>>

MCVars == <<part, ledgerVars, stopVars, ghostVars>>

\* LedgerFairness, StopFairness and GhostFairness for the part that moves.
MCFairness ==
    /\ \A s \in Session : WF_ledgerVars(part = "ledger" /\ Commit(s))
    /\ WF_ledgerVars(part = "ledger" /\ StartCycle)
    /\ WF_ledgerVars(part = "ledger" /\ SkipClosed)
    /\ SF_ledgerVars(part = "ledger" /\ BookVanished)
    /\ WF_stopVars(part = "stop" /\ StartStopCycle)
    /\ SF_stopVars(part = "stop" /\ VerifyStop)
    /\ WF_stopVars(part = "stop" /\ (CreateStop \/ StopRefused))
    /\ WF_stopVars(part = "stop" /\ CancelOld)
    /\ WF_stopVars(part = "stop" /\ KeepNew)
    /\ WF_stopVars(part = "stop" /\ CancelNew)
    /\ WF_stopVars(part = "stop" /\ CommitCycle)
    /\ WF_ghostVars(part = "ghost" /\ StartGhostCycle)
    /\ WF_ghostVars(part = "ghost" /\ EntryOverdue)
    /\ WF_ghostVars(part = "ghost" /\ MissingForLong)
    /\ WF_ghostVars(part = "ghost" /\ CycleStep)
    /\ SF_ghostVars(part = "ghost" /\ Listed)
    /\ WF_ghostVars(part = "ghost" /\ CommitRow)
    /\ SF_ghostVars(part = "ghost" /\ CommitRow /\ drafted # status)

MCSpec == MCInit /\ [][MCNext]_MCVars /\ MCFairness
=============================================================================
