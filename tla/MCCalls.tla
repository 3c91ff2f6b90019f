------------------------------- MODULE MCCalls -------------------------------
(***************************************************************************)
(* The calls that send orders and the requests that move money, checked    *)
(* side by side: in each behaviour one of them moves and the others stay   *)
(* where they began.                                                       *)
(***************************************************************************)
EXTENDS ReduceOnlyClose, TradeEntry, TakeProfits, DcaStrategy, Subscriptions,
        TradingLimits, AccountRisk, TLC

CONSTANTS q1, q2, k1, b1, b2
MCRequest == {q1, q2}
MCAlert == {q1, q2}
MCCandidate == {k1}
MCSymbol == {b1, b2}
MCProc == {"p1", "p2"}
MCLoss == {"l1", "l2"}
MCCheck == {"c1"}
MCSampler == {"s1", "s2", "s3"}
MCEquity == {1, 3}
MCFalls == (0 :> 1) @@ (1 :> 2)

VARIABLE part

\* The row that may be open at first: symbols and sides are interchangeable.
FirstRow == <<b1, "long">>

MCInit ==
    /\ part \in {"close", "entry", "targets", "dca", "subscription", "limits", "risk"}
    /\ CloseInit /\ EntryInit /\ TargetsInit /\ DcaInit /\ SubscriptionInit
    /\ part # "close" => want = Whole
    /\ part # "entry" => ~moving
    /\ part # "dca" => redis
    /\ IF part = "limits" THEN LimitsInit /\ open \subseteq {<<FirstRow, Earlier>>}
                          ELSE LimitsIdle
    /\ RiskInit /\ host = [j \in Job |-> IF hashes /\ j \in {"l2", "s2"} THEN "p2" ELSE "p1"]
    /\ {j \in Job : where[j] = "new"} \in
         IF part = "risk" THEN {MCLoss \cup MCCheck, MCSampler} ELSE {{}}
    /\ part # "risk" => hashes

MCNext ==
    /\ UNCHANGED part
    /\ \/ part = "close" /\ CloseNext
       \/ part = "entry" /\ EntryNext
       \/ part = "targets" /\ TargetsNext
       \/ part = "dca" /\ DcaNext
       \/ part = "subscription" /\ SubscriptionNext
       \/ part = "limits" /\ LimitsNext
       \/ part = "risk" /\ RiskNext
    /\ part # "close" => UNCHANGED closeVars
    /\ part # "entry" => UNCHANGED entryVars
    /\ part # "targets" => UNCHANGED targetVars
    /\ part # "dca" => UNCHANGED dcaVars
    /\ part # "subscription" => UNCHANGED subscriptionVars
    /\ part # "limits" => UNCHANGED limitsVars
    /\ part # "risk" => UNCHANGED riskVars

MCVars == <<part, closeVars, entryVars, targetVars, dcaVars, subscriptionVars,
            limitsVars, riskVars>>

MCSpec == MCInit /\ [][MCNext]_MCVars

\* The sessions of the user's requests are interchangeable, and so are the
\* alerts; they are the same values, because only one part moves.
Alike == Permutations(MCRequest)

\* Two bounds.  A DCA position of which an entry or a record was lost, or whose
\* close ran into a check, is no longer promised to be clean: it is followed
\* with no list of the strategies and no run of the monitor under way, and with
\* a fault only while the close endpoint rests.  A subscription that was crossed
\* is left as it is: nothing is promised of the user's active rows any more.
StillPromised ==
    /\ excused => listing = Gone /\ ~marked /\ (manual = "idle" \/ dcaFaults = 0)
    /\ ~crossed

\* The type invariant of the component that moves.
CallsTypeOK ==
    CASE part = "close" -> CloseTypeOK
      [] part = "entry" -> EntryTypeOK
      [] part = "targets" -> TargetsTypeOK
      [] part = "dca" -> DcaTypeOK
      [] part = "subscription" -> SubscriptionTypeOK
      [] part = "limits" -> LimitsTypeOK
      [] part = "risk" -> RiskTypeOK
=============================================================================
