---------------------------- MODULE MCCallsProofs ----------------------------
(***************************************************************************)
(* The calls side by side (MCCalls): a behaviour of them is, seen from one *)
(* component, a behaviour of that component, and has its types.            *)
(***************************************************************************)
EXTENDS MCCalls, CallProofs, TradingLimitsProofs, RiskProofs, TakeProfitProofs

-----------------------------------------------------------------------------
\* The component that moves stays the same.
Parts == {"close", "entry", "targets", "dca", "subscription", "limits", "risk"}
OnePart == part \in Parts

LEMMA OnePartHolds == MCSpec => []OnePart
<1>1. MCInit => OnePart
  BY DEF MCInit, OnePart, Parts
<1>2. OnePart /\ [MCNext]_MCVars => OnePart'
  <2>1. MCNext => part' = part
    BY DEF MCNext
  <2>2. UNCHANGED MCVars => part' = part
    BY DEF MCVars
  <2> QED BY <2>1, <2>2 DEF OnePart
<1> QED BY <1>1, <1>2, PTL DEF MCSpec

\* A step moves one component and leaves the others alone.
LEMMA StepOfEach ==
  ASSUME [MCNext]_MCVars
  PROVE  /\ [CloseNext]_closeVars /\ [EntryNext]_entryVars /\ [TargetsNext]_targetVars
         /\ [DcaNext]_dcaVars /\ [SubscriptionNext]_subscriptionVars
         /\ [LimitsNext]_limitsVars /\ [RiskNext]_riskVars
<1>1. CASE UNCHANGED MCVars
  <2>1. /\ UNCHANGED closeVars /\ UNCHANGED entryVars /\ UNCHANGED targetVars
        /\ UNCHANGED dcaVars /\ UNCHANGED subscriptionVars
        /\ UNCHANGED limitsVars /\ UNCHANGED riskVars
    BY <1>1, Zenon DEF MCVars
  <2> QED BY <2>1, Zenon
<1>2. CASE MCNext
  BY <1>2, Zenon DEF MCNext
<1> QED BY <1>1, <1>2

\* Side by side, a call of _close_position, an entry (execute_trade), a cycle of
\* the take-profits (position_monitor.py), a DCA strategy, the requests that move
\* money and the trackers of core/account_risk.py each do what they do alone:
\* every property proved of one of them holds of the run that checks them all.
THEOREM CallsAreTheirParts ==
  MCSpec => /\ CloseSpec /\ EntrySpec /\ TargetsSpec
            /\ DcaSpec /\ SubscriptionSpec /\ RiskSpec
<1>1. MCInit => /\ CloseInit /\ EntryInit /\ TargetsInit
                /\ DcaInit /\ SubscriptionInit /\ RiskInit
  BY DEF MCInit
<1>2. [MCNext]_MCVars =>
        /\ [CloseNext]_closeVars /\ [EntryNext]_entryVars /\ [TargetsNext]_targetVars
        /\ [DcaNext]_dcaVars /\ [SubscriptionNext]_subscriptionVars
        /\ [RiskNext]_riskVars
  BY StepOfEach
<1> QED
  BY <1>1, <1>2, PTL
  DEF MCSpec, CloseSpec, EntrySpec, TargetsSpec, DcaSpec, SubscriptionSpec, RiskSpec

LEMMA IdleLimitsTyped == LimitsIdle => LimitsTypeOK /\ WishInv
<1> SUFFICES ASSUME LimitsIdle PROVE LimitsTypeOK /\ WishInv
  OBVIOUS
<1>1. \A e \in Entry : stage[e] = "done"
  BY DEF LimitsIdle
<1>2. WishInv
  BY <1>1 DEF WishInv, HasWish, Underway, Counted, Booking, Sending
<1>3. stopped \in BOOLEAN
  BY Zenon DEF LimitsIdle
<1>4. LimitsTypeOK
  BY <1>3, Bounds DEF LimitsIdle, LimitsTypeOK, Stage
<1> QED BY <1>2, <1>4

LEMMA LimitsTyped == MCSpec => []LimitsTypeOK
<1>1. MCInit => LimitsTypeOK /\ WishInv
  <2>1. MCInit => LimitsInit \/ LimitsIdle
    BY DEF MCInit
  <2> QED BY <2>1, TypeInit, IdleLimitsTyped
<1>2. LimitsTypeOK /\ WishInv /\ [MCNext]_MCVars => (LimitsTypeOK /\ WishInv)'
  BY StepOfEach, TypeStep
<1> QED BY <1>1, <1>2, PTL DEF MCSpec

\* Whichever of the calls, the requests, the signals under their limits or the
\* trackers moves, its variables have the values they are declared with.
THEOREM CallsTypeCorrect == MCSpec => []CallsTypeOK
<1>1. OnePart /\ CloseTypeOK /\ EntryTypeOK /\ TargetsTypeOK /\ DcaTypeOK
        /\ SubscriptionTypeOK /\ LimitsTypeOK /\ RiskTypeOK
      => CallsTypeOK
  BY Zenon DEF CallsTypeOK, OnePart, Parts
<1> QED
  BY <1>1, OnePartHolds, CallsAreTheirParts, CloseTypeCorrect, EntryTypeCorrect,
     TargetsTypeCorrect, DcaTypeCorrect, SubscriptionTypeCorrect, LimitsTyped,
     RiskTypeCorrect, PTL
=============================================================================
