---------------------------- MODULE MonitorProofs ----------------------------
(***************************************************************************)
(* Types and safety of the monitor's components ProtectiveStop and         *)
(* GhostPosition and of the ledger of a position (PositionLedger), for any *)
(* threshold, sets of sessions and opened quantity, and any number of      *)
(* prices, mishaps, wrong reads, failed requests and failed transactions.  *)
(***************************************************************************)
EXTENDS ProtectiveStop, GhostPosition, PositionLedger, TLAPS

-----------------------------------------------------------------------------
(***************************************************************************)
(* The stop.                                                               *)
(***************************************************************************)
\* The stops on the exchange and those the row and the cycle know have ids the
\* exchange has taken.
Ids ==
    /\ quantity \in 0..MaxQty /\ remaining \in 1..MaxQty
    /\ rowPrice \in 0..MaxPrice /\ ownPrice \in 0..MaxPrice
    /\ want \in Terms
    /\ sent \subseteq StopId /\ stops \subseteq sent
    /\ rowStop \in sent /\ ownStop \in sent
    /\ phase \in {"cancelOld", "replaced"} => want \in sent

\* While a replacement is under way there is a stop besides the new one, as long
\* as the exchange itself took none away.
TwoStops ==
    Held /\ causes = {} =>
        /\ stops # {}
        /\ phase = "cancelOld" => want \in stops /\ want # ownStop
        /\ phase \in {"cancelOld", "cancelNew"} => stops \ {want} # {}

StopInv == Ids /\ TwoStops

LEMMA StopInvInit == StopInit => StopInv
<1> SUFFICES ASSUME StopInit PROVE StopInv
  OBVIOUS
<1> USE StopAssumption
<1>1. want \in Terms
  BY DEF StopInit, Terms
<1> QED BY <1>1 DEF StopInit, StopInv, Ids, TwoStops, StopId

\* What the session of a cycle and the row may be given.
LEMMA WantFacts ==
  ASSUME Ids
  PROVE  /\ want[1] \in 0..MaxPrice
         /\ \A p \in 0..MaxPrice : <<p, remaining>> \in Terms
BY DEF Ids, Terms

LEMMA StopInvNext == StopInv /\ [StopNext]_stopVars => StopInv'
<1> SUFFICES ASSUME StopInv, [StopNext]_stopVars PROVE StopInv'
  OBVIOUS
<1> USE StopAssumption DEF StopInv, Ids, TwoStops, Held, stopRow, stopSession
<1>1. CASE StartStopCycle \/ TrailStop \/ VerifyStop \/ SkipStop
  <2>1. /\ UNCHANGED <<quantity, stops, sent, rowStop, rowPrice, causes>>
        /\ phase' \in {"cycle", "create", "commit"}
    BY <1>1 DEF StartStopCycle, TrailStop, VerifyStop, SkipStop
  <2>2. /\ ownStop' \in {rowStop, ownStop} /\ ownPrice' \in {rowPrice, ownPrice}
        /\ remaining' \in 1..MaxQty
    BY <1>1 DEF StartStopCycle, TrailStop, VerifyStop, SkipStop
  <2>3. want' = want \/ \E p \in 0..MaxPrice : want' = <<p, remaining>>
    BY <1>1 DEF StartStopCycle, TrailStop, VerifyStop, SkipStop
  <2>4. want' \in Terms
    BY <2>3, WantFacts
  <2>5. Ids'
    BY <2>1, <2>2, <2>4
  <2>6. TwoStops'
    BY <2>1
  <2> QED BY <2>5, <2>6
<1>2. CASE CreateStop
  <2>1. /\ want \notin sent /\ sent' = sent \cup {want} /\ stops' = stops \cup {want}
        /\ UNCHANGED <<quantity, rowStop, rowPrice, ownStop, ownPrice, remaining, want, causes>>
    BY <1>2 DEF CreateStop, StopsKept, IdIsFree
  <2>2. Ids'
    BY <2>1 DEF StopId
  <2>3. want \notin stops \cup {ownStop}
    BY <2>1
  <2>4. TwoStops'
    BY <2>1, <2>3
  <2> QED BY <2>2, <2>4
<1>3. CASE StopRefused
  BY <1>3 DEF StopRefused, StopsKept
<1>4. CASE StopTimesOut
  <2>1. /\ \/ stops' = stops \cup {want} /\ sent' = sent \cup {want}
           \/ UNCHANGED <<stops, sent>>
        /\ quantity' \in 0..quantity /\ phase' = "commit"
        /\ UNCHANGED <<rowStop, rowPrice, ownStop, ownPrice, remaining, want, causes>>
    BY <1>4 DEF StopTimesOut, StopsKept
  <2>2. Ids'
    BY <2>1 DEF StopId
  <2>3. TwoStops'
    BY <2>1
  <2> QED BY <2>2, <2>3
<1>5. CASE CancelOld
  <2>1. PICK confirmed \in BOOLEAN :
            /\ Cancel(ownStop, confirmed)
            /\ phase' = IF confirmed THEN "replaced" ELSE "cancelNew"
    BY <1>5 DEF CancelOld
  <2>2. stops' \subseteq stops /\ causes \subseteq causes'
    BY <2>1 DEF Cancel
  <2>3. Ids'
    BY <1>5, <2>2 DEF CancelOld
  <2>4. CASE confirmed
    BY <1>5, <2>1, <2>3, <2>4 DEF CancelOld, Cancel
  <2>5. CASE ~confirmed
    <3>1. causes' = {} => stops' = stops
      BY <2>1, <2>5 DEF Cancel
    <3> QED BY <1>5, <2>1, <2>2, <2>3, <2>5, <3>1 DEF CancelOld
  <2> QED BY <2>4, <2>5
<1>6. CASE KeepNew \/ CommitCycle \/ FailCycle
  <2>1. CASE KeepNew
    BY <2>1, WantFacts DEF KeepNew
  <2>2. CASE CommitCycle
    BY <2>2 DEF CommitCycle, IdKept
  <2>3. CASE FailCycle
    BY <2>3 DEF FailCycle
  <2> QED BY <1>6, <2>1, <2>2, <2>3
<1>7. CASE CancelNew
  <2>1. PICK confirmed \in BOOLEAN : Cancel(want, confirmed)
    BY <1>7 DEF CancelNew
  <2>2. /\ stops' \subseteq stops /\ causes \subseteq causes'
        /\ stops \ {want} \subseteq stops'
    BY <2>1 DEF Cancel
  <2> QED BY <1>7, <2>2 DEF CancelNew
<1>8. CASE PositionEnds \/ PositionShrinks \/ DropStop
  BY <1>8 DEF PositionEnds, PositionShrinks, DropStop
<1>9. CASE UNCHANGED stopVars
  BY <1>9 DEF stopVars
<1> QED
  BY <1>1, <1>2, <1>3, <1>4, <1>5, <1>6, <1>7, <1>8, <1>9 DEF StopNext

\* However orders are refused or time out and transactions fail, the position is
\* without a stop only after the exchange took one away unasked or unanswered.
THEOREM NeverBareHolds == StopSpec => []NeverBare
<1>1. StopInv => NeverBare
  BY DEF StopInv, TwoStops, NeverBare
<1> QED BY <1>1, StopInvInit, StopInvNext, PTL DEF StopSpec

LEMMA StopTypeNext == StopInv /\ StopTypeOK /\ [StopNext]_stopVars => StopTypeOK'
<1> SUFFICES ASSUME StopInv, StopTypeOK, [StopNext]_stopVars PROVE StopTypeOK'
  OBVIOUS
<1> USE StopAssumption
<1>1. issues' \in BOOLEAN
  <2>1. issues \in BOOLEAN
    BY DEF StopTypeOK
  <2>2. CASE issues' = issues \/ issues' = TRUE
    BY <2>1, <2>2, Zenon
  <2>3. CASE CancelNew
    BY <2>1, <2>3, Zenon DEF CancelNew
  <2>4. issues' = issues \/ issues' = TRUE \/ CancelNew
    BY DEF StopNext, stopVars, StartStopCycle, TrailStop, VerifyStop, SkipStop,
           CreateStop, StopRefused, StopTimesOut, CancelOld, KeepNew, CommitCycle,
           FailCycle, PositionEnds, PositionShrinks, DropStop
  <2> QED BY <2>2, <2>3, <2>4
<1>2. (phase \in Phase /\ causes \subseteq Cause)'
  BY DEF StopTypeOK, Phase, Cause, StopNext, stopVars, StartStopCycle, TrailStop,
         VerifyStop, SkipStop, CreateStop, StopRefused, StopTimesOut, CancelOld,
         CancelNew, Cancel, KeepNew, CommitCycle, FailCycle, PositionEnds,
         PositionShrinks, DropStop
<1>3. (mishaps \in 0..MaxMishaps)'
  <2>1. mishaps' = mishaps \/ Mishap
    BY DEF StopNext, stopVars, StartStopCycle, TrailStop, VerifyStop, SkipStop,
           CreateStop, StopRefused, StopTimesOut, CancelOld, CancelNew, Cancel, KeepNew,
           CommitCycle, FailCycle, PositionEnds, PositionShrinks, DropStop
  <2> QED BY <2>1 DEF Mishap, StopTypeOK
<1>4. Ids'
  BY StopInvNext DEF StopInv
<1> QED
  BY <1>1, <1>2, <1>3, <1>4, Zenon DEF Ids, StopTypeOK

\* Every reachable state of the stop and its cycle is well typed
\* (place_protective_stop and the row it writes to).
THEOREM StopTypeCorrect == StopSpec => []StopTypeOK
<1>1. StopInit => StopTypeOK
  <2> SUFFICES ASSUME StopInit PROVE StopTypeOK
    OBVIOUS
  <2>1. issues \in BOOLEAN
    BY DEF StopInit
  <2>2. mishaps \in 0..MaxMishaps /\ phase \in Phase /\ causes \subseteq Cause
    BY StopAssumption DEF StopInit, Phase
  <2>3. Ids
    BY StopInvInit DEF StopInv
  <2> QED BY <2>1, <2>2, <2>3, Zenon DEF Ids, StopTypeOK
<1> QED BY <1>1, StopInvInit, StopInvNext, StopTypeNext, PTL DEF StopSpec

-----------------------------------------------------------------------------
(***************************************************************************)
(* The decision that a position is gone.                                   *)
(***************************************************************************)
Counters == counter \in Nat /\ stored \in Nat /\ lies \in Nat

Ghost(r) == r = "ghost_position_auto_close"

\* A position that has been there all the time is missed only by wrong reads:
\* neither counter, in memory or in the file, is ahead of them, whatever saves
\* failed and whichever of the two a cycle goes on with.
EarnedSoFar ==
    there /\ ~refilled =>
        /\ counter <= lies /\ stored <= lies
        /\ stop = "final" => lies >= Threshold
        /\ stop = "order" \/ Ghost(drafted) \/ Ghost(status) => lies > Threshold

\* An entry order that has ended is not live again.
NoneLive == Ghost(drafted) \/ Ghost(status) => entryAt # "live"

GhostInv == Counters /\ EarnedSoFar /\ NoneLive

LEMMA GhostInvInit == GhostInit => GhostInv
BY GhostAssumption
DEF GhostInit, GhostInv, Counters, EarnedSoFar, NoneLive, Ghost

\* The tracker: memory follows, the file follows or keeps what it had.
LEMMA TrackFacts ==
  ASSUME GhostInv, NEW n \in Nat, Track(n)
  PROVE  /\ counter' \in Nat /\ counter' <= n
         /\ stored' \in Nat /\ (stored' <= n \/ stored' = stored)
BY GhostAssumption DEF GhostInv, Counters, Track, Lower

\* A read that misses a position that is there is one of the wrong ones.
LEMMA MissedFacts ==
  ASSUME GhostInv, Targeted(FALSE)
  PROVE  lies' \in Nat /\ lies' >= lies /\ (there => lies' = lies + 1)
BY GhostAssumption DEF GhostInv, Counters, Targeted

LEMMA SeenFacts ==
  ASSUME GhostInv, Targeted(TRUE)
  PROVE  lies' = lies /\ there
BY GhostAssumption DEF GhostInv, Counters, Targeted

\* Steps that leave market and row as they are, except for a wish to close that
\* is no ghost.
LEMMA PlainStep ==
  ASSUME GhostInv,
         there' => there, refilled' = refilled, entryAt' = "live" => entryAt = "live",
         lies' \in Nat, lies' >= lies,
         counter' \in Nat, counter' <= counter \/ counter' <= stored,
         stored' \in Nat, stored' <= stored,
         Ghost(drafted') => Ghost(drafted) \/ Ghost(status),
         Ghost(status') => Ghost(drafted) \/ Ghost(status),
         stop' = "final" => stop = "final", stop' = "order" => stop = "order"
  PROVE  GhostInv'
<1> USE GhostAssumption DEF GhostInv
<1>1. Counters'
  BY DEF Counters
<1>2. NoneLive'
  BY DEF NoneLive, Ghost
<1>3. EarnedSoFar'
  BY DEF EarnedSoFar, Counters, Ghost
<1> QED BY <1>1, <1>2, <1>3

LEMMA RecoverSteps ==
    GhostInv /\ (StartGhostCycle \/ Reopen \/ NotReopened \/ EntryChecked \/ EntryMissed
                 \/ MissingEntry) => GhostInv'
<1> SUFFICES ASSUME GhostInv, \/ StartGhostCycle \/ Reopen \/ NotReopened
                              \/ EntryChecked \/ EntryMissed \/ MissingEntry
             PROVE  GhostInv'
  OBVIOUS
<1> USE DEF GhostInv, Counters, marketVars, rowVars, trackerVars, Ghost, End, Proceed
<1>1. CASE StartGhostCycle
  BY <1>1, PlainStep DEF StartGhostCycle, Loaded
<1>2. CASE Reopen
  <2>1. Track(0) /\ Targeted(TRUE)
    BY <1>2 DEF Reopen
  <2>2. /\ counter' \in Nat /\ counter' <= counter
        /\ stored' \in Nat /\ stored' <= stored
        /\ lies' \in Nat /\ lies' >= lies
    BY <2>1, TrackFacts, SeenFacts
  <2> QED BY <1>2, <2>2, PlainStep DEF Reopen
<1>3. CASE NotReopened
  <2>1. lies' \in Nat /\ lies' >= lies
    <3>1. Targeted(FALSE) \/ lies' = lies
      BY <1>3 DEF NotReopened
    <3>2. CASE Targeted(FALSE)
      BY <3>2, MissedFacts
    <3>3. CASE lies' = lies
      BY <3>3
    <3> QED BY <3>1, <3>2, <3>3
  <2> QED BY <1>3, <2>1, PlainStep DEF NotReopened
<1>4. CASE EntryChecked
  BY <1>4, PlainStep DEF EntryChecked
<1>5. CASE EntryMissed
  BY <1>5, PlainStep DEF EntryMissed
<1>6. CASE MissingEntry
  <2>1. /\ counter' \in Nat /\ counter' <= counter
        /\ stored' \in Nat /\ stored' <= stored
        /\ lies' \in Nat /\ lies' >= lies
    <3>1. CASE Targeted(FALSE) /\ Track(0)
      BY <3>1, TrackFacts, MissedFacts
    <3>2. CASE Targeted(TRUE) /\ UNCHANGED trackerVars
      BY <3>2, SeenFacts
    <3>3. CASE UNCHANGED trackerVars /\ UNCHANGED lies
      BY <3>3
    <3> QED BY <1>6, <3>1, <3>2, <3>3 DEF MissingEntry
  <2> QED BY <1>6, <2>1, PlainStep DEF MissingEntry
<1> QED BY <1>1, <1>2, <1>3, <1>4, <1>5, <1>6

LEMMA ListSteps ==
    GhostInv /\ (Listed \/ ListFails \/ CloseResidual \/ Unlisted \/ Seen \/ ReadFails
                 \/ EmptyMissed \/ KeepForEntry) => GhostInv'
<1> SUFFICES ASSUME GhostInv, \/ Listed \/ ListFails \/ CloseResidual \/ Unlisted
                              \/ Seen \/ ReadFails \/ EmptyMissed \/ KeepForEntry
             PROVE  GhostInv'
  OBVIOUS
<1> USE DEF GhostInv, Counters, marketVars, rowVars, trackerVars, Ghost, End, Proceed
<1>1. ASSUME Track(0)
      PROVE  /\ counter' \in Nat /\ counter' <= counter
             /\ stored' \in Nat /\ stored' <= stored
  BY <1>1, TrackFacts
<1>2. CASE Listed
  BY <1>1, <1>2, PlainStep DEF Listed
<1>3. CASE ListFails
  BY <1>3, PlainStep DEF ListFails
<1>4. CASE CloseResidual
  <2>1. there /\ Track(0)
    BY <1>4 DEF CloseResidual
  <2> QED BY <1>1, <1>4, <2>1, PlainStep DEF CloseResidual
<1>5. CASE Unlisted
  BY <1>5, PlainStep DEF Unlisted
<1>6. CASE Seen
  <2>1. lies' \in Nat /\ lies' >= lies
    BY <1>6, SeenFacts DEF Seen
  <2> QED BY <1>1, <1>6, <2>1, PlainStep DEF Seen
<1>7. CASE ReadFails
  BY <1>7, PlainStep DEF ReadFails
<1>8. CASE EmptyMissed
  <2>1. lies' \in Nat /\ lies' >= lies
    BY <1>8, MissedFacts DEF EmptyMissed
  <2> QED BY <1>8, <2>1, PlainStep DEF EmptyMissed
<1>9. CASE KeepForEntry
  BY <1>9, PlainStep DEF KeepForEntry, EntryCancelled
<1> QED BY <1>2, <1>3, <1>4, <1>5, <1>6, <1>7, <1>8, <1>9

\* The counter rises with a wrong read, the last look is one more, and so the
\* close is behind Threshold + 1 of them.
LEMMA CountSteps ==
    GhostInv /\ (SingleMissed \/ FinalMissed \/ GhostClose \/ GhostAborted) => GhostInv'
<1> SUFFICES ASSUME GhostInv, SingleMissed \/ FinalMissed \/ GhostClose \/ GhostAborted
             PROVE  GhostInv'
  OBVIOUS
<1> USE GhostAssumption
<1> USE DEF GhostInv, marketVars, rowVars, trackerVars, End, Proceed
<1>1. CASE SingleMissed
  <2>1. /\ lies' \in Nat /\ lies' >= lies /\ (there => lies' = lies + 1)
    BY <1>1, MissedFacts DEF SingleMissed, Counted
  <2>2. CASE stop' = "commit" /\ UNCHANGED trackerVars
    BY <1>1, <2>1, <2>2, PlainStep DEF SingleMissed, Counters, Ghost
  <2>3. CASE /\ Track(counter + 1)
             /\ stop' = IF counter + 1 >= Threshold /\ aged THEN "final" ELSE "commit"
    <3>1. /\ counter' \in Nat /\ counter' <= counter + 1
          /\ stored' \in Nat /\ (stored' <= counter + 1 \/ stored' = stored)
      BY <2>3, TrackFacts DEF Counters
    <3>2. UNCHANGED <<there, refilled, entryAt, drafted, status>>
      BY <1>1 DEF SingleMissed
    <3>3. there /\ ~refilled =>
            /\ counter' <= lies' /\ stored' <= lies'
            /\ stop' = "final" => lies' >= Threshold
      BY <2>1, <2>3, <3>1 DEF EarnedSoFar, Counters
    <3>4. EarnedSoFar'
      BY <2>1, <2>3, <3>2, <3>3 DEF EarnedSoFar, Counters, Ghost
    <3> QED BY <2>1, <3>1, <3>2, <3>4 DEF Counters, NoneLive, Ghost
  <2> QED BY <1>1, <2>2, <2>3 DEF SingleMissed
<1>2. CASE FinalMissed
  <2>1. /\ lies' \in Nat /\ lies' >= lies /\ (there => lies' = lies + 1)
    BY <1>2, MissedFacts DEF FinalMissed
  <2>2. /\ UNCHANGED <<there, refilled, entryAt, drafted, status, counter, stored>>
        /\ stop = "final" /\ stop' \in {"order", "commit"}
    BY <1>2 DEF FinalMissed
  <2>3. EarnedSoFar'
    BY <2>1, <2>2 DEF EarnedSoFar, Counters, Ghost
  <2> QED BY <2>1, <2>2, <2>3 DEF Counters, NoneLive, Ghost
<1>3. CASE GhostClose
  <2>1. /\ counter' \in Nat /\ counter' <= counter
        /\ stored' \in Nat /\ stored' <= stored
    BY <1>3, TrackFacts DEF GhostClose, Counters
  <2>2. /\ UNCHANGED <<there, refilled, status, lies>>
        /\ stop = "order" /\ stop' = "commit"
        /\ entryAt' # "live"
    BY <1>3 DEF GhostClose, EntryCancelled
  <2>3. EarnedSoFar'
    BY <2>1, <2>2 DEF EarnedSoFar, Counters, Ghost
  <2> QED BY <2>1, <2>2, <2>3 DEF Counters, NoneLive, Ghost
<1>4. CASE GhostAborted
  BY <1>4, PlainStep DEF GhostAborted, Counters, Ghost
<1> QED BY <1>1, <1>2, <1>3, <1>4

LEMMA RestSteps ==
    GhostInv /\ (ResidualSeen \/ ResidualMissed \/ CleanUpOrders \/ CommitRow \/ LoseCycle
                 \/ Restart) => GhostInv'
<1> SUFFICES ASSUME GhostInv, \/ ResidualSeen \/ ResidualMissed \/ CleanUpOrders
                              \/ CommitRow \/ LoseCycle \/ Restart
             PROVE  GhostInv'
  OBVIOUS
<1> USE DEF GhostInv, Counters, marketVars, rowVars, trackerVars, Ghost, End, Proceed
<1>1. CASE ResidualSeen
  <2>1. lies' \in Nat /\ lies' >= lies
    BY <1>1, SeenFacts DEF ResidualSeen
  <2> QED BY <1>1, <2>1, PlainStep DEF ResidualSeen
<1>2. CASE ResidualMissed
  <2>1. lies' \in Nat /\ lies' >= lies
    BY <1>2, MissedFacts DEF ResidualMissed
  <2> QED BY <1>2, <2>1, PlainStep DEF ResidualMissed
<1>3. CASE CleanUpOrders
  BY <1>3, PlainStep DEF CleanUpOrders
<1>4. CASE CommitRow
  BY <1>4, PlainStep DEF CommitRow
<1>5. CASE LoseCycle
  BY <1>5, PlainStep DEF LoseCycle
<1>6. CASE Restart
  BY <1>6, PlainStep DEF Restart
<1> QED BY <1>1, <1>2, <1>3, <1>4, <1>5, <1>6

LEMMA MarketSteps ==
    GhostInv /\ (EntryRefills \/ EntryStops \/ Reduced \/ EntryOverdue \/ MissingForLong
                 \/ Forget \/ OpenTwin) => GhostInv'
<1> SUFFICES ASSUME GhostInv, \/ EntryRefills \/ EntryStops \/ Reduced \/ EntryOverdue
                              \/ MissingForLong \/ Forget \/ OpenTwin
             PROVE  GhostInv'
  OBVIOUS
<1> USE DEF GhostInv, marketVars, cycleVars
<1>1. CASE EntryRefills
  <2>1. there' /\ ~refilled' => there /\ ~refilled
    BY <1>1, Zenon DEF EntryRefills
  <2>2. /\ entryAt = "live"
        /\ UNCHANGED <<status, drafted, counter, stored, stop, lies>>
    BY <1>1 DEF EntryRefills
  <2> QED BY <2>1, <2>2 DEF Counters, EarnedSoFar, NoneLive, Ghost
<1>2. CASE EntryStops \/ Reduced \/ EntryOverdue \/ MissingForLong \/ Forget \/ OpenTwin
  <2>1. /\ UNCHANGED <<status, drafted, counter, stored, stop, lies, refilled>>
        /\ there' => there
        /\ entryAt' = "live" => entryAt = "live"
    <3>1. CASE Reduced
      BY <3>1 DEF Reduced
    <3>2. CASE EntryStops \/ EntryOverdue \/ MissingForLong \/ Forget \/ OpenTwin
      BY <3>2
      DEF EntryStops, EntryOverdue, MissingForLong, Forget, OpenTwin
    <3> QED BY <1>2, <3>1, <3>2
  <2> QED BY <2>1 DEF Counters, EarnedSoFar, NoneLive, Ghost
<1> QED BY <1>1, <1>2

LEMMA GhostInvHolds == GhostSpec => []GhostInv
<1>1. GhostInv /\ [GhostNext]_ghostVars => GhostInv'
  <2> SUFFICES ASSUME GhostInv, [GhostNext]_ghostVars PROVE GhostInv'
    OBVIOUS
  <2>1. CASE UNCHANGED ghostVars
    BY <2>1
    DEF ghostVars, GhostInv, Counters, EarnedSoFar, NoneLive, Ghost
  <2>2. CASE GhostNext
    BY <2>2, RecoverSteps, ListSteps, CountSteps, RestSteps, MarketSteps
    DEF GhostNext, CycleStep
  <2> QED BY <2>1, <2>2
<1> QED BY <1>1, GhostInvInit, PTL DEF GhostSpec

\* A position that was there all the time is given up only after more wrong
\* reads than the threshold, across restarts and failed saves of the counter.
THEOREM GhostIsEarnedHolds == GhostSpec => []GhostIsEarned
<1>1. GhostInv => GhostIsEarned
  BY DEF GhostInv, EarnedSoFar, GhostIsEarned, Ghost
<1> QED BY <1>1, GhostInvHolds, PTL

\* No entry order is live beside a row that was closed as a ghost.
THEOREM NoOrphanedEntryHolds == GhostSpec => []NoOrphanedEntry
<1>1. GhostInv => NoOrphanedEntry
  BY DEF GhostInv, NoneLive, NoOrphanedEntry, Ghost
<1> QED BY <1>1, GhostInvHolds, PTL

\* The flags, and all the rest.
Flags ==
    {there, overdue, closeFill, guarded, recent, twin, far, refilled, aged} \subseteq BOOLEAN
Ranges ==
    /\ entryAt \in {"live", "ended", "cleared"}
    /\ status \in Reason /\ drafted \in Reason /\ stop \in Stop
    /\ counter \in 0..Threshold + 1 /\ stored \in 0..Threshold + 1
    /\ lies \in 0..MaxLies /\ failures \in 0..MaxFailures

LEMMA FlagsNext == Flags /\ [GhostNext]_ghostVars => Flags'
<1> SUFFICES ASSUME Flags, [GhostNext]_ghostVars PROVE Flags'
  OBVIOUS
<1> USE DEF Flags, marketVars, rowVars, trackerVars, Track, Reprotect
<1>1. CASE \/ StartGhostCycle \/ Reopen \/ NotReopened \/ EntryChecked \/ EntryMissed
           \/ MissingEntry
  BY <1>1, Zenon
  DEF StartGhostCycle, Reopen, NotReopened, EntryChecked, EntryMissed, MissingEntry
<1>2. CASE Listed \/ ListFails \/ CloseResidual \/ Unlisted
  BY <1>2, Zenon DEF Listed, ListFails, CloseResidual, Unlisted
<1>3. CASE Seen \/ ReadFails \/ EmptyMissed \/ KeepForEntry
  BY <1>3, Zenon DEF Seen, ReadFails, EmptyMissed, KeepForEntry
<1>4. CASE SingleMissed \/ FinalMissed \/ GhostClose \/ GhostAborted
  BY <1>4, Zenon DEF SingleMissed, FinalMissed, GhostClose, GhostAborted
<1>5. CASE \/ ResidualSeen \/ ResidualMissed \/ CleanUpOrders \/ CommitRow \/ LoseCycle
           \/ Restart
  BY <1>5, Zenon
  DEF ResidualSeen, ResidualMissed, CleanUpOrders, CommitRow, LoseCycle, Restart
<1>6. CASE \/ EntryRefills \/ EntryStops \/ Reduced \/ EntryOverdue \/ MissingForLong
           \/ Forget \/ OpenTwin
  BY <1>6, Zenon
  DEF EntryRefills, EntryStops, Reduced, EntryOverdue, MissingForLong, Forget,
      OpenTwin
<1>7. CASE UNCHANGED ghostVars
  BY <1>7, Zenon DEF ghostVars
<1> QED
  BY <1>1, <1>2, <1>3, <1>4, <1>5, <1>6, <1>7, Zenon DEF GhostNext, CycleStep

LEMMA RangesNext == Ranges /\ [GhostNext]_ghostVars => Ranges'
<1> SUFFICES ASSUME Ranges, [GhostNext]_ghostVars PROVE Ranges'
  OBVIOUS
<1> USE GhostAssumption
<1> USE DEF Ranges, Reason, Stop, marketVars, rowVars, trackerVars, Proceed, End,
            Targeted, Track, Works, Fails, Lower, EntryCancelled, Loaded, Counted
<1>1. CASE \/ StartGhostCycle \/ Reopen \/ NotReopened \/ EntryChecked \/ EntryMissed
           \/ MissingEntry
  <2>1. CASE EntryChecked
    <3>1. /\ UNCHANGED <<status, drafted, counter, stored, lies>> /\ stop' = "batch"
          /\ entryAt' \in {entryAt, "cleared", "live"} /\ (Works \/ Fails)
      BY <2>1, Zenon DEF EntryChecked
    <3> QED BY <3>1
  <2>2. CASE StartGhostCycle \/ EntryMissed
    BY <2>2 DEF StartGhostCycle, EntryMissed
  <2>3. CASE NotReopened
    BY <2>3 DEF NotReopened, ToRecover
  <2>4. CASE MissingEntry
    BY <2>4 DEF MissingEntry
  <2>5. CASE Reopen
    <3>1. /\ UNCHANGED <<entryAt, status, lies>> /\ stop' = "commit" /\ drafted' = "open"
          /\ Track(0)
      BY <2>5, Zenon DEF Reopen
    <3> QED BY <3>1
  <2> QED BY <1>1, <2>1, <2>2, <2>3, <2>4, <2>5
<1>2. CASE Listed \/ ListFails \/ CloseResidual \/ Unlisted
  <2>1. CASE CloseResidual
    <3>1. /\ UNCHANGED <<entryAt, status, lies>> /\ stop' = "commit"
          /\ drafted' \in {drafted, "exchange_closed"} /\ Track(0)
      BY <2>1, Zenon DEF CloseResidual
    <3> QED BY <3>1
  <2>2. CASE Listed \/ ListFails \/ Unlisted
    BY <2>2 DEF Listed, ListFails, Unlisted
  <2> QED BY <1>2, <2>1, <2>2
<1>3. CASE Seen \/ ReadFails \/ EmptyMissed
  <2>1. /\ UNCHANGED <<entryAt, status, drafted>>
        /\ stop' \in {"commit", "keep"}
        /\ Targeted(TRUE) \/ Targeted(FALSE) \/ UNCHANGED lies
        /\ \/ Track(0)
           \/ UNCHANGED trackerVars /\ (Works \/ Fails)
    BY <1>3 DEF Seen, ReadFails, EmptyMissed
  <2> QED BY <2>1
<1>4. CASE KeepForEntry
  <2>1. /\ UNCHANGED <<status, drafted, counter, stored, lies>>
        /\ stop' \in {"single", "commit"}
        /\ entryAt' \in {entryAt, "ended"}
        /\ Works \/ Fails
    BY <1>4, Zenon DEF KeepForEntry
  <2> QED BY <2>1
<1>5. CASE SingleMissed
  <2>1. /\ UNCHANGED <<entryAt, status, drafted>>
        /\ Targeted(FALSE)
        /\ stop' \in {"final", "commit"}
        /\ Track(counter + 1) \/ UNCHANGED <<counter, stored, failures>>
    BY <1>5, Zenon DEF SingleMissed
  <2> QED BY <2>1
<1>6. CASE FinalMissed \/ GhostClose \/ GhostAborted
  BY <1>6 DEF FinalMissed, GhostClose, GhostAborted
<1>7. CASE \/ ResidualSeen \/ ResidualMissed \/ CleanUpOrders \/ CommitRow \/ LoseCycle
           \/ Restart
  <2>1. CASE ResidualSeen \/ ResidualMissed \/ CleanUpOrders
    BY <2>1 DEF ResidualSeen, ResidualMissed, CleanUpOrders
  <2>2. CASE CommitRow \/ LoseCycle \/ Restart
    BY <2>2 DEF CommitRow, LoseCycle, Restart
  <2> QED BY <1>7, <2>1, <2>2
<1>8. CASE \/ EntryRefills \/ EntryStops \/ Reduced \/ EntryOverdue \/ MissingForLong
           \/ Forget \/ OpenTwin
  <2>1. CASE EntryRefills \/ EntryStops \/ Reduced \/ EntryOverdue
    <3>1. UNCHANGED cycleVars /\ entryAt' \in {entryAt, "live", "ended"}
      BY <2>1, Zenon DEF EntryRefills, EntryStops, Reduced, EntryOverdue
    <3> QED BY <3>1 DEF cycleVars
  <2>2. CASE MissingForLong \/ Forget \/ OpenTwin
    BY <2>2 DEF MissingForLong, Forget, OpenTwin, cycleVars
  <2> QED BY <1>8, <2>1, <2>2
<1>9. CASE UNCHANGED ghostVars
  BY <1>9, Zenon DEF ghostVars
<1> QED
  BY <1>1, <1>2, <1>3, <1>4, <1>5, <1>6, <1>7, <1>8, <1>9, Zenon
  DEF GhostNext, CycleStep

\* Every reachable state of the row, the tracker and the cycle is well typed
\* (_reconcile_exchange_position and the ghost tracker).
THEOREM GhostTypeCorrect == GhostSpec => []GhostTypeOK
<1>1. GhostInit => Flags /\ Ranges
  <2>1. GhostInit => Flags
    BY Zenon DEF GhostInit, Flags
  <2>2. GhostInit => Ranges
    BY GhostAssumption DEF GhostInit, Ranges, Reason, Stop
  <2> QED BY <2>1, <2>2
<1>2. Flags /\ Ranges => GhostTypeOK
  BY Zenon DEF Flags, Ranges, GhostTypeOK
<1> QED BY <1>1, <1>2, FlagsNext, RangesNext, PTL DEF GhostSpec

-----------------------------------------------------------------------------
(***************************************************************************)
(* The ledger.                                                             *)
(***************************************************************************)
\* Where a session can be, and where the lock holder is.  A session works on a
\* position it has read open.
StageInv ==
    /\ at[Monitor] \in {"idle", "read"}
    /\ \A s \in Session : copy[s].status = "open"
    /\ lock \in Manual \cup Reverse => at[lock] = "sent"
    /\ lock \in Signal => at[lock] = "found"
    /\ lock = Monitor => at[lock] = "read"

\* Paper: what a session has read still covers what was not booked when it
\* read it, and the lock holder moves quantity from the row to the books.
BooksInv ==
    ~live =>
        /\ booked + row.rem >= Qty
        /\ \A s \in Session : booked + copy[s].rem >= Qty
        /\ lock # NoOne => pend + draft.rem = copy[lock].rem

\* Live: a session that will end the position has seen the exchange flat.
FlatInv ==
    live =>
        /\ row.status = "closed" => exposure = 0
        /\ lock # NoOne /\ draft.status = "closed" => exposure = 0
        /\ \A s \in Closer :
               at[s] \in {"sent", "found"} =>
                   \/ exposure = 0
                   \/ s \in Manual /\ amount[s] < copy[s].rem

LInv == LedgerTypeOK /\ StageInv /\ BooksInv /\ FlatInv

-----------------------------------------------------------------------------
\* What settling a close leaves: some of the quantity moves, and the position
\* ends when nothing is left (close_position_async, partial close).
LEMMA SettledFacts ==
  ASSUME NEW was \in Row, NEW q \in Nat, was.status = "open"
  PROVE  /\ Settled(was, q) \in Row
         /\ Least(q, was.rem) \in 0..Qty
         /\ Least(q, was.rem) + Settled(was, q).rem = was.rem
         /\ Settled(was, q).status = "closed" => q >= was.rem
<1>1. Qty \in Nat
  BY LedgerAssumption
<1>2. was.rem \in 0..Qty
  BY DEF Row
<1>3. /\ Least(q, was.rem) \in 0..was.rem
      /\ Least(q, was.rem) = was.rem => q >= was.rem
  BY <1>1, <1>2 DEF Least
<1> QED BY <1>1, <1>2, <1>3 DEF Settled, Row

\* What a commit leaves: the status and the quantity each come from the
\* session or from the row.
LEMMA WrittenFacts ==
  ASSUME NEW was \in Row, NEW new \in Row, NEW old \in Row
  PROVE  /\ Written(was, new, old) \in Row
         /\ Written(was, new, old).status =
                IF new.status = was.status THEN old.status ELSE new.status
         /\ Written(was, new, old).rem =
                IF new.rem = was.rem THEN old.rem ELSE new.rem
<1>1. /\ DOMAIN old = {"status", "rem"}
      /\ new.status \in {"open", "closed"} /\ old.status \in {"open", "closed"}
      /\ new.rem \in 0..Qty /\ old.rem \in 0..Qty
  BY DEF Row
<1> DEFINE w == Written(was, new, old)
<1>2. w = [c \in {"status", "rem"} |->
              IF new[c] = was[c] THEN old[c] ELSE new[c]]
  BY <1>1 DEF Written
<1>3. w = [status |-> w.status, rem |-> w.rem]
  BY <1>2
<1>4. /\ w.status = IF new.status = was.status THEN old.status ELSE new.status
      /\ w.rem = IF new.rem = was.rem THEN old.rem ELSE new.rem
  BY <1>2
<1> HIDE DEF w
<1>5. w.status \in {"open", "closed"} /\ w.rem \in 0..Qty
  BY <1>1, <1>4
<1>6. w \in Row
  BY <1>3, <1>5 DEF Row
<1> QED BY <1>4, <1>6 DEF w

\* The initial states: one open row, nothing booked, nobody at work.
LEMMA LedgerInitInv == LedgerInit => LInv
<1> SUFFICES ASSUME LedgerInit PROVE LInv
  OBVIOUS
<1> USE LedgerAssumption DEF LedgerInit, Opened
<1>1. LedgerTypeOK
  BY DEF LedgerTypeOK, Row, Stage
<1>2. StageInv
  BY DEF StageInv, Session, Closer
<1>3. BooksInv /\ FlatInv
  BY DEF BooksInv, FlatInv, Session, Closer
<1> QED BY <1>1, <1>2, <1>3 DEF LInv

\* The steps by which a session reads the position keep the invariant.
LEMMA ReadInv ==
  ASSUME LInv, NEW s \in Session,
         \/ ReadPosition(s) \/ FindPosition(s)
         \/ StartCycle /\ s = Monitor
  PROVE  LInv'
<1> USE LedgerAssumption DEF LInv
<1>0. /\ at[s] \in {"idle", "sent"} /\ (at[s] = "sent" => s \in Signal)
      /\ lock # s
      /\ \/ copy' = [copy EXCEPT ![s] = row] /\ row.status = "open"
         \/ copy' = copy
      /\ \E p \in {"read", "found", "done"} :
            /\ at' = [at EXCEPT ![s] = p]
            /\ s = Monitor => p = "read"
            /\ p = "found" => at[s] = "sent"
      /\ UNCHANGED <<live, row, lock, draft, amount, pend, booked, exposure,
                     faults>>
  BY DEF ReadPosition, FindPosition, StartCycle, Goto, StageInv, Session,
         Closer
<1>1. LedgerTypeOK'
  BY <1>0 DEF LedgerTypeOK, Stage
<1>2. StageInv'
  BY <1>0 DEF StageInv, LedgerTypeOK, Session, Closer
<1>3. BooksInv'
  BY <1>0 DEF BooksInv, LedgerTypeOK
<1>4. FlatInv'
  BY <1>0 DEF FlatInv, LedgerTypeOK, Session, Closer
<1> QED BY <1>1, <1>2, <1>3, <1>4

\* The answer of the exchange to a close keeps the invariant.
LEMMA SendInv ==
  ASSUME LInv, NEW s \in Closer, CloseConfirmed(s) \/ CloseNotConfirmed(s)
  PROVE  LInv'
<1> USE LedgerAssumption DEF LInv
<1>1. CASE CloseConfirmed(s)
  <2>1. PICK q \in {Qty} \cup Shares(s) :
            /\ amount' = [amount EXCEPT ![s] = q]
            /\ IF live THEN exposure > 0 /\ exposure' \in Left(q)
                       ELSE UNCHANGED exposure
    BY <1>1 DEF CloseConfirmed
  <2>2. /\ s # Monitor /\ lock # s /\ at' = [at EXCEPT ![s] = "sent"]
        /\ at[s] \in {"idle", "read"}
        /\ UNCHANGED <<live, row, lock, copy, draft, pend, booked, faults>>
    BY <1>1 DEF CloseConfirmed, ReadyToSend, Goto, StageInv, Closer
  <2>3. copy[s].rem \in 0..Qty /\ exposure \in 0..Qty
    BY DEF LedgerTypeOK, Row, Session
  <2>4. /\ q \in 1..Qty
        /\ q # Qty => s \in Manual /\ q < copy[s].rem
    BY <2>3 DEF Shares
  <2>5. /\ exposure' \in 0..exposure
        /\ live /\ q = Qty => exposure' = 0
    BY <2>1, <2>3, <2>4 DEF Left, Least
  <2> HIDE DEF Left, Shares
  <2>6. exposure' \in 0..Qty
    BY <2>3, <2>5
  <2>10. LedgerTypeOK'
    BY <2>1, <2>2, <2>4, <2>6 DEF LedgerTypeOK, Stage
  <2>7. StageInv' /\ BooksInv'
    BY <2>2 DEF StageInv, BooksInv, LedgerTypeOK, Session, Closer
  <2>8. FlatInv'
    BY <2>1, <2>2, <2>3, <2>4, <2>5 DEF FlatInv, LedgerTypeOK, Session
  <2> QED BY <2>7, <2>8, <2>10
<1>2. CASE CloseNotConfirmed(s)
  <2>1. /\ exposure' \in 0..exposure /\ exposure \in 0..Qty
        /\ s # Monitor /\ lock # s /\ at' = [at EXCEPT ![s] = "done"]
        /\ UNCHANGED <<live, row, lock, copy, draft, amount, pend, booked,
                       faults>>
    BY <1>2 DEF CloseNotConfirmed, ReadyToSend, Goto, StageInv, Closer,
                LedgerTypeOK
  <2>2. LedgerTypeOK'
    <3>1. exposure' \in 0..Qty
      BY <2>1
    <3> QED BY <2>1, <3>1 DEF LedgerTypeOK, Stage
  <2>3. StageInv' /\ BooksInv'
    BY <2>1 DEF StageInv, BooksInv, LedgerTypeOK, Session, Closer
  <2>4. FlatInv'
    BY <2>1 DEF FlatInv, LedgerTypeOK, Session
  <2> QED BY <2>2, <2>3, <2>4
<1> QED BY <1>1, <1>2

\* Taking the lock and drafting the row keeps the invariant: a draft moves
\* quantity to the books and ends the position only when the exchange is flat.
LEMMA DraftInv ==
  ASSUME LInv, NEW s \in Session, lock = NoOne,
         NEW q \in Nat,
         BookWith(s, copy[s], q),
         \/ s \in Manual \cup Reverse /\ at[s] = "sent"
         \/ s \in Signal /\ at[s] = "found"
         \/ s = Monitor /\ at[s] = "read",
         live => exposure = 0 \/ q < copy[s].rem,
         UNCHANGED <<live, row, at, copy, amount, booked, exposure, faults>>
  PROVE  LInv'
<1> USE LedgerAssumption DEF LInv
<1>1. copy[s] \in Row /\ copy[s].status = "open" /\ copy[s].rem \in 0..Qty
  BY DEF LedgerTypeOK, StageInv, Row
<1>2. /\ draft' \in Row /\ pend' \in 0..Qty
      /\ pend' + draft'.rem = copy[s].rem
      /\ draft'.status = "closed" => q >= copy[s].rem
      /\ lock' = s
  BY <1>1, SettledFacts DEF BookWith
<1>3. LedgerTypeOK'
  BY <1>2 DEF LedgerTypeOK
<1>4. StageInv'
  BY <1>2 DEF StageInv, Session, Closer
<1>5. BooksInv'
  BY <1>2 DEF BooksInv
<1>6. FlatInv'
  <2>1. live /\ draft'.status = "closed" => exposure = 0
    BY <1>1, <1>2
  <2> QED BY <1>2, <2>1 DEF FlatInv
<1> QED BY <1>3, <1>4, <1>5, <1>6

\* Every path that books a close satisfies the lemma on drafts.
LEMMA BookInv ==
  ASSUME LInv, (\E s \in Closer : BookClose(s)) \/ PaperExit \/ BookVanished
  PROVE  LInv'
<1>0. Qty \in Nat /\ Monitor \in Session
  BY LedgerAssumption DEF Session
<1>1. ASSUME NEW s \in Closer, BookClose(s)
      PROVE  LInv'
  <2>1. amount[s] \in Nat /\ s \in Session
    BY <1>0 DEF LInv, LedgerTypeOK, Session
  <2>2. live => exposure = 0 \/ amount[s] < copy[s].rem
    BY <1>1 DEF LInv, FlatInv, BookClose, ReadyToBook
  <2> QED BY <1>1, <2>1, <2>2, DraftInv DEF BookClose, ReadyToBook
<1>2. CASE PaperExit
  <2>1. PICK q \in 1..Qty : BookWith(Monitor, copy[Monitor], q)
    BY <1>2 DEF PaperExit
  <2> QED BY <1>0, <1>2, <2>1, DraftInv DEF PaperExit, Reconciling
<1>3. CASE BookVanished
  BY <1>0, <1>3, DraftInv DEF BookVanished, Reconciling
<1> QED BY <1>1, <1>2, <1>3

\* The size the exchange reports is taken over with the status left open.
LEMMA SyncInv ==
  ASSUME LInv, SyncExposure
  PROVE  LInv'
<1> USE LedgerAssumption DEF LInv, SyncExposure, Reconciling
<1>1. LedgerTypeOK'
  BY DEF LedgerTypeOK, Row, Session
<1>2. StageInv' /\ BooksInv'
  BY DEF StageInv, BooksInv, Session, Closer
<1>3. FlatInv'
  BY DEF FlatInv
<1> QED BY <1>1, <1>2, <1>3

\* The end of a transaction keeps the invariant.
LEMMA EndInv ==
  ASSUME LInv, NEW s \in Session, Commit(s) \/ Abort(s)
  PROVE  LInv'
<1> USE LedgerAssumption DEF LInv
<1>0. /\ lock = s /\ lock' = NoOne /\ pend' = 0
      /\ \E p \in {"idle", "done"} :
            at' = [at EXCEPT ![s] = p] /\ (s = Monitor => p = "idle")
      /\ UNCHANGED <<live, copy, draft, amount, exposure>>
  BY DEF Commit, Abort, Goto, After
<1>1. copy[s] \in Row /\ draft \in Row /\ row \in Row /\ copy[s].status = "open"
  BY DEF LedgerTypeOK, StageInv
<1>2. /\ row' \in Row
      /\ row'.status = "closed" => row.status = "closed" \/ draft.status = "closed"
      /\ \/ row'.rem = row.rem /\ (pend = 0 \/ draft.rem = copy[s].rem)
         \/ row'.rem = draft.rem
         \/ UNCHANGED <<row, booked>>
      /\ booked' = booked + pend \/ UNCHANGED <<row, booked>>
  BY <1>1, WrittenFacts DEF Commit, Abort
<1>3. /\ booked \in Nat /\ pend \in 0..Qty /\ draft.rem \in 0..Qty
      /\ row.rem \in 0..Qty /\ row'.rem \in 0..Qty
      /\ \A t \in Session : copy[t].rem \in 0..Qty
  BY <1>2 DEF LedgerTypeOK, Row
<1>4. booked' \in Nat /\ booked' >= booked
  BY <1>2, <1>3
<1>5. faults' \in 0..MaxFaults
  BY DEF Commit, Abort, LedgerTypeOK
<1>6. LedgerTypeOK'
  BY <1>0, <1>2, <1>4, <1>5 DEF LedgerTypeOK, Stage
<1>7. StageInv'
  BY <1>0 DEF StageInv, LedgerTypeOK, Session, Closer
<1>8. BooksInv'
  <2> SUFFICES ASSUME ~live PROVE BooksInv'
    BY <1>0 DEF BooksInv
  <2>1. pend + draft.rem = copy[s].rem /\ booked + copy[s].rem >= Qty
        /\ booked + row.rem >= Qty
    BY <1>0 DEF BooksInv
  <2>2. booked' + row'.rem >= Qty
    BY <1>2, <1>3, <2>1
  <2>3. \A t \in Session : booked' + copy[t].rem >= Qty
    BY <1>3, <1>4 DEF BooksInv
  <2> QED BY <1>0, <2>2, <2>3 DEF BooksInv
<1>9. FlatInv'
  BY <1>0, <1>2 DEF FlatInv, LedgerTypeOK, Session, Closer
<1> QED BY <1>6, <1>7, <1>8, <1>9

\* The steps that only end a session, or shrink the exposure.
LEMMA QuietInv ==
  ASSUME LInv,
         \/ \E s \in Closer : LockRefused(s)
         \/ SkipClosed \/ KeepWaiting \/ ProtectionFills
  PROVE  LInv'
<1> USE LedgerAssumption DEF LInv
<1>1. ASSUME NEW s \in Closer, LockRefused(s)
      PROVE  LInv'
  <2>1. /\ s # Monitor /\ lock # s /\ at' = [at EXCEPT ![s] = "done"]
        /\ UNCHANGED <<live, row, lock, copy, draft, amount, pend, booked,
                       exposure, faults>>
    BY <1>1 DEF LockRefused, Goto, Closer
  <2>2. LedgerTypeOK' /\ StageInv'
    BY <2>1 DEF LedgerTypeOK, StageInv, Stage, Session, Closer
  <2>3. BooksInv' /\ FlatInv'
    BY <2>1 DEF BooksInv, FlatInv, LedgerTypeOK, Session
  <2> QED BY <2>2, <2>3
<1>2. CASE SkipClosed \/ KeepWaiting
  <2>1. /\ lock = NoOne /\ at' = [at EXCEPT ![Monitor] = "idle"]
        /\ UNCHANGED <<live, row, lock, copy, draft, amount, pend, booked,
                       exposure, faults>>
    BY <1>2 DEF SkipClosed, KeepWaiting, Reconciling, Goto
  <2>2. LedgerTypeOK' /\ StageInv'
    BY <2>1 DEF LedgerTypeOK, StageInv, Stage, Session, Closer
  <2>3. BooksInv' /\ FlatInv'
    BY <2>1 DEF BooksInv, FlatInv, LedgerTypeOK, Session, Closer
  <2> QED BY <2>2, <2>3
<1>3. CASE ProtectionFills
  <2>1. /\ exposure \in 0..Qty /\ exposure' \in 0..exposure
        /\ exposure > 0
        /\ UNCHANGED <<live, row, lock, at, copy, draft, amount, pend, booked,
                       faults>>
    BY <1>3 DEF ProtectionFills, LedgerTypeOK
  <2>2. LedgerTypeOK' /\ StageInv' /\ BooksInv'
    BY <2>1 DEF LedgerTypeOK, StageInv, BooksInv
  <2>3. FlatInv'
    BY <2>1 DEF FlatInv
  <2> QED BY <2>2, <2>3
<1> QED BY <1>1, <1>2, <1>3

\* Every step keeps the invariant.
LEMMA LedgerStepInv == LInv /\ [LedgerNext]_ledgerVars => LInv'
<1> SUFFICES ASSUME LInv, [LedgerNext]_ledgerVars PROVE LInv'
  OBVIOUS
<1>1. CASE UNCHANGED ledgerVars
  BY <1>1 DEF ledgerVars, LInv, LedgerTypeOK, StageInv, BooksInv, FlatInv
<1>2. CASE \E s \in Closer : CloserStep(s)
  BY <1>2, ReadInv, SendInv, BookInv, QuietInv DEF CloserStep, Session
<1>3. CASE MonitorStep
  BY <1>3, ReadInv, BookInv, SyncInv, QuietInv DEF MonitorStep, Session
<1>4. CASE (\E s \in Session : Commit(s) \/ Abort(s)) \/ ProtectionFills
  BY <1>4, EndInv, QuietInv
<1> QED BY <1>1, <1>2, <1>3, <1>4 DEF LedgerNext

\* The invariant holds in every reachable state of the ledger.
LEMMA LedgerInvHolds == LedgerSpec => []LInv
  BY LedgerInitInv, LedgerStepInv, PTL DEF LedgerSpec

-----------------------------------------------------------------------------
\* The row, the sessions' copies and the draft are well typed: a close never
\* takes more than a session believes to be left.
THEOREM LedgerTypeCorrect == LedgerSpec => []LedgerTypeOK
<1>1. LInv => LedgerTypeOK
  BY DEF LInv
<1> QED BY <1>1, LedgerInvHolds, PTL

\* No part of a paper position drops out of the books, whatever sessions
\* overlap on it (close_position_async and its callers).
THEOREM NothingUnbookedHolds == LedgerSpec => []NothingUnbooked
<1>1. LInv => NothingUnbooked
  BY DEF LInv, BooksInv, NothingUnbooked
<1> QED BY <1>1, LedgerInvHolds, PTL

\* A live position is closed in the ledger only when the exchange is flat.
THEOREM ClosedMeansFlatHolds == LedgerSpec => []ClosedMeansFlat
<1>1. LInv => ClosedMeansFlat
  BY DEF LInv, FlatInv, ClosedMeansFlat
<1> QED BY <1>1, LedgerInvHolds, PTL

\* No late writer reopens a closed position (the columns a flush writes).
THEOREM NeverReopenedHolds == LedgerSpec => NeverReopened
<1>1. LInv /\ [LedgerNext]_ledgerVars =>
          [row.status = "closed" => row'.status = "closed"]_ledgerVars
  <2> SUFFICES ASSUME LInv, LedgerNext, row.status = "closed"
               PROVE  row'.status = "closed"
    OBVIOUS
  <2>1. ASSUME NEW s \in Session, Commit(s)
        PROVE  row'.status = "closed"
    <3>1. copy[s] \in Row /\ draft \in Row /\ row \in Row
          /\ copy[s].status = "open"
      BY DEF LInv, LedgerTypeOK, StageInv
    <3>2. draft.status \in {"open", "closed"}
      BY <3>1 DEF Row
    <3>3. row'.status =
            IF draft.status = copy[s].status THEN row.status ELSE draft.status
      BY <2>1, <3>1, WrittenFacts DEF Commit
    <3> QED BY <3>1, <3>2, <3>3
  <2>2. CASE UNCHANGED row
    BY <2>2
  <2>3. (\E s \in Session : Commit(s)) \/ UNCHANGED row
    BY DEF LedgerNext, CloserStep, MonitorStep, ReadPosition, CloseConfirmed,
           CloseNotConfirmed, FindPosition, BookClose, LockRefused, Abort,
           StartCycle, SkipClosed, PaperExit, SyncExposure, BookVanished,
           KeepWaiting, ProtectionFills
  <2> QED BY <2>1, <2>2, <2>3
<1> QED BY <1>1, LedgerInvHolds, PTL DEF LedgerSpec, NeverReopened
=============================================================================
