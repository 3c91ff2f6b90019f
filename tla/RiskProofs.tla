----------------------------- MODULE RiskProofs -----------------------------
(***************************************************************************)
(* The loss tracker and the drawdown breaker (AccountRisk), for any        *)
(* processes, calls, windows, clocks and outages, and any number of kept   *)
(* samples.                                                                *)
(***************************************************************************)
EXTENDS AccountRisk, FiniteSets, SequenceTheorems, WellFoundedInduction, TLAPS

-----------------------------------------------------------------------------
(***************************************************************************)
(* Types.                                                                  *)
(***************************************************************************)
\* A set of numbers that is not empty has a least one.
LEMMA LeastNumber ==
  ASSUME NEW S \in SUBSET Nat, S # {}
  PROVE  \E m \in S : \A k \in S : m <= k
<1> DEFINE R == OpToRel(<, Nat)
<1>1. PICK m \in S : \A k \in S : ~ (<<k, m>> \in R)
  <2>1. IsWellFoundedOn(R, Nat)
    BY NatLessThanWellFounded
  <2> HIDE DEF R
  <2> QED BY <2>1, WFMin
<1>2. \A k \in S : ~(k < m)
  BY <1>1 DEF OpToRel
<1>3. \A k \in S : k \in Nat
  OBVIOUS
<1> QED BY <1>2, <1>3

LEMMA WindowFacts ==
    /\ Longest \in Window /\ Longest \in Nat
    /\ \A h \in Window : h \in Nat /\ h <= Longest
    /\ MaxSamples \in Nat \ {0}
  BY RiskAssumption DEF Longest

\* What the processes keep in one cell.
LEMMA KeepsFacts ==
  ASSUME RiskTypeOK, NEW j \in Job, NEW c \in Cell, NEW v, Keeps(j, c, v)
  PROVE  /\ DOMAIN memory' = Proc
         /\ \A p \in Proc : DOMAIN memory'[p] = Cell
         /\ memory'[host[j]][c] = v
         /\ \A p \in Proc, d \in Cell :
              p # host[j] \/ d # c => memory'[p][d] = memory[p][d]
  BY DEF RiskTypeOK, Keeps, CellValue

\* Where the samples begin that are recent.
LEMMA RecentFacts ==
  ASSUME NEW q \in Seq(Sample), q # <<>>, q[Len(q)].time = now, now \in Nat
  PROVE  \E i \in 1..Len(q) :
           /\ Recent(q) = SubSeq(q, i, Len(q)) /\ Within(q[i], Longest)
           /\ \A k \in 1..(i - 1) : ~Within(q[k], Longest)
<1> DEFINE P == {i \in DOMAIN q : Within(q[i], Longest)}
           Found(i) == Within(q[i], Longest) /\ \A k \in 1..(i - 1) : ~Within(q[k], Longest)
<1>1. DOMAIN q = 1..Len(q) /\ Len(q) \in Nat /\ Len(q) # 0
  OBVIOUS
<1>2. Len(q) \in P
  BY <1>1, WindowFacts DEF Within
<1>3. PICK m \in P : \A k \in P : m <= k
  <2>1. P \in SUBSET Nat /\ P # {}
    BY <1>1, <1>2
  <2> HIDE DEF P
  <2> QED BY <2>1, LeastNumber
<1>4. m \in DOMAIN q /\ Found(m)
  BY <1>1, <1>3
<1> HIDE DEF Found
<1>5. PICK i \in DOMAIN q : i = (CHOOSE n \in DOMAIN q : Found(n)) /\ Found(i)
  BY <1>4
<1>6. Recent(q) = SubSeq(q, i, Len(q))
  BY <1>5 DEF Recent, Found
<1> QED BY <1>1, <1>5, <1>6 DEF Found

\* The samples a call leaves are the last of those it found and its own.
LEMMA WithSampleFacts ==
  ASSUME NEW q \in Seq(Sample), NEW e \in Equity, now \in 0..MaxTime
  PROVE  LET all == Append(q, [equity |-> e, time |-> now])
         IN  \E m \in 1..Len(all) :
               /\ Newest(Recent(all)) = SubSeq(all, m, Len(all))
               /\ Len(all) - m < MaxSamples
               /\ \A k \in 1..(m - 1) : k <= Len(all) - MaxSamples \/ ~Within(all[k], Longest)
<1> DEFINE all == Append(q, [equity |-> e, time |-> now])
<1>1. /\ all \in Seq(Sample) /\ Len(all) = Len(q) + 1 /\ Len(all) \in Nat
      /\ all[Len(all)].time = now
  BY DEF Sample
<1>2. PICK i \in 1..Len(all) :
        /\ Recent(all) = SubSeq(all, i, Len(all))
        /\ \A k \in 1..(i - 1) : ~Within(all[k], Longest)
  <2>1. all # <<>> /\ now \in Nat
    BY <1>1, RiskAssumption
  <2> HIDE DEF all
  <2> QED BY <1>1, <2>1, RecentFacts
<1> DEFINE r == SubSeq(all, i, Len(all))
           n == Len(all) - i + 1
<1> HIDE DEF all
<1>3. r \in Seq(Sample) /\ Len(r) = n /\ \A k \in 1..n : r[k] = all[i + k - 1]
  BY <1>1, SubSeqProperties
<1>4. CASE n < MaxSamples
  <2>1. Newest(r) = SubSeq(r, 1, Len(r))
    BY <1>3, <1>4 DEF Newest
  <2>2. Newest(r) = r
    BY <1>3, <2>1
  <2>3. Len(all) - i < MaxSamples
    BY <1>1, <1>2, <1>4, WindowFacts
  <2> QED BY <1>2, <2>2, <2>3 DEF all
<1>5. CASE ~(n < MaxSamples)
  <2> DEFINE m == i + n - MaxSamples
  <2>1. m \in 1..Len(all) /\ Len(all) - m < MaxSamples
    BY <1>1, <1>2, <1>5, WindowFacts
  <2>2. Newest(r) = SubSeq(r, n - MaxSamples + 1, n)
    BY <1>3, <1>5 DEF Newest
  <2>3. SubSeq(r, n - MaxSamples + 1, n) = SubSeq(all, m, Len(all))
    BY <1>1, <1>2, <1>3, <1>5, WindowFacts, SubSeqOfSubSeq
  <2>4. Newest(Recent(all)) = SubSeq(all, m, Len(all))
    BY <1>2, <1>3, <2>2, <2>3
  <2>5. \A k \in 1..(m - 1) : k <= Len(all) - MaxSamples
    BY <1>1, <1>2, <1>5, WindowFacts
  <2> HIDE DEF m
  <2> QED BY <2>1, <2>4, <2>5 DEF all
<1> QED BY <1>4, <1>5 DEF all

LEMMA CellFacts ==
    /\ Cell = {"losses", "peaks"} /\ "losses" # "peaks"
    /\ \A l \in Loss : CellOf(l) = "losses" /\ l \notin Sampler /\ l \in Writer
    /\ \A s \in Sampler : CellOf(s) = "peaks" /\ s \notin Loss /\ s \in Writer
    /\ \A j \in Writer : CellOf(j) \in Cell /\ j \in Job /\ j \notin Check /\ j # NoValue
    /\ \A s \in Check : s \in Job /\ s \notin Writer /\ s \notin Loss /\ s \notin Sampler
  BY RiskAssumption DEF Cell, CellOf, Writer, Job

LEMMA RiskTypesStart == RiskInit => RiskTypeOK
<1> SUFFICES ASSUME RiskInit PROVE RiskTypeOK
  OBVIOUS
<1>1. \A c \in Cell : Nothing[c] = NoValue
  BY DEF Nothing
<1>2. CellValue(Nothing)
  BY <1>1, CellFacts DEF Nothing, CellValue
<1>3. 0 \in Days /\ 0 \in 0..MaxTime /\ 0 \in 0..MaxOutages
  BY RiskAssumption DEF Days
<1>4. \A p \in Proc : memory[p] = Nothing
  BY DEF RiskInit
<1>5. where \in [Job -> Where] /\ \A j \in Job : ValueOK(j)
  BY DEF RiskInit, Where, ValueOK
<1>6. owner \in [Cell -> Writer \cup {NoValue}]
  BY DEF RiskInit, Nothing
<1>7. due \in [Check -> SUBSET (Loss \X Days)] /\ today \in [Check -> Days]
  BY <1>3 DEF RiskInit
<1>8. /\ DOMAIN value = Job /\ DOMAIN memory = Proc /\ hashes \in BOOLEAN
      /\ host \in [Job -> Proc] /\ ended = {} /\ sampled = <<>>
      /\ now = 0 /\ day = 0 /\ outages = 0 /\ forgot = {}
      /\ hashed = Nothing /\ file = Nothing
  BY DEF RiskInit
<1> QED BY <1>2, <1>3, <1>4, <1>5, <1>6, <1>7, <1>8 DEF RiskTypeOK

\* A step of job j moves nothing else in where and value.
LEMMA MovesFacts ==
  ASSUME RiskTypeOK, NEW j \in Job, NEW w \in Where, Goes(j, w)
  PROVE  /\ where' \in [Job -> Where] /\ where'[j] = w
         /\ \A i \in Job : i # j => where'[i] = where[i]
  BY DEF RiskTypeOK, Goes

LEMMA OthersValued ==
  ASSUME RiskTypeOK, NEW j \in Job, ValueOK(j)',
         \A i \in Job : i # j => where'[i] = where[i] /\ value'[i] = value[i]
  PROVE  \A i \in Job : ValueOK(i)'
  BY DEF RiskTypeOK, ValueOK

LEMMA BeforeTyped ==
  ASSUME RiskTypeOK, NEW ok \in BOOLEAN
  PROVE  /\ Get("losses", ok) \in Tracker \cup {NoValue}
         /\ \A l \in Loss : Before(l, ok) \in Tracker \cup {NoValue}
         /\ \A s \in Sampler : Before(s, ok) \in Seq(Sample) \cup {NoValue}
<1>1. \A c \in Cell : Get(c, ok) = NoValue \/ Get(c, ok) = hashed[c]
  BY DEF Get
<1>2. \A j \in Job : host[j] \in Proc
  BY DEF RiskTypeOK
<1>3. Get("losses", ok) \in Tracker \cup {NoValue} /\ Get("peaks", ok) \in Seq(Sample) \cup {NoValue}
  BY <1>1, CellFacts DEF RiskTypeOK, CellValue
<1>4. \A l \in Loss : Before(l, ok) \in Tracker \cup {NoValue}
  BY <1>2, <1>3, CellFacts DEF Before, RiskTypeOK, CellValue
<1>5. \A s \in Sampler : Before(s, ok) \in Seq(Sample) \cup {NoValue}
  BY <1>2, <1>3, CellFacts DEF Before, RiskTypeOK, CellValue
<1> QED BY <1>3, <1>4, <1>5

LEMMA WithLossTyped ==
  ASSUME day \in Days, NEW t \in Tracker \cup {NoValue}, NEW l \in Loss
  PROVE  /\ WithLoss(t, l) \in Tracker /\ WithLoss(t, l).date = day
         /\ WithLoss(t, l).total = (IF t = NoValue THEN {} ELSE t.total) \cup {l}
         /\ WithLoss(t, l).daily =
              (IF t = NoValue THEN {} ELSE IF t.date = day THEN t.daily ELSE {}) \cup {l}
  BY NoValueAssumption DEF WithLoss, Tracker

LEMMA WithSampleTyped ==
  ASSUME NEW q \in Seq(Sample) \cup {NoValue}, NEW e \in Equity, now \in 0..MaxTime
  PROVE  WithSample(q, e) \in Seq(Sample)
<1> DEFINE r == IF q = NoValue THEN <<>> ELSE q
           all == Append(r, [equity |-> e, time |-> now])
<1>1. r \in Seq(Sample)
  OBVIOUS
<1>2. all \in Seq(Sample) /\ Len(all) \in Nat
  BY <1>1 DEF Sample
<1> HIDE DEF r
<1>3. PICK m \in 1..Len(all) : Newest(Recent(all)) = SubSeq(all, m, Len(all))
  BY <1>1, WithSampleFacts
<1>4. \A i \in m..Len(all) : all[i] \in Sample
  BY <1>2
<1> HIDE DEF all
<1>5. SubSeq(all, m, Len(all)) \in Seq(Sample)
  BY <1>2, <1>4, SubSeqProperties
<1> QED BY <1>3, <1>5 DEF WithSample, all, r

\* The cells of every process stay typed when one is written.
LEMMA KeepsTyped ==
  ASSUME RiskTypeOK, NEW j \in Job, NEW c \in Cell, NEW v, Keeps(j, c, v),
         v \in (IF c = "losses" THEN Tracker ELSE Seq(Sample)) \cup {NoValue}
  PROVE  DOMAIN memory' = Proc /\ \A p \in Proc : CellValue(memory'[p])
<1>1. host[j] \in Proc /\ \A p \in Proc : CellValue(memory[p])
  BY DEF RiskTypeOK
<1>2. ASSUME NEW p \in Proc, NEW d \in Cell
      PROVE  memory'[p][d] = memory[p][d] \/ (d = c /\ memory'[p][d] = v)
  <2>1. /\ memory'[host[j]][c] = v
        /\ \A i \in Proc, k \in Cell : i # host[j] \/ k # c => memory'[i][k] = memory[i][k]
    BY KeepsFacts
  <2>2. CASE p = host[j] /\ d = c
    BY <2>1, <2>2
  <2>3. CASE p # host[j] \/ d # c
    BY <2>1, <2>3
  <2> QED BY <2>2, <2>3
<1> QED BY <1>1, <1>2, KeepsFacts, CellFacts DEF CellValue

LEMMA OutageFacts ==
  ASSUME RiskTypeOK, Outage
  PROVE  outages' \in 0..MaxOutages /\ outages' # 0
<1>1. MaxOutages \in Nat
  BY RiskAssumption
<1> QED BY <1>1 DEF Outage, RiskTypeOK

LEMMA ReadTypes ==
  ASSUME RiskTypeOK, NEW s \in Check, StartRead(s) \/ ReadLosses(s) \/ EndRead(s)
  PROVE  RiskTypeOK'
<1>1. s \in Job /\ s \notin Writer /\ DOMAIN value = Job
  BY CellFacts DEF RiskTypeOK
<1>2. CASE StartRead(s)
  <2>1. Goes(s, "started") /\ ended \in SUBSET (Loss \X Days) /\ day \in Days
    BY <1>2 DEF StartRead, RiskTypeOK
  <2>2. /\ where' \in [Job -> Where] /\ where'[s] = "started"
        /\ \A i \in Job : i # s => where'[i] = where[i]
    BY <1>1, <2>1, MovesFacts DEF Where
  <2>3. \A i \in Job : ValueOK(i)'
    BY <1>2, <2>2 DEF StartRead, ValueOK, RiskTypeOK
  <2>4. due' \in [Check -> SUBSET (Loss \X Days)] /\ today' \in [Check -> Days]
    BY <1>2, <2>1 DEF StartRead, RiskTypeOK
  <2> QED BY <1>2, <2>2, <2>3, <2>4 DEF StartRead, RiskTypeOK, CellValue
<1>3. CASE ReadLosses(s)
  <2>1. PICK ok \in BOOLEAN :
          /\ IF ok THEN UNCHANGED outages ELSE hashes /\ Outage
          /\ value' = [value EXCEPT ![s] = Get("losses", ok)]
          /\ Goes(s, IF ok THEN "reading" ELSE "blind")
    BY <1>3 DEF ReadLosses
  <2>2. outages' \in 0..MaxOutages
    BY <2>1, OutageFacts DEF RiskTypeOK
  <2>3. /\ where' \in [Job -> Where] /\ where'[s] \in {"reading", "blind"}
        /\ \A i \in Job : i # s => where'[i] = where[i]
    BY <1>1, <2>1, MovesFacts DEF Where
  <2>4. /\ value'[s] \in Tracker \cup {NoValue} /\ DOMAIN value' = Job
        /\ \A i \in Job : i # s => value'[i] = value[i]
    BY <1>1, <2>1, BeforeTyped
  <2>5. \A i \in Job : ValueOK(i)'
    BY <1>1, <2>3, <2>4, OthersValued DEF ValueOK
  <2> QED BY <1>3, <2>2, <2>3, <2>4, <2>5 DEF ReadLosses, RiskTypeOK, CellValue
<1>4. CASE EndRead(s)
  <2>1. Goes(s, "checked") /\ Keeps(s, "losses", Latest(s))
    BY <1>4 DEF EndRead
  <2>2. /\ where' \in [Job -> Where] /\ where'[s] = "checked"
        /\ \A i \in Job : i # s => where'[i] = where[i]
    BY <1>1, <2>1, MovesFacts DEF Where
  <2>3. DOMAIN value' = Job /\ \A i \in Job : i # s => value'[i] = value[i]
    BY <1>1, <1>4 DEF EndRead
  <2>4. \A i \in Job : ValueOK(i)'
    BY <1>1, <2>2, <2>3, OthersValued DEF ValueOK
  <2>5. Latest(s) \in Tracker \cup {NoValue}
    <3>1. memory[host[s]]["losses"] \in Tracker \cup {NoValue}
      BY <1>1, CellFacts DEF RiskTypeOK, CellValue
    <3>2. value[s] # NoValue /\ where[s] = "reading" => value[s] \in Tracker
      BY <1>1, CellFacts DEF RiskTypeOK, ValueOK, Writer
    <3>3. where[s] = "blind" => value[s] \in Tracker \cup {NoValue}
      BY <1>1, CellFacts DEF RiskTypeOK, ValueOK
    <3> QED BY <1>4, <3>1, <3>2, <3>3 DEF Latest, EndRead
  <2>6. DOMAIN memory' = Proc /\ \A p \in Proc : CellValue(memory'[p])
    BY <1>1, <2>1, <2>5, KeepsTyped, CellFacts
  <2> QED BY <1>4, <2>2, <2>3, <2>4, <2>6 DEF EndRead, RiskTypeOK, CellValue
<1> QED BY <1>2, <1>3, <1>4

LEMMA LockTypes ==
  ASSUME RiskTypeOK, NEW j \in Writer, Lock(j) \/ LockRefused(j)
  PROVE  RiskTypeOK'
<1>1. j \in Job /\ CellOf(j) \in Cell
  BY CellFacts
<1>2. /\ where' \in [Job -> Where] /\ where'[j] \in {"locked", "failed"}
      /\ \A i \in Job : i # j => where'[i] = where[i]
  BY <1>1, MovesFacts DEF Lock, LockRefused, Where
<1>3. \A i \in Job : ValueOK(i)'
  BY <1>1, <1>2, OthersValued DEF Lock, LockRefused, ValueOK
<1>4. owner' \in [Cell -> Writer \cup {NoValue}]
  BY <1>1 DEF Lock, LockRefused, RiskTypeOK
<1>5. outages' \in 0..MaxOutages
  <2>1. UNCHANGED outages \/ Outage
    BY DEF Lock, LockRefused
  <2> QED BY <2>1, OutageFacts DEF RiskTypeOK
<1> QED BY <1>2, <1>3, <1>4, <1>5 DEF Lock, LockRefused, RiskTypeOK, CellValue

\* What a call finds and leaves, read or not.
UpdateWith(j, ok) ==
    \/ /\ j \in Loss
       /\ value' = [value EXCEPT ![j] = WithLoss(Before(j, ok), j)]
       /\ Keeps(j, "losses", value'[j])
    \/ /\ j \in Sampler
       /\ \E e \in Equity : LET q == WithSample(Before(j, ok), e) IN
            /\ Keeps(j, "peaks", q)
            /\ value' = [value EXCEPT ![j] =
                           [equity |-> e, time |-> now, blocked |-> Falling(q, e)]]

LEMMA UpdateFacts ==
  ASSUME RiskTypeOK, NEW j \in Writer, Update(j)
  PROVE  \E ok \in BOOLEAN :
           /\ Remembers(CellOf(j), ok) /\ UpdateWith(j, ok)
           /\ \/ /\ j \in Loss
                 /\ Before(j, ok) \in Tracker \cup {NoValue}
                 /\ value'[j] = WithLoss(Before(j, ok), j) /\ value'[j] \in Tracker
                 /\ Keeps(j, "losses", value'[j])
                 /\ memory'[host[j]]["losses"] = value'[j]
                 /\ file' = [file EXCEPT !["losses"] = value'[j]]
              \/ /\ j \in Sampler
                 /\ \E e \in Equity : LET q == WithSample(Before(j, ok), e) IN
                      /\ Before(j, ok) \in Seq(Sample) \cup {NoValue} /\ q \in Seq(Sample)
                      /\ value'[j] = [equity |-> e, time |-> now, blocked |-> Falling(q, e)]
                      /\ Keeps(j, "peaks", q)
                      /\ memory'[host[j]]["peaks"] = q
                      /\ file' = [file EXCEPT !["peaks"] = q]
           /\ where[j] = "locked"
           /\ where' \in [Job -> Where] /\ where'[j] = "updated"
           /\ DOMAIN value' = Job
           /\ \A i \in Job : i # j => where'[i] = where[i] /\ value'[i] = value[i]
           /\ UNCHANGED <<hashes, hashed, owner, host, ended, sampled, due, today, now, day>>
<1>1. j \in Job /\ CellOf(j) \in Cell /\ DOMAIN value = Job /\ host[j] \in Proc
  BY CellFacts DEF RiskTypeOK
<1>2. PICK ok \in BOOLEAN : Remembers(CellOf(j), ok) /\ UpdateWith(j, ok)
  BY DEF Update, UpdateWith
<1>3. /\ where[j] = "locked" /\ where' \in [Job -> Where] /\ where'[j] = "updated"
      /\ \A i \in Job : i # j => where'[i] = where[i]
  BY <1>1, MovesFacts DEF Update, Where
<1>4. DOMAIN value' = Job /\ \A i \in Job : i # j => value'[i] = value[i]
  BY <1>1, <1>2 DEF UpdateWith
<1>5. /\ file' = [file EXCEPT ![CellOf(j)] = memory'[host[j]][CellOf(j)]]
      /\ UNCHANGED <<hashes, hashed, owner, host, ended, sampled, due, today, now, day>>
  BY DEF Update
<1>6. CASE j \in Loss
  <2>1. value' = [value EXCEPT ![j] = WithLoss(Before(j, ok), j)] /\ Keeps(j, "losses", value'[j])
    BY <1>2, <1>6, CellFacts DEF UpdateWith
  <2>2. Before(j, ok) \in Tracker \cup {NoValue} /\ day \in Days
    BY <1>6, BeforeTyped DEF RiskTypeOK
  <2>3. value'[j] = WithLoss(Before(j, ok), j) /\ value'[j] \in Tracker
    BY <1>1, <1>6, <2>1, <2>2, WithLossTyped
  <2>4. memory'[host[j]]["losses"] = value'[j]
    BY <1>1, <2>1, KeepsFacts, CellFacts
  <2> QED BY <1>2, <1>3, <1>4, <1>5, <1>6, <2>1, <2>2, <2>3, <2>4, CellFacts
<1>7. CASE j \in Sampler
  <2>1. PICK e \in Equity :
          /\ Keeps(j, "peaks", WithSample(Before(j, ok), e))
          /\ value' = [value EXCEPT ![j] = [equity |-> e, time |-> now,
                                   blocked |-> Falling(WithSample(Before(j, ok), e), e)]]
    BY <1>2, <1>7, CellFacts DEF UpdateWith
  <2> DEFINE q == WithSample(Before(j, ok), e)
  <2>2. Before(j, ok) \in Seq(Sample) \cup {NoValue} /\ now \in 0..MaxTime
    BY <1>7, BeforeTyped DEF RiskTypeOK
  <2>3. q \in Seq(Sample)
    BY <2>2, WithSampleTyped
  <2>4. value'[j] = [equity |-> e, time |-> now, blocked |-> Falling(q, e)]
    BY <1>1, <2>1
  <2>5. memory'[host[j]]["peaks"] = q
    BY <1>1, <2>1, KeepsFacts, CellFacts
  <2>6. file' = [file EXCEPT !["peaks"] = q]
    BY <1>5, <1>7, <2>5, CellFacts
  <2>7. \E f \in Equity : LET p == WithSample(Before(j, ok), f) IN
           /\ Before(j, ok) \in Seq(Sample) \cup {NoValue} /\ p \in Seq(Sample)
           /\ value'[j] = [equity |-> f, time |-> now, blocked |-> Falling(p, f)]
           /\ Keeps(j, "peaks", p)
           /\ memory'[host[j]]["peaks"] = p
           /\ file' = [file EXCEPT !["peaks"] = p]
    BY <2>1, <2>2, <2>3, <2>4, <2>5, <2>6, Zenon
  <2> HIDE DEF q
  <2> QED BY <1>2, <1>3, <1>4, <1>5, <1>7, <2>7, Zenon
<1> QED BY <1>6, <1>7 DEF Writer

LEMMA WriteTyped ==
  ASSUME NEW f, CellValue(f), NEW c \in Cell, NEW v,
         v \in (IF c = "losses" THEN Tracker ELSE Seq(Sample)) \cup {NoValue}
  PROVE  CellValue([f EXCEPT ![c] = v])
  BY CellFacts DEF CellValue

LEMMA UpdateTypes ==
  ASSUME RiskTypeOK, NEW j \in Writer, Update(j)
  PROVE  RiskTypeOK'
<1>1. j \in Job /\ CellOf(j) \in Cell /\ j \notin Check
  BY CellFacts
<1>2. PICK ok \in BOOLEAN :
           /\ Remembers(CellOf(j), ok)
           /\ \/ /\ j \in Loss
                 /\ value'[j] \in Tracker
                 /\ Keeps(j, "losses", value'[j])
                 /\ file' = [file EXCEPT !["losses"] = value'[j]]
              \/ /\ j \in Sampler
                 /\ \E e \in Equity : LET q == WithSample(Before(j, ok), e) IN
                      /\ q \in Seq(Sample)
                      /\ value'[j] = [equity |-> e, time |-> now, blocked |-> Falling(q, e)]
                      /\ Keeps(j, "peaks", q)
                      /\ file' = [file EXCEPT !["peaks"] = q]
           /\ where' \in [Job -> Where] /\ where'[j] = "updated"
           /\ DOMAIN value' = Job
           /\ \A i \in Job : i # j => where'[i] = where[i] /\ value'[i] = value[i]
           /\ UNCHANGED <<hashes, hashed, owner, host, ended, sampled, due, today, now, day>>
  BY UpdateFacts
<1>3. /\ DOMAIN memory' = Proc /\ \A p \in Proc : CellValue(memory'[p])
      /\ CellValue(file') /\ ValueOK(j)'
  <2>1. CASE j \in Loss
    <3>1. value'[j] \in Tracker /\ Keeps(j, "losses", value'[j])
          /\ file' = [file EXCEPT !["losses"] = value'[j]]
      BY <1>2, <2>1, CellFacts
    <3>2. CellValue(file') /\ DOMAIN memory' = Proc /\ \A p \in Proc : CellValue(memory'[p])
      BY <1>1, <3>1, KeepsTyped, WriteTyped, CellFacts DEF RiskTypeOK
    <3> QED BY <2>1, <3>1, <3>2 DEF ValueOK
  <2>2. CASE j \in Sampler
    <3>1. PICK e \in Equity :
            /\ WithSample(Before(j, ok), e) \in Seq(Sample)
            /\ value'[j] = [equity |-> e, time |-> now,
                            blocked |-> Falling(WithSample(Before(j, ok), e), e)]
            /\ Keeps(j, "peaks", WithSample(Before(j, ok), e))
            /\ file' = [file EXCEPT !["peaks"] = WithSample(Before(j, ok), e)]
      BY <1>2, <2>2, CellFacts
    <3>2. CellValue(file') /\ DOMAIN memory' = Proc /\ \A p \in Proc : CellValue(memory'[p])
      BY <1>1, <3>1, KeepsTyped, WriteTyped, CellFacts DEF RiskTypeOK
    <3>3. Falling(WithSample(Before(j, ok), e), e) \in BOOLEAN /\ now \in 0..MaxTime
      BY DEF Falling, RiskTypeOK
    <3> QED BY <2>2, <3>1, <3>2, <3>3 DEF ValueOK
  <2> QED BY <2>1, <2>2 DEF Writer
<1>4. \A i \in Job : ValueOK(i)'
  BY <1>1, <1>2, <1>3, OthersValued
<1>5. outages' \in 0..MaxOutages /\ forgot' \subseteq Cell
  BY <1>1, <1>2, OutageFacts DEF Remembers, RiskTypeOK
<1> QED BY <1>2, <1>3, <1>4, <1>5 DEF RiskTypeOK, CellValue

\* What a call writes, if it does.
Written(j) == IF j \in Loss THEN value[j] ELSE memory[host[j]]["peaks"]

LEMMA StoreFacts ==
  ASSUME RiskTypeOK, NEW j \in Writer, Store(j)
  PROVE  \E ok \in BOOLEAN :
           /\ Remembers(CellOf(j), ok)
           /\ hashed' = IF hashes /\ ok THEN [hashed EXCEPT ![CellOf(j)] = Written(j)] ELSE hashed
           /\ where[j] = "updated"
           /\ where' \in [Job -> Where] /\ where'[j] = "stored"
           /\ \A i \in Job : i # j => where'[i] = where[i]
           /\ UNCHANGED <<hashes, memory, file, owner, host, value, ended, sampled, due,
                          today, now, day>>
<1>1. j \in Job
  BY CellFacts
<1>2. Goes(j, "stored") /\ "stored" \in Where
  BY DEF Store, Where
<1> QED BY <1>1, <1>2, MovesFacts DEF Store, Written

LEMMA StoreTypes ==
  ASSUME RiskTypeOK, NEW j \in Writer, Store(j)
  PROVE  RiskTypeOK'
<1>1. j \in Job /\ CellOf(j) \in Cell /\ host[j] \in Proc
  BY CellFacts DEF RiskTypeOK
<1>2. PICK ok \in BOOLEAN :
           /\ Remembers(CellOf(j), ok)
           /\ hashed' = IF hashes /\ ok THEN [hashed EXCEPT ![CellOf(j)] = Written(j)] ELSE hashed
           /\ where[j] = "updated"
           /\ where' \in [Job -> Where] /\ where'[j] = "stored"
           /\ \A i \in Job : i # j => where'[i] = where[i]
           /\ UNCHANGED <<hashes, memory, file, owner, host, value, ended, sampled, due,
                          today, now, day>>
  BY StoreFacts
<1>3. outages' \in 0..MaxOutages /\ forgot' \subseteq Cell
  BY <1>1, <1>2, OutageFacts DEF Remembers, RiskTypeOK
<1>4. CellValue(hashed')
  <2>1. CASE j \in Loss
    <3>1. value[j] \in Tracker
      BY <1>1, <1>2, <2>1, CellFacts DEF RiskTypeOK, ValueOK
    <3> QED BY <1>1, <1>2, <2>1, <3>1, WriteTyped, CellFacts DEF Written, RiskTypeOK
  <2>2. CASE j \in Sampler
    <3>1. memory[host[j]]["peaks"] \in Seq(Sample) \cup {NoValue}
      BY <1>1 DEF RiskTypeOK, CellValue
    <3> QED BY <1>1, <1>2, <2>2, <3>1, WriteTyped, CellFacts DEF Written, RiskTypeOK
  <2> QED BY <2>1, <2>2 DEF Writer
<1>5. ValueOK(j)'
  BY <1>1, <1>2 DEF ValueOK, RiskTypeOK
<1>6. \A i \in Job : ValueOK(i)'
  BY <1>1, <1>2, <1>5, OthersValued
<1> QED BY <1>2, <1>3, <1>4, <1>6 DEF RiskTypeOK

LEMMA ReleaseTypes ==
  ASSUME RiskTypeOK, NEW j \in Writer, Release(j)
  PROVE  RiskTypeOK'
<1>1. j \in Job /\ CellOf(j) \in Cell /\ where[j] = "stored"
  BY CellFacts DEF Release
<1>2. /\ where' \in [Job -> Where] /\ where'[j] \in {"done", "failed"}
      /\ \A i \in Job : i # j => where'[i] = where[i]
  <2>1. \E w \in {"done", "failed"} : Goes(j, w)
    BY DEF Release
  <2> QED BY <1>1, <2>1, MovesFacts DEF Where
<1>3. \A i \in Job : ValueOK(i)'
  BY <1>1, <1>2, OthersValued DEF Release, ValueOK
<1>4. owner' \in [Cell -> Writer \cup {NoValue}]
  BY <1>1 DEF Release, RiskTypeOK
<1>5. ended' \in SUBSET (Loss \X Days) /\ sampled' \in Seq(Sample)
  <2>1. CASE j \in Loss
    <3>1. value[j].date \in Days
      BY <1>1, <2>1, CellFacts DEF RiskTypeOK, ValueOK, Tracker
    <3> QED BY <2>1, <3>1 DEF Release, RiskTypeOK
  <2>2. CASE j \in Sampler
    <3>1. value[j] \in [equity : Equity, time : 0..MaxTime, blocked : BOOLEAN]
      BY <1>1, <2>2, CellFacts DEF RiskTypeOK, ValueOK
    <3>2. [equity |-> value[j].equity, time |-> value[j].time] \in Sample
      BY <3>1 DEF Sample
    <3>3. UNCHANGED ended
          /\ sampled' = Append(sampled, [equity |-> value[j].equity, time |-> value[j].time])
      BY <2>2, CellFacts DEF Release
    <3> QED BY <3>2, <3>3 DEF RiskTypeOK
  <2> QED BY <2>1, <2>2 DEF Writer
<1> QED BY <1>2, <1>3, <1>4, <1>5 DEF Release, RiskTypeOK, CellValue

LEMMA FaultTypes ==
  ASSUME RiskTypeOK,
         \/ \E c \in Cell : LoseKey(c) \/ ExpireKey(c)
         \/ \E p \in Proc : Die(p)
         \/ Clock
  PROVE  RiskTypeOK'
<1>1. ASSUME NEW c \in Cell, LoseKey(c) \/ ExpireKey(c) PROVE RiskTypeOK'
  <2>1. owner' \in [Cell -> Writer \cup {NoValue}] /\ forgot' \subseteq Cell
    BY <1>1 DEF LoseKey, ExpireKey, RiskTypeOK
  <2>2. outages' \in 0..MaxOutages
    BY <1>1, OutageFacts DEF LoseKey, ExpireKey, RiskTypeOK
  <2>3. \A j \in Job : ValueOK(j)'
    BY <1>1 DEF LoseKey, ExpireKey, ValueOK, RiskTypeOK
  <2> QED BY <1>1, <2>1, <2>2, <2>3 DEF LoseKey, ExpireKey, RiskTypeOK, CellValue
<1>2. ASSUME NEW p \in Proc, Die(p) PROVE RiskTypeOK'
  <2>1. owner' \in [Cell -> Writer \cup {NoValue}] /\ forgot' \subseteq Cell
    BY <1>2, CellFacts DEF Die, RiskTypeOK
  <2>2. outages' \in 0..MaxOutages
    BY <1>2, OutageFacts DEF Die
  <2>3. where' \in [Job -> Where] /\ \A j \in Job : where'[j] \in {where[j], "failed"}
    BY <1>2 DEF Die, RiskTypeOK, Where
  <2>4. \A j \in Job : ValueOK(j)'
    BY <1>2, <2>3 DEF Die, ValueOK, RiskTypeOK
  <2>5. DOMAIN memory' = Proc /\ \A i \in Proc : CellValue(memory'[i])
    <3>1. /\ DOMAIN Nothing = Cell /\ \A c \in Cell : Nothing[c] = NoValue
          /\ file["losses"] \in Tracker \cup {NoValue}
      BY DEF Nothing, RiskTypeOK, CellValue
    <3>2. CellValue([Nothing EXCEPT !["losses"] = file["losses"]])
      BY <3>1, CellFacts DEF CellValue
    <3> QED BY <1>2, <3>2 DEF Die, RiskTypeOK
  <2> QED BY <1>2, <2>1, <2>2, <2>3, <2>4, <2>5 DEF Die, RiskTypeOK
<1>3. CASE Clock
  <2>1. now' \in 0..MaxTime /\ day' \in Days
    BY <1>3, RiskAssumption DEF Clock, RiskTypeOK, Days
  <2>2. \A j \in Job : ValueOK(j)'
    BY <1>3 DEF Clock, ValueOK, RiskTypeOK
  <2> QED BY <1>3, <2>1, <2>2 DEF Clock, RiskTypeOK, CellValue
<1> QED BY <1>1, <1>2, <1>3

\* What the processes, the hash and the files hold, the locks and the places of
\* the calls have the values they are declared with: a tracker or a list of at
\* most that many samples wherever an outage, a restart or the expiry of a key
\* leaves the calls of record_position_pnl, check_account_loss_limits and
\* check_drawdown_circuit_breaker (core/account_risk.py).
THEOREM RiskTypeCorrect == RiskSpec => []RiskTypeOK
<1>1. RiskTypeOK /\ [RiskNext]_riskVars => RiskTypeOK'
  <2>1. RiskTypeOK /\ RiskNext => RiskTypeOK'
    BY ReadTypes, LockTypes, UpdateTypes, StoreTypes, ReleaseTypes, FaultTypes DEF RiskNext
  <2>2. RiskTypeOK /\ UNCHANGED riskVars => RiskTypeOK'
    BY DEF riskVars, RiskTypeOK, CellValue, ValueOK
  <2> QED BY <2>1, <2>2
<1> QED BY <1>1, RiskTypesStart, PTL DEF RiskSpec
-----------------------------------------------------------------------------
(***************************************************************************)
(* Who owns the locks.  Of the calls between their lock and its release    *)
(* each is the owner, as long as nothing was lost that is kept in forgot.  *)
(***************************************************************************)
InUse == {"locked", "updated", "stored"}

Owners == \A c \in Cell : owner[c] # NoValue =>
              CellOf(owner[c]) = c /\ where[owner[c]] \in InUse \cup {"failed"}
Owned == \A j \in Writer :
             where[j] \in InUse /\ CellOf(j) \notin forgot => owner[CellOf(j)] = j
OneHost == ~hashes => \A i, j \in Job : host[i] = host[j]
LocksRight == Owners /\ Owned /\ OneHost

LEMMA OneInUse ==
  ASSUME LocksRight, NEW i \in Writer, NEW j \in Writer, CellOf(i) = CellOf(j),
         where[i] \in InUse, where[j] \in InUse, CellOf(i) \notin forgot
  PROVE  i = j
  BY DEF LocksRight, Owned

LEMMA LocksStart == RiskInit => LocksRight
  BY CellFacts DEF RiskInit, LocksRight, Owners, Owned, OneHost, InUse, Nothing

\* What a step of one call leaves alone when it keeps its lock or has none.
LEMMA LocksOfOthers ==
  ASSUME RiskTypeOK, LocksRight, NEW j \in Job, UNCHANGED <<owner, hashes, host>>,
         forgot \subseteq forgot', where' \in [Job -> Where],
         \A i \in Job : i # j => where'[i] = where[i],
         j \in Writer => \/ where[j] \in InUse /\ where'[j] \in InUse
                         \/ where[j] = "new" /\ where'[j] = "failed"
  PROVE  LocksRight'
<1>1. \A c \in Cell : owner[c] \in Writer \cup {NoValue}
  BY DEF RiskTypeOK
<1>2. Owners'
  BY <1>1, CellFacts DEF LocksRight, Owners, InUse, CellOf
<1>3. Owned'
  BY CellFacts DEF LocksRight, Owned, InUse, CellOf
<1> QED BY <1>2, <1>3 DEF LocksRight, OneHost

LEMMA LocksStep ==
  ASSUME RiskTypeOK, LocksRight, RiskTypeOK', RiskNext
  PROVE  LocksRight'
<1>1. ASSUME NEW s \in Check, StartRead(s) \/ ReadLosses(s) \/ EndRead(s)
      PROVE  LocksRight'
  <2>1. \E w \in Where : Goes(s, w)
    BY <1>1 DEF StartRead, ReadLosses, EndRead, Where
  <2>2. /\ s \in Job /\ where' \in [Job -> Where]
        /\ \A i \in Job : i # s => where'[i] = where[i]
    BY <2>1, MovesFacts, CellFacts
  <2>3. UNCHANGED <<owner, hashes, host, forgot>>
    BY <1>1 DEF StartRead, ReadLosses, EndRead
  <2> QED BY <2>2, <2>3, LocksOfOthers, CellFacts
<1>2. ASSUME NEW j \in Writer, Lock(j)
      PROVE  LocksRight'
  <2>1. /\ j \in Job /\ CellOf(j) \in Cell /\ j # NoValue /\ DOMAIN owner = Cell
        /\ \A c \in Cell : owner[c] \in Writer \cup {NoValue}
    BY CellFacts DEF RiskTypeOK
  <2>2. /\ where' \in [Job -> Where] /\ where'[j] = "locked"
        /\ \A i \in Job : i # j => where'[i] = where[i]
    BY <1>2, <2>1, MovesFacts DEF Lock, Where
  <2>3. /\ owner'[CellOf(j)] = j /\ \A c \in Cell : c # CellOf(j) => owner'[c] = owner[c]
        /\ owner[CellOf(j)] = NoValue /\ where[j] = "new"
        /\ UNCHANGED <<hashes, host, forgot>>
    BY <1>2, <2>1 DEF Lock, Free
  <2>4. Owners'
    BY <2>1, <2>2, <2>3, CellFacts DEF LocksRight, Owners, InUse, CellOf
  <2>5. Owned'
    BY <2>1, <2>2, <2>3, CellFacts DEF LocksRight, Owned, InUse, CellOf
  <2> QED BY <2>3, <2>4, <2>5 DEF LocksRight, OneHost
<1>3. ASSUME NEW j \in Writer, LockRefused(j) \/ Update(j) \/ Store(j)
      PROVE  LocksRight'
  <2>1. \E w \in Where : /\ Goes(j, w)
                         /\ \/ where[j] = "new" /\ w = "failed"
                            \/ where[j] \in InUse /\ w \in InUse
    BY <1>3 DEF LockRefused, Update, Store, Where, InUse
  <2>2. UNCHANGED <<owner, hashes, host>> /\ forgot \subseteq forgot'
    BY <1>3 DEF LockRefused, Update, Store, Remembers
  <2> QED BY <2>1, <2>2, MovesFacts, LocksOfOthers, CellFacts
<1>4. ASSUME NEW j \in Writer, Release(j)
      PROVE  LocksRight'
  <2>1. /\ j \in Job /\ CellOf(j) \in Cell /\ j # NoValue /\ DOMAIN owner = Cell
        /\ \A c \in Cell : owner[c] \in Writer \cup {NoValue}
    BY CellFacts DEF RiskTypeOK
  <2>2. \E w \in {"done", "failed"} : Goes(j, w)
    BY <1>4 DEF Release
  <2>3. /\ where' \in [Job -> Where] /\ where'[j] \in {"done", "failed"}
        /\ \A i \in Job : i # j => where'[i] = where[i]
    BY <2>1, <2>2, MovesFacts DEF Where
  <2>4. /\ \A c \in Cell : owner'[c] = IF c = CellOf(j) /\ owner[c] = j THEN NoValue ELSE owner[c]
        /\ UNCHANGED <<hashes, host, forgot>>
    BY <1>4, <2>1 DEF Release
  <2>5. Owners'
    BY <2>1, <2>3, <2>4, CellFacts DEF LocksRight, Owners, InUse, CellOf
  <2>6. Owned'
    BY <2>1, <2>3, <2>4, CellFacts DEF LocksRight, Owned, InUse, CellOf
  <2> QED BY <2>4, <2>5, <2>6 DEF LocksRight, OneHost
<1>5. ASSUME NEW c \in Cell, LoseKey(c) \/ ExpireKey(c)
      PROVE  LocksRight'
  <2>1. /\ \A d \in Cell : owner'[d] = IF d = c THEN NoValue ELSE owner[d]
        /\ UNCHANGED <<hashes, host, where>> /\ forgot \subseteq forgot'
        /\ c \in forgot' \/ where[owner[c]] = "failed"
        /\ \A d \in Cell : owner[d] \in Writer \cup {NoValue}
    BY <1>5 DEF LoseKey, ExpireKey, RiskTypeOK
  <2>2. Owners'
    BY <2>1, CellFacts DEF LocksRight, Owners, InUse, CellOf
  <2>3. Owned'
    BY <2>1, CellFacts DEF LocksRight, Owned, InUse, CellOf
  <2> QED BY <2>1, <2>2, <2>3 DEF LocksRight, OneHost
<1>6. ASSUME NEW p \in Proc, Die(p)
      PROVE  LocksRight'
  <2>1. /\ \A j \in Job : where'[j] = IF host[j] = p /\ where[j] \notin {"new", "checked", "done"}
                                        THEN "failed" ELSE where[j]
        /\ \A c \in Cell : owner'[c] = IF ~hashes /\ owner[c] # NoValue /\ host[owner[c]] = p
                                         THEN NoValue ELSE owner[c]
        /\ UNCHANGED <<hashes, host>> /\ forgot \subseteq forgot'
        /\ \A c \in Cell : owner[c] \in Writer \cup {NoValue}
    BY <1>6 DEF Die, RiskTypeOK
  <2>2. Owners'
    BY <2>1, CellFacts DEF LocksRight, Owners, InUse, CellOf
  <2>3. Owned'
    <3> SUFFICES ASSUME NEW j \in Writer, where'[j] \in InUse, CellOf(j) \notin forgot'
                 PROVE  owner'[CellOf(j)] = j
      BY DEF Owned, CellOf
    <3>1. where[j] \in InUse /\ host[j] # p
      BY <2>1, CellFacts DEF InUse
    <3>2. owner[CellOf(j)] = j
      BY <2>1, <3>1 DEF LocksRight, Owned
    <3> QED BY <2>1, <3>1, <3>2, CellFacts
  <2> QED BY <2>1, <2>2, <2>3 DEF LocksRight, OneHost
<1>7. CASE Clock
  BY <1>7 DEF Clock, LocksRight, Owners, Owned, OneHost, CellOf
<1> QED BY <1>1, <1>2, <1>3, <1>4, <1>5, <1>6, <1>7 DEF RiskNext
-----------------------------------------------------------------------------
(***************************************************************************)
(* The losses.  No entry is of a day to come; a loss whose call has ended  *)
(* is in the entry a check reads.                                          *)
(***************************************************************************)
UpToDate(t) == t # NoValue => t.date <= day
Dated ==
    /\ UpToDate(hashed["losses"]) /\ UpToDate(file["losses"])
    /\ \A p \in Proc : UpToDate(memory[p]["losses"])
    /\ \A l \in Loss : where[l] \in {"updated", "stored"} => value[l].date <= day
    /\ \A s \in Check : where[s] \in {"reading", "blind"} => UpToDate(value[s])
    /\ \A s \in Check : where[s] = "blind" \/ (where[s] = "reading" /\ ~hashes) =>
           value[s] = NoValue

LEMMA ValueFacts ==
  ASSUME RiskTypeOK
  PROVE  /\ \A l \in Loss : where[l] \in {"updated", "stored"} => value[l] \in Tracker
         /\ \A j \in Sampler : where[j] \in {"updated", "stored"} =>
              value[j] \in [equity : Equity, time : 0..MaxTime, blocked : BOOLEAN]
         /\ \A s \in Check : where[s] \in {"reading", "blind"} => value[s] \in Tracker \cup {NoValue}
<1>1. \A j \in Job : ValueOK(j)
  BY DEF RiskTypeOK
<1>2. \A l \in Loss : where[l] \in {"updated", "stored"} => value[l] \in Tracker
  BY <1>1, CellFacts DEF ValueOK
<1>3. \A j \in Sampler : where[j] \in {"updated", "stored"} =>
              value[j] \in [equity : Equity, time : 0..MaxTime, blocked : BOOLEAN]
  BY <1>1, CellFacts DEF ValueOK
<1>4. \A s \in Check : where[s] \in {"reading", "blind"} => value[s] \in Tracker \cup {NoValue}
  BY <1>1, CellFacts DEF ValueOK
<1> QED BY <1>2, <1>3, <1>4

\* What an update does to the losses.
LEMMA LossesUpdated ==
  ASSUME RiskTypeOK, NEW j \in Writer, Update(j)
  PROVE  \E ok \in BOOLEAN :
           /\ ok \/ (CellOf(j) \in forgot' /\ Outage)
           /\ j \in Loss =>
                /\ Before(j, ok) \in Tracker \cup {NoValue}
                /\ value'[j] = WithLoss(Before(j, ok), j) /\ value'[j] \in Tracker
                /\ file'["losses"] = value'[j]
                /\ \A p \in Proc : memory'[p]["losses"] =
                                     IF p = host[j] THEN value'[j] ELSE memory[p]["losses"]
           /\ j \notin Loss =>
                /\ file'["losses"] = file["losses"]
                /\ \A p \in Proc : memory'[p]["losses"] = memory[p]["losses"]
<1>1. j \in Job /\ host[j] \in Proc /\ DOMAIN file = Cell
  BY CellFacts DEF RiskTypeOK, CellValue
<1>2. PICK ok \in BOOLEAN :
           /\ Remembers(CellOf(j), ok)
           /\ \/ /\ j \in Loss
                 /\ Before(j, ok) \in Tracker \cup {NoValue}
                 /\ value'[j] = WithLoss(Before(j, ok), j) /\ value'[j] \in Tracker
                 /\ Keeps(j, "losses", value'[j])
                 /\ file' = [file EXCEPT !["losses"] = value'[j]]
              \/ /\ j \in Sampler
                 /\ \E e \in Equity : LET q == WithSample(Before(j, ok), e) IN
                      /\ q \in Seq(Sample)
                      /\ value'[j] = [equity |-> e, time |-> now, blocked |-> Falling(q, e)]
                      /\ Keeps(j, "peaks", q)
                      /\ file' = [file EXCEPT !["peaks"] = q]
  BY UpdateFacts
<1>3. ok \/ (CellOf(j) \in forgot' /\ Outage)
  BY <1>2 DEF Remembers
<1>4. CASE j \in Loss
  <2>1. /\ Before(j, ok) \in Tracker \cup {NoValue}
        /\ value'[j] = WithLoss(Before(j, ok), j) /\ value'[j] \in Tracker
        /\ Keeps(j, "losses", value'[j])
        /\ file' = [file EXCEPT !["losses"] = value'[j]]
    BY <1>2, <1>4, CellFacts
  <2>2. /\ memory'[host[j]]["losses"] = value'[j]
        /\ \A p \in Proc : p # host[j] => memory'[p]["losses"] = memory[p]["losses"]
    BY <1>1, <2>1, KeepsFacts, CellFacts
  <2> QED BY <1>1, <1>3, <1>4, <2>1, <2>2, CellFacts
<1>5. CASE j \in Sampler
  <2>1. PICK e \in Equity : LET q == WithSample(Before(j, ok), e) IN
                      /\ Keeps(j, "peaks", q)
                      /\ file' = [file EXCEPT !["peaks"] = q]
    BY <1>2, <1>5, CellFacts
  <2>2. \A p \in Proc : memory'[p]["losses"] = memory[p]["losses"]
    BY <1>1, <2>1, KeepsFacts, CellFacts
  <2> QED BY <1>1, <1>3, <1>5, <2>1, <2>2, CellFacts
<1> QED BY <1>4, <1>5 DEF Writer

\* What a store does to them.
LEMMA LossesStored ==
  ASSUME RiskTypeOK, NEW j \in Writer, Store(j)
  PROVE  \E ok \in BOOLEAN :
           /\ ok \/ (CellOf(j) \in forgot' /\ Outage)
           /\ hashed'["losses"] = IF j \in Loss /\ hashes /\ ok THEN value[j]
                                  ELSE hashed["losses"]
  <1>1. DOMAIN hashed = Cell
    BY DEF RiskTypeOK, CellValue
  <1>2. PICK ok \in BOOLEAN :
          /\ Remembers(CellOf(j), ok)
          /\ hashed' = IF hashes /\ ok THEN [hashed EXCEPT ![CellOf(j)] = Written(j)] ELSE hashed
    BY StoreFacts
  <1>3. ok \/ (CellOf(j) \in forgot' /\ Outage)
    BY <1>2 DEF Remembers
  <1> QED BY <1>1, <1>2, <1>3, CellFacts DEF Written, Writer

\* What the end of a read does to them.
LEMMA LossesLooked ==
  ASSUME RiskTypeOK, NEW s \in Check, EndRead(s)
  PROVE  /\ where[s] \in {"reading", "blind"} /\ where'[s] = "checked"
         /\ \A p \in Proc : memory'[p]["losses"] =
                              IF p = host[s] THEN Latest(s) ELSE memory[p]["losses"]
         /\ \A p \in Proc : memory'[p]["peaks"] = memory[p]["peaks"]
         /\ \A i \in Job : i # s => where'[i] = where[i] /\ value'[i] = value[i]
         /\ value'[s] = Sees(Latest(s), today[s])
         /\ UNCHANGED <<hashes, hashed, file, owner, host, ended, sampled, due, today, now,
                        day, outages, forgot>>
<1>1. s \in Job /\ host[s] \in Proc /\ DOMAIN value = Job
  BY CellFacts DEF RiskTypeOK
<1>2. Goes(s, "checked") /\ Keeps(s, "losses", Latest(s)) /\ where[s] \in {"reading", "blind"}
      /\ value' = [value EXCEPT ![s] = Sees(Latest(s), today[s])]
      /\ UNCHANGED <<hashes, hashed, file, owner, host, ended, sampled, due, today, now,
                     day, outages, forgot>>
  BY DEF EndRead
<1>3. where'[s] = "checked" /\ \A i \in Job : i # s => where'[i] = where[i]
  BY <1>1, <1>2, MovesFacts DEF Where
<1>4. /\ memory'[host[s]]["losses"] = Latest(s)
      /\ \A p \in Proc, d \in Cell : p # host[s] \/ d # "losses" => memory'[p][d] = memory[p][d]
  BY <1>1, <1>2, KeepsFacts, CellFacts
<1> QED BY <1>1, <1>2, <1>3, <1>4, CellFacts

\* What the start of a read does.
LEMMA LossesSought ==
  ASSUME RiskTypeOK, NEW s \in Check, ReadLosses(s)
  PROVE  \E ok \in BOOLEAN :
           /\ ok \/ (hashes /\ Outage)
           /\ where[s] = "started"
           /\ where'[s] = (IF ok THEN "reading" ELSE "blind")
           /\ value'[s] = IF hashes /\ ok THEN hashed["losses"] ELSE NoValue
           /\ \A i \in Job : i # s => where'[i] = where[i] /\ value'[i] = value[i]
           /\ UNCHANGED <<hashes, hashed, memory, file, owner, host, ended, sampled, due,
                          today, now, day, forgot>>
<1>1. s \in Job /\ DOMAIN value = Job /\ where \in [Job -> Where]
  BY CellFacts DEF RiskTypeOK
<1>2. PICK ok \in BOOLEAN :
          /\ IF ok THEN UNCHANGED outages ELSE hashes /\ Outage
          /\ value' = [value EXCEPT ![s] = Get("losses", ok)]
          /\ Goes(s, IF ok THEN "reading" ELSE "blind")
  BY DEF ReadLosses
<1>3. /\ where' = [where EXCEPT ![s] = IF ok THEN "reading" ELSE "blind"]
      /\ Get("losses", ok) = IF hashes /\ ok THEN hashed["losses"] ELSE NoValue
  BY <1>2 DEF Goes, Get
<1> QED BY <1>1, <1>2, <1>3 DEF ReadLosses

LEMMA DatedStart == RiskInit => Dated
<1> SUFFICES ASSUME RiskInit PROVE Dated
  OBVIOUS
<1>1. /\ hashed["losses"] = NoValue /\ file["losses"] = NoValue
      /\ \A p \in Proc : memory[p]["losses"] = NoValue
  BY CellFacts DEF RiskInit, Nothing
<1>2. \A j \in Job : where[j] \in {"new", "done"}
  BY DEF RiskInit
<1> QED BY <1>1, <1>2, CellFacts DEF Dated, UpToDate, Writer

LEMMA DatedStep ==
  ASSUME RiskTypeOK, Dated, RiskTypeOK', RiskNext
  PROVE  Dated'
<1>0. \A j \in Job : host[j] \in Proc
  BY DEF RiskTypeOK
<1>1. ASSUME NEW s \in Check, StartRead(s)
      PROVE  Dated'
  <2>1. /\ \A i \in Job : where'[i] \in {where[i], "started"}
        /\ UNCHANGED <<hashes, hashed, memory, file, value, day>>
    BY <1>1 DEF StartRead, Goes, RiskTypeOK
  <2> QED BY <2>1, CellFacts DEF Dated, UpToDate
<1>2. ASSUME NEW s \in Check, ReadLosses(s)
      PROVE  Dated'
  <2>1. /\ where'[s] \in {"reading", "blind"}
        /\ value'[s] = IF hashes /\ where'[s] = "reading" THEN hashed["losses"] ELSE NoValue
        /\ \A i \in Job : i # s => where'[i] = where[i] /\ value'[i] = value[i]
        /\ UNCHANGED <<hashes, hashed, memory, file, day>>
    BY <1>2, LossesSought
  <2> QED BY <2>1, CellFacts DEF Dated, UpToDate
<1>3. ASSUME NEW s \in Check, EndRead(s)
      PROVE  Dated'
  <2>1. /\ where[s] \in {"reading", "blind"} /\ where'[s] = "checked"
        /\ \A p \in Proc : memory'[p]["losses"] \in {Latest(s), memory[p]["losses"]}
        /\ \A i \in Job : i # s => where'[i] = where[i] /\ value'[i] = value[i]
        /\ UNCHANGED <<hashes, hashed, file, day>>
    BY <1>3, LossesLooked
  <2>2. UpToDate(Latest(s))
    BY <1>0, <2>1, CellFacts DEF Dated, UpToDate, Latest
  <2> QED BY <2>1, <2>2, CellFacts DEF Dated, UpToDate
<1>4. ASSUME NEW j \in Writer, Lock(j) \/ LockRefused(j)
      PROVE  Dated'
  <2>1. /\ \A i \in Job : where'[i] \in {where[i], "locked", "failed"}
        /\ UNCHANGED <<hashes, hashed, memory, file, value, day>>
    BY <1>4 DEF Lock, LockRefused, Goes, RiskTypeOK
  <2> QED BY <2>1, CellFacts DEF Dated, UpToDate
<1>5. ASSUME NEW j \in Writer, Update(j)
      PROVE  Dated'
  <2>1. PICK ok \in BOOLEAN :
           /\ j \in Loss =>
                /\ Before(j, ok) \in Tracker \cup {NoValue}
                /\ value'[j] = WithLoss(Before(j, ok), j)
                /\ file'["losses"] = value'[j]
                /\ \A p \in Proc : memory'[p]["losses"] =
                                     IF p = host[j] THEN value'[j] ELSE memory[p]["losses"]
           /\ j \notin Loss =>
                /\ file'["losses"] = file["losses"]
                /\ \A p \in Proc : memory'[p]["losses"] = memory[p]["losses"]
    BY <1>5, LossesUpdated
  <2>2. /\ \A i \in Job : i # j => where'[i] = where[i] /\ value'[i] = value[i]
        /\ where'[j] = "updated" /\ UNCHANGED <<hashes, hashed, day>>
    BY <1>5, UpdateFacts
  <2>3. day \in Days /\ Days \subseteq Int
    BY RiskAssumption DEF RiskTypeOK, Days
  <2>4. j \in Loss => value'[j].date = day
    BY <2>1, <2>3, WithLossTyped
  <2>5. UpToDate(hashed["losses"])' /\ UpToDate(file["losses"])'
    BY <2>1, <2>2, <2>3, <2>4 DEF Dated, UpToDate
  <2>6. \A p \in Proc : UpToDate(memory[p]["losses"])'
    BY <2>1, <2>2, <2>3, <2>4 DEF Dated, UpToDate
  <2>7. \A l \in Loss : where'[l] \in {"updated", "stored"} => value'[l].date <= day
    BY <2>2, <2>3, <2>4, CellFacts DEF Dated
  <2> QED BY <2>2, <2>5, <2>6, <2>7, CellFacts DEF Dated, UpToDate
<1>6. ASSUME NEW j \in Writer, Store(j)
      PROVE  Dated'
  <2>1. hashed'["losses"] = hashed["losses"] \/ (j \in Loss /\ hashed'["losses"] = value[j])
    BY <1>6, LossesStored
  <2>2. /\ \A i \in Job : i # j => where'[i] = where[i]
        /\ where[j] = "updated" /\ where'[j] = "stored"
        /\ UNCHANGED <<hashes, memory, file, value, day>>
    BY <1>6, StoreFacts
  <2> QED BY <2>1, <2>2, CellFacts DEF Dated, UpToDate
<1>7. ASSUME NEW j \in Writer, Release(j)
      PROVE  Dated'
  <2>1. /\ \A i \in Job : where'[i] \in {where[i], "done", "failed"}
        /\ UNCHANGED <<hashes, hashed, memory, file, value, day>>
    BY <1>7 DEF Release, Goes, RiskTypeOK
  <2> QED BY <2>1, CellFacts DEF Dated, UpToDate
<1>8. ASSUME NEW c \in Cell, LoseKey(c) \/ ExpireKey(c)
      PROVE  Dated'
  BY <1>8 DEF LoseKey, ExpireKey, Dated, UpToDate
<1>9. ASSUME NEW p \in Proc, Die(p)
      PROVE  Dated'
  <2>1. /\ \A i \in Job : where'[i] \in {where[i], "failed"}
        /\ \A i \in Proc : memory'[i]["losses"] \in {memory[i]["losses"], file["losses"]}
        /\ UNCHANGED <<hashes, hashed, file, value, day>>
    BY <1>9, CellFacts DEF Die, RiskTypeOK, Nothing
  <2> QED BY <2>1, CellFacts DEF Dated, UpToDate
<1>10. CASE Clock
  <2>1. day \in Int /\ day' \in Int /\ day <= day'
        /\ UNCHANGED <<hashes, hashed, memory, file, where, value>>
    BY <1>10, RiskAssumption DEF Clock, RiskTypeOK, Days
  <2>2. \A t \in Tracker \cup {NoValue} : UpToDate(t) => UpToDate(t)'
    <3>1. \A t \in Tracker : t.date \in Int
      BY RiskAssumption DEF Tracker, Days
    <3> QED BY <2>1, <3>1 DEF UpToDate
  <2>3. /\ hashed["losses"] \in Tracker \cup {NoValue} /\ file["losses"] \in Tracker \cup {NoValue}
        /\ \A p \in Proc : memory[p]["losses"] \in Tracker \cup {NoValue}
        /\ \A l \in Loss : where[l] \in {"updated", "stored"} =>
             value[l] \in Tracker /\ value[l].date \in Int
        /\ \A s \in Check : where[s] \in {"reading", "blind"} => value[s] \in Tracker \cup {NoValue}
    <3>1. \A t \in Tracker : t.date \in Int
      BY RiskAssumption DEF Tracker, Days
    <3>2. /\ hashed["losses"] \in Tracker \cup {NoValue} /\ file["losses"] \in Tracker \cup {NoValue}
          /\ \A p \in Proc : memory[p]["losses"] \in Tracker \cup {NoValue}
      BY DEF RiskTypeOK, CellValue
    <3> QED BY <3>1, <3>2, ValueFacts
  <2>4. /\ UpToDate(hashed["losses"])' /\ UpToDate(file["losses"])'
        /\ \A p \in Proc : UpToDate(memory[p]["losses"])'
        /\ \A s \in Check : where[s] \in {"reading", "blind"} => UpToDate(value[s])'
    BY <2>1, <2>2, <2>3 DEF Dated, UpToDate
  <2> QED BY <2>1, <2>3, <2>4 DEF Dated
<1> QED
  BY <1>1, <1>2, <1>3, <1>4, <1>5, <1>6, <1>7, <1>8, <1>9, <1>10 DEF RiskNext

\* An entry that holds the losses of E, those of its day in both sums.
Has(t, E) ==
    E # {} => /\ t # NoValue
              /\ \A x \in E :
                   /\ x[1] \in t.total /\ x[2] <= t.date
                   /\ x[2] = t.date => x[1] \in t.daily
Own(l) == {<<l, value[l].date>>}

SharedLosses ==
    hashes =>
      /\ Has(hashed["losses"], ended)
      /\ \A l \in Loss : where[l] = "updated" => Has(value[l], ended \cup Own(l))
      /\ \A l \in Loss : where[l] = "stored" => Has(hashed["losses"], ended \cup Own(l))
OwnLosses ==
    ~hashes =>
      \A j \in Job : \A t \in {memory[host[j]]["losses"], file["losses"]} :
        /\ Has(t, ended)
        /\ \A l \in Loss : where[l] \in {"updated", "stored"} => Has(t, ended \cup Own(l))
LossesDue ==
    \A s \in Check :
      /\ where[s] \in {"started", "reading"} => due[s] \subseteq ended
      /\ where[s] = "reading" /\ hashes => Has(value[s], due[s])
LossesKept == "losses" \notin forgot => SharedLosses /\ OwnLosses /\ LossesDue

LEMMA HasLess ==
  ASSUME NEW t, NEW E, NEW F \in SUBSET E, Has(t, E)
  PROVE  Has(t, F)
  BY DEF Has

LEMMA HasMore ==
  ASSUME RiskTypeOK, NEW t \in Tracker \cup {NoValue}, NEW l \in Loss,
         Has(t, ended), UpToDate(t)
  PROVE  Has(WithLoss(t, l), ended \cup {<<l, day>>})
<1> DEFINE u == WithLoss(t, l)
<1>1. day \in Days /\ Days \subseteq Int /\ ended \in SUBSET (Loss \X Days)
  BY RiskAssumption DEF RiskTypeOK, Days
<1>2. /\ u # NoValue /\ u.date = day /\ l \in u.total /\ l \in u.daily
      /\ t # NoValue => t.total \subseteq u.total
      /\ t # NoValue /\ t.date = day => t.daily \subseteq u.daily
  BY <1>1, WithLossTyped, NoValueAssumption
<1>3. t # NoValue => t.date \in Int
  BY <1>1 DEF Tracker
<1> HIDE DEF u
<1>4. \A x \in ended :
        /\ x[1] \in u.total /\ x[2] <= u.date
        /\ x[2] = u.date => x[1] \in u.daily
  <2> SUFFICES ASSUME NEW x \in ended
               PROVE  /\ x[1] \in u.total /\ x[2] <= u.date
                      /\ x[2] = u.date => x[1] \in u.daily
    OBVIOUS
  <2>1. /\ t # NoValue /\ x[1] \in t.total /\ x[2] <= t.date
        /\ x[2] = t.date => x[1] \in t.daily
    BY DEF Has
  <2>2. x[2] \in Int /\ t.date <= day
    BY <1>1, <2>1 DEF UpToDate
  <2> QED BY <1>1, <1>2, <1>3, <2>1, <2>2
<1> QED BY <1>1, <1>2, <1>4 DEF Has, u

LEMMA LossesKeptStart == RiskInit => LossesKept
<1> SUFFICES ASSUME RiskInit PROVE LossesKept
  OBVIOUS
<1>1. ended = {} /\ \A j \in Job : where[j] \in {"new", "done"}
  BY DEF RiskInit
<1> QED BY <1>1, CellFacts DEF LossesKept, SharedLosses, OwnLosses, LossesDue, Has

LEMMA LossesKeptUpdate ==
  ASSUME RiskTypeOK, LocksRight, LocksRight', Dated, LossesKept, NEW j \in Writer, Update(j)
  PROVE  LossesKept'
<1> SUFFICES ASSUME "losses" \notin forgot' PROVE (SharedLosses /\ OwnLosses /\ LossesDue)'
  BY DEF LossesKept
<1>1. PICK ok \in BOOLEAN :
           /\ ok \/ (CellOf(j) \in forgot' /\ Outage)
           /\ j \in Loss =>
                /\ Before(j, ok) \in Tracker \cup {NoValue}
                /\ value'[j] = WithLoss(Before(j, ok), j) /\ value'[j] \in Tracker
                /\ file'["losses"] = value'[j]
                /\ \A p \in Proc : memory'[p]["losses"] =
                                     IF p = host[j] THEN value'[j] ELSE memory[p]["losses"]
           /\ j \notin Loss =>
                /\ file'["losses"] = file["losses"]
                /\ \A p \in Proc : memory'[p]["losses"] = memory[p]["losses"]
  BY LossesUpdated
<1>2. /\ \A i \in Job : i # j => where'[i] = where[i] /\ value'[i] = value[i]
      /\ where[j] = "locked" /\ where'[j] = "updated"
      /\ UNCHANGED <<hashes, hashed, host, ended, due, day>>
  BY UpdateFacts
<1>3. "losses" \notin forgot /\ SharedLosses /\ OwnLosses /\ LossesDue
  BY DEF LossesKept, Update, Remembers
<1>4. j \in Job /\ \A i \in Job : host[i] \in Proc
  BY CellFacts DEF RiskTypeOK
<1>5. LossesDue'
  BY <1>2, <1>3, CellFacts DEF LossesDue
<1>6. CASE j \notin Loss
  <2>1. SharedLosses'
    BY <1>1, <1>2, <1>3, <1>6, CellFacts DEF SharedLosses, Own
  <2>2. OwnLosses'
    <3>1. \A l \in Loss : where'[l] = where[l] /\ value'[l] = value[l]
      BY <1>2, <1>6, CellFacts
    <3>2. \A i \in Job : memory'[host'[i]]["losses"] = memory[host[i]]["losses"]
      BY <1>1, <1>2, <1>4, <1>6
    <3> QED BY <1>1, <1>2, <1>3, <1>6, <3>1, <3>2 DEF OwnLosses, Own
  <2> QED BY <1>5, <2>1, <2>2
<1>7. CASE j \in Loss
  <2>1. ok /\ \A l \in Loss : l # j => where[l] \notin InUse
    BY <1>1, <1>2, <1>3, <1>7, OneInUse, CellFacts DEF InUse
  <2>2. Has(Before(j, ok), ended) /\ UpToDate(Before(j, ok))
    <3>1. Before(j, ok) = IF hashes /\ hashed["losses"] # NoValue THEN hashed["losses"]
                          ELSE memory[host[j]]["losses"]
      BY <1>7, <2>1, CellFacts DEF Before, Get
    <3>2. hashes /\ hashed["losses"] = NoValue => ended = {}
      BY <1>3 DEF SharedLosses, Has
    <3>3. Has(Before(j, ok), ended)
      BY <1>3, <1>4, <3>1, <3>2 DEF SharedLosses, OwnLosses, Has
    <3> QED BY <1>4, <3>1, <3>3 DEF Dated
  <2>3. Has(value'[j], ended \cup {<<j, day>>})
    BY <1>1, <1>7, <2>2, HasMore
  <2>4. value'[j].date = day /\ Own(j)' = {<<j, day>>}
    <3>1. value'[j].date = day
      BY <1>1, <1>7, WithLossTyped DEF RiskTypeOK
    <3> QED BY <3>1 DEF Own
  <2>5. SharedLosses'
    BY <1>2, <1>3, <1>7, <2>1, <2>3, <2>4, CellFacts DEF SharedLosses, Own, InUse
  <2>6. OwnLosses'
    <3> SUFFICES ASSUME ~hashes, NEW i \in Job,
                        NEW t \in {memory'[host[i]]["losses"], file'["losses"]}
                 PROVE  /\ Has(t, ended)
                        /\ \A l \in Loss : where'[l] \in {"updated", "stored"} =>
                              Has(t, ended \cup Own(l)')
      BY <1>2 DEF OwnLosses
    <3>1. t = value'[j]
      BY <1>1, <1>4, <1>7 DEF LocksRight, OneHost
    <3>2. Has(t, ended \cup Own(j)') /\ Has(t, ended)
      BY <2>3, <2>4, <3>1, HasLess
    <3>3. \A l \in Loss : where'[l] \in {"updated", "stored"} => l = j
      BY <1>2, <2>1, CellFacts DEF InUse
    <3> QED BY <3>2, <3>3
  <2> QED BY <1>5, <2>5, <2>6
<1> QED BY <1>6, <1>7

LEMMA LossesKeptStore ==
  ASSUME RiskTypeOK, LocksRight, LossesKept, NEW j \in Writer, Store(j)
  PROVE  LossesKept'
<1> SUFFICES ASSUME "losses" \notin forgot' PROVE (SharedLosses /\ OwnLosses /\ LossesDue)'
  BY DEF LossesKept
<1>1. PICK ok \in BOOLEAN :
           /\ ok \/ (CellOf(j) \in forgot' /\ Outage)
           /\ hashed'["losses"] = IF j \in Loss /\ hashes /\ ok THEN value[j]
                                  ELSE hashed["losses"]
  BY LossesStored
<1>2. /\ \A i \in Job : i # j => where'[i] = where[i]
      /\ where[j] = "updated" /\ where'[j] = "stored"
      /\ UNCHANGED <<hashes, memory, file, host, value, ended, due>>
  BY StoreFacts
<1>3. "losses" \notin forgot /\ SharedLosses /\ OwnLosses /\ LossesDue
  BY DEF LossesKept, Store, Remembers
<1>4. LossesDue'
  BY <1>2, <1>3, CellFacts DEF LossesDue
<1>5. OwnLosses'
  BY <1>2, <1>3, CellFacts DEF OwnLosses, Own
<1>6. SharedLosses'
  <2>1. CASE j \notin Loss
    BY <1>1, <1>2, <1>3, <2>1, CellFacts DEF SharedLosses, Own
  <2>2. CASE j \in Loss /\ hashes
    <3>1. ok /\ \A l \in Loss : l # j => where[l] \notin InUse
      BY <1>1, <1>2, <1>3, <2>2, OneInUse, CellFacts DEF InUse
    <3>2. Has(value[j], ended \cup Own(j))
      BY <1>2, <1>3, <2>2 DEF SharedLosses
    <3>3. hashed'["losses"] = value[j] /\ Has(value[j], ended)
      BY <1>1, <2>2, <3>1, <3>2, HasLess
    <3>4. \A l \in Loss : l # j => where'[l] \notin {"updated", "stored"}
      BY <1>2, <3>1, CellFacts DEF InUse
    <3> QED BY <1>2, <3>2, <3>3, <3>4 DEF SharedLosses, Own
  <2> QED BY <1>2, <2>1, <2>2 DEF SharedLosses
<1> QED BY <1>4, <1>5, <1>6

LEMMA LossesKeptRelease ==
  ASSUME RiskTypeOK, LocksRight, LossesKept, NEW j \in Writer, Release(j)
  PROVE  LossesKept'
<1> SUFFICES ASSUME "losses" \notin forgot PROVE (SharedLosses /\ OwnLosses /\ LossesDue)'
  BY DEF LossesKept, Release
<1>1. SharedLosses /\ OwnLosses /\ LossesDue
  BY DEF LossesKept
<1>2. /\ \A i \in Job : i # j => where'[i] = where[i]
      /\ where[j] = "stored" /\ where'[j] \in {"done", "failed"}
      /\ ended' = (IF j \in Loss THEN ended \cup Own(j) ELSE ended)
      /\ UNCHANGED <<hashes, hashed, memory, file, host, value, due>>
  <2>1. \E w \in {"done", "failed"} : Goes(j, w)
    BY DEF Release
  <2>2. /\ where'[j] \in {"done", "failed"}
        /\ \A i \in Job : i # j => where'[i] = where[i]
    BY <2>1, MovesFacts, CellFacts DEF Where
  <2> QED BY <2>2 DEF Release, Own
<1>3. LossesDue'
  BY <1>1, <1>2, CellFacts DEF LossesDue
<1>4. CASE j \notin Loss
  BY <1>1, <1>2, <1>3, <1>4, CellFacts DEF SharedLosses, OwnLosses, Own
<1>5. CASE j \in Loss
  <2>1. \A l \in Loss : l # j => where[l] \notin InUse
    BY <1>2, <1>5, OneInUse, CellFacts DEF InUse
  <2>2. \A l \in Loss : where'[l] \notin {"updated", "stored"}
    BY <1>2, <2>1, CellFacts DEF InUse
  <2>3. SharedLosses'
    BY <1>1, <1>2, <1>5, <2>2 DEF SharedLosses
  <2>4. OwnLosses'
    BY <1>1, <1>2, <1>5, <2>2 DEF OwnLosses
  <2> QED BY <1>3, <2>3, <2>4
<1> QED BY <1>4, <1>5

LEMMA LossesKeptStep ==
  ASSUME RiskTypeOK, LocksRight, LocksRight', Dated, LossesKept, RiskNext
  PROVE  LossesKept'
<1>1. ASSUME NEW s \in Check, StartRead(s)
      PROVE  LossesKept'
  <2>1. /\ \A i \in Job : i # s => where'[i] = where[i]
        /\ \A i \in Check : i # s => due'[i] = due[i]
        /\ where'[s] = "started" /\ due'[s] = ended
        /\ UNCHANGED <<hashes, hashed, memory, file, host, value, ended, forgot>>
    BY <1>1, CellFacts DEF StartRead, Goes, RiskTypeOK
  <2>2. \A l \in Loss : where'[l] = where[l]
    BY <2>1, CellFacts
  <2>3. LossesDue => LossesDue'
    BY <2>1, CellFacts DEF LossesDue
  <2> QED BY <2>1, <2>2, <2>3 DEF LossesKept, SharedLosses, OwnLosses, Own
<1>2. ASSUME NEW s \in Check, ReadLosses(s)
      PROVE  LossesKept'
  <2>1. /\ where[s] = "started" /\ where'[s] \in {"reading", "blind"}
        /\ where'[s] = "reading" =>
             value'[s] = IF hashes THEN hashed["losses"] ELSE NoValue
        /\ \A i \in Job : i # s => where'[i] = where[i] /\ value'[i] = value[i]
        /\ UNCHANGED <<hashes, hashed, memory, file, host, ended, due, forgot>>
    BY <1>2, LossesSought
  <2>2. \A l \in Loss : where'[l] = where[l] /\ value'[l] = value[l]
    BY <2>1, CellFacts
  <2>3. LossesDue /\ SharedLosses => LossesDue'
    BY <2>1, HasLess, CellFacts DEF LossesDue, SharedLosses
  <2> QED BY <2>1, <2>2, <2>3 DEF LossesKept, SharedLosses, OwnLosses, Own
<1>3. ASSUME NEW s \in Check, EndRead(s)
      PROVE  LossesKept'
  <2>1. /\ where[s] \in {"reading", "blind"} /\ where'[s] = "checked"
        /\ \A p \in Proc : memory'[p]["losses"] =
                             IF p = host[s] THEN Latest(s) ELSE memory[p]["losses"]
        /\ \A i \in Job : i # s => where'[i] = where[i] /\ value'[i] = value[i]
        /\ UNCHANGED <<hashes, hashed, file, host, ended, due, forgot>>
    BY <1>3, LossesLooked
  <2>2. \A l \in Loss : where'[l] = where[l] /\ value'[l] = value[l]
    BY <2>1, CellFacts
  <2>3. LossesDue => LossesDue'
    BY <2>1, CellFacts DEF LossesDue
  <2>4. ~hashes => \A p \in Proc : memory'[p]["losses"] = memory[p]["losses"]
    BY <2>1 DEF Dated, Latest
  <2>5. \A j \in Job : host[j] \in Proc
    BY DEF RiskTypeOK
  <2>6. OwnLosses => OwnLosses'
    BY <2>1, <2>2, <2>4, <2>5 DEF OwnLosses, Own
  <2> QED BY <2>1, <2>2, <2>3, <2>6 DEF LossesKept, SharedLosses, Own
<1>4. ASSUME NEW j \in Writer, Lock(j) \/ LockRefused(j)
      PROVE  LossesKept'
  <2>1. /\ \A i \in Job : where'[i] \in {where[i], "locked", "failed"}
        /\ UNCHANGED <<hashes, hashed, memory, file, host, value, ended, due, forgot>>
    BY <1>4 DEF Lock, LockRefused, Goes, RiskTypeOK
  <2> QED BY <2>1, CellFacts DEF LossesKept, SharedLosses, OwnLosses, LossesDue, Own
<1>5. ASSUME NEW j \in Writer, Update(j) \/ Store(j) \/ Release(j)
      PROVE  LossesKept'
  BY <1>5, LossesKeptUpdate, LossesKeptStore, LossesKeptRelease
<1>6. ASSUME NEW c \in Cell, LoseKey(c) \/ ExpireKey(c)
      PROVE  LossesKept'
  <2>1. forgot \subseteq forgot'
        /\ UNCHANGED <<hashes, hashed, memory, file, host, where, value, ended, due>>
    BY <1>6 DEF LoseKey, ExpireKey
  <2> QED BY <2>1 DEF LossesKept, SharedLosses, OwnLosses, LossesDue, Own
<1>7. ASSUME NEW p \in Proc, Die(p)
      PROVE  LossesKept'
  <2>1. /\ \A i \in Job : where'[i] \in {where[i], "failed"}
        /\ \A i \in Proc : memory'[i]["losses"] \in {memory[i]["losses"], file["losses"]}
        /\ "losses" \in forgot' <=> "losses" \in forgot
        /\ \A j \in Job : host[j] \in Proc
        /\ UNCHANGED <<hashes, hashed, file, host, value, ended, due>>
    BY <1>7, CellFacts DEF Die, RiskTypeOK, Nothing
  <2>2. ASSUME OwnLosses, ~hashes, NEW j \in Job,
               NEW t \in {memory'[host[j]]["losses"], file["losses"]}
        PROVE  /\ Has(t, ended)
               /\ \A l \in Loss :
                    where'[l] \in {"updated", "stored"} => Has(t, ended \cup Own(l))
    <3>1. t \in {memory[host[j]]["losses"], file["losses"]}
      BY <2>1
    <3>2. \A l \in Loss : where'[l] \in {"updated", "stored"} => where'[l] = where[l]
      BY <2>1, CellFacts DEF Job, Writer
    <3> QED BY <2>2, <3>1, <3>2 DEF OwnLosses
  <2>3. OwnLosses => OwnLosses'
    BY <2>1, <2>2 DEF OwnLosses, Own
  <2>4. SharedLosses /\ LossesDue => (SharedLosses /\ LossesDue)'
    BY <2>1, CellFacts DEF SharedLosses, LossesDue, Own
  <2> QED BY <2>1, <2>3, <2>4 DEF LossesKept
<1>8. CASE Clock
  BY <1>8 DEF Clock, LossesKept, SharedLosses, OwnLosses, LossesDue, Own
<1> QED BY <1>1, <1>2, <1>3, <1>4, <1>5, <1>6, <1>7, <1>8 DEF RiskNext

\* Before an outage, no entry holds a loss that was not recorded.
Inside(t) == t # NoValue => t.total \cup t.daily \subseteq Recorded
OnlyRecorded ==
    outages = 0 =>
      /\ forgot = {} /\ \A s \in Check : where[s] # "blind"
      /\ Inside(hashed["losses"]) /\ Inside(file["losses"])
      /\ \A p \in Proc : Inside(memory[p]["losses"])
      /\ \A l \in Loss : where[l] = "updated" => Inside(value[l])
      /\ \A s \in Check : where[s] = "reading" => Inside(value[s])

LEMMA OnlyRecordedStart == RiskInit => OnlyRecorded
<1> SUFFICES ASSUME RiskInit PROVE OnlyRecorded
  OBVIOUS
<1>1. /\ hashed["losses"] = NoValue /\ file["losses"] = NoValue
      /\ \A p \in Proc : memory[p]["losses"] = NoValue
  BY CellFacts DEF RiskInit, Nothing
<1>2. forgot = {} /\ \A j \in Job : where[j] \in {"new", "done"}
  BY DEF RiskInit
<1> QED BY <1>1, <1>2, CellFacts DEF OnlyRecorded, Inside

LEMMA InsideMore ==
  ASSUME Recorded \subseteq Recorded', NEW t, Inside(t)
  PROVE  Inside(t)'
  BY DEF Inside

LEMMA OnlyRecordedStep ==
  ASSUME RiskTypeOK, LocksRight, OnlyRecorded, RiskTypeOK', RiskNext
  PROVE  OnlyRecorded'
<1> SUFFICES ASSUME outages' = 0 PROVE OnlyRecorded'
  BY DEF OnlyRecorded
<1>0. ~Outage /\ \A j \in Job : host[j] \in Proc
  BY OutageFacts DEF RiskTypeOK
<1>1. outages = 0
  BY <1>0 DEF RiskNext, StartRead, ReadLosses, EndRead, Lock, LockRefused, Update, Store,
     Release, LoseKey, ExpireKey, Die, Clock, Remembers
<1>2. /\ forgot = {} /\ \A s \in Check : where[s] # "blind"
      /\ Inside(hashed["losses"]) /\ Inside(file["losses"])
      /\ \A p \in Proc : Inside(memory[p]["losses"])
      /\ \A l \in Loss : where[l] = "updated" => Inside(value[l])
      /\ \A s \in Check : where[s] = "reading" => Inside(value[s])
  BY <1>1 DEF OnlyRecorded
<1>3. ASSUME NEW s \in Check, StartRead(s)
      PROVE  OnlyRecorded'
  <2>1. /\ \A i \in Job : i # s => where'[i] = where[i]
        /\ where'[s] = "started"
        /\ UNCHANGED <<hashed, memory, file, value, forgot>>
    BY <1>3, CellFacts DEF StartRead, Goes, RiskTypeOK
  <2>2. Recorded' = Recorded
    BY <2>1, CellFacts DEF Recorded
  <2> QED BY <1>2, <2>1, <2>2, CellFacts DEF OnlyRecorded, Inside
<1>4. ASSUME NEW s \in Check, ReadLosses(s)
      PROVE  OnlyRecorded'
  <2>1. /\ where[s] = "started" /\ where'[s] = "reading"
        /\ value'[s] \in {hashed["losses"], NoValue}
        /\ \A i \in Job : i # s => where'[i] = where[i] /\ value'[i] = value[i]
        /\ UNCHANGED <<hashed, memory, file, forgot>>
    BY <1>0, <1>4, LossesSought
  <2>2. Recorded' = Recorded
    BY <2>1, CellFacts DEF Recorded
  <2> QED BY <1>2, <2>1, <2>2, CellFacts DEF OnlyRecorded, Inside
<1>5. ASSUME NEW s \in Check, EndRead(s)
      PROVE  OnlyRecorded'
  <2>1. /\ where[s] \in {"reading", "blind"} /\ where'[s] = "checked"
        /\ \A p \in Proc : memory'[p]["losses"] =
                             IF p = host[s] THEN Latest(s) ELSE memory[p]["losses"]
        /\ \A i \in Job : i # s => where'[i] = where[i] /\ value'[i] = value[i]
        /\ UNCHANGED <<hashed, file, forgot>>
    BY <1>5, LossesLooked
  <2>2. Recorded' = Recorded
    BY <2>1, CellFacts DEF Recorded
  <2>3. Inside(Latest(s))
    BY <1>0, <1>2, <2>1, CellFacts DEF Latest, Inside
  <2> QED BY <1>2, <2>1, <2>2, <2>3, CellFacts DEF OnlyRecorded, Inside
<1>6. ASSUME NEW j \in Writer, Lock(j) \/ LockRefused(j)
      PROVE  OnlyRecorded'
  <2>1. /\ \A i \in Job : i # j => where'[i] = where[i]
        /\ where[j] = "new" /\ where'[j] \in {"locked", "failed"}
        /\ UNCHANGED <<hashed, memory, file, value, forgot>>
    BY <1>6, CellFacts DEF Lock, LockRefused, Goes, RiskTypeOK
  <2>2. Recorded' = Recorded
    BY <2>1, CellFacts DEF Recorded
  <2> QED BY <1>2, <2>1, <2>2, CellFacts DEF OnlyRecorded, Inside
<1>7. ASSUME NEW j \in Writer, Update(j)
      PROVE  OnlyRecorded'
  <2>1. PICK ok \in BOOLEAN :
           /\ ok \/ (CellOf(j) \in forgot' /\ Outage)
           /\ j \in Loss =>
                /\ Before(j, ok) \in Tracker \cup {NoValue}
                /\ value'[j] = WithLoss(Before(j, ok), j) /\ value'[j] \in Tracker
                /\ file'["losses"] = value'[j]
                /\ \A p \in Proc : memory'[p]["losses"] =
                                     IF p = host[j] THEN value'[j] ELSE memory[p]["losses"]
           /\ j \notin Loss =>
                /\ file'["losses"] = file["losses"]
                /\ \A p \in Proc : memory'[p]["losses"] = memory[p]["losses"]
    BY <1>7, LossesUpdated
  <2>2. /\ \A i \in Job : i # j => where'[i] = where[i] /\ value'[i] = value[i]
        /\ where[j] = "locked" /\ where'[j] = "updated"
        /\ UNCHANGED <<hashed, host>>
    BY <1>7, UpdateFacts
  <2>3. forgot' = forgot
    BY <1>0, <1>7 DEF Update, Remembers
  <2>4. Recorded' = Recorded \cup {l \in Loss : l = j}
    BY <2>2, CellFacts DEF Recorded
  <2>5. j \in Loss => Inside(value[j])'
    <3> SUFFICES ASSUME j \in Loss PROVE Inside(value[j])'
      OBVIOUS
    <3>1. Before(j, ok) \in {hashed["losses"], memory[host[j]]["losses"]}
      BY CellFacts DEF Before, Get
    <3>2. Inside(Before(j, ok))
      BY <1>0, <1>2, <3>1, CellFacts
    <3>3. /\ value'[j].total \subseteq (IF Before(j, ok) = NoValue THEN {} ELSE Before(j, ok).total) \cup {j}
          /\ value'[j].daily \subseteq (IF Before(j, ok) = NoValue THEN {} ELSE Before(j, ok).daily) \cup {j}
      <4>1. day \in Days /\ value'[j] = WithLoss(Before(j, ok), j)
            /\ Before(j, ok) \in Tracker \cup {NoValue}
        BY <2>1 DEF RiskTypeOK
      <4> DEFINE t == Before(j, ok)
      <4>2. /\ WithLoss(t, j).total = (IF t = NoValue THEN {} ELSE t.total) \cup {j}
            /\ WithLoss(t, j).daily =
                 (IF t = NoValue THEN {} ELSE IF t.date = day THEN t.daily ELSE {}) \cup {j}
        BY <4>1, WithLossTyped
      <4> QED BY <4>1, <4>2
    <3> QED BY <2>4, <3>2, <3>3 DEF Inside
  <2>6. /\ Inside(hashed["losses"])' /\ \A l \in Loss : where'[l] = "updated" => Inside(value[l])'
        /\ \A s \in Check : where'[s] = "reading" => Inside(value[s])'
    BY <1>2, <2>2, <2>4, <2>5, InsideMore, CellFacts DEF Inside
  <2>7. Inside(file["losses"])' /\ \A p \in Proc : Inside(memory[p]["losses"])'
    BY <1>2, <2>1, <2>4, <2>5, InsideMore DEF Inside
  <2> QED BY <1>2, <2>2, <2>3, <2>6, <2>7, CellFacts DEF OnlyRecorded, Inside
<1>8. ASSUME NEW j \in Writer, Store(j)
      PROVE  OnlyRecorded'
  <2>1. hashed'["losses"] = hashed["losses"] \/ (j \in Loss /\ hashed'["losses"] = value[j])
    BY <1>8, LossesStored
  <2>2. /\ \A i \in Job : i # j => where'[i] = where[i]
        /\ where[j] = "updated" /\ where'[j] = "stored"
        /\ UNCHANGED <<memory, file, value>>
    BY <1>8, StoreFacts
  <2>3. forgot' = forgot
    BY <1>0, <1>8 DEF Store, Remembers
  <2>4. Recorded' = Recorded
    BY <2>2, CellFacts DEF Recorded
  <2> QED BY <1>2, <2>1, <2>2, <2>3, <2>4, CellFacts DEF OnlyRecorded, Inside
<1>9. ASSUME NEW j \in Writer, Release(j)
      PROVE  OnlyRecorded'
  <2>1. j \in Job /\ CellOf(j) \in Cell /\ where[j] = "stored" /\ owner[CellOf(j)] = j
    BY <1>2, <1>9, CellFacts DEF Release, LocksRight, Owned, InUse
  <2>2. Goes(j, "done") /\ UNCHANGED <<hashed, memory, file, value, forgot>>
    BY <1>9, <2>1 DEF Release
  <2>3. where'[j] = "done" /\ \A i \in Job : i # j => where'[i] = where[i]
    BY <2>1, <2>2, MovesFacts DEF Where
  <2>4. Recorded' = Recorded
    BY <2>1, <2>3, CellFacts DEF Recorded
  <2> QED BY <1>2, <2>1, <2>2, <2>3, <2>4, CellFacts DEF OnlyRecorded, Inside
<1>10. ASSUME NEW c \in Cell, LoseKey(c) \/ ExpireKey(c)
       PROVE  OnlyRecorded'
  <2>1. UNCHANGED <<hashed, memory, file, where, value, forgot>>
    BY <1>0, <1>10 DEF LoseKey, ExpireKey
  <2> QED BY <1>2, <2>1 DEF OnlyRecorded, Inside, Recorded
<1>11. ASSUME NEW p \in Proc, Die(p)
       PROVE  OnlyRecorded'
  BY <1>0, <1>11 DEF Die
<1>12. CASE Clock
  <2>1. UNCHANGED <<hashed, memory, file, where, value, forgot>>
    BY <1>12 DEF Clock
  <2> QED BY <1>2, <2>1 DEF OnlyRecorded, Inside, Recorded
<1> QED
  BY <1>3, <1>4, <1>5, <1>6, <1>7, <1>8, <1>9, <1>10, <1>11, <1>12 DEF RiskNext

\* A check ends its read, and nothing else does.
LEMMA OnlyEndRead ==
  ASSUME RiskTypeOK, [RiskNext]_riskVars, NEW s \in Check,
         where[s] = "reading", where'[s] = "checked"
  PROVE  EndRead(s)
<1>1. s \in Job /\ s \notin Writer
  BY CellFacts
<1>2. ASSUME NEW i \in Job, NEW w, Goes(i, w), i # s \/ w # "checked"
      PROVE  FALSE
  BY <1>1, <1>2 DEF Goes, RiskTypeOK
<1>3. ASSUME NEW i \in Check, StartRead(i) \/ ReadLosses(i)
      PROVE  FALSE
  BY <1>2, <1>3, CellFacts DEF StartRead, ReadLosses
<1>4. ASSUME NEW i \in Check, EndRead(i)
      PROVE  i = s
  BY <1>2, <1>4, CellFacts DEF EndRead
<1>5. ASSUME NEW j \in Writer, Lock(j) \/ LockRefused(j) \/ Update(j) \/ Store(j) \/ Release(j)
      PROVE  FALSE
  BY <1>1, <1>2, <1>5, CellFacts DEF Lock, LockRefused, Update, Store, Release
<1>6. ASSUME \/ \E c \in Cell : LoseKey(c) \/ ExpireKey(c)
             \/ Clock \/ UNCHANGED riskVars
      PROVE  FALSE
  BY <1>6 DEF LoseKey, ExpireKey, Clock, riskVars
<1>7. ASSUME NEW p \in Proc, Die(p)
      PROVE  FALSE
  BY <1>1, <1>7 DEF Die
<1> QED BY <1>3, <1>4, <1>5, <1>6, <1>7 DEF RiskNext

LossesInv == RiskTypeOK /\ LocksRight /\ Dated /\ LossesKept /\ OnlyRecorded

LEMMA LossesInvHolds == RiskSpec => []LossesInv
<1>1. RiskInit => LossesInv
  BY RiskTypesStart, LocksStart, DatedStart, LossesKeptStart, OnlyRecordedStart DEF LossesInv
<1>2. LossesInv /\ RiskTypeOK' /\ [RiskNext]_riskVars => LossesInv'
  <2>1. LossesInv /\ RiskTypeOK' /\ RiskNext => LossesInv'
    BY LocksStep, DatedStep, LossesKeptStep, OnlyRecordedStep DEF LossesInv
  <2>2. LossesInv /\ RiskTypeOK' /\ UNCHANGED riskVars => LossesInv'
    <3>1. LocksRight /\ UNCHANGED riskVars => LocksRight'
      BY DEF riskVars, LocksRight, Owners, Owned, OneHost, CellOf
    <3>2. Dated /\ UNCHANGED riskVars => Dated'
      BY DEF riskVars, Dated, UpToDate, CellOf
    <3>3. LossesKept /\ UNCHANGED riskVars => LossesKept'
      BY DEF riskVars, LossesKept, SharedLosses, OwnLosses, LossesDue, Own, Inside, Recorded,
         CellOf
    <3>4. OnlyRecorded /\ UNCHANGED riskVars => OnlyRecorded'
      BY DEF riskVars, OnlyRecorded, Inside, Recorded, Own, CellOf
    <3> QED BY <3>1, <3>2, <3>3, <3>4 DEF LossesInv
  <2> QED BY <2>1, <2>2
<1> QED BY <1>1, <1>2, RiskTypeCorrect, PTL DEF RiskSpec

\* check_account_loss_limits reads without the lock what record_position_pnl
\* writes under it (core/account_risk.py): whichever processes record, die, lose
\* requests or find the lock busy, a check that could read sees every loss whose
\* call had ended when it began, unless a write of the hash, a read under its
\* lock or a key was lost, for any number of processes, losses, checks and days.
THEOREM ChecksSeeLosses == RiskSpec => LossesSeen
<1>1. LossesInv /\ [RiskNext]_riskVars =>
        [\A s \in Check :
           where[s] = "reading" /\ where'[s] = "checked" /\ "losses" \notin forgot =>
             /\ {x[1] : x \in due[s]} \subseteq value'[s].total
             /\ day = today[s] =>
                  {x[1] : x \in {y \in due[s] : y[2] = day}} \subseteq value'[s].daily
             /\ outages = 0 => value'[s].total \cup value'[s].daily \subseteq Recorded]_riskVars
  <2> SUFFICES ASSUME LossesInv, [RiskNext]_riskVars, NEW s \in Check,
                      where[s] = "reading", where'[s] = "checked", "losses" \notin forgot
               PROVE  /\ {x[1] : x \in due[s]} \subseteq value'[s].total
                      /\ day = today[s] =>
                           {x[1] : x \in {y \in due[s] : y[2] = day}} \subseteq value'[s].daily
                      /\ outages = 0 =>
                           value'[s].total \cup value'[s].daily \subseteq Recorded
    OBVIOUS
  <2> DEFINE t == Latest(s)
  <2>1. /\ RiskTypeOK /\ SharedLosses /\ OwnLosses /\ LossesDue /\ Dated /\ OnlyRecorded
        /\ s \in Job /\ host[s] \in Proc /\ day \in Days
    BY CellFacts DEF LossesInv, LossesKept, RiskTypeOK
  <2>2. value'[s] = Sees(t, today[s])
    BY <2>1, OnlyEndRead, LossesLooked
  <2>3. Has(t, due[s]) /\ UpToDate(t)
    <3>1. hashes => Has(value[s], due[s])
      BY <2>1 DEF LossesDue
    <3>2. CASE hashes /\ value[s] # NoValue
      BY <2>1, <3>1, <3>2 DEF Latest, Dated
    <3>3. CASE hashes /\ value[s] = NoValue
      BY <2>1, <3>1, <3>3 DEF Has, Dated, Latest
    <3>4. CASE ~hashes
      <4>1. t = memory[host[s]]["losses"] /\ due[s] \subseteq ended
        BY <2>1, <3>4 DEF Latest, Dated, LossesDue
      <4> QED BY <2>1, <3>4, <4>1, HasLess DEF OwnLosses, Dated
    <3> QED BY <3>2, <3>3, <3>4
  <2>4. outages = 0 => Inside(t)
    BY <2>1 DEF OnlyRecorded, Latest
  <2>5. t # NoValue => t.date \in Int
    BY <2>1, ValueFacts, CellFacts, RiskAssumption
       DEF Latest, RiskTypeOK, CellValue, Tracker, Days
  <2>6. /\ due[s] \in SUBSET (Loss \X Days) /\ day \in Int
        /\ \A y \in due[s] : y[2] \in Int
    BY <2>1, RiskAssumption DEF RiskTypeOK, Days
  <2> HIDE DEF t
  <2>7. {x[1] : x \in due[s]} \subseteq value'[s].total
    BY <2>2, <2>3 DEF Has, Sees
  <2>8. ASSUME day = today[s], NEW y \in due[s], y[2] = day
        PROVE  y[1] \in value'[s].daily
    <3>1. t # NoValue /\ y[2] <= t.date /\ t.date <= day
      BY <2>3 DEF Has, UpToDate
    <3>2. t.date = day
      BY <2>5, <2>6, <2>8, <3>1
    <3> QED BY <2>2, <2>3, <2>8, <3>1, <3>2 DEF Has, Sees
  <2>9. outages = 0 => value'[s].total \cup value'[s].daily \subseteq Recorded
    BY <2>2, <2>4 DEF Sees, Inside
  <2> QED BY <2>7, <2>8, <2>9
<1> QED BY <1>1, LossesInvHolds, PTL DEF RiskSpec, LossesSeen
-----------------------------------------------------------------------------
(***************************************************************************)
(* The samples.  What is kept are the newest of all samples whose calls    *)
(* have ended, and of the one that is under way; what is left out is too   *)
(* old for every window, or not among the last MaxSamples.                 *)
(***************************************************************************)
Kept(v, q, t) ==
    IF v = NoValue THEN q = <<>>
    ELSE \E m \in 1..Len(q) :
           /\ v = SubSeq(q, m, Len(q)) /\ Len(q) - m < MaxSamples
           /\ \A i \in 1..(m - 1) : i <= Len(q) - MaxSamples \/ ~(t - q[i].time <= Longest)

LEMMA SampleFacts == \A x \in Sample : x.time \in Int /\ x.time \in 0..MaxTime
<1>1. MaxTime \in Nat
  BY RiskAssumption
<1> QED BY <1>1 DEF Sample

\* A sample more, on both sides.
LEMMA KeptMore ==
  ASSUME RiskTypeOK, NEW v \in Seq(Sample) \cup {NoValue}, NEW q \in Seq(Sample),
         Kept(v, q, now), NEW e \in Equity
  PROVE  Kept(WithSample(v, e), Append(q, [equity |-> e, time |-> now]), now)
<1> DEFINE x == [equity |-> e, time |-> now]
           all == Append(q, x)
           r == IF v = NoValue THEN <<>> ELSE v
           w == Append(r, x)
           n == Len(q) + 1
<1>1. x \in Sample /\ now \in 0..MaxTime
  BY DEF RiskTypeOK, Sample
<1>2. all \in Seq(Sample) /\ Len(all) = n /\ Len(q) \in Nat
      /\ \A i \in 1..n : all[i] = IF i = n THEN x ELSE q[i]
  BY <1>1
<1>3. PICK m \in 1..n :
        /\ r \in Seq(Sample) /\ Len(r) = n - m
        /\ \A i \in 1..(n - m) : r[i] = q[m + i - 1]
        /\ \A i \in 1..(m - 1) : i <= n - MaxSamples \/ ~Within(q[i], Longest)
  <2>1. CASE v = NoValue
    <3>1. q = <<>> /\ r = <<>> /\ n = 1
      BY <2>1 DEF Kept, Within
    <3> QED BY <3>1
  <2>2. CASE v # NoValue
    <3>1. PICK k \in 1..Len(q) :
            /\ v = SubSeq(q, k, Len(q))
            /\ \A i \in 1..(k - 1) : i <= Len(q) - MaxSamples \/ ~Within(q[i], Longest)
      BY <2>2 DEF Kept, Within
    <3>2. r = SubSeq(q, k, Len(q)) /\ Len(r) = n - k
          /\ \A i \in 1..(n - k) : r[i] = q[k + i - 1]
      <4>1. r = SubSeq(q, k, Len(q)) /\ Len(q) \in Nat /\ Len(q) - k + 1 = n - k
        BY <1>2, <2>2, <3>1
      <4>2. \A i \in k..Len(q) : q[i] \in Sample
        BY <1>2
      <4> HIDE DEF r, n
      <4>3. Len(SubSeq(q, k, Len(q))) = Len(q) - k + 1
            /\ \A i \in 1..(Len(q) - k + 1) : SubSeq(q, k, Len(q))[i] = q[k + i - 1]
        BY <4>1, <4>2, SubSeqProperties
      <4> QED BY <4>1, <4>3
    <3>3. \A i \in 1..(k - 1) : i <= n - MaxSamples \/ ~Within(q[i], Longest)
      BY <1>2, <3>1, WindowFacts
    <3>4. k \in 1..n /\ r \in Seq(Sample)
      BY <1>2, <2>2
    <3> QED BY <3>2, <3>3, <3>4
  <2> QED BY <2>1, <2>2
<1> HIDE DEF r, x
<1>4. w \in Seq(Sample) /\ Len(w) = n - m + 1
      /\ \A i \in 1..(n - m + 1) : w[i] = all[m + i - 1]
  <2>1. /\ w \in Seq(Sample) /\ Len(w) = n - m + 1
        /\ \A i \in 1..(n - m + 1) : w[i] = IF i = n - m + 1 THEN x ELSE r[i]
    BY <1>1, <1>2, <1>3
  <2> HIDE DEF w, all
  <2>2. ASSUME NEW i \in 1..(n - m + 1) PROVE w[i] = all[m + i - 1]
    <3>1. n \in Nat /\ m + i - 1 \in 1..n
          /\ (m + i - 1 = n <=> i = n - m + 1) /\ (i # n - m + 1 => i \in 1..(n - m))
      <4>1. n \in Nat /\ m \in 1..n /\ i \in 1..(n - m + 1)
        BY <1>2, <1>3, <2>2
      <4> HIDE DEF n
      <4> QED BY <4>1
    <3> QED BY <1>2, <1>3, <2>1, <3>1
  <2> QED BY <2>1, <2>2
<1>5. PICK d \in 1..Len(w) :
        /\ Newest(Recent(w)) = SubSeq(w, d, Len(w)) /\ Len(w) - d < MaxSamples
        /\ \A k \in 1..(d - 1) : k <= Len(w) - MaxSamples \/ ~Within(w[k], Longest)
  BY <1>1, <1>3, WithSampleFacts DEF x
<1>6. WithSample(v, e) = SubSeq(w, d, Len(w))
  BY <1>5 DEF WithSample, r, x
<1> HIDE DEF all, w
<1>7. /\ SubSeq(w, d, Len(w)) = SubSeq(all, m + d - 1, n)
      /\ SubSeq(w, d, Len(w)) \in Seq(Sample)
  <2> DEFINE a == SubSeq(w, d, Len(w))
             b == SubSeq(all, m + d - 1, n)
  <2>1. /\ a \in Seq(Sample) /\ Len(a) = Len(w) - d + 1
        /\ \A i \in 1..(Len(w) - d + 1) : a[i] = w[d + i - 1]
    BY <1>4, <1>5, SubSeqProperties
  <2>2. /\ b \in Seq(Sample) /\ Len(b) = n - (m + d - 1) + 1
        /\ \A i \in 1..(n - (m + d - 1) + 1) : b[i] = all[m + d - 1 + i - 1]
    BY <1>2, <1>3, <1>4, <1>5, SubSeqProperties
  <2>3. Len(a) = Len(b)
    BY <1>2, <1>3, <1>4, <1>5, <2>1, <2>2
  <2>4. \A i \in 1..Len(a) : a[i] = b[i]
    <3> SUFFICES ASSUME NEW i \in 1..Len(a) PROVE a[i] = b[i]
      OBVIOUS
    <3>1. a[i] = w[d + i - 1] /\ b[i] = all[m + d - 1 + i - 1]
      BY <2>1, <2>2, <2>3
    <3>2. d + i - 1 \in 1..(n - m + 1) /\ m + (d + i - 1) - 1 = m + d - 1 + i - 1
      <4>1. n \in Nat /\ m \in 1..n /\ d \in 1..(n - m + 1) /\ i \in 1..(n - m + 1 - d + 1)
        BY <1>2, <1>3, <1>4, <1>5, <2>1
      <4> HIDE DEF n
      <4> QED BY <4>1
    <3> QED BY <1>4, <3>1, <3>2
  <2> HIDE DEF a, b
  <2>5. a = b
    BY <2>1, <2>2, <2>3, <2>4, SeqEqual
  <2> QED BY <2>1, <2>5 DEF a, b
<1> DEFINE c == m + d - 1
<1>8. c \in 1..n /\ n - c < MaxSamples
  BY <1>2, <1>3, <1>4, <1>5
<1>9. \A i \in 1..(c - 1) : i <= n - MaxSamples \/ ~Within(all[i], Longest)
  <2> SUFFICES ASSUME NEW i \in 1..(c - 1)
               PROVE  i <= n - MaxSamples \/ ~Within(all[i], Longest)
    OBVIOUS
  <2>1. CASE i < m
    <3>1. i \in 1..(m - 1) /\ all[i] = q[i]
      BY <1>2, <1>3, <1>8, <2>1
    <3> QED BY <1>3, <3>1
  <2>2. CASE ~(i < m)
    <3> DEFINE k == i - m + 1
    <3>1. k \in 1..(d - 1) /\ k \in 1..(n - m + 1) /\ m + k - 1 = i
      BY <1>2, <1>3, <1>4, <1>5, <2>2
    <3>2. w[k] = all[i] /\ (k <= Len(w) - MaxSamples \/ ~Within(w[k], Longest))
      BY <1>4, <1>5, <3>1
    <3>3. k <= Len(w) - MaxSamples => i <= n - MaxSamples
      BY <1>2, <1>3, <1>4, <3>1, WindowFacts
    <3> QED BY <3>2, <3>3
  <2> QED BY <2>1, <2>2
<1>10. Kept(SubSeq(all, c, n), all, now)
  BY <1>2, <1>7, <1>8, <1>9, NoValueAssumption DEF Kept, Within
<1> QED BY <1>6, <1>7, <1>10 DEF all, x

\* The clock goes on: what is too old stays too old.
LEMMA KeptLater ==
  ASSUME NEW t \in Int, NEW u \in Int, t <= u, NEW v, NEW q \in Seq(Sample), Kept(v, q, t)
  PROVE  Kept(v, q, u)
<1>1. \A i \in 1..Len(q) : q[i].time \in Int
  <2>1. \A i \in 1..Len(q) : q[i] \in Sample
    OBVIOUS
  <2> QED BY <2>1, SampleFacts
<1>2. \A i \in 1..Len(q) : ~(t - q[i].time <= Longest) => ~(u - q[i].time <= Longest)
  BY <1>1, WindowFacts
<1>3. CASE v = NoValue
  BY <1>3 DEF Kept
<1>4. CASE v # NoValue
  <2>1. PICK m \in 1..Len(q) :
           /\ v = SubSeq(q, m, Len(q)) /\ Len(q) - m < MaxSamples
           /\ \A i \in 1..(m - 1) : i <= Len(q) - MaxSamples \/ ~(t - q[i].time <= Longest)
    BY <1>4 DEF Kept
  <2>2. \A i \in 1..(m - 1) : i \in 1..Len(q)
    OBVIOUS
  <2> QED BY <1>2, <1>4, <2>1, <2>2 DEF Kept
<1> QED BY <1>3, <1>4

\* A fall is seen in what is kept if and only if it is seen in the newest samples.
LEMMA KeptFalls ==
  ASSUME RiskTypeOK, NEW q \in Seq(Sample), q # <<>>, NEW v \in Seq(Sample), Kept(v, q, now),
         NEW e
  PROVE  Falling(v, e) =
           \E h \in Window : \E i \in 1..Len(q) :
             /\ i > Len(q) - MaxSamples /\ Within(q[i], h) /\ q[i].equity - e >= Falls[h]
<1>1. PICK m \in 1..Len(q) :
         /\ v = SubSeq(q, m, Len(q)) /\ Len(q) - m < MaxSamples
         /\ \A i \in 1..(m - 1) : i <= Len(q) - MaxSamples \/ ~Within(q[i], Longest)
  BY NoValueAssumption DEF Kept, Within
<1>2. /\ Len(q) \in Nat /\ Len(v) = Len(q) - m + 1 /\ DOMAIN v = 1..Len(v)
      /\ \A i \in 1..(Len(q) - m + 1) : v[i] = q[m + i - 1]
  BY <1>1, SubSeqProperties
<1>3. ASSUME NEW h \in Window, NEW i \in DOMAIN v,
             Within(v[i], h), v[i].equity - e >= Falls[h]
      PROVE  \E k \in 1..Len(q) :
               /\ k > Len(q) - MaxSamples /\ Within(q[k], h) /\ q[k].equity - e >= Falls[h]
  <2>1. m + i - 1 \in 1..Len(q) /\ m + i - 1 > Len(q) - MaxSamples /\ v[i] = q[m + i - 1]
    BY <1>1, <1>2, WindowFacts
  <2> QED BY <1>3, <2>1
<1>4. ASSUME NEW h \in Window, NEW k \in 1..Len(q), k > Len(q) - MaxSamples,
             Within(q[k], h), q[k].equity - e >= Falls[h]
      PROVE  \E i \in DOMAIN v : Within(v[i], h) /\ v[i].equity - e >= Falls[h]
  <2>1. q[k].time \in Int /\ now \in Int
    <3>1. q[k] \in Sample /\ MaxTime \in Nat
      BY RiskAssumption
    <3> QED BY <3>1, SampleFacts DEF RiskTypeOK
  <2>2. Within(q[k], Longest)
    <3>1. h \in Int /\ Longest \in Int /\ h <= Longest
      BY WindowFacts
    <3> QED BY <1>4, <2>1, <3>1 DEF Within
  <2>3. ~(k < m)
    BY <1>1, <1>2, <1>4, <2>2, WindowFacts
  <2>4. k - m + 1 \in DOMAIN v /\ v[k - m + 1] = q[k]
    BY <1>1, <1>2, <2>3
  <2> QED BY <1>4, <2>4
<1> QED BY <1>3, <1>4 DEF Falling

Taken(j) == [equity |-> value[j].equity, time |-> value[j].time]
Sampling == {j \in Sampler : where[j] \in {"updated", "stored"}}

SharedPeaks ==
    hashes =>
      /\ \A j \in Sampler : where[j] = "updated" =>
           Kept(memory[host[j]]["peaks"], Append(sampled, Taken(j)), now)
      /\ \A j \in Sampler : where[j] = "stored" =>
           Kept(hashed["peaks"], Append(sampled, Taken(j)), now)
      /\ (\A j \in Sampler : where[j] # "stored") => Kept(hashed["peaks"], sampled, now)
      /\ hashed["peaks"] = NoValue /\ Sampling = {} =>
           file["peaks"] = NoValue /\ \A p \in Proc : memory[p]["peaks"] = NoValue
OwnPeaks ==
    ~hashes =>
      \A i \in Job : \A v \in {memory[host[i]]["peaks"], file["peaks"]} :
        v = file["peaks"] \/ v # NoValue =>
          /\ \A j \in Sampling : Kept(v, Append(sampled, Taken(j)), now)
          /\ Sampling = {} => Kept(v, sampled, now)
PeaksKept == "peaks" \notin forgot => SharedPeaks /\ OwnPeaks

LEMMA PeaksKeptStart == RiskInit => PeaksKept
<1> SUFFICES ASSUME RiskInit PROVE PeaksKept
  OBVIOUS
<1>1. /\ hashed["peaks"] = NoValue /\ file["peaks"] = NoValue
      /\ \A p \in Proc : memory[p]["peaks"] = NoValue
  BY CellFacts DEF RiskInit, Nothing
<1>2. sampled = <<>> /\ (\A j \in Job : where[j] \in {"new", "done"})
      /\ \A j \in Job : host[j] \in Proc
  BY DEF RiskInit
<1>3. Sampling = {}
  BY <1>2, CellFacts DEF Sampling
<1>4. Kept(NoValue, <<>>, now)
  BY DEF Kept
<1> QED BY <1>1, <1>2, <1>3, <1>4, CellFacts DEF PeaksKept, SharedPeaks, OwnPeaks

\* A step that changes no sampler under way and no peaks keeps them.
LEMMA PeaksAlone ==
  ASSUME PeaksKept, forgot \subseteq forgot', UNCHANGED <<hashes, host, sampled, now>>,
         hashed'["peaks"] = hashed["peaks"], file'["peaks"] = file["peaks"],
         \A p \in Proc : memory'[p]["peaks"] = memory[p]["peaks"],
         \A j \in Job : host[j] \in Proc,
         \A j \in Sampler :
           /\ where'[j] = where[j] \/ {where[j], where'[j]} \cap {"updated", "stored"} = {}
           /\ where[j] \in {"updated", "stored"} => value'[j] = value[j]
  PROVE  PeaksKept'
<1> SUFFICES ASSUME "peaks" \notin forgot' PROVE (SharedPeaks /\ OwnPeaks)'
  BY DEF PeaksKept
<1>1. SharedPeaks /\ OwnPeaks
  BY DEF PeaksKept
<1>2. Sampling' = Sampling
  BY DEF Sampling
<1>3. \A j \in Sampler : where[j] \in {"updated", "stored"} => Taken(j)' = Taken(j)
  BY DEF Taken
<1>4. SharedPeaks'
  BY <1>1, <1>2, <1>3, CellFacts DEF SharedPeaks
<1>5. OwnPeaks'
  BY <1>1, <1>2, <1>3, CellFacts DEF OwnPeaks, Sampling
<1> QED BY <1>4, <1>5

\* What an update does to the peaks.
LEMMA PeaksUpdated ==
  ASSUME RiskTypeOK, NEW j \in Sampler, Update(j)
  PROVE  \E ok \in BOOLEAN : \E e \in Equity :
           /\ ok \/ "peaks" \in forgot'
           /\ Before(j, ok) \in Seq(Sample) \cup {NoValue}
           /\ WithSample(Before(j, ok), e) \in Seq(Sample)
           /\ value'[j] = [equity |-> e, time |-> now,
                           blocked |-> Falling(WithSample(Before(j, ok), e), e)]
           /\ file'["peaks"] = WithSample(Before(j, ok), e)
           /\ \A p \in Proc : memory'[p]["peaks"] =
                IF p = host[j] THEN WithSample(Before(j, ok), e) ELSE memory[p]["peaks"]
<1>1. j \in Job /\ host[j] \in Proc /\ DOMAIN file = Cell
  BY CellFacts DEF RiskTypeOK, CellValue
<1>2. PICK ok \in BOOLEAN :
           /\ Remembers(CellOf(j), ok)
           /\ \/ /\ j \in Loss
                 /\ Before(j, ok) \in Tracker \cup {NoValue}
              \/ /\ j \in Sampler
                 /\ \E e \in Equity : LET q == WithSample(Before(j, ok), e) IN
                      /\ Before(j, ok) \in Seq(Sample) \cup {NoValue} /\ q \in Seq(Sample)
                      /\ value'[j] = [equity |-> e, time |-> now, blocked |-> Falling(q, e)]
                      /\ Keeps(j, "peaks", q)
                      /\ memory'[host[j]]["peaks"] = q
                      /\ file' = [file EXCEPT !["peaks"] = q]
  BY UpdateFacts, CellFacts
<1>3. PICK e \in Equity : LET q == WithSample(Before(j, ok), e) IN
                      /\ Before(j, ok) \in Seq(Sample) \cup {NoValue} /\ q \in Seq(Sample)
                      /\ value'[j] = [equity |-> e, time |-> now, blocked |-> Falling(q, e)]
                      /\ Keeps(j, "peaks", q)
                      /\ file' = [file EXCEPT !["peaks"] = q]
  BY <1>2, CellFacts
<1>4. ok \/ "peaks" \in forgot'
  BY <1>2, CellFacts DEF Remembers
<1>5. \A p \in Proc : memory'[p]["peaks"] =
                IF p = host[j] THEN WithSample(Before(j, ok), e) ELSE memory[p]["peaks"]
  BY <1>1, <1>3, KeepsFacts, CellFacts
<1> QED BY <1>1, <1>3, <1>4, <1>5, CellFacts

LEMMA SamplesTyped ==
  ASSUME RiskTypeOK
  PROVE  /\ \A j \in Sampling : Taken(j) \in Sample /\ Append(sampled, Taken(j)) \in Seq(Sample)
         /\ sampled \in Seq(Sample) /\ now \in 0..MaxTime
<1>1. ASSUME NEW j \in Sampling PROVE Taken(j) \in Sample
  <2>1. value[j] \in [equity : Equity, time : 0..MaxTime, blocked : BOOLEAN]
    BY ValueFacts DEF Sampling
  <2> QED BY <2>1 DEF Taken, Sample
<1>2. sampled \in Seq(Sample) /\ now \in 0..MaxTime
  BY DEF RiskTypeOK
<1>3. \A x \in Sample : Append(sampled, x) \in Seq(Sample)
  BY <1>2
<1> QED BY <1>1, <1>2, <1>3

\* What a sampler finds are the samples of the calls that have ended.
LEMMA BeforeKept ==
  ASSUME RiskTypeOK, PeaksKept, "peaks" \notin forgot, Sampling = {}, NEW j \in Sampler
  PROVE  Kept(Before(j, TRUE), sampled, now)
<1>1. SharedPeaks /\ OwnPeaks /\ j \in Job /\ host[j] \in Proc
      /\ \A i \in Sampler : where[i] # "stored"
  BY CellFacts DEF PeaksKept, RiskTypeOK, Sampling
<1> DEFINE own == memory[host[j]]["peaks"]
<1>2. Before(j, TRUE) = IF hashes /\ hashed["peaks"] # NoValue THEN hashed["peaks"]
                        ELSE IF own = NoValue THEN file["peaks"] ELSE own
  BY CellFacts DEF Before, Get
<1>3. CASE hashes
  <2>1. Kept(hashed["peaks"], sampled, now)
    BY <1>1, <1>3 DEF SharedPeaks
  <2>2. hashed["peaks"] = NoValue => file["peaks"] = NoValue /\ own = NoValue
    BY <1>1, <1>3 DEF SharedPeaks
  <2> QED BY <1>2, <1>3, <2>1, <2>2
<1>4. CASE ~hashes
  BY <1>1, <1>2, <1>4 DEF OwnPeaks
<1> QED BY <1>3, <1>4

LEMMA PeaksKeptUpdate ==
  ASSUME RiskTypeOK, LocksRight, PeaksKept, NEW j \in Sampler, Update(j)
  PROVE  PeaksKept'
<1> SUFFICES ASSUME "peaks" \notin forgot' PROVE (SharedPeaks /\ OwnPeaks)'
  BY DEF PeaksKept
<1>1. PICK ok \in BOOLEAN, e \in Equity :
           /\ ok \/ "peaks" \in forgot'
           /\ Before(j, ok) \in Seq(Sample) \cup {NoValue}
           /\ WithSample(Before(j, ok), e) \in Seq(Sample)
           /\ value'[j] = [equity |-> e, time |-> now,
                           blocked |-> Falling(WithSample(Before(j, ok), e), e)]
           /\ file'["peaks"] = WithSample(Before(j, ok), e)
           /\ \A p \in Proc : memory'[p]["peaks"] =
                IF p = host[j] THEN WithSample(Before(j, ok), e) ELSE memory[p]["peaks"]
  BY PeaksUpdated
<1>2. /\ \A i \in Job : i # j => where'[i] = where[i] /\ value'[i] = value[i]
      /\ where[j] = "locked" /\ where'[j] = "updated"
      /\ UNCHANGED <<hashes, hashed, host, sampled, now>>
  BY UpdateFacts, CellFacts
<1>3. "peaks" \notin forgot /\ j \in Job /\ \A i \in Job : host[i] \in Proc
  BY CellFacts DEF Update, Remembers, RiskTypeOK
<1>4. \A i \in Sampler : i # j => where[i] \notin InUse
  BY <1>2, <1>3, OneInUse, CellFacts DEF InUse
<1>5. Sampling = {} /\ Sampling' = {j} /\ \A i \in Sampler : where[i] # "stored"
  BY <1>2, <1>4, CellFacts DEF Sampling, InUse
<1>6. PICK q \in Seq(Sample) :
        /\ file'["peaks"] = q /\ Kept(q, Append(sampled, Taken(j)'), now)
        /\ \A p \in Proc : memory'[p]["peaks"] = IF p = host[j] THEN q ELSE memory[p]["peaks"]
  <2>1. Kept(Before(j, ok), sampled, now)
    BY <1>1, <1>3, <1>5, BeforeKept
  <2>2. Kept(WithSample(Before(j, ok), e), Append(sampled, [equity |-> e, time |-> now]), now)
    BY <1>1, <2>1, KeptMore, SamplesTyped
  <2>3. Taken(j)' = [equity |-> e, time |-> now]
    BY <1>1 DEF Taken
  <2> QED BY <1>1, <2>2, <2>3
<1>7. SharedPeaks /\ OwnPeaks
  BY <1>3 DEF PeaksKept
<1>8. SharedPeaks'
  <2> SUFFICES ASSUME hashes PROVE SharedPeaks'
    BY <1>2 DEF SharedPeaks
  <2>1. \A i \in Sampler : where'[i] = "updated" => i = j
    BY <1>2, <1>4, CellFacts DEF InUse
  <2>2. memory'[host[j]]["peaks"] = q
    BY <1>3, <1>6
  <2>3. \A i \in Sampler : where'[i] # "stored"
    BY <1>2, <1>5, CellFacts
  <2>4. Kept(hashed["peaks"], sampled, now)
    BY <1>5, <1>7 DEF SharedPeaks
  <2> QED BY <1>2, <1>5, <1>6, <2>1, <2>2, <2>3, <2>4 DEF SharedPeaks
<1>9. OwnPeaks'
  <2> SUFFICES ASSUME ~hashes, NEW i \in Job,
                      NEW v \in {memory'[host[i]]["peaks"], file'["peaks"]}
               PROVE  v = q
    BY <1>2, <1>5, <1>6 DEF OwnPeaks
  <2>1. host[i] = host[j]
    BY <1>3 DEF LocksRight, OneHost
  <2> QED BY <1>3, <1>6, <2>1
<1> QED BY <1>8, <1>9

LEMMA PeaksKeptStore ==
  ASSUME RiskTypeOK, LocksRight, PeaksKept, NEW j \in Sampler, Store(j)
  PROVE  PeaksKept'
<1> SUFFICES ASSUME "peaks" \notin forgot' PROVE (SharedPeaks /\ OwnPeaks)'
  BY DEF PeaksKept
<1>1. /\ \A i \in Job : i # j => where'[i] = where[i]
      /\ where[j] = "updated" /\ where'[j] = "stored"
      /\ UNCHANGED <<hashes, memory, file, host, value, sampled, now>>
  BY StoreFacts, CellFacts
<1>2. "peaks" \notin forgot /\ j \in Job /\ SharedPeaks /\ OwnPeaks
  BY CellFacts DEF Store, Remembers, PeaksKept
<1>3. hashes => hashed'["peaks"] = memory[host[j]]["peaks"]
  <2>1. DOMAIN hashed = Cell
    BY DEF RiskTypeOK, CellValue
  <2>2. PICK ok \in BOOLEAN :
           /\ Remembers("peaks", ok)
           /\ hashed' = IF hashes /\ ok THEN [hashed EXCEPT !["peaks"] = Written(j)] ELSE hashed
    BY StoreFacts, CellFacts
  <2>3. ok
    BY <2>2 DEF Remembers
  <2> QED BY <2>1, <2>2, <2>3, CellFacts DEF Written
<1>4. \A i \in Sampler : i # j => where[i] \notin InUse
  BY <1>1, <1>2, OneInUse, CellFacts DEF InUse
<1>5. Sampling' = {j} /\ Sampling = {j} /\ \A i \in Job : Taken(i)' = Taken(i)
  BY <1>1, <1>4, CellFacts DEF Sampling, InUse, Taken
<1>6. \A i \in Sampler : where'[i] # "updated" /\ (where'[i] = "stored" => i = j)
  BY <1>1, <1>4, CellFacts DEF InUse
<1>7. SharedPeaks'
  <2> SUFFICES ASSUME hashes PROVE SharedPeaks'
    BY <1>1 DEF SharedPeaks
  <2>1. Kept(hashed'["peaks"], Append(sampled, Taken(j)), now)
    BY <1>1, <1>2, <1>3 DEF SharedPeaks
  <2> QED BY <1>1, <1>2, <1>5, <1>6, <2>1 DEF SharedPeaks
<1>8. OwnPeaks'
  BY <1>1, <1>2, <1>5, CellFacts DEF OwnPeaks, Sampling
<1> QED BY <1>7, <1>8

LEMMA PeaksKeptRelease ==
  ASSUME RiskTypeOK, LocksRight, PeaksKept, NEW j \in Sampler, Release(j)
  PROVE  PeaksKept'
<1> SUFFICES ASSUME "peaks" \notin forgot PROVE (SharedPeaks /\ OwnPeaks)'
  BY DEF PeaksKept, Release
<1>1. /\ \A i \in Job : i # j => where'[i] = where[i]
      /\ where[j] = "stored" /\ where'[j] \in {"done", "failed"}
      /\ sampled' = Append(sampled, Taken(j))
      /\ UNCHANGED <<hashes, hashed, memory, file, host, value, now>>
  <2>1. \E w \in {"done", "failed"} : Goes(j, w)
    BY DEF Release
  <2>2. /\ where'[j] \in {"done", "failed"}
        /\ \A i \in Job : i # j => where'[i] = where[i]
    BY <2>1, MovesFacts, CellFacts DEF Where
  <2> QED BY <2>2, CellFacts DEF Release, Taken
<1>2. j \in Job /\ SharedPeaks /\ OwnPeaks
  BY CellFacts DEF PeaksKept
<1>3. \A i \in Sampler : i # j => where[i] \notin InUse
  BY <1>1, OneInUse, CellFacts DEF InUse
<1>4. Sampling' = {} /\ j \in Sampling /\ \A i \in Sampler : where'[i] \notin {"updated", "stored"}
  BY <1>1, <1>3, CellFacts DEF Sampling, InUse
<1>5. SharedPeaks'
  <2> SUFFICES ASSUME hashes PROVE SharedPeaks'
    BY <1>1 DEF SharedPeaks
  <2>1. Kept(hashed["peaks"], Append(sampled, Taken(j)), now)
    BY <1>1, <1>2 DEF SharedPeaks
  <2>2. Append(sampled, Taken(j)) # <<>>
    BY <1>4, SamplesTyped
  <2>3. hashed["peaks"] # NoValue
    BY <2>1, <2>2 DEF Kept
  <2> QED BY <1>1, <1>4, <2>1, <2>3 DEF SharedPeaks
<1>6. OwnPeaks'
  BY <1>1, <1>2, <1>4 DEF OwnPeaks
<1> QED BY <1>5, <1>6

LEMMA PeaksKeptDie ==
  ASSUME RiskTypeOK, PeaksKept, NEW p \in Proc, Die(p)
  PROVE  PeaksKept'
<1> SUFFICES ASSUME "peaks" \notin forgot' PROVE (SharedPeaks /\ OwnPeaks)'
  BY DEF PeaksKept
<1>1. "peaks" \notin forgot /\ SharedPeaks /\ OwnPeaks /\ \A i \in Job : host[i] \in Proc
  BY DEF Die, PeaksKept, RiskTypeOK
<1>2. \A j \in Sampler : host[j] = p => where[j] \notin {"updated", "stored"}
  BY DEF Die
<1>3. /\ \A i \in Proc : memory'[i]["peaks"] = IF i = p THEN NoValue ELSE memory[i]["peaks"]
      /\ UNCHANGED <<hashes, hashed, file, host, value, sampled, now>>
  BY CellFacts DEF Die, RiskTypeOK, Nothing
<1>4. \A j \in Sampler :
        /\ where'[j] = where[j] \/ {where[j], where'[j]} \cap {"updated", "stored"} = {}
        /\ where[j] \in {"updated", "stored"} => host[j] # p
  BY <1>2, CellFacts DEF Die, RiskTypeOK
<1>5. Sampling' = Sampling /\ \A j \in Job : Taken(j)' = Taken(j)
  BY <1>3, <1>4 DEF Sampling, Taken
<1>6. SharedPeaks'
  BY <1>1, <1>3, <1>4, <1>5, CellFacts DEF SharedPeaks
<1>7. OwnPeaks'
  BY <1>1, <1>3, <1>5, CellFacts DEF OwnPeaks, Sampling
<1> QED BY <1>6, <1>7

LEMMA PeaksKeptClock ==
  ASSUME RiskTypeOK, RiskTypeOK', PeaksKept, Clock
  PROVE  PeaksKept'
<1> SUFFICES ASSUME "peaks" \notin forgot PROVE (SharedPeaks /\ OwnPeaks)'
  BY DEF PeaksKept, Clock
<1>1. SharedPeaks /\ OwnPeaks
  BY DEF PeaksKept
<1>2. UNCHANGED <<hashes, hashed, memory, file, host, where, value, sampled>>
      /\ now \in Int /\ now' \in Int /\ now <= now'
  BY RiskAssumption DEF Clock, RiskTypeOK
<1>3. Sampling' = Sampling /\ \A j \in Job : Taken(j)' = Taken(j)
  BY <1>2 DEF Sampling, Taken
<1>4. /\ \A v : Kept(v, sampled, now) => Kept(v, sampled, now')
      /\ \A v, j : j \in Sampling /\ Kept(v, Append(sampled, Taken(j)), now) =>
           Kept(v, Append(sampled, Taken(j)), now')
  BY <1>2, SamplesTyped, KeptLater
<1>5. SharedPeaks'
  BY <1>1, <1>2, <1>3, <1>4, CellFacts DEF SharedPeaks, Sampling
<1>6. OwnPeaks'
  BY <1>1, <1>2, <1>3, <1>4, CellFacts DEF OwnPeaks, Sampling
<1> QED BY <1>5, <1>6

LEMMA PeaksKeptStep ==
  ASSUME RiskTypeOK, RiskTypeOK', LocksRight, PeaksKept, RiskNext
  PROVE  PeaksKept'
<1>0. \A j \in Job : host[j] \in Proc
  BY DEF RiskTypeOK
<1>1. ASSUME NEW s \in Check, StartRead(s) \/ ReadLosses(s)
      PROVE  PeaksKept'
  <2>1. UNCHANGED <<hashes, hashed, memory, file, host, sampled, now, forgot>>
    BY <1>1 DEF StartRead, ReadLosses
  <2>2. \A j \in Sampler : where'[j] = where[j] /\ value'[j] = value[j]
    BY <1>1, LossesSought, CellFacts DEF StartRead, Goes, RiskTypeOK
  <2> QED BY <1>0, <2>1, <2>2, PeaksAlone
<1>2. ASSUME NEW s \in Check, EndRead(s)
      PROVE  PeaksKept'
  <2>1. /\ UNCHANGED <<hashes, hashed, file, host, sampled, now, forgot>>
        /\ \A i \in Job : i # s => where'[i] = where[i] /\ value'[i] = value[i]
        /\ \A p \in Proc : memory'[p]["peaks"] = memory[p]["peaks"]
    BY <1>2, LossesLooked
  <2> QED BY <1>0, <2>1, PeaksAlone, CellFacts
<1>3. ASSUME NEW j \in Writer, Lock(j) \/ LockRefused(j)
      PROVE  PeaksKept'
  <2>1. /\ UNCHANGED <<hashes, hashed, memory, file, host, value, sampled, now, forgot>>
        /\ \A i \in Job : i # j => where'[i] = where[i]
        /\ where[j] = "new" /\ where'[j] \in {"locked", "failed"}
    BY <1>3, CellFacts DEF Lock, LockRefused, Goes, RiskTypeOK
  <2>2. \A i \in Sampler : where'[i] = where[i] \/ {where[i], where'[i]} \cap {"updated", "stored"} = {}
    BY <2>1, CellFacts
  <2> QED BY <1>0, <2>1, <2>2, PeaksAlone
<1>4. ASSUME NEW j \in Loss, Update(j)
      PROVE  PeaksKept'
  <2>1. /\ \A i \in Job : i # j => where'[i] = where[i] /\ value'[i] = value[i]
        /\ UNCHANGED <<hashes, hashed, host, sampled, now>>
    BY <1>4, UpdateFacts, CellFacts
  <2>2. forgot \subseteq forgot'
    BY <1>4 DEF Update, Remembers
  <2>3. file'["peaks"] = file["peaks"] /\ \A p \in Proc : memory'[p]["peaks"] = memory[p]["peaks"]
    <3>1. /\ file' = [file EXCEPT !["losses"] = memory'[host[j]]["losses"]]
          /\ Keeps(j, "losses", value'[j]) /\ j \in Job
      BY <1>4, CellFacts DEF Update
    <3> QED BY <3>1, KeepsFacts, CellFacts DEF RiskTypeOK, CellValue
  <2> QED BY <1>0, <2>1, <2>2, <2>3, PeaksAlone, CellFacts
<1>5. ASSUME NEW j \in Loss, Store(j)
      PROVE  PeaksKept'
  <2>1. /\ \A i \in Job : i # j => where'[i] = where[i]
        /\ UNCHANGED <<hashes, memory, file, host, value, sampled, now>>
    BY <1>5, StoreFacts, CellFacts
  <2>2. forgot \subseteq forgot' /\ hashed'["peaks"] = hashed["peaks"]
    BY <1>5, CellFacts DEF Store, Remembers, RiskTypeOK, CellValue
  <2> QED BY <1>0, <2>1, <2>2, PeaksAlone, CellFacts
<1>6. ASSUME NEW j \in Loss, Release(j)
      PROVE  PeaksKept'
  <2>1. /\ \A i \in Job : i # j => where'[i] = where[i]
        /\ UNCHANGED <<hashes, hashed, memory, file, host, value, sampled, now, forgot>>
    BY <1>6, CellFacts DEF Release, Goes, RiskTypeOK
  <2> QED BY <1>0, <2>1, PeaksAlone, CellFacts
<1>7. ASSUME NEW j \in Sampler, Update(j) \/ Store(j) \/ Release(j)
      PROVE  PeaksKept'
  BY <1>7, PeaksKeptUpdate, PeaksKeptStore, PeaksKeptRelease
<1>8. ASSUME NEW c \in Cell, LoseKey(c) \/ ExpireKey(c)
      PROVE  PeaksKept'
  <2>1. UNCHANGED <<hashes, hashed, memory, file, host, where, value, sampled, now>>
        /\ forgot \subseteq forgot'
    BY <1>8 DEF LoseKey, ExpireKey
  <2> QED BY <1>0, <2>1, PeaksAlone
<1>9. ASSUME NEW p \in Proc, Die(p)
      PROVE  PeaksKept'
  BY <1>9, PeaksKeptDie
<1>10. CASE Clock
  BY <1>10, PeaksKeptClock
<1> QED
  BY <1>1, <1>2, <1>3, <1>4, <1>5, <1>6, <1>7, <1>8, <1>9, <1>10, CellFacts
     DEF RiskNext, Writer

\* A sampler updates, and nothing else takes it there.
LEMMA OnlyUpdate ==
  ASSUME RiskTypeOK, [RiskNext]_riskVars, NEW j \in Sampler,
         where[j] = "locked", where'[j] = "updated"
  PROVE  Update(j)
<1>1. j \in Job /\ j \in Writer /\ j \notin Check
  BY CellFacts
<1>2. ASSUME NEW i \in Job, NEW w, Goes(i, w), i # j \/ w # "updated"
      PROVE  FALSE
  BY <1>1, <1>2 DEF Goes, RiskTypeOK
<1>3. ASSUME NEW s \in Check, StartRead(s) \/ ReadLosses(s) \/ EndRead(s)
      PROVE  FALSE
  BY <1>1, <1>2, <1>3, CellFacts DEF StartRead, ReadLosses, EndRead
<1>4. ASSUME NEW i \in Writer, Lock(i) \/ LockRefused(i) \/ Store(i) \/ Release(i)
      PROVE  FALSE
  BY <1>1, <1>2, <1>4, CellFacts DEF Lock, LockRefused, Store, Release
<1>5. ASSUME NEW i \in Writer, Update(i)
      PROVE  i = j
  BY <1>2, <1>5, CellFacts DEF Update
<1>6. ASSUME \/ \E c \in Cell : LoseKey(c) \/ ExpireKey(c)
             \/ Clock \/ UNCHANGED riskVars
      PROVE  FALSE
  BY <1>6 DEF LoseKey, ExpireKey, Clock, riskVars
<1>7. ASSUME NEW p \in Proc, Die(p)
      PROVE  FALSE
  BY <1>1, <1>7 DEF Die
<1> QED BY <1>3, <1>4, <1>5, <1>6, <1>7 DEF RiskNext

PeaksInv == RiskTypeOK /\ LocksRight /\ PeaksKept

LEMMA PeaksInvHolds == RiskSpec => []PeaksInv
<1>1. RiskInit => PeaksInv
  BY RiskTypesStart, LocksStart, PeaksKeptStart DEF PeaksInv
<1>2. PeaksInv /\ RiskTypeOK' /\ [RiskNext]_riskVars => PeaksInv'
  <2>1. PeaksInv /\ RiskTypeOK' /\ RiskNext => PeaksInv'
    BY LocksStep, PeaksKeptStep DEF PeaksInv
  <2>2. PeaksInv /\ RiskTypeOK' /\ UNCHANGED riskVars => PeaksInv'
    BY DEF riskVars, PeaksInv, LocksRight, Owners, Owned, OneHost, CellOf, PeaksKept,
       SharedPeaks, OwnPeaks, Sampling, Taken
  <2> QED BY <2>1, <2>2
<1> QED BY <1>1, <1>2, RiskTypeCorrect, PTL DEF RiskSpec

\* The newest samples, and the one of the call.
LEMMA LatelyFacts ==
  ASSUME RiskTypeOK, NEW x, x.equity \in Equity, x.time \in 0..MaxTime, NEW e
  PROVE  LET all == Append(sampled, [equity |-> x.equity, time |-> x.time])
         IN  Falling(Append(Lately, x), e) <=>
               \E h \in Window : \E i \in 1..Len(all) :
                 /\ i > Len(all) - MaxSamples /\ Within(all[i], h)
                 /\ all[i].equity - e >= Falls[h]
<1> DEFINE y == [equity |-> x.equity, time |-> x.time]
           all == Append(sampled, y)
           n == Len(sampled)
           b == IF n < MaxSamples THEN 1 ELSE n - MaxSamples + 2
           recent == Append(Lately, x)
<1>1. /\ sampled \in Seq(Sample) /\ n \in Nat /\ y \in Sample
      /\ Len(all) = n + 1 /\ all[n + 1] = y /\ \A i \in 1..n : all[i] = sampled[i]
  BY DEF RiskTypeOK, Sample
<1>2. /\ Len(Lately) = n - b + 1 /\ \A i \in 1..(n - b + 1) : Lately[i] = sampled[b + i - 1]
      /\ Lately \in Seq(Sample) /\ b \in 1..(n + 1)
  <2>1. b \in 1..(n + 1) /\ b \in Int
    BY <1>1, WindowFacts
  <2>2. Lately = SubSeq(sampled, b, n) /\ \A i \in b..n : sampled[i] \in Sample
    BY <1>1, <2>1 DEF Lately
  <2> HIDE DEF b, n
  <2>3. /\ Len(SubSeq(sampled, b, n)) = IF b <= n THEN n - b + 1 ELSE 0
        /\ \A i \in 1..(n - b + 1) : SubSeq(sampled, b, n)[i] = sampled[b + i - 1]
        /\ SubSeq(sampled, b, n) \in Seq(Sample)
    BY <1>1, <2>1, <2>2, SubSeqProperties
  <2> QED BY <1>1, <2>1, <2>2, <2>3
<1>3. /\ DOMAIN recent = 1..(n - b + 2)
      /\ \A i \in 1..(n - b + 1) : recent[i] = Lately[i]
      /\ recent[n - b + 2] = x
  BY <1>1, <1>2
<1>4. \A h : /\ Within(x, h) <=> Within(y, h)
             /\ x.equity = y.equity
  BY DEF Within
<1>5. \A i \in 1..(n + 1) : i > n + 1 - MaxSamples <=> i >= b
  BY <1>1, WindowFacts
<1> HIDE DEF recent, y, all, b
<1>6. ASSUME NEW h \in Window, NEW k \in 1..(n - b + 2)
      PROVE  /\ Within(recent[k], h) <=> Within(all[b + k - 1], h)
             /\ recent[k].equity = all[b + k - 1].equity
             /\ b + k - 1 \in 1..(n + 1) /\ b + k - 1 >= b
  <2>1. CASE k = n - b + 2
    BY <1>1, <1>2, <1>3, <1>4, <2>1
  <2>2. CASE k # n - b + 2
    <3>1. k \in 1..(n - b + 1) /\ b + k - 1 \in 1..n
      <4>1. n \in Nat /\ b \in 1..(n + 1)
        BY <1>1, <1>2
      <4> HIDE DEF n
      <4> QED BY <4>1, <2>2
    <3>2. recent[k] = all[b + k - 1]
      BY <1>1, <1>2, <1>3, <3>1
    <3> QED BY <1>1, <1>2, <3>1, <3>2
  <2> QED BY <2>1, <2>2
<1>7. Falling(recent, e) <=>
        \E h \in Window : \E k \in 1..(n - b + 2) :
          Within(all[b + k - 1], h) /\ all[b + k - 1].equity - e >= Falls[h]
  BY <1>3, <1>6 DEF Falling
<1>8. \A i \in 1..(n + 1) : i >= b =>
        i - b + 1 \in 1..(n - b + 2) /\ b + (i - b + 1) - 1 = i
  BY <1>1, <1>2
<1>9. Falling(recent, e) <=>
        \E h \in Window : \E i \in 1..Len(all) :
          /\ i > Len(all) - MaxSamples /\ Within(all[i], h) /\ all[i].equity - e >= Falls[h]
  BY <1>1, <1>5, <1>6, <1>7, <1>8, WindowFacts
<1> QED BY <1>9 DEF recent, all, y

\* check_drawdown_circuit_breaker trims its samples by age and by number and
\* falls back from the hash to the memory and to the file (core/account_risk.py):
\* unless peaks are forgotten, it blocks an equity exactly when it has fallen by
\* the limit of a window from one of the last samples in it, for any equities,
\* windows, limits, clock, processes and any number of kept samples.
THEOREM SamplersSeePeaks == RiskSpec => PeaksSeen
<1>1. PeaksInv /\ PeaksInv' /\ [RiskNext]_riskVars =>
        [\A s \in Sampler :
           where[s] = "locked" /\ where'[s] = "updated" /\ "peaks" \notin forgot' =>
             value'[s].blocked = Falling(Append(Lately, value'[s]), value'[s].equity)]_riskVars
  <2> SUFFICES ASSUME PeaksInv, PeaksInv', [RiskNext]_riskVars, NEW s \in Sampler,
                      where[s] = "locked", where'[s] = "updated", "peaks" \notin forgot'
               PROVE  value'[s].blocked = Falling(Append(Lately, value'[s]), value'[s].equity)
    OBVIOUS
  <2>1. RiskTypeOK /\ LocksRight /\ PeaksKept /\ s \in Job /\ Update(s)
    BY OnlyUpdate, CellFacts DEF PeaksInv
  <2>2. PICK ok \in BOOLEAN, e \in Equity :
           /\ ok \/ "peaks" \in forgot'
           /\ Before(s, ok) \in Seq(Sample) \cup {NoValue}
           /\ WithSample(Before(s, ok), e) \in Seq(Sample)
           /\ value'[s] = [equity |-> e, time |-> now,
                           blocked |-> Falling(WithSample(Before(s, ok), e), e)]
    BY <2>1, PeaksUpdated
  <2>3. "peaks" \notin forgot /\ Sampling = {}
    <3>1. "peaks" \notin forgot
      BY <2>1 DEF Update, Remembers
    <3>2. \A i \in Sampler : i # s => where[i] \notin InUse
      BY <2>1, <3>1, OneInUse, CellFacts DEF InUse
    <3> QED BY <3>1, <3>2 DEF Sampling, InUse
  <2> DEFINE x == value'[s]
             y == [equity |-> e, time |-> now]
             all == Append(sampled, y)
             v == WithSample(Before(s, ok), e)
  <2>4. Kept(v, all, now)
    BY <2>1, <2>2, <2>3, BeforeKept, KeptMore, SamplesTyped
  <2>5. all \in Seq(Sample) /\ all # <<>> /\ now \in 0..MaxTime
    BY <2>1, SamplesTyped DEF Sample
  <2>6. Falling(v, e) <=>
          \E h \in Window : \E i \in 1..Len(all) :
            /\ i > Len(all) - MaxSamples /\ Within(all[i], h) /\ all[i].equity - e >= Falls[h]
    BY <2>1, <2>2, <2>4, <2>5, KeptFalls
  <2>7. x.equity = e /\ x.time = now /\ x.blocked = Falling(v, e)
    BY <2>2
  <2> HIDE DEF x, v
  <2>8. Falling(Append(Lately, x), e) <=>
          \E h \in Window : \E i \in 1..Len(all) :
            /\ i > Len(all) - MaxSamples /\ Within(all[i], h) /\ all[i].equity - e >= Falls[h]
    BY <2>1, <2>5, <2>7, LatelyFacts
  <2>9. Falling(v, e) \in BOOLEAN /\ Falling(Append(Lately, x), e) \in BOOLEAN
    BY DEF Falling
  <2> QED BY <2>6, <2>7, <2>8, <2>9 DEF x
<1> QED BY <1>1, PeaksInvHolds, PTL DEF RiskSpec, PeaksSeen
=============================================================================
