-------------------------- MODULE TakeProfitProofs --------------------------
(***************************************************************************)
(* The take-profit orders of a position, what is booked of them and the    *)
(* stop that follows them (TakeProfits), for any number of targets, of     *)
(* orders, and of slips.                                                   *)
(***************************************************************************)
EXTENDS TakeProfits, FiniteSetTheorems, WellFoundedInduction, TLAPS

-----------------------------------------------------------------------------
(***************************************************************************)
(* Sums over sets of orders.                                               *)
(***************************************************************************)
LEMMA Upwards ==
  ASSUME NEW A, 0 \in A, \A n \in Nat : n \in A => n + 1 \in A
  PROVE  \A n \in Nat : n \in A
<1> DEFINE B == Nat \ A
           R == OpToRel(<, Nat)
<1> SUFFICES ASSUME B # {} PROVE FALSE
  OBVIOUS
<1>1. PICK x \in B : \A y \in B : ~ (<<y, x>> \in R)
  <2>1. IsWellFoundedOn(R, Nat)
    BY NatLessThanWellFounded
  <2> HIDE DEF R
  <2>2. B \subseteq Nat
    OBVIOUS
  <2> HIDE DEF B
  <2> QED BY <2>1, <2>2, WFMin
<1>2. \A y \in B : ~(y < x)
  BY <1>1 DEF OpToRel
<1>3. x # 0 /\ x - 1 \in Nat /\ x - 1 < x
  OBVIOUS
<1>4. x - 1 \in A
  BY <1>2, <1>3
<1> QED BY <1>3, <1>4

LEMMA TargetFacts ==
  /\ Levels \in Nat \ {0} /\ MaxTargets \in Nat /\ MaxSlips \in Nat
  /\ Level \subseteq Target /\ Level \subseteq Nat /\ Target \subseteq Nat
  /\ \A S \in SUBSET Target : IsFiniteSet(S) /\ Cardinality(S) \in Nat
<1>1. Levels \in Nat \ {0} /\ MaxTargets \in Nat /\ MaxTargets >= Levels /\ MaxSlips \in Nat
  BY TargetsAssumption
<1>2. IsFiniteSet(Target)
  BY <1>1, FS_Interval DEF Target
<1>3. \A S \in SUBSET Target : IsFiniteSet(S) /\ Cardinality(S) \in Nat
  BY <1>2, FS_Subset, FS_CardinalityType
<1> QED BY <1>1, <1>3 DEF Level, Target

\* Induction over sets of orders: a set is in A if all smaller ones are.
LEMMA Smaller ==
  ASSUME NEW A,
         \A S \in SUBSET Target : (\A T \in SUBSET S : T # S => T \in A) => S \in A
  PROVE  \A S \in SUBSET Target : S \in A
<1> DEFINE C == {n \in Nat : \A S \in SUBSET Target : Cardinality(S) <= n => S \in A}
<1>1. ASSUME NEW S \in SUBSET Target, NEW T \in SUBSET S, T # S
      PROVE  T \in SUBSET Target /\ Cardinality(T) < Cardinality(S)
             /\ Cardinality(T) \in Nat /\ Cardinality(S) \in Nat
  <2>1. IsFiniteSet(S) /\ T \in SUBSET Target
    BY TargetFacts
  <2>2. /\ Cardinality(T) <= Cardinality(S)
        /\ Cardinality(S) = Cardinality(T) => S = T
    BY <2>1, FS_Subset
  <2> QED BY <1>1, <2>1, <2>2, TargetFacts
<1>2. 0 \in C
  <2> SUFFICES ASSUME NEW S \in SUBSET Target, Cardinality(S) <= 0 PROVE S \in A
    OBVIOUS
  <2>1. ASSUME NEW T \in SUBSET S, T # S PROVE T \in A
    BY <1>1, <2>1
  <2> QED BY <2>1
<1>3. ASSUME NEW n \in Nat, n \in C PROVE n + 1 \in C
  <2> SUFFICES ASSUME NEW S \in SUBSET Target, Cardinality(S) <= n + 1 PROVE S \in A
    OBVIOUS
  <2>1. \A T \in SUBSET S : T # S => T \in A
    BY <1>1, <1>3
  <2> QED BY <2>1
<1> HIDE DEF C
<1>4. \A n \in Nat : n \in C
  BY <1>2, <1>3, Upwards
<1>5. \A S \in SUBSET Target : S \in A
  BY <1>4, TargetFacts DEF C
<1> QED BY <1>5

Amounts(w, S) == MapThenSumSet(LAMBDA t : w[t].amount, S)
Pick(S) == CHOOSE x \in S : TRUE
Rest(S) == S \ {Pick(S)}

\* The function whose value MapThenSumSet takes.
Adding(g, w, S) ==
    g = [s \in SUBSET S |-> IF s = {} THEN 0 ELSE w[Pick(s)].amount + g[s \ {Pick(s)}]]

LEMMA AmountsFold ==
  ASSUME NEW w, NEW S
  PROVE  Amounts(w, S) = (CHOOSE g : Adding(g, w, S))[S]
BY Zenon DEF Amounts, MapThenSumSet, MapThenFoldSet, Adding, Pick

\* It exists, and all of its kind agree.
LEMMA AmountsStep ==
  ASSUME NEW w
  PROVE  \A S \in SUBSET Target :
           /\ Amounts(w, S) = IF S = {} THEN 0 ELSE w[Pick(S)].amount + Amounts(w, Rest(S))
           /\ \A T, g : S \subseteq T /\ Adding(g, w, T) => g[S] = Amounts(w, S)
<1> DEFINE Step(S) ==
             Amounts(w, S) = IF S = {} THEN 0 ELSE w[Pick(S)].amount + Amounts(w, Rest(S))
           Same(S) == \A T, g : S \subseteq T /\ Adding(g, w, T) => g[S] = Amounts(w, S)
           A == {S \in SUBSET Target : Step(S) /\ Same(S)}
<1>1. ASSUME NEW S \in SUBSET Target, \A T \in SUBSET S : T # S => T \in A
      PROVE  S \in A
  <2> DEFINE G == [s \in SUBSET S |->
                     IF s = {} THEN 0 ELSE w[Pick(s)].amount + Amounts(w, Rest(s))]
  <2>1. \A s \in SUBSET S : s # {} =>
          /\ Pick(s) \in s /\ Rest(s) \in SUBSET S /\ Rest(s) # S /\ Rest(s) \in A
          /\ Rest(s) = s \ {Pick(s)}
    BY <1>1 DEF Pick, Rest
  <2>2. \A s \in SUBSET S : s # {} => G[Rest(s)] = Amounts(w, Rest(s))
    BY <2>1
  <2>3. Adding(G, w, S)
    BY <2>1, <2>2 DEF Adding
  <2>4. ASSUME NEW T, NEW g, S \subseteq T, Adding(g, w, T)
        PROVE  g[S] = IF S = {} THEN 0 ELSE w[Pick(S)].amount + Amounts(w, Rest(S))
    <3>1. g[S] = IF S = {} THEN 0 ELSE w[Pick(S)].amount + g[S \ {Pick(S)}]
      BY <2>4 DEF Adding
    <3>2. CASE S = {}
      BY <3>1, <3>2
    <3>3. CASE S # {}
      <4>1. g[Rest(S)] = Amounts(w, Rest(S))
        BY <2>1, <2>4, <3>3
      <4> QED BY <2>1, <3>1, <3>3, <4>1
    <3> QED BY <3>2, <3>3
  <2>5. Step(S)
    <3>1. Adding((CHOOSE g : Adding(g, w, S)), w, S)
      BY <2>3, Zenon
    <3> QED BY <2>4, <3>1, AmountsFold
  <2>6. Same(S)
    BY <2>4, <2>5
  <2> QED BY <2>5, <2>6
<1> HIDE DEF A
<1>2. \A S \in SUBSET Target : S \in A
  BY <1>1, Smaller
<1> QED BY <1>2 DEF A

LEMMA AmountsNat ==
  ASSUME NEW w, NEW S \in SUBSET Target, \A t \in S : w[t].amount \in Nat
  PROVE  Amounts(w, S) \in Nat
<1> DEFINE A == {T \in SUBSET Target : T \subseteq S => Amounts(w, T) \in Nat}
<1>1. ASSUME NEW T \in SUBSET Target, \A U \in SUBSET T : U # T => U \in A
      PROVE  T \in A
  <2> SUFFICES ASSUME T \subseteq S PROVE Amounts(w, T) \in Nat
    OBVIOUS
  <2>1. Amounts(w, T) = IF T = {} THEN 0 ELSE w[Pick(T)].amount + Amounts(w, Rest(T))
    BY AmountsStep
  <2>2. T # {} => Pick(T) \in T /\ Rest(T) \in SUBSET T /\ Rest(T) # T
    BY DEF Pick, Rest
  <2> QED BY <1>1, <2>1, <2>2
<1> HIDE DEF A
<1>2. \A T \in SUBSET Target : T \in A
  BY <1>1, Smaller
<1> QED BY <1>2 DEF A

\* It does not matter in which order the amounts are added.
LEMMA AmountsLess ==
  ASSUME NEW w, NEW S \in SUBSET Target, \A t \in S : w[t].amount \in Nat, NEW x \in S
  PROVE  Amounts(w, S) = w[x].amount + Amounts(w, S \ {x})
<1> DEFINE P(T, y) == Amounts(w, T) = w[y].amount + Amounts(w, T \ {y})
           A == {T \in SUBSET Target : T \subseteq S => \A y \in T : P(T, y)}
<1>1. ASSUME NEW T \in SUBSET Target, \A U \in SUBSET T : U # T => U \in A
      PROVE  T \in A
  <2> SUFFICES ASSUME T \subseteq S, NEW y \in T PROVE P(T, y)
    OBVIOUS
  <2> DEFINE p == Pick(T)
  <2>1. p \in T /\ Rest(T) = T \ {p}
    BY DEF Pick, Rest
  <2>2. P(T, p)
    BY <2>1, AmountsStep
  <2> HIDE DEF p
  <2>3. CASE y # p
    <3> DEFINE U == T \ {p}
               V == T \ {y}
    <3>1. U \in SUBSET T /\ U # T /\ y \in U /\ V \in SUBSET T /\ V # T /\ p \in V
      BY <2>1, <2>3
    <3>2. U \in A /\ V \in A /\ U \subseteq S /\ V \subseteq S
      BY <1>1, <3>1
    <3> HIDE DEF P
    <3>3. P(U, y) /\ P(V, p)
      BY <3>1, <3>2
    <3>4. U \ {y} = V \ {p} /\ U \ {y} \in SUBSET Target
          /\ \A t \in U \ {y} : w[t].amount \in Nat
      BY <3>1, <3>2
    <3>5. Amounts(w, U \ {y}) \in Nat /\ w[y].amount \in Nat /\ w[p].amount \in Nat
      <4> HIDE DEF U, V
      <4>1. Amounts(w, U \ {y}) \in Nat
        BY <3>4, AmountsNat
      <4> QED BY <2>1, <4>1
    <3>6. /\ Amounts(w, T) = w[p].amount + Amounts(w, U)
          /\ Amounts(w, U) = w[y].amount + Amounts(w, U \ {y})
          /\ Amounts(w, V) = w[p].amount + Amounts(w, V \ {p})
      BY <2>2, <3>3 DEF P
    <3> HIDE DEF U
    <3>7. Amounts(w, T) = w[y].amount + Amounts(w, V)
      <4> HIDE DEF V
      <4>1. Amounts(w, U \ {y}) = Amounts(w, V \ {p})
        BY <3>4, Zenon
      <4> QED BY <3>5, <3>6, <4>1
    <3> QED BY <3>7 DEF P
  <2> QED BY <2>2, <2>3
<1> HIDE DEF A
<1>2. \A T \in SUBSET Target : T \in A
  BY <1>1, Smaller
<1> QED BY <1>2 DEF A

LEMMA AmountsSame ==
  ASSUME NEW w, NEW v, NEW S \in SUBSET Target, \A t \in S : w[t].amount = v[t].amount
  PROVE  Amounts(w, S) = Amounts(v, S)
<1> DEFINE A == {T \in SUBSET Target : T \subseteq S => Amounts(w, T) = Amounts(v, T)}
<1>1. ASSUME NEW T \in SUBSET Target, \A U \in SUBSET T : U # T => U \in A
      PROVE  T \in A
  <2> SUFFICES ASSUME T \subseteq S PROVE Amounts(w, T) = Amounts(v, T)
    OBVIOUS
  <2>1. Amounts(w, T) = IF T = {} THEN 0 ELSE w[Pick(T)].amount + Amounts(w, Rest(T))
    BY AmountsStep
  <2>2. Amounts(v, T) = IF T = {} THEN 0 ELSE v[Pick(T)].amount + Amounts(v, Rest(T))
    BY AmountsStep
  <2>3. T # {} => Pick(T) \in T /\ Rest(T) \in SUBSET T /\ Rest(T) # T
    BY DEF Pick, Rest
  <2> QED BY <1>1, <2>1, <2>2, <2>3
<1> HIDE DEF A
<1>2. \A T \in SUBSET Target : T \in A
  BY <1>1, Smaller
<1> QED BY <1>2 DEF A

LEMMA AmountsBoth ==
  ASSUME NEW w, NEW S \in SUBSET Target, NEW T \in SUBSET Target, S \cap T = {},
         \A t \in S \cup T : w[t].amount \in Nat
  PROVE  Amounts(w, S \cup T) = Amounts(w, S) + Amounts(w, T)
<1> DEFINE A == {U \in SUBSET Target : U \subseteq T =>
                   Amounts(w, S \cup U) = Amounts(w, S) + Amounts(w, U)}
<1>0. Amounts(w, S) \in Nat
  BY AmountsNat
<1>1. ASSUME NEW U \in SUBSET Target, \A V \in SUBSET U : V # U => V \in A
      PROVE  U \in A
  <2> SUFFICES ASSUME U \subseteq T
               PROVE Amounts(w, S \cup U) = Amounts(w, S) + Amounts(w, U)
    OBVIOUS
  <2>1. CASE U = {}
    <3>1. S \cup U = S
      BY <2>1
    <3>2. Amounts(w, U) = 0
      BY <2>1, AmountsStep
    <3>3. Amounts(w, S \cup U) = Amounts(w, S)
      BY <3>1, Zenon
    <3> QED BY <1>0, <3>2, <3>3
  <2>2. CASE U # {}
    <3>1. PICK x \in U : TRUE
      BY <2>2
    <3> DEFINE V == U \ {x}
    <3>2. V \in SUBSET U /\ V # U /\ V \subseteq T /\ V \in A
      BY <1>1, <3>1
    <3>3. Amounts(w, U) = w[x].amount + Amounts(w, V)
      BY AmountsLess
    <3>4. Amounts(w, S \cup U) = w[x].amount + Amounts(w, S \cup V)
      <4>1. (S \cup U) \ {x} = S \cup V /\ x \in S \cup U /\ S \cup U \in SUBSET Target
            /\ \A t \in S \cup U : w[t].amount \in Nat
        BY <3>1
      <4> HIDE DEF V
      <4> QED BY <4>1, AmountsLess
    <3>5. Amounts(w, V) \in Nat /\ w[x].amount \in Nat
      <4>1. V \in SUBSET Target /\ \A t \in V : w[t].amount \in Nat
        BY <3>2
      <4> HIDE DEF V
      <4> QED BY <4>1, AmountsNat
    <3> HIDE DEF V
    <3>6. Amounts(w, S \cup V) = Amounts(w, S) + Amounts(w, V)
      BY <3>2
    <3> QED BY <1>0, <3>3, <3>4, <3>5, <3>6
  <2> QED BY <2>1, <2>2
<1> HIDE DEF A
<1>2. \A U \in SUBSET Target : U \in A
  BY <1>1, Smaller
<1> QED BY <1>2 DEF A

LEMMA AmountsWithin ==
  ASSUME NEW w, NEW T \in SUBSET Target, NEW S \in SUBSET T, \A t \in T : w[t].amount \in Nat
  PROVE  Amounts(w, S) <= Amounts(w, T) /\ Amounts(w, S) \in Nat /\ Amounts(w, T) \in Nat
<1> DEFINE D == T \ S
<1>1. /\ S \cup D = T /\ S \cap D = {} /\ S \in SUBSET Target /\ D \in SUBSET Target
      /\ \A t \in S \cup D : w[t].amount \in Nat
  OBVIOUS
<1> HIDE DEF D
<1>2. Amounts(w, S) \in Nat /\ Amounts(w, D) \in Nat
  BY <1>1, AmountsNat
<1>3. Amounts(w, T) = Amounts(w, S) + Amounts(w, D)
  BY <1>1, AmountsBoth
<1> QED BY <1>2, <1>3

-----------------------------------------------------------------------------
(***************************************************************************)
(* The values of the variables.                                            *)
(***************************************************************************)
LEMMA LesserOfTwo ==
  ASSUME NEW a \in Nat, NEW b \in Nat
  PROVE  Min({a, b}) \in Nat /\ Min({a, b}) <= a /\ Min({a, b}) <= b
         /\ (Min({a, b}) = a \/ Min({a, b}) = b)
<1>1. \E x \in {a, b} : \A y \in {a, b} : x <= y
  OBVIOUS
<1>2. Min({a, b}) \in {a, b} /\ \A y \in {a, b} : Min({a, b}) <= y
  BY <1>1 DEF Min
<1> QED BY <1>2

LEMMA HighestLevel ==
  ASSUME NEW S \in SUBSET Level
  PROVE  Highest(S) \in 0..Levels
<1> DEFINE A == {T \in SUBSET Target : T = {} \/ \E x \in T : \A y \in T : x >= y}
<1>1. ASSUME NEW T \in SUBSET Target, \A U \in SUBSET T : U # T => U \in A
      PROVE  T \in A
  <2> SUFFICES ASSUME NEW z \in T PROVE \E x \in T : \A y \in T : x >= y
    OBVIOUS
  <2> DEFINE U == T \ {z}
  <2>1. U \in A /\ T \subseteq Nat
    BY <1>1, TargetFacts
  <2>2. CASE U = {}
    BY <2>1, <2>2
  <2>3. CASE U # {}
    <3>1. PICK x \in U : \A y \in U : x >= y
      BY <2>1, <2>3
    <3> QED BY <2>1, <3>1
  <2> QED BY <2>2, <2>3
<1> HIDE DEF A
<1>2. S \in A
  BY <1>1, Smaller, TargetFacts
<1>3. CASE S # {}
  <2>1. \E x \in S : \A y \in S : x >= y
    BY <1>2, <1>3 DEF A
  <2>2. Max(S) \in S
    BY <2>1 DEF Max
  <2>3. Highest(S) = Max(S)
    BY <1>3, Zenon DEF Highest
  <2>4. Max(S) \in 1..Levels
    BY <2>2 DEF Level
  <2> QED BY <2>3, <2>4, TargetFacts
<1> QED BY <1>3, TargetFacts DEF Highest

\* Some open orders have been dropped, and nothing else has happened to them.
Dropping ==
    /\ target' \in [Target -> Order]
    /\ \A t \in Target :
         /\ target'[t].level = target[t].level /\ target'[t].amount = target[t].amount
         /\ \/ target'[t].state = target[t].state
            \/ target[t].state = "open" /\ target'[t].state = "dropped"

LEMMA DroppedOne ==
  ASSUME target \in [Target -> Order], NEW t \in Target, target' = Dropped(t)
  PROVE  Dropping
BY DEF Dropped, Dropping, Order

LEMMA DroppedNone ==
  ASSUME target \in [Target -> Order], target' = target
  PROVE  Dropping
BY DEF Dropping, Order

LEMMA GoneDrops == TargetsTypeOK /\ BookGone => Dropping
<1> SUFFICES ASSUME TargetsTypeOK, BookGone PROVE Dropping
  OBVIOUS
<1>1. PICK S : target' = [t \in Target |-> IF t \in S THEN Dropped(t)[t] ELSE target[t]]
  BY DEF BookGone
<1>2. target \in [Target -> Order]
  BY DEF TargetsTypeOK
<1>3. ASSUME NEW t \in Target
      PROVE  \/ Dropped(t)[t] = target[t]
             \/ /\ target[t].state = "open"
                /\ Dropped(t)[t] = [target[t] EXCEPT !.state = "dropped"]
  <2>1. CASE target[t].state = "open"
    <3>1. Dropped(t) = [target EXCEPT ![t].state = "dropped"]
      BY <2>1 DEF Dropped
    <3> QED BY <1>2, <2>1, <3>1
  <2>2. CASE target[t].state # "open"
    BY <2>2 DEF Dropped
  <2> QED BY <2>1, <2>2
<1>4. ASSUME NEW t \in Target
      PROVE  /\ target'[t] \in Order
             /\ target'[t].level = target[t].level /\ target'[t].amount = target[t].amount
             /\ \/ target'[t].state = target[t].state
                \/ target[t].state = "open" /\ target'[t].state = "dropped"
  <2>1. target'[t] = target[t] \/ target'[t] = Dropped(t)[t]
    BY <1>1
  <2>2. \/ target'[t] = target[t]
        \/ target[t].state = "open" /\ target'[t] = [target[t] EXCEPT !.state = "dropped"]
    BY <1>3, <2>1
  <2> QED BY <1>2, <2>2 DEF Order
<1>5. target' = [t \in Target |-> target'[t]]
  BY <1>1
<1> QED BY <1>4, <1>5 DEF Dropping

\* A new order for the level l, in place of the one that the row has.
LEMMA PlaceFacts ==
  ASSUME TargetsTypeOK, NEW l \in Level, PlaceAgain(l)
  PROVE  /\ placed + 1 \in Target /\ placed' = placed + 1
         /\ target' \in [Target -> Order]
         /\ target'[placed + 1].level = l /\ target'[placed + 1].state = "open"
         /\ \A t \in Target \ {placed + 1} :
              /\ target'[t].level = target[t].level /\ target'[t].amount = target[t].amount
              /\ \/ target'[t].state = target[t].state
                 \/ target[t].state = "open" /\ target'[t].state = "dropped"
         /\ target'[edited.order[l]].state # "open" \/ edited.order[l] = placed + 1
         /\ \/ edited' = [edited EXCEPT !.order[l] = placed + 1] /\ lost' = lost
            \/ edited' = edited /\ lost' = lost \cup {placed + 1}
<1>1. PICK n \in 1..edited.left, known \in BOOLEAN :
         /\ target' = [Dropped(edited.order[l]) EXCEPT
                         ![placed + 1] = [level |-> l, amount |-> n, state |-> "open"]]
         /\ edited' = IF known THEN [edited EXCEPT !.order[l] = placed + 1] ELSE edited
         /\ lost' = IF known THEN lost ELSE lost \cup {placed + 1}
  BY Zenon DEF PlaceAgain
<1> DEFINE o == edited.order[l]
           d == Dropped(o)
<1>2. placed + 1 \in Target /\ placed' = placed + 1
  BY TargetFacts DEF PlaceAgain, TargetsTypeOK, Target
<1>3. o \in Target /\ n \in 0..Levels /\ target \in [Target -> Order]
  BY TargetFacts DEF TargetsTypeOK, TargetRow
<1>4. /\ d \in [Target -> Order]
      /\ \A t \in Target :
           /\ d[t].level = target[t].level /\ d[t].amount = target[t].amount
           /\ \/ d[t].state = target[t].state
              \/ target[t].state = "open" /\ d[t].state = "dropped"
      /\ d[o].state # "open"
  <2> HIDE DEF o
  <2> QED BY <1>3 DEF Dropped, Order
<1>5. target' = [d EXCEPT ![placed + 1] = [level |-> l, amount |-> n, state |-> "open"]]
  BY <1>1
<1> HIDE DEF d, o
<1>6. [level |-> l, amount |-> n, state |-> "open"] \in Order
  BY <1>3 DEF Order
<1> DEFINE new == [level |-> l, amount |-> n, state |-> "open"]
<1>7. new \in Order /\ new.level = l /\ new.state = "open"
  BY <1>6
<1> HIDE DEF new
<1>8. /\ target' \in [Target -> Order] /\ target'[placed + 1] = new
      /\ \A t \in Target \ {placed + 1} : target'[t] = d[t]
  BY <1>2, <1>4, <1>5, <1>7 DEF new
<1>9. target'[o].state # "open" \/ o = placed + 1
  BY <1>3, <1>4, <1>8
<1>10. \/ edited' = [edited EXCEPT !.order[l] = placed + 1] /\ lost' = lost
       \/ edited' = edited /\ lost' = lost \cup {placed + 1}
  BY <1>1
<1> QED BY <1>2, <1>4, <1>7, <1>8, <1>9, <1>10 DEF o

LEMMA TypesStart == TargetsInit => TargetsTypeOK
<1> SUFFICES ASSUME TargetsInit PROVE TargetsTypeOK
  OBVIOUS
<1>1. target \in [Target -> Order]
  <2>1. \A t \in Target : target[t] \in Order
    BY TargetFacts DEF TargetsInit, Order, Level
  <2>2. target = [t \in Target |-> target[t]]
    BY DEF TargetsInit
  <2> QED BY <2>1, <2>2
<1>2. posted \in TargetRow
  BY TargetFacts DEF TargetsInit, TargetRow
<1>3. placed \in Levels..MaxTargets
  BY TargetsAssumption DEF TargetsInit
<1>4. size \in 0..Levels /\ slips \in 0..MaxSlips
  BY TargetFacts DEF TargetsInit
<1> QED BY <1>1, <1>2, <1>3, <1>4 DEF TargetsInit, TargetsTypeOK, Turn

LEMMA TypesNext ==
  ASSUME TargetsTypeOK, [TargetsNext]_targetVars
  PROVE  TargetsTypeOK'
<1> USE DEF TargetsTypeOK
<1>0. Levels \in Nat /\ target \in [Target -> Order] /\ edited \in TargetRow /\ posted \in TargetRow
  BY TargetFacts
<1>1. CASE ReadContracts
  <2>1. edited' \in TargetRow
    <3>1. CASE size > 0
      <4>1. edited' = [posted EXCEPT !.left = size]
        BY <1>1, <3>1 DEF ReadContracts
      <4> QED BY <4>1 DEF TargetRow
    <3>2. CASE ~(size > 0)
      BY <1>1, <3>2 DEF ReadContracts
    <3> QED BY <3>1, <3>2
  <2> QED BY <1>1, <2>1 DEF ReadContracts, Turn
<1>2. CASE DetectHits
  <2> DEFINE ids == {edited.order[l] : l \in Hits}
             sum == edited.booked + MapThenSumSet(LAMBDA t : target[t].amount, ids)
  <2>1. ids \in SUBSET Target /\ Hits \in SUBSET Level
    BY DEF Hits, TargetRow
  <2>2. sum \in Nat
    <3>1. \A t \in ids : target[t].amount \in Nat
      BY <1>0, <2>1 DEF Order
    <3> HIDE DEF ids
    <3>2. Amounts(target, ids) \in Nat
      BY <2>1, <3>1, AmountsNat
    <3>3. sum = edited.booked + Amounts(target, ids)
      BY Zenon DEF Amounts
    <3>4. edited.booked \in Nat
      BY DEF TargetRow
    <3> HIDE DEF sum
    <3> QED BY <3>2, <3>3, <3>4
  <2>3. edited' = [edited EXCEPT !.hit = @ \cup Hits, !.counted = @ \cup ids, !.booked = sum]
    BY <1>2 DEF DetectHits
  <2>4. UNCHANGED <<size, target, placed, posted, missing, lost, between, unmoved, slips>>
        /\ cycle' \in Turn
    BY <1>2 DEF DetectHits, Turn
  <2> HIDE DEF ids, sum
  <2>5. edited' \in TargetRow
    BY <2>1, <2>2, <2>3 DEF TargetRow
  <2> QED BY <2>4, <2>5
<1>3. CASE MoveStop
  <2>1. edited.hit \in SUBSET Level
    BY DEF TargetRow
  <2>2. Highest(edited.hit) \in 0..Levels
    BY <2>1, HighestLevel
  <2>3. edited' = [edited EXCEPT !.stop = Highest(edited.hit)]
    BY <1>3 DEF MoveStop, StopFor
  <2>4. edited' \in TargetRow
    BY <2>2, <2>3 DEF TargetRow
  <2> QED BY <1>3, <2>4 DEF MoveStop, AfterStop, Turn
<1>4. CASE CloseRest
  <2> DEFINE sum == edited.booked + edited.left
  <2>1. edited' = [edited EXCEPT !.booked = sum, !.left = 0, !.open = FALSE]
    BY <1>4 DEF CloseRest
  <2>0. sum \in Nat /\ 0 \in 0..Levels
    BY TargetFacts DEF TargetRow
  <2> HIDE DEF sum
  <2>2. edited' \in TargetRow
    BY <1>0, <2>0, <2>1 DEF TargetRow
  <2> QED BY <1>4, <2>2, TargetFacts DEF CloseRest, Turn
<1>5. CASE BookGone
  <2> DEFINE sum == edited.booked + edited.left
  <2>1. edited' = [edited EXCEPT !.booked = sum, !.left = 0, !.open = FALSE]
    BY <1>5 DEF BookGone
  <2>0. sum \in Nat /\ 0 \in 0..Levels
    BY TargetFacts DEF TargetRow
  <2> HIDE DEF sum
  <2>2. edited' \in TargetRow
    BY <1>0, <2>0, <2>1 DEF TargetRow
  <2>3. target' \in [Target -> Order]
    BY <1>5, GoneDrops DEF Dropping
  <2> QED BY <1>5, <2>2, <2>3 DEF BookGone, Turn
<1>6. ASSUME NEW l \in Level, PlaceAgain(l) PROVE TargetsTypeOK'
  <2>1. /\ placed + 1 \in Target /\ placed' = placed + 1 /\ target' \in [Target -> Order]
        /\ \/ edited' = [edited EXCEPT !.order[l] = placed + 1] /\ lost' = lost
           \/ edited' = edited /\ lost' = lost \cup {placed + 1}
    BY <1>6, PlaceFacts
  <2>2. edited' \in TargetRow
    <3>1. CASE edited' = [edited EXCEPT !.order[l] = placed + 1]
      BY <2>1, <3>1 DEF TargetRow
    <3> QED BY <1>0, <2>1, <3>1
  <2>3. placed' \in Levels..MaxTargets
    BY <2>1, TargetFacts DEF Target
  <2>4. missing' \subseteq Level /\ UNCHANGED <<size, posted, cycle, between, unmoved>>
    BY <1>6 DEF PlaceAgain
  <2>5. slips' \in 0..MaxSlips
    BY <1>6, TargetFacts DEF PlaceAgain, Slip
  <2> QED BY <2>1, <2>2, <2>3, <2>4, <2>5
<1>7. ASSUME NEW l \in Level, NotPlaced(l) PROVE TargetsTypeOK'
  <2>1. edited.order[l] \in Target
    BY DEF TargetRow
  <2>2. target' \in [Target -> Order]
    BY <1>0, <1>7, <2>1, DroppedOne DEF NotPlaced, Dropping
  <2> QED BY <1>7, <2>2, TargetFacts DEF NotPlaced, Slip
<1>8. CASE CommitTargets \/ SkipTargets \/ AllPlaced \/ StillGone
  BY <1>8 DEF CommitTargets, SkipTargets, AllPlaced, StillGone, Turn
<1>9. CASE ReadOrdersFails \/ StopNotMoved \/ RestRemains \/ FailTargets
  <2>1. slips' \in 0..MaxSlips
    BY <1>9, TargetFacts DEF ReadOrdersFails, StopNotMoved, RestRemains, FailTargets, Slip
  <2>2. lost' \subseteq Target
    BY <1>9 DEF ReadOrdersFails, StopNotMoved, RestRemains, FailTargets, Filled, TargetRow
  <2> QED BY <1>9, <2>1, <2>2
          DEF ReadOrdersFails, StopNotMoved, RestRemains, FailTargets, AfterStop, Turn
<1>10. CASE ReadOpenOrders
  <2>1. missing' \subseteq Level
    BY <1>10 DEF ReadOpenOrders, Absent
  <2> QED BY <1>10, <2>1 DEF ReadOpenOrders, Turn
<1>11. CASE StopFills
  BY <1>11, TargetFacts DEF StopFills
<1>12. ASSUME NEW t \in Target, FillTarget(t) PROVE TargetsTypeOK'
  <2> DEFINE n == Min({size, target[t].amount})
  <2>1. target' = [target EXCEPT ![t].state = "filled", ![t].amount = n] /\ size' = size - n
    BY <1>12 DEF FillTarget
  <2>2. size \in Nat /\ target[t].amount \in Nat /\ size <= Levels
    BY <1>0 DEF Order
  <2>3. n \in Nat /\ n <= size
    BY <2>2, LesserOfTwo
  <2> HIDE DEF n
  <2>4. n \in 0..Levels /\ size' \in 0..Levels
    BY <1>0, <2>1, <2>2, <2>3
  <2>5. target' \in [Target -> Order]
    BY <1>0, <2>1, <2>4 DEF Order
  <2>6. lost' \subseteq Target /\ between' \in BOOLEAN
        /\ UNCHANGED <<placed, posted, edited, missing, cycle, unmoved, slips>>
    BY <1>12 DEF FillTarget
  <2> QED BY <2>4, <2>5, <2>6
<1>13. ASSUME NEW t \in Target, DropTarget(t) PROVE TargetsTypeOK'
  <2>1. target' \in [Target -> Order]
    BY <1>0, <1>13, DroppedOne DEF DropTarget, Dropping
  <2> QED BY <1>13, <2>1, TargetFacts DEF DropTarget, Slip
<1>14. CASE UNCHANGED targetVars
  BY <1>14 DEF targetVars
<1> QED BY <1>1, <1>2, <1>3, <1>4, <1>5, <1>6, <1>7, <1>8, <1>9, <1>10, <1>11, <1>12,
           <1>13, <1>14 DEF TargetsNext

\* The rows, the orders and the readings of a cycle have the values they are
\* declared with (position_monitor.py), the booked contracts being a sum over
\* the orders found filled.
THEOREM TargetsTypeCorrect == TargetsSpec => []TargetsTypeOK
BY TypesStart, TypesNext, PTL DEF TargetsSpec

-----------------------------------------------------------------------------
(***************************************************************************)
(* Every fill can be found: while a row is open it has the id of each      *)
(* order that lives or has filled, unless it has counted it, or lost it.   *)
(***************************************************************************)
\* The orders of a row r are those of its levels, and what it counted is hit.
Known(r) ==
    \A l \in Level :
        /\ target[r.order[l]].level = l /\ r.order[l] <= placed
        /\ r.order[l] \in r.counted => l \in r.hit

Rows ==
    /\ \A t \in Target : target[t].state = "none" <=> t > placed
    /\ Known(posted) /\ Known(edited)
    /\ edited.counted \subseteq Filled /\ posted.counted \subseteq edited.counted
    /\ missing \subseteq Level \ edited.hit
    /\ missing # {} => cycle = "replace"

\* What the cycle has read so far.
Reading ==
    /\ cycle \in {"idle", "gone"} => edited = posted
    /\ cycle = "sized" => edited = [posted EXCEPT !.left = edited.left]
    /\ cycle \in {"sized", "hit", "residual", "gone"} => edited.open
    /\ cycle \in {"hit", "residual", "detected", "replace"} =>
         Filled \subseteq edited.counted \cup lost

Alive(t) == target[t].state \in {"open", "filled"}
Traces(r, t) == r.order[target[t].level] = t /\ target[t].level \notin r.hit

\* An order that only the cycle's row has is lost if the cycle fails.
Tracked ==
    /\ edited.open => \A t \in Target : Alive(t) => t \in edited.counted \cup lost \/ Traces(edited, t)
    /\ posted.open => \A t \in Target : Alive(t) =>
         \/ t \in posted.counted \cup lost
         \/ Traces(posted, t)
         \/ edited.order[target[t].level] = t /\ posted.order[target[t].level] # t
    /\ \A t \in edited.counted \ posted.counted : Traces(posted, t)

Found == TargetsTypeOK /\ Rows /\ Reading /\ Tracked

LEMMA FoundTraces == Found => FillsTraceable
<1> SUFFICES ASSUME Found, edited.open, NEW t \in Filled \ (edited.counted \cup lost)
             PROVE  edited.order[target[t].level] = t /\ target[t].level \notin edited.hit
  BY DEF FillsTraceable
<1>1. t \in Target /\ Alive(t)
  BY DEF Filled, Alive
<1> QED BY <1>1 DEF Found, Tracked, Traces

LEMMA FoundStart == TargetsInit => Found
<1> SUFFICES ASSUME TargetsInit PROVE Found
  OBVIOUS
<1>1. TargetsTypeOK
  BY TypesStart
<1>2. /\ edited = posted /\ posted.counted = {} /\ posted.hit = {}
      /\ \A l \in Level : posted.order[l] = l /\ target[l].level = l /\ l <= placed
  BY TargetFacts DEF TargetsInit, Level
<1>3. \A t \in Target :
        /\ target[t].state = "none" <=> t > placed
        /\ Alive(t) => t \in Level
  BY TargetFacts DEF TargetsInit, Level, Target, Alive
<1>4. Rows
  BY <1>2, <1>3 DEF TargetsInit, Rows, Known
<1>5. Tracked
  BY <1>2, <1>3 DEF Tracked, Traces
<1>6. Reading
  BY <1>2 DEF TargetsInit, Reading
<1> QED BY <1>1, <1>4, <1>5, <1>6 DEF Found

\* A step that drops open orders, and may say of a row what it has left, its
\* stop, and that it is closed.
LEMMA CalmFound ==
  ASSUME Found, TargetsTypeOK', Dropping, UNCHANGED <<placed, posted>>,
         edited'.order = edited.order, edited'.hit = edited.hit,
         edited'.counted = edited.counted, edited'.open => edited.open,
         lost \subseteq lost'
  PROVE  /\ missing' \subseteq Level \ edited.hit /\ (missing' # {} => cycle' = "replace") => Rows'
         /\ Tracked' /\ Filled' = Filled
<1> USE DEF Found
<1>1. \A t \in Target :
        /\ target'[t].level = target[t].level
        /\ Alive(t)' => Alive(t)
        /\ (target'[t].state = "none") <=> (target[t].state = "none")
  BY DEF Dropping, Alive
<1>2. Filled' = Filled
  BY DEF Dropping, Filled
<1>3. \A l \in Level : edited.order[l] \in Target /\ posted.order[l] \in Target
  BY DEF TargetsTypeOK, TargetRow
<1>4. Known(posted)' /\ Known(edited)'
  BY <1>1, <1>3 DEF Rows, Known
<1>5. ASSUME missing' \subseteq Level \ edited.hit, missing' # {} => cycle' = "replace"
      PROVE  Rows'
  BY <1>1, <1>2, <1>4, <1>5 DEF Rows
<1>6. Tracked'
  <2>1. edited'.open => \A t \in Target : Alive(t)' =>
          t \in edited'.counted \cup lost' \/ Traces(edited, t)'
    BY <1>1 DEF Tracked, Traces
  <2>2. posted'.open => \A t \in Target : Alive(t)' =>
         \/ t \in posted'.counted \cup lost'
         \/ Traces(posted, t)'
         \/ edited'.order[target'[t].level] = t /\ posted'.order[target'[t].level] # t
    BY <1>1 DEF Tracked, Traces
  <2>3. \A t \in edited'.counted \ posted'.counted : Traces(posted, t)'
    BY <1>1 DEF Tracked, Traces, TargetsTypeOK, TargetRow
  <2> QED BY <2>1, <2>2, <2>3 DEF Tracked
<1> QED BY <1>2, <1>5, <1>6

LEMMA FoundNext ==
  ASSUME Found, [TargetsNext]_targetVars
  PROVE  Found'
<1> USE DEF Found
<1>0. /\ TargetsTypeOK' /\ Levels \in Nat /\ target \in [Target -> Order]
      /\ edited \in TargetRow /\ posted \in TargetRow
  BY TypesNext, TargetFacts DEF TargetsTypeOK
<1>1. ASSUME Dropping, UNCHANGED <<placed, posted>>, edited'.order = edited.order,
             edited'.hit = edited.hit, edited'.counted = edited.counted,
             edited'.open => edited.open, lost \subseteq lost',
             missing' \subseteq Level \ edited.hit, missing' # {} => cycle' = "replace",
             Reading'
      PROVE  Found'
  BY <1>0, <1>1, CalmFound
<1>2. ASSUME UNCHANGED <<target, placed, posted, edited>>, lost \subseteq lost',
             missing' \subseteq Level \ edited.hit, missing' # {} => cycle' = "replace",
             Reading'
      PROVE  Found'
  BY <1>0, <1>1, <1>2, DroppedNone
<1>3. CASE ReadContracts
  <2>1. edited = posted /\ UNCHANGED <<target, placed, posted, lost, missing>> /\ posted.open
        /\ missing = {}
    BY <1>3 DEF ReadContracts, Reading, Rows
  <2>2. CASE size > 0
    <3>1. edited' = [posted EXCEPT !.left = size] /\ cycle' = "sized"
      BY <1>3, <2>2 DEF ReadContracts
    <3>2. Reading'
      BY <2>1, <3>1 DEF Reading, TargetRow
    <3> QED BY <1>0, <1>1, <2>1, <3>1, <3>2, DroppedNone DEF TargetRow
  <2>3. CASE ~(size > 0)
    <3>1. edited' = posted /\ cycle' = "gone"
      BY <1>3, <2>3 DEF ReadContracts
    <3>2. Reading'
      BY <2>1, <3>1 DEF Reading
    <3> QED BY <1>2, <2>1, <3>1, <3>2
  <2> QED BY <2>2, <2>3
<1>4. CASE ReadOrdersFails
  <2>1. UNCHANGED <<target, placed, posted, edited, missing>> /\ missing = {}
        /\ lost' = lost \cup (Filled \ edited.counted) /\ cycle' = "detected"
    BY <1>4 DEF ReadOrdersFails, Rows
  <2>2. Reading'
    BY <2>1 DEF Reading, Filled
  <2> QED BY <1>2, <2>1, <2>2
<1>5. CASE MoveStop \/ StopNotMoved
  <2>1. UNCHANGED <<target, placed, posted, lost, missing>> /\ missing = {}
        /\ cycle = "hit" /\ cycle' \in {"residual", "detected", "commit"}
    BY <1>5 DEF MoveStop, StopNotMoved, AfterStop, Rows
  <2>2. edited' = edited \/ edited' = [edited EXCEPT !.stop = StopFor(edited)]
    BY <1>5 DEF MoveStop, StopNotMoved
  <2>3. edited'.order = edited.order /\ edited'.hit = edited.hit
        /\ edited'.counted = edited.counted /\ edited'.open = edited.open
    BY <1>0, <2>2 DEF TargetRow
  <2>4. Reading'
    BY <2>1, <2>3 DEF Reading, Filled
  <2> QED BY <1>0, <1>1, <2>1, <2>3, <2>4, DroppedNone
<1>6. CASE CloseRest \/ BookGone
  <2>1. Dropping
    BY <1>0, <1>6, DroppedNone, GoneDrops DEF CloseRest
  <2>2. UNCHANGED <<placed, posted, lost, missing>> /\ missing = {}
        /\ \/ cycle = "residual" /\ cycle' = "detected"
           \/ cycle' = "commit"
    BY <1>6 DEF CloseRest, BookGone, Rows
  <2> DEFINE sum == edited.booked + edited.left
  <2>3. edited' = [edited EXCEPT !.booked = sum, !.left = 0, !.open = FALSE]
    BY <1>6 DEF CloseRest, BookGone
  <2> HIDE DEF sum
  <2>4. edited'.order = edited.order /\ edited'.hit = edited.hit
        /\ edited'.counted = edited.counted /\ ~edited'.open
    BY <1>0, <2>3 DEF TargetRow
  <2>5. Filled' = Filled
    BY <2>1 DEF Dropping, Filled
  <2>6. Reading'
    BY <2>2, <2>4, <2>5 DEF Reading
  <2> QED BY <1>1, <2>1, <2>2, <2>4, <2>6
<1>7. CASE RestRemains \/ SkipTargets \/ AllPlaced \/ StillGone \/ StopFills
  <2>1. UNCHANGED <<target, placed, posted, edited, missing, lost>>
        /\ \/ cycle = "residual" /\ cycle' = "detected"
           \/ cycle' = "commit" /\ missing = {}
           \/ cycle' = cycle
    BY <1>7 DEF RestRemains, SkipTargets, AllPlaced, StillGone, StopFills, Rows
  <2>2. Reading'
    BY <2>1 DEF Reading, Filled
  <2>3. missing' \subseteq Level \ edited.hit /\ (missing' # {} => cycle' = "replace")
    BY <2>1 DEF Rows
  <2> QED BY <1>2, <2>1, <2>2, <2>3
<1>8. CASE ReadOpenOrders
  <2>1. UNCHANGED <<target, placed, posted, edited, lost>>
        /\ cycle = "detected" /\ cycle' = "replace"
        /\ missing' \subseteq Level \ edited.hit
    BY <1>8 DEF ReadOpenOrders, Absent
  <2>2. Reading'
    BY <2>1 DEF Reading, Filled
  <2> QED BY <1>2, <2>1, <2>2
<1>9. ASSUME NEW l \in Level, NotPlaced(l) PROVE Found'
  <2>1. Dropping
    BY <1>0, <1>9, DroppedOne, DroppedNone DEF NotPlaced, TargetRow
  <2>2. UNCHANGED <<placed, posted, edited, cycle, lost>> /\ cycle = "replace"
        /\ missing' \subseteq missing
    BY <1>9 DEF NotPlaced
  <2>3. Filled' = Filled
    BY <2>1 DEF Dropping, Filled
  <2>4. Reading'
    BY <2>2, <2>3 DEF Reading
  <2>5. missing' \subseteq Level \ edited.hit
    BY <2>2 DEF Rows
  <2> QED BY <1>1, <2>1, <2>2, <2>4, <2>5
<1>10. ASSUME NEW t \in Target, DropTarget(t) PROVE Found'
  <2>1. Dropping /\ UNCHANGED <<placed, posted, edited, missing, cycle, lost>>
    BY <1>0, <1>10, DroppedOne DEF DropTarget
  <2>2. Filled' = Filled
    BY <2>1 DEF Dropping, Filled
  <2>3. Reading'
    BY <2>1, <2>2 DEF Reading
  <2>4. missing' \subseteq Level \ edited.hit /\ (missing' # {} => cycle' = "replace")
    BY <2>1 DEF Rows
  <2> QED BY <1>1, <2>1, <2>3, <2>4
<1>11. CASE CommitTargets
  <2>1. UNCHANGED <<target, placed, edited, missing, lost>> /\ posted' = edited
        /\ cycle' = "idle" /\ missing = {}
    BY <1>11 DEF CommitTargets, Rows
  <2>2. Rows'
    BY <1>0, <2>1 DEF Rows, Known, Filled
  <2>3. Tracked'
    BY <2>1 DEF Tracked, Alive, Traces
  <2> QED BY <1>0, <2>1, <2>2, <2>3 DEF Reading
<1>12. CASE FailTargets
  <2>1. UNCHANGED <<target, placed, posted>> /\ edited' = posted /\ missing' = {}
        /\ cycle' = "idle"
        /\ lost' = lost \cup {edited.order[l] : l \in {k \in Level : edited.order[k] # posted.order[k]}}
    BY <1>12 DEF FailTargets
  <2>2. Rows'
    BY <1>0, <2>1 DEF Rows, Known, Filled
  <2>3. ASSUME posted.open, NEW t \in Target, Alive(t)
        PROVE  t \in posted.counted \cup lost' \/ Traces(posted, t)
    <3>1. target[t].level \in Level
      BY <1>0 DEF Order
    <3>2. CASE edited.order[target[t].level] = t /\ posted.order[target[t].level] # t
      BY <2>1, <3>1, <3>2
    <3> QED BY <2>1, <2>3, <3>2 DEF Tracked
  <2>4. Tracked'
    BY <2>1, <2>3 DEF Tracked, Alive, Traces
  <2> QED BY <1>0, <2>1, <2>2, <2>4 DEF Reading
<1>13. CASE DetectHits
  <2> DEFINE ids == {edited.order[l] : l \in Hits}
             sum == edited.booked + MapThenSumSet(LAMBDA t : target[t].amount, ids)
  <2>1. UNCHANGED <<size, target, placed, posted, missing, lost>> /\ cycle = "sized"
        /\ cycle' \in {"detected", "hit"} /\ missing = {}
    BY <1>13 DEF DetectHits, Rows
  <2>2. edited' = [edited EXCEPT !.hit = @ \cup Hits, !.counted = @ \cup ids, !.booked = sum]
    BY <1>13 DEF DetectHits
  <2> HIDE DEF sum
  <2>3. edited'.order = edited.order /\ edited'.hit = edited.hit \cup Hits
        /\ edited'.counted = edited.counted \cup ids /\ edited'.open = edited.open
    BY <1>0, <2>2 DEF TargetRow
  <2>4. edited.open /\ edited.order = posted.order /\ edited.hit = posted.hit
        /\ edited.counted = posted.counted /\ edited.open = posted.open
    BY <1>0, <2>1 DEF Reading, TargetRow
  <2>5. /\ ids \subseteq Filled
        /\ \A l \in Level : edited.order[l] \in ids => l \in Hits
    BY <1>0 DEF Hits, Filled, Rows, Known, TargetRow
  <2>6. Rows'
    BY <1>0, <2>1, <2>3, <2>5 DEF Rows, Known, Filled
  <2>7. ASSUME NEW t \in Target, Alive(t), t \notin edited'.counted \cup lost
        PROVE  Traces(edited, t)' /\ Traces(posted, t)' /\ t \notin Filled
    <3>1. Traces(edited, t) /\ target[t].level \in Level
      BY <1>0, <2>3, <2>4, <2>7 DEF Tracked, Order
    <3>2. target[t].level \notin Hits
      BY <2>3, <2>7, <3>1 DEF Traces
    <3> QED BY <2>1, <2>3, <2>4, <3>1, <3>2 DEF Traces, Hits, Filled
  <2>8. ASSUME NEW t \in ids PROVE Traces(posted, t)
    BY <1>0, <2>4, <2>8 DEF Traces, Hits, Rows, Known
  <2>9. Filled \subseteq edited'.counted \cup lost
    BY <2>7 DEF Filled, Alive
  <2>10. Reading'
    BY <2>1, <2>3, <2>4, <2>9 DEF Reading, Filled
  <2>11. Tracked'
    <3>1. \A t \in Target : Alive(t)' = Alive(t) /\ Traces(posted, t)' = Traces(posted, t)
      BY <2>1 DEF Alive, Traces
    <3>2. \A t \in edited'.counted \ posted'.counted : t \in ids
      BY <2>1, <2>3, <2>4
    <3>3. \A t \in edited'.counted \ posted'.counted : Traces(posted, t)'
      BY <1>0, <2>8, <3>1, <3>2 DEF TargetsTypeOK, TargetRow
    <3>4. \A t \in Target : Alive(t)' => t \in edited'.counted \cup lost' \/ Traces(edited, t)'
      BY <2>1, <2>7, <3>1
    <3>5. \A t \in Target : Alive(t)' => t \in posted'.counted \cup lost' \/ Traces(posted, t)'
      BY <2>1, <2>4, <3>1 DEF Tracked, Traces
    <3> QED BY <3>3, <3>4, <3>5 DEF Tracked
  <2> QED BY <1>0, <2>6, <2>10, <2>11
<1>14. ASSUME NEW l \in Level, PlaceAgain(l) PROVE Found'
  <2> DEFINE p == placed + 1
  <2>1. /\ p \in Target /\ placed' = p /\ p > placed
        /\ target' \in [Target -> Order]
        /\ target'[p].level = l /\ target'[p].state = "open"
        /\ \A t \in Target \ {p} :
             /\ target'[t].level = target[t].level
             /\ \/ target'[t].state = target[t].state
                \/ target[t].state = "open" /\ target'[t].state = "dropped"
        /\ target'[edited.order[l]].state # "open" \/ edited.order[l] = p
        /\ \/ edited' = [edited EXCEPT !.order[l] = p] /\ lost' = lost
           \/ edited' = edited /\ lost' = lost \cup {p}
    BY <1>14, PlaceFacts, TargetFacts DEF TargetsTypeOK
  <2>0. placed \in Nat /\ Target \subseteq Nat
    BY TargetFacts DEF TargetsTypeOK
  <2>2. UNCHANGED <<posted, cycle>> /\ cycle = "replace" /\ l \in missing
        /\ missing' = missing \ {l}
    BY <1>14 DEF PlaceAgain
  <2> HIDE DEF p
  <2>3. /\ l \notin edited.hit /\ target[p].state = "none"
        /\ \A k \in Level : posted.order[k] # p /\ edited.order[k] # p
    BY <1>0, <2>1, <2>2 DEF Rows, Known, TargetRow, TargetsTypeOK
  <2>4. /\ edited'.hit = edited.hit /\ edited'.counted = edited.counted
        /\ edited'.open = edited.open
        /\ \/ /\ \A k \in Level : edited'.order[k] = IF k = l THEN p ELSE edited.order[k]
              /\ lost' = lost
           \/ edited'.order = edited.order /\ lost' = lost \cup {p}
    BY <1>0, <2>1 DEF TargetRow
  <2>5. Filled' = Filled
    BY <2>1, <2>3 DEF Filled
  <2>6. \A t \in Target :
          /\ t # p => target'[t].level = target[t].level
          /\ t # p /\ Alive(t)' => Alive(t)
          /\ target'[t].state = "none" <=> (target[t].state = "none" /\ t # p)
    BY <2>1, <2>3 DEF Alive
  <2>7. Reading'
    BY <2>2, <2>4, <2>5 DEF Reading
  <2>8. Rows'
    <3>1. \A t \in Target : target'[t].state = "none" <=> t > placed'
      BY <2>0, <2>1, <2>6 DEF Rows, p
    <3>2. Known(posted)'
      <4>1. \A k \in Level : posted.order[k] \in Target /\ posted.order[k] \in Nat
                              /\ posted.order[k] # p
        BY <1>0, <2>0, <2>3 DEF TargetRow
      <4> QED BY <2>0, <2>1, <2>2, <2>6, <4>1 DEF Rows, Known, p
    <3>3. edited.counted \subseteq Filled /\ p \notin edited.counted
      BY <2>3 DEF Rows, Filled
    <3>4. Known(edited)'
      <4>1. ASSUME NEW k \in Level
            PROVE  /\ target'[edited'.order[k]].level = k /\ edited'.order[k] <= placed'
                   /\ edited'.order[k] \in edited'.counted => k \in edited'.hit
        <5>1. CASE edited'.order[k] = edited.order[k]
          <6>1. edited.order[k] \in Target /\ edited.order[k] # p
                /\ placed \in Nat /\ edited.order[k] \in Nat
            BY <1>0, <2>0, <2>3 DEF TargetRow
          <6>2. target[edited.order[k]].level = k /\ edited.order[k] <= placed
                /\ (edited.order[k] \in edited.counted => k \in edited.hit)
            BY DEF Rows, Known
          <6> QED BY <2>1, <2>4, <2>6, <5>1, <6>1, <6>2 DEF p
        <5>2. CASE edited'.order[k] = p /\ k = l
          BY <1>0, <2>1, <2>4, <3>3, <5>2, TargetFacts
        <5> QED BY <2>4, <5>1, <5>2
      <4> QED BY <4>1 DEF Known
    <3> QED BY <2>2, <2>4, <2>5, <3>1, <3>2, <3>4 DEF Rows
  <2>9. Tracked'
    <3>1. ASSUME edited'.open, NEW t \in Target, Alive(t)', t \notin edited'.counted \cup lost'
          PROVE  Traces(edited, t)'
      <4>1. CASE t = p
        BY <2>1, <2>3, <2>4, <3>1, <4>1 DEF Traces
      <4>2. CASE t # p
        <5>1. Traces(edited, t) /\ target[t].level \in Level
          BY <1>0, <2>4, <2>6, <3>1, <4>2 DEF Tracked, Order
        <5>2. target[t].level = l => t = edited.order[l]
          BY <5>1 DEF Traces
        <5>3. t = edited.order[l] => target'[t].state # "open" /\ t \in Filled'
          BY <2>1, <3>1, <4>2 DEF Alive, Filled
        <5>4. Filled \subseteq edited.counted \cup lost
          BY <2>2 DEF Reading
        <5>5. t # edited.order[l]
          BY <2>4, <2>5, <3>1, <5>3, <5>4
        <5> QED BY <2>4, <2>6, <4>2, <5>1, <5>2, <5>5 DEF Traces
      <4> QED BY <4>1, <4>2
    <3>2. ASSUME posted'.open, NEW t \in Target, Alive(t)', t \notin posted'.counted \cup lost'
          PROVE  \/ Traces(posted, t)'
                 \/ /\ edited'.order[target'[t].level] = t
                    /\ posted'.order[target'[t].level] # t
      <4>1. CASE t = p
        BY <2>1, <2>2, <2>3, <2>4, <3>2, <4>1
      <4>2. CASE t # p
        <5>1. Alive(t) /\ t \notin posted.counted \cup lost /\ target'[t].level = target[t].level
          BY <2>2, <2>4, <2>6, <3>2, <4>2
        <5>2. CASE Traces(posted, t)
          BY <2>2, <5>1, <5>2 DEF Traces
        <5>3. CASE edited.order[target[t].level] = t /\ posted.order[target[t].level] # t
          <6>1. CASE target[t].level = l
            <7>1. t \in Filled
              BY <2>1, <2>5, <3>2, <4>2, <5>3, <6>1 DEF Alive, Filled
            <7>2. t \in edited.counted \ posted.counted
              BY <2>2, <5>1, <7>1 DEF Reading
            <7> QED BY <5>3, <7>2 DEF Tracked, Traces
          <6>2. CASE target[t].level # l
            <7>1. target[t].level \in Level
              BY <1>0 DEF Order
            <7> QED BY <2>2, <2>4, <5>1, <5>3, <6>2, <7>1
          <6> QED BY <6>1, <6>2
        <5> QED BY <2>2, <3>2, <5>1, <5>2, <5>3 DEF Tracked
      <4> QED BY <4>1, <4>2
    <3>3. ASSUME NEW t \in edited'.counted \ posted'.counted PROVE Traces(posted, t)'
      <4>1. t \in edited.counted \ posted.counted /\ t \in Target /\ t # p
        BY <1>0, <2>2, <2>3, <2>4, <3>3 DEF TargetRow, Rows, Filled
      <4> QED BY <2>2, <2>6, <4>1 DEF Tracked, Traces
    <3> QED BY <3>1, <3>2, <3>3 DEF Tracked
  <2> QED BY <1>0, <2>7, <2>8, <2>9
<1>15. ASSUME NEW t \in Target, FillTarget(t) PROVE Found'
  <2> DEFINE n == Min({size, target[t].amount})
  <2>1. /\ target' = [target EXCEPT ![t].state = "filled", ![t].amount = n]
        /\ lost' = IF cycle \in {"detected", "hit", "residual", "replace"}
                     THEN lost \cup {t} ELSE lost
        /\ UNCHANGED <<placed, posted, edited, missing, cycle>>
        /\ target[t].state = "open"
    BY <1>15 DEF FillTarget
  <2> HIDE DEF n
  <2>2. Filled' = Filled \cup {t}
    BY <1>0, <2>1 DEF Filled
  <2>3. \A u \in Target :
          /\ target'[u].level = target[u].level
          /\ Alive(u)' <=> Alive(u)
          /\ (target'[u].state = "none") <=> (target[u].state = "none")
    BY <1>0, <2>1 DEF Alive
  <2>4. \A l \in Level : edited.order[l] \in Target /\ posted.order[l] \in Target
    BY <1>0 DEF TargetRow
  <2>5. Known(posted)' /\ Known(edited)'
    BY <2>1, <2>3, <2>4 DEF Rows, Known
  <2>6. Rows'
    BY <2>1, <2>2, <2>3, <2>5 DEF Rows
  <2>7. Reading'
    BY <2>1, <2>2 DEF Reading
  <2>8. Tracked'
    <3>1. edited'.open => \A u \in Target : Alive(u)' =>
            u \in edited'.counted \cup lost' \/ Traces(edited, u)'
      BY <2>1, <2>3 DEF Tracked, Traces
    <3>2. ASSUME posted'.open, NEW u \in Target, Alive(u)'
          PROVE  \/ u \in posted'.counted \cup lost'
                 \/ Traces(posted, u)'
                 \/ edited'.order[target'[u].level] = u /\ posted'.order[target'[u].level] # u
      <4>1. posted.open /\ Alive(u) /\ target'[u].level = target[u].level
        BY <2>1, <2>3, <3>2
      <4>2. \/ u \in posted.counted \cup lost
            \/ Traces(posted, u)
            \/ edited.order[target[u].level] = u /\ posted.order[target[u].level] # u
        BY <4>1 DEF Tracked
      <4> QED BY <2>1, <4>1, <4>2 DEF Traces
    <3>3. \A u \in edited'.counted \ posted'.counted : Traces(posted, u)'
      BY <1>0, <2>1, <2>3 DEF Tracked, Traces, TargetRow
    <3> QED BY <3>1, <3>2, <3>3 DEF Tracked
  <2> QED BY <1>0, <2>6, <2>7, <2>8
<1>20. CASE UNCHANGED targetVars
  BY <1>0, <1>20 DEF targetVars, Rows, Known, Reading, Tracked, Filled, Alive, Traces
<1> QED BY <1>3, <1>4, <1>5, <1>6, <1>7, <1>8, <1>9, <1>10, <1>11, <1>12, <1>13,
           <1>14, <1>15, <1>20 DEF TargetsNext

-----------------------------------------------------------------------------
(***************************************************************************)
(* No contract is booked twice: the contracts are on the exchange or in a  *)
(* filled order, and a row has counted them or has them left.              *)
(***************************************************************************)
Sums ==
    /\ size + Amounts(target, Filled) <= Levels
    /\ size > 0 => size + Amounts(target, Filled) = Levels

AllBooked(r) ==
    /\ r.open => r.booked = Amounts(target, r.counted)
    /\ ~r.open /\ ~between => r.booked <= Levels
    /\ ~r.open /\ lost = {} => r.booked >= Levels

Balanced(r) ==
    r.open =>
      /\ ~between => r.left + Amounts(target, r.counted) <= Levels
      /\ lost = {} => r.left + Amounts(target, r.counted) >= Levels

\* In a cycle that has read the contracts but no order yet, what is left is
\* right with the fills that are still to be counted.
Books ==
    /\ AllBooked(posted) /\ AllBooked(edited)
    /\ Balanced(posted)
    /\ cycle # "sized" => Balanced(edited)
    /\ cycle = "sized" =>
         /\ edited.left + Amounts(target, Filled) >= Levels
         /\ ~between => edited.left + Amounts(target, Filled) = Levels

Paid == Found /\ Sums /\ Books

\* The amounts of filled orders, and of those that a row has counted.
LEMMA FilledFacts ==
  ASSUME Found
  PROVE  /\ Filled \in SUBSET Target /\ Amounts(target, Filled) \in Nat
         /\ posted.counted \subseteq edited.counted /\ edited.counted \subseteq Filled
         /\ \A S \in SUBSET Filled : Amounts(target, S) \in Nat
                                  /\ Amounts(target, S) <= Amounts(target, Filled)
<1>1. Filled \in SUBSET Target /\ \A t \in Filled : target[t].amount \in Nat
  BY DEF Filled, Found, TargetsTypeOK, Order
<1>2. \A S \in SUBSET Filled : Amounts(target, S) \in Nat
                            /\ Amounts(target, S) <= Amounts(target, Filled)
  <2>1. \A S \in SUBSET Filled : \A t \in Filled : target[t].amount \in Nat
    BY <1>1
  <2> QED BY <1>1, AmountsWithin
<1>3. posted.counted \subseteq edited.counted /\ edited.counted \subseteq Filled
  BY DEF Found, Rows
<1> QED BY <1>1, <1>2, <1>3

LEMMA RowFacts ==
  ASSUME Found
  PROVE  /\ size \in 0..Levels /\ Levels \in Nat
         /\ posted.left \in 0..Levels /\ edited.left \in 0..Levels
         /\ posted.booked \in Nat /\ edited.booked \in Nat
         /\ posted \in TargetRow /\ edited \in TargetRow
         /\ lost \in SUBSET Target /\ between \in BOOLEAN
BY TargetFacts DEF Found, TargetsTypeOK, TargetRow

LEMMA PaidBooks == Paid => BookedOnceAndAll
<1> SUFFICES ASSUME Paid PROVE BookedOnceAndAll
  OBVIOUS
<1>1. Amounts(target, posted.counted) <= Amounts(target, Filled)
      /\ Amounts(target, posted.counted) \in Nat /\ Amounts(target, Filled) \in Nat
  BY FilledFacts DEF Paid
<1>2. size \in Nat /\ Levels \in Nat /\ posted.booked \in Nat
  BY RowFacts DEF Paid
<1>3. posted.open \in BOOLEAN
  BY RowFacts DEF Paid, TargetRow
<1> QED BY <1>1, <1>2, <1>3 DEF Paid, Sums, Books, AllBooked, BookedOnceAndAll

LEMMA PaidStart == TargetsInit => Paid
<1> SUFFICES ASSUME TargetsInit PROVE Paid
  OBVIOUS
<1>1. Filled = {}
  BY DEF TargetsInit, Filled
<1>2. Amounts(target, {}) = 0
  BY AmountsStep
<1>3. Amounts(target, Filled) = 0
  BY <1>1, <1>2
<1>4. /\ edited = posted /\ posted.counted = {} /\ posted.left = Levels /\ size = Levels
      /\ posted.booked = 0 /\ posted.open /\ cycle = "idle"
  BY DEF TargetsInit
<1>5. AllBooked(posted) /\ Balanced(posted)
  BY <1>2, <1>4, TargetFacts DEF AllBooked, Balanced
<1> QED BY <1>3, <1>4, <1>5, FoundStart, TargetFacts DEF Paid, Sums, Books

\* What is counted keeps its amount.
LEMMA SameAmounts ==
  ASSUME Found, NEW S \in SUBSET Filled,
         \A t \in S : target'[t].amount = target[t].amount
  PROVE  Amounts(target', S) = Amounts(target, S)
<1>1. S \in SUBSET Target
  BY DEF Filled
<1> QED BY <1>1, AmountsSame

\* No order has filled and no row has changed.
LEMMA CalmPaid ==
  ASSUME Paid, Found', UNCHANGED posted, \A t \in Target : target'[t].amount = target[t].amount,
         Filled' = Filled, size' = size \/ size' = 0,
         between' = between, lost \subseteq lost'
  PROVE  /\ Sums' /\ AllBooked(posted)' /\ Balanced(posted)'
         /\ Amounts(target, Filled)' = Amounts(target, Filled)
         /\ \A S \in SUBSET Filled : Amounts(target', S) = Amounts(target, S)
<1>1. \A S \in SUBSET Filled : Amounts(target', S) = Amounts(target, S)
  BY SameAmounts DEF Paid, Filled
<1>2. Amounts(target', Filled') = Amounts(target, Filled)
  BY <1>1
<1>3. posted.counted \subseteq Filled /\ Amounts(target, Filled) \in Nat
  BY FilledFacts DEF Paid
<1>4. Sums'
  BY <1>2, <1>3, RowFacts DEF Paid, Sums
<1>5. Amounts(target', posted.counted) = Amounts(target, posted.counted)
  BY <1>1, <1>3
<1>6. AllBooked(posted)' /\ Balanced(posted)'
  BY <1>5 DEF Paid, Books, AllBooked, Balanced
<1> QED BY <1>1, <1>2, <1>4, <1>6

\* A row that is closed for what it has left has booked everything.
LEMMA BookLeft ==
  ASSUME Paid, edited.open, cycle # "sized", between' = between, lost' = lost,
         edited' = [edited EXCEPT !.booked = @ + edited.left, !.left = 0, !.open = FALSE]
  PROVE  AllBooked(edited)' /\ Balanced(edited)'
<1>1. edited \in TargetRow /\ Levels \in Nat /\ edited.left \in Nat /\ edited.booked \in Nat
  BY RowFacts DEF Paid
<1>2. edited.booked = Amounts(target, edited.counted)
      /\ (~between => edited.left + Amounts(target, edited.counted) <= Levels)
      /\ (lost = {} => edited.left + Amounts(target, edited.counted) >= Levels)
  BY DEF Paid, Books, AllBooked, Balanced
<1> DEFINE sum == edited.booked + edited.left
<1>3. edited' = [edited EXCEPT !.booked = sum, !.left = 0, !.open = FALSE]
  OBVIOUS
<1>4. sum \in Nat /\ (~between => sum <= Levels) /\ (lost = {} => sum >= Levels)
  BY <1>1, <1>2
<1> HIDE DEF sum
<1>5. edited'.booked = sum /\ edited'.open = FALSE
  BY <1>1, <1>3 DEF TargetRow
<1> QED BY <1>4, <1>5 DEF AllBooked, Balanced

LEMMA PaidNext ==
  ASSUME Paid, [TargetsNext]_targetVars
  PROVE  Paid'
<1>0. /\ Found /\ Found' /\ Sums /\ Books
      /\ target \in [Target -> Order] /\ edited \in TargetRow /\ posted \in TargetRow
  BY FoundNext, RowFacts DEF Paid, Found, TargetsTypeOK
\* The cycle's row may have other orders or another stop.
<1>1. ASSUME UNCHANGED <<posted, between>>,
             edited'.counted = edited.counted, edited'.left = edited.left,
             edited'.booked = edited.booked, edited'.open = edited.open,
             \A t \in Target : target'[t].amount = target[t].amount,
             Filled' = Filled, size' = size \/ size' = 0, lost \subseteq lost',
             cycle' = cycle \/ (cycle # "sized" /\ cycle' # "sized")
      PROVE  Paid'
  <2>1. /\ Sums' /\ AllBooked(posted)' /\ Balanced(posted)'
        /\ Amounts(target, Filled)' = Amounts(target, Filled)
        /\ Amounts(target', edited.counted) = Amounts(target, edited.counted)
    BY <1>0, <1>1, CalmPaid, FilledFacts
  <2>2. AllBooked(edited)' /\ (cycle # "sized" => Balanced(edited)')
    BY <1>0, <1>1, <2>1 DEF Books, AllBooked, Balanced
  <2> QED BY <1>0, <1>1, <2>1, <2>2 DEF Paid, Books
<1>2. ASSUME UNCHANGED <<target, posted, edited, between>>, size' = size \/ size' = 0,
             lost \subseteq lost', cycle' = cycle \/ (cycle # "sized" /\ cycle' # "sized")
      PROVE  Paid'
  <2>1. Filled' = Filled
    BY <1>2 DEF Filled
  <2> QED BY <1>1, <1>2, <2>1
<1>3. CASE ReadContracts
  <2>1. UNCHANGED <<size, target, posted, lost, between>> /\ posted.open /\ cycle = "idle"
    BY <1>3 DEF ReadContracts
  <2>2. Filled' = Filled
    BY <2>1 DEF Filled
  <2>3. /\ Sums' /\ AllBooked(posted)' /\ Balanced(posted)'
        /\ Amounts(target, Filled)' = Amounts(target, Filled)
    BY <1>0, <2>1, <2>2, CalmPaid DEF Paid
  <2>4. CASE size > 0
    <3>1. edited' = [posted EXCEPT !.left = size] /\ cycle' = "sized"
      BY <1>3, <2>4 DEF ReadContracts
    <3>2. edited'.counted = posted.counted /\ edited'.booked = posted.booked
          /\ edited'.open = posted.open /\ edited'.left = size
      BY <1>0, <3>1 DEF TargetRow
    <3>3. AllBooked(edited)'
      BY <1>0, <2>1, <2>3, <3>2 DEF AllBooked
    <3>4. size + Amounts(target, Filled) = Levels
      BY <1>0, <2>4 DEF Sums
    <3>5. edited'.left + Amounts(target, Filled)' = Levels
      BY <2>3, <3>2, <3>4
    <3>6. edited'.left + Amounts(target, Filled)' >= Levels
      BY <3>5, TargetFacts
    <3> QED BY <1>0, <2>3, <3>1, <3>3, <3>5, <3>6 DEF Paid, Books
  <2>5. CASE ~(size > 0)
    <3>1. edited' = posted /\ cycle' = "gone"
      BY <1>3, <2>5 DEF ReadContracts
    <3>2. AllBooked(edited)' /\ Balanced(edited)'
      BY <2>1, <2>3, <3>1 DEF AllBooked, Balanced
    <3> QED BY <1>0, <2>3, <3>1, <3>2 DEF Paid, Books
  <2> QED BY <2>4, <2>5
<1>4. CASE ReadOrdersFails
  <2>1. UNCHANGED <<size, target, posted, edited, between>> /\ cycle = "sized"
        /\ cycle' = "detected" /\ lost' = lost \cup (Filled \ edited.counted)
    BY <1>4 DEF ReadOrdersFails
  <2>2. Filled' = Filled
    BY <2>1 DEF Filled
  <2>3. /\ Sums' /\ AllBooked(posted)' /\ Balanced(posted)'
    BY <1>0, <2>1, <2>2, CalmPaid DEF Paid
  <2>4. AllBooked(edited)'
    BY <1>0, <2>1 DEF Books, AllBooked
  <2>5. Amounts(target, edited.counted) <= Amounts(target, Filled)
        /\ Amounts(target, edited.counted) \in Nat /\ Amounts(target, Filled) \in Nat
    BY <1>0, FilledFacts
  <2>6. lost' = {} => edited.counted = Filled
    BY <1>0, <2>1, FilledFacts
  <2>7. lost' = {} => Amounts(target, edited.counted) = Amounts(target, Filled)
    BY <2>6
  <2>8. Levels \in Nat /\ edited.left \in Nat
    BY <1>0, RowFacts
  <2>9. (~between => edited.left + Amounts(target, edited.counted) <= Levels)
        /\ (lost' = {} => edited.left + Amounts(target, edited.counted) >= Levels)
    BY <1>0, <2>1, <2>5, <2>7, <2>8 DEF Books
  <2>10. Balanced(edited)'
    BY <2>1, <2>9 DEF Balanced
  <2> QED BY <1>0, <2>1, <2>3, <2>4, <2>10 DEF Paid, Books
<1>5. CASE DetectHits
  <2> DEFINE ids == {edited.order[l] : l \in Hits}
             sum == edited.booked + MapThenSumSet(LAMBDA t : target[t].amount, ids)
  <2>1. UNCHANGED <<size, target, posted, lost, between>> /\ cycle = "sized"
        /\ cycle' \in {"detected", "hit"}
    BY <1>5 DEF DetectHits
  <2>2. edited' = [edited EXCEPT !.hit = @ \cup Hits, !.counted = @ \cup ids, !.booked = sum]
    BY <1>5 DEF DetectHits
  <2>3. sum = edited.booked + Amounts(target, ids)
    BY Zenon DEF Amounts
  <2> HIDE DEF sum
  <2>4. edited'.counted = edited.counted \cup ids /\ edited'.booked = sum
        /\ edited'.left = edited.left /\ edited'.open = edited.open
    BY <1>0, <2>2 DEF TargetRow
  <2>5. Filled' = Filled
    BY <2>1 DEF Filled
  <2>6. /\ Sums' /\ AllBooked(posted)' /\ Balanced(posted)'
    BY <1>0, <2>1, <2>5, CalmPaid DEF Paid
  <2>7. ids \in SUBSET Target /\ edited.counted \in SUBSET Target
        /\ edited.counted \cap ids = {} /\ edited.counted \cup ids \subseteq Filled
    <3>1. ids \subseteq Filled /\ \A t \in ids : \E l \in Level \ edited.hit : t = edited.order[l]
      BY <1>0 DEF Hits, Filled, TargetRow
    <3>2. \A l \in Level : edited.order[l] \in edited.counted => l \in edited.hit
      BY <1>0 DEF Found, Rows, Known
    <3> QED BY <1>0, <3>1, <3>2, FilledFacts
  <2>8. \A t \in edited.counted \cup ids : target[t].amount \in Nat
    BY <1>0, <2>7 DEF Order
  <2> HIDE DEF ids
  <2>9. Amounts(target, edited.counted \cup ids) = Amounts(target, edited.counted) + Amounts(target, ids)
    BY <2>7, <2>8, AmountsBoth
  <2>10. edited.open /\ edited.booked = Amounts(target, edited.counted)
    BY <1>0, <2>1 DEF Found, Reading, Books, AllBooked
  <2>11. sum = Amounts(target, edited.counted \cup ids)
    BY <2>3, <2>9, <2>10
  <2>12. AllBooked(edited)'
    BY <2>1, <2>4, <2>10, <2>11 DEF AllBooked
  <2>13. Amounts(target, edited.counted \cup ids) \in Nat /\ Amounts(target, Filled) \in Nat
         /\ Amounts(target, edited.counted \cup ids) <= Amounts(target, Filled)
    BY <1>0, <2>7, FilledFacts
  <2>14. Filled \subseteq (edited.counted \cup ids) \cup lost
    <3>1. Filled' \subseteq edited'.counted \cup lost'
      BY <1>0, <2>1 DEF Found, Reading
    <3> QED BY <2>1, <2>4, <2>5, <3>1
  <2>15. lost = {} => edited.counted \cup ids = Filled
    BY <2>7, <2>14
  <2>16. lost = {} => Amounts(target, edited.counted \cup ids) = Amounts(target, Filled)
    BY <2>15, Zenon
  <2>17. Levels \in Nat /\ edited.left \in Nat
    BY <1>0, RowFacts
  <2> DEFINE all == Amounts(target, edited.counted \cup ids)
  <2>18. all \in Nat /\ all <= Amounts(target, Filled)
         /\ (lost = {} => all = Amounts(target, Filled))
    BY <2>13, <2>16
  <2>19. edited.left + Amounts(target, Filled) >= Levels
         /\ (~between => edited.left + Amounts(target, Filled) = Levels)
    BY <1>0, <2>1 DEF Books
  <2> HIDE DEF all
  <2>20. (~between => edited.left + all <= Levels) /\ (lost = {} => edited.left + all >= Levels)
    BY <2>13, <2>17, <2>18, <2>19
  <2>21. Balanced(edited)'
    BY <2>1, <2>4, <2>20 DEF Balanced, all
  <2> QED BY <1>0, <2>1, <2>6, <2>12, <2>21 DEF Paid, Books
<1>6. CASE MoveStop \/ StopNotMoved
  <2>1. UNCHANGED <<size, target, posted, lost, between>> /\ cycle # "sized" /\ cycle' # "sized"
    BY <1>6 DEF MoveStop, StopNotMoved, AfterStop
  <2>2. edited' = edited \/ edited' = [edited EXCEPT !.stop = StopFor(edited)]
    BY <1>6 DEF MoveStop, StopNotMoved
  <2>3. edited'.counted = edited.counted /\ edited'.left = edited.left
        /\ edited'.booked = edited.booked /\ edited'.open = edited.open
    BY <1>0, <2>2 DEF TargetRow
  <2>4. Filled' = Filled
    BY <2>1 DEF Filled
  <2> QED BY <1>1, <2>1, <2>3, <2>4
<1>7. CASE CloseRest \/ BookGone
  <2>1. Dropping
    BY <1>0, <1>7, DroppedNone, GoneDrops DEF CloseRest, Found
  <2>2. UNCHANGED <<posted, lost, between>> /\ (size' = size \/ size' = 0)
        /\ cycle # "sized" /\ cycle' # "sized" /\ edited.open
        /\ edited' = [edited EXCEPT !.booked = @ + edited.left, !.left = 0, !.open = FALSE]
    BY <1>0, <1>7 DEF CloseRest, BookGone, Found, Reading
  <2>3. Filled' = Filled /\ \A t \in Target : target'[t].amount = target[t].amount
    BY <2>1 DEF Dropping, Filled
  <2>4. Sums' /\ AllBooked(posted)' /\ Balanced(posted)'
    BY <1>0, <2>2, <2>3, CalmPaid DEF Paid
  <2>5. AllBooked(edited)' /\ Balanced(edited)'
    BY <1>0, <2>2, BookLeft DEF Paid
  <2> QED BY <1>0, <2>2, <2>4, <2>5 DEF Paid, Books
<1>8. CASE \/ RestRemains \/ SkipTargets \/ ReadOpenOrders \/ AllPlaced \/ StillGone
           \/ StopFills
  <2>1. UNCHANGED <<target, posted, edited, between, lost>> /\ (size' = size \/ size' = 0)
        /\ (cycle' = cycle \/ (cycle # "sized" /\ cycle' # "sized"))
    BY <1>8 DEF RestRemains, SkipTargets, ReadOpenOrders, AllPlaced, StillGone, StopFills
  <2> QED BY <1>2, <2>1
<1>9. ASSUME NEW l \in Level, PlaceAgain(l) PROVE Paid'
  <2> DEFINE p == placed + 1
  <2>1. /\ p \in Target /\ p > placed /\ target'[p].state = "open"
        /\ \A t \in Target \ {p} :
             /\ target'[t].amount = target[t].amount
             /\ \/ target'[t].state = target[t].state
                \/ target[t].state = "open" /\ target'[t].state = "dropped"
        /\ \/ edited' = [edited EXCEPT !.order[l] = p] /\ lost' = lost
           \/ edited' = edited /\ lost' = lost \cup {p}
    BY <1>0, <1>9, PlaceFacts, TargetFacts DEF Found, TargetsTypeOK
  <2>2. UNCHANGED <<size, posted, between, cycle>> /\ cycle = "replace"
    BY <1>9 DEF PlaceAgain
  <2> HIDE DEF p
  <2>3. target[p].state = "none" /\ p \notin Filled
    BY <1>0, <2>1 DEF Found, Rows, Filled
  <2>4. Filled' = Filled
    BY <2>1, <2>3 DEF Filled
  <2>5. \A S \in SUBSET Filled : Amounts(target', S) = Amounts(target, S)
    <3>1. \A t \in Filled : target'[t].amount = target[t].amount
      BY <2>1, <2>3 DEF Filled
    <3> QED BY <1>0, <3>1, SameAmounts
  <2>6. edited'.counted = edited.counted /\ edited'.left = edited.left
        /\ edited'.booked = edited.booked /\ edited'.open = edited.open /\ lost \subseteq lost'
    BY <1>0, <2>1 DEF TargetRow
  <2>7. Amounts(target', Filled') = Amounts(target, Filled)
        /\ Amounts(target', posted.counted) = Amounts(target, posted.counted)
        /\ Amounts(target', edited.counted) = Amounts(target, edited.counted)
    BY <1>0, <2>4, <2>5, FilledFacts
  <2> QED BY <1>0, <2>2, <2>6, <2>7 DEF Paid, Sums, Books, AllBooked, Balanced
<1>10. CASE \/ \E l \in Level : NotPlaced(l)
            \/ \E t \in Target : DropTarget(t)
  <2>1. Dropping
    BY <1>0, <1>10, DroppedOne, DroppedNone DEF NotPlaced, DropTarget, TargetRow
  <2>2. Filled' = Filled /\ \A t \in Target : target'[t].amount = target[t].amount
    BY <2>1 DEF Dropping, Filled
  <2>3. UNCHANGED <<size, posted, edited, between, cycle, lost>>
    BY <1>10 DEF NotPlaced, DropTarget
  <2> QED BY <1>1, <2>2, <2>3
<1>11. CASE CommitTargets
  <2>1. UNCHANGED <<size, target, edited, lost, between>> /\ posted' = edited
        /\ cycle = "commit" /\ cycle' = "idle"
    BY <1>11 DEF CommitTargets
  <2>2. Filled' = Filled
    BY <2>1 DEF Filled
  <2> QED BY <1>0, <2>1, <2>2 DEF Paid, Sums, Books, AllBooked, Balanced
<1>12. CASE FailTargets
  <2>1. UNCHANGED <<size, target, posted, between>> /\ edited' = posted
        /\ cycle' = "idle" /\ lost \subseteq lost'
    BY <1>12 DEF FailTargets
  <2>2. Filled' = Filled
    BY <2>1 DEF Filled
  <2>3. lost' = {} => lost = {}
    BY <2>1
  <2> QED BY <1>0, <2>1, <2>2, <2>3 DEF Paid, Sums, Books, AllBooked, Balanced
<1>13. ASSUME NEW t \in Target, FillTarget(t) PROVE Paid'
  <2> DEFINE n == Min({size, target[t].amount})
  <2>1. /\ target' = [target EXCEPT ![t].state = "filled", ![t].amount = n]
        /\ size' = size - n
        /\ lost' = IF cycle \in {"detected", "hit", "residual", "replace"}
                     THEN lost \cup {t} ELSE lost
        /\ between' = (between \/ cycle = "sized")
        /\ UNCHANGED <<posted, edited, cycle>>
        /\ target[t].state = "open" /\ size > 0
    BY <1>13 DEF FillTarget
  <2>2. size \in Nat /\ target[t].amount \in Nat /\ Levels \in Nat /\ edited.left \in Nat
    BY <1>0, RowFacts DEF Order
  <2>3. n \in Nat /\ n <= size
    BY <2>2, LesserOfTwo
  <2> HIDE DEF n
  <2>4. t \notin Filled /\ Filled' = Filled \cup {t}
    BY <1>0, <2>1 DEF Filled
  <2>5. \A S \in SUBSET Filled : Amounts(target', S) = Amounts(target, S)
    <3>1. \A u \in Filled : target'[u].amount = target[u].amount
      BY <1>0, <2>1, <2>4 DEF Filled
    <3> QED BY <1>0, <3>1, SameAmounts
  <2>6. Amounts(target', Filled') = Amounts(target, Filled) + n
    <3>1. Filled' \in SUBSET Target /\ t \in Filled' /\ Filled' \ {t} = Filled
      BY <2>4 DEF Filled
    <3>2. target'[t].amount = n /\ \A u \in Filled' : target'[u].amount \in Nat
      <4>1. target'[t].amount = n
        BY <1>0, <2>1
      <4>2. \A u \in Filled' : target'[u].amount \in Nat
        BY <1>0, <3>1 DEF Found, TargetsTypeOK, Order
      <4> QED BY <4>1, <4>2
    <3> DEFINE F == Filled'
               w == target'
    <3>3. F \in SUBSET Target /\ t \in F /\ \A u \in F : w[u].amount \in Nat
      BY <3>1, <3>2
    <3> HIDE DEF F, w
    <3>4. Amounts(w, F) = w[t].amount + Amounts(w, F \ {t})
      BY <3>3, AmountsLess
    <3>5. Amounts(w, F \ {t}) = Amounts(target, Filled)
      BY <2>5, <3>1 DEF F, w
    <3>6. Amounts(target, Filled) \in Nat
      BY <1>0, FilledFacts
    <3>7. Amounts(w, F) = n + Amounts(target, Filled)
      BY <3>2, <3>4, <3>5 DEF w
    <3>8. Amounts(w, F) = Amounts(target, Filled) + n
      BY <2>3, <3>6, <3>7
    <3> QED BY <3>8 DEF F, w
  <2>7. Amounts(target, Filled) \in Nat
        /\ Amounts(target', posted.counted) = Amounts(target, posted.counted)
        /\ Amounts(target', edited.counted) = Amounts(target, edited.counted)
    BY <1>0, <2>5, FilledFacts
  <2>8. Sums'
    <3>1. size + Amounts(target, Filled) = Levels
      BY <1>0, <2>1 DEF Sums
    <3> QED BY <2>1, <2>2, <2>3, <2>6, <2>7, <3>1 DEF Sums
  <2>9. between \in BOOLEAN /\ (~between' => ~between) /\ (lost' = {} => lost = {})
    BY <1>0, <2>1, RowFacts
  <2>10. AllBooked(posted)' /\ AllBooked(edited)' /\ Balanced(posted)'
         /\ (cycle' # "sized" => Balanced(edited)')
    BY <1>0, <2>1, <2>7, <2>9 DEF Books, AllBooked, Balanced
  <2>11. cycle' = "sized" => between' /\ edited'.left + Amounts(target', Filled') >= Levels
    <3>1. cycle = "sized" => edited.left + Amounts(target, Filled) >= Levels
      BY <1>0 DEF Books
    <3>2. edited.left + (Amounts(target, Filled) + n) >= edited.left + Amounts(target, Filled)
      BY <2>2, <2>3, <2>7
    <3>3. edited'.left = edited.left /\ cycle' = cycle /\ (cycle = "sized" => between')
      BY <2>1
    <3> QED BY <2>2, <2>3, <2>6, <2>7, <3>1, <3>2, <3>3
  <2> QED BY <1>0, <2>8, <2>10, <2>11 DEF Paid, Books
<1>14. CASE UNCHANGED targetVars
  BY <1>2, <1>14 DEF targetVars
<1> QED BY <1>3, <1>4, <1>5, <1>6, <1>7, <1>8, <1>9, <1>10, <1>11, <1>12, <1>13, <1>14
        DEF TargetsNext

\* However cycles fail, orders fill between their readings or are placed again
\* (position_monitor.py), the row can find each fill it has not booked, books no
\* contract twice and leaves none out, but for the cases that BookedAsFilled
\* names, for any number of targets, orders and slips.
THEOREM TargetsBooked == TargetsSpec => []BookedAsFilled
<1>1. Paid => BookedAsFilled
  BY FoundTraces, PaidBooks DEF Paid, BookedAsFilled
<1> QED BY <1>1, PaidStart, PaidNext, PTL DEF TargetsSpec

-----------------------------------------------------------------------------
(***************************************************************************)
(* The stop behind the take-profits (TakeProfits).                         *)
(***************************************************************************)
Shaped(r) ==
    r = [order |-> r.order, hit |-> r.hit, booked |-> r.booked, counted |-> r.counted,
         left |-> r.left, stop |-> r.stop, open |-> r.open]

\* The stop of a row is behind the highest of its hits.
StopMoved(r) == r.stop = Highest(r.hit)

\* Only between the booking of a hit and the move of the stop the cycle's row
\* is behind.
Followed ==
    /\ Shaped(posted) /\ Shaped(edited)
    /\ \/ unmoved
       \/ StopMoved(posted) /\ (cycle # "hit" => StopMoved(edited))

LEMMA FollowedStart == TargetsInit => Followed
<1> SUFFICES ASSUME TargetsInit PROVE Followed
  OBVIOUS
<1>1. Shaped(posted) /\ Shaped(edited) /\ posted.stop = 0 /\ posted.hit = {} /\ edited = posted
  BY DEF TargetsInit, Shaped
<1> QED BY <1>1 DEF Followed, StopMoved, Highest

\* A row that keeps its hits and its stop.
LEMMA SameStop ==
    ASSUME NEW r, NEW q, r.stop = q.stop, r.hit = q.hit
    PROVE  StopMoved(q) => StopMoved(r)
BY DEF StopMoved

LEMMA FollowedNext ==
    ASSUME Followed, [TargetsNext]_targetVars
    PROVE  Followed'
<1> USE DEF Followed
<1>1. CASE UNCHANGED <<posted, edited, unmoved>> /\ (cycle' # "hit" => cycle # "hit")
  BY <1>1 DEF Shaped, StopMoved
<1>2. CASE ReadContracts
  <2>1. posted' = posted /\ unmoved' = unmoved
    BY <1>2 DEF ReadContracts
  <2>2. Shaped(edited') /\ edited'.stop = posted.stop /\ edited'.hit = posted.hit
    <3>1. CASE size > 0
      <4>1. edited' = [posted EXCEPT !.left = size]
        BY <1>2, <3>1 DEF ReadContracts
      <4> QED BY <4>1 DEF Shaped
    <3>2. CASE ~(size > 0)
      BY <1>2, <3>2 DEF ReadContracts, Shaped
    <3> QED BY <3>1, <3>2
  <2> QED BY <2>1, <2>2, SameStop DEF Shaped, StopMoved
<1>3. CASE DetectHits
  <2> DEFINE ids == {edited.order[l] : l \in Hits}
             sum == edited.booked + MapThenSumSet(LAMBDA t : target[t].amount, ids)
  <2>1. posted' = posted /\ unmoved' = unmoved /\ cycle = "sized"
    BY <1>3 DEF DetectHits
  <2>2. edited' = [edited EXCEPT !.hit = @ \cup Hits, !.counted = @ \cup ids,
                                 !.booked = sum]
    BY <1>3 DEF DetectHits
  <2> HIDE DEF ids, sum
  <2>3. Shaped(edited') /\ edited'.stop = edited.stop /\ edited'.hit = edited.hit \cup Hits
    BY <2>2 DEF Shaped
  <2>4. cycle' # "hit" => Hits = {}
    BY <1>3 DEF DetectHits
  <2>5. cycle' # "hit" => edited'.hit = edited.hit
    BY <2>3, <2>4
  <2> QED BY <2>1, <2>3, <2>5 DEF Shaped, StopMoved
<1>4. CASE MoveStop
  <2>1. posted' = posted /\ unmoved' = unmoved
        /\ edited' = [edited EXCEPT !.stop = Highest(edited.hit)]
    BY <1>4 DEF MoveStop, StopFor
  <2>2. Shaped(edited') /\ edited'.stop = Highest(edited'.hit)
    BY <2>1 DEF Shaped
  <2> QED BY <2>1, <2>2 DEF Shaped, StopMoved
<1>5. CASE StopNotMoved
  BY <1>5 DEF StopNotMoved, Shaped
<1>6. CASE CloseRest \/ BookGone
  <2>1. posted' = posted /\ unmoved' = unmoved /\ cycle # "hit"
    BY <1>6 DEF CloseRest, BookGone
  <2> DEFINE b == edited.booked + edited.left
  <2>2. edited' = [edited EXCEPT !.booked = b, !.left = 0, !.open = FALSE]
    BY <1>6 DEF CloseRest, BookGone
  <2> HIDE DEF b
  <2>3. Shaped(edited') /\ edited'.stop = edited.stop /\ edited'.hit = edited.hit
    BY <2>2 DEF Shaped
  <2> QED BY <2>1, <2>3 DEF Shaped, StopMoved
<1>7. ASSUME NEW l \in Level, PlaceAgain(l) PROVE Followed'
  <2>1. posted' = posted /\ unmoved' = unmoved /\ cycle = "replace"
    BY <1>7 DEF PlaceAgain
  <2>2. edited' = edited \/ edited' = [edited EXCEPT !.order[l] = placed + 1]
    BY <1>7 DEF PlaceAgain
  <2>3. Shaped(edited') /\ edited'.stop = edited.stop /\ edited'.hit = edited.hit
    BY <2>2 DEF Shaped
  <2> QED BY <2>1, <2>3 DEF Shaped, StopMoved
<1>8. CASE CommitTargets \/ FailTargets
  BY <1>8 DEF CommitTargets, FailTargets, Shaped, StopMoved
<1>9. CASE \/ ReadOrdersFails \/ RestRemains \/ SkipTargets \/ ReadOpenOrders \/ AllPlaced
           \/ StillGone \/ StopFills
           \/ \E l \in Level : NotPlaced(l)
           \/ \E t \in Target : FillTarget(t) \/ DropTarget(t)
  <2>1. UNCHANGED <<posted, edited, unmoved>> /\ (cycle' # "hit" => cycle # "hit")
    BY <1>9 DEF ReadOrdersFails, RestRemains, SkipTargets, ReadOpenOrders, AllPlaced,
                StillGone, StopFills, NotPlaced, FillTarget, DropTarget
  <2> QED BY <1>1, <2>1
<1>10. CASE UNCHANGED targetVars
  BY <1>1, <1>10 DEF targetVars
<1> QED BY <1>2, <1>3, <1>4, <1>5, <1>6, <1>7, <1>8, <1>9, <1>10 DEF TargetsNext

\* "TP2 hit -> SL at TP1" (position_monitor.py): however cycles fail, orders fill
\* between their readings or are placed again, the stop of an open row follows
\* its highest hit unless a stop was refused, for any number of targets.
THEOREM StopsFollowHits == TargetsSpec => []HitMovesStop
<1>1. Followed => HitMovesStop
  BY DEF Followed, StopMoved, HitMovesStop
<1> QED BY <1>1, FollowedStart, FollowedNext, PTL DEF TargetsSpec
=============================================================================
