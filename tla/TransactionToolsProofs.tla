----------------------- MODULE TransactionToolsProofs -----------------------
(***************************************************************************)
(* Proofs about RuleEngine and TransactionTools, for any transactions,      *)
(* profiles, review windows and limits.                                     *)
(***************************************************************************)
EXTENDS TransactionTools, FiniteSetTheorems, WellFoundedInduction, TLAPS

-----------------------------------------------------------------------------
(* Finite sets of transactions.                                            *)

\* What holds of a set whenever it holds of all its proper subsets holds of every
\* finite set.
LEMMA SubsetInduction ==
  ASSUME NEW S, IsFiniteSet(S), NEW T,
         \A R \in SUBSET S : (\A Q \in SUBSET R : Q # R => Q \in T) => R \in T
  PROVE  SUBSET S \subseteq T
<1> SUFFICES ASSUME ~(SUBSET S \subseteq T)  PROVE FALSE
  OBVIOUS
<1> DEFINE Bad == (SUBSET S) \ T
<1>1. Bad # {}
  OBVIOUS
<1>2. Bad \subseteq FiniteSubsetsOf(S)
  <2>1. FiniteSubsetsOf(S) = SUBSET S
    BY FS_FiniteSubsetsOfFinite
  <2>2. QED
    BY <2>1
<1>3. PICK R \in Bad : \A Q \in Bad : ~(<<Q, R>> \in StrictSubsetOrdering(S))
  <2> HIDE DEF Bad
  <2>1. IsWellFoundedOn(StrictSubsetOrdering(S), FiniteSubsetsOf(S))
    BY FS_StrictSubsetOrderingWellFounded
  <2>2. QED
    BY <1>1, <1>2, <2>1, WFMin
<1>4. ASSUME NEW Q \in SUBSET R, Q # R  PROVE Q \in T
  <2>1. <<Q, R>> \in StrictSubsetOrdering(S)
    BY <1>3, <1>4 DEF StrictSubsetOrdering
  <2>2. QED
    BY <1>3, <2>1
<1>5. QED
  BY <1>3, <1>4

\* The function that Total computes, on the subsets of S.
Adds(h, S) ==
  h = [s \in SUBSET S |->
        IF s = {} THEN 0
        ELSE LET e == CHOOSE e \in s : TRUE IN e.amount + h[s \ {e}]]

LEMMA TotalAdds ==
  ASSUME NEW S, NEW g, Adds(g, S)
  PROVE  \E h : Adds(h, S) /\ Total(S) = h[S]
  BY DEF Adds, Total, MapThenSumSet, MapThenFoldSet

Some(s) == CHOOSE e \in s : TRUE

LEMMA SomeIsIn == ASSUME NEW s, s # {} PROVE Some(s) \in s
  BY DEF Some

LEMMA AddsAt ==
  ASSUME NEW S, NEW h
  PROVE  Adds(h, S) <=>
           h = [s \in SUBSET S |-> IF s = {} THEN 0 ELSE Some(s).amount + h[s \ {Some(s)}]]
  BY DEF Adds, Some

\* There is but one such function.
LEMMA AddsOnce ==
  ASSUME NEW S, IsFiniteSet(S), NEW g, Adds(g, S), NEW h, Adds(h, S)
  PROVE  g[S] = h[S]
<1> DEFINE T == {R \in SUBSET S : g[R] = h[R]}
<1>1. ASSUME NEW R \in SUBSET S, \A Q \in SUBSET R : Q # R => Q \in T
      PROVE  R \in T
  <2>1. CASE R = {}
    BY <2>1, AddsAt
  <2>2. CASE R # {}
    <3>1. Some(R) \in R
      BY <2>2, SomeIsIn
    <3>2. R \ {Some(R)} \in T
      BY <1>1, <3>1
    <3>3. /\ g[R] = Some(R).amount + g[R \ {Some(R)}]
          /\ h[R] = Some(R).amount + h[R \ {Some(R)}]
      BY <2>2, AddsAt
    <3>4. QED
      BY <3>2, <3>3
  <2>3. QED
    BY <2>1, <2>2
<1> HIDE DEF T
<1>2. SUBSET S \subseteq T
  BY <1>1, SubsetInduction
<1>3. S \in T
  BY <1>2
<1>4. QED
  BY <1>3 DEF T

\* The sum of a finite set is an element's amount and the sum of the others.
LEMMA TotalUnfolds ==
  ASSUME NEW S, IsFiniteSet(S)
  PROVE  Total(S) = IF S = {} THEN 0 ELSE Some(S).amount + Total(S \ {Some(S)})
<1> DEFINE Sum(s) == IF s = {} THEN 0 ELSE Some(s).amount + Total(s \ {Some(s)})
           T == {R \in SUBSET S : Total(R) = Sum(R)}
<1>1. ASSUME NEW R \in SUBSET S, \A Q \in SUBSET R : Q # R => Q \in T
      PROVE  R \in T
  <2> DEFINE g == [s \in SUBSET R |-> IF s = R THEN Sum(R) ELSE Total(s)]
  <2>1. \A s \in SUBSET R : s # R => g[s] = Sum(s)
    BY <1>1
  <2>2. \A s \in SUBSET R : s # {} => /\ s \ {Some(s)} \in SUBSET R
                                      /\ s \ {Some(s)} # R
                                      /\ g[s \ {Some(s)}] = Total(s \ {Some(s)})
    BY SomeIsIn
  <2>3. \A s \in SUBSET R :
          g[s] = IF s = {} THEN 0 ELSE Some(s).amount + g[s \ {Some(s)}]
    BY <2>1, <2>2
  <2>4. Adds(g, R)
    <3>1. g = [s \in SUBSET R |-> IF s = {} THEN 0 ELSE Some(s).amount + g[s \ {Some(s)}]]
      BY <2>3
    <3> HIDE DEF g
    <3>2. QED
      BY <3>1, AddsAt
  <2>5. PICK h : Adds(h, R) /\ Total(R) = h[R]
    BY <2>4, TotalAdds
  <2>6. IsFiniteSet(R)
    BY FS_Subset
  <2>7. g[R] = h[R]
    <3> HIDE DEF g
    <3>1. QED
      BY <2>4, <2>5, <2>6, AddsOnce
  <2>8. g[R] = Sum(R)
    OBVIOUS
  <2>9. QED
    BY <2>5, <2>7, <2>8
<1> HIDE DEF T
<1>2. SUBSET S \subseteq T
  BY <1>1, SubsetInduction
<1>3. S \in T
  BY <1>2
<1>4. QED
  BY <1>3 DEF T

Priced(S) == IsFiniteSet(S) /\ \A e \in S : e.amount \in Nat

LEMMA PricedPart == ASSUME NEW S, Priced(S), NEW R \in SUBSET S PROVE Priced(R)
  BY FS_Subset DEF Priced

LEMMA TotalIsNat == ASSUME NEW S, Priced(S) PROVE Total(S) \in Nat
<1> DEFINE T == {R \in SUBSET S : Total(R) \in Nat}
<1>1. ASSUME NEW R \in SUBSET S, \A Q \in SUBSET R : Q # R => Q \in T
      PROVE  R \in T
  <2>1. IsFiniteSet(R) /\ \A e \in R : e.amount \in Nat
    BY PricedPart DEF Priced
  <2>2. CASE R = {}
    <3>1. Total(R) = 0
      BY <2>1, <2>2, TotalUnfolds
    <3>2. QED
      BY <3>1
  <2>3. CASE R # {}
    <3>1. PICK e \in R : e = Some(R)
      BY <2>3, SomeIsIn
    <3>2. Total(R \ {e}) \in Nat /\ e.amount \in Nat
      BY <1>1, <2>1
    <3>3. Total(R) = e.amount + Total(R \ {e})
      BY <2>1, <2>3, <3>1, TotalUnfolds
    <3>4. Total(R) \in Nat
      BY <3>2, <3>3
    <3>5. QED
      BY <3>4
  <2>4. QED
    BY <2>2, <2>3
<1> HIDE DEF T
<1>2. IsFiniteSet(S)
  BY DEF Priced
<1>3. SUBSET S \subseteq T
  BY <1>1, <1>2, SubsetInduction
<1>4. S \in T
  BY <1>3
<1>5. QED
  BY <1>4 DEF T

\* Whichever element is taken out first.
LEMMA TotalWithout ==
  ASSUME NEW S, Priced(S), NEW x \in S
  PROVE  Total(S) = x.amount + Total(S \ {x})
<1> DEFINE T == {R \in SUBSET S : \A e \in R : Total(R) = e.amount + Total(R \ {e})}
<1>1. ASSUME NEW R \in SUBSET S, \A Q \in SUBSET R : Q # R => Q \in T
      PROVE  R \in T
  <2>1. ASSUME NEW e \in R  PROVE Total(R) = e.amount + Total(R \ {e})
    <3>1. PICK c \in R : c = Some(R)
      BY SomeIsIn
    <3>2. Total(R) = c.amount + Total(R \ {c})
      <4>1. IsFiniteSet(R)
        BY PricedPart DEF Priced
      <4>2. QED
        BY <3>1, <4>1, TotalUnfolds
    <3>3. CASE c = e
      BY <3>2, <3>3
    <3>4. CASE c # e
      <4>1. R \ {c} \in T /\ R \ {e} \in T /\ e \in R \ {c} /\ c \in R \ {e}
        BY <1>1, <3>4
      <4>2. /\ Total(R \ {c}) = e.amount + Total((R \ {c}) \ {e})
            /\ Total(R \ {e}) = c.amount + Total((R \ {e}) \ {c})
        BY <4>1
      <4>3. (R \ {c}) \ {e} = (R \ {e}) \ {c}
        OBVIOUS
      <4>4. c.amount \in Nat /\ e.amount \in Nat /\ Total((R \ {c}) \ {e}) \in Nat
        <5>1. (R \ {c}) \ {e} \in SUBSET S
          OBVIOUS
        <5>2. Total((R \ {c}) \ {e}) \in Nat
          BY <5>1, PricedPart, TotalIsNat
        <5>3. QED
          BY <5>2 DEF Priced
      <4>5. \A a, b, t \in Nat : a + (b + t) = b + (a + t)
        OBVIOUS
      <4>6. c.amount + (e.amount + Total((R \ {c}) \ {e}))
              = e.amount + (c.amount + Total((R \ {c}) \ {e}))
        BY <4>4, <4>5
      <4>7. QED
        BY <3>2, <4>2, <4>3, <4>6
    <3>5. QED
      BY <3>3, <3>4
  <2>2. QED
    BY <2>1
<1> HIDE DEF T
<1>2. IsFiniteSet(S)
  BY DEF Priced
<1>3. SUBSET S \subseteq T
  BY <1>1, <1>2, SubsetInduction
<1>4. S \in T
  BY <1>3
<1>5. QED
  BY <1>4 DEF T

\* More transactions never add up to less.
LEMMA TotalGrows ==
  ASSUME NEW S, Priced(S), NEW R \in SUBSET S
  PROVE  Total(R) <= Total(S)
<1> DEFINE T == {Q \in SUBSET S : \A P \in SUBSET Q : Total(P) <= Total(Q)}
<1>1. ASSUME NEW Q \in SUBSET S, \A P \in SUBSET Q : P # Q => P \in T
      PROVE  Q \in T
  <2>1. ASSUME NEW P \in SUBSET Q  PROVE Total(P) <= Total(Q)
    <3>1. Priced(P) /\ Priced(Q) /\ Total(P) \in Nat /\ Total(Q) \in Nat
      BY PricedPart, TotalIsNat
    <3>2. CASE P = Q
      BY <3>1, <3>2
    <3>3. CASE P # Q
      <4>1. PICK e \in Q : e \notin P
        BY <3>3
      <4>2. Q \ {e} \in T /\ P \in SUBSET (Q \ {e})
        BY <1>1, <4>1
      <4>3. Total(P) <= Total(Q \ {e})
        BY <4>2
      <4>4. Total(Q) = e.amount + Total(Q \ {e}) /\ e.amount \in Nat
        BY <3>1, TotalWithout DEF Priced
      <4>5. Total(Q \ {e}) \in Nat
        BY <3>1, PricedPart, TotalIsNat
      <4>6. QED
        BY <3>1, <4>3, <4>4, <4>5
    <3>4. QED
      BY <3>2, <3>3
  <2>2. QED
    BY <2>1
<1> HIDE DEF T
<1>2. IsFiniteSet(S)
  BY DEF Priced
<1>3. SUBSET S \subseteq T
  BY <1>1, <1>2, SubsetInduction
<1>4. S \in T
  BY <1>3
<1>5. QED
  BY <1>4 DEF T

LEMMA TotalCoversEach ==
  ASSUME NEW S, Priced(S), NEW e \in S
  PROVE  e.amount <= Total(S)
<1>1. Total(S) = e.amount + Total(S \ {e}) /\ e.amount \in Nat
  BY TotalWithout DEF Priced
<1>2. Total(S \ {e}) \in Nat
  BY PricedPart, TotalIsNat
<1>3. QED
  BY <1>1, <1>2

\* Deposits of at least the floor add up to the floor as many times.
LEMMA TotalOverFloor ==
  ASSUME NEW S, Priced(S), \A e \in S : STRUCTURING_FLOOR <= e.amount
  PROVE  STRUCTURING_FLOOR * Cardinality(S) <= Total(S)
<1> DEFINE T == {R \in SUBSET S : STRUCTURING_FLOOR * Cardinality(R) <= Total(R)}
<1>1. ASSUME NEW R \in SUBSET S, \A Q \in SUBSET R : Q # R => Q \in T
      PROVE  R \in T
  <2>1. Priced(R) /\ IsFiniteSet(R) /\ Total(R) \in Nat /\ Cardinality(R) \in Nat
    BY PricedPart, TotalIsNat, FS_CardinalityType DEF Priced
  <2>2. CASE R = {}
    <3>1. Cardinality(R) = 0
      BY <2>1, <2>2, FS_EmptySet
    <3>2. STRUCTURING_FLOOR * 0 <= Total(R)
      BY <2>1 DEF STRUCTURING_FLOOR
    <3>3. QED
      BY <3>1, <3>2
  <2>3. CASE R # {}
    <3>1. PICK e \in R : TRUE
      BY <2>3
    <3>2. Total(R) = e.amount + Total(R \ {e}) /\ e.amount \in Nat
      BY <2>1, TotalWithout DEF Priced
    <3>3. /\ Cardinality(R \ {e}) = Cardinality(R) - 1
          /\ Cardinality(R \ {e}) \in Nat /\ Total(R \ {e}) \in Nat
      BY <2>1, FS_RemoveElement, FS_CardinalityType, PricedPart, TotalIsNat
    <3>4. STRUCTURING_FLOOR * Cardinality(R \ {e}) <= Total(R \ {e})
      BY <1>1
    <3>5. STRUCTURING_FLOOR <= e.amount
      OBVIOUS
    <3>6. \A a, c, d, t, u \in Nat :
            (t = a + u /\ d = c - 1 /\ STRUCTURING_FLOOR * d <= u /\ STRUCTURING_FLOOR <= a)
              => STRUCTURING_FLOOR * c <= t
      BY DEF STRUCTURING_FLOOR
    <3>7. QED
      BY <2>1, <3>2, <3>3, <3>4, <3>5, <3>6
  <2>4. QED
    BY <2>2, <2>3
<1> HIDE DEF T
<1>2. IsFiniteSet(S)
  BY DEF Priced
<1>3. SUBSET S \subseteq T
  BY <1>1, <1>2, SubsetInduction
<1>4. S \in T
  BY <1>3
<1>5. QED
  BY <1>4 DEF T

\* A finite set has a first and a last element by any measure.
LEMMA FirstAndLast ==
  ASSUME NEW S, IsFiniteSet(S), S # {}, NEW f, \A e \in S : f[e] \in Nat
  PROVE  /\ \E a \in S : \A e \in S : f[a] <= f[e]
         /\ \E z \in S : \A e \in S : f[e] <= f[z]
<1> DEFINE Ends(R) == R = {} \/ /\ \E a \in R : \A e \in R : f[a] <= f[e]
                                /\ \E z \in R : \A e \in R : f[e] <= f[z]
           T == {R \in SUBSET S : Ends(R)}
<1>1. ASSUME NEW R \in SUBSET S, \A Q \in SUBSET R : Q # R => Q \in T
      PROVE  R \in T
  <2>1. CASE R = {}
    BY <2>1
  <2>2. CASE R # {}
    <3>1. PICK x \in R : TRUE
      BY <2>2
    <3>2. Ends(R \ {x})
      <4>1. R \ {x} \in SUBSET R /\ R \ {x} # R
        OBVIOUS
      <4>2. R \ {x} \in T
        BY <1>1, <4>1
      <4>3. QED
        BY <4>2
    <3>3. CASE R \ {x} = {}
      <4>1. \A e \in R : f[x] <= f[e] /\ f[e] <= f[x]
        BY <3>3
      <4>2. QED
        BY <4>1
    <3>4. CASE R \ {x} # {}
      <4>1. PICK a \in R \ {x} : \A e \in R \ {x} : f[a] <= f[e]
        BY <3>2, <3>4
      <4>2. PICK z \in R \ {x} : \A e \in R \ {x} : f[e] <= f[z]
        BY <3>2, <3>4
      <4>3. \E b \in R : \A e \in R : f[b] <= f[e]
        <5>1. CASE f[x] <= f[a]
          <6>1. \A e \in R : f[x] <= f[e]
            BY <4>1, <5>1
          <6>2. QED
            BY <6>1
        <5>2. CASE ~(f[x] <= f[a])
          <6>1. \A e \in R : f[a] <= f[e]
            BY <4>1, <5>2
          <6>2. QED
            BY <6>1
        <5>3. QED
          BY <5>1, <5>2
      <4>4. \E y \in R : \A e \in R : f[e] <= f[y]
        <5>1. CASE f[z] <= f[x]
          <6>1. \A e \in R : f[e] <= f[x]
            BY <4>2, <5>1
          <6>2. QED
            BY <6>1
        <5>2. CASE ~(f[z] <= f[x])
          <6>1. \A e \in R : f[e] <= f[z]
            BY <4>2, <5>2
          <6>2. QED
            BY <6>1
        <5>3. QED
          BY <5>1, <5>2
      <4>5. QED
        BY <4>3, <4>4
    <3>5. QED
      BY <3>3, <3>4
  <2>3. QED
    BY <2>1, <2>2
<1> HIDE DEF T
<1>2. SUBSET S \subseteq T
  BY <1>1, SubsetInduction
<1>3. S \in T
  BY <1>2
<1>4. QED
  BY <1>3 DEF T

-----------------------------------------------------------------------------
(* The windows.                                                            *)

\* What the rules read is well typed, and there is an end to it.
Grounded ==
  /\ profile \in Profiles /\ cutoff \in Cutoffs
  /\ ledger \subseteq Bookable /\ IsFiniteSet(ledger)

LEMMA OnLedger ==
  ASSUME Grounded, NEW S \in SUBSET ledger
  PROVE  /\ Priced(S) /\ IsFiniteSet(S) /\ Cardinality(S) \in Nat
         /\ \A e \in S : e.time \in Nat /\ e.amount \in Nat
<1>1. \A e \in S : e \in Transaction
  BY BoundsAssumption DEF Grounded
<1>2. \A e \in S : e.time \in Nat /\ e.amount \in Nat
  BY <1>1 DEF Transaction
<1>3. IsFiniteSet(S) /\ Cardinality(S) \in Nat
  BY FS_Subset, FS_CardinalityType DEF Grounded
<1>4. QED
  BY <1>2, <1>3 DEF Priced

Close(S, window) == \A d, e \in S : d.time - e.time <= window

\* A group is a part of the items, large enough, and spans no more than a window.
LEMMA GroupsAreClose ==
  ASSUME Grounded, NEW items \in SUBSET ledger, NEW window \in Nat, NEW minimum \in Nat,
         NEW group \in WindowedGroups(items, window, minimum)
  PROVE  group \in SUBSET items /\ Cardinality(group) >= minimum /\ Close(group, window)
<1>1. PICK a \in items :
        /\ group = {e \in items : 0 <= e.time - a.time /\ e.time - a.time <= window}
        /\ Cardinality(group) >= minimum
  BY DEF WindowedGroups
<1>2. \A e \in items : e.time \in Nat
  BY OnLedger
<1>3. QED
  BY <1>1, <1>2 DEF Close

\* Whatever is large enough and spans no more is part of a group: that of its
\* earliest item.
LEMMA CloseIsGrouped ==
  ASSUME Grounded, NEW items \in SUBSET ledger, NEW window \in Nat, NEW minimum \in Nat,
         NEW S \in SUBSET items, S # {}, Cardinality(S) >= minimum, Close(S, window)
  PROVE  \E group \in WindowedGroups(items, window, minimum) : S \subseteq group
<1> DEFINE time == [e \in S |-> e.time]
<1>1. IsFiniteSet(S) /\ \A e \in S : e.time \in Nat
  BY OnLedger
<1>2. PICK a \in S : \A e \in S : a.time <= e.time
  <2>1. \A e \in S : time[e] \in Nat /\ time[e] = e.time
    BY <1>1
  <2> HIDE DEF time
  <2>2. \E a \in S : \A e \in S : time[a] <= time[e]
    BY <1>1, <2>1, FirstAndLast
  <2>3. QED
    BY <2>1, <2>2
<1> DEFINE group == {e \in items : 0 <= e.time - a.time /\ e.time - a.time <= window}
<1>3. S \subseteq group
  BY <1>1, <1>2 DEF Close
<1>4. Cardinality(group) >= minimum
  <2>1. IsFiniteSet(group) /\ Cardinality(group) \in Nat /\ Cardinality(S) \in Nat
    BY OnLedger
  <2>2. Cardinality(S) <= Cardinality(group)
    BY <1>3, <2>1, FS_Subset
  <2>3. QED
    BY <2>1, <2>2
<1>5. group \in WindowedGroups(items, window, minimum)
  BY <1>4 DEF WindowedGroups
<1>6. QED
  BY <1>3, <1>5

LEMMA PartsOfTheLedger ==
  /\ Window \subseteq ledger /\ Credits \subseteq Window /\ Debits \subseteq Window
  /\ CashCredits \subseteq Credits /\ \A credit : Onward(credit) \subseteq Debits
  BY DEF Window, Credits, Debits, CashCredits, Onward

JustUnder == {e \in CashCredits : /\ STRUCTURING_FLOOR <= e.amount
                                  /\ e.amount < REPORTING_THRESHOLD}
SubThreshold == {e \in CashCredits : e.amount < REPORTING_THRESHOLD}

LEMMA StructuringIsFound ==
  ASSUME Grounded
  PROVE  Structuring <=> StructuringEvidenced
<1>1. JustUnder \in SUBSET ledger
  BY PartsOfTheLedger DEF JustUnder
<1>2. Structuring <=> WindowedGroups(JustUnder, STRUCTURING_WINDOW, 3) # {}
  BY DEF Structuring, JustUnder
<1>3. StructuringEvidenced <=>
        \E S \in SUBSET JustUnder : Cardinality(S) >= 3 /\ Close(S, STRUCTURING_WINDOW)
  BY DEF StructuringEvidenced, JustUnder, Close
<1>4. STRUCTURING_WINDOW \in Nat
  BY DEF STRUCTURING_WINDOW
<1>5. ASSUME NEW S \in SUBSET JustUnder, Cardinality(S) >= 3  PROVE S # {}
  BY <1>5, FS_EmptySet
<1>6. ASSUME NEW S \in SUBSET JustUnder, Cardinality(S) >= 3, Close(S, STRUCTURING_WINDOW)
      PROVE  WindowedGroups(JustUnder, STRUCTURING_WINDOW, 3) # {}
  BY <1>1, <1>4, <1>5, <1>6, CloseIsGrouped
<1>7. ASSUME NEW group \in WindowedGroups(JustUnder, STRUCTURING_WINDOW, 3)
      PROVE  /\ group \in SUBSET JustUnder /\ Cardinality(group) >= 3
             /\ Close(group, STRUCTURING_WINDOW)
  BY <1>1, <1>4, GroupsAreClose
<1>8. QED
  BY <1>2, <1>3, <1>6, <1>7

LEMMA AggregationIsFound ==
  ASSUME Grounded
  PROVE  ThresholdAggregation <=> AggregationEvidenced
<1>1. SubThreshold \in SUBSET ledger
  BY PartsOfTheLedger DEF SubThreshold
<1>2. ThresholdAggregation <=>
        \E group \in WindowedGroups(SubThreshold, AGGREGATION_WINDOW, 2) :
          Total(group) >= REPORTING_THRESHOLD
  BY DEF ThresholdAggregation, SubThreshold
<1>3. AggregationEvidenced <=>
        \E S \in SUBSET SubThreshold :
          /\ Cardinality(S) >= 2 /\ Total(S) >= REPORTING_THRESHOLD
          /\ Close(S, AGGREGATION_WINDOW)
  BY DEF AggregationEvidenced, SubThreshold, Close
<1>4. AGGREGATION_WINDOW \in Nat /\ REPORTING_THRESHOLD \in Nat
  BY DEF AGGREGATION_WINDOW, REPORTING_THRESHOLD
<1>5. ASSUME NEW S \in SUBSET SubThreshold, Cardinality(S) >= 2,
             Total(S) >= REPORTING_THRESHOLD, Close(S, AGGREGATION_WINDOW)
      PROVE  ThresholdAggregation
  <2>1. S # {}
    BY <1>5, FS_EmptySet
  <2>2. PICK group \in WindowedGroups(SubThreshold, AGGREGATION_WINDOW, 2) : S \subseteq group
    BY <1>1, <1>4, <1>5, <2>1, CloseIsGrouped
  <2>3. group \in SUBSET SubThreshold
    BY <1>1, <1>4, GroupsAreClose
  <2>4. Priced(group) /\ S \in SUBSET group
    BY <1>1, <2>2, <2>3, OnLedger
  <2>5. Total(S) <= Total(group) /\ Total(S) \in Nat /\ Total(group) \in Nat
    BY <2>4, PricedPart, TotalGrows, TotalIsNat
  <2>6. Total(group) >= REPORTING_THRESHOLD
    BY <1>4, <1>5, <2>5
  <2>7. QED
    BY <1>2, <2>6
<1>6. ASSUME NEW group \in WindowedGroups(SubThreshold, AGGREGATION_WINDOW, 2)
      PROVE  /\ group \in SUBSET SubThreshold /\ Cardinality(group) >= 2
             /\ Close(group, AGGREGATION_WINDOW)
  BY <1>1, <1>4, GroupsAreClose
<1>7. QED
  BY <1>2, <1>3, <1>5, <1>6

LEMMA GroundedFinds == Grounded => PatternsAreFound
  BY StructuringIsFound, AggregationIsFound DEF PatternsAreFound

-----------------------------------------------------------------------------
(* The score.                                                              *)

LEMMA LesserOf ==
  ASSUME NEW a \in Nat, NEW b \in Nat
  PROVE  /\ Min({a, b}) \in Nat /\ Min({a, b}) <= a /\ Min({a, b}) <= b
         /\ Min({a, b}) \in {a, b}
<1>1. \E x \in {a, b} : \A y \in {a, b} : x <= y
  <2>1. CASE a <= b
    BY <2>1
  <2>2. CASE ~(a <= b)
    BY <2>2
  <2>3. QED
    BY <2>1, <2>2
<1>2. Min({a, b}) \in {a, b} /\ \A y \in {a, b} : Min({a, b}) <= y
  BY <1>1 DEF Min
<1>3. QED
  BY <1>2

GeographyWeight == Min({10 * Cardinality(Touched), 20})

LEMMA TouchedIsFinite ==
  IsFiniteSet(Touched) /\ Cardinality(Touched) \in Nat /\ GeographyWeight \in Nat
<1>1. IsFiniteSet(HighRiskCountries)
  BY BoundsAssumption
<1>2. Touched \subseteq HighRiskCountries
  BY DEF Touched
<1>3. IsFiniteSet(Touched) /\ Cardinality(Touched) \in Nat
  BY <1>1, <1>2, FS_Subset, FS_CardinalityType
<1>4. 10 * Cardinality(Touched) \in Nat /\ 20 \in Nat
  BY <1>3
<1>5. QED
  BY <1>3, <1>4, LesserOf DEF GeographyWeight

LEMMA PointsAreNat == ASSUME NEW hit, NEW weight \in Nat PROVE Points(hit, weight) \in Nat
  BY DEF Points

Percentage == RawScore \in Nat /\ Score \in 0..100 /\ Score = Min({RawScore, 100})

LEMMA ScoreIsPercentage == Percentage
<1>1. RawScore \in Nat
  BY TouchedIsFinite, PointsAreNat DEF RawScore, GeographyWeight
<1>2. Min({RawScore, 100}) \in Nat /\ Min({RawScore, 100}) <= 100
  BY <1>1, LesserOf
<1>3. QED
  BY <1>1, <1>2 DEF Score, Percentage

\* The assessment is the one of the evidence, which is well typed.
AssessmentInv == Grounded /\ assessment = Assessment

LEMMA AssessmentAt ==
  ASSUME assessment = Assessment
  PROVE  /\ assessment = [risk_score |-> Score, risk_level |-> Level(Score)]
         /\ assessment.risk_score = Score /\ assessment.risk_level = Level(Score)
  BY DEF Assessment

LEMMA GroundedEscalates == AssessmentInv => ObligationsEscalate
<1> SUFFICES ASSUME AssessmentInv  PROVE ObligationsEscalate
  OBVIOUS
<1>1. /\ assessment.risk_score = Score /\ assessment.risk_level = Level(Score)
      /\ Score \in 0..100
  BY AssessmentAt, ScoreIsPercentage DEF AssessmentInv, Percentage
<1>2. Mandatory <=> StructuringEvidenced \/ profile.sanctions_hit
  BY StructuringIsFound DEF Mandatory, AssessmentInv
<1>3. Level(Score) = "HIGH" <=> Score >= HIGH_RISK_SCORE \/ Mandatory
  BY DEF Level
<1>4. QED
  BY <1>1, <1>2, <1>3 DEF ObligationsEscalate

LEMMA GroundedStep == AssessmentInv /\ [Next]_vars => AssessmentInv'
<1> SUFFICES ASSUME AssessmentInv, [Next]_vars  PROVE AssessmentInv'
  OBVIOUS
<1> USE DEF AssessmentInv, Grounded
<1>1. CASE Book
  BY <1>1, FS_AddElement DEF Book
<1>2. CASE Widen
  BY <1>2 DEF Widen
<1>3. CASE ScoreAgain
  BY <1>3 DEF ScoreAgain
<1>4. CASE UNCHANGED vars
  <2>1. Assessment' = Assessment
    <3>1. profile' = profile /\ Window' = Window
      BY <1>4 DEF vars, Window
    <3>2. Credits' = Credits /\ Debits' = Debits /\ Touched' = Touched
      BY <3>1 DEF Credits, Debits, Touched
    <3>3. CashCredits' = CashCredits /\ \A credit : Onward(credit)' = Onward(credit)
      BY <3>2 DEF CashCredits, Onward
    <3>4. Structuring' = Structuring /\ ThresholdAggregation' = ThresholdAggregation
      BY <3>3 DEF Structuring, ThresholdAggregation
    <3>5. PassThrough' = PassThrough /\ RapidDispersal' = RapidDispersal
      BY <3>1, <3>2, <3>3 DEF PassThrough, RapidDispersal
    <3>6. BaselineAnomaly' = BaselineAnomaly /\ NewAccountLargeWires' = NewAccountLargeWires
      BY <3>1, <3>2 DEF BaselineAnomaly, NewAccountLargeWires
    <3>7. RawScore' = RawScore /\ Mandatory' = Mandatory
      BY <3>1, <3>2, <3>4, <3>5, <3>6 DEF RawScore, Mandatory
    <3>8. QED
      BY <3>7 DEF Assessment, Score, Level
  <2>2. QED
    BY <1>4, <2>1 DEF vars
<1>5. QED
  BY <1>1, <1>2, <1>3, <1>4 DEF Next

LEMMA InitialAssessment == Init => AssessmentInv
  BY FS_EmptySet DEF Init, AssessmentInv, Grounded

\* R01 and R02 find every pattern that is there and no other, however transactions
\* are booked and whatever the window: for any transactions and windows.
THEOREM CashPatternsAreFound == Spec => []PatternsAreFound
<1>1. AssessmentInv => PatternsAreFound
  BY GroundedFinds DEF AssessmentInv
<1>2. QED
  BY <1>1, InitialAssessment, GroundedStep, PTL DEF Spec

\* Structuring and a sanctions match are HIGH, nothing else is below its score,
\* and the score is a percentage.
THEOREM ObligationsAreMet == Spec => []ObligationsEscalate
  BY InitialAssessment, GroundedStep, GroundedEscalates, PTL DEF Spec

\* The ledger holds what may be booked, and an assessment a score and a level.
THEOREM RulesTypeCorrect == Spec => []TypeOK
<1>1. ASSUME AssessmentInv  PROVE TypeOK
  <2>1. Level(Score) \in RiskLevel
    BY DEF Level, RiskLevel
  <2>2. assessment \in [risk_score : 0..100, risk_level : RiskLevel]
    BY <1>1, <2>1, AssessmentAt, ScoreIsPercentage DEF AssessmentInv, Percentage
  <2>3. QED
    BY <1>1, <2>2 DEF TypeOK, AssessmentInv, Grounded
<1>2. QED
  BY <1>1, InitialAssessment, GroundedStep, PTL DEF Spec

-----------------------------------------------------------------------------
(* More evidence.                                                          *)

\* What a step does to the evidence: the profile stays, the window only gains.
More == profile' = profile /\ Window \subseteq Window'

LEMMA MoreToRead ==
  ASSUME More
  PROVE  /\ Credits \subseteq Credits' /\ Debits \subseteq Debits'
         /\ CashCredits \subseteq CashCredits' /\ Touched \subseteq Touched'
         /\ \A credit : Onward(credit) \subseteq Onward(credit)'
  BY DEF More, Credits, Debits, CashCredits, Touched, Onward

LEMMA StepIsMore == ASSUME Grounded, Next PROVE More
<1>1. \A e \in ledger : e.time \in Nat
  BY OnLedger
<1>2. CASE Book
  BY <1>2 DEF Book, More, Window
<1>3. CASE Widen
  <2>1. PICK c \in Cutoffs : c < cutoff /\ cutoff' = c
    BY <1>3 DEF Widen
  <2>2. c \in Nat /\ cutoff \in Nat
    BY BoundsAssumption DEF Grounded
  <2>3. \A e \in ledger : e.time >= cutoff => e.time >= c
    BY <1>1, <2>1, <2>2
  <2>4. QED
    BY <1>3, <2>1, <2>3 DEF Widen, More, Window
<1>4. CASE ScoreAgain
  BY <1>4 DEF ScoreAgain, More, Window
<1>5. QED
  BY <1>2, <1>3, <1>4 DEF Next

LEMMA PatternsStay ==
  ASSUME Grounded, Grounded', More
  PROVE  /\ Structuring => Structuring'
         /\ ThresholdAggregation => ThresholdAggregation'
<1>1. CashCredits \subseteq CashCredits'
  BY MoreToRead
<1>2. StructuringEvidenced => StructuringEvidenced'
  BY <1>1 DEF StructuringEvidenced
<1>3. AggregationEvidenced => AggregationEvidenced'
  BY <1>1 DEF AggregationEvidenced
<1>4. PatternsAreFound /\ PatternsAreFound'
  BY GroundedFinds, PTL
<1>5. QED
  BY <1>2, <1>3, <1>4 DEF PatternsAreFound

LEMMA DispersalStays ==
  ASSUME Grounded, Grounded', More, RapidDispersal
  PROVE  RapidDispersal'
<1>1. PICK credit \in Credits :
        /\ credit.amount >= 5 * profile.baseline
        /\ Cardinality({d.counterparty : d \in Onward(credit)}) >= 2
        /\ 10 * Total(Onward(credit)) >= 7 * credit.amount
  BY DEF RapidDispersal
<1> DEFINE before == Onward(credit)
           after == Onward(credit)'
           paid == {d.counterparty : d \in before}
           payees == {d.counterparty : d \in after}
<1>2. credit \in Credits' /\ before \subseteq after
  BY MoreToRead
<1>3. after \subseteq ledger'
  BY DEF Onward, Debits, Window
<1>4. Priced(after)
  <2>1. ledger' \subseteq Bookable /\ IsFiniteSet(ledger')
    BY DEF Grounded
  <2>2. \A e \in after : e \in Transaction
    BY <1>3, <2>1, BoundsAssumption
  <2>3. \A e \in after : e.amount \in Nat
    BY <2>2 DEF Transaction
  <2>4. IsFiniteSet(after)
    BY <1>3, <2>1, FS_Subset
  <2>5. QED
    BY <2>3, <2>4 DEF Priced
<1> HIDE DEF before, after
<1>5. Total(before) <= Total(after) /\ Total(before) \in Nat /\ Total(after) \in Nat
  BY <1>2, <1>4, PricedPart, TotalGrows, TotalIsNat
<1>6. Cardinality(paid) <= Cardinality(payees) /\ Cardinality(paid) \in Nat
      /\ Cardinality(payees) \in Nat
  <2>1. IsFiniteSet(after)
    BY <1>4 DEF Priced
  <2> DEFINE f == [d \in after |-> d.counterparty]
  <2>2. f \in Surjection(after, payees)
    BY DEF Surjection
  <2>3. IsFiniteSet(payees)
    BY <2>1, <2>2, FS_Surjection
  <2>4. paid \subseteq payees
    BY <1>2
  <2>5. QED
    BY <2>3, <2>4, FS_Subset, FS_CardinalityType
<1>7. credit.amount \in Nat
  <2>1. credit \in ledger
    BY DEF Credits, Window
  <2>2. QED
    BY <2>1, OnLedger
<1>8. Cardinality(payees) >= 2 /\ 10 * Total(after) >= 7 * credit.amount
  <2>1. Cardinality(paid) >= 2 /\ 10 * Total(before) >= 7 * credit.amount
    BY <1>1 DEF before
  <2>2. QED
    BY <1>5, <1>6, <1>7, <2>1
<1>9. profile' = profile /\ profile.baseline # 0
  BY DEF More, RapidDispersal
<1>10. QED
  BY <1>1, <1>2, <1>8, <1>9 DEF RapidDispersal, after

LEMMA OtherHitsStay ==
  ASSUME More
  PROVE  /\ PassThrough => PassThrough'
         /\ BaselineAnomaly => BaselineAnomaly'
         /\ NewAccountLargeWires => NewAccountLargeWires'
         /\ Window # {} => Window' # {}
         /\ Touched # {} => Touched' # {}
<1>1. PassThrough => PassThrough'
  BY MoreToRead DEF PassThrough
<1>2. BaselineAnomaly => BaselineAnomaly'
  BY MoreToRead DEF BaselineAnomaly, More
<1>3. NewAccountLargeWires => NewAccountLargeWires'
  BY DEF NewAccountLargeWires, More
<1>4. QED
  BY <1>1, <1>2, <1>3, MoreToRead DEF More

LEMMA GeographyGrows ==
  ASSUME More
  PROVE  /\ GeographyWeight \in Nat /\ GeographyWeight' \in Nat
         /\ GeographyWeight <= GeographyWeight'
<1>1. Touched \subseteq Touched'
  BY MoreToRead
<1>2. Touched' \subseteq HighRiskCountries
  BY DEF Touched
<1>3. IsFiniteSet(HighRiskCountries)
  BY BoundsAssumption
<1> DEFINE old == Touched
           new == Touched'
<1> HIDE DEF old, new
<1>4. /\ Cardinality(old) \in Nat /\ Cardinality(new) \in Nat
      /\ Cardinality(old) <= Cardinality(new)
  BY <1>1, <1>2, <1>3, FS_Subset, FS_CardinalityType DEF old, new
<1>5. 10 * Cardinality(old) \in Nat /\ 10 * Cardinality(new) \in Nat
      /\ 10 * Cardinality(old) <= 10 * Cardinality(new)
  BY <1>4
<1>6. ASSUME NEW a \in Nat, NEW b \in Nat, a <= b
      PROVE  Min({a, 20}) \in Nat /\ Min({b, 20}) \in Nat /\ Min({a, 20}) <= Min({b, 20})
  <2>1. /\ Min({a, 20}) \in Nat /\ Min({a, 20}) <= a /\ Min({a, 20}) <= 20
        /\ Min({b, 20}) \in Nat /\ Min({b, 20}) \in {b, 20}
    BY LesserOf
  <2>2. QED
    BY <1>6, <2>1
<1>7. /\ GeographyWeight = Min({10 * Cardinality(old), 20})
      /\ GeographyWeight' = Min({10 * Cardinality(new), 20})
  BY DEF GeographyWeight, old, new
<1>8. QED
  BY <1>5, <1>6, <1>7

LEMMA MoreScoresMore ==
  ASSUME Grounded, Grounded', More
  PROVE  Score <= Score' /\ (Mandatory => Mandatory')
<1>1. /\ (Structuring => Structuring')
      /\ (ThresholdAggregation => ThresholdAggregation')
      /\ (PassThrough => PassThrough') /\ (BaselineAnomaly => BaselineAnomaly')
      /\ (RapidDispersal => RapidDispersal')
      /\ (NewAccountLargeWires => NewAccountLargeWires')
      /\ (Touched # {} => Touched' # {})
      /\ (Window # {} => Window' # {})
  BY PatternsStay, DispersalStays, OtherHitsStay
<1>2. profile' = profile
  BY DEF More
<1>3. Mandatory => Mandatory'
  BY <1>1, <1>2 DEF Mandatory
<1>4. /\ Points(Structuring, 40) \in Nat /\ Points(Structuring', 40) \in Nat
      /\ Points(Structuring, 40) <= Points(Structuring', 40)
  BY <1>1 DEF Points
<1>5. /\ Points(ThresholdAggregation, 15) \in Nat
      /\ Points(ThresholdAggregation', 15) \in Nat
      /\ Points(ThresholdAggregation, 15) <= Points(ThresholdAggregation', 15)
  BY <1>1 DEF Points
<1>6. /\ Points(PassThrough, 30) \in Nat /\ Points(PassThrough', 30) \in Nat
      /\ Points(PassThrough, 30) <= Points(PassThrough', 30)
  BY <1>1 DEF Points
<1>7. /\ Points(Touched # {}, GeographyWeight) \in Nat
      /\ Points(Touched' # {}, GeographyWeight') \in Nat
      /\ Points(Touched # {}, GeographyWeight) <= Points(Touched' # {}, GeographyWeight')
  BY <1>1, GeographyGrows DEF Points
<1>8. /\ Points(BaselineAnomaly, 25) \in Nat /\ Points(BaselineAnomaly', 25) \in Nat
      /\ Points(BaselineAnomaly, 25) <= Points(BaselineAnomaly', 25)
  BY <1>1 DEF Points
<1>9. /\ Points(RapidDispersal, 20) \in Nat /\ Points(RapidDispersal', 20) \in Nat
      /\ Points(RapidDispersal, 20) <= Points(RapidDispersal', 20)
  BY <1>1 DEF Points
<1>10. /\ Points(NewAccountLargeWires, 15) \in Nat
       /\ Points(NewAccountLargeWires', 15) \in Nat
       /\ Points(NewAccountLargeWires, 15) <= Points(NewAccountLargeWires', 15)
  BY <1>1 DEF Points
<1>11. /\ Points(profile.sanctions_hit, 50) \in Nat /\ Points(profile.pep_flag, 10) \in Nat
  BY PointsAreNat
<1> DEFINE known == Points(~profile.verified /\ Window # {}, 10)
           knownNow == Points(~profile.verified /\ Window' # {}, 10)
<1>12. known \in Nat /\ knownNow \in Nat /\ known <= knownNow
  BY <1>1 DEF Points
<1>13. RawScore =
         Points(Structuring, 40) + Points(ThresholdAggregation, 15) + Points(PassThrough, 30)
         + Points(Touched # {}, GeographyWeight) + Points(BaselineAnomaly, 25)
         + Points(RapidDispersal, 20) + Points(NewAccountLargeWires, 15)
         + Points(profile.sanctions_hit, 50) + Points(profile.pep_flag, 10) + known
  BY DEF RawScore, GeographyWeight
<1>14. RawScore' =
         Points(Structuring', 40) + Points(ThresholdAggregation', 15)
         + Points(PassThrough', 30) + Points(Touched' # {}, GeographyWeight')
         + Points(BaselineAnomaly', 25) + Points(RapidDispersal', 20)
         + Points(NewAccountLargeWires', 15)
         + Points(profile.sanctions_hit, 50) + Points(profile.pep_flag, 10) + knownNow
  BY <1>2 DEF RawScore, GeographyWeight
<1> HIDE DEF known, knownNow
<1>15. RawScore <= RawScore'
  BY <1>4, <1>5, <1>6, <1>7, <1>8, <1>9, <1>10, <1>11, <1>12, <1>13, <1>14
<1>16. RawScore \in Nat /\ Score = Min({RawScore, 100})
  BY ScoreIsPercentage DEF Percentage
<1>17. RawScore' \in Nat /\ Score' = Min({RawScore', 100})
  <2>1. Percentage'
    BY ScoreIsPercentage, PTL
  <2>2. QED
    BY <2>1 DEF Percentage
<1>18. /\ Min({RawScore, 100}) \in Nat /\ Min({RawScore, 100}) <= RawScore
       /\ Min({RawScore, 100}) <= 100
       /\ Min({RawScore', 100}) \in {RawScore', 100}
  BY <1>16, <1>17, LesserOf
<1>19. QED
  BY <1>3, <1>15, <1>16, <1>17, <1>18

LEMMA LevelsRise ==
  ASSUME Score \in Nat, Score' \in Nat, Score <= Score', Mandatory => Mandatory'
  PROVE  Rank[Level(Score)] <= Rank[Level(Score)']
  BY DEF Rank, Level, HIGH_RISK_SCORE, MEDIUM_RISK_SCORE

\* Neither one more transaction, of whatever kind and time, nor a longer lookback
\* lowers the score or the level, and a second scoring changes neither: for any
\* transactions, profiles and windows.
THEOREM MoreEvidenceNeverHelps == Spec => EvidenceNeverHelps
<1> DEFINE Rises == /\ assessment'.risk_score >= assessment.risk_score
                    /\ Rank[assessment'.risk_level] >= Rank[assessment.risk_level]
<1>1. ASSUME AssessmentInv, AssessmentInv', Next  PROVE Rises
  <2>1. Grounded /\ Grounded' /\ More
    BY <1>1, StepIsMore DEF AssessmentInv
  <2>2. Score <= Score' /\ (Mandatory => Mandatory')
    BY <2>1, MoreScoresMore
  <2>3. Score \in Nat
    BY ScoreIsPercentage DEF Percentage
  <2>4. Score' \in Nat
    <3>1. Percentage'
      BY ScoreIsPercentage, PTL
    <3>2. QED
      BY <3>1 DEF Percentage
  <2>5. assessment.risk_score = Score /\ assessment.risk_level = Level(Score)
    BY <1>1, AssessmentAt DEF AssessmentInv
  <2>6. assessment'.risk_score = Score' /\ assessment'.risk_level = Level(Score)'
    BY <1>1 DEF AssessmentInv, Assessment
  <2>7. Rank[Level(Score)] <= Rank[Level(Score)']
    BY <2>2, <2>3, <2>4, LevelsRise
  <2>8. Rank[Level(Score)] \in Nat /\ Rank[Level(Score)'] \in Nat
    BY DEF Level, Rank
  <2>9. QED
    BY <2>2, <2>3, <2>4, <2>5, <2>6, <2>7, <2>8
<1>2. AssessmentInv /\ AssessmentInv' /\ [Next]_vars => [Rises]_vars
  BY <1>1
<1>3. QED
  BY <1>2, InitialAssessment, GroundedStep, PTL DEF Spec, EvidenceNeverHelps

-----------------------------------------------------------------------------
(* What was shown: the aggregate.                                          *)

\* No rule about transactions is hit without one.
LEMMA RulesNeedActivity ==
  ASSUME Window = {}
  PROVE  /\ ~Structuring /\ ~ThresholdAggregation /\ ~PassThrough /\ Touched = {}
         /\ ~BaselineAnomaly /\ ~RapidDispersal /\ ~NewAccountLargeWires
<1>1. Credits = {} /\ CashCredits = {} /\ Touched = {}
  BY DEF Credits, CashCredits, Touched
<1>2. \A window, minimum : WindowedGroups({}, window, minimum) = {}
  BY DEF WindowedGroups
<1>3. ~Structuring
  <2>1. Structuring <=> WindowedGroups(JustUnder, STRUCTURING_WINDOW, 3) # {}
    BY DEF Structuring, JustUnder
  <2>2. JustUnder = {}
    BY <1>1 DEF JustUnder
  <2>3. QED
    BY <1>2, <2>1, <2>2
<1>4. ~ThresholdAggregation
  <2>1. ThresholdAggregation <=>
          \E group \in WindowedGroups(SubThreshold, AGGREGATION_WINDOW, 2) :
            Total(group) >= REPORTING_THRESHOLD
    BY DEF ThresholdAggregation, SubThreshold
  <2>2. SubThreshold = {}
    BY <1>1 DEF SubThreshold
  <2>3. QED
    BY <1>2, <2>1, <2>2
<1>5. ~PassThrough /\ ~BaselineAnomaly /\ ~RapidDispersal
  BY <1>1 DEF PassThrough, BaselineAnomaly, RapidDispersal
<1>6. ~NewAccountLargeWires
  BY DEF NewAccountLargeWires
<1>7. QED
  BY <1>1, <1>3, <1>4, <1>5, <1>6

LEMMA CountGrows ==
  ASSUME Grounded, NEW S \in SUBSET ledger, NEW R \in SUBSET S
  PROVE  /\ Cardinality(R) \in Nat /\ Cardinality(S) \in Nat
         /\ Cardinality(R) <= Cardinality(S)
         /\ Total(R) \in Nat /\ Total(S) \in Nat /\ Total(R) <= Total(S)
<1>1. Priced(S) /\ IsFiniteSet(S)
  BY OnLedger
<1>2. QED
  BY <1>1, FS_Subset, FS_CardinalityType, PricedPart, TotalIsNat, TotalGrows

LEMMA LargestCovers ==
  ASSUME Grounded, NEW S \in SUBSET ledger, NEW x \in S
  PROVE  Largest(S) \in Nat /\ x.amount <= Largest(S) /\ x.amount \in Nat
<1> DEFINE amount == [e \in S |-> e.amount]
           amounts == {e.amount : e \in S} \cup {0}
<1>1. IsFiniteSet(S) /\ \A e \in S : e.amount \in Nat /\ amount[e] = e.amount
  BY OnLedger
<1>2. PICK z \in S : \A e \in S : amount[e] <= amount[z]
  <2> HIDE DEF amount
  <2>1. QED
    BY <1>1, FirstAndLast
<1>3. z.amount \in amounts /\ \A a \in amounts : z.amount >= a
  BY <1>1, <1>2
<1>4. Max(amounts) \in amounts /\ \A a \in amounts : Max(amounts) >= a
  <2> HIDE DEF amounts
  <2>1. QED
    BY <1>3 DEF Max
<1>5. Largest(S) = Max(amounts)
  BY DEF Largest
<1>6. QED
  BY <1>1, <1>4, <1>5

\* There are no more counterparties, nor countries, than transactions.
LEMMA ValuesAreFewer ==
  ASSUME NEW S, IsFiniteSet(S), NEW f, DOMAIN f = S, NEW R \in SUBSET {f[e] : e \in S}
  PROVE  /\ IsFiniteSet({f[e] : e \in S})
         /\ Cardinality(R) \in Nat /\ Cardinality({f[e] : e \in S}) \in Nat
         /\ Cardinality(S) \in Nat
         /\ Cardinality(R) <= Cardinality({f[e] : e \in S})
         /\ Cardinality({f[e] : e \in S}) <= Cardinality(S)
<1> DEFINE values == {f[e] : e \in S}
           g == [e \in S |-> f[e]]
<1>1. g \in Surjection(S, values)
  BY DEF Surjection
<1>2. IsFiniteSet(values) /\ Cardinality(values) <= Cardinality(S)
  BY <1>1, FS_Surjection
<1>3. QED
  BY <1>2, FS_Subset, FS_CardinalityType

LEMMA QuotientAtLeast ==
  ASSUME NEW b \in Nat, b # 0, NEW t \in Nat
  PROVE  /\ t >= 10 * b => t \div b >= 10
         /\ t >= 5 * b => t \div b >= 5
  OBVIOUS

\* A window that starts no later takes in that of the rules.
LEMMA LongerTakesIn ==
  ASSUME Grounded, NEW start \in Cutoffs, start <= cutoff
  PROVE  Window \subseteq Since(start) /\ Since(start) \in SUBSET ledger
<1>1. start \in Nat /\ cutoff \in Nat /\ start <= cutoff
  BY BoundsAssumption DEF Grounded
<1>2. \A e \in ledger : e.time \in Nat
  BY OnLedger
<1>3. \A e \in ledger : e.time >= cutoff => e.time >= start
  BY <1>1, <1>2
<1>4. QED
  BY <1>3 DEF Window, Since

LEMMA ShownTakesIn ==
  ASSUME NEW items, Window \subseteq items
  PROVE  /\ Credits \subseteq Going(items, "CREDIT") /\ Debits \subseteq Going(items, "DEBIT")
         /\ CashCredits \subseteq CashIn(items)
  BY DEF Credits, Debits, CashCredits, Going, CashIn

LEMMA SummaryShowsAll ==
  ASSUME Grounded, NEW start \in Cutoffs, start <= cutoff
  PROVE  SummaryShows(Summary(start))
<1> DEFINE items == Since(start)
           s == Summary(start)
           credits == Going(items, "CREDIT")
           debits == Going(items, "DEBIT")
<1>1. Window \subseteq items /\ items \in SUBSET ledger
  BY LongerTakesIn
<1>2. CASE items = {}
  <2>1. Window = {}
    BY <1>1, <1>2
  <2>2. QED
    BY <2>1, RulesNeedActivity DEF SummaryShows
<1>3. CASE items # {}
  <2>1. /\ s.transaction_count = Cardinality(items)
        /\ s.debit_count = Cardinality(debits)
        /\ s.total_debit = Total(debits)
        /\ s.largest_credit = Largest(credits) /\ s.largest_debit = Largest(debits)
        /\ s.cash_credit_count = Cardinality(CashIn(items))
        /\ s.cash_credit_total = Total(CashIn(items))
        /\ s.credit_to_baseline_ratio = Ratio(Total(credits))
        /\ s.by_channel = CountBy(items, "channel")
        /\ s.by_country = CountBy(items, "country")
        /\ s.distinct_counterparties = Cardinality({e.counterparty : e \in items})
        /\ s.foreign_transaction_count = Cardinality({e \in items : e.country # profile.country})
    BY <1>3 DEF Summary
  <2>2. /\ credits \in SUBSET ledger /\ debits \in SUBSET ledger
        /\ CashIn(items) \in SUBSET ledger
        /\ Credits \subseteq credits /\ Debits \subseteq debits
        /\ CashCredits \subseteq CashIn(items)
    BY <1>1, ShownTakesIn DEF Going, CashIn
  <2>3. \A e \in items : e \in Transaction
    BY <1>1, BoundsAssumption DEF Grounded
  <2> HIDE DEF s, credits, debits
  <2>4. ASSUME Structuring
        PROVE  s.cash_credit_count >= 3 /\ s.cash_credit_total >= 3 * STRUCTURING_FLOOR
    <3>1. StructuringEvidenced
      BY <2>4, StructuringIsFound
    <3>2. PICK S \in SUBSET JustUnder : Cardinality(S) >= 3
      BY <3>1 DEF StructuringEvidenced, JustUnder
    <3>3. S \in SUBSET CashIn(items) /\ \A e \in S : STRUCTURING_FLOOR <= e.amount
      BY <2>2 DEF JustUnder
    <3>4. /\ Cardinality(S) <= Cardinality(CashIn(items)) /\ Total(S) <= Total(CashIn(items))
          /\ Cardinality(S) \in Nat /\ Cardinality(CashIn(items)) \in Nat
          /\ Total(S) \in Nat /\ Total(CashIn(items)) \in Nat
      BY <2>2, <3>3, CountGrows
    <3>5. Priced(S)
      BY <2>2, <3>3, OnLedger
    <3>6. STRUCTURING_FLOOR * Cardinality(S) <= Total(S)
      BY <3>3, <3>5, TotalOverFloor
    <3>7. \A n, t \in Nat : (n >= 3 /\ STRUCTURING_FLOOR * n <= t) => t >= 3 * STRUCTURING_FLOOR
      BY DEF STRUCTURING_FLOOR
    <3>8. Total(S) >= 3 * STRUCTURING_FLOOR
      BY <3>2, <3>4, <3>6, <3>7
    <3>9. \A t, u \in Nat : (t >= 3 * STRUCTURING_FLOOR /\ t <= u) => u >= 3 * STRUCTURING_FLOOR
      BY DEF STRUCTURING_FLOOR
    <3>10. QED
      BY <2>1, <3>2, <3>4, <3>8, <3>9
  <2>5. ASSUME ThresholdAggregation
        PROVE  s.cash_credit_count >= 2 /\ s.cash_credit_total >= REPORTING_THRESHOLD
    <3>1. AggregationEvidenced
      BY <2>5, AggregationIsFound
    <3>2. PICK S \in SUBSET CashCredits : Cardinality(S) >= 2 /\ Total(S) >= REPORTING_THRESHOLD
      BY <3>1 DEF AggregationEvidenced
    <3>3. S \in SUBSET CashIn(items)
      BY <2>2
    <3>4. /\ Cardinality(S) <= Cardinality(CashIn(items)) /\ Total(S) <= Total(CashIn(items))
          /\ Cardinality(S) \in Nat /\ Cardinality(CashIn(items)) \in Nat
          /\ Total(S) \in Nat /\ Total(CashIn(items)) \in Nat
      BY <2>2, <3>3, CountGrows
    <3>5. QED
      BY <2>1, <3>2, <3>4 DEF REPORTING_THRESHOLD
  <2>6. ASSUME PassThrough
        PROVE  /\ s.largest_credit >= REPORTING_THRESHOLD
               /\ 10 * s.total_debit >= 7 * REPORTING_THRESHOLD
    <3>1. PICK credit \in Credits : /\ credit.amount >= REPORTING_THRESHOLD
                                    /\ \E d \in Onward(credit) : 10 * d.amount >= 7 * credit.amount
      BY <2>6 DEF PassThrough
    <3>2. PICK d \in Debits : 10 * d.amount >= 7 * credit.amount
      BY <3>1 DEF Onward
    <3>3. credit \in credits /\ d \in debits
      BY <2>2
    <3>4. Largest(credits) \in Nat /\ credit.amount <= Largest(credits) /\ credit.amount \in Nat
      BY <2>2, <3>3, LargestCovers
    <3>5. d.amount <= Total(debits) /\ d.amount \in Nat /\ Total(debits) \in Nat
      BY <2>2, <3>3, OnLedger, TotalCoversEach, TotalIsNat
    <3>6. 10 * Total(debits) >= 7 * REPORTING_THRESHOLD
      BY <3>1, <3>2, <3>4, <3>5 DEF REPORTING_THRESHOLD
    <3>7. Largest(credits) >= REPORTING_THRESHOLD
      BY <3>1, <3>4 DEF REPORTING_THRESHOLD
    <3>8. QED
      BY <2>1, <3>6, <3>7
  <2>7. ASSUME Touched # {}
        PROVE  /\ Touched \subseteq DOMAIN s.by_country
               /\ s.foreign_transaction_count >= Cardinality(Touched \ {profile.country})
    <3>1. DOMAIN CountBy(items, "country") = {e.country : e \in items}
      BY DEF CountBy
    <3>2. Touched \subseteq {e.country : e \in items}
      BY <1>1 DEF Touched
    <3> DEFINE foreign == {e \in items : e.country # profile.country}
               country == [e \in foreign |-> e.country]
               abroad == Touched \ {profile.country}
    <3>3. abroad \subseteq {country[e] : e \in foreign}
      BY <1>1 DEF Touched
    <3>4. IsFiniteSet(foreign) /\ DOMAIN country = foreign
      BY <1>1, OnLedger
    <3> HIDE DEF country, foreign, abroad
    <3>5. /\ Cardinality(abroad) <= Cardinality({country[e] : e \in foreign})
          /\ Cardinality({country[e] : e \in foreign}) <= Cardinality(foreign)
          /\ Cardinality(abroad) \in Nat /\ Cardinality(foreign) \in Nat
          /\ Cardinality({country[e] : e \in foreign}) \in Nat
      BY <3>3, <3>4, ValuesAreFewer
    <3>6. Cardinality(foreign) >= Cardinality(abroad)
      BY <3>5
    <3>7. QED
      BY <2>1, <3>1, <3>2, <3>6 DEF foreign, abroad
  <2>8. profile.baseline \in Nat
    BY BoundsAssumption DEF Grounded, Profile
  <2>9. ASSUME BaselineAnomaly
        PROVE  /\ s.largest_credit >= 10 * profile.baseline
               /\ s.credit_to_baseline_ratio >= 10
    <3>1. PICK credit \in Credits : credit.amount >= 10 * profile.baseline
      BY <2>9 DEF BaselineAnomaly
    <3>2. credit \in credits
      BY <2>2
    <3>3. Largest(credits) \in Nat /\ credit.amount <= Largest(credits) /\ credit.amount \in Nat
      BY <2>2, <3>2, LargestCovers
    <3>4. credit.amount <= Total(credits) /\ Total(credits) \in Nat
      BY <2>2, <3>2, OnLedger, TotalCoversEach, TotalIsNat
    <3>5. profile.baseline # 0 /\ Ratio(Total(credits)) = Total(credits) \div profile.baseline
      BY <2>9 DEF BaselineAnomaly, Ratio
    <3>6. Total(credits) >= 10 * profile.baseline /\ Largest(credits) >= 10 * profile.baseline
      BY <2>8, <3>1, <3>3, <3>4
    <3>7. Total(credits) \div profile.baseline >= 10
      BY <2>8, <3>4, <3>5, <3>6, QuotientAtLeast
    <3>8. QED
      BY <2>1, <3>5, <3>6, <3>7
  <2>10. ASSUME RapidDispersal
         PROVE  /\ s.debit_count >= 2 /\ s.distinct_counterparties >= 2
                /\ s.credit_to_baseline_ratio >= 5
    <3>1. PICK credit \in Credits :
            /\ credit.amount >= 5 * profile.baseline
            /\ Cardinality({d.counterparty : d \in Onward(credit)}) >= 2
      BY <2>10 DEF RapidDispersal
    <3>2. credit \in credits /\ credit.amount \in Nat
      BY <2>2, LargestCovers
    <3>3. credit.amount <= Total(credits) /\ Total(credits) \in Nat
      BY <2>2, <3>2, OnLedger, TotalCoversEach, TotalIsNat
    <3>4. profile.baseline # 0 /\ Ratio(Total(credits)) = Total(credits) \div profile.baseline
      BY <2>10 DEF RapidDispersal, Ratio
    <3>5. Total(credits) >= 5 * profile.baseline
      BY <2>8, <3>1, <3>2, <3>3
    <3>6. Total(credits) \div profile.baseline >= 5
      BY <2>8, <3>3, <3>4, <3>5, QuotientAtLeast
    <3> DEFINE onward == Onward(credit)
               payee == [d \in onward |-> d.counterparty]
               party == [e \in items |-> e.counterparty]
    <3>7. onward \subseteq debits /\ onward \subseteq items /\ onward \in SUBSET ledger
      BY <1>1, <2>2, PartsOfTheLedger
    <3>8. IsFiniteSet(onward) /\ IsFiniteSet(items)
      BY <1>1, <3>7, OnLedger
    <3>9. /\ {d.counterparty : d \in onward} = {payee[d] : d \in onward}
          /\ {e.counterparty : e \in items} = {party[e] : e \in items}
          /\ {payee[d] : d \in onward} \subseteq {party[e] : e \in items}
          /\ DOMAIN payee = onward /\ DOMAIN party = items
      BY <3>7
    <3>10. Cardinality({payee[d] : d \in onward}) >= 2
      BY <3>1, <3>9
    <3> HIDE DEF payee, party, onward
    <3>11. /\ Cardinality({payee[d] : d \in onward}) <= Cardinality(onward)
           /\ Cardinality({payee[d] : d \in onward}) \in Nat /\ Cardinality(onward) \in Nat
      BY <3>8, <3>9, ValuesAreFewer
    <3>12. /\ Cardinality({payee[d] : d \in onward}) <= Cardinality({party[e] : e \in items})
           /\ Cardinality({party[e] : e \in items}) \in Nat
      BY <3>8, <3>9, ValuesAreFewer
    <3>13. Cardinality(onward) <= Cardinality(debits) /\ Cardinality(debits) \in Nat
      BY <2>2, <3>7, CountGrows
    <3>14. Cardinality(debits) >= 2 /\ Cardinality({party[e] : e \in items}) >= 2
      BY <3>10, <3>11, <3>12, <3>13
    <3>15. QED
      BY <2>1, <3>4, <3>6, <3>9, <3>14
  <2>11. ASSUME NewAccountLargeWires
         PROVE  /\ "WIRE" \in DOMAIN s.by_channel
                /\ \/ s.largest_credit > REPORTING_THRESHOLD
                   \/ s.largest_debit > REPORTING_THRESHOLD
    <3>1. PICK e \in Window : e.channel = "WIRE" /\ e.amount > REPORTING_THRESHOLD
      BY <2>11 DEF NewAccountLargeWires
    <3>2. DOMAIN CountBy(items, "channel") = {x.channel : x \in items}
      BY DEF CountBy
    <3>3. "WIRE" \in DOMAIN CountBy(items, "channel")
      BY <1>1, <3>1, <3>2
    <3>4. e \in items /\ e.direction \in {"CREDIT", "DEBIT"}
      BY <1>1, <2>3 DEF Transaction
    <3>5. CASE e \in credits
      <4>1. Largest(credits) \in Nat /\ e.amount <= Largest(credits) /\ e.amount \in Nat
        BY <2>2, <3>5, LargestCovers
      <4>2. QED
        BY <2>1, <3>1, <3>3, <4>1 DEF REPORTING_THRESHOLD
    <3>6. CASE e \in debits
      <4>1. Largest(debits) \in Nat /\ e.amount <= Largest(debits) /\ e.amount \in Nat
        BY <2>2, <3>6, LargestCovers
      <4>2. QED
        BY <2>1, <3>1, <3>3, <4>1 DEF REPORTING_THRESHOLD
    <3>7. QED
      BY <3>4, <3>5, <3>6 DEF credits, debits, Going
  <2>12. s.transaction_count >= Cardinality(Window)
    BY <1>1, <2>1, CountGrows
  <2>13. QED
    BY <2>4, <2>5, <2>6, <2>7, <2>9, <2>10, <2>11, <2>12 DEF SummaryShows, s
<1>4. QED
  BY <1>2, <1>3

-----------------------------------------------------------------------------
(* What was shown: the listing.                                            *)

\* All the items of S, each earlier one first.
Sorted(rows, S) ==
  /\ rows \in [1..Cardinality(S) -> S] /\ ToSet(rows) = S
  /\ \A i, j \in DOMAIN rows : i <= j => rows[i].time <= rows[j].time

\* The latest item goes to the end.
LEMMA LatestIsLast ==
  ASSUME NEW R, IsFiniteSet(R), \A e \in R : e.time \in Nat,
         NEW z \in R, \A e \in R : e.time <= z.time,
         NEW earlier, Sorted(earlier, R \ {z})
  PROVE  \E rows : Sorted(rows, R)
<1> DEFINE n == Cardinality(R)
           rows == [i \in 1..n |-> IF i = n THEN z ELSE earlier[i]]
<1>1. n \in Nat /\ Cardinality(R \ {z}) = n - 1 /\ n - 1 \in Nat
  <2>1. n \in Nat /\ Cardinality(R \ {z}) = n - 1 /\ IsFiniteSet(R \ {z})
    BY FS_RemoveElement, FS_CardinalityType
  <2>2. Cardinality(R \ {z}) \in Nat
    BY <2>1, FS_CardinalityType
  <2>3. QED
    BY <2>1, <2>2
<1>2. earlier \in [1..(n - 1) -> R \ {z}] /\ DOMAIN earlier = 1..(n - 1)
  BY <1>1 DEF Sorted
<1>3. \A i \in 1..n : i = n \/ i \in 1..(n - 1)
  BY <1>1
<1>4. /\ DOMAIN rows = 1..n /\ n \in 1..n /\ rows[n] = z
      /\ \A i \in 1..(n - 1) : i \in 1..n /\ rows[i] = earlier[i] /\ earlier[i] \in R \ {z}
  BY <1>1, <1>2
<1> HIDE DEF rows
<1>5. rows \in [1..n -> R]
  BY <1>1, <1>2, <1>3 DEF rows
<1>6. ToSet(rows) = R
  <2>1. ASSUME NEW e \in R  PROVE e \in ToSet(rows)
    <3>1. CASE e = z
      BY <1>4, <3>1 DEF ToSet
    <3>2. CASE e # z
      <4>1. PICK i \in 1..(n - 1) : earlier[i] = e
        BY <1>2, <3>2 DEF Sorted, ToSet
      <4>2. QED
        BY <1>4, <4>1 DEF ToSet
    <3>3. QED
      BY <3>1, <3>2
  <2>2. ToSet(rows) \subseteq R
    BY <1>4, <1>5 DEF ToSet
  <2>3. QED
    BY <2>1, <2>2
<1>7. ASSUME NEW i \in 1..n, NEW j \in 1..n, i <= j  PROVE rows[i].time <= rows[j].time
  <2>1. CASE j = n
    BY <1>4, <1>5, <2>1
  <2>2. CASE j # n
    <3>1. i \in 1..(n - 1) /\ j \in 1..(n - 1)
      BY <1>1, <1>7, <2>2
    <3>2. earlier[i].time <= earlier[j].time
      BY <1>2, <1>7, <3>1 DEF Sorted
    <3>3. QED
      BY <1>4, <3>1, <3>2
  <2>3. QED
    BY <2>1, <2>2
<1>8. QED
  BY <1>4, <1>5, <1>6, <1>7 DEF Sorted

LEMMA SortingExists ==
  ASSUME NEW S, IsFiniteSet(S), \A e \in S : e.time \in Nat
  PROVE  \E rows : Sorted(rows, S)
<1> DEFINE T == {R \in SUBSET S : \E rows : Sorted(rows, R)}
<1>1. ASSUME NEW R \in SUBSET S, \A Q \in SUBSET R : Q # R => Q \in T
      PROVE  R \in T
  <2>1. IsFiniteSet(R)
    BY FS_Subset
  <2>2. CASE R = {}
    <3>1. Cardinality(R) = 0
      BY <2>2, FS_EmptySet
    <3> DEFINE none == [i \in 1..0 |-> i]
    <3>2. none \in [1..0 -> {}] /\ DOMAIN none = {}
      OBVIOUS
    <3> HIDE DEF none
    <3>3. Sorted(none, R)
      BY <2>2, <3>1, <3>2 DEF Sorted, ToSet
    <3>4. QED
      BY <3>3
  <2>3. CASE R # {}
    <3> DEFINE time == [e \in R |-> e.time]
    <3>1. \A e \in R : time[e] \in Nat /\ time[e] = e.time
      OBVIOUS
    <3> HIDE DEF time
    <3>2. \E z \in R : \A e \in R : time[e] <= time[z]
      BY <2>1, <2>3, <3>1, FirstAndLast
    <3>3. PICK z \in R : \A e \in R : e.time <= z.time
      BY <3>1, <3>2
    <3>4. R \ {z} \in T
      BY <1>1
    <3>5. PICK earlier : Sorted(earlier, R \ {z})
      BY <3>4
    <3>6. \E rows : Sorted(rows, R)
      BY <2>1, <3>3, <3>5, LatestIsLast
    <3>7. QED
      BY <3>6
  <2>4. QED
    BY <2>2, <2>3
<1> HIDE DEF T
<1>2. SUBSET S \subseteq T
  BY <1>1, SubsetInduction
<1>3. S \in T
  BY <1>2
<1>4. QED
  BY <1>3 DEF T

\* all_transactions has all of them, in order of time.
LEMMA ByTimeSorts ==
  ASSUME Grounded, NEW S \in SUBSET ledger
  PROVE  Sorted(ByTime(S), S) /\ ByTime(S) \in Seq(S)
<1>1. IsFiniteSet(S) /\ Cardinality(S) \in Nat /\ \A e \in S : e.time \in Nat
  BY OnLedger
<1>2. PICK rows : Sorted(rows, S)
  BY <1>1, SortingExists
<1>3. \E r \in [1..Cardinality(S) -> S] :
        /\ ToSet(r) = S
        /\ \A i, j \in DOMAIN r : i <= j => r[i].time <= r[j].time
  BY <1>2 DEF Sorted
<1>4. /\ ByTime(S) \in [1..Cardinality(S) -> S]
      /\ ToSet(ByTime(S)) = S
      /\ \A i, j \in DOMAIN ByTime(S) : i <= j => ByTime(S)[i].time <= ByTime(S)[j].time
  BY <1>3 DEF ByTime
<1>5. ByTime(S) \in Seq(S)
  BY <1>1, <1>4
<1>6. QED
  BY <1>4, <1>5 DEF Sorted

\* The first rows, all of them unless there are more than n.
LEMMA AtMostIsPrefix ==
  ASSUME NEW S, NEW rows \in Seq(S), NEW n \in Nat
  PROVE  LET first == AtMost(rows, n)
         IN /\ first \in Seq(S) /\ Len(first) <= Len(rows)
            /\ \A i \in 1..Len(first) : first[i] = rows[i]
            /\ Len(first) # Len(rows) => Len(rows) > n
<1> DEFINE m == Min({n, Len(rows)})
<1>1. m \in Nat /\ m <= Len(rows) /\ m \in {n, Len(rows)} /\ m <= n
  BY LesserOf
<1> HIDE DEF m
<1>2. AtMost(rows, n) = SubSeq(rows, 1, m)
  BY DEF AtMost, m
<1>3. /\ SubSeq(rows, 1, m) \in Seq(S) /\ Len(SubSeq(rows, 1, m)) = m
      /\ \A i \in 1..m : SubSeq(rows, 1, m)[i] = rows[i]
  BY <1>1
<1>4. QED
  BY <1>1, <1>2, <1>3

\* The rows that the model reads are the oldest of the window, and where they are
\* not all of it the listing is marked as truncated or cut.
LEMMA ListingAccounts ==
  ASSUME Grounded, NEW start \in Cutoffs
  PROVE  ListingAccountsFor(Serialised(Listing(start)), start)
<1> DEFINE S == Since(start)
           items == ByTime(S)
           returned == AtMost(items, MaxReturned)
           shown == AtMost(returned, MaxShown)
           l == Serialised(Listing(start))
<1>1. S \in SUBSET ledger /\ \A e \in Window : e \in S \/ e.time < start
  <2>1. start \in Nat /\ \A e \in ledger : e.time \in Nat
    BY OnLedger, BoundsAssumption
  <2>2. \A e \in ledger : e.time >= start \/ e.time < start
    BY <2>1
  <2>3. QED
    BY <2>2 DEF Since, Window
<1>2. Sorted(items, S) /\ items \in Seq(S)
  BY <1>1, ByTimeSorts
<1>3. /\ l.rows = shown
      /\ l.truncated = (Len(items) > MaxReturned)
      /\ l.cut = (Len(returned) > MaxShown)
  BY DEF Serialised, Listing
<1> HIDE DEF items
<1>4. /\ returned \in Seq(S) /\ Len(returned) <= Len(items)
      /\ \A i \in 1..Len(returned) : returned[i] = items[i]
      /\ Len(returned) # Len(items) => Len(items) > MaxReturned
  BY <1>2, LimitsAssumption, AtMostIsPrefix
<1> HIDE DEF returned
<1>5. /\ shown \in Seq(S) /\ Len(shown) <= Len(returned)
      /\ \A i \in 1..Len(shown) : shown[i] = returned[i]
      /\ Len(shown) # Len(returned) => Len(returned) > MaxShown
  BY <1>4, LimitsAssumption, AtMostIsPrefix
<1> HIDE DEF shown, l, S
<1>6. /\ Len(items) \in Nat /\ Len(returned) \in Nat /\ Len(shown) \in Nat
      /\ DOMAIN items = 1..Len(items) /\ DOMAIN shown = 1..Len(shown)
  BY <1>2, <1>4, <1>5
<1>7. \A i \in 1..Len(shown) : i \in 1..Len(items) /\ shown[i] = items[i]
  BY <1>4, <1>5, <1>6
<1>8. ASSUME NEW e \in Window, e \notin ToSet(shown), ~(e.time < start)
      PROVE  /\ l.truncated \/ l.cut
             /\ \A i \in DOMAIN shown : shown[i].time <= e.time
  <2>1. PICK j \in 1..Len(items) : items[j] = e
    BY <1>1, <1>2, <1>6, <1>8 DEF Sorted, ToSet
  <2>2. j > Len(shown)
    <3>1. ~(j \in 1..Len(shown))
      BY <1>6, <1>7, <1>8, <2>1 DEF ToSet
    <3>2. QED
      BY <1>6, <3>1
  <2>3. l.truncated \/ l.cut
    <3>1. Len(shown) # Len(items)
      <4>1. \A m, n \in Nat : j \in 1..n /\ j > m => m # n
        OBVIOUS
      <4>2. QED
        BY <1>6, <2>1, <2>2, <4>1
    <3>2. CASE Len(returned) # Len(items)
      BY <1>3, <1>4, <3>2
    <3>3. CASE Len(returned) = Len(items)
      BY <1>3, <1>5, <3>1, <3>3
    <3>4. QED
      BY <3>2, <3>3
  <2>4. ASSUME NEW i \in 1..Len(shown)  PROVE shown[i].time <= e.time
    <3>1. i \in 1..Len(items) /\ shown[i] = items[i] /\ i <= j
      BY <1>6, <1>7, <2>1, <2>2
    <3>2. items[i].time <= items[j].time
      BY <1>2, <1>6, <2>1, <3>1 DEF Sorted
    <3>3. QED
      BY <2>1, <3>1, <3>2
  <2>5. QED
    BY <1>6, <2>3, <2>4
<1>9. ListingAccountsFor(l, start)
  BY <1>3, <1>8 DEF ListingAccountsFor
<1>10. QED
  BY <1>9 DEF l

\* Whatever a rule scores is in the aggregate of every window as long, and in the
\* listing of any window, or older than that, or after it with the listing marked:
\* for any transactions, profiles, windows and limits.
THEOREM ToolsAgreeOnWhatBothRead == Spec => []ToolsAgree
<1>1. AssessmentInv => ToolsAgree
  BY SummaryShowsAll, ListingAccounts DEF AssessmentInv, ToolsAgree
<1>2. QED
  BY <1>1, InitialAssessment, GroundedStep, PTL DEF Spec
=============================================================================
