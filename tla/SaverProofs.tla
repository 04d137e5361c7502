----------------------------- MODULE SaverProofs -----------------------------
(***************************************************************************)
(* Proofs about Saver, for any number of workers and threads and any        *)
(* retention bound.                                                          *)
(***************************************************************************)
EXTENDS Saver, RetentionProofs

\* The two operations of a put on the list name a thread.
InPlace ==
  \A w \in Workers : /\ pc[w] \in {"pop", "set"} => target[w] \in Threads
                     /\ pc[w] = "delete" => victim[w] \in Threads

Typed == TypeOK /\ InPlace

\* Some worker is about to list the thread, or to delete it.
ToBeListed(t) == \E w \in Workers : pc[w] \in {"pop", "set"} /\ target[w] = t
ToBeDeleted(t) == \E w \in Workers : pc[w] = "delete" /\ victim[w] = t

\* Whatever is stored is listed, or will be, or will be deleted.
Accounted == \A t \in stored : t \in ToSet(listed) \/ ToBeListed(t) \/ ToBeDeleted(t)

\* While the list is too long some put has yet to look at its length again.
Watched == TooMany => \E w \in Workers : pc[w] \in {"check", "popitem", "delete"}

IInv == Typed /\ Accounted /\ Watched

-----------------------------------------------------------------------------

LEMMA MaxOfTwo ==
  ASSUME NEW a \in Nat, NEW b \in Nat
  PROVE  Max({a, b}) \in {a, b} /\ Max({a, b}) >= a /\ Max({a, b}) >= b
<1>1. \E x \in {a, b} : \A y \in {a, b} : x >= y
  <2>1. CASE a >= b
    BY <2>1
  <2>2. CASE ~(a >= b)
    BY <2>2
  <2>3. QED
    BY <2>1, <2>2
<1>2. QED
  BY <1>1 DEF Max

\* The puts under way are counted, and one that begins was not among them.
LEMMA PuttingCounted ==
  ASSUME Typed
  PROVE  /\ Cardinality(Putting) \in Nat /\ Cardinality(Workers) \in Nat
         /\ Cardinality(Putting) = 0 => Putting = {}
         /\ \A w \in Workers : pc[w] = "idle" =>
              Cardinality(Putting) + 1 <= Cardinality(Workers)
<1>1. Putting \subseteq Workers
  BY DEF Putting
<1>2. IsFiniteSet(Putting) /\ IsFiniteSet(Workers)
  BY <1>1, WorkersAssumption, FS_Subset
<1>3. Cardinality(Putting) \in Nat /\ Cardinality(Workers) \in Nat
  BY <1>2, FS_CardinalityType
<1>4. Cardinality(Putting) = 0 => Putting = {}
  BY <1>2, FS_EmptySet
<1>5. ASSUME NEW w \in Workers, pc[w] = "idle"
      PROVE  Cardinality(Putting) + 1 <= Cardinality(Workers)
  <2>1. w \notin Putting
    BY <1>5 DEF Putting
  <2>2. /\ IsFiniteSet(Putting \cup {w})
        /\ Cardinality(Putting \cup {w}) = Cardinality(Putting) + 1
    BY <1>2, <2>1, FS_AddElement
  <2>3. Cardinality(Putting \cup {w}) <= Cardinality(Workers)
    BY <1>1, <1>2, FS_Subset
  <2>4. QED
    BY <2>2, <2>3
<1>6. QED
  BY <1>3, <1>4, <1>5

LEMMA StepTyped == ASSUME Typed, [Next]_vars PROVE Typed'
<1>1. CASE UNCHANGED vars
  BY <1>1 DEF vars, Typed, TypeOK, InPlace
<1>2. ASSUME NEW w \in Workers, Step(w)  PROVE Typed'
  <2>1. CASE Store(w)
    <3>1. PICK t \in Threads :
            /\ target' = [target EXCEPT ![w] = t]
            /\ stored' = stored \cup {t}
            /\ wanted' = IF peak' <= 1 THEN Newest(Touched(wanted, t)) ELSE <<>>
      BY <2>1 DEF Store
    <3>2. wanted' \in Seq(Threads)
      <4>1. Without(wanted, t) \in Seq(Threads)
        BY WithoutKeepsOthers DEF Typed, TypeOK
      <4>2. Touched(wanted, t) \in Seq(Threads)
        BY <4>1, AppendLists DEF Touched
      <4>3. QED
        BY <3>1, <4>2, NewestLists
    <3>3. peak' \in 0..Cardinality(Workers)
      <4>1. /\ Cardinality(Putting) \in Nat /\ Cardinality(Workers) \in Nat
            /\ Cardinality(Putting) + 1 <= Cardinality(Workers)
        BY <2>1, PuttingCounted DEF Store, Goto
      <4>2. peak' \in {peak, Cardinality(Putting) + 1}
        BY <2>1, <4>1, MaxOfTwo DEF Store, Typed, TypeOK
      <4>3. QED
        BY <4>1, <4>2 DEF Typed, TypeOK
    <3>4. QED
      BY <2>1, <3>1, <3>2, <3>3 DEF Store, Goto, Typed, TypeOK, InPlace
  <2> USE DEF Typed, TypeOK, InPlace, Goto, observed
  <2>2. CASE Pop(w)
    BY <2>2, WithoutKeepsOthers DEF Pop
  <2>3. CASE Set(w)
    <3>1. target[w] \in Threads
      BY <2>3 DEF Set
    <3>2. Append(listed, target[w]) \in Seq(Threads)
      BY <3>1, AppendLists
    <3>3. QED
      BY <2>3, <3>2 DEF Set
  <2>4. CASE CheckMore(w) \/ Done(w)
    BY <2>4 DEF CheckMore, Done
  <2>5. CASE PopItem(w)
    <3>1. Head(listed) \in Threads /\ Tail(listed) \in Seq(Threads)
      BY <2>5, TailKeepsOthers DEF PopItem
    <3>2. QED
      BY <2>5, <3>1 DEF PopItem
  <2>6. CASE PopItemRaises(w) \/ NextRequest(w)
    BY <2>6 DEF PopItemRaises, NextRequest
  <2>7. CASE Delete(w)
    BY <2>7 DEF Delete
  <2>8. QED
    BY <1>2, <2>1, <2>2, <2>3, <2>4, <2>5, <2>6, <2>7 DEF Step
<1>3. QED
  BY <1>1, <1>2 DEF Next

\* Nothing stored escapes: each step that takes a thread off the list keeps it
\* in the hands of the worker that took it.
LEMMA StepAccounted == ASSUME Typed, Typed', Accounted, [Next]_vars PROVE Accounted'
<1> USE DEF Accounted, ToBeListed, ToBeDeleted
<1>1. CASE UNCHANGED vars
  BY <1>1 DEF vars
<1>2. ASSUME NEW w \in Workers, Step(w)  PROVE Accounted'
  <2> SUFFICES ASSUME NEW t \in stored'
               PROVE  t \in ToSet(listed') \/ ToBeListed(t)' \/ ToBeDeleted(t)'
    OBVIOUS
  <2>1. CASE Store(w)
    <3>1. PICK u \in Threads : /\ target' = [target EXCEPT ![w] = u]
                               /\ stored' = stored \cup {u}
      BY <2>1 DEF Store
    <3>2. CASE t = u
      BY <2>1, <3>1, <3>2 DEF Store, Goto, Typed, TypeOK
    <3>3. CASE t \in stored
      BY <2>1, <3>1, <3>3 DEF Store, Goto, Typed, TypeOK
    <3>4. QED
      BY <3>1, <3>2, <3>3
  <2>2. CASE Pop(w)
    <3>1. ToSet(listed) \ {target[w]} \subseteq ToSet(listed')
      BY <2>2, WithoutKeepsOthers DEF Pop, Typed, TypeOK
    <3>2. QED
      BY <2>2, <3>1 DEF Pop, Goto, observed, Typed, TypeOK
  <2>3. CASE Set(w)
    <3>1. target[w] \in Threads
      BY <2>3 DEF Set, Goto, Typed, TypeOK, InPlace
    <3>2. ToSet(listed) \cup {target[w]} \subseteq ToSet(listed')
      BY <2>3, <3>1, AppendLists DEF Set, Typed, TypeOK
    <3>3. QED
      BY <2>3, <3>2 DEF Set, Goto, observed, Typed, TypeOK
  <2>4. CASE CheckMore(w) \/ Done(w)
    BY <2>4 DEF CheckMore, Done, Goto, observed, Typed, TypeOK
  <2>5. CASE PopItem(w)
    <3>1. ToSet(listed) \subseteq ToSet(listed') \cup {Head(listed)}
      BY <2>5, TailKeepsOthers DEF PopItem, Typed, TypeOK
    <3>2. QED
      BY <2>5, <3>1 DEF PopItem, Goto, observed, Typed, TypeOK
  <2>6. CASE PopItemRaises(w) \/ NextRequest(w)
    BY <2>6 DEF PopItemRaises, NextRequest, Goto, observed, Typed, TypeOK
  <2>7. CASE Delete(w)
    BY <2>7 DEF Delete, Goto, observed, Typed, TypeOK
  <2>8. QED
    BY <1>2, <2>1, <2>2, <2>3, <2>4, <2>5, <2>6, <2>7 DEF Step
<1>3. QED
  BY <1>1, <1>2 DEF Next

LEMMA StepWatched == ASSUME Typed, Watched, [Next]_vars PROVE Watched'
<1> USE DEF Watched, TooMany
<1>1. CASE UNCHANGED vars
  BY <1>1 DEF vars
<1>2. ASSUME NEW w \in Workers, Step(w)  PROVE Watched'
  <2>1. CASE Store(w)
    BY <2>1 DEF Store, Goto, Typed, TypeOK
  <2>2. CASE Pop(w)
    <3>1. Len(listed') <= Len(listed) /\ Len(listed') \in Nat /\ Len(listed) \in Nat
      BY <2>2, WithoutKeepsOthers DEF Pop, Typed, TypeOK
    <3>2. TooMany' => TooMany
      BY <3>1, MaxThreadsIsNat
    <3>3. QED
      BY <2>2, <3>2 DEF Pop, Goto, Typed, TypeOK
  <2>3. CASE Set(w) \/ CheckMore(w) \/ PopItem(w) \/ Delete(w)
    BY <2>3 DEF Set, CheckMore, PopItem, Delete, Goto, Typed, TypeOK
  <2>4. CASE Done(w)
    BY <2>4 DEF Done, Goto, Typed, TypeOK
  <2>5. CASE PopItemRaises(w)
    BY <2>5, MaxThreadsIsNat DEF PopItemRaises, Typed, TypeOK
  <2>6. CASE NextRequest(w)
    BY <2>6 DEF NextRequest, Goto, Typed, TypeOK
  <2>7. QED
    BY <1>2, <2>1, <2>2, <2>3, <2>4, <2>5, <2>6 DEF Step
<1>3. QED
  BY <1>1, <1>2 DEF Next

LEMMA AtRestBounded == IInv => RetentionIsBounded
<1> SUFFICES ASSUME IInv, AtRest  PROVE RetentionIsBounded
  BY DEF RetentionIsBounded
<1>1. stored \subseteq ToSet(listed)
  BY DEF IInv, Accounted, ToBeListed, ToBeDeleted, AtRest
<1>2. Len(listed) \in Nat /\ Len(listed) <= MaxThreads
  BY MaxThreadsIsNat DEF IInv, Typed, TypeOK, Watched, TooMany, AtRest
<1>3. IsFiniteSet(ToSet(listed)) /\ Cardinality(ToSet(listed)) <= Len(listed)
  BY ListedIsBounded DEF IInv, Typed, TypeOK
<1>4. IsFiniteSet(stored) /\ Cardinality(stored) <= Cardinality(ToSet(listed))
  BY <1>1, <1>3, FS_Subset
<1>5. Cardinality(stored) \in Nat /\ Cardinality(ToSet(listed)) \in Nat
  BY <1>3, <1>4, FS_CardinalityType
<1>6. QED
  BY <1>1, <1>2, <1>3, <1>4, <1>5, MaxThreadsIsNat DEF RetentionIsBounded

LEMMA InitHolds == Init => IInv
<1>1. ASSUME Init  PROVE Typed
  <2>1. Cardinality(Workers) \in Nat
    BY WorkersAssumption, FS_CardinalityType
  <2>2. QED
    BY <1>1, <2>1 DEF Init, Typed, TypeOK, InPlace
<1>2. QED
  BY <1>1, MaxThreadsIsNat DEF Init, IInv, Accounted, Watched, TooMany

LEMMA StepHolds == IInv /\ [Next]_vars => IInv'
  BY StepTyped, StepAccounted, StepWatched DEF IInv

\* Every variable of the saver keeps its type; in particular no more puts are
\* ever under way together than there are workers.
THEOREM SaverTypeCorrect == Spec => []TypeOK
<1>1. IInv => TypeOK
  BY DEF IInv, Typed
<1>2. QED
  BY <1>1, InitHolds, StepHolds, PTL DEF Spec

\* However any number of puts interleave, with no lock around _record: once none
\* is under way, no more than MAX_RETAINED_INVESTIGATIONS threads are stored, and
\* none that a later put could not evict.
THEOREM MemoryStaysBounded == Spec => []RetentionIsBounded
  BY InitHolds, StepHolds, AtRestBounded, PTL DEF Spec

-----------------------------------------------------------------------------
(* The saver while no two puts overlap.                                    *)

\* How far the one put under way has got with what the docstring promises.
Promise(w) ==
  /\ pc[w] # "raised"
  /\ pc[w] = "pop" => /\ wanted = Newest(Touched(listed, target[w]))
                      /\ stored = ToSet(listed) \cup {target[w]}
                      /\ Len(listed) <= MaxThreads
  /\ pc[w] = "set" => /\ wanted = Newest(Append(listed, target[w]))
                      /\ stored = ToSet(listed) \cup {target[w]}
                      /\ target[w] \notin ToSet(listed)
  /\ pc[w] \in {"check", "popitem"} => /\ wanted = Newest(listed)
                                       /\ stored = ToSet(listed)
  /\ pc[w] = "popitem" => TooMany
  /\ pc[w] = "delete" => /\ wanted = Newest(listed)
                         /\ stored = ToSet(listed) \cup {victim[w]}
                         /\ victim[w] \notin ToSet(listed)

\* Between puts the list is what is wanted.
Kept == wanted = listed /\ stored = ToSet(listed) /\ Len(listed) <= MaxThreads

OneAtATime ==
  /\ Distinct(listed)
  /\ \A u, v \in Putting : u = v
  /\ Putting = {} => Kept
  /\ \A w \in Workers : Promise(w)

Solo == peak <= 1 => OneAtATime

\* What a step of the put under way has to show: the others are idle.
LEMMA SoloStep ==
  ASSUME Typed, Typed', OneAtATime, NEW w \in Workers, w \in Putting,
         NEW to, pc' = [pc EXCEPT ![w] = to],
         Distinct(listed)', Promise(w)', to = "idle" => Kept'
  PROVE  OneAtATime'
<1>1. \A v \in Workers \ {w} : pc[v] = "idle" /\ pc'[v] = "idle"
  BY DEF OneAtATime, Putting, Promise, Typed, TypeOK
<1>2. Putting' \subseteq {w}
  BY <1>1 DEF Putting
<1>3. Putting' = {} => to = "idle"
  BY DEF Putting, Promise, Typed, TypeOK
<1>4. \A v \in Workers : Promise(v)'
  BY <1>1 DEF Promise
<1>5. QED
  BY <1>2, <1>3, <1>4 DEF OneAtATime

LEMMA StepSolo == ASSUME Typed, Typed', Solo, [Next]_vars PROVE Solo'
<1>1. CASE UNCHANGED vars
  BY <1>1 DEF vars, Solo, OneAtATime, Distinct, Putting, Kept, Promise, TooMany
<1>2. ASSUME NEW w \in Workers, Step(w), peak' <= 1  PROVE OneAtATime'
  <2>1. CASE Store(w)
    <3>1. PICK t \in Threads :
            /\ target' = [target EXCEPT ![w] = t]
            /\ stored' = stored \cup {t}
            /\ wanted' = Newest(Touched(wanted, t))
      BY <1>2, <2>1 DEF Store
    <3>2. peak \in Nat /\ Cardinality(Putting) \in Nat
      BY PuttingCounted DEF Typed, TypeOK
    <3>3. peak <= 1 /\ Cardinality(Putting) = 0
      BY <1>2, <2>1, <3>2, MaxOfTwo DEF Store
    <3>4. Putting = {} /\ OneAtATime /\ Kept
      BY <3>3, PuttingCounted DEF Solo, OneAtATime
    <3>5. /\ \A v \in Workers \ {w} : pc'[v] = "idle"
          /\ pc'[w] = "pop" /\ target'[w] = t /\ listed' = listed
      BY <2>1, <3>1, <3>4 DEF Store, Goto, Typed, TypeOK, OneAtATime, Promise, Putting
    <3>6. Promise(w)'
      BY <3>1, <3>4, <3>5 DEF Promise, Kept
    <3>7. \A v \in Workers : Promise(v)'
      BY <3>5, <3>6 DEF Promise
    <3>8. Putting' = {w}
      BY <3>5 DEF Putting
    <3>9. QED
      BY <3>4, <3>5, <3>7, <3>8 DEF OneAtATime, Distinct
  <2>2. CASE ~Store(w)
    <3>1. peak' = peak /\ wanted' = wanted
      BY <1>2, <2>2 DEF Step, Pop, Set, CheckMore, Done, PopItem, PopItemRaises,
                        NextRequest, Delete, observed
    <3>2. OneAtATime
      BY <1>2, <3>1 DEF Solo
    <3>3. Promise(w) /\ Distinct(listed)
      BY <3>2 DEF OneAtATime
    <3>4. CASE Pop(w)
      <4>1. target[w] \in Threads /\ pc[w] = "pop" /\ pc' = [pc EXCEPT ![w] = "set"]
        BY <3>4 DEF Pop, Goto, Typed, InPlace
      <4> w \in Putting /\ "set" # "idle"
        BY <4>1 DEF Putting
      <4>2. /\ Distinct(listed)' /\ ToSet(listed') = ToSet(listed) \ {target[w]}
            /\ listed' \in Seq(Threads)
        <5>1. listed' = Without(listed, target[w]) /\ listed \in Seq(Threads)
          BY <3>4 DEF Pop, Typed, TypeOK
        <5>2. /\ Distinct(Without(listed, target[w]))
              /\ ToSet(Without(listed, target[w])) = ToSet(listed) \ {target[w]}
          BY <3>3, <5>1, WithoutOfDistinct
        <5>3. QED
          BY <5>1, <5>2, WithoutKeepsOthers
      <4>3. Promise(w)'
        BY <3>1, <3>3, <3>4, <4>1, <4>2 DEF Promise, Pop, Touched, Typed, TypeOK
      <4>4. QED
        BY <3>2, <4>1, <4>2, <4>3, SoloStep
    <3>5. CASE Set(w)
      <4>1. /\ target[w] \in Threads /\ pc[w] = "set" /\ pc' = [pc EXCEPT ![w] = "check"]
            /\ target[w] \notin ToSet(listed)
            /\ listed' = Append(listed, target[w])
        BY <3>3, <3>5 DEF Set, Goto, Typed, InPlace, Promise
      <4> w \in Putting /\ "check" # "idle"
        BY <4>1 DEF Putting
      <4>2. Distinct(listed)' /\ ToSet(listed') = ToSet(listed) \cup {target[w]}
        <5>1. listed \in Seq(Threads)
          BY DEF Typed, TypeOK
        <5>2. Distinct(Append(listed, target[w]))
          BY <3>3, <4>1, <5>1, AppendOfDistinct
        <5>3. QED
          BY <4>1, <5>1, <5>2, AppendLists
      <4>3. Promise(w)'
        BY <3>1, <3>3, <3>5, <4>1, <4>2 DEF Promise, Set, Typed, TypeOK
      <4>4. QED
        BY <3>2, <4>1, <4>2, <4>3, SoloStep
    <3>6. CASE CheckMore(w)
      <4>1. pc[w] = "check" /\ pc' = [pc EXCEPT ![w] = "popitem"]
        BY <3>6 DEF CheckMore, Goto
      <4> w \in Putting /\ "popitem" # "idle"
        BY <4>1 DEF Putting
      <4>2. Promise(w)' /\ Distinct(listed)'
        BY <3>1, <3>3, <3>6, <4>1 DEF Promise, CheckMore, Typed, TypeOK, Distinct, TooMany
      <4>3. QED
        BY <3>2, <4>1, <4>2, SoloStep
    <3>7. CASE Done(w)
      <4>1. pc[w] = "check" /\ pc' = [pc EXCEPT ![w] = "idle"]
        BY <3>7 DEF Done, Goto
      <4> w \in Putting
        BY <4>1 DEF Putting
      <4>2. Len(listed) <= MaxThreads
        BY <3>7, MaxThreadsIsNat DEF Done, TooMany, Typed, TypeOK
      <4>3. Kept'
        BY <3>1, <3>3, <3>7, <4>1, <4>2, NewestOfShort DEF Kept, Promise, Done, Typed, TypeOK
      <4>4. Promise(w)' /\ Distinct(listed)'
        BY <3>3, <3>7, <4>1 DEF Promise, Done, Typed, TypeOK, Distinct
      <4>5. QED
        BY <3>2, <4>1, <4>3, <4>4, SoloStep
    <3>8. CASE PopItem(w)
      <4>1. /\ pc[w] = "popitem" /\ pc' = [pc EXCEPT ![w] = "delete"]
            /\ listed' = Tail(listed) /\ victim'[w] = Head(listed) /\ stored' = stored
        BY <3>8 DEF PopItem, Goto, Typed, TypeOK
      <4> w \in Putting /\ "delete" # "idle"
        BY <4>1 DEF Putting
      <4>2. /\ Distinct(listed)' /\ Head(listed) \notin ToSet(listed')
            /\ ToSet(listed) = ToSet(listed') \cup {Head(listed)}
        BY <3>3, <3>8, <4>1, TailOfDistinct DEF PopItem, Typed, TypeOK, Distinct
      <4>3. Newest(listed') = Newest(listed)
        BY <3>3, <4>1, NewestOfTail DEF Promise, TooMany, Typed, TypeOK
      <4>4. Promise(w)'
        BY <3>1, <3>3, <4>1, <4>2, <4>3 DEF Promise, Typed, TypeOK
      <4>5. QED
        BY <3>2, <4>1, <4>2, <4>4, SoloStep
    <3>9. CASE PopItemRaises(w)
      <4>1. listed = <<>> /\ TooMany
        BY <3>3, <3>9 DEF PopItemRaises, Promise, Goto
      <4>2. QED
        BY <4>1, MaxThreadsIsNat DEF TooMany
    <3>10. CASE NextRequest(w)
      BY <3>3, <3>10 DEF NextRequest, Promise, Goto
    <3>11. CASE Delete(w)
      <4>1. pc[w] = "delete" /\ pc' = [pc EXCEPT ![w] = "check"]
        BY <3>11 DEF Delete, Goto
      <4> w \in Putting /\ "check" # "idle"
        BY <4>1 DEF Putting
      <4>2. Promise(w)' /\ Distinct(listed)'
        BY <3>1, <3>3, <3>11, <4>1 DEF Promise, Delete, Typed, TypeOK, Distinct
      <4>3. QED
        BY <3>2, <4>1, <4>2, SoloStep
    <3>12. QED
      BY <1>2, <2>2, <3>4, <3>5, <3>6, <3>7, <3>8, <3>9, <3>10, <3>11 DEF Step
  <2>3. QED
    BY <2>1, <2>2
<1>3. QED
  BY <1>1, <1>2 DEF Next, Solo

\* The docstring's promise, for any bound and any number of threads: while no two
\* puts have overlapped the saver keeps just the most recently written threads.
THEOREM PromiseKept == Spec => []KeepsWhatItPromises
<1>1. Init => Typed /\ Solo
  <2>1. Init => Distinct(listed) /\ Putting = {}
    BY DEF Init, Distinct, Putting
  <2>2. Init => Kept
    BY MaxThreadsIsNat DEF Init, Kept, ToSet
  <2>3. QED
    BY <2>1, <2>2, InitHolds DEF IInv, Init, Solo, OneAtATime, Promise
<1>2. (Typed /\ Solo) /\ [Next]_vars => (Typed /\ Solo)'
  BY StepTyped, StepSolo
<1>3. Typed /\ Solo => KeepsWhatItPromises
  BY DEF Solo, OneAtATime, Kept, KeepsWhatItPromises, AtRest, Putting
<1>4. QED
  BY <1>1, <1>2, <1>3, PTL DEF Spec
-----------------------------------------------------------------------------
(* When an eviction finds nothing to evict.                                *)

\* The puts between their pop and their set, and those past the length check.
Setting == {w \in Workers : pc[w] = "set"}
Evicting == {w \in Workers : pc[w] = "popitem"}

\* What is listed, or will be once the puts that took a thread off the list for
\* its new place have put it there.  Only popitem takes a thread from it.
Promised == ToSet(listed) \cup {target[w] : w \in Setting}

\* Behind a check that found more than MaxThreads threads, the others have taken
\* at most one each that is not counted among those still to evict.
RoomLeft ==
  Evicting # {} =>
    Cardinality(Promised) + peak >= MaxThreads + 1 + Cardinality(Evicting)

NeverRaised == 2 * (peak - 1) <= MaxThreads => \A w \in Workers : pc[w] # "raised"

RoomInv == Distinct(listed) /\ Cardinality(Putting) <= peak /\ RoomLeft /\ NeverRaised

LEMMA DistinctAreAsManyAsListed ==
  ASSUME NEW S, NEW order \in Seq(S), Distinct(order)
  PROVE  IsFiniteSet(ToSet(order)) /\ Cardinality(ToSet(order)) = Len(order)
<1>1. order \in Bijection(1..Len(order), ToSet(order))
  <2>1. order \in Surjection(1..Len(order), ToSet(order))
    BY DEF Surjection, ToSet
  <2>2. order \in [1..Len(order) -> ToSet(order)]
    BY DEF ToSet
  <2>3. IsInjective(order)
    BY <2>2 DEF IsInjective, Distinct
  <2>4. QED
    BY <2>1, <2>2, <2>3 DEF Bijection, Injection
<1>2. IsFiniteSet(1..Len(order)) /\ Cardinality(1..Len(order)) = Len(order)
  <2>1. Len(order) \in Nat
    OBVIOUS
  <2>2. QED
    BY <2>1, FS_Interval
<1>3. ExistsBijection(1..Len(order), ToSet(order))
  BY <1>1 DEF ExistsBijection
<1>4. QED
  BY <1>2, <1>3, FS_Bijection

\* The sets that are counted are finite, and nobody evicts while it sets.
CountsAreNumbers ==
  /\ IsFiniteSet(Putting) /\ IsFiniteSet(Setting) /\ IsFiniteSet(Evicting)
  /\ IsFiniteSet(Promised)
  /\ Cardinality(Putting) \in Nat /\ Cardinality(Setting) \in Nat
  /\ Cardinality(Evicting) \in Nat /\ Cardinality(Promised) \in Nat
  /\ Cardinality({target[w] : w \in Setting}) <= Cardinality(Setting)
  /\ Cardinality({target[w] : w \in Setting}) \in Nat
  /\ Cardinality(Setting) + Cardinality(Evicting) <= Cardinality(Putting)

LEMMA RoomCounted == Typed => CountsAreNumbers
<1> SUFFICES ASSUME Typed  PROVE CountsAreNumbers
  OBVIOUS
<1>1. /\ Putting \subseteq Workers /\ Setting \subseteq Workers /\ Evicting \subseteq Workers
      /\ Setting \cup Evicting \subseteq Putting /\ Setting \cap Evicting = {}
  BY DEF Putting, Setting, Evicting
<1>2. IsFiniteSet(Putting) /\ IsFiniteSet(Setting) /\ IsFiniteSet(Evicting)
  BY <1>1, WorkersAssumption, FS_Subset
<1>3. /\ IsFiniteSet({target[w] : w \in Setting})
      /\ Cardinality({target[w] : w \in Setting}) <= Cardinality(Setting)
  <2> DEFINE f == [w \in Setting |-> target[w]]
  <2>1. f \in Surjection(Setting, {target[w] : w \in Setting})
    BY DEF Surjection
  <2>2. QED
    BY <1>2, <2>1, FS_Surjection
<1>4. IsFiniteSet(Promised)
  BY <1>3, ListedIsBounded, FS_Union DEF Promised, Typed, TypeOK
<1>5. Cardinality(Setting) + Cardinality(Evicting) <= Cardinality(Putting)
  <2>1. Cardinality(Setting \cup Evicting)
          = Cardinality(Setting) + Cardinality(Evicting) - Cardinality({})
    BY <1>1, <1>2, FS_Union
  <2>2. Cardinality(Setting \cup Evicting) <= Cardinality(Putting)
    BY <1>1, <1>2, FS_Subset
  <2>3. QED
    BY <1>2, <2>1, <2>2, FS_EmptySet, FS_CardinalityType
<1>6. QED
  BY <1>2, <1>3, <1>4, <1>5, FS_CardinalityType DEF CountsAreNumbers

LEMMA StepDistinct ==
  ASSUME Typed, Distinct(listed), [Next]_vars
  PROVE  Distinct(listed)'
<1>1. CASE listed' = listed
  BY <1>1 DEF Distinct
<1>2. ASSUME NEW w \in Workers, Pop(w)  PROVE Distinct(listed)'
  <2>1. listed' = Without(listed, target[w]) /\ listed \in Seq(Threads)
    BY <1>2 DEF Pop, Typed, TypeOK
  <2>2. Distinct(Without(listed, target[w]))
    BY <2>1, WithoutOfDistinct
  <2>3. QED
    BY <2>1, <2>2
<1>3. ASSUME NEW w \in Workers, Set(w)  PROVE Distinct(listed)'
  <2>1. target[w] \in Threads /\ listed \in Seq(Threads)
    BY <1>3 DEF Set, Goto, Typed, TypeOK, InPlace
  <2>2. target[w] \notin ToSet(listed) => Distinct(Append(listed, target[w]))
    BY <2>1, AppendOfDistinct
  <2>3. listed' = IF target[w] \in ToSet(listed) THEN listed ELSE Append(listed, target[w])
    BY <1>3 DEF Set
  <2>4. CASE target[w] \in ToSet(listed)
    BY <1>1, <2>3, <2>4
  <2>5. CASE target[w] \notin ToSet(listed)
    BY <2>2, <2>3, <2>5
  <2>6. QED
    BY <2>4, <2>5
<1>4. ASSUME NEW w \in Workers, PopItem(w)  PROVE Distinct(listed)'
  <2>1. listed' = Tail(listed) /\ listed # <<>> /\ listed \in Seq(Threads)
    BY <1>4 DEF PopItem, Typed, TypeOK
  <2>2. Distinct(Tail(listed))
    BY <2>1, TailOfDistinct
  <2>3. QED
    BY <2>1, <2>2
<1>5. QED
  BY <1>1, <1>2, <1>3, <1>4
     DEF Next, Step, vars, Store, CheckMore, Done, PopItemRaises, NextRequest, Delete

\* Every put under way has been counted when it began.
LEMMA StepCounted ==
  ASSUME Typed, Typed', Cardinality(Putting) <= peak, [Next]_vars
  PROVE  (Cardinality(Putting) <= peak)' /\ peak <= peak'
<1>0. /\ IsFiniteSet(Putting) /\ Cardinality(Putting) \in Nat /\ peak \in Nat
      /\ IsFiniteSet(Putting') /\ Cardinality(Putting') \in Nat
  <2>1. peak \in Nat
    BY DEF Typed, TypeOK
  <2>2. Putting' \subseteq Workers
    BY DEF Putting
  <2>3. QED
    BY <2>1, <2>2, RoomCounted, WorkersAssumption, FS_Subset, FS_CardinalityType
       DEF CountsAreNumbers
<1>1. ASSUME NEW w \in Workers, Store(w)
      PROVE  (Cardinality(Putting) <= peak)' /\ peak <= peak'
  <2>1. Putting' \subseteq Putting \cup {w}
    BY <1>1 DEF Store, Goto, Putting, Typed, TypeOK
  <2>2. /\ IsFiniteSet(Putting \cup {w})
        /\ Cardinality(Putting \cup {w}) <= Cardinality(Putting) + 1
        /\ Cardinality(Putting \cup {w}) \in Nat
    <3>1. /\ IsFiniteSet(Putting \cup {w})
          /\ Cardinality(Putting \cup {w}) \in {Cardinality(Putting), Cardinality(Putting) + 1}
      BY <1>0, FS_AddElement
    <3>2. QED
      BY <1>0, <3>1
  <2>3. Cardinality(Putting') <= Cardinality(Putting \cup {w})
    BY <2>1, <2>2, FS_Subset
  <2>4. peak' = Max({peak, Cardinality(Putting) + 1})
    BY <1>1 DEF Store
  <2>5. peak' \in Nat /\ peak' >= peak /\ peak' >= Cardinality(Putting) + 1
    BY <1>0, <2>4, MaxOfTwo
  <2>6. QED
    BY <1>0, <2>2, <2>3, <2>5
<1>2. CASE peak' = peak /\ Putting' \subseteq Putting
  <2>1. Cardinality(Putting') <= Cardinality(Putting)
    BY <1>0, <1>2, FS_Subset
  <2>2. QED
    BY <1>0, <1>2, <2>1
<1>3. ASSUME NEW w \in Workers, Step(w), ~Store(w)
      PROVE  peak' = peak /\ Putting' \subseteq Putting
  <2>1. peak' = peak
    BY <1>3 DEF Step, observed, Pop, Set, CheckMore, Done, PopItem, PopItemRaises,
                NextRequest, Delete
  <2>2. /\ \A v \in Workers \ {w} : pc'[v] = pc[v]
        /\ pc[w] \in {"idle", "raised"} => pc'[w] = "idle"
    <3> USE DEF Goto, Typed, TypeOK
    <3>1. CASE Pop(w) \/ Set(w)
      BY <3>1 DEF Pop, Set
    <3>2. CASE CheckMore(w) \/ Done(w)
      BY <3>2 DEF CheckMore, Done
    <3>3. CASE PopItem(w) \/ PopItemRaises(w)
      BY <3>3 DEF PopItem, PopItemRaises
    <3>4. CASE NextRequest(w) \/ Delete(w)
      BY <3>4 DEF NextRequest, Delete
    <3>5. QED
      BY <1>3, <3>1, <3>2, <3>3, <3>4 DEF Step
  <2>3. Putting' \subseteq Putting
    BY <2>2 DEF Putting
  <2>4. QED
    BY <2>1, <2>3
<1>4. CASE UNCHANGED vars
  BY <1>2, <1>4 DEF vars, Putting
<1>5. QED
  BY <1>1, <1>2, <1>3, <1>4 DEF Next

\* Room is lost only by a step that evicts, or is about to.
LEMMA RoomStays ==
  ASSUME Typed, Typed', RoomLeft, Promised \subseteq Promised',
         Evicting' \subseteq Evicting, peak <= peak'
  PROVE  RoomLeft'
<1>0. CountsAreNumbers /\ CountsAreNumbers'
  BY RoomCounted, PTL
<1>1. /\ IsFiniteSet(Promised) /\ IsFiniteSet(Evicting)
      /\ Cardinality(Promised) \in Nat /\ Cardinality(Evicting) \in Nat
  BY <1>0 DEF CountsAreNumbers
<1>2. IsFiniteSet(Promised') /\ Cardinality(Promised') \in Nat
  BY <1>0 DEF CountsAreNumbers
<1>3. Cardinality(Promised) <= Cardinality(Promised')
  BY <1>2, FS_Subset
<1>4. Cardinality(Evicting') <= Cardinality(Evicting) /\ Cardinality(Evicting') \in Nat
  BY <1>1, FS_Subset, FS_CardinalityType
<1>5. peak \in Nat /\ peak' \in Nat /\ MaxThreads \in Nat
  BY MaxThreadsIsNat DEF Typed, TypeOK
<1>6. QED
  BY <1>1, <1>2, <1>3, <1>4, <1>5 DEF RoomLeft

LEMMA StepRoom ==
  ASSUME Typed, Typed', RoomInv, (Cardinality(Putting) <= peak)', peak <= peak',
         [Next]_vars
  PROVE  RoomLeft'
<1>0. /\ IsFiniteSet(Putting') /\ IsFiniteSet(Evicting') /\ IsFiniteSet(Promised')
      /\ Cardinality(Putting') \in Nat /\ Cardinality(Evicting') \in Nat
      /\ Cardinality(Promised') \in Nat /\ peak \in Nat /\ peak' \in Nat
      /\ MaxThreads \in Nat
  <2>1. CountsAreNumbers'
    BY RoomCounted, PTL
  <2>2. peak \in Nat /\ peak' \in Nat
    BY DEF Typed, TypeOK
  <2>3. QED
    BY <2>1, <2>2, MaxThreadsIsNat DEF CountsAreNumbers
<1>1. CASE UNCHANGED vars
  BY <1>1 DEF vars, RoomInv, RoomLeft, Promised, Evicting, Setting
<1>2. ASSUME NEW w \in Workers, Step(w)  PROVE RoomLeft'
  <2>1. CASE Store(w)
    <3>1. Evicting' = Evicting /\ Setting' = Setting
      BY <2>1 DEF Store, Goto, Evicting, Setting, Typed, TypeOK
    <3>2. \A v \in Setting : target'[v] = target[v]
      BY <2>1 DEF Store, Goto, Setting, Typed, TypeOK
    <3>3. Promised' = Promised
      BY <2>1, <3>1, <3>2 DEF Promised, Store
    <3>4. QED
      BY <3>1, <3>3, RoomStays DEF RoomInv
  <2>2. CASE Pop(w)
    <3>1. Evicting' = Evicting /\ Setting' = Setting \cup {w} /\ target' = target
      BY <2>2 DEF Pop, Goto, Evicting, Setting, Typed, TypeOK
    <3>2. ToSet(listed) \ {target[w]} \subseteq ToSet(listed')
      BY <2>2, WithoutKeepsOthers DEF Pop, Typed, TypeOK
    <3>3. Promised \subseteq Promised'
      BY <3>1, <3>2 DEF Promised
    <3>4. QED
      BY <3>1, <3>3, RoomStays DEF RoomInv
  <2>3. CASE Set(w)
    <3>1. Evicting' = Evicting /\ Setting' = Setting \ {w} /\ target' = target
      BY <2>3 DEF Set, Goto, Evicting, Setting, Typed, TypeOK
    <3>2. target[w] \in Threads
      BY <2>3 DEF Set, Goto, Typed, TypeOK, InPlace
    <3>3. ToSet(listed) \cup {target[w]} \subseteq ToSet(listed')
      BY <2>3, <3>2, AppendLists DEF Set, Typed, TypeOK
    <3>4. Promised \subseteq Promised'
      BY <3>1, <3>3 DEF Promised
    <3>5. QED
      BY <3>1, <3>4, RoomStays DEF RoomInv
  <2>4. CASE CheckMore(w)
    <3>1. Len(listed') > MaxThreads /\ listed' = listed
      BY <2>4 DEF CheckMore, TooMany
    <3>2. Cardinality(ToSet(listed')) = Len(listed')
      BY <3>1, DistinctAreAsManyAsListed DEF RoomInv, Typed, TypeOK
    <3>3. Cardinality(ToSet(listed')) <= Cardinality(Promised')
      BY <1>0, FS_Subset DEF Promised
    <3>4. Cardinality(Evicting') <= Cardinality(Putting')
      BY <1>0, FS_Subset DEF Evicting, Putting
    <3>5. Len(listed') \in Nat
      BY DEF Typed, TypeOK
    <3>6. QED
      BY <1>0, <3>1, <3>2, <3>3, <3>4, <3>5 DEF RoomLeft
  <2>5. CASE PopItem(w)
    <3>1. /\ Evicting' = Evicting \ {w} /\ w \in Evicting
          /\ Setting' = Setting /\ target' = target
      BY <2>5 DEF PopItem, Goto, Evicting, Setting, observed, Typed, TypeOK
    <3>2. ToSet(listed) \subseteq ToSet(listed') \cup {Head(listed)}
      BY <2>5, TailKeepsOthers DEF PopItem, Typed, TypeOK
    <3>3. Promised \subseteq Promised' \cup {Head(listed)}
      BY <3>1, <3>2 DEF Promised
    <3>4. /\ IsFiniteSet(Promised' \cup {Head(listed)})
          /\ Cardinality(Promised' \cup {Head(listed)}) <= Cardinality(Promised') + 1
      <4>1. /\ IsFiniteSet(Promised' \cup {Head(listed)})
            /\ \/ Cardinality(Promised' \cup {Head(listed)}) = Cardinality(Promised')
               \/ Cardinality(Promised' \cup {Head(listed)}) = Cardinality(Promised') + 1
        BY <1>0, FS_AddElement
      <4>2. Cardinality(Promised') \in Nat
        BY <1>0
      <4>3. QED
        BY <4>1, <4>2
    <3>5. Cardinality(Promised) <= Cardinality(Promised' \cup {Head(listed)})
      BY <3>3, <3>4, FS_Subset
    <3>6. Cardinality(Evicting') = Cardinality(Evicting) - 1
      BY <3>1, RoomCounted, FS_RemoveElement DEF CountsAreNumbers
    <3>7. /\ Cardinality(Promised) \in Nat /\ Cardinality(Evicting) \in Nat
          /\ Cardinality(Promised' \cup {Head(listed)}) \in Nat
      BY <3>4, RoomCounted, FS_CardinalityType DEF CountsAreNumbers
    <3>8. Cardinality(Promised) + peak >= MaxThreads + 1 + Cardinality(Evicting)
      BY <3>1 DEF RoomInv, RoomLeft
    <3>9. peak' = peak
      BY <2>5 DEF PopItem, observed
    <3>10. QED
      BY <1>0, <3>4, <3>5, <3>6, <3>7, <3>8, <3>9 DEF RoomLeft
  <2>6. CASE Done(w) \/ NextRequest(w)
    <3>1. /\ Evicting' = Evicting /\ Setting' = Setting /\ listed' = listed
          /\ \A v \in Setting : target'[v] = target[v]
      BY <2>6 DEF Done, NextRequest, Goto, Evicting, Setting, Typed, TypeOK
    <3>2. Promised' = Promised
      BY <3>1 DEF Promised
    <3>3. QED
      BY <3>1, <3>2, RoomStays DEF RoomInv
  <2>7. CASE PopItemRaises(w) \/ Delete(w)
    <3>1. /\ Evicting' \subseteq Evicting /\ Setting' = Setting
          /\ listed' = listed /\ target' = target
      BY <2>7 DEF PopItemRaises, Delete, Goto, Evicting, Setting, observed, Typed, TypeOK
    <3>2. Promised' = Promised
      BY <3>1 DEF Promised
    <3>3. QED
      BY <3>1, <3>2, RoomStays DEF RoomInv
  <2>8. QED
    BY <1>2, <2>1, <2>2, <2>3, <2>4, <2>5, <2>6, <2>7 DEF Step
<1>3. QED
  BY <1>1, <1>2 DEF Next

\* With an empty dictionary all that is promised are the threads of the puts that
\* set theirs: too few for the room there is.
LEMMA EvictionFindsSome ==
  ASSUME Typed, RoomInv, 2 * (peak - 1) <= MaxThreads, NEW w \in Workers,
         pc[w] = "popitem"
  PROVE  listed # <<>>
<1> SUFFICES ASSUME listed = <<>>  PROVE FALSE
  OBVIOUS
<1>1. Promised = {target[v] : v \in Setting}
  BY DEF Promised, ToSet
<1>2. w \in Evicting
  BY DEF Evicting
<1>3. Cardinality(Evicting) # 0
  BY <1>2, RoomCounted, FS_EmptySet DEF CountsAreNumbers
<1>4. Cardinality(Promised) + peak >= MaxThreads + 1 + Cardinality(Evicting)
  BY <1>2 DEF RoomInv, RoomLeft
<1>5. Cardinality(Promised) <= Cardinality(Setting)
  BY <1>1, RoomCounted DEF CountsAreNumbers
<1>6. Cardinality(Setting) + Cardinality(Evicting) <= peak
  <2>1. Cardinality(Setting) + Cardinality(Evicting) <= Cardinality(Putting)
    BY RoomCounted DEF CountsAreNumbers
  <2>2. Cardinality(Putting) <= peak
    BY DEF RoomInv
  <2>3. QED
    BY <2>1, <2>2, RoomCounted DEF CountsAreNumbers, Typed, TypeOK
<1>7. /\ Cardinality(Promised) \in Nat /\ Cardinality(Evicting) \in Nat
      /\ Cardinality(Setting) \in Nat /\ peak \in Nat /\ MaxThreads \in Nat
  BY RoomCounted, MaxThreadsIsNat DEF CountsAreNumbers, Typed, TypeOK
<1>8. QED
  BY <1>3, <1>4, <1>5, <1>6, <1>7

LEMMA StepRaises ==
  ASSUME Typed, Typed', RoomInv, peak <= peak', [Next]_vars
  PROVE  NeverRaised'
<1> SUFFICES ASSUME 2 * (peak' - 1) <= MaxThreads, NEW v \in Workers
             PROVE  pc'[v] # "raised"
  BY DEF NeverRaised
<1>1. 2 * (peak - 1) <= MaxThreads
  <2>1. peak \in Nat /\ peak' \in Nat
    BY DEF Typed, TypeOK
  <2>2. \A a, b \in Nat :
          a <= b /\ 2 * (b - 1) <= MaxThreads => 2 * (a - 1) <= MaxThreads
    BY MaxThreadsIsNat
  <2>3. QED
    BY <2>1, <2>2
<1>2. pc[v] # "raised"
  BY <1>1 DEF RoomInv, NeverRaised
<1>3. CASE UNCHANGED vars
  BY <1>2, <1>3 DEF vars
<1>4. ASSUME NEW w \in Workers, Step(w)  PROVE pc'[v] # "raised"
  <2> USE DEF Goto, Typed, TypeOK
  <2>1. CASE Store(w) \/ Pop(w) \/ Set(w)
    BY <1>2, <2>1 DEF Store, Pop, Set
  <2>2. CASE CheckMore(w) \/ Done(w) \/ PopItem(w)
    BY <1>2, <2>2 DEF CheckMore, Done, PopItem
  <2>3. CASE PopItemRaises(w)
    BY <1>1, <2>3, EvictionFindsSome DEF PopItemRaises
  <2>4. CASE NextRequest(w) \/ Delete(w)
    BY <1>2, <2>4 DEF NextRequest, Delete
  <2>5. QED
    BY <1>4, <2>1, <2>2, <2>3, <2>4 DEF Step
<1>5. QED
  BY <1>3, <1>4 DEF Next

\* No put fails with a KeyError out of popitem while the puts that have overlapped
\* leave two places for each other one; with the defaults, 200 threads for at most
\* 40 workers, that is always.
THEOREM EvictionsSucceed == Spec => []EvictionNeverFails
<1>1. ASSUME Init  PROVE Typed /\ RoomInv
  <2>1. Typed
    BY <1>1, InitHolds DEF IInv
  <2>2. Putting = {} /\ Evicting = {} /\ Distinct(listed)
    BY <1>1 DEF Init, Putting, Evicting, Distinct
  <2>3. Cardinality(Putting) <= peak
    BY <1>1, <2>2, FS_EmptySet DEF Init
  <2>4. QED
    BY <1>1, <2>1, <2>2, <2>3 DEF Init, RoomInv, RoomLeft, NeverRaised
<1>2. ASSUME Typed, RoomInv, [Next]_vars  PROVE (Typed /\ RoomInv)'
  <2>1. Typed'
    BY <1>2, StepTyped
  <2>2. (Cardinality(Putting) <= peak)' /\ peak <= peak'
    BY <1>2, <2>1, StepCounted DEF RoomInv
  <2>3. Distinct(listed)'
    BY <1>2, StepDistinct DEF RoomInv
  <2>4. RoomLeft' /\ NeverRaised'
    BY <1>2, <2>1, <2>2, StepRoom, StepRaises
  <2>5. QED
    BY <2>1, <2>2, <2>3, <2>4 DEF RoomInv
<1>3. RoomInv => EvictionNeverFails
  BY DEF RoomInv, NeverRaised, EvictionNeverFails
<1>4. QED
  BY <1>1, <1>2, <1>3, PTL DEF Spec
=============================================================================
