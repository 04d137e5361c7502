--------------------------- MODULE RetentionProofs ---------------------------
(***************************************************************************)
(* What the list operations of the saver do to a list of any length.       *)
(***************************************************************************)
EXTENDS Retention, FiniteSetTheorems, SequenceTheorems, TLAPS

LEMMA MaxThreadsIsNat == MaxThreads \in Nat /\ MaxThreads >= 1
  BY MaxThreadsAssumption

\* A thread is found at a position.
LEMMA Positions ==
  ASSUME NEW S, NEW order \in Seq(S)
  PROVE  /\ \A i \in 1..Len(order) : order[i] \in ToSet(order)
         /\ \A t \in ToSet(order) : \E i \in 1..Len(order) : order[i] = t
         /\ ToSet(order) \subseteq S
  BY DEF ToSet

\* Popping a thread that is listed shifts the later ones one place forward.
LEMMA WithoutShifts ==
  ASSUME NEW S, NEW order \in Seq(S), NEW t \in ToSet(order)
  PROVE  \E i \in 1..Len(order) :
           /\ order[i] = t
           /\ Without(order, t) \in Seq(S)
           /\ Len(Without(order, t)) = Len(order) - 1
           /\ \A j \in 1..Len(order)-1 :
                Without(order, t)[j] = IF j < i THEN order[j] ELSE order[j + 1]
<1> DEFINE n == Len(order)
           i == CHOOSE j \in DOMAIN order : order[j] = t
           a == SubSeq(order, 1, i - 1)
           b == SubSeq(order, i + 1, n)
           c == a \o b
<1>1. i \in 1..n /\ order[i] = t
  BY DEF ToSet
<1>2. Without(order, t) = c
  BY DEF Without, RemoveAt
<1> HIDE DEF i
<1>3. /\ a \in Seq(S) /\ Len(a) = i - 1
      /\ \A j \in 1..i-1 : a[j] = order[j]
  <2>1. \A j \in 1..i-1 : order[j] \in S
    BY <1>1
  <2>2. QED
    BY <1>1, <2>1, SubSeqProperties, 1 \in Int, i - 1 \in Int
<1>4. /\ b \in Seq(S) /\ Len(b) = n - i
      /\ \A j \in 1..n-i : b[j] = order[i + j]
  <2>1. \A j \in i+1..n : order[j] \in S
    BY <1>1
  <2>2. /\ b \in Seq(S) /\ Len(b) = IF i + 1 <= n THEN n - (i + 1) + 1 ELSE 0
        /\ \A j \in 1..n-(i+1)+1 : b[j] = order[(i+1)+j-1]
    BY <1>1, <2>1, SubSeqProperties, i + 1 \in Int, n \in Int
  <2>3. QED
    BY <1>1, <2>2
<1> HIDE DEF a, b
<1>5. /\ c \in Seq(S) /\ Len(c) = n - 1
      /\ \A j \in 1..n-1 : c[j] = IF j < i THEN order[j] ELSE order[j + 1]
  <2>1. /\ c \in Seq(S) /\ Len(c) = Len(a) + Len(b)
        /\ \A j \in 1..Len(a) + Len(b) : c[j] = IF j <= Len(a) THEN a[j] ELSE b[j - Len(a)]
    BY <1>3, <1>4, ConcatProperties
  <2> HIDE DEF c
  <2>2. Len(a) + Len(b) = n - 1
    BY <1>1, <1>3, <1>4
  <2>3. ASSUME NEW j \in 1..n-1, j < i  PROVE c[j] = order[j]
    BY <1>1, <1>3, <2>1, <2>2, <2>3
  <2>4. ASSUME NEW j \in 1..n-1, ~(j < i)  PROVE c[j] = order[j + 1]
    <3> DEFINE k == j - (i - 1)
    <3>1. k \in 1..n-i /\ i + k = j + 1
      BY <1>1, <2>4
    <3>2. c[j] = b[k]
      <4>1. j \in 1..Len(a) + Len(b) /\ ~(j <= Len(a))
        BY <1>1, <1>3, <2>2, <2>4
      <4>2. QED
        BY <1>3, <2>1, <4>1
    <3>3. QED
      BY <1>4, <3>1, <3>2
  <2>5. QED
    BY <2>1, <2>2, <2>3, <2>4
<1> HIDE DEF c
<1>6. QED
  BY <1>1, <1>2, <1>5

\* Popping a thread takes it off the list and nothing else.
LEMMA WithoutKeepsOthers ==
  ASSUME NEW S, NEW order \in Seq(S), NEW t
  PROVE  /\ Without(order, t) \in Seq(S)
         /\ Len(Without(order, t)) <= Len(order)
         /\ ToSet(order) \ {t} \subseteq ToSet(Without(order, t))
         /\ ToSet(Without(order, t)) \subseteq ToSet(order)
<1>1. CASE t \notin ToSet(order)
  BY <1>1 DEF Without
<1>2. CASE t \in ToSet(order)
  <2> DEFINE n == Len(order)
             c == Without(order, t)
  <2>1. PICK i \in 1..n :
          /\ order[i] = t /\ c \in Seq(S) /\ Len(c) = n - 1
          /\ \A j \in 1..n-1 : c[j] = IF j < i THEN order[j] ELSE order[j + 1]
    BY <1>2, WithoutShifts
  <2> HIDE DEF c
  <2>2. ASSUME NEW u \in ToSet(order) \ {t}  PROVE u \in ToSet(c)
    <3>1. PICK j \in 1..n : order[j] = u
      BY Positions
    <3>2. j # i
      BY <2>1, <3>1
    <3>3. CASE j < i
      <4>1. j \in 1..Len(c) /\ c[j] = u
        BY <2>1, <3>1, <3>3
      <4>2. QED
        BY <2>1, <4>1, Positions
    <3>4. CASE j > i
      <4>1. j - 1 \in 1..Len(c) /\ c[j - 1] = u
        BY <2>1, <3>1, <3>4
      <4>2. QED
        BY <2>1, <4>1, Positions
    <3>5. QED
      BY <2>1, <3>2, <3>3, <3>4
  <2>3. ASSUME NEW u \in ToSet(c)  PROVE u \in ToSet(order)
    <3>1. PICK j \in 1..n-1 : c[j] = u
      BY <2>1, Positions
    <3>2. \E k \in 1..n : order[k] = u
      BY <2>1, <3>1
    <3>3. QED
      BY <3>2, Positions
  <2>4. QED
    BY <2>1, <2>2, <2>3 DEF c
<1>3. QED
  BY <1>1, <1>2

\* Setting a thread adds it to the list, at its end.
LEMMA AppendLists ==
  ASSUME NEW S, NEW order \in Seq(S), NEW t \in S
  PROVE  /\ Append(order, t) \in Seq(S)
         /\ Len(Append(order, t)) = Len(order) + 1
         /\ ToSet(Append(order, t)) = ToSet(order) \cup {t}
<1> DEFINE o == Append(order, t)
<1>1. /\ o \in Seq(S) /\ Len(o) = Len(order) + 1
      /\ \A i \in 1..Len(order) : o[i] = order[i]
      /\ o[Len(order) + 1] = t
  BY AppendProperties
<1> HIDE DEF o
<1>2. ASSUME NEW u \in ToSet(o)  PROVE u \in ToSet(order) \cup {t}
  BY <1>1, Positions
<1>3. ASSUME NEW u \in ToSet(order)  PROVE u \in ToSet(o)
  BY <1>1, Positions
<1>4. t \in ToSet(o)
  BY <1>1, Positions
<1>5. QED
  BY <1>1, <1>2, <1>3, <1>4 DEF o

\* Popping the oldest thread leaves the others listed.
LEMMA TailKeepsOthers ==
  ASSUME NEW S, NEW order \in Seq(S), order # <<>>
  PROVE  /\ Head(order) \in S /\ Tail(order) \in Seq(S)
         /\ Len(Tail(order)) = Len(order) - 1
         /\ ToSet(order) \subseteq ToSet(Tail(order)) \cup {Head(order)}
<1>1. /\ Head(order) \in S /\ Tail(order) \in Seq(S)
      /\ Len(Tail(order)) = Len(order) - 1
      /\ \A i \in 1..Len(Tail(order)) : Tail(order)[i] = order[i + 1]
  BY HeadTailProperties
<1>2. ASSUME NEW u \in ToSet(order), u # Head(order)  PROVE u \in ToSet(Tail(order))
  <2>1. PICK i \in 1..Len(order) : order[i] = u
    BY Positions
  <2>2. i # 1
    BY <1>2, <2>1
  <2>3. i - 1 \in 1..Len(Tail(order)) /\ Tail(order)[i - 1] = u
    BY <1>1, <2>1, <2>2
  <2>4. QED
    BY <1>1, <2>3, Positions
<1>3. QED
  BY <1>1, <1>2

\* A list names no more threads than it is long.
LEMMA ListedIsBounded ==
  ASSUME NEW S, NEW order \in Seq(S)
  PROVE  IsFiniteSet(ToSet(order)) /\ Cardinality(ToSet(order)) <= Len(order)
<1>1. order \in Surjection(1..Len(order), ToSet(order))
  BY DEF Surjection, ToSet
<1>2. Len(order) \in Nat /\ ExistsSurjection(1..Len(order), ToSet(order))
  BY <1>1 DEF ExistsSurjection
<1>3. QED
  BY <1>2, FS_SurjCardinalityBound, FS_NatSurjection

\* No thread is listed twice.
Distinct(order) ==
  \A i, j \in 1..Len(order) : order[i] = order[j] => i = j

\* A list without repetitions loses the popped thread for good.
LEMMA WithoutOfDistinct ==
  ASSUME NEW S, NEW order \in Seq(S), Distinct(order), NEW t
  PROVE  /\ Distinct(Without(order, t))
         /\ ToSet(Without(order, t)) = ToSet(order) \ {t}
<1>1. CASE t \notin ToSet(order)
  BY <1>1 DEF Without
<1>2. CASE t \in ToSet(order)
  <2> DEFINE n == Len(order)
             c == Without(order, t)
  <2>1. PICK i \in 1..n :
          /\ order[i] = t /\ c \in Seq(S) /\ Len(c) = n - 1
          /\ \A j \in 1..n-1 : c[j] = IF j < i THEN order[j] ELSE order[j + 1]
    BY <1>2, WithoutShifts
  <2>2. ToSet(order) \ {t} \subseteq ToSet(c) /\ ToSet(c) \subseteq ToSet(order)
    BY WithoutKeepsOthers
  <2> HIDE DEF c
  <2> DEFINE at(j) == IF j < i THEN j ELSE j + 1
  <2>3. ASSUME NEW j \in 1..n-1
        PROVE  at(j) \in 1..n /\ at(j) # i /\ c[j] = order[at(j)]
    BY <2>1
  <2>4. t \notin ToSet(c)
    <3> SUFFICES ASSUME t \in ToSet(c)  PROVE FALSE
      OBVIOUS
    <3>1. PICK j \in 1..n-1 : c[j] = t
      BY <2>1, Positions
    <3>2. order[at(j)] = order[i] /\ at(j) \in 1..n /\ at(j) # i
      BY <2>1, <2>3, <3>1
    <3>3. QED
      BY <3>2 DEF Distinct
  <2>5. ASSUME NEW j \in 1..n-1, NEW k \in 1..n-1, c[j] = c[k]  PROVE j = k
    <3>1. at(j) = at(k)
      BY <2>3, <2>5 DEF Distinct
    <3>2. QED
      BY <2>1, <3>1
  <2>6. Distinct(c)
    BY <2>1, <2>5 DEF Distinct
  <2>7. QED
    BY <2>2, <2>4, <2>6 DEF c
<1>3. QED
  BY <1>1, <1>2

LEMMA AppendOfDistinct ==
  ASSUME NEW S, NEW order \in Seq(S), Distinct(order), NEW t \in S, t \notin ToSet(order)
  PROVE  Distinct(Append(order, t))
<1> DEFINE o == Append(order, t)
           n == Len(order)
<1>1. /\ Len(o) = n + 1 /\ o[n + 1] = t
      /\ \A i \in 1..n : o[i] = order[i] /\ o[i] # t
  BY AppendProperties, Positions
<1> HIDE DEF o
<1>2. ASSUME NEW i \in 1..n+1, NEW j \in 1..n+1, o[i] = o[j]  PROVE i = j
  <2>1. CASE i \in 1..n /\ j \in 1..n
    BY <1>1, <1>2, <2>1 DEF Distinct
  <2>2. CASE i = n + 1 \/ j = n + 1
    BY <1>1, <1>2, <2>2
  <2>3. QED
    BY <2>1, <2>2
<1>3. QED
  BY <1>1, <1>2 DEF Distinct, o

\* The oldest thread of such a list is gone when it is popped.
LEMMA TailOfDistinct ==
  ASSUME NEW S, NEW order \in Seq(S), Distinct(order), order # <<>>
  PROVE  /\ Distinct(Tail(order))
         /\ Head(order) \notin ToSet(Tail(order))
         /\ ToSet(order) = ToSet(Tail(order)) \cup {Head(order)}
<1> DEFINE o == Tail(order)
           n == Len(order)
<1>1. /\ o \in Seq(S) /\ Len(o) = n - 1 /\ n >= 1 /\ Head(order) = order[1]
      /\ \A i \in 1..n-1 : o[i] = order[i + 1]
  BY HeadTailProperties
<1> HIDE DEF o
<1>2. Distinct(o)
  <2> SUFFICES ASSUME NEW i \in 1..n-1, NEW j \in 1..n-1, o[i] = o[j]  PROVE i = j
    BY <1>1 DEF Distinct
  <2>1. order[i + 1] = order[j + 1] /\ i + 1 \in 1..n /\ j + 1 \in 1..n
    BY <1>1
  <2>2. i + 1 = j + 1
    BY <2>1 DEF Distinct
  <2>3. QED
    BY <2>2
<1>3. ASSUME NEW u \in ToSet(o)  PROVE u # Head(order) /\ u \in ToSet(order)
  <2>1. PICK i \in 1..n-1 : o[i] = u
    BY <1>1, Positions
  <2>2. i + 1 \in 1..n /\ order[i + 1] = u /\ 1 \in 1..n /\ i + 1 # 1
    BY <1>1, <2>1
  <2>3. QED
    BY <1>1, <2>2, Positions DEF Distinct
<1>4. ToSet(order) \subseteq ToSet(o) \cup {Head(order)}
  BY TailKeepsOthers DEF o
<1>5. Head(order) \in ToSet(order)
  <2>1. 1 \in 1..n
    BY <1>1
  <2>2. QED
    BY <1>1, <2>1, Positions
<1>6. QED
  BY <1>2, <1>3, <1>4, <1>5 DEF o

\* The newest threads of a list that is short enough are all of it, and popping
\* the oldest of one that is too long does not change them.
LEMMA NewestOfShort ==
  ASSUME NEW S, NEW order \in Seq(S), Len(order) <= MaxThreads
  PROVE  Newest(order) = order
  BY DEF Newest

LEMMA NewestOfTail ==
  ASSUME NEW S, NEW order \in Seq(S), Len(order) > MaxThreads
  PROVE  Newest(Tail(order)) = Newest(order)
<1> DEFINE o == Tail(order)
           n == Len(order)
           m == n - MaxThreads + 1
           a == SubSeq(order, m, n)
<1>1. /\ n \in Nat /\ n > MaxThreads /\ order # <<>> /\ m \in 2..n
      /\ \A i \in 1..n : order[i] \in S
  BY MaxThreadsIsNat
<1>2. /\ o \in Seq(S) /\ Len(o) = n - 1
      /\ \A i \in 1..n-1 : o[i] = order[i + 1]
  BY <1>1, HeadTailProperties
<1>3. /\ a \in Seq(S) /\ Len(a) = MaxThreads
      /\ \A i \in 1..MaxThreads : a[i] = order[m + i - 1]
  <2>1. \A i \in m..n : order[i] \in S
    BY <1>1
  <2>2. /\ a \in Seq(S) /\ Len(a) = IF m <= n THEN n - m + 1 ELSE 0
        /\ \A i \in 1..n-m+1 : a[i] = order[m + i - 1]
    BY <1>1, <2>1, SubSeqProperties, m \in Int, n \in Int
  <2>3. n - m + 1 = MaxThreads
    BY <1>1, MaxThreadsIsNat
  <2>4. QED
    BY <1>1, <2>2, <2>3
<1>4. Newest(order) = a
  <2>1. ~(Len(order) <= MaxThreads)
    BY <1>1, MaxThreadsIsNat
  <2>2. QED
    BY <2>1 DEF Newest
<1> HIDE DEF o, a
<1>5. CASE n - 1 <= MaxThreads
  <2>1. Newest(o) = o
    BY <1>2, <1>5 DEF Newest
  <2>2. n - 1 = MaxThreads /\ m = 2
    BY <1>1, <1>5, MaxThreadsIsNat
  <2>3. \A i \in 1..MaxThreads : o[i] = a[i]
    <3> TAKE i \in 1..MaxThreads
    <3>1. i \in 1..n-1 /\ m + i - 1 = i + 1
      BY <1>1, <2>2, MaxThreadsIsNat
    <3>2. o[i] = order[i + 1] /\ a[i] = order[m + i - 1]
      BY <1>2, <1>3, <3>1
    <3>3. QED
      BY <3>1, <3>2
  <2>4. o = a
    BY <1>2, <1>3, <2>2, <2>3, SeqEqual
  <2>5. QED
    BY <1>4, <2>1, <2>4 DEF o
<1>6. CASE ~(n - 1 <= MaxThreads)
  <2> DEFINE k == (n - 1) - MaxThreads + 1
             b == SubSeq(o, k, n - 1)
  <2>1. Newest(o) = b
    BY <1>2, <1>6 DEF Newest
  <2>2. k \in 1..n-1 /\ k = m - 1 /\ (n - 1) - k + 1 = MaxThreads
    BY <1>1, <1>6, MaxThreadsIsNat
  <2>3. \A i \in k..n-1 : o[i] \in S
    BY <1>2, <2>2
  <2>4. /\ b \in Seq(S) /\ Len(b) = IF k <= n - 1 THEN (n - 1) - k + 1 ELSE 0
        /\ \A i \in 1..(n-1)-k+1 : b[i] = o[k + i - 1]
    BY <1>1, <2>2, <2>3, SubSeqProperties, k \in Int, n - 1 \in Int
  <2>5. /\ b \in Seq(S) /\ Len(b) = MaxThreads
        /\ \A i \in 1..MaxThreads : b[i] = o[k + i - 1]
    BY <1>1, <2>2, <2>4
  <2> HIDE DEF b
  <2>6. ASSUME NEW i \in 1..MaxThreads  PROVE b[i] = a[i]
    <3>1. k + i - 1 \in 1..n-1 /\ (k + i - 1) + 1 = m + i - 1
      BY <1>1, <2>2, MaxThreadsIsNat
    <3>2. o[k + i - 1] = order[m + i - 1]
      BY <1>2, <3>1
    <3>3. QED
      BY <1>3, <2>5, <3>2
  <2>7. b = a
    BY <1>3, <2>5, <2>6, SeqEqual
  <2>8. QED
    BY <1>4, <2>1, <2>7 DEF o
<1>7. QED
  BY <1>5, <1>6

LEMMA NewestLists ==
  ASSUME NEW S, NEW order \in Seq(S)
  PROVE  Newest(order) \in Seq(S) /\ ToSet(Newest(order)) \subseteq ToSet(order)
<1>1. CASE Len(order) <= MaxThreads
  BY <1>1 DEF Newest
<1>2. CASE ~(Len(order) <= MaxThreads)
  <2> DEFINE n == Len(order)
             m == n - MaxThreads + 1
             a == SubSeq(order, m, n)
  <2>1. n \in Nat /\ m \in 1..n /\ \A i \in m..n : order[i] \in S
    BY <1>2, MaxThreadsIsNat
  <2>2. /\ a \in Seq(S) /\ Len(a) = IF m <= n THEN n - m + 1 ELSE 0
        /\ \A i \in 1..n-m+1 : a[i] = order[m + i - 1]
    BY <2>1, SubSeqProperties, m \in Int, n \in Int
  <2>3. Newest(order) = a
    BY <1>2 DEF Newest
  <2> HIDE DEF a
  <2>4. ASSUME NEW u \in ToSet(a)  PROVE u \in ToSet(order)
    <3>1. PICK i \in 1..n-m+1 : a[i] = u
      BY <2>1, <2>2, Positions
    <3>2. m + i - 1 \in 1..n /\ order[m + i - 1] = u
      BY <2>1, <2>2, <3>1
    <3>3. QED
      BY <3>2, Positions
  <2>5. QED
    BY <2>2, <2>3, <2>4
<1>3. QED
  BY <1>1, <1>2

\* The thread written last is among them.
LEMMA NewestHasLast ==
  ASSUME NEW S, NEW order \in Seq(S), NEW t \in S
  PROVE  t \in ToSet(Newest(Append(order, t)))
<1> DEFINE o == Append(order, t)
           n == Len(o)
           m == n - MaxThreads + 1
           a == SubSeq(o, m, n)
<1>1. o \in Seq(S) /\ n >= 1 /\ n \in Nat /\ o[n] = t
  BY AppendProperties
<1> HIDE DEF o
<1>2. CASE n <= MaxThreads
  <2>1. Newest(o) = o /\ n \in 1..n
    BY <1>1, <1>2 DEF Newest
  <2>2. o[n] \in ToSet(o)
    BY <1>1, <2>1, Positions
  <2>3. QED
    BY <1>1, <2>1, <2>2 DEF o
<1>3. CASE ~(n <= MaxThreads)
  <2>1. m \in 1..n /\ n - m + 1 = MaxThreads /\ \A i \in m..n : o[i] \in S
    BY <1>1, <1>3, MaxThreadsIsNat
  <2>2. /\ a \in Seq(S) /\ Len(a) = IF m <= n THEN n - m + 1 ELSE 0
        /\ \A i \in 1..n-m+1 : a[i] = o[m + i - 1]
    BY <1>1, <2>1, SubSeqProperties, m \in Int, n \in Int
  <2>3. Newest(o) = a
    BY <1>3 DEF Newest
  <2> HIDE DEF a
  <2>4. Len(a) = MaxThreads /\ MaxThreads \in 1..n-m+1 /\ m + MaxThreads - 1 = n
    BY <2>1, <2>2, MaxThreadsIsNat
  <2>5. a[MaxThreads] = t
    BY <1>1, <2>2, <2>4
  <2>6. MaxThreads \in 1..Len(a)
    BY <2>4, MaxThreadsIsNat
  <2>7. QED
    BY <2>2, <2>3, <2>5, <2>6, Positions DEF o
<1>4. QED
  BY <1>2, <1>3

\* The newest threads are the last ones of the list, in its order.
LEMMA NewestAt ==
  ASSUME NEW S, NEW order \in Seq(S)
  PROVE  /\ Newest(order) \in Seq(S)
         /\ Len(Newest(order)) = IF Len(order) <= MaxThreads THEN Len(order) ELSE MaxThreads
         /\ \A j \in 1..Len(Newest(order)) :
              Newest(order)[j] = order[Len(order) - Len(Newest(order)) + j]
<1>1. CASE Len(order) <= MaxThreads
  <2>1. Newest(order) = order
    BY <1>1 DEF Newest
  <2>2. \A j \in 1..Len(order) : Len(order) - Len(order) + j = j
    OBVIOUS
  <2>3. QED
    BY <1>1, <2>1, <2>2
<1>2. CASE ~(Len(order) <= MaxThreads)
  <2> DEFINE n == Len(order)
             m == n - MaxThreads + 1
             a == SubSeq(order, m, n)
  <2>1. n \in Nat /\ m \in 1..n /\ n - m + 1 = MaxThreads /\ \A i \in m..n : order[i] \in S
    BY <1>2, MaxThreadsIsNat
  <2>2. /\ a \in Seq(S) /\ Len(a) = IF m <= n THEN n - m + 1 ELSE 0
        /\ \A i \in 1..n-m+1 : a[i] = order[m + i - 1]
    BY <2>1, SubSeqProperties, m \in Int, n \in Int
  <2>3. Newest(order) = a
    BY <1>2 DEF Newest
  <2> HIDE DEF a
  <2>4. Len(a) = MaxThreads
    BY <2>1, <2>2
  <2>5. ASSUME NEW j \in 1..MaxThreads  PROVE a[j] = order[n - MaxThreads + j]
    <3>1. m + j - 1 = n - MaxThreads + j
      BY <2>1, MaxThreadsIsNat
    <3>2. QED
      BY <2>1, <2>2, <3>1
  <2>6. QED
    BY <1>2, <2>2, <2>3, <2>4, <2>5
<1>3. QED
  BY <1>1, <1>2

\* A write takes the thread from its place, if it has one, to the end.
LEMMA TouchedAt ==
  ASSUME NEW S, NEW order \in Seq(S), NEW t \in S
  PROVE  /\ Touched(order, t) \in Seq(S)
         /\ \/ /\ t \notin ToSet(order)
               /\ Len(Touched(order, t)) = Len(order) + 1
               /\ \A j \in 1..Len(order) : Touched(order, t)[j] = order[j]
               /\ Touched(order, t)[Len(order) + 1] = t
            \/ \E i \in 1..Len(order) :
               /\ order[i] = t
               /\ Len(Touched(order, t)) = Len(order)
               /\ \A j \in 1..Len(order)-1 :
                    Touched(order, t)[j] = IF j < i THEN order[j] ELSE order[j + 1]
               /\ Touched(order, t)[Len(order)] = t
<1> DEFINE c == Without(order, t)
           n == Len(order)
<1>1. c \in Seq(S)
  BY WithoutKeepsOthers
<1>2. /\ Append(c, t) \in Seq(S) /\ Len(Append(c, t)) = Len(c) + 1
      /\ \A j \in 1..Len(c) : Append(c, t)[j] = c[j]
      /\ Append(c, t)[Len(c) + 1] = t
  BY <1>1, AppendProperties
<1>3. CASE t \notin ToSet(order)
  <2>1. c = order
    BY <1>3 DEF Without
  <2>2. QED
    BY <1>2, <1>3, <2>1 DEF Touched
<1>4. CASE t \in ToSet(order)
  <2>1. PICK i \in 1..n :
          /\ order[i] = t /\ Len(c) = n - 1
          /\ \A j \in 1..n-1 : c[j] = IF j < i THEN order[j] ELSE order[j + 1]
    BY <1>4, WithoutShifts
  <2> HIDE DEF c
  <2>2. (n - 1) + 1 = n
    OBVIOUS
  <2>3. QED
    BY <1>2, <2>1, <2>2 DEF Touched, c
<1>5. QED
  BY <1>3, <1>4

\* Evicting before a write or only after it makes no difference to what is kept:
\* the saver needs no memory of the threads it dropped.
LEMMA NewestOfTouched ==
  ASSUME NEW S, NEW order \in Seq(S), Distinct(order), NEW t \in S
  PROVE  Newest(Touched(Newest(order), t)) = Newest(Touched(order, t))
<1>1. CASE Len(order) <= MaxThreads
  BY <1>1 DEF Newest
<1>2. CASE ~(Len(order) <= MaxThreads)
  <2> DEFINE n == Len(order)
             M == MaxThreads
             d == n - M
             o == Newest(order)
             p == Touched(o, t)
             q == Touched(order, t)
             a == Newest(p)
             b == Newest(q)
  <2>0. n \in Nat /\ M \in Nat /\ M >= 1 /\ n > M /\ d >= 1 /\ d \in Nat /\ d + M = n
    BY <1>2, MaxThreadsIsNat
  <2>1. /\ o \in Seq(S) /\ Len(o) = M
        /\ \A j \in 1..M : o[j] = order[d + j]
    BY <1>2, NewestAt
  <2> HIDE DEF o
  <2>2. /\ p \in Seq(S)
        /\ \/ /\ t \notin ToSet(o) /\ Len(p) = M + 1
              /\ \A j \in 1..M : p[j] = o[j]
              /\ p[M + 1] = t
           \/ \E k \in 1..M :
              /\ o[k] = t /\ Len(p) = M
              /\ \A j \in 1..M-1 : p[j] = IF j < k THEN o[j] ELSE o[j + 1]
              /\ p[M] = t
    <3>1. /\ Touched(o, t) \in Seq(S)
          /\ \/ /\ t \notin ToSet(o)
                /\ Len(Touched(o, t)) = Len(o) + 1
                /\ \A j \in 1..Len(o) : Touched(o, t)[j] = o[j]
                /\ Touched(o, t)[Len(o) + 1] = t
             \/ \E k \in 1..Len(o) :
                /\ o[k] = t
                /\ Len(Touched(o, t)) = Len(o)
                /\ \A j \in 1..Len(o)-1 :
                     Touched(o, t)[j] = IF j < k THEN o[j] ELSE o[j + 1]
                /\ Touched(o, t)[Len(o)] = t
      BY <2>1, TouchedAt
    <3> HIDE DEF p
    <3>2. Len(o) = M /\ p = Touched(o, t)
      BY <2>1 DEF p
    <3> HIDE DEF M
    <3>3. QED
      BY ONLY <3>1, <3>2
  <2>3. /\ q \in Seq(S)
        /\ \/ /\ t \notin ToSet(order) /\ Len(q) = n + 1
              /\ \A j \in 1..n : q[j] = order[j]
              /\ q[n + 1] = t
           \/ \E i \in 1..n :
              /\ order[i] = t /\ Len(q) = n
              /\ \A j \in 1..n-1 : q[j] = IF j < i THEN order[j] ELSE order[j + 1]
              /\ q[n] = t
    BY TouchedAt
  <2> HIDE DEF p, q
  <2>4. /\ a \in Seq(S) /\ Len(a) = M
        /\ \A j \in 1..M : a[j] = p[Len(p) - M + j]
    <3>1. Len(p) \in {M, M + 1} /\ p \in Seq(S)
      BY <2>2
    <3>2. /\ a \in Seq(S) /\ Len(a) = (IF Len(p) <= M THEN Len(p) ELSE M)
          /\ \A j \in 1..Len(a) : a[j] = p[Len(p) - Len(a) + j]
      BY <2>2, NewestAt
    <3>3. Len(a) = M
      BY <2>0, <3>1, <3>2
    <3>4. QED
      BY <3>2, <3>3
  <2>5. /\ b \in Seq(S) /\ Len(b) = M
        /\ \A j \in 1..M : b[j] = q[Len(q) - M + j]
    <3>1. Len(q) \in {n, n + 1} /\ q \in Seq(S)
      BY <2>3
    <3>2. /\ b \in Seq(S) /\ Len(b) = (IF Len(q) <= M THEN Len(q) ELSE M)
          /\ \A j \in 1..Len(b) : b[j] = q[Len(q) - Len(b) + j]
      BY <2>3, NewestAt
    <3>3. Len(b) = M
      BY <2>0, <3>1, <3>2
    <3>4. QED
      BY <3>2, <3>3
  <2> HIDE DEF a, b
  \* Unless the thread was among the newest, the others move up by one.
  <2>6. CASE t \notin ToSet(o)
    <3>0. \A k \in 1..M : o[k] # t
      <4>1. \A k \in 1..Len(o) : o[k] \in ToSet(o)
        BY <2>1, Positions
      <4>2. QED
        BY <2>1, <2>6, <4>1
    <3>1. Len(p) = M + 1 /\ p[M + 1] = t /\ \A j \in 1..M : p[j] = o[j]
      BY <2>2, <3>0
    <3>2. ASSUME NEW j \in 1..M-1  PROVE a[j] = order[d + j + 1]
      <4>1. j + 1 \in 1..M /\ (M + 1) - M + j = j + 1 /\ d + (j + 1) = d + j + 1 /\ j \in 1..M
        BY <2>0
      <4>2. a[j] = p[j + 1]
        <5>1. a[j] = p[Len(p) - M + j]
          BY <2>4, <4>1
        <5>2. Len(p) - M + j = j + 1
          BY <3>1, <4>1
        <5>3. QED
          BY <5>1, <5>2
      <4>3. p[j + 1] = o[j + 1] /\ o[j + 1] = order[d + (j + 1)]
        BY <2>1, <3>1, <4>1
      <4>4. QED
        BY <4>1, <4>2, <4>3
    <3>3. a[M] = t
      <4>1. M \in 1..M /\ (M + 1) - M + M = M + 1
        BY <2>0
      <4>2. QED
        BY <2>4, <3>1, <4>1
    <3>4. ASSUME NEW j \in 1..M-1  PROVE b[j] = order[d + j + 1]
      <4>1. j \in 1..M /\ d + j \in 1..n-1 /\ d + j + 1 \in 1..n
        BY <2>0
      <4>2. CASE t \notin ToSet(order)
        <5>1. Len(q) = n + 1 /\ \A x \in 1..n : q[x] = order[x]
          BY <2>3, <4>2, Positions
        <5>2. (n + 1) - M + j = d + j + 1
          BY <2>0
        <5>3. b[j] = q[Len(q) - M + j]
          BY <2>5, <4>1
        <5>4. b[j] = q[d + j + 1]
          BY <5>1, <5>2, <5>3
        <5>5. QED
          BY <4>1, <5>1, <5>4
      <4>3. CASE t \in ToSet(order)
        <5>1. PICK i \in 1..n :
                /\ order[i] = t /\ Len(q) = n
                /\ \A x \in 1..n-1 : q[x] = IF x < i THEN order[x] ELSE order[x + 1]
          BY <2>3, <4>3
        <5>2. ~(i > d)
          <6> SUFFICES ASSUME i > d  PROVE FALSE
            OBVIOUS
          <6>1. i - d \in 1..M /\ d + (i - d) = i
            BY <2>0
          <6>2. o[i - d] = t
            BY <2>1, <5>1, <6>1
          <6>3. QED
            BY <2>1, <2>6, <6>1, <6>2, Positions
        <5>3. n - M + j = d + j /\ ~(d + j < i)
          BY <2>0, <5>2
        <5>4. b[j] = q[Len(q) - M + j]
          BY <2>5, <4>1
        <5>5. b[j] = q[d + j]
          BY <5>1, <5>3, <5>4
        <5>6. QED
          BY <4>1, <5>1, <5>3, <5>5
      <4>4. QED
        BY <4>2, <4>3
    <3>5. b[M] = t
      <4>1. M \in 1..M /\ (n + 1) - M + M = n + 1 /\ n - M + M = n
        BY <2>0
      <4>2. Len(q) - M + M = Len(q) /\ q[Len(q)] = t
        BY <2>3, <4>1
      <4>3. QED
        BY <2>5, <4>1, <4>2
    <3>6. \A j \in 1..M : a[j] = b[j]
      <4> TAKE j \in 1..M
      <4>1. CASE j = M
        BY <3>3, <3>5, <4>1
      <4>2. CASE j # M
        <5>1. j \in 1..M-1
          BY <2>0, <4>2
        <5>2. QED
          BY <3>2, <3>4, <5>1
      <4>3. QED
        BY <4>1, <4>2
    <3>7. QED
      BY <2>4, <2>5, <3>6, SeqEqual DEF a, b, p, q, o
  \* If it was, only those behind it move.
  <2>7. CASE t \in ToSet(o)
    <3>1. PICK k \in 1..M :
            /\ o[k] = t /\ Len(p) = M /\ p[M] = t
            /\ \A j \in 1..M-1 : p[j] = IF j < k THEN o[j] ELSE o[j + 1]
      BY <2>2, <2>7
    <3>2. d + k \in 1..n /\ order[d + k] = t
      BY <2>0, <2>1, <3>1
    <3>3. t \in ToSet(order)
      BY <3>2, Positions
    <3>4. PICK i \in 1..n :
            /\ order[i] = t /\ Len(q) = n /\ q[n] = t
            /\ \A j \in 1..n-1 : q[j] = IF j < i THEN order[j] ELSE order[j + 1]
      BY <2>3, <3>3
    <3>5. i = d + k
      BY <3>2, <3>4 DEF Distinct
    <3>6. ASSUME NEW j \in 1..M-1  PROVE a[j] = b[j]
      <4>1. /\ j \in 1..M /\ d + j \in 1..n-1 /\ j + 1 \in 1..M
            /\ M - M + j = j /\ n - M + j = d + j
            /\ d + (j + 1) = (d + j) + 1 /\ (d + j < i <=> j < k)
        BY <2>0, <3>5
      <4>2. a[j] = (IF j < k THEN o[j] ELSE o[j + 1])
        BY <2>4, <3>1, <4>1
      <4>3. b[j] = (IF d + j < i THEN order[d + j] ELSE order[(d + j) + 1])
        <5>1. q[d + j] = IF d + j < i THEN order[d + j] ELSE order[(d + j) + 1]
          BY <3>4, <4>1
        <5>2. b[j] = q[Len(q) - M + j]
          BY <2>5, <4>1
        <5>3. Len(q) - M + j = d + j
          BY <3>4, <4>1
        <5>4. QED
          BY <5>1, <5>2, <5>3
      <4>4. o[j] = order[d + j] /\ o[j + 1] = order[(d + j) + 1]
        BY <2>1, <4>1
      <4>5. QED
        BY <4>1, <4>2, <4>3, <4>4
    <3>7. a[M] = b[M]
      <4>1. M \in 1..M /\ M - M + M = M /\ n - M + M = n
        BY <2>0
      <4>2. QED
        BY <2>4, <2>5, <3>1, <3>4, <4>1
    <3>8. \A j \in 1..M : a[j] = b[j]
      <4> TAKE j \in 1..M
      <4>1. CASE j = M
        BY <3>7, <4>1
      <4>2. CASE j # M
        <5>1. j \in 1..M-1
          BY <2>0, <4>2
        <5>2. QED
          BY <3>6, <5>1
      <4>3. QED
        BY <4>1, <4>2
    <3>9. QED
      BY <2>4, <2>5, <3>8, SeqEqual DEF a, b, p, q, o
  <2>8. QED
    BY <2>6, <2>7
<1>3. QED
  BY <1>1, <1>2

LEMMA TouchedDistinct ==
  ASSUME NEW S, NEW order \in Seq(S), Distinct(order), NEW t \in S
  PROVE  Touched(order, t) \in Seq(S) /\ Distinct(Touched(order, t))
<1>1. /\ Without(order, t) \in Seq(S) /\ Distinct(Without(order, t))
      /\ t \notin ToSet(Without(order, t))
  BY WithoutOfDistinct, WithoutKeepsOthers
<1>2. QED
  BY <1>1, AppendOfDistinct, AppendLists DEF Touched
=============================================================================
