------------------------ MODULE SpecialistLoopProofs ------------------------
(***************************************************************************)
(* Proofs about SpecialistLoop, for every specialist, any cap on the rounds *)
(* and any number of requests in one answer.                                *)
(***************************************************************************)
EXTENDS SpecialistLoop, SequenceTheorems, FiniteSetTheorems, WellFoundedInduction, TLAPS

-----------------------------------------------------------------------------
(* The finding.                                                            *)

\* Only a returned specialist has a finding, and its conversation is over.
FindingInv ==
  /\ finding # None => phase = "returned"
  /\ FindingIsItsOwn

LEMMA StepFinding == FindingInv /\ [Next]_vars => FindingInv'
<1> SUFFICES ASSUME FindingInv, [Next]_vars  PROVE FindingInv'
  OBVIOUS
<1> USE DEF FindingInv, FindingIsItsOwn
<1>1. CASE Ask \/ Answer \/ EndRound \/ SummaryFails \/ ProviderFails
  BY <1>1 DEF Ask, Answer, EndRound, SummaryFails, ProviderFails
<1>2. CASE Summarise
  BY <1>2 DEF Summarise, Author
<1>3. CASE Degrade
  BY <1>3 DEF Degrade
<1>4. CASE UNCHANGED vars
  BY <1>4 DEF vars
<1>5. QED
  BY <1>1, <1>2, <1>3, <1>4 DEF Next, Run, Over

\* What the graph is handed is filed under the specialist that ran, and one made
\* up in its place is LOW, marked, and comes after two failed summaries.
THEOREM FindingsAreOwn == Spec => []FindingIsItsOwn
<1>1. Init => FindingInv
  BY DEF Init, FindingInv, FindingIsItsOwn
<1>2. FindingInv => FindingIsItsOwn
  BY DEF FindingInv
<1>3. QED
  BY <1>1, <1>2, StepFinding, PTL DEF Spec

-----------------------------------------------------------------------------
(* The conversation.                                                       *)

\* An interval is exhausted step by step.
LEMMA IntervalInduction ==
  ASSUME NEW n \in Nat, NEW T, 0 \in T, \A k \in 1..n : k - 1 \in T => k \in T
  PROVE  0..n \subseteq T
<1> SUFFICES ASSUME ~(0..n \subseteq T)  PROVE FALSE
  OBVIOUS
<1> DEFINE Bad == {S \in SUBSET (0..n) : \E k \in 0..n : k \notin T /\ S = 0..k}
<1>1. Bad # {}
  <2>1. PICK k \in 0..n : k \notin T
    OBVIOUS
  <2>2. 0..k \in SUBSET (0..n)
    BY <2>1
  <2>3. QED
    BY <2>1, <2>2
<1>2. Bad \subseteq FiniteSubsetsOf(0..n)
  <2>1. IsFiniteSet(0..n)
    BY FS_Interval
  <2>2. FiniteSubsetsOf(0..n) = SUBSET (0..n)
    BY <2>1, FS_FiniteSubsetsOfFinite
  <2>3. QED
    BY <2>2
<1>3. PICK S \in Bad : \A R \in Bad : ~(<<R, S>> \in StrictSubsetOrdering(0..n))
  <2> HIDE DEF Bad
  <2>1. IsWellFoundedOn(StrictSubsetOrdering(0..n), FiniteSubsetsOf(0..n))
    BY FS_StrictSubsetOrderingWellFounded
  <2>2. QED
    BY <1>1, <1>2, <2>1, WFMin
<1>4. PICK k \in 0..n : k \notin T /\ S = 0..k
  BY <1>3
<1>5. k \in 1..n /\ k - 1 \in 0..n /\ k - 1 \notin T
  BY <1>4
<1>6. 0..(k - 1) \in Bad
  BY <1>5
<1>7. k \in 0..k /\ k \notin 0..(k - 1) /\ 0..(k - 1) \subseteq 0..k
  BY <1>5
<1>8. <<0..(k - 1), S>> \in StrictSubsetOrdering(0..n)
  BY <1>3, <1>4, <1>6, <1>7 DEF StrictSubsetOrdering
<1>9. QED
  BY <1>3, <1>6, <1>8

\* The function that Ids computes, on the first n requests.
Selects(ids, n, requests, kind) ==
  ids = [i \in 0..n |->
          IF i = 0 THEN <<>>
          ELSE IF requests[i] = kind THEN Append(ids[i - 1], i) ELSE ids[i - 1]]

LEMMA SelectionExists ==
  ASSUME NEW n \in Nat, NEW requests, NEW kind
  PROVE  \E ids : Selects(ids, n, requests, kind)
<1> DEFINE T == {k \in 0..n : \E ids : Selects(ids, k, requests, kind)}
<1>1. 0 \in T
  <2>1. Selects([i \in 0..0 |-> <<>>], 0, requests, kind)
    BY DEF Selects
  <2>2. QED
    BY <2>1
<1>2. ASSUME NEW k \in 1..n, k - 1 \in T  PROVE k \in T
  <2>1. PICK g : Selects(g, k - 1, requests, kind)
    BY <1>2
  <2> DEFINE h == [i \in 0..k |->
                    IF i = k
                      THEN IF requests[k] = kind THEN Append(g[k - 1], k) ELSE g[k - 1]
                      ELSE g[i]]
  <2>2. \A i \in 0..(k - 1) : h[i] = g[i] /\ i # k
    OBVIOUS
  <2>3. \A i \in 1..k : i - 1 \in 0..(k - 1) /\ h[i - 1] = g[i - 1]
    BY <2>2
  <2>4. \A i \in 0..(k - 1) :
          g[i] = IF i = 0 THEN <<>>
                 ELSE IF requests[i] = kind THEN Append(g[i - 1], i) ELSE g[i - 1]
    BY <2>1 DEF Selects
  <2>5. ASSUME NEW i \in 0..k
        PROVE  h[i] = IF i = 0 THEN <<>>
                      ELSE IF requests[i] = kind THEN Append(h[i - 1], i) ELSE h[i - 1]
    <3>1. CASE i = k
      BY <3>1, <2>3
    <3>2. CASE i # k
      BY <3>2, <2>2, <2>3, <2>4
    <3>3. QED
      BY <3>1, <3>2
  <2>6. Selects(h, k, requests, kind)
    BY <2>5 DEF Selects
  <2>7. QED
    BY <2>6
<1> HIDE DEF T
<1>3. 0..n \subseteq T
  BY <1>1, <1>2, IntervalInduction
<1>4. QED
  BY <1>3 DEF T

LEMMA IdsSelects ==
  ASSUME NEW requests, NEW kind, Len(requests) \in Nat
  PROVE  \E ids : /\ Selects(ids, Len(requests), requests, kind)
                  /\ Ids(requests, kind) = ids[Len(requests)]
<1>1. PICK some : Selects(some, Len(requests), requests, kind)
  BY SelectionExists
<1>2. QED
  BY <1>1 DEF Ids, Selects

LEMMA ExtendedSet ==
  ASSUME NEW S, NEW s \in Seq(S), NEW x \in S
  PROVE  /\ Append(s, x) \in Seq(S) /\ Len(Append(s, x)) = Len(s) + 1
         /\ ToSet(Append(s, x)) = ToSet(s) \cup {x}
<1>1. /\ Append(s, x) \in Seq(S) /\ Len(Append(s, x)) = Len(s) + 1
      /\ \A i \in 1..Len(s) : Append(s, x)[i] = s[i]
      /\ Append(s, x)[Len(s) + 1] = x /\ Len(s) \in Nat
  OBVIOUS
<1>2. /\ DOMAIN Append(s, x) = (1..Len(s)) \cup {Len(s) + 1}
      /\ DOMAIN s = 1..Len(s)
  BY <1>1
<1>3. QED
  BY <1>1, <1>2 DEF ToSet

LEMMA JoinedSet ==
  ASSUME NEW S, NEW s \in Seq(S), NEW t \in Seq(S)
  PROVE  /\ s \o t \in Seq(S) /\ Len(s \o t) = Len(s) + Len(t)
         /\ ToSet(s \o t) = ToSet(s) \cup ToSet(t)
<1>1. /\ s \o t \in Seq(S) /\ Len(s \o t) = Len(s) + Len(t)
      /\ Len(s) \in Nat /\ Len(t) \in Nat
      /\ \A i \in 1..Len(s) : (s \o t)[i] = s[i]
      /\ \A i \in 1..Len(t) : (s \o t)[Len(s) + i] = t[i]
  OBVIOUS
<1>2. /\ DOMAIN (s \o t) = 1..(Len(s) + Len(t))
      /\ DOMAIN s = 1..Len(s) /\ DOMAIN t = 1..Len(t)
  BY <1>1
<1>3. \A i \in 1..Len(t) : Len(s) + i \in 1..(Len(s) + Len(t))
  BY <1>1
<1>4. \A i \in 1..(Len(s) + Len(t)) :
        i \in 1..Len(s) \/ (i - Len(s) \in 1..Len(t) /\ i = Len(s) + (i - Len(s)))
  BY <1>1
<1>5. 1..Len(s) \subseteq 1..(Len(s) + Len(t))
  BY <1>1
<1>6. ToSet(s \o t) \subseteq ToSet(s) \cup ToSet(t)
  BY <1>1, <1>2, <1>4 DEF ToSet
<1>7. ToSet(s) \subseteq ToSet(s \o t)
  BY <1>1, <1>2, <1>5 DEF ToSet
<1>8. ToSet(t) \subseteq ToSet(s \o t)
  BY <1>1, <1>2, <1>3 DEF ToSet
<1>9. QED
  BY <1>1, <1>6, <1>7, <1>8

\* Every request of an answer has its turn, and nothing else has.
OrderIsComplete ==
  \A requests \in Requests :
    /\ InAnswerOrder(requests) \in Seq(1..MaxRequests)
    /\ Len(InAnswerOrder(requests)) = Len(requests)
    /\ ToSet(InAnswerOrder(requests)) = 1..Len(requests)

\* The first k requests, selected into p and u.
Dealt(p, u, k, S) ==
  /\ p[k] \in Seq(S) /\ u[k] \in Seq(S)
  /\ Len(p[k]) + Len(u[k]) = k
  /\ ToSet(p[k]) \cup ToSet(u[k]) = 1..k

\* A request is parsed or it is not: of the two selections one grows at each.
LEMMA OrderCompletes == OrderIsComplete
<1> SUFFICES ASSUME NEW requests \in Requests
             PROVE  /\ InAnswerOrder(requests) \in Seq(1..MaxRequests)
                    /\ Len(InAnswerOrder(requests)) = Len(requests)
                    /\ ToSet(InAnswerOrder(requests)) = 1..Len(requests)
  BY DEF OrderIsComplete
<1>1. PICK n \in 0..MaxRequests : requests \in [1..n -> Request]
  BY DEF Requests
<1>2. /\ n \in Nat /\ Len(requests) = n /\ \A k \in 1..n : k \in 1..MaxRequests
      /\ \A k \in 1..n : requests[k] \in {"parsed", "unparsable"}
  BY <1>1, SpecialistAssumption DEF Request
<1>3. PICK p : Selects(p, n, requests, "parsed") /\ Ids(requests, "parsed") = p[n]
  BY <1>2, IdsSelects
<1>4. PICK u : Selects(u, n, requests, "unparsable") /\ Ids(requests, "unparsable") = u[n]
  BY <1>2, IdsSelects
<1> DEFINE S == 1..MaxRequests
           T == {k \in 0..n : Dealt(p, u, k, S)}
<1>10. \A k \in 1..n : k \in S
  BY <1>2
<1> HIDE DEF S
<1>5. 0 \in T
  <2>1. p[0] = <<>> /\ u[0] = <<>>
    BY <1>2, <1>3, <1>4 DEF Selects
  <2>2. <<>> \in Seq(S) /\ Len(<<>>) = 0 /\ ToSet(<<>>) = {} /\ 1..0 = {}
    BY DEF ToSet
  <2>3. Dealt(p, u, 0, S)
    BY <2>1, <2>2 DEF Dealt
  <2>4. QED
    BY <1>2, <2>3
<1>6. ASSUME NEW k \in 1..n, k - 1 \in T  PROVE k \in T
  <2>1. Dealt(p, u, k - 1, S)
    BY <1>6
  <2>2. /\ k \in 0..n /\ k \in 1..MaxRequests /\ k # 0
        /\ requests[k] \in {"parsed", "unparsable"}
    BY <1>2
  <2>3. /\ p[k] = IF requests[k] = "parsed" THEN Append(p[k - 1], k) ELSE p[k - 1]
        /\ u[k] = IF requests[k] = "unparsable" THEN Append(u[k - 1], k) ELSE u[k - 1]
    BY <1>3, <1>4, <2>2 DEF Selects
  <2>4. 1..k = (1..(k - 1)) \cup {k}
    BY <1>2
  <2>5. /\ p[k - 1] \in Seq(S) /\ u[k - 1] \in Seq(S)
        /\ Len(p[k - 1]) \in Nat /\ Len(u[k - 1]) \in Nat
        /\ Len(p[k - 1]) + Len(u[k - 1]) = k - 1
        /\ ToSet(p[k - 1]) \cup ToSet(u[k - 1]) = 1..(k - 1)
    <3>1. p[k - 1] \in Seq(S) /\ u[k - 1] \in Seq(S)
      BY <2>1 DEF Dealt
    <3>2. Len(p[k - 1]) \in Nat /\ Len(u[k - 1]) \in Nat
      BY <3>1, LenProperties
    <3>3. QED
      BY <2>1, <3>1, <3>2 DEF Dealt
  <2>6. ASSUME NEW s \in Seq(S), NEW t \in Seq(S), Len(s) + Len(t) = k - 1,
               ToSet(s) \cup ToSet(t) = 1..(k - 1)
        PROVE  /\ Append(s, k) \in Seq(S) /\ Len(Append(s, k)) + Len(t) = k
               /\ ToSet(Append(s, k)) \cup ToSet(t) = 1..k
    <3>1. /\ Append(s, k) \in Seq(S) /\ Len(Append(s, k)) = Len(s) + 1
          /\ ToSet(Append(s, k)) = ToSet(s) \cup {k}
      BY <1>10, ExtendedSet
    <3>2. Len(s) \in Nat /\ Len(t) \in Nat /\ k \in Nat
      BY <1>2
    <3>3. Len(Append(s, k)) + Len(t) = k
      BY <2>6, <3>1, <3>2
    <3>4. ToSet(Append(s, k)) \cup ToSet(t) = 1..k
      BY <2>4, <2>6, <3>1
    <3>5. QED
      BY <3>1, <3>3, <3>4
  <2>7. Dealt(p, u, k, S)
    <3>1. CASE requests[k] = "parsed"
      <4>1. p[k] = Append(p[k - 1], k) /\ u[k] = u[k - 1]
        BY <2>3, <3>1
      <4>2. QED
        BY <2>5, <2>6, <4>1 DEF Dealt
    <3>2. CASE requests[k] = "unparsable"
      <4>1. u[k] = Append(u[k - 1], k) /\ p[k] = p[k - 1]
        BY <2>3, <3>2
      <4>2. /\ Len(u[k - 1]) + Len(p[k - 1]) = k - 1
            /\ ToSet(u[k - 1]) \cup ToSet(p[k - 1]) = 1..(k - 1)
        <5>1. \A a, b \in Nat : a + b = k - 1 => b + a = k - 1
          BY <1>2
        <5>2. QED
          BY <2>5, <5>1
      <4>3. /\ u[k] \in Seq(S) /\ Len(u[k]) + Len(p[k]) = k
            /\ ToSet(u[k]) \cup ToSet(p[k]) = 1..k
        BY <2>5, <2>6, <4>1, <4>2
      <4>4. p[k] \in Seq(S) /\ Len(p[k]) \in Nat /\ Len(u[k]) \in Nat
        <5>1. p[k] \in Seq(S) /\ u[k] \in Seq(S)
          BY <2>5, <4>1, <4>3
        <5>2. QED
          BY <5>1
      <4>5. Len(p[k]) + Len(u[k]) = k
        <5>1. \A a, b \in Nat : a + b = k => b + a = k
          BY <1>2
        <5>2. QED
          BY <4>3, <4>4, <5>1
      <4>6. ToSet(p[k]) \cup ToSet(u[k]) = 1..k
        BY <4>3
      <4>7. QED
        BY <4>3, <4>4, <4>5, <4>6 DEF Dealt
    <3>3. QED
      BY <2>2, <3>1, <3>2
  <2>8. QED
    BY <2>2, <2>7
<1>7. Dealt(p, u, n, S)
  <2> HIDE DEF T
  <2>1. 0..n \subseteq T
    BY <1>2, <1>5, <1>6, IntervalInduction
  <2>2. n \in T
    BY <1>2, <2>1
  <2>3. QED
    BY <2>2 DEF T
<1>8. /\ p[n] \o u[n] \in Seq(1..MaxRequests) /\ Len(p[n] \o u[n]) = n
      /\ ToSet(p[n] \o u[n]) = 1..n
  <2>1. /\ p[n] \in Seq(S) /\ u[n] \in Seq(S) /\ Len(p[n]) + Len(u[n]) = n
        /\ ToSet(p[n]) \cup ToSet(u[n]) = 1..n
    BY <1>7 DEF Dealt
  <2>2. /\ p[n] \o u[n] \in Seq(S) /\ Len(p[n] \o u[n]) = Len(p[n]) + Len(u[n])
        /\ ToSet(p[n] \o u[n]) = ToSet(p[n]) \cup ToSet(u[n])
    BY <2>1, JoinedSet
  <2>3. QED
    BY <2>1, <2>2 DEF S
<1>9. QED
  BY <1>2, <1>3, <1>4, <1>8 DEF InAnswerOrder

Assistants == {i \in 1..Len(messages) : messages[i].role = "assistant"}

\* While requests are left, one answer of the model is being served: the messages
\* behind it answer its first requests, what is left is the rest of them, and
\* every earlier answer has been served.
Serving(a) ==
  LET order == InAnswerOrder(messages[a].requests) IN
    /\ Len(messages) + Len(todo) = a + Len(order)
    /\ \A j \in 1..Len(todo) : todo[j] = order[Len(messages) - a + j]
    /\ \A k \in 1..(Len(messages) - a) :
         messages[a + k].role = "tool" /\ messages[a + k].answers = order[k]
    /\ \A i \in Assistants : i <= a /\ (i < a => AnsweredAt(i))

ConversationInv ==
  /\ messages \in Seq(Message) /\ todo \in Seq(1..MaxRequests)
  /\ todo # <<>> => phase = "answering" /\ \E a \in Assistants : Serving(a)
  /\ todo = <<>> => \A i \in Assistants : AnsweredAt(i)

LEMMA AssistantAsks ==
  ASSUME messages \in Seq(Message), OrderIsComplete, NEW i \in Assistants
  PROVE  /\ i \in 1..Len(messages) /\ messages[i].requests \in Requests
         /\ Len(messages[i].requests) \in Nat
<1>1. i \in 1..Len(messages) /\ messages[i] \in Message /\ messages[i].role = "assistant"
  BY DEF Assistants
<1>2. messages[i].requests \in Requests
  BY <1>1 DEF Message
<1>3. Len(InAnswerOrder(messages[i].requests)) \in Nat
  BY <1>2 DEF OrderIsComplete
<1>4. QED
  BY <1>1, <1>2, <1>3 DEF OrderIsComplete

\* What was answered stays answered when the conversation goes on, unless a stray
\* answer follows right behind it.
LEMMA StaysAnswered ==
  ASSUME messages \in Seq(Message), OrderIsComplete, NEW i \in Assistants, AnsweredAt(i),
         NEW m \in Message, messages' = Append(messages, m),
         m.role = "assistant" \/ i + Len(messages[i].requests) < Len(messages)
  PROVE  AnsweredAt(i)'
<1> DEFINE n == Len(messages[i].requests)
<1>1. i \in 1..Len(messages) /\ n \in Nat /\ Len(messages) \in Nat
  BY AssistantAsks
<1>2. /\ Len(messages') = Len(messages) + 1 /\ messages'[Len(messages) + 1] = m
      /\ \A k \in 1..Len(messages) : messages'[k] = messages[k]
  BY <1>1
<1>3. /\ i + n <= Len(messages)
      /\ \A k \in (i + 1)..(i + n) : messages[k].role = "tool"
      /\ {messages[k].answers : k \in (i + 1)..(i + n)} = 1..n
      /\ i + n < Len(messages) => messages[i + n + 1].role = "assistant"
  BY DEF AnsweredAt
<1>4. (i + 1)..(i + n) \subseteq 1..Len(messages)
  BY <1>1, <1>3
<1>5. messages'[i] = messages[i]
  BY <1>1, <1>2
<1> HIDE DEF n
<1>6. \A k \in (i + 1)..(i + n) : messages'[k] = messages[k]
  BY <1>2, <1>4
<1>7. {messages'[k].answers : k \in (i + 1)..(i + n)} = 1..n
  BY <1>3, <1>6
<1>8. messages'[i + n + 1].role = "assistant"
  <2>1. CASE i + n < Len(messages)
    <3>1. i + n + 1 \in 1..Len(messages)
      BY <1>1, <2>1
    <3>2. QED
      BY <1>2, <1>3, <2>1, <3>1
  <2>2. CASE ~(i + n < Len(messages))
    <3>1. m.role = "assistant"
      BY <2>2 DEF n
    <3>2. i + n + 1 = Len(messages) + 1
      <4>1. i + n <= Len(messages) /\ i \in Int /\ n \in Int /\ Len(messages) \in Int
        BY <1>1, <1>3
      <4>2. QED
        BY <2>2, <4>1
    <3>3. QED
      BY <1>2, <3>1, <3>2
  <2>3. QED
    BY <2>1, <2>2
<1>9. i + n <= Len(messages')
  BY <1>1, <1>2, <1>3
<1>10. n = Len(messages'[i].requests)
  BY <1>5 DEF n
<1>11. QED
  BY <1>3, <1>6, <1>7, <1>8, <1>9, <1>10 DEF AnsweredAt

\* The answer of the model is the newest message; its requests are all to serve.
LEMMA AskConverses ==
  ASSUME OrderIsComplete, ConversationInv, phase = "asking", Ask
  PROVE  ConversationInv'
<1>1. /\ messages \in Seq(Message) /\ todo = <<>>
      /\ \A i \in Assistants : AnsweredAt(i)
  BY DEF ConversationInv
<1>2. PICK requests \in Requests :
        /\ messages' = Append(messages, [role |-> "assistant", requests |-> requests])
        /\ todo' = InAnswerOrder(requests)
        /\ phase' = IF requests = <<>> THEN "summarising" ELSE "answering"
  BY DEF Ask
<1> DEFINE m == [role |-> "assistant", requests |-> requests]
           order == InAnswerOrder(requests)
<1>0. PICK a : a = Len(messages) + 1
  OBVIOUS
<1>3. m \in Message /\ m.role = "assistant" /\ m.requests = requests
  BY DEF Message
<1>4. /\ order \in Seq(1..MaxRequests) /\ Len(order) = Len(requests)
      /\ Len(order) \in Nat /\ Len(requests) \in Nat
  BY DEF OrderIsComplete
<1>5. /\ messages' \in Seq(Message) /\ Len(messages) \in Nat /\ Len(messages') = a
      /\ messages'[a] = m
      /\ \A k \in 1..Len(messages) : messages'[k] = messages[k]
  BY <1>0, <1>1, <1>2, <1>3
<1>6. Assistants' = Assistants \cup {a}
  BY <1>0, <1>3, <1>5 DEF Assistants
<1>7. \A i \in Assistants : AnsweredAt(i)'
  BY <1>1, <1>2, <1>3, StaysAnswered
<1> HIDE DEF m, order
<1>8. CASE todo' = <<>>
  <2>1. Len(messages'[a].requests) = 0
    BY <1>2, <1>3, <1>4, <1>5, <1>8 DEF order
  <2>2. AnsweredAt(a)'
    <3>1. (a + 1)..(a + 0) = {} /\ 1..0 = {} /\ a + 0 <= a /\ ~(a + 0 < a)
      BY <1>0, <1>5
    <3>2. {messages'[k].answers : k \in (a + 1)..(a + 0)} = 1..0
      BY <3>1
    <3>3. QED
      BY <1>5, <2>1, <3>1, <3>2 DEF AnsweredAt
  <2>3. todo' \in Seq(1..MaxRequests)
    BY <1>2, <1>4 DEF order
  <2>4. QED
    BY <1>5, <1>6, <1>7, <1>8, <2>2, <2>3 DEF ConversationInv
<1>9. CASE todo' # <<>>
  <2>1. phase' = "answering"
    <3>1. requests # <<>>
      <4>1. Len(order) # 0
        BY <1>2, <1>4, <1>9 DEF order
      <4>2. QED
        BY <1>4, <4>1
    <3>2. QED
      BY <1>2, <3>1
  <2>2. Serving(a)'
    <3>1. InAnswerOrder(messages'[a].requests) = order /\ todo' = order
      BY <1>2, <1>3, <1>5 DEF order
    <3>2. Len(messages') + Len(todo') = a + Len(order)
      BY <1>0, <1>5, <3>1
    <3>3. \A j \in 1..Len(todo') : todo'[j] = order[Len(messages') - a + j]
      BY <1>0, <1>4, <1>5, <3>1
    <3>4. 1..(Len(messages') - a) = {}
      BY <1>0, <1>5
    <3>5. \A i \in Assistants' : i <= a /\ (i < a => AnsweredAt(i)')
      BY <1>0, <1>5, <1>6, <1>7 DEF Assistants
    <3>6. QED
      BY <3>1, <3>2, <3>3, <3>4, <3>5 DEF Serving
  <2>3. todo' \in Seq(1..MaxRequests) /\ a \in Assistants'
    BY <1>2, <1>4, <1>6 DEF order
  <2>4. QED
    BY <1>5, <1>9, <2>1, <2>2, <2>3 DEF ConversationInv
<1>10. QED
  BY <1>8, <1>9

\* The next request is answered right behind the answers before it.
LEMMA AnswerConverses ==
  ASSUME OrderIsComplete, ConversationInv, Answer
  PROVE  ConversationInv'
<1>1. /\ messages \in Seq(Message) /\ todo \in Seq(1..MaxRequests) /\ todo # <<>>
      /\ messages' = Append(messages, [role |-> "tool", answers |-> Head(todo)])
      /\ todo' = Tail(todo) /\ phase' = "answering"
  BY DEF Answer, ConversationInv
<1>2. PICK a \in Assistants : Serving(a)
  BY <1>1 DEF ConversationInv
<1> DEFINE m == [role |-> "tool", answers |-> Head(todo)]
           requests == messages[a].requests
           order == InAnswerOrder(requests)
           last == Len(messages)
           n == Len(order)
<1>3. /\ a \in 1..last /\ last \in Nat /\ requests \in Requests
      /\ Len(requests) = n /\ n \in Nat
      /\ order \in Seq(1..MaxRequests) /\ ToSet(order) = 1..n
  <2>1. a \in 1..last /\ requests \in Requests /\ last \in Nat
    BY <1>1, AssistantAsks
  <2>2. QED
    BY <2>1 DEF OrderIsComplete
<1>4. /\ last + Len(todo) = a + n
      /\ \A j \in 1..Len(todo) : todo[j] = order[last - a + j]
      /\ \A k \in 1..(last - a) :
           messages[a + k].role = "tool" /\ messages[a + k].answers = order[k]
      /\ \A i \in Assistants : i <= a /\ (i < a => AnsweredAt(i))
  BY <1>2 DEF Serving
<1>5. /\ Len(todo) \in Nat /\ Len(todo) >= 1 /\ Head(todo) \in 1..MaxRequests
      /\ Head(todo) = todo[1]
      /\ todo' \in Seq(1..MaxRequests) /\ Len(todo') = Len(todo) - 1
      /\ \A j \in 1..(Len(todo) - 1) : todo'[j] = todo[j + 1]
  <2>1. /\ Head(todo) \in 1..MaxRequests /\ Tail(todo) \in Seq(1..MaxRequests)
        /\ Len(Tail(todo)) = Len(todo) - 1
        /\ \A j \in 1..Len(Tail(todo)) : Tail(todo)[j] = todo[j + 1]
    BY <1>1, HeadTailProperties
  <2>2. Len(todo) \in Nat /\ Len(todo) >= 1 /\ Head(todo) = todo[1]
    BY <1>1
  <2>3. QED
    BY <1>1, <2>1, <2>2
<1>6. m \in Message /\ m.role = "tool" /\ m.answers = Head(todo)
  BY <1>5 DEF Message
<1>7. /\ messages' \in Seq(Message) /\ Len(messages') = last + 1
      /\ messages'[last + 1] = m
      /\ \A k \in 1..last : messages'[k] = messages[k]
  BY <1>1, <1>3, <1>6
<1>8. messages' = Append(messages, m)
  BY <1>1
<1> HIDE DEF m
<1>9. Assistants' = Assistants
  <2>1. 1..(last + 1) = (1..last) \cup {last + 1}
    BY <1>3
  <2>2. QED
    BY <1>6, <1>7, <2>1 DEF Assistants
<1>10. messages'[a] = messages[a]
  BY <1>3, <1>7
<1> HIDE DEF requests, order, last, n
\* Earlier answers are served and closed before the one being served.
<1>11. ASSUME NEW i \in Assistants, i < a  PROVE AnsweredAt(i)'
  <2>1. AnsweredAt(i) /\ i \in 1..last /\ Len(messages[i].requests) \in Nat
    BY <1>1, <1>4, <1>11, AssistantAsks DEF last
  <2>2. ~(a \in (i + 1)..(i + Len(messages[i].requests)))
    <3>1. messages[a].role = "assistant"
      BY DEF Assistants
    <3>2. QED
      BY <2>1, <3>1 DEF AnsweredAt
  <2>3. i + Len(messages[i].requests) < Len(messages)
    BY <1>3, <1>11, <2>1, <2>2 DEF last
  <2>4. QED
    BY <1>1, <1>6, <1>8, <2>1, <2>3, StaysAnswered
<1>12. \A k \in 1..(last + 1 - a) :
         messages'[a + k].role = "tool" /\ messages'[a + k].answers = order[k]
  <2> TAKE k \in 1..(last + 1 - a)
  <2>1. CASE a + k <= last
    <3>1. k \in 1..(last - a) /\ a + k \in 1..last
      BY <1>3, <2>1
    <3>2. QED
      BY <1>4, <1>7, <3>1
  <2>2. CASE ~(a + k <= last)
    <3>1. a + k = last + 1 /\ k = last - a + 1 /\ 1 \in 1..Len(todo)
      BY <1>3, <1>5, <2>2
    <3>2. todo[1] = order[k]
      BY <1>4, <3>1
    <3>3. QED
      BY <1>5, <1>6, <1>7, <3>1, <3>2
  <2>3. QED
    BY <2>1, <2>2
<1>13. CASE todo' = <<>>
  <2>1. Len(todo) = 1 /\ last + 1 = a + n
    <3>1. Len(todo') = 0
      BY <1>13
    <3>2. Len(todo) = 1
      BY <1>5, <3>1
    <3>3. last + Len(todo) = a + n
      BY <1>4 DEF n
    <3>4. QED
      BY <1>3, <3>2, <3>3
  <2>2. AnsweredAt(a)'
    <3>1. Len(messages'[a].requests) = n /\ Len(messages') = a + n
      BY <1>3, <1>7, <1>10, <2>1 DEF requests
    <3>2. \A k \in (a + 1)..(a + n) : k - a \in 1..n /\ a + (k - a) = k
      BY <1>3
    <3>3. last + 1 - a = n
      BY <1>3, <2>1
    <3>4. \A k \in (a + 1)..(a + n) :
            messages'[k].role = "tool" /\ messages'[k].answers = order[k - a]
      BY <1>12, <3>2, <3>3
    <3>5. {messages'[k].answers : k \in (a + 1)..(a + n)} = 1..n
      <4>1. DOMAIN order = 1..n
        BY <1>3 DEF n
      <4>2. \A x : x \in ToSet(order) <=> \E k \in 1..n : order[k] = x
        BY <4>1 DEF ToSet
      <4>3. \A j \in 1..n : a + j \in (a + 1)..(a + n) /\ (a + j) - a = j
        BY <1>3
      <4>4. \A x : (\E k \in (a + 1)..(a + n) : order[k - a] = x)
                     <=> \E j \in 1..n : order[j] = x
        BY <3>2, <4>3
      <4>5. \A x : (\E k \in (a + 1)..(a + n) : messages'[k].answers = x)
                     <=> x \in 1..n
        <5>1. \A x : (\E k \in (a + 1)..(a + n) : messages'[k].answers = x)
                       <=> \E k \in (a + 1)..(a + n) : order[k - a] = x
          BY <3>4
        <5>2. ToSet(order) = 1..n
          BY <1>3
        <5>3. QED
          BY <4>2, <4>4, <5>1, <5>2
      <4>6. QED
        BY <4>5
    <3>6. ~(a + n < Len(messages')) /\ a + n <= Len(messages')
      BY <1>3, <3>1
    <3>7. QED
      BY <3>1, <3>4, <3>5, <3>6 DEF AnsweredAt
  <2>3. \A i \in Assistants : i < a \/ i = a
    BY <1>3, <1>4 DEF Assistants, last
  <2>4. QED
    BY <1>5, <1>7, <1>9, <1>11, <1>13, <2>2, <2>3 DEF ConversationInv
<1>14. CASE todo' # <<>>
  <2>1. Serving(a)'
    <3>1. InAnswerOrder(messages'[a].requests) = order
      BY <1>10 DEF order, requests
    <3>2. Len(messages') + Len(todo') = a + Len(order)
      <4>1. last + Len(todo) = a + n /\ a \in Nat /\ last \in Nat /\ n \in Nat
        BY <1>3, <1>4
      <4>2. /\ Len(messages') = last + 1 /\ Len(todo') = Len(todo) - 1
            /\ Len(todo) \in Nat
        BY <1>5, <1>7
      <4>3. Len(messages') + Len(todo') = a + n
        BY <4>1, <4>2
      <4>4. QED
        BY <4>3 DEF n
    <3>3. ASSUME NEW j \in 1..Len(todo')
          PROVE  todo'[j] = order[Len(messages') - a + j]
      <4>1. j \in 1..(Len(todo) - 1) /\ j + 1 \in 1..Len(todo)
        BY <1>5
      <4>2. last - a + (j + 1) = (last + 1) - a + j
        BY <1>3, <4>1
      <4>3. todo'[j] = todo[j + 1]
        BY <1>5, <4>1
      <4>4. todo[j + 1] = order[last - a + (j + 1)]
        BY <1>4, <4>1
      <4>5. Len(messages') = last + 1
        BY <1>7
      <4>6. QED
        BY <4>2, <4>3, <4>4, <4>5
    <3>4. \A k \in 1..(Len(messages') - a) :
            messages'[a + k].role = "tool" /\ messages'[a + k].answers = order[k]
      <4>1. Len(messages') - a = last + 1 - a
        <5>1. Len(messages') = last + 1
          BY <1>7
        <5>2. QED
          BY <1>3, <5>1
      <4>2. QED
        BY <1>12, <4>1
    <3>5. \A i \in Assistants' : i <= a /\ (i < a => AnsweredAt(i)')
      BY <1>4, <1>9, <1>11
    <3>6. QED
      BY <3>1, <3>2, <3>3, <3>4, <3>5 DEF Serving
  <2>2. QED
    BY <1>1, <1>5, <1>7, <1>9, <1>14, <2>1 DEF ConversationInv
<1>15. QED
  BY <1>13, <1>14

LEMMA StepConversation ==
  ASSUME OrderIsComplete, ConversationInv, [Next]_vars
  PROVE  ConversationInv'
<1>1. CASE Ask
  BY <1>1, AskConverses DEF Ask
<1>2. CASE Answer
  BY <1>2, AnswerConverses
\* Nothing else speaks, and nobody leaves the round before all is served.
<1>3. ASSUME UNCHANGED <<messages, todo>>, phase = "answering" => todo = <<>> \/ phase' = phase
      PROVE  ConversationInv'
  <2>1. Assistants' = Assistants /\ \A i : AnsweredAt(i)' <=> AnsweredAt(i)
    BY <1>3 DEF Assistants, AnsweredAt
  <2>2. \A a : Serving(a)' <=> Serving(a)
    BY <1>3, <2>1 DEF Serving
  <2>3. QED
    BY <1>3, <2>1, <2>2 DEF ConversationInv
<1>4. CASE EndRound \/ Summarise \/ SummaryFails \/ Degrade \/ ProviderFails
  BY <1>3, <1>4 DEF EndRound, Summarise, SummaryFails, Degrade, ProviderFails
<1>5. CASE UNCHANGED vars
  BY <1>3, <1>5 DEF vars
<1>6. QED
  BY <1>1, <1>2, <1>4, <1>5 DEF Next, Run, Over

\* No model is called on a conversation with a request left unanswered, however
\* many requests an answer makes and however they mix.
THEOREM EveryCallIsAnswered == Spec => []NoCallLeftUnanswered
<1>1. Init => ConversationInv
  BY DEF Init, ConversationInv, Assistants
<1>2. ConversationInv /\ [Next]_vars => ConversationInv'
  BY StepConversation, OrderCompletes
<1>3. ASSUME ConversationInv  PROVE NoCallLeftUnanswered
  <2>1. phase # "answering" => \A i \in Assistants : AnsweredAt(i)
    BY <1>3 DEF ConversationInv
  <2>2. DOMAIN messages = 1..Len(messages)
    BY <1>3 DEF ConversationInv
  <2>3. QED
    BY <2>1, <2>2 DEF NoCallLeftUnanswered, Assistants
<1>4. QED
  BY <1>1, <1>2, <1>3, PTL DEF Spec

-----------------------------------------------------------------------------
(* Types.                                                                  *)

\* A model is asked again only while there is a round left.
RoundsInv == TypeOK /\ (phase = "asking" => iteration < MaxToolIterations)

\* The rounds stay within MAX_TOOL_ITERATIONS and the summaries within two.
THEOREM SpecialistTypeCorrect == Spec => []TypeOK
<1> USE SpecialistAssumption
<1>1. Init => RoundsInv
  BY DEF Init, RoundsInv, TypeOK
<1>2. ASSUME RoundsInv, [Next]_vars  PROVE RoundsInv'
  <2> USE <1>2 DEF RoundsInv, TypeOK
  <2>1. CASE Ask
    <3>1. PICK requests \in Requests :
            /\ messages' = Append(messages, [role |-> "assistant", requests |-> requests])
            /\ todo' = InAnswerOrder(requests)
      BY <2>1 DEF Ask
    <3>2. [role |-> "assistant", requests |-> requests] \in Message
      BY DEF Message
    <3>3. messages' \in Seq(Message) /\ todo' \in Seq(1..MaxRequests)
      BY <3>1, <3>2, OrderCompletes DEF OrderIsComplete
    <3>4. iteration' \in 0..MaxToolIterations /\ phase' \in {"summarising", "answering"}
      BY <2>1 DEF Ask
    <3>5. QED
      BY <2>1, <3>3, <3>4 DEF Ask
  <2>2. CASE Answer
    <3>1. Head(todo) \in 1..MaxRequests /\ Tail(todo) \in Seq(1..MaxRequests)
      BY <2>2, HeadTailProperties DEF Answer
    <3>2. [role |-> "tool", answers |-> Head(todo)] \in Message
      BY <3>1 DEF Message
    <3>3. messages' \in Seq(Message)
      BY <2>2, <3>2 DEF Answer
    <3>4. QED
      BY <2>2, <3>1, <3>3 DEF Answer
  <2>3. CASE EndRound
    BY <2>3 DEF EndRound
  <2>4. CASE Summarise
    BY <2>4 DEF Summarise, Author
  <2>5. CASE SummaryFails
    BY <2>5 DEF SummaryFails
  <2>6. CASE Degrade
    BY <2>6 DEF Degrade, RiskLevel
  <2>7. CASE ProviderFails
    BY <2>7 DEF ProviderFails
  <2>8. CASE UNCHANGED vars
    BY <2>8 DEF vars
  <2>9. QED
    BY <2>1, <2>2, <2>3, <2>4, <2>5, <2>6, <2>7, <2>8 DEF Next, Run, Over
<1>3. RoundsInv => TypeOK
  BY DEF RoundsInv
<1>4. QED
  BY <1>1, <1>2, <1>3, PTL DEF Spec
=============================================================================
