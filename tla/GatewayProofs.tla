---------------------------- MODULE GatewayProofs ----------------------------
(***************************************************************************)
(* Proofs about Gateway, for any number of workers and threads, whatever    *)
(* the environment configures and whatever tokens callers present.          *)
(***************************************************************************)
EXTENDS Gateway, FiniteSetTheorems, WellFoundedInduction, TLAPS

-----------------------------------------------------------------------------
(* The graphs of a cold start.                                             *)

CacheTyped ==
  /\ cache \in Workers \cup {None}
  /\ pc \in [Workers -> {"idle", "called", "building", "has_graph"}]
  /\ graph \in [Workers -> Workers \cup {None}]
  /\ holds \in [Workers -> SUBSET Threads]

\* The first builder's graph is the cache, and until there is one nothing has
\* been investigated.
FirstWins ==
  /\ cache = None => answered = {} /\ \A w \in Workers : holds[w] = {}
  /\ \A w \in Workers : /\ pc[w] = "building" => cache # w /\ holds[w] = {}
                        /\ pc[w] = "has_graph" => cache # None /\ graph[w] \in {cache, w}

\* A graph that is not the cache serves one request, its builder's.
UsedOnce ==
  \A w \in Workers : w # cache =>
    /\ pc[w] = "has_graph" /\ graph[w] = w => holds[w] = {}
    /\ \A s, t \in holds[w] : s = t

Somewhere == \A t \in answered : \E w \in Workers : t \in holds[w]

CacheInv == CacheTyped /\ FirstWins /\ UsedOnce /\ Somewhere

CacheEmpty ==
  /\ cache = None /\ answered = {}
  /\ pc = [w \in Workers |-> "idle"]
  /\ graph = [w \in Workers |-> None]
  /\ holds = [w \in Workers |-> {}]

LEMMA EmptyHolds == CacheEmpty => CacheInv
  BY DEF CacheEmpty, CacheInv, CacheTyped, FirstWins, UsedOnce, Somewhere

LEMMA CallHolds == ASSUME CacheInv, NEW w \in Workers, Call(w) PROVE CacheInv'
  BY DEF Call, CacheInv, CacheTyped, FirstWins, UsedOnce, Somewhere

LEMMA HitHolds == ASSUME CacheInv, NEW w \in Workers, Hit(w) PROVE CacheInv'
<1>1. CacheTyped' /\ Somewhere'
  BY DEF Hit, CacheInv, CacheTyped, Somewhere
<1>2. FirstWins'
  BY DEF Hit, CacheInv, CacheTyped, FirstWins
<1>3. UsedOnce'
  BY DEF Hit, CacheInv, CacheTyped, UsedOnce
<1>4. QED
  BY <1>1, <1>2, <1>3 DEF CacheInv

LEMMA MissHolds == ASSUME CacheInv, NEW w \in Workers, Miss(w) PROVE CacheInv'
  BY WorkersAssumption DEF Miss, CacheInv, CacheTyped, FirstWins, UsedOnce, Somewhere

LEMMA BuiltHolds == ASSUME CacheInv, NEW w \in Workers, Built(w) PROVE CacheInv'
<1>1. CacheTyped' /\ Somewhere'
  BY DEF Built, CacheInv, CacheTyped, Somewhere
<1>2. cache' # None /\ cache' = (IF cache = None THEN w ELSE cache)
  BY WorkersAssumption DEF Built
<1>3. FirstWins'
  BY <1>2 DEF Built, CacheInv, CacheTyped, FirstWins
<1>4. UsedOnce'
  BY <1>2 DEF Built, CacheInv, CacheTyped, FirstWins, UsedOnce
<1>5. QED
  BY <1>1, <1>3, <1>4 DEF CacheInv

\* A case goes into the graph its request was given: the cache, or a graph that
\* nothing has gone into before.
LEMMA InvestigateHolds ==
  ASSUME CacheInv, NEW w \in Workers, Investigate(w)
  PROVE  CacheInv'
<1>1. PICK t \in Threads \ answered :
        /\ holds' = [holds EXCEPT ![graph[w]] = @ \cup {t}]
        /\ answered' = answered \cup {t}
  BY DEF Investigate
<1>2. /\ pc[w] = "has_graph" /\ pc' = [pc EXCEPT ![w] = "idle"]
      /\ graph' = [graph EXCEPT ![w] = None] /\ cache' = cache
      /\ graph[w] \in Workers /\ cache \in Workers /\ graph[w] \in {cache, w}
  BY WorkersAssumption DEF Investigate, CacheInv, CacheTyped, FirstWins
<1>3. CacheTyped' /\ Somewhere'
  BY <1>1, <1>2 DEF CacheInv, CacheTyped, Somewhere
<1>4. FirstWins'
  BY <1>1, <1>2, WorkersAssumption DEF CacheInv, CacheTyped, FirstWins
<1>5. UsedOnce'
  BY <1>1, <1>2 DEF CacheInv, CacheTyped, FirstWins, UsedOnce
<1>6. QED
  BY <1>3, <1>4, <1>5 DEF CacheInv

LEMMA UseGraphHolds == ASSUME CacheInv, NEW w \in Workers, UseGraph(w) PROVE CacheInv'
  BY DEF UseGraph, CacheInv, CacheTyped, FirstWins, UsedOnce, Somewhere

LEMMA CacheStep == CacheInv /\ [GatewayNext]_gatewayVars => CacheInv'
<1> SUFFICES ASSUME CacheInv, [GatewayNext]_gatewayVars  PROVE CacheInv'
  OBVIOUS
<1>1. CASE UNCHANGED vars
  BY <1>1 DEF vars, CacheInv, CacheTyped, FirstWins, UsedOnce, Somewhere
<1>2. CASE Start \/ UNCHANGED gatewayVars
  BY <1>1, <1>2 DEF Start, gatewayVars
<1>3. CASE Stop
  <2>1. CacheEmpty'
    BY <1>3 DEF Stop, CacheEmpty
  <2>2. QED
    BY <2>1, EmptyHolds, PTL
<1>4. ASSUME NEW w \in Workers,
             Ask(w) \/ AskToDecide(w) \/ GetGraph(w) \/ OpenCase(w) \/ ReadCase(w)
               \/ DecideCase(w) \/ NothingToDecide(w)
      PROVE  CacheInv'
  BY <1>4, CallHolds, HitHolds, MissHolds, BuiltHolds, InvestigateHolds, UseGraphHolds
     DEF Ask, AskToDecide, GetGraph, OpenCase, ReadCase, DecideCase, NothingToDecide
<1>5. QED
  BY <1>2, <1>3, <1>4 DEF GatewayNext

\* The cases the cache does not hold are in other workers' graphs, one in each.
LEMMA LostOnePerWorker == CacheInv => LossIsBounded
<1> SUFFICES ASSUME CacheInv, answered # {}  PROVE LossIsBounded
  BY DEF LossIsBounded
<1> DEFINE lost == answered \ holds[cache]
           f == [t \in lost |-> CHOOSE w \in Workers : t \in holds[w]]
<1>1. cache \in Workers
  BY DEF CacheInv, CacheTyped, FirstWins
<1>2. \A t \in lost : f[t] \in Workers /\ t \in holds[f[t]]
  BY DEF CacheInv, Somewhere
<1>3. f \in [lost -> Workers \ {cache}]
  BY <1>2
<1>4. ASSUME NEW s \in lost, NEW t \in lost, f[s] = f[t]  PROVE s = t
  <2>1. f[s] \in Workers /\ f[s] # cache /\ s \in holds[f[s]] /\ t \in holds[f[s]]
    BY <1>2, <1>4
  <2> HIDE DEF f
  <2>2. QED
    BY <2>1 DEF CacheInv, UsedOnce
<1>5. f \in Injection(lost, Workers \ {cache})
  BY <1>3, <1>4 DEF Injection, IsInjective
<1>6. IsFiniteSet(Workers) /\ IsFiniteSet(Workers \ {cache})
  BY WorkersAssumption, FS_RemoveElement
<1>7. IsFiniteSet(lost) /\ Cardinality(lost) <= Cardinality(Workers \ {cache})
  BY <1>5, <1>6, FS_Injection
<1>8. Cardinality(Workers \ {cache}) = Cardinality(Workers) - 1
  BY <1>1, <1>6, FS_RemoveElement
<1>9. Cardinality(lost) \in Nat /\ Cardinality(Workers) \in Nat
  BY <1>6, <1>7, FS_CardinalityType
<1>10. QED
  BY <1>1, <1>7, <1>8, <1>9, WorkersAssumption DEF LossIsBounded

\* Of the cases whose thread ids callers were given, a process that starts cold
\* loses fewer than it has workers, however their first requests interleave and
\* however often it has been restarted.
THEOREM ColdStartLossIsBounded == GatewaySpec => []LossIsBounded
<1>1. GatewayInit => CacheInv
  BY EmptyHolds DEF GatewayInit, Init, CacheEmpty
<1>2. QED
  BY <1>1, CacheStep, LostOnePerWorker, PTL DEF GatewaySpec

-----------------------------------------------------------------------------
(* The parser.                                                             *)

\* An interval is exhausted step by step.
LEMMA IntervalInduction ==
  ASSUME NEW n \in Nat, NEW T, 0 \in T, \A k \in 1..n : k - 1 \in T => k \in T
  PROVE  0..n \subseteq T
<1> SUFFICES ASSUME ~(0..n \subseteq T)  PROVE FALSE
  OBVIOUS
<1> DEFINE Bad == {S \in SUBSET (0..n) : \E k \in 0..n : k \notin T /\ S = 0..k}
<1>1. Bad # {}
  <2>1. PICK k \in 0..n : k \notin T
    OBVIOUS
  <2>2. 0..k \in SUBSET (0..n)
    BY <2>1
  <2>3. QED
    BY <2>1, <2>2
<1>2. Bad \subseteq FiniteSubsetsOf(0..n)
  <2>1. IsFiniteSet(0..n)
    BY FS_Interval
  <2>2. FiniteSubsetsOf(0..n) = SUBSET (0..n)
    BY <2>1, FS_FiniteSubsetsOfFinite
  <2>3. QED
    BY <2>2
<1>3. PICK S \in Bad : \A R \in Bad : ~(<<R, S>> \in StrictSubsetOrdering(0..n))
  <2> HIDE DEF Bad
  <2>1. IsWellFoundedOn(StrictSubsetOrdering(0..n), FiniteSubsetsOf(0..n))
    BY FS_StrictSubsetOrderingWellFounded
  <2>2. QED
    BY <1>1, <1>2, <2>1, WFMin
<1>4. PICK k \in 0..n : k \notin T /\ S = 0..k
  BY <1>3
<1>5. k \in 1..n /\ k - 1 \in 0..n /\ k - 1 \notin T
  BY <1>4
<1>6. 0..(k - 1) \in Bad
  BY <1>5
<1>7. k \in 0..k /\ k \notin 0..(k - 1) /\ 0..(k - 1) \subseteq 0..k
  BY <1>5
<1>8. <<0..(k - 1), S>> \in StrictSubsetOrdering(0..n)
  BY <1>3, <1>4, <1>6, <1>7 DEF StrictSubsetOrdering
<1>9. QED
  BY <1>3, <1>6, <1>8

\* The function that ParseApiTokens computes, on the first n entries.
Parses(parsed, n, raw) ==
  parsed = [i \in 0..n |-> IF i = 0 THEN [ok |-> TRUE, tokens |-> <<>>]
                           ELSE AddEntry(parsed[i - 1], raw[i])]

LEMMA ParsingExists ==
  ASSUME NEW n \in Nat, NEW raw
  PROVE  \E parsed : Parses(parsed, n, raw)
<1> DEFINE T == {k \in 0..n : \E parsed : Parses(parsed, k, raw)}
<1>1. 0 \in T
  <2>1. Parses([i \in 0..0 |-> [ok |-> TRUE, tokens |-> <<>>]], 0, raw)
    BY DEF Parses
  <2>2. QED
    BY <2>1
<1>2. ASSUME NEW k \in 1..n, k - 1 \in T  PROVE k \in T
  <2>1. PICK g : Parses(g, k - 1, raw)
    BY <1>2
  <2> DEFINE h == [i \in 0..k |-> IF i = k THEN AddEntry(g[k - 1], raw[k]) ELSE g[i]]
  <2>2. \A i \in 0..(k - 1) : h[i] = g[i] /\ i # k
    OBVIOUS
  <2>3. \A i \in 1..k : i - 1 \in 0..(k - 1) /\ h[i - 1] = g[i - 1]
    BY <2>2
  <2>4. \A i \in 0..(k - 1) :
          g[i] = IF i = 0 THEN [ok |-> TRUE, tokens |-> <<>>]
                 ELSE AddEntry(g[i - 1], raw[i])
    BY <2>1 DEF Parses
  <2>5. ASSUME NEW i \in 0..k
        PROVE  h[i] = IF i = 0 THEN [ok |-> TRUE, tokens |-> <<>>]
                      ELSE AddEntry(h[i - 1], raw[i])
    <3>1. CASE i = k
      BY <3>1, <2>3
    <3>2. CASE i # k
      BY <3>2, <2>2, <2>3, <2>4
    <3>3. QED
      BY <3>1, <3>2
  <2>6. Parses(h, k, raw)
    BY <2>5 DEF Parses
  <2>7. QED
    BY <2>6
<1> HIDE DEF T
<1>3. 0..n \subseteq T
  BY <1>1, <1>2, IntervalInduction
<1>4. QED
  BY <1>3 DEF T

LEMMA ParserParses ==
  ASSUME NEW raw, Len(raw) \in Nat
  PROVE  \E parsed : /\ Parses(parsed, Len(raw), raw)
                     /\ ParseApiTokens(raw) = parsed[Len(raw)]
<1>1. PICK some : Parses(some, Len(raw), raw)
  BY ParsingExists
<1>2. QED
  BY <1>1 DEF ParseApiTokens, Parses

FineEntry(entry) ==
  /\ Len(entry) \in {2, 3} /\ entry[1] # "" /\ entry[2] # ""
  /\ Len(entry) = 3 => Lower(entry[3]) \in Roles

\* The entries among the first n that are not blank.
Told(raw, n) == {j \in 1..n : raw[j] # Nothing}

FineUpTo(raw, n) ==
  /\ \A j \in Told(raw, n) : FineEntry(raw[j])
  /\ \A j, k \in Told(raw, n) : j # k => raw[j][1] # raw[k][1]

\* A principal has one of the two roles, and an approver an entry that says so.
Backed(principal, token, raw) ==
  /\ principal.role \in Roles
  /\ principal.role = "approver" =>
       \E entry \in Entries(raw) : Approves(entry, token, principal.name)

\* What the loop of parse_api_tokens has after n entries.
Accurate(parsed, raw, n) ==
  /\ parsed = [ok |-> parsed.ok, tokens |-> parsed.tokens]
  /\ parsed.ok \in BOOLEAN
  /\ parsed.ok <=> FineUpTo(raw, n)
  /\ parsed.ok =>
       /\ DOMAIN parsed.tokens = {raw[j][1] : j \in Told(raw, n)}
       /\ \A token \in DOMAIN parsed.tokens : Backed(parsed.tokens[token], token, raw)

\* An entry of two fields is an analyst's.
LEMMA AnalystIsLower == Lower("analyst") = "analyst" /\ "analyst" \in Roles
  BY LoweredAssumption DEF Lower, Roles

LEMMA RoleOfEntry ==
  ASSUME NEW entry
  PROVE  /\ Len(entry) = 3 => RoleOf(entry) = Lower(entry[3])
         /\ Len(entry) # 3 => RoleOf(entry) = "analyst"
  BY AnalystIsLower DEF RoleOf

LEMMA RejectsTheRest ==
  ASSUME NEW known, NEW entry
  PROVE  ~Rejects(known, entry) <=> FineEntry(entry) /\ entry[1] \notin DOMAIN known
<1>1. RoleOf(entry) \in Roles <=> (Len(entry) = 3 => Lower(entry[3]) \in Roles)
  BY RoleOfEntry, AnalystIsLower
<1> QED
  BY <1>1 DEF Rejects, FineEntry

LEMMA EntryAddsAccurately ==
  ASSUME NEW raw \in Seq(Seq(STRING)), NEW k \in 1..Len(raw), NEW parsed,
         Accurate(parsed, raw, k - 1)
  PROVE  Accurate(AddEntry(parsed, raw[k]), raw, k)
<1> DEFINE entry == raw[k]
<1>1. /\ 1..k = (1..(k - 1)) \cup {k} /\ k \notin 1..(k - 1)
      /\ entry \in Seq(STRING) /\ entry \in ToSet(raw)
  BY DEF ToSet
<1>2. Told(raw, k) = Told(raw, k - 1) \cup (IF entry = Nothing THEN {} ELSE {k})
  BY <1>1 DEF Told
<1>3. CASE ~parsed.ok
  <2>1. ~FineUpTo(raw, k)
    BY <1>2, <1>3 DEF Accurate, FineUpTo
  <2>2. AddEntry(parsed, raw[k]) = parsed
    BY <1>3 DEF AddEntry
  <2>3. QED
    BY <1>3, <2>1, <2>2 DEF Accurate
<1>4. CASE parsed.ok /\ entry = Nothing
  <2>1. Told(raw, k) = Told(raw, k - 1)
    BY <1>2, <1>4
  <2>2. AddEntry(parsed, entry) = parsed
    BY <1>4 DEF AddEntry
  <2>3. FineUpTo(raw, k) <=> FineUpTo(raw, k - 1)
    BY <2>1 DEF FineUpTo
  <2>4. QED
    BY <2>1, <2>2, <2>3 DEF Accurate
<1>5. CASE parsed.ok /\ entry # Nothing /\ Rejects(parsed.tokens, entry)
  <2>1. ~FineUpTo(raw, k)
    <3>1. ~FineEntry(entry) \/ \E j \in Told(raw, k - 1) : raw[j][1] = entry[1]
      BY <1>5, RejectsTheRest DEF Accurate
    <3>2. k \in Told(raw, k) /\ k \notin Told(raw, k - 1)
      BY <1>1, <1>2, <1>5 DEF Told
    <3>3. QED
      BY <1>2, <3>1, <3>2 DEF FineUpTo
  <2>2. AddEntry(parsed, entry) = Malformed /\ Malformed.ok = FALSE
        /\ Malformed = [ok |-> Malformed.ok, tokens |-> Malformed.tokens]
    BY <1>5 DEF AddEntry, Malformed
  <2>3. QED
    BY <2>1, <2>2 DEF Accurate
<1>6. CASE parsed.ok /\ entry # Nothing /\ ~Rejects(parsed.tokens, entry)
  <2> DEFINE principal == [name |-> entry[2], role |-> RoleOf(entry)]
             tokens == Put(parsed.tokens, entry[1], principal)
  <2>1. FineEntry(entry) /\ entry[1] \notin DOMAIN parsed.tokens
    BY <1>6, RejectsTheRest
  <2>2. AddEntry(parsed, raw[k]) = [ok |-> TRUE, tokens |-> tokens]
    BY <1>6 DEF AddEntry, Accurate
  <2>3. Backed(principal, entry[1], raw)
    <3>1. principal.role \in Roles
      BY <2>1, RoleOfEntry, AnalystIsLower DEF FineEntry
    <3>2. ASSUME principal.role = "approver"
          PROVE  \E e \in Entries(raw) : Approves(e, entry[1], principal.name)
      <4>1. Len(entry) = 3 /\ Lower(entry[3]) = "approver"
        BY <3>2, RoleOfEntry
      <4>2. entry \in Entries(raw)
        BY <1>1, <1>6 DEF Entries
      <4>3. QED
        BY <4>1, <4>2 DEF Approves
    <3>3. QED
      BY <3>1, <3>2 DEF Backed
  <2> HIDE DEF principal
  <2>4. /\ DOMAIN tokens = DOMAIN parsed.tokens \cup {entry[1]}
        /\ \A token \in DOMAIN parsed.tokens : tokens[token] = parsed.tokens[token]
        /\ tokens[entry[1]] = principal
    BY <2>1 DEF Put
  <2> HIDE DEF tokens
  <2>5. Told(raw, k) = Told(raw, k - 1) \cup {k}
    BY <1>2, <1>6
  <2>6. FineUpTo(raw, k)
    <3>1. \A j \in Told(raw, k - 1) : raw[j][1] \in DOMAIN parsed.tokens
      BY <1>6 DEF Accurate
    <3>2. FineUpTo(raw, k - 1)
      BY <1>6 DEF Accurate
    <3>3. QED
      BY <2>1, <2>5, <3>1, <3>2 DEF FineUpTo
  <2>7. \A token \in DOMAIN tokens : Backed(tokens[token], token, raw)
    <3>1. \A token \in DOMAIN parsed.tokens : Backed(parsed.tokens[token], token, raw)
      BY <1>6 DEF Accurate
    <3>2. QED
      BY <2>3, <2>4, <3>1
  <2>8. DOMAIN tokens = {raw[j][1] : j \in Told(raw, k)}
    <3>1. DOMAIN parsed.tokens = {raw[j][1] : j \in Told(raw, k - 1)}
      BY <1>6 DEF Accurate
    <3>2. QED
      BY <2>4, <2>5, <3>1
  <2>9. AddEntry(parsed, raw[k]).ok = TRUE /\ AddEntry(parsed, raw[k]).tokens = tokens
    BY <2>2
  <2>10. QED
    BY <2>2, <2>6, <2>7, <2>8, <2>9 DEF Accurate
<1>7. QED
  BY <1>3, <1>4, <1>5, <1>6 DEF Accurate

\* parse_api_tokens succeeds on the values that are well formed, and then its map
\* has the tokens of the entries and the principals that they name.
LEMMA ParserIsAccurate ==
  ASSUME NEW raw \in Seq(Seq(STRING))
  PROVE  Accurate(ParseApiTokens(raw), raw, Len(raw))
<1> DEFINE n == Len(raw)
<1>1. n \in Nat
  OBVIOUS
<1>2. PICK parsed : Parses(parsed, n, raw) /\ ParseApiTokens(raw) = parsed[n]
  BY <1>1, ParserParses
<1> DEFINE T == {k \in 0..n : Accurate(parsed[k], raw, k)}
<1>3. 0 \in T
  <2>1. parsed[0] = [ok |-> TRUE, tokens |-> <<>>]
    BY <1>1, <1>2 DEF Parses
  <2>2. Told(raw, 0) = {}
    BY DEF Told
  <2>3. FineUpTo(raw, 0)
    BY <2>2 DEF FineUpTo
  <2>4. DOMAIN <<>> = {}
    OBVIOUS
  <2>5. Accurate(parsed[0], raw, 0)
    BY <2>1, <2>2, <2>3, <2>4 DEF Accurate
  <2>6. QED
    BY <1>1, <2>5
<1>4. ASSUME NEW k \in 1..n, k - 1 \in T  PROVE k \in T
  <2>1. Accurate(parsed[k - 1], raw, k - 1)
    BY <1>4
  <2>2. parsed[k] = AddEntry(parsed[k - 1], raw[k]) /\ k \in 0..n
    <3>1. k \in 0..n /\ k # 0
      BY <1>1
    <3>2. QED
      BY <1>2, <3>1 DEF Parses
  <2>3. Accurate(parsed[k], raw, k)
    BY <2>1, <2>2, EntryAddsAccurately
  <2>4. QED
    BY <2>2, <2>3
<1>5. Accurate(parsed[n], raw, n)
  <2> HIDE DEF T
  <2>1. 0..n \subseteq T
    BY <1>1, <1>3, <1>4, IntervalInduction
  <2>2. n \in T
    BY <1>1, <2>1
  <2>3. QED
    BY <2>2 DEF T
<1>6. QED
  BY <1>2, <1>5

-----------------------------------------------------------------------------
(* Whom a decision is recorded for.                                        *)

LEMMA WellFormedIsFine ==
  ASSUME NEW raw \in Seq(Seq(STRING))
  PROVE  WellFormed(raw) <=> FineUpTo(raw, Len(raw))
<1>1. DOMAIN raw = 1..Len(raw)
  OBVIOUS
<1>2. Entries(raw) = {raw[j] : j \in Told(raw, Len(raw))}
  BY <1>1 DEF Entries, ToSet, Told
<1> DEFINE Fine == \A entry \in Entries(raw) : FineEntry(entry)
           Distinct == \A i, j \in DOMAIN raw : (i # j /\ Nothing \notin {raw[i], raw[j]})
                                                  => raw[i][1] # raw[j][1]
<1>3. Fine <=> \A j \in Told(raw, Len(raw)) : FineEntry(raw[j])
  BY <1>2
<1>4. Distinct <=> \A j, k \in Told(raw, Len(raw)) : j # k => raw[j][1] # raw[k][1]
  BY <1>1 DEF Told
<1>5. WellFormed(raw) <=> Fine /\ Distinct
  BY Zenon DEF WellFormed, FineEntry
<1> HIDE DEF Fine, Distinct
<1>6. QED
  BY <1>3, <1>4, <1>5 DEF FineUpTo

\* Who is let in with authentication on: the bearers of the tokens of a value that
\* is well formed.
LEMMA LetsInTheConfigured ==
  ASSUME settings \in Configurations, settings.auth_enabled, NEW token
  PROVE  /\ Authenticate(token) # {}
              <=> /\ WellFormed(settings.api_tokens)
                  /\ \E entry \in Entries(settings.api_tokens) : entry[1] = token
         /\ \A principal \in Authenticate(token) :
              Backed(principal, token, settings.api_tokens)
<1> DEFINE raw == settings.api_tokens
           parsed == ParseApiTokens(raw)
<1>1. raw \in Seq(Seq(STRING)) /\ DOMAIN raw = 1..Len(raw)
  BY EntriesAssumption
<1>2. Accurate(parsed, raw, Len(raw)) /\ (WellFormed(raw) <=> FineUpTo(raw, Len(raw)))
  BY <1>1, ParserIsAccurate, WellFormedIsFine
<1>3. Entries(raw) = {raw[j] : j \in Told(raw, Len(raw))}
  BY <1>1 DEF Entries, ToSet, Told
<1>4. Authenticate(token) = IF token # "" /\ parsed.ok /\ token \in DOMAIN parsed.tokens
                            THEN {parsed.tokens[token]} ELSE {}
  BY DEF Authenticate, PrincipalsFor
<1> HIDE DEF raw, parsed
<1>5. parsed.ok => /\ FineUpTo(raw, Len(raw)) /\ WellFormed(raw)
                   /\ DOMAIN parsed.tokens = {raw[j][1] : j \in Told(raw, Len(raw))}
                   /\ \A t \in DOMAIN parsed.tokens : Backed(parsed.tokens[t], t, raw)
  BY <1>2 DEF Accurate
<1>6. WellFormed(raw) => parsed.ok
  BY <1>2 DEF Accurate
<1>7. parsed.ok => \A entry \in Entries(raw) : entry[1] # ""
  BY <1>3, <1>5 DEF FineUpTo, FineEntry
<1>8. parsed.ok => (token \in DOMAIN parsed.tokens <=> \E entry \in Entries(raw) : entry[1] = token)
  BY <1>3, <1>5
<1>9. Authenticate(token) # {}
        <=> WellFormed(raw) /\ \E entry \in Entries(raw) : entry[1] = token
  <2>1. Authenticate(token) # {} <=> token # "" /\ parsed.ok /\ token \in DOMAIN parsed.tokens
    BY <1>4
  <2>2. CASE parsed.ok
    <3>1. WellFormed(raw)
      BY <1>5, <2>2
    <3>2. token \in DOMAIN parsed.tokens => token # ""
      BY <1>7, <1>8, <2>2
    <3>3. QED
      BY <1>8, <2>1, <2>2, <3>1, <3>2
  <2>3. CASE ~parsed.ok
    BY <1>6, <2>1, <2>3
  <2>4. QED
    BY <2>2, <2>3
<1>10. ASSUME NEW principal \in Authenticate(token)
       PROVE  Backed(principal, token, raw)
  <2>1. parsed.ok /\ token \in DOMAIN parsed.tokens /\ principal = parsed.tokens[token]
    BY <1>4
  <2>2. QED
    BY <1>5, <2>1
<1>11. QED
  BY <1>9, <1>10 DEF raw

EntryOf(token, approver) ==
  \E entry \in Entries(settings.api_tokens) : Approves(entry, token, approver)

\* The process runs with settings that passed the start-up check, its requests
\* are the ones they admitted, and its decisions the ones it was asked for.
OfThisProcess ==
  /\ settings = None => decisions = {} /\ \A w \in Workers : request[w] = NoRequest
  /\ settings # None => settings \in Configurations /\ MayStart(settings)

IsRequest(r) ==
  r = [op |-> r.op, thread |-> r.thread, token |-> r.token, approver |-> r.approver]

RequestsTyped == /\ request = [w \in Workers |-> request[w]]
                 /\ \A w \in Workers : IsRequest(request[w])

Signed ==
  settings # None /\ settings.auth_enabled =>
    /\ \A w \in Workers :
         request[w].op = "decide" => EntryOf(request[w].token, request[w].approver)
    /\ \A d \in decisions : EntryOf(d.token, d.approver)

SignInv == OfThisProcess /\ RequestsTyped /\ Signed

LEMMA NoDecisionAsked == NoRequest.op = "none" /\ NoRequest.op # "decide"
  BY DEF NoRequest

\* With authentication on, whoever passes both dependencies of the endpoint is
\* named next to the approver role at the token presented.
LEMMA ApproverIsConfigured ==
  ASSUME OfThisProcess, settings # None, settings.auth_enabled, NEW token, NEW claimed, NEW principal \in Authenticate(token),
         RequireApprover(principal),
         NEW approver \in ResolveApprover(principal, claimed)
  PROVE  EntryOf(token, approver)
<1>1. settings \in Configurations
  BY DEF OfThisProcess
<1>2. /\ principal.role \in Roles
      /\ principal.role = "approver" =>
           \E entry \in Entries(settings.api_tokens) :
             Approves(entry, token, principal.name)
  BY <1>1, LetsInTheConfigured DEF Backed
<1>3. principal # Unauthenticated
  <2>1. Unauthenticated.role = "none" /\ "none" \notin Roles
    BY DEF Roles, Unauthenticated
  <2>2. QED
    BY <1>2, <2>1
<1>4. principal.role = "approver" /\ approver = principal.name
  BY <1>3 DEF RequireApprover, ResolveApprover
<1>5. QED
  BY <1>2, <1>4 DEF EntryOf

LEMMA SignStep == SignInv /\ [GatewayNext]_gatewayVars => SignInv'
<1> SUFFICES ASSUME SignInv, [GatewayNext]_gatewayVars  PROVE SignInv'
  OBVIOUS
<1> USE DEF SignInv
<1>1. CASE UNCHANGED gatewayVars
  BY <1>1 DEF gatewayVars, OfThisProcess, RequestsTyped, Signed, EntryOf, MayStart
<1>2. CASE Start
  <2>1. OfThisProcess' /\ RequestsTyped'
    BY <1>2 DEF Start, OfThisProcess, RequestsTyped
  <2>2. decisions = {} /\ \A w \in Workers : request[w].op = "none"
    BY <1>2, NoDecisionAsked DEF Start, OfThisProcess
  <2>3. Signed'
    BY <1>2, <2>2 DEF Start, Signed
  <2>4. QED
    BY <2>1, <2>3
<1>3. CASE Stop
  BY <1>3 DEF Stop, OfThisProcess, RequestsTyped, Signed, NoRequest, IsRequest
<1>4. ASSUME NEW w \in Workers, Ask(w)  PROVE SignInv'
  <2>1. PICK token \in Tokens \cup {""}, op \in {"open", "read"} :
          request' = [request EXCEPT ![w].op = op, ![w].token = token]
    BY <1>4 DEF Ask
  <2>2. /\ request'[w] = [request[w] EXCEPT !.op = op, !.token = token]
        /\ \A v \in Workers \ {w} : request'[v] = request[v]
        /\ request' = [v \in Workers |-> request'[v]]
    BY <2>1 DEF RequestsTyped
  <2>3. IsRequest(request[w])
    BY DEF RequestsTyped
  <2>4. IsRequest(request'[w]) /\ request'[w].op = op
    BY <2>2, <2>3 DEF IsRequest
  <2>5. RequestsTyped'
    BY <2>2, <2>4 DEF RequestsTyped
  <2>6. OfThisProcess' /\ Signed'
    BY <1>4, <2>2, <2>4 DEF Ask, OfThisProcess, Signed, EntryOf
  <2>7. QED
    BY <2>5, <2>6
<1>5. ASSUME NEW w \in Workers, AskToDecide(w)  PROVE SignInv'
  <2>1. PICK token \in Tokens \cup {""}, claimed \in Names \cup {""}, t \in used :
          \E principal \in Authenticate(token) :
            /\ RequireApprover(principal)
            /\ \E approver \in ResolveApprover(principal, claimed) :
                 request' = [request EXCEPT ![w] =
                   [op |-> "decide", thread |-> t, token |-> token, approver |-> approver]]
    BY <1>5 DEF AskToDecide
  <2>2. PICK principal \in Authenticate(token) :
          /\ RequireApprover(principal)
          /\ \E approver \in ResolveApprover(principal, claimed) :
               request' = [request EXCEPT ![w] =
                 [op |-> "decide", thread |-> t, token |-> token, approver |-> approver]]
    BY <2>1
  <2>3. PICK approver \in ResolveApprover(principal, claimed) :
          request' = [request EXCEPT ![w] =
            [op |-> "decide", thread |-> t, token |-> token, approver |-> approver]]
    BY <2>2
  <2>4. RequestsTyped'
    BY <2>3 DEF RequestsTyped, IsRequest
  <2>5. settings # None /\ settings' = settings /\ decisions' = decisions
    BY <1>5 DEF AskToDecide
  <2>6. settings.auth_enabled => EntryOf(token, approver)
    BY <2>2, <2>5, ApproverIsConfigured
  <2>7. /\ request'[w].token = token /\ request'[w].approver = approver
        /\ \A v \in Workers \ {w} : request'[v] = request[v]
    BY <2>3 DEF RequestsTyped
  <2>8. OfThisProcess' /\ Signed'
    BY <2>5, <2>6, <2>7 DEF OfThisProcess, Signed, EntryOf
  <2>9. QED
    BY <2>4, <2>8
<1>6. ASSUME NEW w \in Workers, GetGraph(w)  PROVE SignInv'
  BY <1>6 DEF GetGraph, OfThisProcess, RequestsTyped, Signed, EntryOf
<1>7. ASSUME NEW w \in Workers, Answered(w)
      PROVE  /\ RequestsTyped'
             /\ \A v \in Workers : request'[v] \in {request[v], NoRequest}
  BY <1>7 DEF Answered, RequestsTyped, IsRequest, NoRequest
<1>8. ASSUME NEW w \in Workers, OpenCase(w) \/ ReadCase(w) \/ NothingToDecide(w)
      PROVE  SignInv'
  <2>1. Answered(w) /\ settings' = settings /\ decisions' = decisions
    BY <1>8 DEF OpenCase, ReadCase, NothingToDecide
  <2>2. QED
    BY <1>7, <2>1, NoDecisionAsked DEF OfThisProcess, Signed, EntryOf
<1>9. ASSUME NEW w \in Workers, DecideCase(w)  PROVE SignInv'
  <2>1. /\ Answered(w) /\ settings' = settings /\ request[w].op = "decide"
        /\ decisions' = decisions \cup {[thread |-> request[w].thread,
                                         token |-> request[w].token,
                                         approver |-> request[w].approver]}
    BY <1>9 DEF DecideCase
  <2>2. settings # None
    BY <2>1, NoDecisionAsked DEF OfThisProcess
  <2>3. QED
    <3>1. OfThisProcess' /\ RequestsTyped'
      BY <1>7, <2>1, <2>2 DEF OfThisProcess
    <3>2. Signed'
      <4> SUFFICES ASSUME settings # None, settings.auth_enabled
                   PROVE  /\ \A v \in Workers : request'[v].op = "decide" =>
                               EntryOf(request'[v].token, request'[v].approver)
                          /\ \A d \in decisions' : EntryOf(d.token, d.approver)
        BY <2>1 DEF Signed, EntryOf
      <4>1. EntryOf(request[w].token, request[w].approver)
        BY <2>1 DEF Signed
      <4>2. \A d \in decisions' : EntryOf(d.token, d.approver)
        BY <2>1, <4>1 DEF Signed
      <4>3. QED
        BY <1>7, <2>1, <4>2, NoDecisionAsked DEF Signed
    <3>3. QED
      BY <3>1, <3>2
<1>10. QED
  BY <1>1, <1>2, <1>3, <1>4, <1>5, <1>6, <1>8, <1>9 DEF GatewayNext

\* Every decision a production process records, or any process with authentication
\* on, carries the name that an entry has between the token its caller presented
\* and the approver role: whatever the settings and the case they are spelled in,
\* however requests interleave and restarts fall between them.
THEOREM DecisionsAreSigned == GatewaySpec => []ProductionDecisionsAreSigned
<1>1. GatewayInit => SignInv
  BY DEF GatewayInit, SignInv, OfThisProcess, RequestsTyped, Signed, NoRequest, IsRequest
<1>2. SignInv => ProductionDecisionsAreSigned
  BY DEF SignInv, OfThisProcess, Signed, EntryOf, MayStart, ProductionDecisionsAreSigned
<1>3. QED
  BY <1>1, <1>2, SignStep, PTL DEF GatewaySpec

-----------------------------------------------------------------------------
(* Who is let in.                                                          *)

\* With authentication on, every request in progress presented a token that the
\* settings of this process still let in.
Admitted ==
  settings # None /\ settings.auth_enabled =>
    \A w \in Workers : request[w].op # "none" => Authenticate(request[w].token) # {}

AdmitInv == OfThisProcess /\ RequestsTyped /\ Admitted

\* The settings do not change under a request.
LEMMA StillAdmitted ==
  ASSUME settings' = settings, NEW token
  PROVE  Authenticate(token)' = Authenticate(token)
  BY DEF Authenticate, PrincipalsFor

LEMMA AdmitStep == SignInv /\ AdmitInv /\ [GatewayNext]_gatewayVars => AdmitInv'
<1> SUFFICES ASSUME SignInv, AdmitInv, [GatewayNext]_gatewayVars  PROVE Admitted'
  BY SignStep DEF SignInv, AdmitInv
<1>1. CASE Start
  <2>1. \A w \in Workers : request'[w].op = "none"
    BY <1>1, NoDecisionAsked DEF Start, AdmitInv, OfThisProcess
  <2>2. QED
    BY <2>1 DEF Admitted
<1>2. CASE Stop
  BY <1>2 DEF Stop, Admitted
\* What remains keeps the settings, and every request it keeps.
<1>3. ASSUME settings' = settings,
             \A w \in Workers : \/ request'[w] = request[w]
                                \/ request'[w].op = "none"
                                \/ Authenticate(request'[w].token) # {}
      PROVE  Admitted'
  <2>1. \A token : Authenticate(token)' = Authenticate(token)
    BY <1>3, StillAdmitted
  <2>2. ASSUME settings # None, settings.auth_enabled,
               NEW w \in Workers, request'[w].op # "none"
        PROVE  Authenticate(request'[w].token) # {}
    BY <1>3, <2>2 DEF AdmitInv, Admitted
  <2>3. ASSUME settings' # None, settings'.auth_enabled,
               NEW w \in Workers, request'[w].op # "none"
        PROVE  Authenticate(request[w].token)' # {}
    <3>1. Authenticate(request'[w].token) # {}
      BY <1>3, <2>2, <2>3
    <3>2. Authenticate(request[w].token)' = Authenticate(request'[w].token)
      BY <1>3 DEF Authenticate, PrincipalsFor
    <3>3. QED
      BY <3>1, <3>2
  <2>4. QED
    BY <2>3 DEF Admitted
<1>4. CASE UNCHANGED gatewayVars
  BY <1>3, <1>4 DEF gatewayVars
<1>5. ASSUME NEW w \in Workers, Ask(w)  PROVE Admitted'
  <2>1. PICK token \in Tokens \cup {""}, op \in {"open", "read"} :
          /\ Authenticate(token) # {}
          /\ request' = [request EXCEPT ![w].op = op, ![w].token = token]
    BY <1>5 DEF Ask
  <2>2. /\ request'[w] = [request[w] EXCEPT !.op = op, !.token = token]
        /\ \A v \in Workers \ {w} : request'[v] = request[v]
    BY <2>1 DEF AdmitInv, RequestsTyped
  <2>3. IsRequest(request[w])
    BY DEF AdmitInv, RequestsTyped
  <2>4. request'[w].token = token
    BY <2>2, <2>3 DEF IsRequest
  <2>5. settings' = settings
    BY <1>5 DEF Ask
  <2>6. QED
    BY <1>3, <2>1, <2>2, <2>4, <2>5
<1>6. ASSUME NEW w \in Workers, AskToDecide(w)  PROVE Admitted'
  <2>1. PICK token \in Tokens \cup {""}, claimed \in Names \cup {""}, t \in used :
          \E principal \in Authenticate(token) :
            /\ RequireApprover(principal)
            /\ \E approver \in ResolveApprover(principal, claimed) :
                 request' = [request EXCEPT ![w] =
                   [op |-> "decide", thread |-> t, token |-> token, approver |-> approver]]
    BY <1>6 DEF AskToDecide
  <2>2. PICK approver :
          request' = [request EXCEPT ![w] =
            [op |-> "decide", thread |-> t, token |-> token, approver |-> approver]]
    BY <2>1
  <2>3. /\ request'[w].token = token
        /\ \A v \in Workers \ {w} : request'[v] = request[v]
    BY <2>2 DEF AdmitInv, RequestsTyped
  <2>4. settings' = settings /\ Authenticate(token) # {}
    BY <1>6, <2>1 DEF AskToDecide
  <2>5. QED
    BY <1>3, <2>3, <2>4
<1>7. ASSUME NEW w \in Workers, GetGraph(w)  PROVE Admitted'
  BY <1>3, <1>7 DEF GetGraph
<1>8. ASSUME NEW w \in Workers, Answered(w), settings' = settings  PROVE Admitted'
  <2>1. \A v \in Workers : request'[v] \in {request[v], NoRequest}
    BY <1>8 DEF Answered, AdmitInv, RequestsTyped
  <2>2. QED
    BY <1>3, <1>8, <2>1, NoDecisionAsked
<1>9. ASSUME NEW w \in Workers,
             OpenCase(w) \/ ReadCase(w) \/ DecideCase(w) \/ NothingToDecide(w)
      PROVE  Admitted'
  BY <1>8, <1>9 DEF OpenCase, ReadCase, DecideCase, NothingToDecide
<1>10. QED
  BY <1>1, <1>2, <1>4, <1>5, <1>6, <1>7, <1>9 DEF GatewayNext

\* With authentication on, requests in progress are those of callers whose token
\* an entry of a well-formed API_TOKENS has, and such a value lets in everybody
\* it names: for any settings a process may be given, any number of entries and
\* roles in upper or lower case.
THEOREM AdmissionIsExact == GatewaySpec => []AdmitsExactlyTheConfigured
<1>1. GatewayInit => SignInv /\ AdmitInv
  <2>1. GatewayInit => OfThisProcess /\ RequestsTyped /\ Signed
    BY DEF GatewayInit, OfThisProcess, RequestsTyped, Signed, NoRequest, IsRequest
  <2>2. GatewayInit => Admitted
    BY DEF GatewayInit, Admitted
  <2>3. QED
    BY <2>1, <2>2 DEF SignInv, AdmitInv
<1>2. AdmitInv => AdmitsExactlyTheConfigured
  <2> SUFFICES ASSUME AdmitInv, settings # None, settings.auth_enabled
               PROVE  AdmitsExactlyTheConfigured
    BY DEF AdmitsExactlyTheConfigured
  <2>1. settings \in Configurations
    BY DEF AdmitInv, OfThisProcess
  <2>2. \A token : Authenticate(token) # {}
          <=> /\ WellFormed(settings.api_tokens)
              /\ \E entry \in Entries(settings.api_tokens) : entry[1] = token
    BY <2>1, LetsInTheConfigured
  <2>3. \A w \in Workers : request[w].op # "none" => Authenticate(request[w].token) # {}
    BY DEF AdmitInv, Admitted
  <2>4. QED
    BY <2>2, <2>3 DEF AdmitsExactlyTheConfigured
<1>3. QED
  BY <1>1, <1>2, SignStep, AdmitStep, PTL DEF GatewaySpec
=============================================================================
