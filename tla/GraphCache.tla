----------------------------- MODULE GraphCache -----------------------------
(***************************************************************************)
(* The first requests of a process.  get_graph() is an lru_cache'd function *)
(* that compiles a graph around a new, empty saver.  lru_cache holds no     *)
(* lock while the function runs: of several requests that find the cache    *)
(* empty each compiles a graph, the first to finish leaves its graph in the *)
(* cache, and every one of them goes on with the graph it compiled itself.  *)
(***************************************************************************)
EXTENDS Naturals, FiniteSets

CONSTANTS Workers,    \* requests in progress together
          Threads,    \* investigation thread ids
          None

ASSUME WorkersAssumption == IsFiniteSet(Workers) /\ None \notin Workers

VARIABLES
  cache,              \* the graph lru_cache holds, named after its builder
  pc,                 \* where every request is
  graph,              \* the graph every request works with
  holds,              \* what the saver of every graph holds
  answered            \* observed: the thread ids callers were given

vars == <<cache, pc, graph, holds, answered>>

Init ==
  /\ cache = None
  /\ pc = [w \in Workers |-> "idle"]
  /\ graph = [w \in Workers |-> None]
  /\ holds = [w \in Workers |-> {}]
  /\ answered = {}

\* A request reaches the service function that calls get_graph().
Call(w) ==
  /\ pc[w] = "idle"
  /\ pc' = [pc EXCEPT ![w] = "called"]
  /\ UNCHANGED <<cache, graph, holds, answered>>

\* A hit: the request gets the process-wide graph.
Hit(w) ==
  /\ pc[w] = "called" /\ cache # None
  /\ pc' = [pc EXCEPT ![w] = "has_graph"]
  /\ graph' = [graph EXCEPT ![w] = cache]
  /\ UNCHANGED <<cache, holds, answered>>

\* A miss: the function body runs, outside any lock.
Miss(w) ==
  /\ pc[w] = "called" /\ cache = None
  /\ pc' = [pc EXCEPT ![w] = "building"]
  /\ UNCHANGED <<cache, graph, holds, answered>>

BugLastOneWins(w) ==
  /\ pc[w] = "building"
  /\ pc' = [pc EXCEPT ![w] = "has_graph"]
  /\ graph' = [graph EXCEPT ![w] = w]
  /\ cache' = w
  /\ UNCHANGED <<holds, answered>>

\* The body returns; the result is cached unless another call got there first,
\* and is returned to this caller either way.
Built(w) ==
  /\ pc[w] = "building"
  /\ pc' = [pc EXCEPT ![w] = "has_graph"]
  /\ graph' = [graph EXCEPT ![w] = w]
  /\ cache' = IF cache = None THEN w ELSE cache
  /\ UNCHANGED <<holds, answered>>

\* run_investigation checkpoints a case and the caller is told its thread id;
\* the worker's next request calls get_graph() again.
Investigate(w) ==
  /\ pc[w] = "has_graph"
  /\ \E t \in Threads \ answered :
       /\ holds' = [holds EXCEPT ![graph[w]] = @ \cup {t}]
       /\ answered' = answered \cup {t}
  /\ pc' = [pc EXCEPT ![w] = "idle"]
  /\ graph' = [graph EXCEPT ![w] = None]
  /\ UNCHANGED cache

\* get_investigation, resume_investigation: the graph is used, no case is added.
UseGraph(w) ==
  /\ pc[w] = "has_graph"
  /\ pc' = [pc EXCEPT ![w] = "idle"]
  /\ graph' = [graph EXCEPT ![w] = None]
  /\ UNCHANGED <<cache, holds, answered>>

Next == \E w \in Workers :
          Call(w) \/ Hit(w) \/ Miss(w) \/ Built(w) \/ Investigate(w) \/ UseGraph(w)

Spec == Init /\ [][Next]_vars

\* What a cold start can lose is bounded by the requests that raced it: a request
\* uses a graph of its own at most once, and the first builder's is the cache.
LossIsBounded ==
  answered # {} => /\ cache # None
                   /\ Cardinality(answered \ holds[cache]) < Cardinality(Workers)

\* "Process-wide compiled graph" (build.py, get_graph): a case whose thread id a
\* caller was given is found by later requests, which all use the cached graph.
AnsweredCasesAreFound ==
  answered # {} => cache # None /\ answered \subseteq holds[cache]
=============================================================================
