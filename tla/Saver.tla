-------------------------------- MODULE Saver --------------------------------
(***************************************************************************)
(* BoundedMemorySaver.put taken apart.  Concurrent requests put checkpoints *)
(* through one saver and no lock guards `_record`, so each of its calls on  *)
(* the dictionaries, atomic by itself, may interleave with anyone else's.   *)
(* Requests usually write threads of their own, but two approvals of one    *)
(* case write the same one: a worker may put to any thread.                 *)
(***************************************************************************)
EXTENDS Retention

CONSTANTS Workers,     \* the request threads that put checkpoints
          Threads,     \* investigation thread ids
          None

ASSUME NoThreadAssumption == None \notin Threads
ASSUME WorkersAssumption == IsFiniteSet(Workers)

VARIABLES
  stored,              \* the threads MemorySaver holds checkpoints of
  listed,              \* _threads
  pc,                  \* how far every worker is in put
  target,              \* the thread every worker puts to
  victim,              \* the thread every worker is evicting
  wanted,              \* observed: what the docstring promises to retain
  peak                 \* observed: most puts ever under way together

vars == <<stored, listed, pc, target, victim, wanted, peak>>
observed == <<wanted, peak>>

TypeOK ==
  /\ stored \subseteq Threads
  /\ listed \in Seq(Threads)
  /\ pc \in [Workers -> {"idle", "pop", "set", "check", "popitem", "delete", "raised"}]
  /\ target \in [Workers -> Threads \cup {None}]
  /\ victim \in [Workers -> Threads \cup {None}]
  /\ wanted \in Seq(Threads)
  /\ peak \in 0..Cardinality(Workers)

Init ==
  /\ stored = {} /\ listed = <<>>
  /\ wanted = <<>> /\ peak = 0
  /\ pc = [w \in Workers |-> "idle"]
  /\ target = [w \in Workers |-> None]
  /\ victim = [w \in Workers |-> None]

Goto(w, from, to) == pc[w] = from /\ pc' = [pc EXCEPT ![w] = to]

\* The puts under way.
Putting == {w \in Workers : pc[w] \notin {"idle", "raised"}}

\* super().put: the checkpoint is stored before _record runs.
Store(w) ==
  /\ Goto(w, "idle", "pop")
  /\ peak' = Max({peak, Cardinality(Putting) + 1})
  /\ \E t \in Threads :
       /\ target' = [target EXCEPT ![w] = t]
       /\ stored' = stored \cup {t}
       /\ wanted' = IF peak' <= 1 THEN Newest(Touched(wanted, t)) ELSE <<>>
  /\ UNCHANGED <<listed, victim>>

BugForgetsToPop(w) ==
  /\ Goto(w, "pop", "set")
  /\ UNCHANGED <<listed, stored, target, victim, observed>>

\* self._threads.pop(thread_id, None)
Pop(w) ==
  /\ Goto(w, "pop", "set")
  /\ listed' = Without(listed, target[w])
  /\ UNCHANGED <<stored, target, victim, observed>>

BugListsTheVictim(w) ==
  /\ Goto(w, "set", "check")
  /\ listed' = Append(listed, victim[w])
  /\ UNCHANGED <<stored, target, victim, observed>>

\* self._threads[thread_id] = None: a key that is there keeps its place.
Set(w) ==
  /\ Goto(w, "set", "check")
  /\ listed' = IF target[w] \in ToSet(listed) THEN listed ELSE Append(listed, target[w])
  /\ UNCHANGED <<stored, target, victim, observed>>

BugOneTooEarly == Len(listed) >= MaxThreads

TooMany == Len(listed) > MaxThreads

\* while len(self._threads) > self._max_threads
CheckMore(w) ==
  /\ TooMany
  /\ Goto(w, "check", "popitem")
  /\ UNCHANGED <<stored, listed, target, victim, observed>>

Done(w) ==
  /\ ~TooMany
  /\ Goto(w, "check", "idle")
  /\ target' = [target EXCEPT ![w] = None]
  /\ UNCHANGED <<stored, listed, victim, observed>>

\* self._threads.popitem(last=False)
PopItem(w) ==
  /\ listed # <<>>
  /\ Goto(w, "popitem", "delete")
  /\ victim' = [victim EXCEPT ![w] = Head(listed)]
  /\ listed' = Tail(listed)
  /\ UNCHANGED <<stored, target, observed>>

\* popitem on an empty dictionary: KeyError out of put, and out of graph.invoke.
PopItemRaises(w) ==
  /\ listed = <<>>
  /\ Goto(w, "popitem", "raised")
  /\ UNCHANGED <<stored, listed, target, victim, observed>>

\* The request ends in a 500; its worker goes on to the next one.
NextRequest(w) ==
  /\ Goto(w, "raised", "idle")
  /\ target' = [target EXCEPT ![w] = None]
  /\ UNCHANGED <<stored, listed, victim, observed>>

BugListingOnly(w) ==
  /\ Goto(w, "delete", "check")
  /\ victim' = [victim EXCEPT ![w] = None]
  /\ UNCHANGED <<stored, listed, target, observed>>

\* self.delete_thread(evicted)
Delete(w) ==
  /\ Goto(w, "delete", "check")
  /\ stored' = stored \ {victim[w]}
  /\ victim' = [victim EXCEPT ![w] = None]
  /\ UNCHANGED <<listed, target, observed>>

Step(w) == \/ Store(w) \/ Pop(w) \/ Set(w) \/ CheckMore(w) \/ Done(w)
           \/ PopItem(w) \/ PopItemRaises(w) \/ NextRequest(w) \/ Delete(w)

Next == \E w \in Workers : Step(w)

Spec == Init /\ [][Next]_vars

-----------------------------------------------------------------------------

AtRest == \A w \in Workers : pc[w] = "idle"

\* Memory stays bounded however the puts interleave: once no put is under way,
\* everything stored is listed, so nothing escapes eviction for good, and no
\* more than MAX_RETAINED_INVESTIGATIONS threads are held.
RetentionIsBounded ==
  AtRest => /\ stored \subseteq ToSet(listed)
            /\ Len(listed) <= MaxThreads
            /\ Cardinality(stored) <= MaxThreads

\* A put can find the dictionary empty when it evicts only if the puts that have
\* overlapped leave it less than two places each for the others.  (A put can take
\* two threads off the list behind another's check: one that it evicts, and then
\* its request's next one while it puts that back.)
EvictionNeverFails ==
  2 * (peak - 1) <= MaxThreads => \A w \in Workers : pc[w] # "raised"

\* While no two puts have overlapped, the saver keeps the most recently written
\* threads, and lists just those that can be read, in the order of their writes.
KeepsWhatItPromises ==
  AtRest /\ peak <= 1 => listed = wanted /\ stored = ToSet(listed)
=============================================================================
