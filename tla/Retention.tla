------------------------------ MODULE Retention ------------------------------
(***************************************************************************)
(* What the docstring of BoundedMemorySaver promises of its OrderedDict     *)
(* `_threads`: thread ids in the order of their last write, oldest first,   *)
(* and only the max_threads newest of them kept.                            *)
(***************************************************************************)
EXTENDS SequencesExt

CONSTANT MaxThreads    \* MAX_RETAINED_INVESTIGATIONS

ASSUME MaxThreadsAssumption == MaxThreads \in Nat \ {0}

\* OrderedDict.pop(thread_id, None): a key is listed at most once.
Without(order, t) ==
  IF t \in ToSet(order)
  THEN RemoveAt(order, CHOOSE i \in DOMAIN order : order[i] = t) ELSE order

BugWritesDoNotRefresh(order, t) ==
  IF t \in ToSet(order) THEN order ELSE Append(order, t)

\* _record, first half: pop the thread id and put it back at the end.
Touched(order, t) == Append(Without(order, t), t)

\* _record, second half: evict from the front while there are too many.
Newest(order) ==
  IF Len(order) <= MaxThreads THEN order
  ELSE SubSeq(order, Len(order) - MaxThreads + 1, Len(order))
=============================================================================
