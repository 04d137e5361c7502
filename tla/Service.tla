------------------------------- MODULE Service -------------------------------
(***************************************************************************)
(* The HTTP service around the investigations: requests served at the same  *)
(* time by a pool of worker threads (the endpoints are plain `def`), which  *)
(* share nothing but one in-memory checkpointer that forgets.  app/api.py   *)
(* decides who may ask, app/service.py what a request does to a thread, and *)
(* the checkpointer what is left of the thread afterwards.                  *)
(*                                                                         *)
(* A case is reduced to what the requests can tell apart in its latest      *)
(* checkpoint: which channels hold a value, what the graph would run next,  *)
(* and the human decision.  How a case comes to its report is the module    *)
(* Investigation; here a worker carries it in memory and checkpoints it     *)
(* after every superstep.  Each put is atomic here; Saver takes it apart.   *)
(***************************************************************************)
EXTENDS Retention

CONSTANTS
  Workers,          \* requests that can be in progress together
  Threads,          \* the thread ids uuid4 can produce, never twice the same
  Principals,       \* the callers named in API_TOKENS
  CanApprove,       \* those of them with the approver role
  AuthEnabled,      \* AUTH_ENABLED
  LimitCoversBudget, \* of GRAPH_RECURSION_LIMIT; Investigation says when it does
  None

ASSUME PrincipalsAssumption ==
  /\ CanApprove \subseteq Principals
  /\ None \notin Principals
  /\ AuthEnabled \in BOOLEAN

ASSUME LimitAssumption == LimitCoversBudget \in BOOLEAN

ASSUME NoDecisionAssumption == None \notin [approved : BOOLEAN, approver : Principals]

VARIABLES
  saved,            \* the latest checkpoint of every thread
  retained,         \* _threads: the threads the saver holds, oldest write first
  job,              \* what every worker is in the middle of
  used,             \* observed: the thread ids given out so far
  written,          \* observed: every thread written, oldest last write first
  evicted,          \* observed: the threads the saver once dropped
  asked,            \* observed: the decisions accepted from callers
  acknowledged,     \* observed: the decisions answered with 200 OK
  answer,           \* observed: how POST /investigations was answered
  contested         \* observed: the cases two reviewers decided at once

seen == <<used, written, evicted, asked, acknowledged, answer, contested>>

vars == <<saved, retained, job, seen>>

Channels == {"input", "evidence", "report", "approval"}

Decision == [approved : BOOLEAN, approver : Principals]

\* "human_approval" is a report that waits for the gate, "paused" the same with
\* the interrupt on record: only then is there something to resume.
Checkpoint == [channels : SUBSET Channels,
               next     : {"none", "running", "human_approval", "paused", "done"},
               approval : Decision \cup {None}]

Absent == [channels |-> {}, next |-> "none", approval |-> None]

Job == [doing    : {"nothing", "investigating", "concluding", "pausing",
                    "checked", "resuming"},
        thread   : Threads \cup {None},
        decision : Decision \cup {None}]

Idle == [doing |-> "nothing", thread |-> None, decision |-> None]

TypeOK ==
  /\ saved \in [Threads -> Checkpoint]
  /\ retained \in Seq(Threads)
  /\ job \in [Workers -> Job]
  /\ used \subseteq Threads
  /\ written \in Seq(Threads)
  /\ evicted \subseteq used
  /\ asked \subseteq [thread : Threads, by : Principals \cup {None}, decision : Decision]
  /\ acknowledged \subseteq [thread : Threads, decision : Decision]
  /\ answer \in [Threads -> {None, "200", "202", "500"}]
  /\ contested \subseteq used

Init ==
  /\ saved = [t \in Threads |-> Absent]
  /\ retained = <<>>
  /\ job = [w \in Workers |-> Idle]
  /\ used = {} /\ written = <<>> /\ evicted = {}
  /\ asked = {} /\ acknowledged = {} /\ contested = {}
  /\ answer = [t \in Threads |-> None]

-----------------------------------------------------------------------------
(* The checkpointer.                                                       *)

\* put: store the channels this superstep changed, refresh the thread's place,
\* drop the least recently written threads with everything stored for them.
PutCheckpoint(t, channel, next, decision) ==
  LET kept == Newest(Touched(retained, t))
      old == saved[t]
  IN /\ retained' = kept
     /\ saved' = [u \in Threads |->
          IF u \notin ToSet(kept) THEN Absent
          ELSE IF u = t
               THEN [channels |-> old.channels \cup {channel},
                     next |-> next,
                     approval |-> IF decision = None THEN old.approval ELSE decision]
               ELSE saved[u]]
     /\ written' = Append(Without(written, t), t)
     /\ evicted' = evicted \cup (ToSet(retained) \ ToSet(kept))

-----------------------------------------------------------------------------
(* POST /investigations: run_investigation on a thread of its own.         *)

\* The input checkpoint: case_id and the other inputs, channels at their start.
Open(w) ==
  /\ job[w] = Idle
  /\ \E t \in Threads \ used :
       /\ used' = used \cup {t}
       /\ PutCheckpoint(t, "input", "running", None)
       /\ job' = [job EXCEPT ![w].doing = "investigating", ![w].thread = t]
  /\ UNCHANGED <<asked, acknowledged, answer, contested>>

\* A supervisor or specialist superstep.
Gather(w) ==
  /\ job[w].doing = "investigating"
  /\ PutCheckpoint(job[w].thread, "evidence", "running", None)
  /\ UNCHANGED <<job, used, asked, acknowledged, answer, contested>>

\* The request is over and its caller has the answer.
Reply(w, code) ==
  /\ job' = [job EXCEPT ![w] = Idle]
  /\ answer' = [answer EXCEPT ![job[w].thread] = code]

\* report_node, with a verdict that needs nobody.
Conclude(w) ==
  /\ job[w].doing = "investigating"
  /\ PutCheckpoint(job[w].thread, "report", "done", None)
  /\ job' = [job EXCEPT ![w].doing = "concluding"]
  /\ UNCHANGED <<used, asked, acknowledged, answer, contested>>

\* LangGraph finds nothing left to run, invoke returns, the caller gets 200.
Return(w) ==
  /\ job[w].doing = "concluding"
  /\ Reply(w, "200")
  /\ UNCHANGED <<saved, retained, used, written, evicted, asked, acknowledged, contested>>

\* report_node, with a verdict for the gate: the interrupt comes one step later.
ConcludeHigh(w) ==
  /\ job[w].doing = "investigating"
  /\ PutCheckpoint(job[w].thread, "report", "human_approval", None)
  /\ job' = [job EXCEPT ![w].doing = "pausing"]
  /\ UNCHANGED <<used, asked, acknowledged, answer, contested>>

BugInterruptNotSaved(w) ==
  /\ job[w].doing = "pausing"
  /\ Reply(w, "202")
  /\ UNCHANGED <<saved, retained, used, written, evicted, asked, acknowledged, contested>>

\* The interrupt is saved with put_writes, which neither refreshes a thread nor
\* brings back one that is gone.  The caller gets 202 with the thread id.
Pause(w) ==
  LET t == job[w].thread IN
    /\ job[w].doing = "pausing"
    /\ saved' = IF saved[t] = Absent THEN saved ELSE [saved EXCEPT ![t].next = "paused"]
    /\ Reply(w, "202")
    /\ UNCHANGED <<retained, used, written, evicted, asked, acknowledged, contested>>

\* The caller gets 500, and the thread stays as the last checkpoint has it.
Raise(w) ==
  /\ Reply(w, "500")
  /\ UNCHANGED <<saved, retained, used, written, evicted, asked, acknowledged, contested>>

\* A node raises, for a provider error or for a fallback report that does not fit
\* its schema: the exception leaves graph.invoke and nothing here catches it.
Fail(w) == job[w].doing = "investigating" /\ Raise(w)

\* GraphRecursionError leaves graph.invoke: between any two supersteps, also after
\* the one of the report, before the interrupt or before LangGraph has seen that
\* nothing is left to run.
OutOfSteps(w) ==
  /\ ~LimitCoversBudget
  /\ job[w].doing \in {"investigating", "concluding", "pausing"}
  /\ Raise(w)

-----------------------------------------------------------------------------
(* POST /investigations/{thread_id}/approval: resume_investigation.        *)

BugNoAuthentication(caller) == TRUE

\* authenticate and require_approver.
MayApprove(caller) == AuthEnabled => caller \in CanApprove

BugBodyNamesTheApprover(caller, claimed) == claimed

\* _resolve_approver: an authenticated caller's own name always wins.
ResolveApprover(caller, claimed) == IF AuthEnabled THEN caller ELSE claimed

BugAnyStoredCase(t) == saved[t].next # "none"

BugDecidedCasesToo(t) == saved[t].next \in {"paused", "done"}

\* _pending_from_snapshot: is there an interrupt to answer?
AwaitsAuthorisation(t) == saved[t].next = "paused"

Deciding(t) == {w \in Workers : job[w].doing \in {"checked", "resuming"}
                                /\ job[w].thread = t}

\* get_state and the 404/409 answers: the request goes on only if it sees the
\* case waiting.  (A refused request changes nothing and is left out.)
Check(w, t) ==
  /\ job[w] = Idle
  /\ t \in used
  /\ AwaitsAuthorisation(t)
  /\ \E caller \in Principals \cup {None}, claimed \in Principals, approved \in BOOLEAN :
       LET decision == [approved |-> approved,
                        approver |-> ResolveApprover(caller, claimed)]
       IN /\ MayApprove(caller)
          /\ job' = [job EXCEPT ![w] = [doing |-> "checked", thread |-> t,
                                        decision |-> decision]]
          /\ asked' = asked \cup {[thread |-> t, by |-> caller, decision |-> decision]}
  /\ contested' = IF Deciding(t) = {} THEN contested ELSE contested \cup {t}
  /\ UNCHANGED <<saved, retained, used, written, evicted, acknowledged, answer>>

\* graph.invoke(Command(resume=...)) reads the checkpoint again, by itself.
\* The case is still waiting: human_approval_node runs with this decision.
Load(w) ==
  /\ job[w].doing = "checked"
  /\ AwaitsAuthorisation(job[w].thread)
  /\ job' = [job EXCEPT ![w].doing = "resuming"]
  /\ UNCHANGED <<saved, retained, seen>>

\* The case was finished meanwhile: there is nothing to run, invoke returns the
\* state as it is and the reviewer gets 200 OK.
LoadFinished(w) ==
  /\ job[w].doing = "checked"
  /\ saved[job[w].thread].next = "done"
  /\ acknowledged' = acknowledged \cup
       {[thread |-> job[w].thread, decision |-> job[w].decision]}
  /\ job' = [job EXCEPT ![w] = Idle]
  /\ UNCHANGED <<saved, retained, used, written, evicted, asked, answer, contested>>

\* The case was evicted meanwhile: there is nothing to resume and the request
\* fails.  (What langgraph then leaves on the empty thread is not modelled.)
LoadMissing(w) ==
  /\ job[w].doing = "checked"
  /\ saved[job[w].thread] = Absent
  /\ job' = [job EXCEPT ![w] = Idle]
  /\ UNCHANGED <<saved, retained, seen>>

\* human_approval_node returns, its checkpoint is put, the reviewer gets 200 OK.
Record(w) ==
  /\ job[w].doing = "resuming"
  /\ PutCheckpoint(job[w].thread, "approval", "done", job[w].decision)
  /\ acknowledged' = acknowledged \cup
       {[thread |-> job[w].thread, decision |-> job[w].decision]}
  /\ job' = [job EXCEPT ![w] = Idle]
  /\ UNCHANGED <<used, asked, answer, contested>>

\* The process dies and starts again: the saver is in memory, uuids stay unique.
Restart ==
  /\ saved' = [t \in Threads |-> Absent]
  /\ retained' = <<>> /\ written' = <<>>
  /\ job' = [w \in Workers |-> Idle]
  /\ evicted' = evicted \cup ToSet(retained)
  /\ UNCHANGED <<used, asked, acknowledged, answer, contested>>

Next ==
  \/ \E w \in Workers :
       \/ Open(w) \/ Gather(w)
       \/ Conclude(w) \/ Return(w) \/ ConcludeHigh(w) \/ Pause(w)
       \/ Fail(w) \/ OutOfSteps(w)
       \/ \E t \in Threads : Check(w, t)
       \/ Load(w) \/ LoadFinished(w) \/ LoadMissing(w) \/ Record(w)
  \/ Restart

Spec == Init /\ [][Next]_vars

-----------------------------------------------------------------------------
(* What callers may rely on.                                               *)

\* The saver keeps exactly the MAX_RETAINED_INVESTIGATIONS most recently written
\* threads, whatever the interleaving of the requests that write them, and its
\* list names exactly the threads that can still be read.
KeepsMostRecentlyWritten ==
  /\ retained = Newest(written)
  /\ ToSet(retained) = {t \in Threads : saved[t] # Absent}
  /\ Cardinality(ToSet(retained)) <= MaxThreads

\* "A reviewer must never be told their decision was recorded when it was not"
\* (app/api.py, approve_investigation): what was answered with 200 OK is what
\* the case holds for as long as the saver holds the case.
EveryAcknowledgedIsRecorded ==
  \A a \in acknowledged :
    a.thread \notin evicted => saved[a.thread].approval = a.decision

\* The same where reviewers take turns on a case, whatever happens between the
\* turns and on other cases: a decision once answered with 200 OK is on the
\* case, and no later request replaces it.
AcknowledgedIsRecorded ==
  \A a \in acknowledged :
    a.thread \notin evicted \cup contested => saved[a.thread].approval = a.decision

\* A recorded decision is one that some caller sent for this very case, and with
\* authentication on the name on it is that caller's and an approver's.
DecisionsAreAttributable ==
  \A t \in Threads : saved[t].approval # None =>
    \E a \in asked :
      /\ a.thread = t /\ a.decision = saved[t].approval
      /\ AuthEnabled => a.by \in CanApprove /\ a.by = a.decision.approver

\* While the saver has held on to a thread from its start, the file is whole: a
\* report or a decision never stands there without what it was drawn from.
FilesAreWhole ==
  \A t \in ToSet(retained) \ evicted :
    /\ "input" \in saved[t].channels
    /\ saved[t].approval # None => /\ {"report", "approval"} \subseteq saved[t].channels
                                   /\ saved[t].next = "done"

\* The answer a caller got tells what the service holds of its case, once no
\* request works on the case any more: it waits for a reviewer or was decided by
\* one iff the caller was told 202 ("ends in 202 Accepted with a thread_id",
\* app/api.py), a caller told 200 has a finished case, and of a case stuck in the
\* middle, which nobody can resume, the caller saw a 500.  That a finished case
\* was answered 500, or stands before the gate without its interrupt, is for a
\* recursion limit below what the step budget takes.
AnswersTellWhatIsHeld ==
  \A t \in ToSet(retained) \ evicted :
    (\A w \in Workers : job[w].thread # t) =>
      LET finished == saved[t].next = "done" /\ saved[t].approval = None IN
        /\ answer[t] = "202" <=> \/ saved[t].next = "paused"
                                 \/ saved[t].approval # None
        /\ answer[t] = "200" => finished
        /\ saved[t].next \in {"running", "human_approval"} => answer[t] = "500"
        /\ LimitCoversBudget => /\ finished => answer[t] = "200"
                                /\ saved[t].next # "human_approval"

\* "it can no longer be read or resumed" (checkpointer.py, on every eviction).
EvictedStaysGone == \A t \in evicted : saved[t] = Absent
=============================================================================
