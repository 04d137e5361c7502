---------------------------- MODULE ServiceProofs ----------------------------
(***************************************************************************)
(* Proofs about Service, for any number of workers, threads and principals, *)
(* any retention bound, and with authentication on or off.                  *)
(***************************************************************************)
EXTENDS Service, RetentionProofs

\* What a put does, whatever the order of the list: it holds the thread, drops
\* others at most, and leaves what it does not drop.
PutEffect(t, channel, next, decision) ==
  /\ retained' \in Seq(Threads)
  /\ written' \in Seq(Threads)
  /\ t \in ToSet(retained')
  /\ ToSet(retained') \subseteq ToSet(retained) \cup {t}
  /\ saved' = [u \in Threads |->
       IF u \notin ToSet(retained') THEN Absent
       ELSE IF u = t
            THEN [channels |-> saved[t].channels \cup {channel},
                  next |-> next,
                  approval |-> IF decision = None THEN saved[t].approval ELSE decision]
            ELSE saved[u]]
  /\ evicted' = evicted \cup (ToSet(retained) \ ToSet(retained'))

LEMMA PutHasEffect ==
  ASSUME retained \in Seq(Threads), written \in Seq(Threads),
         NEW t \in Threads, NEW channel, NEW next, NEW decision,
         PutCheckpoint(t, channel, next, decision)
  PROVE  PutEffect(t, channel, next, decision)
<1>1. Without(retained, t) \in Seq(Threads) /\ ToSet(Without(retained, t)) \subseteq ToSet(retained)
  BY WithoutKeepsOthers
<1>2. /\ Touched(retained, t) \in Seq(Threads)
      /\ ToSet(Touched(retained, t)) \subseteq ToSet(retained) \cup {t}
  BY <1>1, AppendLists DEF Touched
<1>3. /\ Newest(Touched(retained, t)) \in Seq(Threads)
      /\ ToSet(Newest(Touched(retained, t))) \subseteq ToSet(retained) \cup {t}
  BY <1>2, NewestLists
<1>4. t \in ToSet(Newest(Touched(retained, t)))
  BY <1>1, NewestHasLast DEF Touched
<1>5. written' \in Seq(Threads)
  <2>1. Without(written, t) \in Seq(Threads)
    BY WithoutKeepsOthers
  <2>2. QED
    BY <2>1, AppendLists DEF PutCheckpoint
<1>6. QED
  BY <1>3, <1>4, <1>5 DEF PutCheckpoint, PutEffect

-----------------------------------------------------------------------------
(* The invariant.                                                          *)

Gathering(w) == job[w].doing \in {"investigating", "concluding", "pausing"}
Decides(w) == job[w].doing \in {"checked", "resuming"}

Typed == TypeOK /\ ToSet(retained) \subseteq used

\* Someone who may approve, or anyone without authentication, asked for this.
Warranted(t, decision) ==
  \E a \in asked : /\ a.thread = t /\ a.decision = decision
                   /\ AuthEnabled => a.by \in CanApprove /\ a.by = a.decision.approver

\* A worker at work has a thread id some caller was given, and a reviewer's
\* request a decision.
Jobs ==
  \A w \in Workers :
    /\ job[w].doing # "nothing" => job[w].thread \in used
    /\ Decides(w) => /\ job[w].decision \in Decision
                     /\ Warranted(job[w].thread, job[w].decision)

\* The list names what is stored; what is gone was evicted.
Held ==
  /\ \A t \in Threads : /\ t \in ToSet(retained) <=> saved[t] # Absent
                        /\ t \in ToSet(retained) <=> saved[t].next # "none"
  /\ used \subseteq ToSet(retained) \cup evicted

\* What the file of a case says is next, for all its investigator has done so far.
StageOf(doing) == IF doing = "pausing" THEN "human_approval"
                  ELSE IF doing = "concluding" THEN "done" ELSE "running"

\* A case is investigated by one request, and nobody else works on it meanwhile.
Own ==
  \A w \in Workers : Gathering(w) =>
    /\ \A v \in Workers \ {w} :
         job[v].doing # "nothing" => job[v].thread # job[w].thread
    /\ saved[job[w].thread].approval = None
    /\ saved[job[w].thread].next \in {"none", StageOf(job[w].doing)}

\* The file of a case that was never dropped tells how far it has come, and so
\* does what its caller was told.
WholeCase(t) ==
  /\ "input" \in saved[t].channels
  /\ saved[t].next \in {"human_approval", "paused", "done"} => "report" \in saved[t].channels
  /\ saved[t].approval # None => saved[t].next = "done" /\ "approval" \in saved[t].channels
  /\ saved[t].next = "running" =>
       \/ answer[t] = "500"
       \/ \E w \in Workers : job[w].doing = "investigating" /\ job[w].thread = t
  /\ saved[t].next = "human_approval" =>
       \/ answer[t] = "500" /\ ~LimitCoversBudget
       \/ \E w \in Workers : job[w].doing = "pausing" /\ job[w].thread = t
  /\ saved[t].next = "paused" => answer[t] = "202"
  /\ saved[t].next = "done" /\ saved[t].approval # None => answer[t] = "202"
  /\ saved[t].next = "done" /\ saved[t].approval = None =>
       \/ answer[t] = "200"
       \/ answer[t] = "500" /\ ~LimitCoversBudget
       \/ \E w \in Workers : job[w].doing = "concluding" /\ job[w].thread = t

Whole == \A t \in ToSet(retained) \ evicted : WholeCase(t)

\* The case a reviewer's request works on waits for that reviewer, unless two of
\* them overlapped: then another's decision may have been recorded before.
TurnOf(w) ==
  LET t == job[w].thread IN
    /\ t \notin evicted => \/ saved[t].next = "paused"
                           \/ saved[t].next = "done" /\ saved[t].approval # None
    /\ t \notin evicted \cup contested => saved[t].next = "paused"
    /\ \A v \in Workers : Decides(v) /\ job[v].thread = t /\ v # w => t \in contested

Turns == \A w \in Workers : Decides(w) => TurnOf(w)

Acknowledged ==
  /\ AcknowledgedIsRecorded
  /\ \A a \in acknowledged : a.thread \in used /\ a.decision \in Decision

SInv == Typed /\ Jobs /\ Held /\ Own /\ Whole /\ Turns /\ DecisionsAreAttributable
          /\ Acknowledged

-----------------------------------------------------------------------------
(* Types.                                                                  *)

LEMMA CheckpointTypes ==
  ASSUME NEW t \in Threads, NEW channel \in Channels,
         NEW next \in {"running", "human_approval", "done"},
         NEW decision \in Decision \cup {None}, saved \in [Threads -> Checkpoint],
         PutEffect(t, channel, next, decision)
  PROVE  saved' \in [Threads -> Checkpoint]
<1>1. Absent \in Checkpoint
  BY DEF Absent, Checkpoint
<1>2. saved[t].channels \in SUBSET Channels /\ saved[t].approval \in Decision \cup {None}
  BY DEF Checkpoint
<1>3. [channels |-> saved[t].channels \cup {channel}, next |-> next,
       approval |-> IF decision = None THEN saved[t].approval ELSE decision] \in Checkpoint
  BY <1>2 DEF Checkpoint
<1>4. QED
  BY <1>1, <1>3 DEF PutEffect

\* The puts, each with what it puts and what else its action changes.
LEMMA OpenPuts ==
  ASSUME Typed, NEW w \in Workers, Open(w)
  PROVE  \E t \in Threads \ used :
           /\ PutEffect(t, "input", "running", None)
           /\ used' = used \cup {t}
           /\ job' = [job EXCEPT ![w].doing = "investigating", ![w].thread = t]
  BY PutHasEffect DEF Open, Typed, TypeOK

LEMMA GatherPuts ==
  ASSUME Typed, Jobs, NEW w \in Workers, Gather(w)
  PROVE  /\ job[w].thread \in used
         /\ PutEffect(job[w].thread, "evidence", "running", None)
<1>1. job[w].thread \in used /\ job[w].thread \in Threads
  BY DEF Gather, Jobs, Typed, TypeOK
<1>2. QED
  BY <1>1, PutHasEffect DEF Gather, Typed, TypeOK

LEMMA ConcludePuts ==
  ASSUME Typed, Jobs, NEW w \in Workers, Conclude(w)
  PROVE  /\ job[w].thread \in used
         /\ PutEffect(job[w].thread, "report", "done", None)
<1>1. job[w].thread \in used /\ job[w].thread \in Threads
  BY DEF Conclude, Jobs, Typed, TypeOK
<1>2. QED
  BY <1>1, PutHasEffect DEF Conclude, Typed, TypeOK

LEMMA ConcludeHighPuts ==
  ASSUME Typed, Jobs, NEW w \in Workers, ConcludeHigh(w)
  PROVE  /\ job[w].thread \in used
         /\ PutEffect(job[w].thread, "report", "human_approval", None)
<1>1. job[w].thread \in used /\ job[w].thread \in Threads
  BY DEF ConcludeHigh, Jobs, Typed, TypeOK
<1>2. QED
  BY <1>1, PutHasEffect DEF ConcludeHigh, Typed, TypeOK

LEMMA RecordPuts ==
  ASSUME Typed, Jobs, NEW w \in Workers, Record(w)
  PROVE  /\ job[w].thread \in used
         /\ job[w].decision \in Decision /\ job[w].decision # None
         /\ PutEffect(job[w].thread, "approval", "done", job[w].decision)
<1>1. job[w].thread \in used /\ job[w].thread \in Threads /\ job[w].decision \in Decision
  BY DEF Record, Jobs, Decides, Typed, TypeOK
<1>2. job[w].decision # None
  BY <1>1, NoDecisionAssumption DEF Decision
<1>3. QED
  BY <1>1, <1>2, PutHasEffect DEF Record, Typed, TypeOK

\* Whatever is put, only a thread in use is listed or evicted.
LEMMA PutTypes ==
  ASSUME Typed, NEW t \in Threads, NEW channel \in Channels,
         NEW next \in {"running", "human_approval", "done"},
         NEW decision \in Decision \cup {None},
         PutEffect(t, channel, next, decision), t \in used', used \subseteq used'
  PROVE  /\ saved' \in [Threads -> Checkpoint]
         /\ retained' \in Seq(Threads) /\ written' \in Seq(Threads)
         /\ ToSet(retained') \subseteq used' /\ evicted' \subseteq used'
<1>1. saved' \in [Threads -> Checkpoint]
  BY CheckpointTypes DEF Typed, TypeOK
<1>2. QED
  BY <1>1 DEF PutEffect, Typed, TypeOK

LEMMA IdleIsJob == Idle \in Job /\ Idle.doing = "nothing" /\ Idle.thread = None
  BY DEF Idle, Job

LEMMA StepTyped == ASSUME Typed, Jobs, [Next]_vars PROVE Typed'
<1>1. CASE UNCHANGED vars
  BY <1>1 DEF vars, seen, Typed, TypeOK
<1>2. ASSUME NEW w \in Workers, Open(w)  PROVE Typed'
  <2>1. PICK t \in Threads \ used :
          /\ PutEffect(t, "input", "running", None)
          /\ used' = used \cup {t}
          /\ job' = [job EXCEPT ![w].doing = "investigating", ![w].thread = t]
    BY <1>2, OpenPuts
  <2>2. job' \in [Workers -> Job]
    <3>1. job \in [Workers -> Job] /\ job[w] \in Job /\ t \in Threads
      BY <2>1 DEF Typed, TypeOK
    <3>2. [job[w] EXCEPT !.doing = "investigating", !.thread = t] \in Job
      BY <3>1 DEF Job
    <3>3. job' = [job EXCEPT ![w] =
                    [job[w] EXCEPT !.doing = "investigating", !.thread = t]]
      BY <2>1, <3>1 DEF Job
    <3>4. QED
      BY <3>1, <3>2, <3>3
  <2>3. used \subseteq used' /\ used' \subseteq Threads /\ t \in used' /\ t \in Threads
    BY <2>1 DEF Typed, TypeOK
  <2>4. /\ saved' \in [Threads -> Checkpoint]
        /\ retained' \in Seq(Threads) /\ written' \in Seq(Threads)
        /\ ToSet(retained') \subseteq used' /\ evicted' \subseteq used'
    BY <2>1, <2>3, PutTypes DEF Channels
  <2>5. /\ asked' = asked /\ acknowledged' = acknowledged
        /\ answer' = answer /\ contested' = contested
    BY <1>2 DEF Open
  <2>6. QED
    BY <2>2, <2>3, <2>4, <2>5 DEF Typed, TypeOK
<1>3. ASSUME NEW w \in Workers, Gather(w)  PROVE Typed'
  BY <1>3, GatherPuts, PutTypes DEF Gather, Channels, Typed, TypeOK
<1>4. ASSUME NEW w \in Workers, Conclude(w)  PROVE Typed'
  <2>1. job' \in [Workers -> Job]
    BY <1>4 DEF Conclude, Typed, TypeOK, Job
  <2>2. QED
    BY <1>4, <2>1, ConcludePuts, PutTypes DEF Conclude, Channels, Typed, TypeOK
<1>5. ASSUME NEW w \in Workers, ConcludeHigh(w)  PROVE Typed'
  <2>1. job' \in [Workers -> Job]
    BY <1>5 DEF ConcludeHigh, Typed, TypeOK, Job
  <2>2. QED
    BY <1>5, <2>1, ConcludeHighPuts, PutTypes DEF ConcludeHigh, Channels, Typed, TypeOK
<1>6. ASSUME NEW w \in Workers, Pause(w)  PROVE Typed'
  <2>1. saved' \in [Threads -> Checkpoint]
    <3>1. saved \in [Threads -> Checkpoint]
      BY DEF Typed, TypeOK
    <3>2. PICK t : saved' = IF saved[t] = Absent THEN saved
                            ELSE [saved EXCEPT ![t].next = "paused"]
      BY <1>6 DEF Pause
    <3>3. [saved EXCEPT ![t].next = "paused"] \in [Threads -> Checkpoint]
      BY <3>1 DEF Checkpoint
    <3>4. QED
      BY <3>1, <3>2, <3>3
  <2>2. QED
    BY <1>6, <2>1, IdleIsJob DEF Pause, Reply, Typed, TypeOK
<1>7. ASSUME NEW w \in Workers, Return(w) \/ Fail(w) \/ OutOfSteps(w)  PROVE Typed'
  BY <1>7, IdleIsJob DEF Return, Fail, OutOfSteps, Raise, Reply, Typed, TypeOK
<1>8. ASSUME NEW w \in Workers, NEW t \in Threads, Check(w, t)  PROVE Typed'
  <2>1. PICK caller \in Principals \cup {None}, claimed \in Principals, approved \in BOOLEAN :
          LET decision == [approved |-> approved,
                           approver |-> ResolveApprover(caller, claimed)]
          IN /\ MayApprove(caller)
             /\ job' = [job EXCEPT ![w] = [doing |-> "checked", thread |-> t,
                                           decision |-> decision]]
             /\ asked' = asked \cup {[thread |-> t, by |-> caller, decision |-> decision]}
    BY <1>8 DEF Check
  <2>2. ResolveApprover(caller, claimed) \in Principals
    BY <2>1, PrincipalsAssumption DEF MayApprove, ResolveApprover
  <2>3. job' \in [Workers -> Job]
    BY <2>1, <2>2 DEF Typed, TypeOK, Job, Decision
  <2>4. asked' \subseteq [thread : Threads, by : Principals \cup {None}, decision : Decision]
    BY <2>1, <2>2 DEF Typed, TypeOK, Decision
  <2>5. QED
    BY <1>8, <2>3, <2>4 DEF Check, Typed, TypeOK
<1>9. ASSUME NEW w \in Workers, Load(w) \/ LoadFinished(w) \/ LoadMissing(w)
      PROVE  Typed'
  <2>1. job' \in [Workers -> Job]
    <3>1. CASE Load(w)
      BY <3>1 DEF Load, Typed, TypeOK, Job
    <3>2. CASE LoadFinished(w) \/ LoadMissing(w)
      BY <3>2, IdleIsJob DEF LoadFinished, LoadMissing, Typed, TypeOK
    <3>3. QED
      BY <1>9, <3>1, <3>2
  <2>2. acknowledged' \subseteq [thread : Threads, decision : Decision]
    <3>1. Decides(w) => job[w].thread \in Threads /\ job[w].decision \in Decision
      BY DEF Jobs, Decides, Typed, TypeOK
    <3>2. QED
      BY <1>9, <3>1 DEF Load, LoadFinished, LoadMissing, Decides, seen, Typed, TypeOK
  <2>3. QED
    BY <1>9, <2>1, <2>2 DEF Load, LoadFinished, LoadMissing, seen, Typed, TypeOK
<1>10. ASSUME NEW w \in Workers, Record(w)  PROVE Typed'
  <2>1. job[w].thread \in Threads /\ job[w].decision \in Decision
    BY <1>10, RecordPuts DEF Typed, TypeOK
  <2>2. acknowledged' \subseteq [thread : Threads, decision : Decision]
    BY <1>10, <2>1 DEF Record, Typed, TypeOK
  <2>3. QED
    BY <1>10, <2>1, <2>2, RecordPuts, PutTypes, IdleIsJob
       DEF Record, Channels, Typed, TypeOK
<1>11. CASE Restart
  <2>1. saved' \in [Threads -> Checkpoint]
    BY <1>11 DEF Restart, Checkpoint, Absent
  <2>2. ToSet(retained') = {}
    BY <1>11 DEF Restart, ToSet
  <2>3. QED
    BY <1>11, <2>1, <2>2, IdleIsJob DEF Restart, Typed, TypeOK
<1>12. QED
  BY <1>1, <1>2, <1>3, <1>4, <1>5, <1>6, <1>7, <1>8, <1>9, <1>10, <1>11 DEF Next

-----------------------------------------------------------------------------
(* The workers' jobs.                                                      *)

LEMMA StepJobs == ASSUME Typed, Typed', Jobs, [Next]_vars PROVE Jobs'
<1> USE DEF Jobs, Decides, Warranted
<1>1. CASE UNCHANGED vars
  BY <1>1 DEF vars, seen
<1>2. ASSUME NEW w \in Workers, Open(w)  PROVE Jobs'
  <2>1. PICK t \in Threads \ used :
          /\ used' = used \cup {t}
          /\ job' = [job EXCEPT ![w].doing = "investigating", ![w].thread = t]
    BY <1>2, OpenPuts
  <2>2. /\ job'[w].doing = "investigating" /\ job'[w].thread = t
        /\ \A v \in Workers \ {w} : job'[v] = job[v]
    BY <2>1 DEF Typed, TypeOK, Job
  <2>3. asked' = asked /\ used \subseteq used' /\ t \in used'
    BY <1>2, <2>1 DEF Open
  <2> SUFFICES ASSUME NEW v \in Workers
               PROVE  /\ job'[v].doing # "nothing" => job'[v].thread \in used'
                      /\ Decides(v)' => /\ job'[v].decision \in Decision
                                        /\ Warranted(job[v].thread, job[v].decision)'
    OBVIOUS
  <2>4. CASE v = w
    BY <2>2, <2>3, <2>4
  <2>5. CASE v # w
    BY <2>2, <2>3, <2>5
  <2>6. QED
    BY <2>4, <2>5
<1>3. ASSUME NEW w \in Workers, Gather(w)  PROVE Jobs'
  BY <1>3 DEF Gather
<1>4. ASSUME NEW w \in Workers, job' = [job EXCEPT ![w] = Idle], used' = used, asked' = asked
      PROVE  Jobs'
  BY <1>4, IdleIsJob DEF Typed, TypeOK
<1>5. ASSUME NEW w \in Workers, Conclude(w) \/ ConcludeHigh(w)  PROVE Jobs'
  <2>1. /\ job'[w].doing \in {"concluding", "pausing"} /\ job'[w].thread = job[w].thread
        /\ \A v \in Workers \ {w} : job'[v] = job[v]
    BY <1>5 DEF Conclude, ConcludeHigh, Typed, TypeOK, Job
  <2>2. QED
    BY <1>5, <2>1 DEF Conclude, ConcludeHigh
<1>6. ASSUME NEW w \in Workers, NEW t \in Threads, Check(w, t)  PROVE Jobs'
  <2>1. PICK caller \in Principals \cup {None}, claimed \in Principals, approved \in BOOLEAN :
          LET decision == [approved |-> approved,
                           approver |-> ResolveApprover(caller, claimed)]
          IN /\ MayApprove(caller)
             /\ job' = [job EXCEPT ![w] = [doing |-> "checked", thread |-> t,
                                           decision |-> decision]]
             /\ asked' = asked \cup {[thread |-> t, by |-> caller, decision |-> decision]}
    BY <1>6 DEF Check
  <2> DEFINE decision == [approved |-> approved,
                          approver |-> ResolveApprover(caller, claimed)]
             a == [thread |-> t, by |-> caller, decision |-> decision]
  <2>2. ResolveApprover(caller, claimed) \in Principals
    BY <2>1, PrincipalsAssumption DEF MayApprove, ResolveApprover
  <2>3. decision \in Decision
    BY <2>2 DEF Decision
  <2>4. AuthEnabled => a.by \in CanApprove /\ a.by = a.decision.approver
    BY <2>1 DEF MayApprove, ResolveApprover
  <2>5. a \in asked' /\ a.thread = t /\ a.decision = decision /\ asked \subseteq asked'
    BY <2>1
  <2>6. /\ job'[w].doing = "checked" /\ job'[w].thread = t /\ job'[w].decision = decision
        /\ \A v \in Workers \ {w} : job'[v] = job[v]
    BY <2>1 DEF Typed, TypeOK
  <2> HIDE DEF a, decision
  <2>7. t \in used /\ used' = used
    BY <1>6 DEF Check
  <2>8. QED
    BY <2>3, <2>4, <2>5, <2>6, <2>7
<1>7. ASSUME NEW w \in Workers, Load(w)  PROVE Jobs'
  <2>1. /\ job[w].doing = "checked" /\ job'[w] = [job[w] EXCEPT !.doing = "resuming"]
        /\ \A v \in Workers \ {w} : job'[v] = job[v]
    BY <1>7 DEF Load, Typed, TypeOK
  <2>2. job'[w].thread = job[w].thread /\ job'[w].decision = job[w].decision
    BY <2>1 DEF Typed, TypeOK, Job
  <2>3. QED
    BY <1>7, <2>1, <2>2 DEF Load, seen
<1>8. CASE Restart
  BY <1>8, IdleIsJob DEF Restart
<1>9. QED
  BY <1>1, <1>2, <1>3, <1>4, <1>5, <1>6, <1>7, <1>8
     DEF Next, Return, Pause, Fail, OutOfSteps, Raise, Reply, LoadFinished, LoadMissing,
         Record, seen

-----------------------------------------------------------------------------
(* What is held.                                                           *)

LEMMA AbsentIsNone == Absent.next = "none" /\ Absent.approval = None
  BY DEF Absent

LEMMA PutHeld ==
  ASSUME Typed, Held, NEW t \in Threads, NEW channel, NEW decision,
         NEW next \in {"running", "human_approval", "done"},
         PutEffect(t, channel, next, decision), used' \subseteq used \cup {t}
  PROVE  Held'
<1>1. saved'[t].next = next /\ saved'[t] # Absent /\ t \in ToSet(retained')
  BY AbsentIsNone DEF PutEffect
<1>2. ASSUME NEW u \in Threads \ {t}, u \in ToSet(retained')
      PROVE  saved'[u] # Absent /\ saved'[u].next # "none"
  BY <1>2 DEF PutEffect, Held
<1>3. ASSUME NEW u \in Threads, u \notin ToSet(retained')
      PROVE  saved'[u] = Absent /\ saved'[u].next = "none"
  BY <1>3, AbsentIsNone DEF PutEffect
<1>4. used' \subseteq ToSet(retained') \cup evicted'
  BY DEF PutEffect, Held
<1>5. QED
  BY <1>1, <1>2, <1>3, <1>4 DEF Held

LEMMA StepHeld == ASSUME Typed, Jobs, Held, [Next]_vars PROVE Held'
<1>1. CASE saved' = saved /\ retained' = retained /\ used' = used /\ evicted' = evicted
  BY <1>1 DEF Held
<1>2. ASSUME NEW w \in Workers, Open(w)  PROVE Held'
  BY <1>2, OpenPuts, PutHeld
<1>3. ASSUME NEW w \in Workers, Gather(w)  PROVE Held'
  BY <1>3, GatherPuts, PutHeld DEF Gather, Typed, TypeOK
<1>4. ASSUME NEW w \in Workers, Conclude(w)  PROVE Held'
  BY <1>4, ConcludePuts, PutHeld DEF Conclude, Typed, TypeOK
<1>5. ASSUME NEW w \in Workers, ConcludeHigh(w)  PROVE Held'
  BY <1>5, ConcludeHighPuts, PutHeld DEF ConcludeHigh, Typed, TypeOK
<1>6. ASSUME NEW w \in Workers, Record(w)  PROVE Held'
  BY <1>6, RecordPuts, PutHeld DEF Record, Typed, TypeOK
<1>7. ASSUME NEW w \in Workers, Pause(w)  PROVE Held'
  <2>1. ASSUME NEW t \in Threads
        PROVE  /\ saved'[t] = Absent <=> saved[t] = Absent
               /\ saved'[t].next = "none" <=> saved[t].next = "none"
    <3> DEFINE u == job[w].thread
    <3>1. CASE saved[u] = Absent
      BY <1>7, <3>1 DEF Pause
    <3>2. CASE saved[u] # Absent
      <4>1. u \in Threads
        BY <1>7 DEF Pause, Jobs, Typed, TypeOK
      <4>2. saved' = [saved EXCEPT ![u].next = "paused"]
        BY <1>7, <3>2 DEF Pause
      <4>3. saved'[u].next = "paused" /\ \A v \in Threads \ {u} : saved'[v] = saved[v]
        BY <4>1, <4>2 DEF Typed, TypeOK, Checkpoint
      <4>4. saved[u].next # "none"
        BY <3>2, <4>1 DEF Held
      <4>5. QED
        BY <3>2, <4>3, <4>4, AbsentIsNone
    <3>3. QED
      BY <3>1, <3>2
  <2>2. QED
    BY <1>7, <2>1 DEF Pause, Held
<1>8. CASE Restart
  <2>1. ToSet(retained') = {}
    BY <1>8 DEF Restart, ToSet
  <2>2. QED
    BY <1>8, <2>1, AbsentIsNone DEF Restart, Held
<1>9. QED
  BY <1>1, <1>2, <1>3, <1>4, <1>5, <1>6, <1>7, <1>8
     DEF Next, Return, Fail, OutOfSteps, Raise, Check, Load, LoadFinished, LoadMissing,
         vars, seen

\* What a put leaves of the thread it is for, and of the others.
LEMMA PutLeaves ==
  ASSUME Typed, Held, NEW t \in Threads, NEW channel, NEW next, NEW decision,
         PutEffect(t, channel, next, decision)
  PROVE  /\ saved'[t].channels = saved[t].channels \cup {channel}
         /\ saved'[t].next = next
         /\ saved'[t].approval = IF decision = None THEN saved[t].approval ELSE decision
         /\ \A u \in Threads \ {t} : saved'[u] \in {saved[u], Absent}
         /\ \A u \in ToSet(retained') \ {t} : u \in ToSet(retained) /\ saved'[u] = saved[u]
         /\ \A u \in used \ (evicted' \cup {t}) : u \in ToSet(retained) /\ saved'[u] = saved[u]
         /\ evicted \subseteq evicted'
<1>1. saved'[t] = [channels |-> saved[t].channels \cup {channel}, next |-> next,
                   approval |-> IF decision = None THEN saved[t].approval ELSE decision]
  BY DEF PutEffect
<1>2. \A u \in Threads \ {t} : saved'[u] \in {saved[u], Absent}
  BY DEF PutEffect
<1>3. ASSUME NEW u \in ToSet(retained') \ {t}
      PROVE  u \in ToSet(retained) /\ saved'[u] = saved[u]
  <2>1. u \in Threads
    BY <1>3, Positions DEF PutEffect
  <2>2. QED
    BY <1>3, <2>1 DEF PutEffect
<1>4. ASSUME NEW u \in used \ (evicted' \cup {t})
      PROVE  u \in ToSet(retained) /\ saved'[u] = saved[u]
  <2>1. u \in ToSet(retained) /\ u \in ToSet(retained')
    BY DEF PutEffect, Held
  <2>2. QED
    BY <1>3, <2>1
<1>5. QED
  BY <1>1, <1>2, <1>3, <1>4 DEF PutEffect

-----------------------------------------------------------------------------
(* One investigator.                                                       *)

\* A put on a case is nothing to those who investigate other cases.
LEMMA OwnAfterPut ==
  ASSUME Typed, Held, Own, NEW t \in Threads, NEW channel, NEW next, NEW decision,
         PutEffect(t, channel, next, decision),
         NEW x \in Workers, Gathering(x), job[x].thread \in Threads \ {t}
  PROVE  /\ saved'[job[x].thread].approval = None
         /\ saved'[job[x].thread].next \in {"none", StageOf(job[x].doing)}
<1>1. saved'[job[x].thread] \in {saved[job[x].thread], Absent}
  BY PutLeaves
<1>2. QED
  BY <1>1, AbsentIsNone DEF Own

\* When the job of one worker is over, the others' are still their own.
LEMMA OwnAfterReply ==
  ASSUME Typed, Own, NEW w \in Workers, job' = [job EXCEPT ![w] = Idle],
         \A x \in Workers \ {w} : Gathering(x) =>
           /\ saved'[job[x].thread].approval = None
           /\ saved'[job[x].thread].next \in {"none", StageOf(job[x].doing)}
  PROVE  Own'
<1>1. job'[w] = Idle /\ \A v \in Workers \ {w} : job'[v] = job[v]
  BY DEF Typed, TypeOK
<1>2. QED
  BY <1>1, IdleIsJob DEF Own, Gathering

LEMMA StepOwn == ASSUME Typed, Jobs, Held, Own, [Next]_vars PROVE Own'
<1>0. \A x \in Workers : job[x].doing # "nothing" => job[x].thread \in Threads /\ job[x].thread \in used
  BY DEF Jobs, Typed, TypeOK
<1>1. CASE UNCHANGED vars
  BY <1>1 DEF vars, seen, Own, Gathering
<1>2. ASSUME NEW w \in Workers, Open(w)  PROVE Own'
  <2>1. PICK t \in Threads \ used :
          /\ PutEffect(t, "input", "running", None)
          /\ job' = [job EXCEPT ![w].doing = "investigating", ![w].thread = t]
    BY <1>2, OpenPuts
  <2>2. /\ job'[w].doing = "investigating" /\ job'[w].thread = t
        /\ \A v \in Workers \ {w} : job'[v] = job[v]
    BY <2>1 DEF Typed, TypeOK, Job
  <2>3. saved'[t].next = "running" /\ saved'[t].approval = None
    <3>1. saved[t].approval = None
      BY AbsentIsNone DEF Held, Typed
    <3>2. QED
      BY <2>1, <3>1, PutLeaves
  <2>4. ASSUME NEW x \in Workers \ {w}, Gathering(x)
        PROVE  /\ job[x].thread # t
               /\ saved'[job[x].thread].approval = None
               /\ saved'[job[x].thread].next \in {"none", StageOf(job[x].doing)}
    <3>1. job[x].thread \in Threads \ {t}
      BY <1>0, <2>4 DEF Gathering
    <3>2. QED
      BY <2>1, <2>4, <3>1, OwnAfterPut
  <2>5. \A v \in Workers \ {w} : job[v].doing # "nothing" => job[v].thread # t
    BY <1>0
  <2>6. QED
    BY <2>2, <2>3, <2>4, <2>5 DEF Own, Gathering, StageOf
<1>3. ASSUME NEW w \in Workers, Gather(w)  PROVE Own'
  <2>1. Gathering(w) /\ job' = job /\ job[w].doing = "investigating"
    BY <1>3 DEF Gather, Gathering
  <2>2. \A x \in Workers \ {w} : Gathering(x) => job[x].thread \in Threads \ {job[w].thread}
    BY <1>0, <2>1 DEF Own, Gathering
  <2>3. saved'[job[w].thread].next = "running" /\ saved'[job[w].thread].approval = None
    BY <1>0, <1>3, <2>1, GatherPuts, PutLeaves DEF Own
  <2>4. \A x \in Workers \ {w} : Gathering(x) =>
          /\ saved'[job[x].thread].approval = None
          /\ saved'[job[x].thread].next \in {"none", StageOf(job[x].doing)}
    BY <1>0, <1>3, <2>1, <2>2, GatherPuts, OwnAfterPut
  <2>5. QED
    BY <2>1, <2>3, <2>4 DEF Own, Gathering, StageOf
<1>4. ASSUME NEW w \in Workers, Conclude(w)  PROVE Own'
  <2>1. /\ job[w].doing = "investigating" /\ Gathering(w)
        /\ job'[w].doing = "concluding" /\ job'[w].thread = job[w].thread
        /\ \A v \in Workers \ {w} : job'[v] = job[v]
    BY <1>4 DEF Conclude, Gathering, Typed, TypeOK, Job
  <2>2. \A x \in Workers \ {w} : Gathering(x) => job[x].thread \in Threads \ {job[w].thread}
    BY <1>0, <2>1 DEF Own, Gathering
  <2>3. /\ saved'[job[w].thread].next = "done"
        /\ saved'[job[w].thread].approval = None
    BY <1>0, <1>4, <2>1, ConcludePuts, PutLeaves DEF Own
  <2>4. \A x \in Workers \ {w} : Gathering(x) =>
          /\ saved'[job[x].thread].approval = None
          /\ saved'[job[x].thread].next \in {"none", StageOf(job[x].doing)}
    BY <1>0, <1>4, <2>1, <2>2, ConcludePuts, OwnAfterPut
  <2>5. StageOf("concluding") = "done"
    BY DEF StageOf
  <2>6. QED
    BY <2>1, <2>3, <2>4, <2>5 DEF Own, Gathering
<1>5. ASSUME NEW w \in Workers, ConcludeHigh(w)  PROVE Own'
  <2>1. /\ job[w].doing = "investigating" /\ Gathering(w)
        /\ job'[w].doing = "pausing" /\ job'[w].thread = job[w].thread
        /\ \A v \in Workers \ {w} : job'[v] = job[v]
    BY <1>5 DEF ConcludeHigh, Gathering, Typed, TypeOK, Job
  <2>2. \A x \in Workers \ {w} : Gathering(x) => job[x].thread \in Threads \ {job[w].thread}
    BY <1>0, <2>1 DEF Own, Gathering
  <2>3. /\ saved'[job[w].thread].next = "human_approval"
        /\ saved'[job[w].thread].approval = None
    BY <1>0, <1>5, <2>1, ConcludeHighPuts, PutLeaves DEF Own
  <2>4. \A x \in Workers \ {w} : Gathering(x) =>
          /\ saved'[job[x].thread].approval = None
          /\ saved'[job[x].thread].next \in {"none", StageOf(job[x].doing)}
    BY <1>0, <1>5, <2>1, <2>2, ConcludeHighPuts, OwnAfterPut
  <2>5. StageOf("pausing") = "human_approval"
    BY DEF StageOf
  <2>6. QED
    BY <2>1, <2>3, <2>4, <2>5 DEF Own, Gathering
<1>6. ASSUME NEW w \in Workers, Pause(w)  PROVE Own'
  <2>1. Gathering(w) /\ job' = [job EXCEPT ![w] = Idle] /\ job[w].thread \in Threads
    BY <1>0, <1>6 DEF Pause, Reply, Gathering
  <2>2. \A x \in Workers \ {w} : Gathering(x) => job[x].thread \in Threads \ {job[w].thread}
    BY <1>0, <2>1 DEF Own, Gathering
  <2>3. \A u \in Threads \ {job[w].thread} : saved'[u] = saved[u]
    BY <1>6 DEF Pause, Typed, TypeOK
  <2>4. \A x \in Workers \ {w} : Gathering(x) =>
          /\ saved'[job[x].thread].approval = None
          /\ saved'[job[x].thread].next \in {"none", StageOf(job[x].doing)}
    BY <2>2, <2>3 DEF Own
  <2>5. QED
    BY <2>1, <2>4, OwnAfterReply
<1>7. ASSUME NEW w \in Workers,
             \/ Return(w) \/ Fail(w) \/ OutOfSteps(w)
             \/ LoadFinished(w) \/ LoadMissing(w)
      PROVE  Own'
  <2>1. job' = [job EXCEPT ![w] = Idle] /\ saved' = saved
    BY <1>7 DEF Return, Fail, OutOfSteps, Raise, Reply, LoadFinished, LoadMissing
  <2>2. QED
    BY <2>1, OwnAfterReply DEF Own
<1>8. ASSUME NEW w \in Workers, NEW t \in Threads, Check(w, t)  PROVE Own'
  <2>1. /\ saved' = saved /\ saved[t].next = "paused"
        /\ job'[w].doing = "checked" /\ job'[w].thread = t
        /\ \A v \in Workers \ {w} : job'[v] = job[v]
    BY <1>8 DEF Check, AwaitsAuthorisation, Typed, TypeOK
  <2>2. \A x \in Workers : Gathering(x) => job[x].thread # t
    BY <2>1 DEF Own, StageOf
  <2>3. QED
    BY <2>1, <2>2 DEF Own, Gathering
<1>9. ASSUME NEW w \in Workers, Load(w)  PROVE Own'
  <2>1. /\ saved' = saved /\ job[w].doing = "checked"
        /\ job'[w].doing = "resuming" /\ job'[w].thread = job[w].thread
        /\ \A v \in Workers \ {w} : job'[v] = job[v]
    BY <1>9 DEF Load, Typed, TypeOK, Job
  <2>2. QED
    BY <2>1 DEF Own, Gathering
<1>10. ASSUME NEW w \in Workers, Record(w)  PROVE Own'
  <2>1. job' = [job EXCEPT ![w] = Idle] /\ job[w].doing = "resuming"
    BY <1>10 DEF Record
  <2>2. \A x \in Workers \ {w} : Gathering(x) => job[x].thread \in Threads \ {job[w].thread}
    BY <1>0, <2>1 DEF Own, Gathering
  <2>3. QED
    BY <1>0, <1>10, <2>1, <2>2, RecordPuts, OwnAfterPut, OwnAfterReply
<1>11. CASE Restart
  BY <1>11, IdleIsJob DEF Restart, Own, Gathering
<1>12. QED
  BY <1>1, <1>2, <1>3, <1>4, <1>5, <1>6, <1>7, <1>8, <1>9, <1>10, <1>11 DEF Next

-----------------------------------------------------------------------------
(* What the files tell.                                                    *)

\* A case that a step neither writes nor answers is as whole as before, if the
\* step is not its investigator's.
LEMMA OtherCaseWhole ==
  ASSUME Whole, NEW w \in Workers, \A v \in Workers \ {w} : job'[v] = job[v],
         NEW u \in ToSet(retained) \ evicted,
         saved'[u] = saved[u], answer'[u] = answer[u],
         Gathering(w) => job[w].thread # u
  PROVE  WholeCase(u)'
<1>1. WholeCase(u)
  BY DEF Whole
<1>2. ASSUME NEW x \in Workers, Gathering(x), job[x].thread = u
      PROVE  job'[x] = job[x]
  BY <1>2
<1>3. QED
  BY <1>1, <1>2 DEF WholeCase, Gathering

\* The same, for all the cases but the one a put is for.
LEMMA PutOthersWhole ==
  ASSUME Typed, Held, Whole, NEW w \in Workers, \A v \in Workers \ {w} : job'[v] = job[v],
         NEW t \in Threads, NEW channel, NEW next, NEW decision,
         PutEffect(t, channel, next, decision),
         \A u \in Threads \ {t} : answer'[u] = answer[u],
         Gathering(w) => job[w].thread = t,
         t \notin evicted' => WholeCase(t)'
  PROVE  Whole'
<1>1. ASSUME NEW u \in ToSet(retained') \ evicted', u # t  PROVE WholeCase(u)'
  <2>1. u \in ToSet(retained) /\ saved'[u] = saved[u] /\ u \notin evicted
    BY <1>1, PutLeaves
  <2>2. u \in Threads
    BY <2>1, Positions DEF Typed, TypeOK
  <2>3. QED
    BY <1>1, <2>1, <2>2, OtherCaseWhole
<1>2. QED
  BY <1>1 DEF Whole

\* A case in use that was never dropped is held.
LEMMA NotDropped ==
  ASSUME Held, Whole, NEW t \in used, t \notin evicted
  PROVE  t \in ToSet(retained) /\ WholeCase(t)
  BY DEF Held, Whole

LEMMA OthersKeepTheirJobs ==
  ASSUME Typed, NEW w \in Workers, NEW j, job' = [job EXCEPT ![w] = j]
  PROVE  job'[w] = j /\ \A v \in Workers \ {w} : job'[v] = job[v]
  BY DEF Typed, TypeOK

LEMMA StepWhole == ASSUME Typed, Jobs, Held, Own, Whole, Turns, [Next]_vars PROVE Whole'
<1>0. \A x \in Workers : job[x].doing # "nothing" => job[x].thread \in Threads /\ job[x].thread \in used
  BY DEF Jobs, Typed, TypeOK
<1>1. CASE UNCHANGED vars
  BY <1>1 DEF vars, seen, Whole, WholeCase
<1>2. ASSUME NEW w \in Workers, Open(w)  PROVE Whole'
  <2>1. PICK t \in Threads \ used :
          /\ PutEffect(t, "input", "running", None)
          /\ job' = [job EXCEPT ![w].doing = "investigating", ![w].thread = t]
    BY <1>2, OpenPuts
  <2>2. /\ job'[w].doing = "investigating" /\ job'[w].thread = t
        /\ \A v \in Workers \ {w} : job'[v] = job[v]
    BY <2>1 DEF Typed, TypeOK, Job
  <2>3. saved[t].approval = None
    BY AbsentIsNone DEF Held, Typed
  <2>4. WholeCase(t)'
    <3>1. /\ saved'[t].channels = saved[t].channels \cup {"input"}
          /\ saved'[t].next = "running" /\ saved'[t].approval = None
      BY <2>1, <2>3, PutLeaves
    <3>2. QED
      BY <2>2, <3>1 DEF WholeCase
  <2>5. answer' = answer /\ ~Gathering(w)
    BY <1>2 DEF Open, Gathering, Idle
  <2>6. QED
    BY <2>1, <2>2, <2>4, <2>5, PutOthersWhole
<1>3. ASSUME NEW w \in Workers, Gather(w)  PROVE Whole'
  <2>0. PICK t \in Threads : t = job[w].thread /\ t \in used
    BY <1>0, <1>3 DEF Gather
  <2>1. /\ Gathering(w) /\ job' = job /\ job[w].doing = "investigating"
        /\ answer' = answer
    BY <2>0, <1>0, <1>3 DEF Gather, Gathering
  <2>2. PutEffect(t, "evidence", "running", None)
    BY <2>0, <1>3, GatherPuts
  <2>3. ASSUME t \notin evicted'  PROVE WholeCase(t)'
    <3>0. /\ saved'[t].channels = saved[t].channels \cup {"evidence"}
          /\ saved'[t].next = "running" /\ saved'[t].approval = saved[t].approval
      BY <2>2, PutLeaves
    <3>1. WholeCase(t) /\ saved[t].approval = None
      BY <2>0, <2>1, <2>2, <2>3, PutLeaves, NotDropped DEF Own
    <3>2. QED
      BY <2>0, <2>1, <2>2, <3>0, <3>1 DEF WholeCase
  <2>4. QED
    BY <2>0, <2>1, <2>2, <2>3, PutOthersWhole
<1>4. ASSUME NEW w \in Workers, Conclude(w)  PROVE Whole'
  <2>0. PICK t \in Threads : t = job[w].thread /\ t \in used
    BY <1>0, <1>4 DEF Conclude
  <2>1. /\ Gathering(w)
        /\ job'[w].doing = "concluding" /\ job'[w].thread = t
        /\ \A v \in Workers \ {w} : job'[v] = job[v]
        /\ answer' = answer
    BY <2>0, <1>0, <1>4 DEF Conclude, Gathering, Typed, TypeOK, Job
  <2>2. PutEffect(t, "report", "done", None)
    BY <2>0, <1>4, ConcludePuts
  <2>3. ASSUME t \notin evicted'  PROVE WholeCase(t)'
    <3>0. /\ saved'[t].channels = saved[t].channels \cup {"report"}
          /\ saved'[t].next = "done" /\ saved'[t].approval = saved[t].approval
      BY <2>2, PutLeaves
    <3>1. WholeCase(t) /\ saved[t].approval = None
      BY <2>0, <2>1, <2>2, <2>3, PutLeaves, NotDropped DEF Own
    <3>2. QED
      BY <2>0, <2>1, <2>2, <3>0, <3>1 DEF WholeCase
  <2>4. QED
    BY <2>0, <2>1, <2>2, <2>3, PutOthersWhole
<1>5. ASSUME NEW w \in Workers, ConcludeHigh(w)  PROVE Whole'
  <2>0. PICK t \in Threads : t = job[w].thread /\ t \in used
    BY <1>0, <1>5 DEF ConcludeHigh
  <2>1. /\ Gathering(w)
        /\ job'[w].doing = "pausing" /\ job'[w].thread = t
        /\ \A v \in Workers \ {w} : job'[v] = job[v]
        /\ answer' = answer
    BY <2>0, <1>0, <1>5 DEF ConcludeHigh, Gathering, Typed, TypeOK, Job
  <2>2. PutEffect(t, "report", "human_approval", None)
    BY <2>0, <1>5, ConcludeHighPuts
  <2>3. ASSUME t \notin evicted'  PROVE WholeCase(t)'
    <3>0. /\ saved'[t].channels = saved[t].channels \cup {"report"}
          /\ saved'[t].next = "human_approval" /\ saved'[t].approval = saved[t].approval
      BY <2>2, PutLeaves
    <3>1. WholeCase(t) /\ saved[t].approval = None
      BY <2>0, <2>1, <2>2, <2>3, PutLeaves, NotDropped DEF Own
    <3>2. QED
      BY <2>0, <2>1, <2>2, <3>0, <3>1 DEF WholeCase
  <2>4. QED
    BY <2>0, <2>1, <2>2, <2>3, PutOthersWhole
<1>6. ASSUME NEW w \in Workers, Pause(w)  PROVE Whole'
  <2>0. PICK t \in Threads : t = job[w].thread /\ t \in used
    BY <1>0, <1>6 DEF Pause
  <2>1. /\ Gathering(w) /\ job[w].doing = "pausing"
        /\ \A v \in Workers \ {w} : job'[v] = job[v]
        /\ answer'[t] = "202" /\ \A u \in Threads \ {t} : answer'[u] = answer[u]
        /\ retained' = retained /\ evicted' = evicted
    BY <2>0, <1>0, <1>6, OthersKeepTheirJobs DEF Pause, Reply, Gathering, Typed, TypeOK
  <2>2. \A u \in Threads \ {t} : saved'[u] = saved[u]
    BY <2>0, <1>6 DEF Pause, Typed, TypeOK
  <2>3. ASSUME t \in ToSet(retained) \ evicted  PROVE WholeCase(t)'
    <3>1. WholeCase(t) /\ saved[t].approval = None /\ saved[t] # Absent
          /\ saved[t].next = "human_approval"
      BY <2>0, <2>1, <2>3 DEF Whole, Own, Held, StageOf
    <3>2. /\ saved'[t].next = "paused" /\ saved'[t].channels = saved[t].channels
          /\ saved'[t].approval = saved[t].approval
      BY <2>0, <1>6, <2>1, <3>1 DEF Pause, Typed, TypeOK, Checkpoint
    <3>3. QED
      BY <2>0, <2>1, <3>1, <3>2 DEF WholeCase
  <2>4. ASSUME NEW u \in ToSet(retained) \ evicted, u # t  PROVE WholeCase(u)'
    <3>1. u \in Threads
      BY Positions DEF Typed, TypeOK
    <3>2. QED
      BY <2>0, <2>1, <2>2, <2>4, <3>1, OtherCaseWhole
  <2>5. QED
    BY <2>0, <2>1, <2>3, <2>4 DEF Whole
<1>7. ASSUME NEW w \in Workers, Return(w) \/ Fail(w) \/ OutOfSteps(w)  PROVE Whole'
  <2>0. PICK t \in Threads : t = job[w].thread /\ t \in used
    BY <1>0, <1>7 DEF Return, Fail, OutOfSteps
  <2>1. PICK code \in {"200", "500"} :
          /\ Reply(w, code)
          /\ \/ code = "200" /\ job[w].doing = "concluding"
             \/ code = "500" /\ job[w].doing = "investigating"
             \/ code = "500" /\ ~LimitCoversBudget
    <3>1. CASE Return(w)
      BY <3>1 DEF Return
    <3>2. CASE Fail(w) \/ OutOfSteps(w)
      BY <3>2 DEF Fail, OutOfSteps, Raise
    <3>3. QED
      BY <1>7, <3>1, <3>2
  <2>2. /\ Gathering(w) /\ retained' = retained /\ evicted' = evicted /\ saved' = saved
    BY <1>7 DEF Return, Fail, OutOfSteps, Raise, Gathering
  <2>3. /\ \A v \in Workers \ {w} : job'[v] = job[v]
        /\ answer'[t] = code /\ \A u \in Threads \ {t} : answer'[u] = answer[u]
    <3>1. job' = [job EXCEPT ![w] = Idle] /\ answer' = [answer EXCEPT ![t] = code]
      BY <2>0, <2>1 DEF Reply
    <3>2. QED
      BY <2>0, <3>1, OthersKeepTheirJobs DEF Typed, TypeOK
  <2>4. ASSUME t \in ToSet(retained) \ evicted  PROVE WholeCase(t)'
    <3>1. /\ WholeCase(t) /\ saved[t].approval = None
          /\ saved[t].next = StageOf(job[w].doing)
      BY <2>0, <2>2, <2>4 DEF Whole, Own, Held
    <3>2. CASE code = "200"
      BY <2>1, <2>2, <2>3, <3>1, <3>2 DEF WholeCase, StageOf
    <3>3. CASE code = "500"
      BY <2>1, <2>2, <2>3, <3>1, <3>3 DEF WholeCase, StageOf
    <3>4. QED
      BY <2>1, <3>2, <3>3
  <2>5. ASSUME NEW u \in ToSet(retained) \ evicted, u # t  PROVE WholeCase(u)'
    <3>1. u \in Threads
      BY Positions DEF Typed, TypeOK
    <3>2. QED
      BY <2>0, <2>2, <2>3, <2>5, <3>1, OtherCaseWhole
  <2>6. QED
    BY <2>0, <2>2, <2>4, <2>5 DEF Whole
<1>8. ASSUME NEW w \in Workers,
             \/ \E t \in Threads : Check(w, t)
             \/ Load(w) \/ LoadFinished(w) \/ LoadMissing(w)
      PROVE  Whole'
  <2>1. /\ ~Gathering(w) /\ \A v \in Workers \ {w} : job'[v] = job[v]
        /\ retained' = retained /\ evicted' = evicted /\ saved' = saved /\ answer' = answer
    BY <1>8 DEF Check, Load, LoadFinished, LoadMissing, seen, Gathering, Idle, Typed, TypeOK
  <2>2. QED
    BY <2>1, OtherCaseWhole DEF Whole
<1>9. ASSUME NEW w \in Workers, Record(w)  PROVE Whole'
  <2>0. PICK t \in Threads : t = job[w].thread /\ t \in used
    BY <1>0, <1>9 DEF Record
  <2>1. /\ ~Gathering(w) /\ Decides(w)
        /\ \A v \in Workers \ {w} : job'[v] = job[v]
        /\ answer' = answer
    BY <2>0, <1>0, <1>9, OthersKeepTheirJobs DEF Record, Gathering, Decides
  <2>2. PutEffect(t, "approval", "done", job[w].decision) /\ job[w].decision # None
    BY <2>0, <1>9, RecordPuts
  <2>3. ASSUME t \notin evicted'  PROVE WholeCase(t)'
    <3>0. /\ saved'[t].channels = saved[t].channels \cup {"approval"}
          /\ saved'[t].next = "done" /\ saved'[t].approval = job[w].decision
      BY <2>2, PutLeaves
    <3>1. /\ WholeCase(t)
          /\ \/ saved[t].next = "paused"
             \/ saved[t].next = "done" /\ saved[t].approval # None
      BY <2>0, <2>1, <2>2, <2>3, PutLeaves, NotDropped DEF Turns, TurnOf
    <3>2. answer[t] = "202" /\ "report" \in saved[t].channels
      BY <2>0, <3>1 DEF WholeCase
    <3>3. QED
      BY <2>0, <2>1, <2>2, <3>1, <3>0, <3>2 DEF WholeCase
  <2>4. QED
    BY <2>0, <2>1, <2>2, <2>3, PutOthersWhole
<1>10. CASE Restart
  <2>1. ToSet(retained') = {}
    BY <1>10 DEF Restart, ToSet
  <2>2. QED
    BY <2>1 DEF Whole
<1>11. QED
  BY <1>1, <1>2, <1>3, <1>4, <1>5, <1>6, <1>7, <1>8, <1>9, <1>10 DEF Next

-----------------------------------------------------------------------------
(* The reviewers' turns.                                                   *)

\* A request that is no reviewer's changes nobody's turn, if it leaves the cases
\* that are being decided alone or drops them.
LEMMA TurnsAfterOthers ==
  ASSUME Turns, NEW w \in Workers, \A v \in Workers \ {w} : job'[v] = job[v],
         ~Decides(w)', contested' = contested, evicted \subseteq evicted',
         \A v \in Workers \ {w} :
           Decides(v) /\ job[v].thread \notin evicted'
             => saved'[job[v].thread] = saved[job[v].thread]
  PROVE  Turns'
<1>1. ASSUME NEW v \in Workers, Decides(v)'  PROVE TurnOf(v)'
  <2>1. v # w /\ job'[v] = job[v] /\ Decides(v) /\ TurnOf(v)
    BY <1>1 DEF Decides, Turns
  <2>2. \A x \in Workers : Decides(x)' => Decides(x) /\ job'[x] = job[x]
    BY DEF Decides
  <2>3. QED
    BY <2>1, <2>2 DEF TurnOf
<1>2. QED
  BY <1>1 DEF Turns

\* A put by the investigator of a case is none on a case that is being decided.
LEMMA TurnsAfterPut ==
  ASSUME Typed, Jobs, Held, Turns, NEW w \in Workers,
         \A v \in Workers \ {w} : job'[v] = job[v], ~Decides(w)', contested' = contested,
         NEW t \in Threads, NEW channel, NEW next, NEW decision,
         PutEffect(t, channel, next, decision),
         \A v \in Workers \ {w} : Decides(v) => job[v].thread # t
  PROVE  Turns'
<1>1. ASSUME NEW v \in Workers \ {w}, Decides(v), job[v].thread \notin evicted'
      PROVE  saved'[job[v].thread] = saved[job[v].thread]
  <2>1. job[v].thread \in used \ (evicted' \cup {t})
    BY <1>1 DEF Jobs, Decides
  <2>2. QED
    BY <2>1, PutLeaves
<1>2. evicted \subseteq evicted'
  BY PutLeaves
<1>3. QED
  BY <1>1, <1>2, TurnsAfterOthers

LEMMA StepTurns == ASSUME Typed, Jobs, Held, Own, Turns, [Next]_vars PROVE Turns'
<1>0. \A x \in Workers : job[x].doing # "nothing" => job[x].thread \in Threads /\ job[x].thread \in used
  BY DEF Jobs, Typed, TypeOK
<1>1. CASE UNCHANGED vars
  BY <1>1 DEF vars, seen, Turns, TurnOf, Decides
<1>2. ASSUME NEW w \in Workers, Open(w)  PROVE Turns'
  <2>1. PICK t \in Threads \ used :
          /\ PutEffect(t, "input", "running", None)
          /\ job' = [job EXCEPT ![w].doing = "investigating", ![w].thread = t]
    BY <1>2, OpenPuts
  <2>2. /\ job'[w].doing = "investigating"
        /\ \A v \in Workers \ {w} : job'[v] = job[v]
    BY <2>1 DEF Typed, TypeOK, Job
  <2>3. ~Decides(w)' /\ contested' = contested
    BY <1>2, <2>2 DEF Open, Decides
  <2>4. \A v \in Workers \ {w} : Decides(v) => job[v].thread # t
    BY <1>0, <2>1 DEF Decides
  <2>5. QED
    BY <2>1, <2>2, <2>3, <2>4, TurnsAfterPut
<1>3. ASSUME NEW w \in Workers, Gather(w) \/ Conclude(w) \/ ConcludeHigh(w)
      PROVE  Turns'
  <2>1. /\ Gathering(w) /\ contested' = contested
        /\ \A v \in Workers \ {w} : job'[v] = job[v]
    BY <1>3 DEF Gather, Conclude, ConcludeHigh, Gathering, Typed, TypeOK
  <2>2. ~Decides(w)'
    BY <1>3 DEF Gather, Conclude, ConcludeHigh, Decides, Typed, TypeOK, Job
  <2>3. PICK t \in Threads : t = job[w].thread
    BY <1>0, <2>1 DEF Gathering
  <2>4. \A v \in Workers \ {w} : Decides(v) => job[v].thread # t
    BY <2>1, <2>3 DEF Own, Decides
  <2>5. \E channel, next, decision : PutEffect(t, channel, next, decision)
    BY <1>3, <2>3, GatherPuts, ConcludePuts, ConcludeHighPuts
  <2>6. QED
    BY <2>1, <2>2, <2>4, <2>5, TurnsAfterPut
<1>4. ASSUME NEW w \in Workers, Pause(w) \/ Return(w) \/ Fail(w) \/ OutOfSteps(w)
      PROVE  Turns'
  <2>1. /\ Gathering(w) /\ job' = [job EXCEPT ![w] = Idle]
        /\ contested' = contested /\ evicted' = evicted
    BY <1>4 DEF Pause, Return, Fail, OutOfSteps, Raise, Reply, Gathering
  <2>2. ~Decides(w)' /\ \A v \in Workers \ {w} : job'[v] = job[v]
    BY <2>1, OthersKeepTheirJobs, IdleIsJob DEF Decides
  <2>3. \A u \in Threads \ {job[w].thread} : saved'[u] = saved[u]
    BY <1>4 DEF Pause, Return, Fail, OutOfSteps, Raise, Typed, TypeOK
  <2>4. \A v \in Workers \ {w} : Decides(v) => job[v].thread \in Threads \ {job[w].thread}
    BY <1>0, <2>1 DEF Own, Decides
  <2>5. QED
    BY <2>1, <2>2, <2>3, <2>4, TurnsAfterOthers
<1>5. ASSUME NEW w \in Workers, NEW t \in Threads, Check(w, t)  PROVE Turns'
  <2>1. /\ saved' = saved /\ evicted' = evicted /\ saved[t].next = "paused"
        /\ job[w] = Idle /\ job'[w].doing = "checked" /\ job'[w].thread = t
        /\ \A v \in Workers \ {w} : job'[v] = job[v]
        /\ contested' = IF Deciding(t) = {} THEN contested ELSE contested \cup {t}
    BY <1>5 DEF Check, AwaitsAuthorisation, Typed, TypeOK
  <2>2. contested \subseteq contested'
    BY <2>1
  <2>3. ASSUME NEW v \in Workers \ {w}, Decides(v), job[v].thread = t
        PROVE  t \in contested'
    BY <2>1, <2>3 DEF Deciding, Decides
  <2>4. TurnOf(w)'
    <3>1. ASSUME NEW v \in Workers \ {w}, Decides(v)', job'[v].thread = t
          PROVE  t \in contested'
      BY <2>1, <2>3, <3>1 DEF Decides
    <3>2. QED
      BY <2>1, <3>1 DEF TurnOf
  <2>5. ASSUME NEW v \in Workers \ {w}, Decides(v)'  PROVE TurnOf(v)'
    <3>1. Decides(v) /\ TurnOf(v) /\ job'[v] = job[v]
      BY <2>1, <2>5 DEF Decides, Turns
    <3>2. ASSUME NEW x \in Workers, Decides(x)', job'[x].thread = job[v].thread, x # v
          PROVE  job[v].thread \in contested'
      <4>1. CASE x = w
        BY <2>1, <2>3, <3>1, <3>2, <4>1
      <4>2. CASE x # w
        BY <2>1, <2>2, <3>1, <3>2, <4>2 DEF TurnOf, Decides
      <4>3. QED
        BY <4>1, <4>2
    <3>3. QED
      BY <2>1, <2>2, <3>1, <3>2 DEF TurnOf
  <2>6. QED
    BY <2>4, <2>5 DEF Turns
<1>6. ASSUME NEW w \in Workers, Load(w)  PROVE Turns'
  <2>1. /\ saved' = saved /\ evicted' = evicted /\ contested' = contested
        /\ Decides(w) /\ job'[w].thread = job[w].thread
        /\ \A v \in Workers \ {w} : job'[v] = job[v]
    BY <1>6 DEF Load, seen, Decides, Typed, TypeOK, Job
  <2>2. \A v \in Workers : Decides(v)' => Decides(v) /\ job'[v].thread = job[v].thread
    BY <2>1 DEF Decides
  <2>3. QED
    BY <2>1, <2>2 DEF Turns, TurnOf
<1>7. ASSUME NEW w \in Workers, LoadFinished(w) \/ LoadMissing(w)  PROVE Turns'
  <2>1. /\ saved' = saved /\ evicted' = evicted /\ contested' = contested
        /\ job' = [job EXCEPT ![w] = Idle]
    BY <1>7 DEF LoadFinished, LoadMissing, seen
  <2>2. ~Decides(w)' /\ \A v \in Workers \ {w} : job'[v] = job[v]
    BY <2>1, OthersKeepTheirJobs, IdleIsJob DEF Decides
  <2>3. QED
    BY <2>1, <2>2, TurnsAfterOthers
<1>8. ASSUME NEW w \in Workers, Record(w)  PROVE Turns'
  <2>0. PICK t \in Threads : t = job[w].thread /\ t \in used
    BY <1>0, <1>8 DEF Record
  <2>1. /\ Decides(w) /\ contested' = contested
        /\ ~Decides(w)' /\ \A v \in Workers \ {w} : job'[v] = job[v]
    BY <1>8, OthersKeepTheirJobs, IdleIsJob DEF Record, Decides
  <2>2. PutEffect(t, "approval", "done", job[w].decision) /\ job[w].decision # None
    BY <1>8, <2>0, RecordPuts
  <2>3. saved'[t].next = "done" /\ saved'[t].approval # None /\ evicted \subseteq evicted'
    BY <2>2, PutLeaves
  <2>4. ASSUME NEW v \in Workers, Decides(v)'  PROVE TurnOf(v)'
    <3>1. v # w /\ Decides(v) /\ TurnOf(v) /\ job'[v] = job[v]
      BY <2>1, <2>4 DEF Decides, Turns
    <3>2. \A x \in Workers : Decides(x)' => Decides(x) /\ job'[x] = job[x]
      BY <2>1 DEF Decides
    <3>3. CASE job[v].thread = t
      <4>1. t \in contested
        BY <2>0, <2>1, <3>1, <3>3 DEF TurnOf
      <4>2. QED
        BY <2>1, <2>3, <3>1, <3>2, <3>3, <4>1 DEF TurnOf
    <3>4. CASE job[v].thread # t
      <4>1. job[v].thread \notin evicted' => saved'[job[v].thread] = saved[job[v].thread]
        BY <1>0, <2>2, <3>1, <3>4, PutLeaves DEF Decides
      <4>2. QED
        BY <2>1, <2>3, <3>1, <3>2, <4>1 DEF TurnOf
    <3>5. QED
      BY <3>3, <3>4
  <2>5. QED
    BY <2>4 DEF Turns
<1>9. CASE Restart
  BY <1>9, IdleIsJob DEF Restart, Turns, Decides
<1>10. QED
  BY <1>1, <1>2, <1>3, <1>4, <1>5, <1>6, <1>7, <1>8, <1>9 DEF Next

-----------------------------------------------------------------------------
(* The decisions.                                                          *)

LEMMA StepAttributable ==
  ASSUME Typed, Jobs, Held, DecisionsAreAttributable, [Next]_vars
  PROVE  DecisionsAreAttributable'
<1> DEFINE Attributed(t) == saved[t].approval # None => Warranted(t, saved[t].approval)
<1>0. \A t \in Threads : Attributed(t)
  BY DEF DecisionsAreAttributable, Warranted
<1>1. (\A t \in Threads : Attributed(t)') => DecisionsAreAttributable'
  BY DEF DecisionsAreAttributable, Warranted
<1>2. asked \subseteq asked'
  BY DEF Next, vars, seen, Open, Gather, Conclude, Return, ConcludeHigh, Pause, Fail,
         OutOfSteps, Raise, Check, Load, LoadFinished, LoadMissing, Record, Restart
<1>3. ASSUME NEW t \in Threads, saved'[t].approval \in {saved[t].approval, None}
      PROVE  Attributed(t)'
  BY <1>0, <1>2, <1>3 DEF Warranted
<1>4. ASSUME NEW t \in Threads, NEW channel, NEW next, PutEffect(t, channel, next, None),
             NEW u \in Threads
      PROVE  saved'[u].approval \in {saved[u].approval, None}
  BY <1>4, PutLeaves, AbsentIsNone
<1>5. ASSUME NEW w \in Workers, Record(w)  PROVE \A t \in Threads : Attributed(t)'
  <2>1. /\ job[w].thread \in Threads
        /\ PutEffect(job[w].thread, "approval", "done", job[w].decision)
        /\ job[w].decision # None
    BY <1>5, RecordPuts DEF Typed, TypeOK
  <2>2. Warranted(job[w].thread, job[w].decision)
    BY <1>5 DEF Record, Jobs, Decides
  <2>3. saved'[job[w].thread].approval = job[w].decision
    BY <2>1, PutLeaves
  <2>4. ASSUME NEW t \in Threads, t = job[w].thread  PROVE Attributed(t)'
    BY <1>2, <2>2, <2>3, <2>4 DEF Warranted
  <2>5. ASSUME NEW t \in Threads, t # job[w].thread  PROVE Attributed(t)'
    BY <1>3, <2>1, <2>5, PutLeaves, AbsentIsNone
  <2>6. QED
    BY <2>4, <2>5
<1>6. ASSUME NEW w \in Workers, Pause(w), NEW t \in Threads
      PROVE  saved'[t].approval \in {saved[t].approval, None}
  BY <1>6 DEF Pause, Typed, TypeOK, Checkpoint
<1>7. ASSUME NEW w \in Workers, Open(w) \/ Gather(w) \/ Conclude(w) \/ ConcludeHigh(w),
             NEW u \in Threads
      PROVE  saved'[u].approval \in {saved[u].approval, None}
  <2>1. \E t \in Threads : \E channel, next : PutEffect(t, channel, next, None)
    BY <1>7, OpenPuts, GatherPuts, ConcludePuts, ConcludeHighPuts DEF Typed, TypeOK
  <2>2. QED
    BY <1>4, <2>1
<1>8. CASE Restart
  BY <1>3, <1>8, AbsentIsNone, <1>1 DEF Restart
<1>9. CASE saved' = saved
  BY <1>1, <1>3, <1>9
<1>10. QED
  BY <1>1, <1>3, <1>5, <1>6, <1>7, <1>8, <1>9
     DEF Next, vars, Return, Fail, OutOfSteps, Raise, Check, Load, LoadFinished, LoadMissing

\* A case that was decided, never dropped and never contested is decided for good.
LEMMA StepAcknowledged ==
  ASSUME Typed, Jobs, Held, Own, Whole, Turns, Acknowledged, [Next]_vars
  PROVE  Acknowledged'
<1> DEFINE Stands(a) == a.thread \notin evicted \cup contested =>
                          saved[a.thread].approval = a.decision
           Genuine(a) == a.thread \in used /\ a.decision \in Decision
<1>0. \A a \in acknowledged : Stands(a) /\ Genuine(a)
  BY DEF Acknowledged, AcknowledgedIsRecorded
<1>1. (\A a \in acknowledged' : Stands(a)' /\ Genuine(a)') => Acknowledged'
  BY DEF Acknowledged, AcknowledgedIsRecorded
<1>2. used \subseteq used' /\ contested \subseteq contested'
  BY DEF Next, vars, seen, Open, Gather, Conclude, Return, ConcludeHigh, Pause, Fail,
         OutOfSteps, Raise, Check, Load, LoadFinished, LoadMissing, Record, Restart
<1>3. \A x \in Workers : job[x].doing # "nothing" => job[x].thread \in Threads /\ job[x].thread \in used
  BY DEF Jobs, Typed, TypeOK
\* What stands on a case with a decision is not what a request still works on.
<1>4. ASSUME NEW a \in acknowledged, NEW w \in Workers,
             job[w].doing # "nothing", job[w].thread = a.thread,
             a.thread \notin evicted \cup contested
      PROVE  FALSE
  <2>1. saved[a.thread].approval # None
    BY <1>0, <1>4, NoDecisionAssumption DEF Decision
  <2>2. saved[a.thread].next = "done"
    BY <1>0, <1>4, <2>1, NotDropped DEF WholeCase
  <2>3. Decides(w) \/ Gathering(w)
    BY <1>4 DEF Decides, Gathering, Typed, TypeOK, Job
  <2>4. CASE Decides(w)
    BY <1>4, <2>2, <2>4 DEF Turns, TurnOf
  <2>5. CASE Gathering(w)
    BY <1>4, <2>1, <2>5 DEF Own
  <2>6. QED
    BY <2>3, <2>4, <2>5
<1>5. ASSUME NEW t \in Threads, NEW channel, NEW next, NEW decision,
             PutEffect(t, channel, next, decision), NEW a \in acknowledged, a.thread # t
      PROVE  Stands(a)' /\ Genuine(a)'
  <2>1. evicted \subseteq evicted'
    BY <1>5, PutLeaves
  <2>2. a.thread \notin evicted' => saved'[a.thread] = saved[a.thread]
    BY <1>0, <1>5, PutLeaves
  <2>3. QED
    BY <1>0, <1>2, <2>1, <2>2
<1>6. ASSUME NEW w \in Workers, Open(w)  PROVE Acknowledged'
  <2>1. PICK t \in Threads \ used : PutEffect(t, "input", "running", None)
    BY <1>6, OpenPuts
  <2>2. acknowledged' = acknowledged
    BY <1>6 DEF Open
  <2>3. \A a \in acknowledged : a.thread # t
    BY <1>0
  <2>4. QED
    BY <1>1, <1>5, <2>1, <2>2, <2>3
<1>7. ASSUME NEW w \in Workers, NEW t \in Threads, NEW channel, NEW next, NEW decision,
             job[w].doing # "nothing", t = job[w].thread, PutEffect(t, channel, next, decision),
             NEW a \in acknowledged
      PROVE  Stands(a)' /\ Genuine(a)'
  <2>1. CASE a.thread # t
    BY <1>5, <1>7, <2>1
  <2>2. CASE a.thread = t
    <3>1. a.thread \in evicted \cup contested
      BY <1>4, <1>7, <2>2
    <3>2. evicted \subseteq evicted'
      BY <1>7, PutLeaves
    <3>3. QED
      BY <1>0, <1>2, <3>1, <3>2
  <2>3. QED
    BY <2>1, <2>2
<1>8. ASSUME NEW w \in Workers, Gather(w) \/ Conclude(w) \/ ConcludeHigh(w)
      PROVE  Acknowledged'
  <2>1. job[w].doing # "nothing" /\ acknowledged' = acknowledged
    BY <1>8 DEF Gather, Conclude, ConcludeHigh
  <2>2. PICK t \in Threads : t = job[w].thread
    BY <1>3, <2>1
  <2>3. \E channel, next, decision : PutEffect(t, channel, next, decision)
    BY <1>8, <2>2, GatherPuts, ConcludePuts, ConcludeHighPuts
  <2>4. \A a \in acknowledged : Stands(a)' /\ Genuine(a)'
    BY <1>7, <2>1, <2>2, <2>3
  <2>5. QED
    BY <1>1, <2>1, <2>4
<1>9. ASSUME NEW w \in Workers, Record(w)  PROVE Acknowledged'
  <2>1. PICK t \in Threads : t = job[w].thread /\ t \in used
    BY <1>3, <1>9 DEF Record
  <2>2. PutEffect(t, "approval", "done", job[w].decision) /\ job[w].decision \in Decision
        /\ job[w].decision # None
    BY <1>9, <2>1, RecordPuts
  <2>3. /\ job[w].doing # "nothing" /\ used' = used
        /\ acknowledged' = acknowledged \cup {[thread |-> t, decision |-> job[w].decision]}
    BY <1>9, <2>1 DEF Record
  <2>4. \A a \in acknowledged : Stands(a)' /\ Genuine(a)'
    BY <1>7, <2>1, <2>2, <2>3
  <2>5. saved'[t].approval = job[w].decision
    BY <2>2, PutLeaves
  <2>6. ASSUME NEW a, a = [thread |-> t, decision |-> job[w].decision]
        PROVE  Stands(a)' /\ Genuine(a)'
    BY <2>1, <2>2, <2>3, <2>5, <2>6
  <2>7. QED
    BY <1>1, <2>3, <2>4, <2>6
<1>10. ASSUME NEW w \in Workers, Pause(w)  PROVE Acknowledged'
  <2>1. /\ job[w].doing # "nothing" /\ acknowledged' = acknowledged /\ evicted' = evicted
        /\ used' = used /\ contested' = contested
    BY <1>10 DEF Pause
  <2>2. \A u \in Threads \ {job[w].thread} : saved'[u] = saved[u]
    BY <1>10 DEF Pause, Typed, TypeOK
  <2>3. \A a \in acknowledged : a.thread \in Threads
    BY <1>0 DEF Typed, TypeOK
  <2>4. \A a \in acknowledged : Stands(a)' /\ Genuine(a)'
    BY <1>0, <1>4, <2>1, <2>2, <2>3
  <2>5. QED
    BY <1>1, <2>1, <2>4
<1>11. ASSUME NEW w \in Workers, LoadFinished(w)  PROVE Acknowledged'
  <2>1. PICK t \in Threads : t = job[w].thread /\ t \in used
    BY <1>3, <1>11 DEF LoadFinished
  <2>2. /\ Decides(w) /\ saved[t].next = "done" /\ job[w].decision \in Decision
        /\ saved' = saved /\ used' = used /\ evicted' = evicted /\ contested' = contested
        /\ acknowledged' = acknowledged \cup {[thread |-> t, decision |-> job[w].decision]}
    BY <1>11, <2>1 DEF LoadFinished, Decides, Jobs
  <2>3. t \in evicted \cup contested
    BY <2>1, <2>2 DEF Turns, TurnOf
  <2>4. ASSUME NEW a, a = [thread |-> t, decision |-> job[w].decision]
        PROVE  Stands(a)' /\ Genuine(a)'
    BY <2>1, <2>2, <2>3, <2>4
  <2>5. \A a \in acknowledged : Stands(a)' /\ Genuine(a)'
    BY <1>0, <2>2
  <2>6. QED
    BY <1>1, <2>2, <2>4, <2>5
<1>12. CASE saved' = saved /\ evicted' = evicted /\ acknowledged' = acknowledged
  BY <1>0, <1>1, <1>2, <1>12
<1>13. CASE Restart
  <2>1. used \subseteq evicted' /\ acknowledged' = acknowledged
    BY <1>13 DEF Restart, Held
  <2>2. QED
    BY <1>0, <1>1, <1>2, <2>1
<1>14. QED
  BY <1>6, <1>8, <1>9, <1>10, <1>11, <1>12, <1>13
     DEF Next, vars, seen, Return, Fail, OutOfSteps, Raise, Check, Load, LoadMissing

-----------------------------------------------------------------------------

LEMMA InitHolds == Init => SInv
<1> SUFFICES ASSUME Init  PROVE SInv
  OBVIOUS
<1>1. ToSet(<<>>) = {}
  BY DEF ToSet
<1>2. Absent \in Checkpoint
  BY DEF Absent, Checkpoint
<1>3. Typed
  BY <1>1, <1>2, IdleIsJob DEF Init, Typed, TypeOK
<1>4. Jobs /\ Own /\ Turns
  BY IdleIsJob DEF Init, Jobs, Own, Turns, Gathering, Decides
<1>5. Held /\ Whole
  BY <1>1, AbsentIsNone DEF Init, Held, Whole
<1>6. DecisionsAreAttributable /\ Acknowledged
  BY AbsentIsNone DEF Init, DecisionsAreAttributable, Acknowledged, AcknowledgedIsRecorded
<1>7. QED
  BY <1>3, <1>4, <1>5, <1>6 DEF SInv

LEMMA StepHolds == SInv /\ [Next]_vars => SInv'
<1> SUFFICES ASSUME SInv, [Next]_vars  PROVE SInv'
  OBVIOUS
<1>1. Typed'
  BY StepTyped DEF SInv
<1>2. Jobs' /\ Held' /\ Own' /\ Whole' /\ Turns' /\ DecisionsAreAttributable' /\ Acknowledged'
  BY <1>1, StepJobs, StepHeld, StepOwn, StepWhole, StepTurns, StepAttributable,
     StepAcknowledged DEF SInv
<1>3. QED
  BY <1>1, <1>2 DEF SInv

LEMMA Invariance == Spec => []SInv
  BY InitHolds, StepHolds, PTL DEF Spec

\* Every variable keeps its type: no thread is listed, evicted or contested that
\* no caller was given.
THEOREM ServiceTypeCorrect == Spec => []TypeOK
<1>1. SInv => TypeOK
  BY DEF SInv, Typed
<1>2. QED
  BY <1>1, Invariance, PTL

\* However requests, restarts and evictions interleave, a recorded decision is one
\* that a caller sent for this case and, with authentication on, carries the name
\* of that caller, an approver.
THEOREM DecisionsAttributed == Spec => []DecisionsAreAttributable
<1>1. SInv => DecisionsAreAttributable
  BY DEF SInv
<1>2. QED
  BY <1>1, Invariance, PTL

\* What a reviewer was told with 200 OK is on the case, and stays, unless the saver
\* dropped the case or two reviewers decided it at the same time.
THEOREM AcknowledgedStays == Spec => []AcknowledgedIsRecorded
<1>1. SInv => AcknowledgedIsRecorded
  BY DEF SInv, Acknowledged
<1>2. QED
  BY <1>1, Invariance, PTL

\* A case the saver has never dropped is a whole file.
THEOREM FilesStayWhole == Spec => []FilesAreWhole
<1>1. SInv => FilesAreWhole
  BY DEF SInv, Whole, WholeCase, FilesAreWhole
<1>2. QED
  BY <1>1, Invariance, PTL

\* What the caller of POST /investigations was told agrees with what the service
\* holds, as soon as no request works on the case: the code tells which it is where
\* the recursion limit covers the budget, and where it does not, a 500 may stand
\* for a case that is finished or was about to pause.
THEOREM AnswersAgree == Spec => []AnswersTellWhatIsHeld
<1>1. ASSUME SInv  PROVE AnswersTellWhatIsHeld
  <2> SUFFICES ASSUME NEW t \in ToSet(retained) \ evicted,
                      \A w \in Workers : job[w].thread # t
               PROVE  LET finished == saved[t].next = "done" /\ saved[t].approval = None IN
                        /\ answer[t] = "202" <=> \/ saved[t].next = "paused"
                                                 \/ saved[t].approval # None
                        /\ answer[t] = "200" => finished
                        /\ saved[t].next \in {"running", "human_approval"} => answer[t] = "500"
                        /\ LimitCoversBudget => /\ finished => answer[t] = "200"
                                                /\ saved[t].next # "human_approval"
    BY DEF AnswersTellWhatIsHeld
  <2>1. WholeCase(t) /\ t \in Threads
    BY <1>1, Positions DEF SInv, Whole, Typed, TypeOK
  <2>2. saved[t].next \in {"running", "human_approval", "paused", "done"}
    BY <1>1, <2>1 DEF SInv, Held, Typed, TypeOK, Checkpoint
  <2>3. QED
    BY <2>1, <2>2 DEF WholeCase
<1>2. QED
  BY <1>1, Invariance, PTL

-----------------------------------------------------------------------------
(* The saver forgets the right threads: the list it has evicted from all along *)
(* is the tail of the list of everything ever written.                        *)

Newly == Distinct(written) /\ retained = Newest(written)

\* Every action either writes one thread, or writes none, or starts anew.
LEMMA ActionWrites ==
  ASSUME Typed, Jobs, Next
  PROVE  \/ \E t \in Threads : /\ retained' = Newest(Touched(retained, t))
                               /\ written' = Touched(written, t)
         \/ retained' = retained /\ written' = written
         \/ retained' = <<>> /\ written' = <<>>
<1>1. CASE Restart
  BY <1>1 DEF Restart
<1>2. ASSUME NEW w \in Workers, Open(w)
      PROVE  \E t \in Threads : /\ retained' = Newest(Touched(retained, t))
                                /\ written' = Touched(written, t)
  BY <1>2 DEF Open, PutCheckpoint, Touched
<1>3. ASSUME NEW w \in Workers, Gather(w) \/ Conclude(w) \/ ConcludeHigh(w) \/ Record(w)
      PROVE  \E t \in Threads : /\ retained' = Newest(Touched(retained, t))
                                /\ written' = Touched(written, t)
  <2>1. job[w].thread \in Threads
    BY <1>3 DEF Gather, Conclude, ConcludeHigh, Record, Jobs, Typed, TypeOK
  <2>2. /\ retained' = Newest(Touched(retained, job[w].thread))
        /\ written' = Touched(written, job[w].thread)
    BY <1>3 DEF Gather, Conclude, ConcludeHigh, Record, PutCheckpoint, Touched
  <2>3. QED
    BY <2>1, <2>2
<1>4. ASSUME NEW w \in Workers,
             \/ Return(w) \/ Pause(w) \/ Fail(w) \/ OutOfSteps(w)
             \/ Load(w) \/ LoadFinished(w) \/ LoadMissing(w)
             \/ \E t \in Threads : Check(w, t)
      PROVE  retained' = retained /\ written' = written
  BY <1>4 DEF Return, Pause, Fail, OutOfSteps, Raise, Load, LoadFinished, LoadMissing,
            Check, seen
<1>5. QED
  BY <1>1, <1>2, <1>3, <1>4 DEF Next

LEMMA StepNewly == ASSUME Typed, Jobs, Newly, [Next]_vars  PROVE Newly'
<1>1. CASE UNCHANGED vars
  BY <1>1 DEF Newly, vars, seen, Distinct
<1>2. CASE Next
  <2>1. ASSUME NEW t \in Threads, retained' = Newest(Touched(retained, t)),
               written' = Touched(written, t)
        PROVE  Newly'
    <3>1. written \in Seq(Threads)
      BY DEF Typed, TypeOK
    <3>2. Distinct(Touched(written, t))
      BY <3>1, TouchedDistinct DEF Newly
    <3>3. Newest(Touched(Newest(written), t)) = Newest(Touched(written, t))
      BY <3>1, NewestOfTouched DEF Newly
    <3>4. Distinct(written)'
      BY <2>1, <3>2 DEF Distinct
    <3>5. QED
      BY <2>1, <3>3, <3>4 DEF Newly
  <2>2. CASE retained' = retained /\ written' = written
    BY <2>2 DEF Newly, Distinct
  <2>3. CASE retained' = <<>> /\ written' = <<>>
    <3>1. Newest(<<>>) = <<>>
      BY MaxThreadsIsNat DEF Newest
    <3>2. QED
      BY <2>3, <3>1 DEF Newly, Distinct
  <2>4. QED
    BY <1>2, <2>1, <2>2, <2>3, ActionWrites
<1>3. QED
  BY <1>1, <1>2

\* However the requests interleave, the cases that can be read are the MaxThreads
\* ones written last, and no other.
THEOREM SaverKeepsTheNewest == Spec => []KeepsMostRecentlyWritten
<1>1. Init => Newly
  <2>1. Newest(<<>>) = <<>>
    BY MaxThreadsIsNat DEF Newest
  <2>2. QED
    BY <2>1 DEF Init, Newly, Distinct
<1>2. SInv /\ Newly /\ [Next]_vars => Newly'
  BY StepNewly DEF SInv
<1>3. ASSUME SInv, Newly  PROVE KeepsMostRecentlyWritten
  <2>1. retained \in Seq(Threads) /\ written \in Seq(Threads)
    BY <1>3 DEF SInv, Typed, TypeOK
  <2>2. ToSet(retained) = {t \in Threads : saved[t] # Absent}
    <3>1. ToSet(retained) \subseteq Threads
      BY <2>1, Positions
    <3>2. QED
      BY <1>3, <3>1 DEF SInv, Held
  <2>3. Cardinality(ToSet(retained)) <= MaxThreads
    <3>1. Len(retained) <= MaxThreads
      <4>1. Len(Newest(written)) = (IF Len(written) <= MaxThreads THEN Len(written)
                                    ELSE MaxThreads)
        BY <2>1, NewestAt
      <4>2. Len(written) \in Nat
        BY <2>1
      <4>3. QED
        BY <1>3, <4>1, <4>2, MaxThreadsIsNat DEF Newly
    <3>2. IsFiniteSet(ToSet(retained)) /\ Cardinality(ToSet(retained)) <= Len(retained)
      BY <2>1, ListedIsBounded
    <3>3. Cardinality(ToSet(retained)) \in Nat /\ Len(retained) \in Nat
      BY <2>1, <3>2, FS_CardinalityType
    <3>4. QED
      BY <3>1, <3>2, <3>3, MaxThreadsIsNat
  <2>4. QED
    BY <1>3, <2>2, <2>3 DEF KeepsMostRecentlyWritten, Newly
<1>4. QED
  BY <1>1, <1>2, <1>3, Invariance, PTL DEF Spec
=============================================================================
