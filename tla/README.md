# RegGuard: a verification development

TLA+ models of RegGuard, the multi-agent financial-crime investigation service in `src/`, the TLC
runs that check them on small instances, and theorems about them that TLAPS checks for every value
of the constants. `PROJECT.json` maps every modelled definition to the lines it stands for.

## 1. The system

| Part | Code | State it keeps | Operations | Interacts with |
|---|---|---|---|---|
| Investigation graph | `app/graph/build.py`, `state.py` | the channels of one case: findings, route history, decisions, guardrail events (append-only), step count, report, approval, status | one node per superstep; edges fixed by `build_graph` | runs in LangGraph, which checkpoints after every superstep |
| Supervisor | `app/agents/supervisor.py` | none | ask the routing model, apply budget, ordering and loop guardrails, record the decision | routing model; dispatches specialists or the report |
| Specialists | `app/agents/specialists.py`, `base.py` | the conversation of one superstep | tool rounds, one summary with one retry, a degraded finding | chat model; tools |
| Reporter and gate | `app/agents/reporter.py` | none | intake, computed risk, report with fallback, human gate | report writer; a human through `interrupt()` |
| Case service | `app/service.py` | none | run, resume, read | graph and checkpointer, from many request threads |
| HTTP API | `app/api.py` | none | open, read, approve | case service; tokens and roles |
| Settings, tokens, roles | `core/config.py`, `core/security.py` | the cached settings of the process | start-up check; parse tokens and authenticate on every request | API; environment |
| Checkpointer | `app/graph/checkpointer.py` | checkpoints of every thread, and the threads in order of last write | put, evict | written by every superstep of every case |
| Graph cache | `get_graph` in `build.py` | the compiled graph with its saver, one per process | build or reuse | every request |
| Risk rules | `app/tools/fraud.py`, `repository.py` | none (fixtures) | score a customer | the FRAUD specialist |
| Transaction tools | `app/tools/transactions.py` | none | summarise and list a window | the TRANSACTION specialist; the same ledger as the rules |
| Command line, stub model | `app/main.py`, `core/stub_llm.py` | none | one scripted case, `--auto-approve` | the graph |

**What is hard here.** The models are adversaries of the control flow: they may route in any order,
answer with nothing usable, or never finish. Requests are served by a thread pool and share one
in-memory saver that has no lock and forgets old cases while they may still be running. The approval
path checks the saver and then acts on it in a second step. Node errors leave a case half done. A
human may answer twice, malformed, or never. The tokens are checked at start-up only for being
there, and parsed when a request comes. Two tools read the same transactions with different code, at
different moments and over windows that the models choose call by call. `PROJECT.json` lists these
hazards at their lines.

**What makes each part correct.**

* graph and supervisor: no risk score before transaction evidence; bounded visits; no routing call past the budget, and none paid for and thrown away at its end; an audit trail that reproduces what happened; the recursion limit never needed when it covers the budget; a report in the end;
* reporter and gate: the verdict is the highest risk on file; HIGH is not released without a recorded decision; a malformed reply is a recorded refusal;
* specialists: every tool request answered before the next model call; exactly one finding, under the specialist's own name;
* service: an acknowledged decision is on record; decisions are attributable and final; case files are whole; what a caller was told agrees with what is held;
* API, tokens, settings: malformed configuration lets nobody in, a well-formed one everybody it names; a production decision carries the name of an authenticated approver;
* checkpointer: memory is bounded, the most recent cases are kept, eviction neither fails nor half happens;
* graph cache: cases that were answered can be found again;
* rules and transaction tools: patterns at window edges are found, obligations escalate, more evidence never lowers the score, and the tools agree on the activity that the windows of both take in;
* command line: the demonstration visits every specialist in order, never relies on a guardrail, and comes to its end.

## 2. The modules

```
Schemas ──┬── CaseFile (abstract promise)              Retention ──┬── Service ── ServiceProofs
          ├── Investigation ── InvestigationProofs         │       └── Saver ──── SaverProofs
          │        └── ScriptedCase ── ScriptedCaseProofs  └── RetentionProofs (lemmas for both)
          └── SpecialistLoop ── SpecialistLoopProofs   GraphCache ── Gateway ─┬─ MCGateway
                                                                              └─ GatewayProofs
RuleEngine ── TransactionTools ─┬─ MCTransactionTools
                                └─ TransactionToolsProofs
```

| Module | Models | Correspondence |
|---|---|---|
| `Schemas` | shared vocabulary, `derive_overall_risk` and the definition it is held to | findings are (agent, risk) |
| `CaseFile` | what an investigation promises: evidence filed, one verdict from all of it, HIGH released after a decision | abstract: no code |
| `Investigation` | one case through the graph | one variable per channel; one action per node (per branch for the supervisor and the report); `invocation`, `node`, `ticks`, `reply` are LangGraph's side: whether `invoke` runs, what comes next, supersteps used, the resume value. `asked` observes the calls of the routing model, also those that fail |
| `ScriptedCase` | `Investigation` with the scripted model in place of the arbitrary one and the command line as its caller | `DecideRoute`, `AssessedRisk` and `ScriptedReport` are the stub's three scripts; a request is what the tools will find for it. GraphRecursionError is left out, and `AllowanceAssumption` asks for the allowance under which it never comes |
| `SpecialistLoop` | `run_specialist` and `_summarise`, seen by `Investigation` as the single action `RunSpecialist` | one action per model call, per answered request, per end of round |
| `Retention` | what `_record` does to its ordered dictionary as a whole | pure operators |
| `Service` | concurrent requests over the bounded saver; `Restart` is a process restart | one action per checkpoint put and per step between two of them; the approval request is `Check` (state read, 404/409 decided) and then `Load` / `LoadFinished` / `LoadMissing` (invoke reads again) and `Record`. A finished case is checkpointed (`Conclude`) before its caller is answered (`Return`): `OutOfSteps` may come in between, unless the recursion limit covers the budget (`LimitCoversBudget`). `answer` is the status code the opener got |
| `Saver` | `put` and `_record`, one action per dictionary call | `stored` is MemorySaver's storage, `listed` is `_threads` |
| `GraphCache` | `get_graph` under `lru_cache` (one call per concurrent miss, the first result is cached) | `cache`, and what the saver of each graph holds |
| `Gateway` | a server process from its start-up check to its end: settings, token parsing, authentication, roles, and `GraphCache` under every request | `settings` is the cached `get_settings()`; `ParseApiTokens` folds over the entries as the loop does; `Lower` is `str.lower` on the texts that occur, given as a table |
| `RuleEngine` | `score_customer_risk` while transactions are booked and the window is widened | one operator per rule; whole amounts, hours; who the customers are, what may be booked, which countries are on the list and where windows start are constants, as they are data to the code. `Book` books late: a transaction newer than the reference date would move it under `TIME_ANCHOR=dataset`, and with it the start of the window, and old activity may then leave the score |
| `TransactionTools` | `summarise_transactions`, `list_transactions` and the cut in `_serialise`, over the ledger of `RuleEngine` | one operator per tool, over a window of its own: `lookback_days` is free in every call; `ByTime` is the order of `all_transactions` |

How they compose. `ScriptedCase` extends `Investigation` and constrains its actions; `Gateway`
extends `GraphCache` and calls its actions from requests; `TransactionTools` extends `RuleEngine` and
looks at the same transactions; `Service` and `Saver` share `Retention`, one taking a put as a step
and the other taking it apart. An approval is one step in `Gateway`, where who may approve is the
question, and four in `Service`, where what happens between them is.

LangGraph, MemorySaver and `lru_cache` are not part of the repository. Their definitions are marked
external in the map and state only what the code in `src/` relies on: one node per superstep, channel
updates written when a node returns and not when it raises, a checkpoint after every superstep, a
first execution of `interrupt()` that ends the invocation and a second that returns the resume value,
the recursion limit looked at before the next superstep (also before the one that finds nothing left
to do), and pending writes that do not touch the thread list.

Names starting with `Bug` are mistakes one could make in the code, placed before the definition they
would replace. No specification uses them; they show that each property can fail.

## 3. The runs

| Run | Question | Bounds | Result |
|---|---|---|---|
| `Investigation` | do guardrails, model budget, audit trail, verdict, gate and the promise of `CaseFile` hold whatever the models say, and does every case come to its report? | 4 routing decisions, 2 visits, limit 12 | holds, 294,765 states |
| `InvestigationLiveness` | is a reply delivered to the gate recorded, also when it is malformed? | 3 decisions, limit 6, so that GraphRecursionError happens | holds, 2,385 states |
| `InvestigationFallback` | can a malformed report end a case? | 3 decisions | yes: the fallback report can fail the same schema |
| `SpecialistLoop` | is every request answered, and one finding of its own returned? | 3 rounds of up to 3 requests | holds, 46,010 states |
| `ScriptedCase` | does the demonstration run as documented, with every combination of what the tools find and with and without `--auto-approve`? | budget 4, one short of what the script would take | holds, 2,034 states |
| `Service` | with requests overlapping freely: is the right set of cases kept, are decisions attributable and kept, files whole, and answers true? | 2 requests, 3 cases, room for 2, restarts, a recursion limit that may strike | holds, 1,634,159 states |
| `ServiceApprovalRace` | does every acknowledged decision stand, also when two reviewers overlap on a case? | the same, without recursion errors | no: see section 6 |
| `ServiceEviction` | does an evicted case stay gone? | the same, without recursion errors | no |
| `Saver` | does the unlocked `_record` keep memory bounded, and when does it raise? | 3 requests, 3 threads, room for 2 | holds, 552,062 states |
| `Gateway` | who gets in under which `API_TOKENS`, who signs a production decision, and what does a cold start lose? | 2 requests, 3 cases, 2 tokens; 10 values of `API_TOKENS`, 17 more configurations; restarts | holds, 771,400 states |
| `GraphCacheColdStart` | is every answered case found again? | 2 requests, 2 cases | no |
| `TransactionTools` | are patterns found at window edges, do obligations escalate, can evidence lower a score, and do the tools agree on what both windows take in? | 3 transactions at hours 0, 24, 72, 73; 32 profiles of a customer in Canada, 2 of one in Cyprus, which is on the list; 2 window starts; 2 rows listed, 1 of them uncut | holds, 250,444 states |

Why the bounds are enough. Four decisions are the fewest in which a specialist is asked for beyond
its two visits, an ordering redirect has been tried, and the budget is still the one that ends the
case; the recursion limit is exactly twice the budget plus four there, so that a step too many is a
violation. The same four make the budget end the script just after its last specialist. Two requests
and one case more than the saver holds are the fewest for every race and for eviction of a running
case; the third request in `Saver` is what it takes for two evictions behind one check. In `Gateway`
two racing first requests build two graphs, and the third case is one opened after the race;
`MCApiTokens` has one value for each way the parser distinguishes. The hours of `MCTransactionTools`
are the two window lengths, zero, and one past the end; `MaxReturned` 2 and `MaxShown` 1 make both
cuts of the listing happen. The other limits (`MaxRequests`, `MaxEntries`, the shapes in
`MCBookable`) are named in their modules. `MaxKeyFindings` is 20 in the code and smaller here, so
that both outcomes of the fallback occur.

Fairness. `Investigation`, `SpecialistLoop` and `ScriptedCase` assume weak fairness of the steps that
run inside one call (`graph.invoke`, `run_specialist`, `_run_one`): they are loops of one thread, and
model clients have timeouts, after which a call fails and the provider error is a step too. Nothing is
assumed of people: `Resume` is not fair, and a paused case may wait forever, its report written.
`ReachesItsReport` is asked of runs whose recursion limit covers the budget: it is the budget, the
fallback that finishes and the fixed edges that bring a case to its report there, and not the limit.
In `ScriptedCase` the command answers the gate itself, which is why `CommandConcludes` can
say how it ends.

`Service` observes in `contested` the cases that two reviewers decided at once. The code does not
prevent it; `AcknowledgedIsRecorded` says what holds on every other case, whatever happens there, and
`EveryAcknowledgedIsRecorded` is the promise the code makes of all of them.

In `Saver`, `peak` and `wanted` are observations. `EvictionNeverFails` is relative to the puts that
have overlapped: with room for MaxThreads >= 2 * (puts - 1) threads no put meets an empty
dictionary. With the defaults (200 threads, a pool of 40 workers) that is the case; with
`MAX_RETAINED_INVESTIGATIONS=1` it is not. `KeepsWhatItPromises` says that puts that do not overlap
do what `Retention`, and so `Service`, take to be one step.

## 4. The proofs

Proved for every value of the constants: every safety invariant and every action property that a
passing run checks, and the refinement of `CaseFile`. Nothing is supposed but the assumptions named
in the modules, and no theorem has a hypothesis of its own. The assumptions are of four kinds:
limits are natural numbers, positive where the settings say so, and for the scripted case a
recursion limit that covers the budget (`AllowanceAssumption`), as the defaults do; `None`,
`Malformed` and other stand-ins are none of the things they stand in for (`NamesAssumption`,
`NoneAssumption`, `NoDecisionAssumption`, `NoThreadAssumption`, `BlankAssumption`); the pool of
workers is finite (`WorkersAssumption`); and data that the code reads has its type: what splitting
`API_TOKENS` leaves is a sequence of sequences of strings (`EntriesAssumption`), of which lower case
leaves the lower-case names alone (`LoweredAssumption`), transactions and profiles have the fields
and ranges of their classes, and the list of high-risk countries is finite (`BoundsAssumption`).

| Module | Theorem | Property | Inductive invariant |
|---|---|---|---|
| `InvestigationProofs` | `TypeCorrect` | `TypeOK` | itself |
| | `ScoringFollowsEvidence` | `ScoredOnEvidence` | `EvidenceInv` |
| | `SpecialistsDoNotLoop` | `NoSpecialistLoops` | `VisitsInv`, with `EvidenceInv` for the redirect |
| | `BudgetBeforeRecursionLimit` | `RecursionLimitNeverStrikes` | `StepsInv` |
| | `VerdictIsReproducible`, `GateHolds` | `VerdictFromEvidence`, `HighRiskNeedsHuman` | `GateInv` |
| | `RecordsStay` | `RecordsAreFinal` | action property from `GateInv` |
| | `AuditTrailExplains`, `BudgetIsRespected`, `OverridesAreExplained` | `AuditTrailReconstructs`, `BudgetRespected`, `OverridesExplained` | `TrailInv`, with `AskedInv` for the second and `VisitsInv` for the last |
| | `KeepsThePromise` | `ImplementsCaseFile` | refinement: verdict is the risk level of the report, closed is a returned invocation |
| `ScriptedCaseProofs` | `ScriptedIsInvestigation` | (implements `Investigation!Spec`) | every scripted step is a step of the graph |
| | `ScriptStaysDefensible` | `ScriptIsDefensible` | `ScriptInv`, with `GateHolds` and `TrailInv` |
| `SpecialistLoopProofs` | `FindingsAreOwn` | `FindingIsItsOwn` | `FindingInv` |
| | `EveryCallIsAnswered`, `SpecialistTypeCorrect` | `NoCallLeftUnanswered`, `TypeOK` | `ConversationInv`, `RoundsInv` |
| `SaverProofs` | `SaverTypeCorrect`, `MemoryStaysBounded` | `TypeOK`, `RetentionIsBounded` | `IInv`: `Typed`, `Accounted`, `Watched` |
| | `PromiseKept` | `KeepsWhatItPromises` | `Solo` |
| | `EvictionsSucceed` | `EvictionNeverFails` | `RoomInv`, with `Typed` |
| `ServiceProofs` | `ServiceTypeCorrect`, `DecisionsAttributed`, `AcknowledgedStays`, `FilesStayWhole`, `AnswersAgree` | `TypeOK`, `DecisionsAreAttributable`, `AcknowledgedIsRecorded`, `FilesAreWhole`, `AnswersTellWhatIsHeld` | `SInv` |
| | `SaverKeepsTheNewest` | `KeepsMostRecentlyWritten` | `Newly`, with `SInv` |
| `GatewayProofs` | `ColdStartLossIsBounded` | `LossIsBounded` | `CacheInv`: `FirstWins`, `UsedOnce`, `Somewhere` |
| | `DecisionsAreSigned` | `ProductionDecisionsAreSigned` | `SignInv`, with `ParserIsAccurate` |
| | `AdmissionIsExact` | `AdmitsExactlyTheConfigured` | `AdmitInv`, with `SignInv` and `ParserIsAccurate` |
| `TransactionToolsProofs` | `CashPatternsAreFound`, `ObligationsAreMet`, `ToolsAgreeOnWhatBothRead` | `PatternsAreFound`, `ObligationsEscalate`, `ToolsAgree` | `AssessmentInv`: `Grounded`, and the assessment is that of the evidence |
| | `MoreEvidenceNeverHelps` | `EvidenceNeverHelps` | action property from `AssessmentInv` |
| | `RulesTypeCorrect` | (`TypeOK` of `RuleEngine`, in no run) | `AssessmentInv` |

Few of these properties are inductive as they stand.

*The graph.* `ScoredOnEvidence` speaks of runs that happened, but whether the next one is allowed
was decided a step earlier: `EvidenceInv` adds that a scheduled FRAUD run already has its evidence,
and that findings and history name the same authors, since the guardrail reads one and the property
the other. `VisitsInv` likewise adds that the scheduled specialist has a visit to spare; for a
redirect, which skips the loop check, this follows because TRANSACTION has filed nothing and so has
not run. `StepsInv` ties the supersteps used to the routing decisions taken (2n+1 at the supervisor,
2n elsewhere), which is why twice the budget plus four suffices. `GateInv` says what is on file for
each place a case can stand at. `TrailInv` ties decisions to runs by position, and the step count to
the length of the trail; a FINISH is the last decision because it has no run behind it, so a reason
for one can never be undone by a later run. `AskedInv` ties the calls of the routing model to the
step count: equal until the budget is spent, one less with the FINISH nobody was asked about, one
more when the last call failed; a case on its way to a specialist has not been forced to end.
`DerivedRiskIsHighest` shows that the CHOOSE in `DeriveOverallRisk` returns the reference verdict
for findings of any number.

*The script.* `ScriptInv` says that the case is as far in the sequence as it has findings, and that
each finding is what the script makes of the request. The step that matters is `NextInSequence`: what
is missing from the evidence block is exactly the rest of the sequence. The gate is not proved again:
the script implements `Investigation`, so `GateHolds` applies.

*The specialist.* `ConversationInv` follows the answer being served: what stands behind it answers its
first requests, what is left is the rest, and every earlier answer is served and closed. It rests on
`OrderCompletes`: `InAnswerOrder` lists every request of a message exactly once, however many there are.

*The saver.* With no lock, neither "everything stored is listed" nor "the list is within its bound"
holds at every moment. `Accounted` says whatever is stored is listed, or about to be listed, or about to
be deleted by some put; `Watched`, that while the list is too long some put has yet to look at its
length again. When no put is under way both excuses are gone. `Solo` describes a put that has
overlapped with no other, step by step, against the operators of `Retention`. `RoomInv` counts: a put
that found the list too long evicts later, behind whatever the others do in between. Take as promised
the threads that are listed and those that some put has taken off the list to set them again. While
puts are waiting to evict, what is promised and the most puts that ever overlapped exceed MaxThreads
by at least the number of those waiting, because only an eviction takes a thread from the promised
ones, and a put that joins the waiting has just seen more than MaxThreads listed. At an empty list every
promised thread is in the hands of a put that is not waiting, so a put about to evict there means that
twice the puts that overlapped is at least MaxThreads plus three.

*The service.* `SInv` joins what workers carry to what is stored: a request under way has a thread some
caller was given and a decision someone entitled sent (`Jobs`); the list names what is stored (`Held`);
a case is investigated by one request alone (`Own`); a case that was never dropped tells by its
channels and its next node how far it has come, and so do the request that works on it and the
answer its caller got (`Whole`); a
reviewer's request that no other overlapped finds its case waiting until it records (`Turns`).
`SaverKeepsTheNewest` rests on `NewestOfTouched` in `RetentionProofs`: for a list without repetitions,
evicting before a write or only after it makes no difference, so the saver needs no memory of the
threads it dropped.

*The gateway.* `FirstWins`: the first builder's graph is the cache, and before it nothing is
investigated. `UsedOnce`: any other graph serves one request, its builder's. The cache is one of the
builders, which is why the loss is smaller than the number of workers. `SignInv` carries the
caller's token and the approver's name from the dependency that checked them to the decision, across
the restarts in between. `ParserIsAccurate` says what an accepted `API_TOKENS` of any length turns
into: after any number of entries the table holds, for every token named so far and no other, the name
and role of the one entry that names it. From it both directions follow: who is admitted is in the
configuration with that name and role, and who is in a well-formed configuration is admitted.

*Rules and tools.* The code looks for a pattern from an anchor; the definitions speak of any set of
deposits. A window from an anchor is such a set (`GroupsAreClose`), and any such set lies in the
window of its earliest deposit (`CloseIsGrouped`), whose sum is no smaller (`TotalGrows`). More
evidence keeps every pattern, because the windows of the same anchor only gain; the points of a rule
and the capped sum are monotone, and the floors only raise the level. For what was shown, each rule
is followed to the figures of the aggregate: a count of a subset, a sum that covers each of its
terms, the number of distinct values, in any window that starts no later than the one scored. The
listing rests on `ByTimeSorts`: the window in order of time exists, so the CHOOSE of `ByTime` is
one, a row that is not shown stands behind every row that is, and a row can be missing only where
one of the two cuts left its flag.

Sums over sets, the token parser, the answering order and the ordered listing compute by recursion or
by CHOOSE over data of any size. They are proved without an induction theorem: a set that were a
counterexample would have a smallest one, by the well-foundedness of proper inclusion
(`FS_StrictSubsetOrderingWellFounded`, `WFMin`), and for functions on an interval of numbers the
same on the sets of positions (`SubsetInduction`, `IntervalInduction`). Where a definition is a
recursive function, its existence is proved first (`SelectionExists`, `ParsingExists`, `SortingExists`).

Only model-checked: the liveness properties `ReachesItsReport`, `ReplyIsRecorded`, `GetsItsFinding` and
`CommandConcludes`, which need fairness and ENABLED. The runs that expect a violation show that their
four properties fail; nothing is proved about those.

## 5. The plan

Done: the graph with its abstract specification, the specialist loop, the saver, the service, the
graph cache under the gateway, tokens and settings, the rules with the transaction tools, the
scripted case, and proofs of every safety property of all of these. Left, in this order:

1. The specialist's superstep as an abstract specification that `SpecialistLoop` implements, so that
   `Investigation`'s `RunSpecialist` is its image.
2. That `Gateway`'s approval in one step is what `Service` does in four for a case that no two
   reviewers decide at once.
3. The thread reuse check of `run_investigation` (`service.py:126`), with two callers on one id: only
   a test passes an id, so it takes a caller inside the process.
4. The policy search, if it comes to decide anything.

`MaxSupervisorSteps`, `MaxVisitsPerAgent`, `RecursionLimit`, `MaxThreads` are constants in every
module that uses them and stay so.

## 6. Findings

1. **Two approvals of one case.** `resume_investigation` reads the snapshot, finds an interrupt and
   then invokes the graph. A second request that read the same snapshot invokes a finished graph,
   which does nothing and returns the state: 200 OK for a decision that was not recorded
   (`ServiceApprovalRace`), against the promise in `approve_investigation`.
2. **Eviction of a running case.** The saver evicts by last write; a case in a long model call can be
   the oldest. Its next checkpoint stores only what that superstep changed, and the case is readable
   again without its inputs (`ServiceEviction`), although its eviction was logged as final.
3. **Cold start.** Concurrent first requests compile a graph and a saver each; a case of one that lost
   is not found by later requests (`GraphCacheColdStart`). `LossIsBounded` bounds the damage.
4. **The fallback report.** It can fail the schema it is the fallback for, which ends the investigation
   (`InvestigationFallback`); ARCHITECTURE.md says malformed output never does.

Also seen, without a promise to hold it against:

* nothing relates `GRAPH_RECURSION_LIMIT` (at least 5) to `MAX_SUPERVISOR_STEPS` (at most 50); a pair with
  less than twice the steps plus four can end cases in GraphRecursionError. That error may come after
  the report was checkpointed: a finished case is then answered 500, and a HIGH one stands before the
  gate without an interrupt and cannot be approved (`AnswersTellWhatIsHeld` says exactly when);
* between `popitem` and `delete_thread` another put can list the same thread again, which is then
  listed with nothing stored (`KeepsWhatItPromises` fails in `Saver` without its condition on overlap);
* a KeyError of `popitem` during an approval is answered 404 after the decision was checkpointed;
* an `API_TOKENS` of a lone comma is not blank, so the process starts, and names nobody, so it admits
  nobody; a malformed value is likewise noticed only when a request comes;
* `ENVIRONMENT` is compared, in lower case, with `production` and `prod`: any other value is a
  development process, in which authentication may be off;
* with a step budget below three the script ends before the risk score, and a customer under sanctions
  is reported by whatever the first two specialists found, without the gate;
* a rule-engine answer longer than `MAX_TOOL_RESULT_CHARS` is cut in the middle of its JSON, and the stub
  reads it as LOW; an unknown customer is LOW too, and an in-scope query that names no customer is
  investigated against C001;
* a truncated listing keeps the oldest rows, so the activity a rule is about is the first to be left
  out. It is still in an aggregate of the same window;
* `lookback_days` is chosen by the model in every call: an aggregate of 7 days followed by a score of 60
  leaves a FRAUD finding resting on activity that no evidence on file shows. `ToolsAgree` speaks of
  windows as long, and of a listing's own window;
* under `TIME_ANCHOR=dataset` one newer transaction moves every window, so that older activity leaves
  the score; `EvidenceNeverHelps` is about transactions up to the reference date.

## 7. Not modelled

* Prompts, report texts and logging: no control flow of their own. What the script reads from a prompt is
  in `ScriptedCase`.
* Provider clients (`core/llm.py`): their failures and answers are nondeterministic here.
* Customer lookup and policy search: read-only text for a model.
* Tool argument schemas: a call they reject is an answered request in `SpecialistLoop`; that `lookback_days`
  is free is in `TransactionTools`.
* The web page: a client of the API.
* The serializer: what a checkpoint loses or keeps in translation is tested in the repository.
* What LangGraph leaves on an evicted thread that is resumed.
* Async use of the saver (`aput`): the endpoints are synchronous.
