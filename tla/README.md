# AI Agent Hunting: specifications, model checking and proofs

The repository is a threat-hunting agent: it takes an alert or a question, asks
data providers (Splunk, an SQLite "CDB") for records, lets a language model
propose explanations, plans and answers, and ends in an account that states
what was found, what was looked at and what was not. The code is under
`src/hunting/` of the repository; paths below are relative to it.

The agent's own loops are single-threaded. What makes it hard is the *order and
outcome of many small steps*: a provider that fails, truncates, or works on a
job its client gave up; a model that answers nothing, something invalid, or
what was not asked; budgets that end in the middle of a step; records, caches
and counters that several phases read and write.

## 1. Inventory

| part | state | operations | files |
|---|---|---|---|
| command line | report file, session | `hunt`, `alert`, `playbook`; sign-off, resumption | `cli.py` |
| compiler, validator | compiled requests | `compile`: rules, model reply, repair, validation, pruning, grounding | `compiler/`, `validator/`, `contracts/semantic_graph.py` |
| model calls | `LLMUsageTracker` | admission, attempts, repair, record | `m2_abduction/provider.py`, `controller/cost.py` |
| capability phase | capability cache, profiles | census, retrieval, profiling, validation, probes, operations made at run time | `capabilities/`, `engine.py` 1034-1500 |
| goal planner | none | routes from subjects to goals, readiness | `planner/semantic_goal_planner.py`, `planner/semantic_readiness.py` |
| semantic plan executor | variables, executions, attempts | passes over steps, alternatives, stages, pages | `planner/semantic_executor.py` |
| hunt action loop | `HuntState`, expectations, cells, queues, `HuntBudgetLedger` | TEST, CONTROL, EXPAND, DISCOVER, PIVOT, REFINE, STOP | `engine.py` 1907-3058, `controller/` |
| claim-graph loop | `CaseGraph` | ask an edge, verify it, bind its target, stop | `engine.py`, `evidence/relation_verifier.py`, `contracts/case_graph.py` |
| text hunts | ledger, cards, adaptive history | discovery, adaptive operations, evaluation | `engine.py`, `planner/adaptive.py`, `evidence/` |
| account | answer, status | derive, propose, verify, reassert | `reporter/builder.py`, `evidence/answer_verifier.py` |
| provider adapters, controls | search jobs | submit, poll, time out, cancel, page; license a negative | `m5_adapter/` |
| orchestrator (M1 to M4) | `InvestigationState`, ledger, frontier, abduction runtime, budgets | `investigate`: TEST, EXPAND, SAMPLE, abduction epochs, verdict | `orchestrator.py`, `m1_ledger/` to `m4_controller/` |
| clarification, testimony; query gate; exports | own records, or none | reached by tests only; decisions about text; rendering | `human_loop/`, `query_safety/`, `m5_reporter/` |

`cli.py` runs `orchestrator.investigate` for an alert and `engine.execute_hunt`
for a hunt or a playbook. A hunt is compiled, its providers are counted and
profiled, its goals planned; then it goes one of four ways: the plan of a graph
of semantic goals, the loop over a claim graph, a text search with adaptive
operations, or the action loop over hypotheses. All of them query through the
adapters, put rows into the append-only ledger, and end in the account that the
builder draws from cards, rows and model replies. One engine serves a session,
so its capability cache, its tracker of model calls, the card builder and the
hypotheses of a cached compilation outlive a hunt.

**What is hard, and what correct means there.**

- *Orchestrator.* The batch of an abduction epoch is chosen before the model
  answers, and the answer may be an exception (retried, then given up), empty,
  invalid, or reuse ids. No evidence may be lost or used twice; a rejection
  must rest on a test, a verdict on what is true when it is drawn.
- *Plan execution.* A step's execution may be partial while later steps use its
  output; an earlier alternative's result may be read after a later one was
  skipped. Supported goals must be grounded, exhaustion must mean it.
- *Action loop.* Tests, controls, expansions, sweeps and pivots fill each
  other's queues, and five budgets end the loop anywhere. Support must rest on
  rows, rivals must exclude each other, a hunt that stops by itself must have
  left nothing undone.
- *Claim loop.* A claim is asked with what another claim's proof gave, and a
  row counts for the claim that saw it first.
- *Searches.* The server works when the client gave up; records are indexed
  between pages, and between a query and its controls. Complete must mean whole
  and a licensed negative must be one.
- *Capability phase.* A capability cached by an earlier hunt meets a source
  whose schema has changed; what a model proposes passes validation, cache,
  probe and contract, and each hunt enters this sequence at another point.
- *Answers.* Rows, cards, candidates and model replies reach the verifier by
  different ways, and a negative is set, verified, reset and reasserted.
- *Runs.* A run may stop in a dozen places; calls of the model are repeated,
  refused or time out; what a reply invents must not start a hunt.

Parts without protocol state (text rendering, normalization, template filling,
ranking, YAML loading) are listed in `PROJECT.json` with the reason.

## 2. Plan

1. Orchestrator core: model, properties, refinement, proofs. *Done.*
2. Semantic plan execution: model, properties, refinement, proofs. *Done.*
3. Hunt action loop. *Done.*  4. Claim-graph loop and relation verifier. *Done.*
5. Searches of a provider and their jobs. *Done.*
6. Capability phase and goal planner. *Done.*
7. Text hunts, goals and the account, over a session. *Done.*
8. Model calls, the compiler's graphs, runs of the command line. *Done.*
9. Proofs: grounding, finality and exclusion of the action loop, seeds and the
   report file of runs. *Done.*
10. Proofs of every other safety property the runs check: resolved verdicts,
   leftovers and `EvidenceFlow` of the orchestrator, exhausted routes, what the
   action loop leaves, the claim loop, searches, the capability phase with the
   planner's routes, answers, executed graphs and the ledger of calls. *Done.*
11. What a proof could still add. An abstract specification of a search (a
   window of records and the prefix read), which `ProviderSearch` would be shown
   to implement; the type invariants of the action loop and of runs for
   every instance; the lemmas on numbers, which each proof module has for
   itself, in one place.

## 3. Modules

| family | modules | properties | instance |
|---|---|---|---|
| orchestrator | `Hypotheses`, `Stopping`, `Orchestrator`; abstract `EvidenceFlow`; `OrchestratorProofs` | `OrchestratorProperties` | `MCOrchestrator` |
| plan execution | `SemanticPlan`; abstract `ProofChain`; `SemanticPlanProofs` | `SemanticPlanProperties` | `MCSemanticPlan` |
| action loop | `HuntLoop`, `Lists`; `HuntLoopProofs` | `HuntLoopProperties` | `MCHuntLoop` |
| claim loop | `RelationVerifier`, `ClaimLoop`; `ClaimLoopProofs` | `ClaimLoopProperties` | `MCClaimLoop` |
| searches | `ProviderSearch`; `ProviderSearchProofs` | `ProviderSearchProperties` | `MCProviderSearch` |
| capability phase | `GoalPlanner`, `Lists`, `CapabilityPhase`; `CapabilityPhaseProofs` | `CapabilityPhaseProperties` | `MCCapabilityPhase` |
| answers | `AnswerAccount`, `Lists`, `HuntSession`; `HuntSessionProofs` | `HuntSessionProperties` | `MCHuntSession` |
| runs | `LanguageModel`, `GoalGraph`, `HuntRun`; `HuntRunProofs` | `HuntRunProperties` | `MCHuntRun` |

**Composition.** `HuntRun` composes the compiler's graph (`GoalGraph`), model
calls (`LanguageModel`) and the life of the report file; `CapabilityPhase`
composes the census and the planner (`GoalPlanner`) over several hunts of one
engine; `HuntSession` composes evidence gathering and the account
(`AnswerAccount`) over two executions; `ClaimLoop` runs over
`RelationVerifier`. The families meet where one treats as a choice what
another works out: `HuntRun` says only that a hunt has queried or has cards,
`SemanticPlan` and `HuntLoop` take any rows from `query`, which
`ProviderSearch` models, and `HuntSession` takes whether a goal is complete,
grounded and licensed, which `SemanticPlan` decides.

Every module with a type invariant states it in its properties module;
`Orchestrator` and `ClaimLoop` check theirs in the runs.

### Orchestrator

`phase` is the program counter: `act` (top of the `while`), `trigger`
(`should_call`, after an action, or once after the loop when `final`),
`abduce` (between calls of `generate`), `conclude` (`evaluate_stopping` and
`emit_final_account`), then `emitted`, `refused` (`PermissionError`) or
`crashed` (`KeyError` from citation integrity, `AttributeError` from a test that
names no scope).

| action | code |
|---|---|
| `Stop` | budget test of the `while`, the two `break`s |
| `TestUnasked`, `TestAsked`, `ScopeCrash` | the TEST branch, without and with a query, and with one that raises |
| `Expand`, `Sample` | the EXPAND and SAMPLE branches |
| `Trigger` | `should_call` after an action and the final flush test |
| `AttemptFails`, `GiveUp`, `EmptyResponse`, `InvalidResponse`, `Absorb`, `CitationCrash` | the outcomes of `_execute_abduction_epoch` |
| `EmitFinalAccount` | the verdict and the emission |

Each action includes everything its branch does: rows enter ledger and pending
set together with the query log, discovered entities get their cells in the
same step, and M3 judges in the step that set the test's status.

Lists with unique keys are functions (`explanations` by label, `expectations`
by id) with the list position kept in `born`; a set of `pending` ids replaces
the Python set, and `sorted(pending)[:n]` is the set of the n smallest.
`submissions` is a history variable: it appears in properties only. Rows carry
no fields, so the field predicate is a choice between confirmed and refuted;
the three control queries are a choice between licensed and not.

### Plan execution

The executor is one function of nested loops; `phase` says which loop the
thread is in: `pass` (over the steps), `stage` (of an operation), `query` (a
page for one value), `settle` (the candidates' results become one), `bind`,
then `judge` (the engine), `done` or `crashed` (the ledger's `ValueError`).

| action | code (`planner/semantic_executor.py`) |
|---|---|
| `SkipFinished`, `EndPass` | the pass is over a copy of `remaining`; a pass without progress is the last, leftover steps get their reason |
| `SelectBound` | the output holds verified values: recorded as selected |
| `Wait`, `Block`, `Begin` | the tests before a step: dependencies, upstream proof, candidate inputs, missing inputs, fan-out |
| `SkipStage`, `OpenStage` | the no-progress signature |
| `QueryPage` | one call of the adapter, the page loop's four exits, the continuation, the joining of pages |
| `Settle` | the joining of candidates, the attempt, the exit of the stage loop |
| `StagesDone` | the `else` of the stage loop |
| `Ambiguous`, `BindOutput`, `BindNothing` | output bindings, provenance, the exit of the alternative loop |
| `Judge` | route assessments, then `engine.execute_semantic_plan`: ingestion, verdicts, stopping decision |

A step has one input and one output variable and advances at most one goal, as
the planner composes them. `bindings` joins `variables` and
`binding_provenance`: all values of a variable have one status. `last` is the
Python variable `result`, which keeps its value between stages, alternatives
and steps; the model keeps it for the same reason. What a page holds is any
`RowLists` value, so pages may fail, be short, repeat or come without end.

### Action loop

One iteration is one action: `Turn` (record the turn, test the budgets, queue
idle entities) and the first possible of TEST, CONTROL, EXPAND, DISCOVER,
PIVOT, REFINE, STOP, each with the judgement of the hypotheses
(`Network`) that follows it, as the branches of `engine.py` do. `RunLate` and
`StopLate` are the runtime clock: it may pass its limit at any time and never
has to. `expectations` is the list of (hypothesis, requirement, entity) in the
order they were added, `cells` the frontier, `expand`, `pivots` and `controls`
the queues.

A row is a record of a host, the entities it names beside it, its source, kind,
the predicates it meets, its fingerprint and its time. A card is what the code
makes of a *group*: all rows the ledger holds of one fingerprint, old ones and
those of this query. Its entities and values are those of all its rows; its kind
is "process" if any of them is one, else what the last row is taken for
(`KindAfter`). A TEST judges its expectation by the cards its fresh rows touch
(`CardsOf`, `Satisfies`). So a card changes when a row joins it, and a
confirmation may take the entity from one row and the value from another.

Abstractions: the subject is not a person; the caps on a card's summaries (five
values a field, twenty entities), `ABSENT` predicates, the relations a card
writes out, and aliases of hosts by address are left out, as is the cap of five
hosts a sweep promotes; claim graphs belong to the next family.

### Claim loop

One iteration asks the best unproven edge whose source is known (`Rank`, the
planner's score), verifies it with the rows that the ledger did not have
(`RelationVerifier`), and on success binds its target. `bindable` is any set of
claims an operation can serve. Only graphs with a mandatory claim are modelled:
without one the engine keeps its legacy graph and an untyped verifier
(`relation_verifier.py` 892-1248).

### Searches

Records are numbered `1..stored` in the order they were indexed. The form of an
operation says how its search is written: `candidates` (dedup), `records`,
`evidence`, `text`, `identity`, `outbound` for Splunk (`_build_spl`), `sql` for
CDB. The modes are the executor's page walk, the orchestrator's test and the
hunt's test; the last two run the controls when the answer is empty. A job is
kept from its dispatch until it is picked up or ends; `Break` and `Cancel` may
leave it running; `Run` may finalize it with a prefix (`dispatch.max_time`).
`Arrive` indexes a record until `Settle`. A page after the first is
`head (offset + limit + 1) | tail (limit + 1)`: `tail` returns the last rows with
the last one first (`LastRows`), and the adapter keeps the first `limit` of them.

### Capability phase

`Request` begins a hunt; the phases are `lookup` (cache), `profile` (one call
of the model per goal and batch), `probe`, `gate` (materialize, plan, choose the
way). `Drift` changes a schema between any two steps. `cache` and the call
counter outlive a hunt. `queried` records what was sent to the source: probes
(`Probe`, failed ones too), a plan, claims, a text search. A probe may succeed
whatever has drifted, since the fields it maps may still be there. A graph whose
plan has no step and nothing unresolved falls through to the text search
(`FallsThrough`), as in the code; only a graph without goals has such a plan, and
the compiler refuses one (`compiler.py:305`). Abstractions: the frontier and the catalog index only
feed the audit; claims are matched by relation; the path of an explicit legacy
adapter is left out; the verdict of the execution is a choice.

### Answers

`HuntSession` has the two ways to evidence: `Discover` (with its relaxation
levels), `FollowUp`, `DiscoverSchema`, `Adapt`, `Settle` for a text, and
`ExecuteGoal`, `Judge` for a graph of two goals; then `Analyze`, `Account` and
`Resume` (a second execution by the same engine after the analyst chose). Rows
keep what answers look at: the fact, the group, whether they name the artifact,
a version field, a printed version, a site. `AnswerAccount` has grouping, the
derived candidate, the verifier and the status of the account.
Abstractions: binding by substring is equality; hosts of cards, alternatives
and stages are booleans (`proof`, `licence`); the session is interactive; of a
model reply only value and citations matter.

### Runs

| action | code |
|---|---|
| `Begin`, `StartFails` | `cli.py` 640-905: the command, and what fails before the engine begins |
| `Compile*`, `CompilerReplies`, `CompilerFails` | `compiler.py` 724-1351 through `GoalGraph` |
| profiling, planning, refinement | `engine.py` 1262-1345 and 3023-3045, `planner.py` 111-262 |
| `Halt` | an exception of the engine or a declined plan: `write_hunt_abort_artifact` |
| `Evaluate`, `Sign`, `Decline`, `Resume` | `engine.py` 3060-3096, `cli.py` 1054-1106 |
| `PromptRaises` | `cli.py` 1076-1085: the prompt for a candidate, outside every `try` |
| the alert command | `cli.py` 1116-1188 |

`LanguageModel` is one call: `Preflight` with reserve and component limit, the
attempts with their timeouts and the repair, `Finish` with the record, which may
be refused after the request was sent. `GoalGraph` is the composition of the
five functions a reply passes: refuse, normalize, demote, prune, ground. `needs` of a
goal is its entry in the effective table of dependencies: a reply's own table
overrides what a relation lists (`semantic_graph.py` 338, 452). Validation reads
that table; the planner reads neither.
Abstractions: what queries return is left to the other families; record status
and audits are left out; so is `KeyboardInterrupt`, but at the prompt for a
candidate, where it ends the command as any other exception does.

## 4. Runs

Each property has a mutant in `PROJECT.json`: a plausible bug of the mapped
code that violates it.

| run | instance | shows | states |
|---|---|---|---|
| `core` | two scopes, one with an adapter of its own; a requirement no provider supports; five model responses (one accusing, two weighing classes, one reusing labels and ids with a test that names no scope, one proposing nothing) | evidence is handed over once and in batches, the record is not rewritten, verdicts are licensed, the case ends | 600 390 |
| `plan` | six plans: a chain of three steps with alternatives, goals that share a subject or an object, an object the request names, its continuation, a fan-out that is too wide | supported goals are grounded, exhaustion means it, no step is dropped, the chain of proofs, termination | 257 917 |
| `hunt` | a web attack and its benign baseline; a site, the host that serves it, the account found there | support rests on rows of one card, rivals exclude each other, nothing is left when the hunt stops by itself, conclusions are final, termination | 199 788 |
| `claims` | a chain of three claims, a transition of a file, an optional claim; rows that compete for the first claim | support is proved by rows about the source that was found, a row proves one claim, a resolved hunt is whole | 4 109 |
| `search` | an operation of each form, two searches, five records | pages join but for the row behind the first, complete means whole, a licensed negative is one, no job runs for good | 715 933 |
| `capabilities` | two providers, four graphs, two hunts of one engine | operations are current, what proves was probed, the hunt goes on with what is left to it, routes start at their subject | 154 572 |
| `answers` | text hunts and graphs, with and without a model, and a second execution | what was observed is answered, answers are bound, negatives are licensed, cards hold admitted rows | 713 336 |
| `runs` | two runs, two requests, nine replies | what is executed stands in the request, every request to the model is in the ledger, a run leaves its own file unless its prompt raises, every run ends | 174 335 |
| `completeEmptyHasNoRows`, `refutedHasNoMatch`, `negativeIsSettled`, `failedRunLeavesNoStaleReport` | the instances of `plan`, `hunt`, `search`, `runs` | statements of the repository the code does not keep, section 6 | |

**Bounds.** They are large enough for the cases the properties are about:

- *core*: `MaxObs` 3 with batches of two makes a full batch, a leftover and a
  batch of one; `MaxRows` 2 lets one result fill a batch; `TMax` 5 and `QMax` 3
  let either budget end the loop; `MaxCalls` 2 with one retry covers a retry, a
  give-up, the cap and the breaker; two labels, ids and tests make a tie, a
  rejection, a weakening and every reuse of an id. With `QMax` 4 (2.0 million
  states) the invariants hold too; liveness takes too long there.
- *plan*: two pages make a first, a last and a cut-off page; `MaxBindings` 2 a
  fan-out, a full one and one too wide; rows bind no value, one or two.
- *hunt*: 16 turns and 10 queries let the loop stop by itself after every
  queue was used, and each budget (turns, queries, scans, model calls, clock)
  ends some behaviours. One pivot suffices to pass the cap.
- *claims*: six turns for four claims, two rows that name different accounts,
  two that are states of one file, `MaxDelta` 2 between events 1 to 3 apart.
- *search*: limit 1 makes an L+1 row, three pages a walk that stops at
  `max_pages`, five records a page that shifts by more than its length: only
  then could a hole among the older records appear; a second search meets the
  job the first one left.
- *capabilities*: two schemas per source, a profiler limit below the call
  limit, two hunts so that the second finds what the first cached.
- *answers*: four groups, three values, one row a query, two adaptive
  operations: rows of one group come from two queries, and two values compete.
- *runs*: four calls and 14 token units with a reserve of two: each limit
  refuses some call; two attempts; two gaps; two runs share the file.

**Types.** Every family has a `TypeOK` in its properties module; `core` and
`claims` check it as one of their invariants, and it holds on the instances of
the others.

**Deadlock** is not checked: investigations, plans, hunts, sessions and the
last run end.

**Fairness.** One thread runs each loop and waits for nothing but provider and
model calls, which return or raise, since both clients set timeouts. So
`core`, `plan`, `hunt` and `runs` assume weak fairness of the program's own
step (`Next`, `Iterate`, `Step`) and of no outcome: a provider that always fails
is allowed, as is a model that never answers well. The runtime clock is not
fair. In `search` the client is fair and so is the server about each job,
because `dispatch.max_time` ends it; indexing and settling are not. `Begin` of a
run is not fair: nobody has to start one.

**Refinement.** `EvidenceFlow` has four variables: `waiting` is the pending
set, `handed` the processed set, `closed` the end of the case, and `batches`
counts every counted call, plus the one batch that is given up, which is what
`dark` records. `ProofChain` has a grade and a basis per variable: the status
of its binding, and the input of the step that made it.

## 5. Proofs

Eight modules prove what follows for every value of the constants that
satisfies the assumptions the modelled modules name. Each one has the same
argument: an inductive invariant that contains the property, one lemma per
action or kind of step, and lemmas about the operators those steps use. Every
safety invariant, action property and refinement of a passing run has its
theorem; liveness has none.

### The orchestrator

`OrchestratorProofs`, from `OrchestratorAssumption`: finite scopes and entities,
well-formed responses, natural-number bounds, batches of at least one, and a
`NoContext` that is no context.

| theorem | statement |
|---|---|
| `EvidenceIsPartitioned` | `Spec => []EvidencePartition` |
| `TypeCorrect` | `Spec => []TypeOK` |
| `CallsAreBounded`, `TurnsAreBounded` | `Spec => []CallBudget`, `Spec => []TurnBudget` |
| `RejectionsAreGrounded` | `Spec => []RejectionHasRefutation` |
| `RecordOnlyGrows` | `Spec => RecordIsAppendOnly` |
| `ResolvedStandsAlone` | `Spec => []ResolvedIsUnblocked` |
| `LeftoversHaveReasons` | `Spec => []LeftoverExplained` |
| `InvestigationImplementsFlow` | `Spec => RefinesEvidenceFlow` |

*Partition.* `EvidencePartition` is inductive as it stands: rows are fresh
(`ResultsFresh`), so a query adds them to the ledger and to pending; an epoch
moves a batch, a subset of pending, to processed.

*Types.* The work is in the operators: the lists of cells (`TableIndex`,
`CellsOfType`), M3's judgement (`JudgeType`), a response's records (`AddType`),
the verdict (`VerdictType`).

*Budgets.* Neither `CallBudget` nor `TurnBudget` is inductive: that an epoch
does not pass the cap depends on what `should_call` saw when it began, and that
a turn does not pass the turn budget on what the `while` test saw. `BudgetInv`
adds both facts to the phases in which they matter. As they are proved for
every configuration, the runs do not check them again.

*Rejections and record.* `JudgeVerdict` states what M3 does to one explanation
given one concluded test; `ConcludeRecord` lifts it to the tables;
`AbsorbRecord` says that responses only add. Because the tested expectation was
untested, no outcome is redrawn; because a rejected explanation is skipped, no
rejection is touched.

*Resolved accounts.* That the verdict names one class of best support is
arithmetic over a finite set of explanations (`SomeoneLeads`). What needs an
invariant is that those it compares are comparable. M3 is handed one concluded
expectation at a time, so an explanation is either live, unrefuted and confirmed
at most once, or rejected: `EachJudgedOnce`, kept by `JudgeOnce`. `AccountInv`
joins it with "there is an account in phase `emitted` only".

*Leftovers.* `LeftoverInv` says that the batch of the last context was consumed
and that prompts are at least as many as counted calls, more while an epoch is
on. A context met again would hold a batch that is still pending
(`ContextIsNew`), so an epoch that stops short does so for one of the reasons
named; a batch that is not full is all there was (`BatchIsFull`).

*Flow.* A query is `Collect`, an epoch's end `HandOver`, everything else a
stutter (`FlowStep`). That a batch is within the abstract bound is
`BatchIsBounded`; that there are at most `MaxCalls` of them comes from
`CallBudget`.

### The plan executor

`SemanticPlanProofs`, for every catalog of operations and every set of plans
that satisfy the assumptions of `SemanticPlan`: well-formed steps, at least one
stage and attempt per operation, positive bounds.

| theorem | statement |
|---|---|
| `PlanImplementsChain` | `Spec => RefinesProofChain` |
| `NoStepIsDropped` | `Spec => []NothingDropped` |
| `SupportIsGrounded` | `Spec => []SupportedIsGrounded` |
| `ExhaustedMeansAsked` | `Spec => []ExhaustedAskedAll` |

*Chain.* A step that writes a binding wrote it because its input was verified
when it began and its output was not; `ChainInv` carries both facts from
`Begin` to `BindOutput`, through alternatives and stages, and is what makes
`BindOutput` a derivation of the abstract specification.

*Dropped steps.* `DropInv`: a step outside `remaining` has an execution (or is
about to get one), and the record of executions only grows.

*Grounding.* `GroundInv` adds to the chain that a verified value a step made has
an execution of that step that proves it, and that an execution that proves
something had a verified input, which, being verified, is never touched again.
It needs that a result that reaches the binding phase complete is not empty.

*Exhaustion.* `Judge` reads the attempts, the property is about pages.
`RouteInv`: every attempt has a page on record, also the one `Settle` is about
to add; pages stay on record.

### The action loop

`HuntLoopProofs`, for every objective, set of rows, provider and budget that
satisfies the three assumptions of `HuntLoop` (the third: entities are finite,
and rows name entities).

| theorem | statement |
|---|---|
| `SupportRestsOnRows` | `Spec => []SupportIsGrounded` |
| `ConclusionsStay` | `Spec => ConclusionsAreFinal` |
| `RivalsExclude` | `Spec => []RivalsNotBothSupported` |
| `NothingIsLeft` | `Spec => []StopLeavesNothing` |

*Grounding.* `SupportIsGrounded` is not inductive: the reasoner keeps the status
`SUPPORTED` of a hypothesis whose expectations say nothing any more. `LoopInv`
splits it in two: what is confirmed is met by rows of one group of the ledger
(`Confirmations`) and what is supported owns a confirmed expectation
(`SupportIsOwned`). The rows stay when the card changes, as the ledger only grows
(`GroundedLater`), and one of them is of the card's kind (`KindOfRow`). For the second,
confirmations must last, which the controls could undo if one of them were
about a confirmed expectation; so `ControlsWait` says that what waits for its
controls is inconclusive and waits once. `NetworkGrounds` is the fact about the
reasoner, `TailIsOnce` and `AppendedOnce` those about the queue.

*Finality.* `Finality` is what the property asks of one step; `EveryStep`
proves it with `LoopInv'` from `LoopInv`. That nothing waits twice matters here
as well: a second verdict could turn refuted into inconclusive.

*Exclusion.* Whatever table of statuses and cards the reasoner is given, an
attack it supports refutes the baseline (`NetworkSeparates`); the guard of
`evaluate_stopping` only weakens.

*Nothing left.* STOP is chosen because lists are empty; the property is about
everything that has a status. `ListInv` says that the list of expectations holds
all of them. The list of idle entities is a comprehension with a test
(`Lists!Kept`); that it holds exactly what passes the test, for lists of any
length, is `KeptIn`, by induction.

### The claim loop

`ClaimLoopProofs`, for every claim graph, set of rows, provider and budget that
satisfies `GraphAssumption` and `VerifierAssumption`.

| theorem | statement |
|---|---|
| `QueriesAreBounded` | `Spec => []TypeOK`, with at most one query a claim |
| `SupportIsProved` | `Spec => []SupportedIsProved` |
| `RowsProveOnce` | `Spec => []OneProofPerRow` |
| `ResolutionIsWhole` | `Spec => []ResolvedIsWhole` |

`ClaimInv` joins six facts to the types. `VerifierIsSound` states what a
verification gives, whatever the rows: fresh rows of the answer that hold the
relation about the source asked with. `Counted` says that queries are the claims
that have a status, `GoesOn` that the first failure ends the loop. The risk is
the binding of targets: a claim's source is another claim's object, and the
object is written when that one is proved. `Nodes` says that an object has no
value of its own before its edge is verified, and is never rewritten after; so
`Earned`, what a verified edge rests on, stays true while other edges are
proved. Freshness makes proofs disjoint.

### Searches

`ProviderSearchProofs`, for every form of every operation, limit, number of
pages and capacity of the server that satisfies `SearchAssumption`.

| theorem | statement |
|---|---|
| `SearchKeepsTypes` | `Spec => []TypeOK` |
| `PagesDoJoin` | `Spec => []PagesJoin` |
| `CompleteMeansWhole` | `Spec => []CompleteIsWhole` |
| `NegativesMeanAbsence` | `Spec => []LicensedIsAbsent` |

The properties look at pages that were read at different moments of a growing
index. `Traced` gives each page its moment: there are times, not falling from
page to page and within what was stored when the search began and now, such
that page *i* is what the form's search returns of the records there were then
(`OnePage`), and it is complete by the L+1 rule (`WholeIs`). `TraceInv` says it
of the pages read and, because the answer may be on its way while records are
indexed, of the pages with the one of the ended job.

From a trace the rest is arithmetic. A first page is an interval counted from the
newest record of its moment. A later one is an interval too, but turned around:
what its cut drops is its newest row. Every later page begins and ends one row
older than it should, so nothing is lost between two of them; between the first
page and the second the row behind the first one is (`BehindLater`). So of the records there
were at the start those read have no gap but that row (`FallingJoin`, by
induction over pages). Candidate searches page over distinct names; for them the
statement needs that nothing was indexed. Of these
searches only a first page is ever complete, which is the page
`CompleteIsWhole` speaks of. A licensed
negative was whole and empty over a window that had settled, and `AskedInv` says
that nothing comes after settling.

### Capability phase

`CapabilityPhaseProofs`, for every set of graphs, providers, censuses and
contracts that satisfies the assumptions of `CapabilityPhase` and
`GoalPlanner`. `GoalsAssumption` is what `SemanticGoalGraph` checks
(`contracts/semantic_graph.py:334`): two goals of one graph have two ids.

| theorem | statement |
|---|---|
| `CachedIsCurrent` | `Spec => []OperationsAreCurrent` |
| `ProposalsProveNothing` | `Spec => []ProofIsProbed` |
| `HuntsGoOn` | `Spec => []GoesOnWithWhatIsLeft` |
| `RoutesAreTheirOwn` | `Spec => []RoutesStartAtSubject` |

*Cache.* `PhaseInv`: a capability is cached under its own source and schema
(`CacheInv`), what was found in the cache was found under the schema of this
census (`HitsInv`), and an operation rests on a capability of that schema that
this hunt probed or found (`OperationsInv`). A drift of the schema touches none
of them, as the hunt keeps to its census.

*Routes.* A property of what the planner computes, over its four nested loops:
rounds over the graph, goals of a round, words of a route, letters of a word.
Each loop is a recursive function and has a lemma by induction. `FirstIsAWay`:
the route chosen is one of the shortest words that lead from the subject to the
object. `Routed` is the invariant of the plan under construction: steps are
listed, a step waits for earlier steps that give what it takes, a goal has one
step and it comes at the end of its own route. `AddedIsRouted` says that one
more step keeps it, `WalkIsRouted` that a route does, then `ConsiderIsRouted`,
`PassIsRouted`, `ComposeIsRouted`. `RouteInv` ties the plan to the graph of the
hunt.

*Going on.* That the planner leaves out no goal it could test is not visible in
one round, since what a goal needs may be listed behind it. Every goal is still
left or has its step, and the output of a goal with a step is known
(`Accounted`). A round that moved has one goal less to go (`ConsiderCounts`,
`PassStep`), so after one round more than there are goals the last one moved
nothing (`CountedPass`): it tried every goal that was left and found no way, with
all that is known at the end (`ComposeIsComplete`). `PlanInv` carries this from
the plan's making to the end of the hunt, through the guards.

### Answers

`HuntSessionProofs`, for every set of rows, requests, operations and bounds that
satisfies `SessionAssumption` and `FieldsAssumption`.

| theorem | statement |
|---|---|
| `SessionTypes` | `Spec => []TypeOK` |
| `CardsAreAdmitted` | `Spec => []OnlyAdmittedRowsBecomeCards` |
| `AnswersAreBound` | `Spec => []AnsweredIsBound` |
| `NegativesAreLicensed` | `Spec => []NegativeIsLicensed` |
| `ObservedAreAnswered` | `Spec => []ObservedIsAnswered` |

`SessionInv` has four parts: types, with each card holding rows of its own
fingerprint (`StateInv`); the way a session takes (`PathInv`); where the rows of
the ledger come from (`RowInv`); and the cards of a first execution, which are
exactly the admitted rows in their order (`CardInv`, `ExpectedGrows`). The
account is one action, and its pipeline (derive, analyse, verify, reassert,
guard) has a lemma per stage, for answers of any origin: what a concluded answer
cites exists, and no stage makes a negative of anything else than goals that
license it.

`ObservedIsAnswered` makes one exception, which is the code's: a domain is read
from cards of requests only, so a row with a site that is taken for an execution
or a message, or shares its group with one, need not be answered
(`AmongRequests`; section 6, *Answers*). The instance has such rows.

### Runs

`HuntRunProofs`, for every set of requests and of proposals whose records have
the fields of the contracts (`ProposalAssumption`), every limit of the tracker
and every outcome of a request.

| theorem | statement |
|---|---|
| `SeedsStandInRequest` | `Spec => []SeedsComeFromRequest` |
| `FileIsTheRuns` | `Spec => []ReportBelongsToRun` |
| `PruningLeavesWhole` | `Spec => []ExecutedGraphIsWhole` |
| `LedgerIsWhole` | `Spec => []EveryRequestIsAccounted` |

*Seeds.* `SeedsAreNamed` is a fact about the pipeline of one proposal:
validation takes a device's value away, refuses what was invented, and grounding
promotes only what the request names. `GraphInv` says that what is executed
came through it, for the request of this run and the reply of its model.

*Report file.* Many actions end a run, and some of them leave the file alone.
`CallInv` ties the call that is pending to the stage that made it, so that no
answer reaches a run that has ended; `ProgressInv` says what has been done at
each stage: nothing at the start, where a run may end quietly, and something
compiled wherever a report is written. `LaterMoves` and `QueriesAreLicensed`
are the two facts about the steps after compilation. One way out writes nothing:
the prompt for a candidate may raise. The theorem says that this is the only one,
that the file is then an earlier run's, and that it takes a graph that was
executed and left a choice open.

*Pruning.* `Relevant` is the least set of entities that contains the answer's
and is closed under the goals' ends (`RelevantIs`). `PrunedIsWhole` says that
what is left needs nothing that was cut, by the closure; that it has no circle,
because validation refused circles; `PrunedIsRelevant` that every goal left leads
to the answer.

*Ledger.* `LedgerInv`: tokens are the sum of the records, and requests the sum of
their attempts plus those of the call that is being made; while one is made its
record has room, since admission looked. The sums are recursive functions over
the list of records; that appending a record adds its number is by induction.
It needs that the components that call the model are known by name.

### What is only model-checked

Liveness under fairness (`Termination` of four runs, `EveryRunEnds`), which is
out of the prover's reach, as is `ENABLED`. So the theorems say nothing about a
hunt that never ends; the runs do, on their instances.

Induction over data is done where a proof needs it. The library's induction
theorems take an operator and cannot be used; each proof module has instead a
least-number lemma from the well-foundedness of the naturals and an existence
lemma per recursive function. `SelectSeq`, `FlattenSeq`, the folds, and the order
in which `SetToSeq` lists a set stay opaque to the provers. Where a proof would
have looked inside, the model has a recursive function (`Lists!Kept`); elsewhere
(readiness, candidates by frequency) the theorems hold for whatever they return.

## 6. Where documents and code differ

Four statements have a run that exhibits the difference; `PROJECT.json` quotes
both sides.

| statement | what the code does |
|---|---|
| `CompleteEmptyHasNoRows` | a skipped query records another step's rows as its own |
| `RefutedHasNoMatch` | rows the ledger has make no new card, so a second expectation about them is refuted |
| `NegativeIsSettled` | the hunt passes an `as_of` that defeats the ingestion-lag test |
| `FailedRunLeavesNoStaleReport` | runs that fail before their engine leave the last report in the file |

The following were found in the same way while modelling, by TLC or in writing
an action; the models behave as the code does.

*Orchestrator.*
- One refuted test rejects an explanation (`orchestrator.py:405`, against
  `contracts/explanations.py:21`). Failed, unserved and uncompilable sweeps
  close their cell as explored (465, 522, against `ledger.py:204`). An
  unsupported requirement refutes its expectation (353, against `controls.py:9`).
- A citation of an unknown observation raises `KeyError` out of `investigate()`
  (`integrity.py:32`), after candidates before it were stored. An expectation
  whose `provider_scope_id` is empty passes `validate_m2_response` and raises
  `AttributeError`: `query.scope_id` (359) does not exist.
- A truncated cell is queried again as it is (`m4_controller/planner.py:114`,
  against 10). Empty answers are free and submitted again (`orchestrator.py:211`,
  against `policy.py:10`).
- `STOP_RESOLVED` can be emitted with a survivor's expectations untested
  (`m4_controller/controller.py:135`, against `state.py:89`); the final flush
  hands over one batch (`orchestrator.py:551`, against 545); a cross-class tie
  alone never ends as CONFLICTED (`controller.py:147`, against `state.py:85`).

*Plan execution.*
- Restrictions may be proved by an operation that returned nothing
  (`engine.py:356`, against 365); candidates become proof when another step
  verifies the variable (`semantic_executor.py:656`, against 77).
- A goal read in part whose step is finished stops as RELATION_UNPROVEN
  (`engine.py:441`, against 431); a value the request names is recorded as the
  user's selection (`semantic_executor.py:177`, against 186); exhaustion looks
  at the stages of the last operation only (694, against 693), which
  `ExhaustedAskedAll` does not speak of; an ambiguous
  output asks for a decision and offers nothing to decide on (552, against
  `builder.py:995`), and the request for it is never withdrawn (258).

*Action loop.*
- A turn that finds a budget used up stops without `evaluate_stopping`, so a
  web compromise stays SUPPORTED on a web request alone (`engine.py:2250`,
  against "Process creation or web request alone cannot conclude full web
  compromise", `controller/controller.py:200`).
- REFINE records a model call every turn while an ambiguous card exists, though
  the evaluator may make none (`engine.py:3040`, `evaluator.py:362`); with the
  budget of calls used up the hunt stops as exhausted even when it is resolved
  (against "Zero-cost fallback", `cost.py:7`).
- A card is made of all rows of a fingerprint, so a confirmation may join the
  entity of one row and the value of another (`grouping.py` 338-346,
  `evaluator.py` 88-123), and a card that one more row joins changes its kind.
- A confirmed requirement is EXECUTED again after a later test; DISCOVER
  promotes hosts already tested and the same question is asked twice; its
  second query and the control probes are not counted; the turn is recorded
  before the budget is tested, so one turn less acts; an entity no requirement
  fits is queued until the turns are used up; STOP_REFUTED cannot be reached
  with a benign baseline.

*Claim loop.*
- An optional claim that is not verified ends as inconclusive a hunt whose
  mandatory claims are all supported (`case_graph.py:449` and `engine.py:2241`,
  against "Return mandatory edges that remain unproven", 446).
- The `dependencies` of claims are not read; a claim is never REFUTED
  (`contracts/claim.py:12`); `controller.py` 184-195 cannot be reached; a
  transition compares the first and the last row only; rows without id get ids
  that may collide; one failed edge ends the hunt though others are independent.

*Searches.*
- A result cut at its own limit of 500, or finalized by the server, is called
  complete (`splunk_adapter.py:1330`, against "complete only on EOF", 595);
  a page after the first is never complete. `tail` turns rows
  around and the adapter keeps the first `limit` of them (1010-1014, 1981-1985),
  so a later page keeps the look-ahead row and drops its own newest: the row
  behind the first page is never read. A page is counted back from the newest
  record of its moment, so records indexed between two pages may be read twice, and those indexed before
  the second and after the first may be passed over (1008-1014): `PagesJoin`
  speaks of the records there were at the start. Candidate pages may skip
  candidates while records arrive (1109);
  text, sample and identity searches ignore the offset.
- `client_timeout_cancelled_sid` is reported even when the cancellation failed;
  other errors do not cancel the job.

*Capability phase.*
- Without a selected provider the hunt queries the first configured one, which
  the request's hints may exclude (`engine.py:1034`, against `census.py:323`).
- An operation made of a model's proposal takes the place of the descriptor's
  way to prove a goal (`engine.py:1457`, against "supplement, rather than
  replace", 1454); an operation may be made of a mapping that was not the one
  probed (1365-1385, against `runtime_materializer.py:38`).
- Probes are sent whatever the status of the provider in the census
  (`engine.py:1396`). A request whose hints name only providers out of reach goes on
  with the first configured one, which its audit calls excluded.
- When the profiler fails the audit says that coverage is complete
  (`retriever.py:7`); two goals that share a relation share one key, the last
  one's (1102); `invalidate_schema` deletes the keys that do not match, and has no
  caller; a failed index discovery is skipped though the audit says complete.

*Answers.*
- A text hunt concludes an answer whose value only a discovery row carries
  (`builder.py:683`, against "not evidence for the user's answer until a
  targeted goal query verifies them", `engine.py:558`).
- A domain is read from requests only, while the Splunk adapter names a site on
  other rows too (`splunk_adapter.py` 1905-1912, `facts.py` 65-113): an observed
  domain is not answered when its row is an execution or a message.
- `grouping.py:57` takes any row whose text contains "tor" for a process
  execution; the artifact that answers look for may be the name of the person
  asked about; a version field makes the attribute observed whatever the answer
  type; a model's reply replaces a good derived answer and may then be
  downgraded (`builder.py:733`, against 725).
- A failed search is relaxed like an empty one; all adaptive queries may fail
  and the hunt is STOP_BOUNDED; the evaluator is asked once per engine, so a
  resumed execution is not analysed; a hypothesis stays SUPPORTED when the
  answer is reset for a user's decision; after the user's selection the hunt
  can be neither resolved nor negative; `PARTIAL` becomes UNANSWERED; citations
  default to ids that exist nowhere; a discovery row without a time raises.

*Runs and model calls.*
- The tracker records refinement calls that were never made
  (`engine.py:3037-3045`, against "Strict per-hunt LLM cost accounting ledger",
  `cost.py:63`), and not those of abduction; it lives for a session, not a hunt.
- The prompt for a candidate is outside every `try` (`cli.py:1082`): at the end of
  input it raises, after the hunt has queried, and the report of the run before
  stays in the file (against `cli.py:349`).
- A graph with a story around its answer is refused, not pruned: copies of a
  graph share the table of dependencies of the unpruned one and are validated
  against it (`investigation_validator.py` 319-339, against
  `tests/unit/test_phase2_semantic_compiler_goal_graph.py:171`).
- An exhausted budget, or a timeout, of the planner aborts the hunt
  (against "Zero-cost fallback if budget exhausted", `cost.py:7`). A reply that
  omits its target is refused before the only goal can be taken for it
  (`compiler.py` 269-275). The component limit is keyed `planner`, its caller
  is `adaptive_planner`. Usage of a garbled first attempt is counted for the
  second; a failed call counts its estimate plus one; the total can overshoot.
- Values of origin `provider_observation`, and values the model calls VERIFIED,
  are accepted unchecked (only origin `request` starts a query).

## 7. Not modelled

Text (prompts, reports, parsing, normalization, templates), scoring and
ranking, file and network I/O beyond its outcomes, index discovery and
descriptors of providers, the plan cache's files, and data classes without
behaviour. The clarification controller and the testimony store have no caller
outside tests. The native query gate decides about one text, without state.
Legacy case graphs without mandatory claims, the untyped relation verifier, and
the answers drawn from legacy graphs are left out; so are `split_partial_cell`
and `record_split_parent`, which no loop calls. `PROJECT.json` lists every part
with its reason.
