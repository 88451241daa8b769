---------------------------- MODULE SemanticPlan ----------------------------
(***************************************************************************)
(* The executor of a semantic plan (planner/semantic_executor.py) and the  *)
(* judgement the engine makes of its result (engine.execute_semantic_plan).*)
(*                                                                         *)
(* A plan is a list of steps.  A step asks a provider operation about the  *)
(* values of one variable and binds what it learns to another one.  The    *)
(* executor passes over the steps until a pass makes no progress; a step   *)
(* tries its operation and then the alternatives, each of them stage by    *)
(* stage, each stage for every value of the input and page by page.  What  *)
(* a page holds is the provider's choice.                                  *)
(*                                                                         *)
(* The planner never clears requires_complete_inputs and the engine never  *)
(* sets allow_candidate_inputs, so every step waits for verified inputs;   *)
(* plan and executor use one catalog, so every operation is declared.      *)
(***************************************************************************)
EXTENDS Integers, FiniteSets, Sequences, FiniteSetsExt, SequencesExt

CONSTANTS
    Variables,     \* ids of the semantic variables
    Values,        \* what a row can bind to a variable
    NoValue,       \* a row without the field the operation declares
    Operations,    \* id -> [observable: proof_mode is relation_observable,
                   \*        supports: supported_constraints,
                   \*        stages, attempts: the retrieval policy,
                   \*        paged: pagination is "offset" or "cursor"]
    Plans,         \* [steps, given, gap]: see IsPlan
    RowLists,      \* what a page may hold
    MaxPages,      \* max_pages
    MaxBindings    \* max_bindings

\* A step: goal is "required" or "optional" when the step advances such a
\* relation goal, "none" for an intermediate step of a typed path.
IsStep(s, n) ==
    /\ s.op \in DOMAIN Operations
    /\ \A i \in DOMAIN s.alts : s.alts[i] \in DOMAIN Operations \ {s.op}
    /\ s.input \in Variables /\ s.output \in Variables
    /\ s.goal \in {"required", "optional", "none"}
    /\ s.deps \subseteq 1..n
    /\ s.keys \subseteq STRING

\* given: the values the request or the user attaches to a variable; gap: a
\* required goal has no step (unresolved_goal_ids).
IsPlan(p) ==
    /\ \A n \in DOMAIN p.steps : IsStep(p.steps[n], Len(p.steps))
    /\ \A v \in Variables : /\ p.given[v].by \in {"nobody", "request", "user"}
                            /\ (p.given[v].values = << >>) = (p.given[v].by = "nobody")
                            /\ p.given[v].values \in Seq(Values)
                            /\ p.given[v].by = "request" => Len(p.given[v].values) = 1
    /\ p.gap \in BOOLEAN

ASSUME PlansAssumption == \A p \in Plans : IsPlan(p) /\ p.steps # << >>
ASSUME OperationsAssumption == \A o \in DOMAIN Operations :
    /\ Operations[o].stages # << >> /\ Operations[o].attempts \in Nat \ {0}
    /\ Operations[o].observable \in BOOLEAN
ASSUME BoundsAssumption == MaxPages \in Nat \ {0} /\ MaxBindings \in Nat \ {0}
ASSUME RowsAssumption == \A r \in RowLists : r \in Seq(Values \cup {NoValue})

VARIABLES
    plan,
    bindings,      \* variables and binding_provenance: [values, status, by, step]
    remaining,     \* the steps not finished
    at,            \* the step this pass looks at
    progress,      \* this pass finished a step
    phase, method, stage,   \* where the thread is
    walk,          \* the candidate/page loop of one stage
    last,          \* "result": it outlives the stage that assigned it
    signatures,    \* no_progress_signatures
    attempts,      \* semantic_attempts
    executions,
    selected,      \* steps of binding_events
    reasons,       \* unresolved_reasons
    needsUser,     \* needs_user_decision
    continuations, \* steps with a continuation
    pageTrace,
    outcome        \* route assessments, goal verdicts, stopping decision

control == <<at, progress, phase, method, stage>>
record  == <<signatures, attempts, pageTrace, continuations>>
vars == <<plan, bindings, remaining, control, walk, last, record, executions,
          selected, reasons, needsUser, outcome>>

-----------------------------------------------------------------------------
Steps == DOMAIN plan.steps
Step == plan.steps[at]
Inputs == bindings[Step.input].values

Methods(s) == <<plan.steps[s].op>> \o plan.steps[s].alts
Op == Operations[Methods(at)[method]]

\* The stages of an operation the executor attempts.
StageLimit(op) == Min({Len(op.stages), op.attempts})

\* The id of the query in hand: plan, step, alternative and stage.
Query == <<at, method, stage>>

\* What makes two queries "the same" to the executor.
Signature == <<Methods(at)[method], Inputs, Op.stages[stage]>>

NoWalk == [cand |-> 1, page |-> 1, ok |-> TRUE, complete |-> TRUE, rows |-> << >>]
NoResult == [query |-> << >>, ok |-> FALSE, complete |-> FALSE, rows |-> << >>]
NoOutcome == [route |-> << >>, verdicts |-> << >>, decision |-> "none"]

Given(p, v) ==
    [values |-> p.given[v].values, by |-> p.given[v].by, step |-> 0,
     status |-> IF p.given[v].values = << >> THEN "NONE" ELSE "VERIFIED"]

Init ==
    /\ plan \in Plans
    /\ bindings = [v \in Variables |-> Given(plan, v)]
    /\ remaining = Steps /\ at = 1 /\ progress = FALSE
    /\ phase = "pass" /\ method = 1 /\ stage = 1
    /\ walk = NoWalk /\ last = NoResult
    /\ signatures = {} /\ attempts = << >> /\ executions = << >>
    /\ selected = {} /\ reasons = [s \in Steps |-> "none"] /\ needsUser = FALSE
    /\ continuations = {} /\ pageTrace = {} /\ outcome = NoOutcome

-----------------------------------------------------------------------------
(* One pass over the remaining steps.                                      *)

\* Mutant: a step left for later counts as progress.
PassOverBusy ==
    /\ at' = at + 1 /\ progress' = TRUE
    /\ UNCHANGED <<phase, method, stage>>

\* The step leaves the pass without being finished.
PassOver ==
    /\ at' = at + 1
    /\ UNCHANGED <<progress, phase, method, stage>>

\* The step is finished, whatever came of it.
Finish ==
    /\ remaining' = remaining \ {at}
    /\ at' = at + 1
    /\ progress' = TRUE /\ phase' = "pass" /\ method' = 1 /\ stage' = 1

\* prior[step].status: the status of a step's last execution.
PriorStatus(s) ==
    LET own == {i \in DOMAIN executions : executions[i].step = s}
    IN  IF own = {} THEN "none" ELSE executions[Max(own)].status

Considers == phase = "pass" /\ at \in remaining

\* Mutant: only what the user chose is left alone.
IsUsers == bindings[Step.output].by = "user"

IsPrebound == bindings[Step.output].status = "VERIFIED"
DepsRan == \A d \in Step.deps : PriorStatus(d) # "none"
Unproven == {d \in Step.deps \ selected : PriorStatus(d) # "EXECUTED"}

\* The pass was over a copy of the steps remaining: a finished one is not in it.
SkipFinished ==
    /\ phase = "pass" /\ at \in Steps \ remaining
    /\ at' = at + 1
    /\ UNCHANGED <<plan, bindings, remaining, progress, phase, method, stage,
                   walk, last, record, executions, selected, reasons,
                   needsUser, outcome>>

\* The output already holds verified values: the step is recorded as the
\* user's selection and asks nobody.
SelectBound ==
    /\ Considers
    /\ IsPrebound
    /\ selected' = selected \cup {at}
    /\ executions' = Append(executions,
           [step |-> at, op |-> Step.op, query |-> <<at>>, ok |-> TRUE,
            complete |-> TRUE, rows |-> << >>, outputs |-> TRUE,
            status |-> "USER_SELECTED"])
    /\ Finish
    /\ UNCHANGED <<plan, bindings, walk, last, record, reasons, needsUser, outcome>>

\* An upstream step, or the value of the input, is still to come.
Wait ==
    /\ Considers
    /\ ~ IsPrebound
    /\ \/ ~ DepsRan
       \/ /\ Unproven = {}
          /\ bindings[Step.input].status = "NONE"
    /\ PassOver
    /\ UNCHANGED <<plan, bindings, remaining, walk, last, record, executions,
                   selected, reasons, needsUser, outcome>>

\* Mutant: a candidate input is no obstacle.
ObstacleTrusting ==
    IF Unproven # {} THEN "upstream"
    ELSE IF Len(Inputs) > MaxBindings THEN "fan_out" ELSE "none"

\* Why a step whose upstream ran may not: the first reason that applies.
Obstacle ==
    IF Unproven # {} THEN "upstream"
    ELSE IF bindings[Step.input].status = "CANDIDATE" THEN "candidate"
    ELSE IF Len(Inputs) > MaxBindings THEN "fan_out" ELSE "none"

\* The step is passed over with its reason on record; a choice among the
\* candidates is the user's.
Block ==
    /\ Considers
    /\ ~ IsPrebound /\ DepsRan
    /\ Obstacle # "none"
    /\ reasons' = [reasons EXCEPT ![at] = Obstacle]
    /\ needsUser' = (needsUser \/ Obstacle # "upstream")
    /\ PassOver
    /\ UNCHANGED <<plan, bindings, remaining, walk, last, record, executions,
                   selected, outcome>>

Begin ==
    /\ Considers
    /\ ~ IsPrebound /\ DepsRan
    /\ Obstacle = "none" /\ bindings[Step.input].status # "NONE"
    /\ phase' = "stage" /\ method' = 1 /\ stage' = 1
    /\ UNCHANGED <<plan, bindings, remaining, at, progress, walk, last,
                   record, executions, selected, reasons, needsUser, outcome>>

\* Mutant: a step that was never blocked gets no reason.
BlockedOnly == reasons

\* The reasons once the passes are over: every step left has one.
LeftReasons ==
    [s \in Steps |->
        IF s \in remaining /\ reasons[s] = "none"
        THEN IF bindings[plan.steps[s].input].status = "NONE"
             THEN "unbound" ELSE "dependency"
        ELSE reasons[s]]

\* A pass without progress is the last one.
EndPass ==
    /\ phase = "pass" /\ at \notin Steps
    /\ IF progress /\ remaining # {}
       THEN at' = 1 /\ UNCHANGED <<phase, reasons>>
       ELSE phase' = "judge" /\ reasons' = LeftReasons /\ UNCHANGED at
    /\ progress' = FALSE
    /\ UNCHANGED <<plan, bindings, remaining, method, stage, walk, last, record,
                   executions, selected, needsUser, outcome>>

-----------------------------------------------------------------------------
(* One stage of one operation.                                             *)

\* The alternative after this one, or the end of the step.
NextMethod ==
    IF method < Len(Methods(at))
    THEN /\ method' = method + 1 /\ stage' = 1 /\ phase' = "stage"
         /\ UNCHANGED <<remaining, at, progress>>
    ELSE Finish

\* The executor has asked this before: the stage is skipped.
SkipStage ==
    /\ phase = "stage" /\ stage <= StageLimit(Op)
    /\ Signature \in signatures
    /\ stage' = stage + 1
    /\ UNCHANGED <<plan, bindings, remaining, at, progress, phase, method,
                   walk, last, record, executions, selected, reasons,
                   needsUser, outcome>>

OpenStage ==
    /\ phase = "stage" /\ stage <= StageLimit(Op)
    /\ Signature \notin signatures
    /\ signatures' = signatures \cup {Signature}
    /\ walk' = NoWalk
    /\ phase' = "query"
    /\ UNCHANGED <<plan, bindings, remaining, at, progress, method, stage,
                   last, attempts, pageTrace, continuations, executions,
                   selected, reasons, needsUser, outcome>>

\* Every stage was complete and empty, or skipped: what is recorded is the
\* result assigned last.
StagesDone ==
    /\ phase = "stage" /\ stage > StageLimit(Op)
    /\ executions' = Append(executions,
           [step |-> at, op |-> Methods(at)[method], query |-> last.query,
            ok |-> last.ok, complete |-> last.complete, rows |-> last.rows,
            outputs |-> FALSE, status |-> "COMPLETE_EMPTY"])
    /\ NextMethod
    /\ UNCHANGED <<plan, bindings, walk, last, record, selected, reasons,
                   needsUser, outcome>>

\* What a provider may answer to one page: a failed call holds nothing; "more"
\* says that the cursor moved and the rows are new.
Pages ==
    {p \in [ok : BOOLEAN, complete : BOOLEAN, more : BOOLEAN, rows : RowLists] :
        /\ ~ p.ok => ~ p.complete /\ p.rows = << >>
        /\ p.more => p.ok /\ ~ p.complete /\ p.rows # << >>}

\* The walk goes on to the next page of this candidate.
Turns(p) == p.more /\ Op.paged /\ walk.page < MaxPages

\* all(item.complete for item in candidate_results)
Combine(p) == walk.complete /\ p.complete

QueryPage(p) ==
    /\ phase = "query"
    /\ pageTrace' = pageTrace \cup
           {[query |-> Query, cand |-> walk.cand, page |-> walk.page,
             ok |-> p.ok, complete |-> p.complete]}
    /\ LET first == walk.cand = 1 /\ walk.page = 1
           seen  == [walk EXCEPT !.ok = IF first THEN p.ok ELSE @,
                                 !.rows = @ \o p.rows]
       IN  IF Turns(p)
           THEN /\ walk' = [seen EXCEPT !.page = @ + 1]
                /\ UNCHANGED <<phase, continuations>>
           ELSE /\ walk' = [seen EXCEPT !.cand = @ + 1, !.page = 1,
                                        !.complete = Combine(p)]
                /\ phase' = IF walk.cand < Len(Inputs) THEN "query" ELSE "settle"
                /\ continuations' = IF p.ok /\ ~ p.complete
                                    THEN continuations \cup {at} ELSE continuations
    /\ UNCHANGED <<plan, bindings, remaining, at, progress, method, stage,
                   last, signatures, attempts, executions, selected, reasons,
                   needsUser, outcome>>

\* The candidates' results become one result and one attempt; only a complete
\* and empty one leads to the next stage.
Settle ==
    /\ phase = "settle"
    /\ last' = [query |-> Query, ok |-> walk.ok, complete |-> walk.complete,
                rows |-> walk.rows]
    /\ attempts' = Append(attempts,
           [step |-> at, op |-> Methods(at)[method], stage |-> Op.stages[stage],
            query |-> Query, complete |-> walk.complete, rows |-> Len(walk.rows)])
    /\ IF walk.ok /\ walk.complete /\ walk.rows = << >>
       THEN phase' = "stage" /\ stage' = stage + 1
       ELSE phase' = "bind" /\ UNCHANGED stage
    /\ UNCHANGED <<plan, bindings, remaining, at, progress, method, walk,
                   signatures, pageTrace, continuations, executions, selected,
                   reasons, needsUser, outcome>>

-----------------------------------------------------------------------------
(* What a result binds.                                                    *)

\* The distinct values of the rows, in the order they appear.
Bound(rows) ==
    FoldLeft(LAMBDA found, x : IF x \in Range(found) \cup {NoValue}
                               THEN found ELSE Append(found, x),
             << >>, rows)

Execution(outputs, status) ==
    [step |-> at, op |-> Methods(at)[method], query |-> Query, ok |-> last.ok,
     complete |-> last.complete, rows |-> last.rows, outputs |-> outputs,
     status |-> status]

\* The status of the value an operation's result binds.
Grade(op) ==
    IF last.complete /\ op.observable /\ Step.keys \subseteq op.supports
    THEN "VERIFIED" ELSE "CANDIDATE"

\* Too many values to go on with: no alternative is tried, the user decides.
Ambiguous ==
    /\ phase = "bind"
    /\ Len(Bound(last.rows)) > MaxBindings
    /\ needsUser' = TRUE
    /\ reasons' = [reasons EXCEPT ![at] = "ambiguous"]
    /\ executions' = Append(executions, Execution(FALSE, "AMBIGUOUS"))
    /\ Finish
    /\ UNCHANGED <<plan, bindings, walk, last, record, selected, outcome>>

BindOutput ==
    /\ phase = "bind"
    /\ Len(Bound(last.rows)) \in 1..MaxBindings
    /\ bindings' = [bindings EXCEPT ![Step.output] =
           [values |-> Bound(last.rows), status |-> Grade(Op), by |-> "step",
            step |-> at]]
    /\ executions' = Append(executions,
           Execution(TRUE, IF last.complete THEN "EXECUTED" ELSE "PARTIAL"))
    /\ IF \/ last.ok /\ last.complete /\ Grade(Op) = "VERIFIED"
          \/ last.ok /\ ~ last.complete
       THEN Finish ELSE NextMethod
    /\ UNCHANGED <<plan, walk, last, record, selected, reasons, needsUser, outcome>>

\* Rows without the declared field end the step; a failure or an empty partial
\* result leads to the next alternative.
BindNothing ==
    /\ phase = "bind"
    /\ Bound(last.rows) = << >>
    /\ executions' = Append(executions,
           Execution(FALSE, IF last.complete THEN "EXECUTED" ELSE "PARTIAL"))
    /\ IF last.ok /\ last.rows # << >> THEN Finish ELSE NextMethod
    /\ UNCHANGED <<plan, bindings, walk, last, record, selected, reasons,
                   needsUser, outcome>>

-----------------------------------------------------------------------------
(* The assessment of each step's goal, and the engine's verdicts.          *)

AttemptsOf(s) == {i \in DOMAIN attempts : attempts[i].step = s}
ExecutionsOf(s) == {i \in DOMAIN executions : executions[i].step = s}

\* proof_complete: an execution bound something, and what its output variable
\* holds now is verified.
ProofComplete(s) ==
    /\ \E i \in ExecutionsOf(s) :
          executions[i].status = "EXECUTED" /\ executions[i].outputs
    /\ bindings[plan.steps[s].output].status = "VERIFIED"

RouteStatus(s) ==
    LET complete == \A i \in AttemptsOf(s) : attempts[i].complete
        empty    == \A i \in AttemptsOf(s) : attempts[i].rows = 0
    IN  IF ProofComplete(s) THEN "VERIFIED"
        ELSE IF AttemptsOf(s) = {} THEN "CAPABILITY_GAP"
        ELSE IF ~ complete THEN "ATTEMPTED_PARTIAL"
        ELSE IF empty THEN "ATTEMPTED_EMPTY" ELSE "CANDIDATE_OBSERVED"

\* Mutant: alternatives that were never asked do not count.
TriedLast(s) ==
    LET last_op == attempts[Max(AttemptsOf(s))].op
        tried(o) == {attempts[i].stage :
                        i \in {j \in AttemptsOf(s) : attempts[j].op = o}}
    IN  Range(Operations[last_op].stages) \subseteq tried(last_op)

\* Every declared operation was asked, the last one in all its stages.
Tried(s) ==
    LET last_op == attempts[Max(AttemptsOf(s))].op
        tried(o) == {attempts[i].stage :
                        i \in {j \in AttemptsOf(s) : attempts[j].op = o}}
    IN  /\ \A i \in DOMAIN Methods(s) : tried(Methods(s)[i]) # {}
        /\ Range(Operations[last_op].stages) \subseteq tried(last_op)

RouteExhausted(s) ==
    /\ RouteStatus(s) = "ATTEMPTED_EMPTY"
    /\ s \notin continuations
    /\ Tried(s)

\* base_relation_proven: complete rows of a relation-observable operation.
Proves(e) ==
    /\ e.ok /\ e.complete /\ e.rows # << >> /\ e.outputs
    /\ Operations[e.op].observable

\* The restrictions any operation the step executed can prove.
ProofKeys(s) == UNION {Operations[executions[i].op].supports : i \in ExecutionsOf(s)}

GoalVerdict(s) ==
    LET base == \E i \in ExecutionsOf(s) : Proves(executions[i])
        keys == plan.steps[s].keys
    IN  IF base /\ keys \subseteq ProofKeys(s) THEN "SUPPORTED"
        ELSE IF base THEN "RESTRICTIONS_UNVERIFIED"
        ELSE IF \E i \in ExecutionsOf(s) :
                    executions[i].ok /\ ~ executions[i].complete
        THEN "PARTIAL" ELSE "INCONCLUSIVE"

GoalSteps == {s \in Steps : plan.steps[s].goal # "none"}
RequiredSteps == {s \in Steps : plan.steps[s].goal = "required"}

Decision ==
    IF /\ ~ plan.gap /\ RequiredSteps # {}
       /\ \A s \in RequiredSteps : GoalVerdict(s) = "SUPPORTED"
    THEN "STOP_RESOLVED"
    ELSE IF needsUser THEN "STOP_NEEDS_USER_DECISION"
    ELSE IF remaining # {} /\ continuations # {}
    THEN "STOP_INCONCLUSIVE_COVERAGE_GAP"
    ELSE "STOP_INCONCLUSIVE_RELATION_UNPROVEN"

\* Two executions hand the ledger rows under one query id, and so under one
\* observation id.
SameObservations ==
    \E i, j \in DOMAIN executions :
        /\ i < j /\ executions[i].query = executions[j].query
        /\ executions[i].rows # << >>

\* The engine ingests the rows, then judges; the ledger refuses an id twice and
\* the ValueError leaves execute_semantic_plan.
Judge ==
    /\ phase = "judge"
    /\ IF SameObservations
       THEN phase' = "crashed" /\ UNCHANGED outcome
       ELSE /\ phase' = "done"
            /\ outcome' =
                 [route    |-> [s \in Steps |->
                                   [status |-> RouteStatus(s),
                                    exhausted |-> RouteExhausted(s)]],
                  verdicts |-> [s \in GoalSteps |-> GoalVerdict(s)],
                  decision |-> Decision]
    /\ UNCHANGED <<plan, bindings, remaining, at, progress, method, stage, walk,
                   last, record, executions, selected, reasons, needsUser>>

Next ==
    \/ SkipFinished \/ SelectBound \/ Wait \/ Block \/ Begin \/ EndPass
    \/ SkipStage \/ OpenStage \/ StagesDone
    \/ \E p \in Pages : QueryPage(p)
    \/ Settle
    \/ Ambiguous \/ BindOutput \/ BindNothing
    \/ Judge

Spec == Init /\ [][Next]_vars

\* One thread runs the executor, and every provider call returns.
FairSpec == Spec /\ WF_vars(Next)
=============================================================================
