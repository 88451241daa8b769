---------------------------- MODULE Orchestrator ----------------------------
(***************************************************************************)
(* One run of InvestigationOrchestrator.investigate (orchestrator.py): the *)
(* bootstrap frontier, the TEST -> EXPAND -> SAMPLE loop, the state-gated  *)
(* abduction epochs with their retries, the stopping rule, and the account *)
(* that is emitted or refused.                                             *)
(*                                                                         *)
(* phase walks through the loop body:                                      *)
(*    act      top of the while loop: stop, or take one action             *)
(*    trigger  AbductionPolicy.should_call, after an action or (final)     *)
(*             once after the loop                                         *)
(*    abduce   inside _execute_abduction_epoch, between provider calls     *)
(*    conclude final evaluate_stopping and emit_final_account              *)
(*    emitted, refused (PermissionError), crashed (KeyError,              *)
(*    AttributeError): the end                                            *)
(***************************************************************************)
EXTENDS Stopping, Sequences, Functions

CONSTANTS
    ScopeOrder,     \* the registry's scope ids (numbers), in registry order
    Adapters,       \* the scopes that have an adapter
    DefaultAdapter, \* the adapter used for every other scope id
    Supported,      \* requirements the CapabilityMatcher can bind
    ANY,            \* the wildcard entity
    NoScope,        \* provider_scope_id is empty
    NoContext,      \* last_context_hash is None
    NoAccount,      \* no FinalAccount was emitted
    Responses,      \* the valid responses the model may give
    MaxObs,         \* bound: observations ever collected
    MaxRows,        \* bound: rows of one query result
    TMax, QMax,             \* BudgetLedger.t_max, q_max
    MinNew, MaxBatch,       \* min_new_observations, max_observations_per_call
    MaxCalls, MaxRetries    \* max_calls_per_investigation, max_retries

Scopes == Range(ScopeOrder)
Obs    == 1..MaxObs

\* What compute_context_hash tells apart: the batch offered, the verdicts on
\* the explanations, the outcomes of the expectations.
Contexts ==
    [batch : SUBSET Obs,
     expls : SUBSET (ExplIds \X ExplanationStatus \X Nat \X Nat),
     exps  : SUBSET (ExpIds \X TestStatus)]

ASSUME OrchestratorAssumption ==
    /\ ScopeOrder \in Seq(Nat) /\ IsInjective(ScopeOrder)
    /\ IsFiniteSet(Scopes) /\ IsFiniteSet(Entities)
    /\ Adapters \subseteq Scopes
    /\ Adapters # {} => DefaultAdapter \in Adapters
    /\ Supported \subseteq Requirements
    /\ ANY \notin Entities /\ NoScope \notin Scopes /\ NoContext \notin Contexts
    /\ \A r \in Responses : IsResponse(r, Obs)
    /\ {MaxObs, MaxRows, TMax, QMax, MinNew, MaxCalls, MaxRetries} \subseteq Nat
    /\ MaxBatch \in Nat \ {0}

CellStates ==
    {"absent", "unexplored", "partial", "explored", "unreachable", "unqueryable"}
Cells == Scopes \X (Entities \cup {ANY})
Open(state) == state \in {"unexplored", "partial"}

VARIABLES
    phase, final,
    cell,          \* Cell.state, shared by the ledger and the frontier
    instances,     \* frontier.instance_cells, in order
    observations,  \* ids in the ledger
    attributed,    \* <<observation, explanation id>> of Observation.attributed_by
    explanations, expectations,
    queries,       \* state.queries with state.query_results
    pending, processed, lastContext, calls, failures,  \* AbductionRuntime
    retries,
    dark,          \* a critical DarkSource was recorded
    turn,          \* budgets.current_turn (query_count is Len(queries))
    account,
    submissions    \* history: epochs that sent a prompt to the provider

coverage == <<cell, instances>>
runtime  == <<pending, processed, lastContext, calls, failures>>
hypotheses == <<explanations, expectations>>
vars == <<phase, final, coverage, observations, attributed, hypotheses,
          queries, runtime, retries, dark, turn, account, submissions>>

-----------------------------------------------------------------------------
(* Bootstrap: every cell of a scope starts in the state the registry gives *)
(* that scope for the window (determine_cell_state).                       *)

\* The cells of the entities "found", entity by entity, each in every scope.
CellsOf(found) ==
    LET n == Len(ScopeOrder)
    IN  [k \in 1..(n * Len(found)) |->
            <<ScopeOrder[((k - 1) % n) + 1], found[((k - 1) \div n) + 1]>>]

\* The same cells, scope by scope: the order bootstrap_investigation uses.
SeedCellsOf(seed) ==
    LET n == Len(seed)
    IN  [k \in 1..(n * Len(ScopeOrder)) |->
            <<ScopeOrder[((k - 1) \div n) + 1], seed[((k - 1) % n) + 1]>>]

\* Lists of distinct entities.
Lists(S) == {f \in UNION {[1..n -> S] : n \in 0..Cardinality(S)} : IsInjective(f)}

Init ==
    /\ \E seed \in Lists(Entities),
          scopeState \in [Scopes -> {"unexplored", "unreachable", "unqueryable"}] :
         /\ instances = SeedCellsOf(seed)
         /\ cell = [c \in Cells |->
                        IF c[2] \in Range(seed) \cup {ANY}
                        THEN scopeState[c[1]] ELSE "absent"]
    /\ phase = "act" /\ final = FALSE
    /\ observations = {} /\ attributed = {}
    /\ explanations = << >> /\ expectations = << >>
    /\ queries = << >>
    /\ pending = {} /\ processed = {} /\ lastContext = NoContext
    /\ calls = 0 /\ failures = 0 /\ retries = 0
    /\ dark = FALSE /\ turn = 0 /\ account = NoAccount /\ submissions = 0

-----------------------------------------------------------------------------
(* Budgets, stopping and the choice of the next action.                    *)

BudgetExhausted == turn >= TMax \/ Len(queries) >= QMax

\* Mutant: the dark source is recorded but not consulted.
IssuesWithoutDark == IF BudgetExhausted THEN {"budget"} ELSE {}

CurrentIssues ==
    (IF dark THEN {"dark_source"} ELSE {})
        \cup (IF BudgetExhausted THEN {"budget"} ELSE {})

Verdict == EvaluateStopping(explanations, CurrentIssues)

IsExpandCandidate(i) == Open(cell[instances[i]])

SampleScopes == {s \in Scopes : Open(cell[<<s, ANY>>])}

NextAction ==
    SelectNextAction(Untested(expectations) # {},
                     \E i \in DOMAIN instances : IsExpandCandidate(i),
                     SampleScopes # {})

\* The loop takes "action" this turn.
Takes(action) ==
    /\ phase = "act"
    /\ ~ BudgetExhausted
    /\ Verdict.terminal # "STOP_RESOLVED"
    /\ NextAction = action
Acts(action) == Takes(action) /\ phase' = "trigger"

\* Mutant: the loop does not break when no action is left.
StopWithoutBreak ==
    /\ phase = "act"
    /\ BudgetExhausted \/ Verdict.terminal = "STOP_RESOLVED"
    /\ phase' = "trigger" /\ final' = TRUE
    /\ UNCHANGED <<coverage, observations, attributed, hypotheses, queries,
                   runtime, retries, dark, turn, account, submissions>>

\* The loop ends: budget, STOP_RESOLVED, or no action left.
Stop ==
    /\ phase = "act"
    /\ \/ BudgetExhausted
       \/ Verdict.terminal = "STOP_RESOLVED"
       \/ NextAction = "none"
    /\ phase' = "trigger" /\ final' = TRUE
    /\ UNCHANGED <<coverage, observations, attributed, hypotheses, queries,
                   runtime, retries, dark, turn, account, submissions>>

-----------------------------------------------------------------------------
(* Queries.  An adapter answers with a failure, or with rows; a truncated  *)
(* result carries rows.  Rows become observations with ids never used      *)
(* before: raw_ref numbers every stored record.                            *)

AdapterFor(s) == IF s \in Adapters THEN s ELSE DefaultAdapter
HasAdapter == Adapters # {}

Results ==
    {res \in [ok : BOOLEAN, complete : BOOLEAN,
              rows : SUBSET (Obs \ observations)] :
        /\ Cardinality(res.rows) <= MaxRows
        /\ ~ res.ok => ~ res.complete /\ res.rows = {}
        /\ res.ok /\ ~ res.complete => res.rows # {}}

\* record_query_outcome: a failure leaves the cell as it is.  In this loop a
\* wildcard cell only ever meets a BROAD_SWEEP, so every complete result counts.
RecordOutcome(state, res) ==
    CASE ~ res.ok -> state
      [] res.ok /\ res.complete -> "explored"
      [] res.ok /\ ~ res.complete -> "partial"

\* The query is logged; its rows enter the ledger and wait for abduction.
Ask(action, adapter, entity, res) ==
    /\ queries' = Append(queries, [action |-> action, adapter |-> adapter,
                                   entity |-> entity, ok |-> res.ok,
                                   complete |-> res.complete,
                                   found |-> res.rows # {}])
    /\ observations' = observations \cup res.rows
    /\ pending' = pending \cup res.rows

\* frontier.add_instance_entity for every entity the rows name for the first
\* time: one UNEXPLORED cell in every known scope.
Discover(res, target, state) ==
    LET registered == {instances[i][2] : i \in DOMAIN instances}
    IN  \E found \in IF res.rows = {} THEN {<< >>}
                     ELSE Lists(Entities \ registered) :
            /\ instances' = instances \o CellsOf(found)
            /\ cell' = [c \in Cells |->
                           CASE c = target -> state
                             [] c # target /\ c[2] \in Range(found) -> "unexplored"
                             [] c # target /\ c[2] \notin Range(found) -> cell[c]]

-----------------------------------------------------------------------------
(* TEST: the first untested expectation.                                   *)

\* Its status is set and, when it was confirmed or refuted, M3 judges the
\* explanations by this expectation alone.
Conclude(x, status) ==
    LET tested == [expectations[x] EXCEPT !.status = status]
    IN  /\ expectations' = [expectations EXCEPT ![x] = tested]
        /\ explanations' =
              IF status = "inconclusive" THEN explanations
              ELSE UpdateExplanationContradictions(explanations, {tested})

\* No binding for the requirement, or no adapter at all: refuted unasked.
TestUnasked ==
    /\ Acts("TEST")
    /\ \E x \in DOMAIN expectations :
          /\ IsFirstUntested(x, expectations)
          /\ \/ expectations[x].req \notin Supported
             \/ ~ HasAdapter /\ expectations[x].scope # NoScope
          /\ Conclude(x, "refuted")
    /\ UNCHANGED <<final, coverage, observations, attributed, queries, runtime,
                   retries, dark, turn, account, submissions>>

\* Rows decide by the field predicate; no rows refute only when the result
\* is complete and the three controls pass (license_valid_negative).
TestStatusFrom(res) ==
    IF res.rows # {} THEN {"confirmed", "refuted"}
    ELSE IF res.ok /\ res.complete THEN {"refuted", "inconclusive"}
    ELSE {"inconclusive"}

\* The outcome is recorded on the instance cell of the adapter's scope, when
\* the expectation asks for the seed window and such a cell is registered.
RecordOnTarget(exp, adapter, res) ==
    LET target == <<adapter, exp.entity>>
    IN  cell' = IF exp.inWindow /\ cell[target] # "absent"
                THEN [cell EXCEPT ![target] = RecordOutcome(@, res)]
                ELSE cell

TestAsked ==
    /\ Acts("TEST")
    /\ HasAdapter
    /\ \E x \in DOMAIN expectations :
          /\ IsFirstUntested(x, expectations)
          /\ expectations[x].req \in Supported /\ expectations[x].scope # NoScope
          /\ LET exp     == expectations[x]
                 adapter == AdapterFor(exp.scope)
             IN  \E res \in Results :
                    /\ Ask("TEST", adapter, exp.entity, res)
                    /\ RecordOnTarget(exp, adapter, res)
                    /\ \E status \in TestStatusFrom(res) : Conclude(x, status)
    /\ UNCHANGED <<final, instances, attributed, processed, lastContext, calls,
                   failures, retries, dark, turn, account, submissions>>

\* An expectation that names no scope is to be asked in that of its query,
\* and a query has none: AttributeError raises out of investigate().
ScopeCrash ==
    /\ Takes("TEST")
    /\ \E x \in DOMAIN expectations :
          /\ IsFirstUntested(x, expectations)
          /\ expectations[x].req \in Supported /\ expectations[x].scope = NoScope
    /\ phase' = "crashed"
    /\ UNCHANGED <<final, coverage, observations, attributed, hypotheses,
                   queries, runtime, retries, dark, turn, account, submissions>>

-----------------------------------------------------------------------------
(* EXPAND and SAMPLE: one cell is queried, or closed when no query can be. *)
(* A result without rows closes it too, whatever its outcome.              *)

Sweep(action, target, bindable) ==
    LET res0 == [ok |-> FALSE, complete |-> FALSE, rows |-> {}]
    IN  \/ /\ bindable /\ HasAdapter
           /\ \E res \in Results :
                /\ Ask(action, AdapterFor(target[1]), target[2], res)
                /\ Discover(res, target,
                            IF res.rows = {} THEN "explored"
                            ELSE RecordOutcome(cell[target], res))
        \/ /\ ~ (bindable /\ HasAdapter)
           /\ Discover(res0, target, "explored")
           /\ UNCHANGED <<queries, observations, pending>>

\* The requirements EXPAND tries for an entity.
ExpandRequirements ==
    {"process_ancestry", "authentication_activity", "network_connection",
     "scope_records"}

Expand ==
    /\ Acts("EXPAND")
    /\ \E i \in DOMAIN instances :
          /\ IsExpandCandidate(i)
          /\ \A j \in 1..(i - 1) : ~ IsExpandCandidate(j)
          /\ Sweep("EXPAND", instances[i], ExpandRequirements \cap Supported # {})
    /\ UNCHANGED <<final, attributed, hypotheses, processed, lastContext, calls,
                   failures, retries, dark, turn, account, submissions>>

\* With a budget of one, sample_wildcard_cells picks the first scope by id.
Sample ==
    /\ Acts("SAMPLE")
    /\ \E s \in SampleScopes :
          /\ \A t \in SampleScopes : s <= t
          /\ Sweep("SAMPLE", <<s, ANY>>, "scope_records" \in Supported)
    /\ UNCHANGED <<final, attributed, hypotheses, processed, lastContext, calls,
                   failures, retries, dark, turn, account, submissions>>

-----------------------------------------------------------------------------
(* Abduction.                                                              *)

\* Mutant: the batch is not bounded.
BatchUnbounded == pending

\* sorted(pending)[:max_observations_per_call]
Batch == {o \in pending : Cardinality({p \in pending : p < o}) < MaxBatch}

\* What compute_context_hash digests.
Context ==
    [batch |-> Batch,
     expls |-> {<<explanations[l].id, explanations[l].status,
                  explanations[l].sup, explanations[l].ref>> :
                    l \in DOMAIN explanations},
     exps  |-> {<<x, expectations[x].status>> : x \in DOMAIN expectations}]

\* Mutant: no final flush.
ShouldCallNoFlush ==
    /\ calls + failures < MaxCalls
    /\ failures = 0
    /\ pending # {}
    /\ Context # lastContext
    /\ \/ calls = 0
       \/ /\ Untested(expectations) = {}
          /\ \/ DOMAIN expectations # {}
             \/ Cardinality(pending) >= MinNew

ShouldCall ==
    /\ calls + failures < MaxCalls
    /\ failures = 0
    /\ pending # {}
    /\ Context # lastContext
    /\ \/ calls = 0
       \/ final
       \/ /\ Untested(expectations) = {}
          /\ \/ DOMAIN expectations # {}
             \/ Cardinality(pending) >= MinNew

\* The turn ends; after the final flush the account is due.
EndTurn ==
    IF final THEN phase' = "conclude" /\ UNCHANGED turn
             ELSE phase' = "act" /\ turn' = turn + 1

Trigger ==
    /\ phase = "trigger"
    /\ IF ShouldCall
       THEN /\ phase' = "abduce"
            /\ submissions' = submissions + 1
            /\ UNCHANGED turn
       ELSE EndTurn /\ UNCHANGED submissions
    /\ UNCHANGED <<final, coverage, observations, attributed, hypotheses,
                   queries, runtime, retries, dark, account>>

\* Mutant: the batch stays pending.
ConsumeKeepingPending ==
    /\ processed' = processed \cup Batch
    /\ UNCHANGED pending
    /\ lastContext' = Context

\* The batch leaves pending and its context is remembered.
Consume ==
    /\ processed' = processed \cup Batch
    /\ pending' = pending \ Batch
    /\ lastContext' = Context

\* generate() raised; another attempt is left (the loop sleeps and retries).
AttemptFails ==
    /\ phase = "abduce"
    /\ retries + 1 <= MaxRetries
    /\ retries' = retries + 1
    /\ UNCHANGED <<phase, final, coverage, observations, attributed, hypotheses,
                   queries, runtime, dark, turn, account, submissions>>

\* generate() raised for the last time: the batch is given up and the model
\* becomes a critical dark source.
GiveUp ==
    /\ phase = "abduce"
    /\ retries + 1 > MaxRetries
    /\ Consume
    /\ failures' = failures + 1
    /\ dark' = TRUE
    /\ retries' = 0
    /\ EndTurn
    /\ UNCHANGED <<final, coverage, observations, attributed, hypotheses,
                   queries, calls, account, submissions>>

\* generate() returned an empty string: nothing is recorded.
EmptyResponse ==
    /\ phase = "abduce"
    /\ retries' = 0
    /\ EndTurn
    /\ UNCHANGED <<final, coverage, observations, attributed, hypotheses,
                   queries, runtime, dark, account, submissions>>

\* The response fails validate_m2_response: the call and a failure count.
InvalidResponse ==
    /\ phase = "abduce"
    /\ Consume
    /\ calls' = calls + 1 /\ failures' = failures + 1
    /\ retries' = 0
    /\ EndTurn
    /\ UNCHANGED <<final, coverage, observations, attributed, hypotheses,
                   queries, dark, account, submissions>>

\* The observations candidate c of response r claims; none means the batch.
Cited(c) == IF c.cites = {} THEN Batch ELSE c.cites

Absorb(r) ==
    /\ phase = "abduce"
    /\ \A l \in DOMAIN r.expls : Cited(r.expls[l]) \subseteq observations
    /\ Consume
    /\ calls' = calls + 1
    /\ explanations' = AddExplanations(explanations, r.expls, calls')
    /\ expectations' = AddExpectations(expectations, r.exps, calls')
    /\ attributed' = attributed \cup
          UNION {Cited(r.expls[l]) \X {r.expls[l].id} : l \in DOMAIN r.expls}
    /\ retries' = 0
    /\ EndTurn
    /\ UNCHANGED <<final, coverage, observations, queries, failures, dark,
                   account, submissions>>

\* validate_citation_integrity raises KeyError out of investigate(): a
\* candidate cites an observation the ledger does not hold.  Everything the
\* call had built is a local of the call and is lost with it.
CitationCrash(r) ==
    /\ phase = "abduce"
    /\ \E l \in DOMAIN r.expls : ~ Cited(r.expls[l]) \subseteq observations
    /\ phase' = "crashed"
    /\ UNCHANGED <<final, coverage, observations, attributed, hypotheses,
                   queries, runtime, retries, dark, turn, account, submissions>>

-----------------------------------------------------------------------------
(* The account.                                                            *)

Account(confirmed) ==
    [terminal |-> Verdict.terminal, disposition |-> Verdict.disposition,
     residual |-> Verdict.residual, confirmed |-> confirmed]

\* emit_final_account: refused when confirmation is mandatory and missing.
EmitFinalAccount(confirmed) ==
    /\ phase = "conclude"
    /\ IF IsConfirmationMandatory(Verdict) /\ ~ confirmed
       THEN phase' = "refused" /\ UNCHANGED account
       ELSE phase' = "emitted" /\ account' = Account(confirmed)
    /\ UNCHANGED <<final, coverage, observations, attributed, hypotheses,
                   queries, runtime, retries, dark, turn, submissions>>

Terminal == phase \in {"emitted", "refused", "crashed"}

Next ==
    \/ Stop
    \/ TestUnasked \/ TestAsked \/ ScopeCrash \/ Expand \/ Sample
    \/ Trigger
    \/ AttemptFails \/ GiveUp \/ EmptyResponse \/ InvalidResponse
    \/ \E r \in Responses : Absorb(r) \/ CitationCrash(r)
    \/ \E confirmed \in BOOLEAN : EmitFinalAccount(confirmed)

Spec == Init /\ [][Next]_vars

\* One thread runs the loop, and every provider call returns or raises.
FairSpec == Spec /\ WF_vars(Next)
=============================================================================
