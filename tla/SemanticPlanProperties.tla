----------------------- MODULE SemanticPlanProperties -----------------------
(***************************************************************************)
(* What the execution of a semantic plan guarantees, and what documents    *)
(* say of it that the code does otherwise.                                 *)
(***************************************************************************)
EXTENDS SemanticPlan

Binding ==
    [values : Seq(Values), status : {"NONE", "CANDIDATE", "VERIFIED"},
     by : {"nobody", "request", "user", "step"}, step : {0} \cup Steps]

\* Every variable keeps its type; a binding has a status exactly when it has
\* values, and names its step exactly when a step made it.
TypeOK ==
    /\ plan \in Plans
    /\ bindings \in [Variables -> Binding]
    /\ \A v \in Variables :
          /\ (bindings[v].status = "NONE") = (bindings[v].values = << >>)
          /\ (bindings[v].by = "step") = (bindings[v].step # 0)
    /\ remaining \subseteq Steps /\ at \in 1..(Len(plan.steps) + 1)
    /\ phase \in {"pass", "stage", "query", "settle", "bind", "judge", "done", "crashed"}
    /\ phase \in {"stage", "query", "settle", "bind"} =>
          /\ at \in remaining /\ Inputs # << >> /\ method \in DOMAIN Methods(at)
          /\ stage \in 1..(StageLimit(Op) + 1)
    /\ walk.page \in 1..MaxPages
    /\ selected \subseteq Steps /\ continuations \subseteq Steps
    /\ needsUser \in BOOLEAN /\ progress \in BOOLEAN
    /\ \A i \in DOMAIN executions : executions[i].step \in Steps

-----------------------------------------------------------------------------
(* Values and their proofs.                                                *)

\* The executor implements the chain of proofs: values are derived from
\* verified values only, and a verified value is final (the provenance rules
\* of execute).
Chain == INSTANCE ProofChain WITH
    Names <- Variables,
    grade <- [v \in Variables |-> bindings[v].status],
    basis <- [v \in Variables |-> IF bindings[v].by = "step"
                                  THEN {plan.steps[bindings[v].step].input} ELSE {}]
RefinesProofChain == Chain!ChainSpec

\* Step s has an execution that proves its relation and all its restrictions.
ProvedBy(s) ==
    \E i \in ExecutionsOf(s) :
        /\ Proves(executions[i])
        /\ plan.steps[s].keys \subseteq Operations[executions[i].op].supports

\* A goal the engine calls SUPPORTED rests on rows read to their end, asked
\* about a value that was given or that another step proved.
SupportedIsGrounded ==
    phase = "done" =>
        \A s \in DOMAIN outcome.verdicts : outcome.verdicts[s] = "SUPPORTED" =>
            /\ \E i \in ExecutionsOf(s) : Proves(executions[i])
            /\ bindings[plan.steps[s].input].status = "VERIFIED"
            /\ LET source == bindings[plan.steps[s].input]
               IN  source.by = "step" => ProvedBy(source.step)

\* A route is exhausted only if every operation the step declares was asked
\* for this goal and no page of its queries was left unread.
ExhaustedAskedAll ==
    phase = "done" =>
        \A s \in Steps : outcome.route[s].exhausted =>
            /\ \A m \in DOMAIN Methods(s) :
                  \E t \in pageTrace : /\ t.query[1] = s
                                       /\ Methods(s)[t.query[2]] = Methods(s)[m]
            /\ \A i \in AttemptsOf(s) : attempts[i].rows = 0 /\ attempts[i].complete

\* No step is dropped: at the end each one was executed, was selected, or is
\* reported with a reason ("silently dropped plan steps", engine.py).
NothingDropped ==
    phase = "done" =>
        \A s \in Steps : ExecutionsOf(s) = {} => s \in remaining /\ reasons[s] # "none"

\* The executor returns: passes, alternatives, stages and pages are finite.
Termination == <>(phase \in {"done", "crashed"})

-----------------------------------------------------------------------------
(* Statements of the repository that its code does not keep.               *)

\* "complete-empty (0 rows)" (contracts/queries.py): an execution recorded as
\* COMPLETE_EMPTY has no rows.
CompleteEmptyHasNoRows ==
    \A i \in DOMAIN executions :
        executions[i].status = "COMPLETE_EMPTY" => executions[i].rows = << >>
=============================================================================
