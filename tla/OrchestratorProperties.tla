----------------------- MODULE OrchestratorProperties -----------------------
(***************************************************************************)
(* What one investigation guarantees, and the statements of the            *)
(* repository's documents that it does not keep.                           *)
(***************************************************************************)
EXTENDS Orchestrator

QueryRecord ==
    [action : {"TEST", "EXPAND", "SAMPLE"}, adapter : Scopes,
     entity : Entities \cup {ANY}, ok : BOOLEAN, complete : BOOLEAN,
     found : BOOLEAN]

AccountRecord ==
    [terminal : {"STOP_RESOLVED", "STOP_BOUNDED"}, disposition : Dispositions,
     residual : SUBSET Blockers, confirmed : BOOLEAN]

\* Every variable keeps its type (contracts/state.py, contracts/abduction.py).
TypeOK ==
    /\ phase \in {"act", "trigger", "abduce", "conclude",
                  "emitted", "refused", "crashed"}
    /\ final \in BOOLEAN /\ dark \in BOOLEAN
    /\ cell \in [Cells -> CellStates]
    /\ instances \in Seq(Scopes \X Entities)
    /\ observations \subseteq Obs
    /\ pending \subseteq Obs /\ processed \subseteq Obs
    /\ attributed \subseteq Obs \X ExplIds
    /\ DOMAIN explanations \subseteq Labels
    /\ \A l \in DOMAIN explanations : explanations[l] \in Explanation
    /\ DOMAIN expectations \subseteq ExpIds
    /\ \A x \in DOMAIN expectations : expectations[x] \in Expectation
    /\ queries \in Seq(QueryRecord)
    /\ {calls, failures, retries, turn, submissions} \subseteq Nat
    /\ account \in AccountRecord \cup {NoAccount}

-----------------------------------------------------------------------------
(* Evidence.                                                               *)

\* No observation is lost or abduced over twice: the ids waiting for
\* abduction and the ids already consumed by an epoch partition the ledger,
\* through every retry, give-up, empty and invalid response.
EvidencePartition ==
    /\ pending \cap processed = {}
    /\ pending \cup processed = observations

\* The orchestrator keeps the promise of EvidenceFlow: evidence is handed to
\* abduction once, in bounded batches, at most MaxCalls of them, and the
\* closed case is left alone.
EF == INSTANCE EvidenceFlow WITH
          Evidence <- Obs, BatchSize <- MaxBatch, MaxBatches <- MaxCalls,
          waiting <- pending, handed <- processed,
          batches <- IF dark THEN calls + 1 ELSE calls,
          closed <- phase \in {"emitted", "refused", "crashed"}
RefinesEvidenceFlow == EF!FlowSpec

\* Evidence still waiting when the account is drawn up has a reason: the call
\* cap, the circuit breaker, a final call that answered nothing (the batch is
\* still waiting though a prompt was sent), or a final batch that was full.
LeftoverExplained ==
    phase \in {"conclude", "emitted", "refused"} /\ pending # {} =>
        \/ calls + failures >= MaxCalls
        \/ failures > 0
        \/ submissions > calls
        \/ lastContext # NoContext /\ Cardinality(lastContext.batch) = MaxBatch

\* LeftoverExplained with what makes it inductive: the batch of the last
\* context was consumed, and no call is counted before its prompt was sent.
LeftoverInv ==
    /\ lastContext # NoContext => lastContext.batch \subseteq processed
    /\ submissions >= calls
    /\ phase = "abduce" => submissions > calls
    /\ LeftoverExplained

\* At most MaxCalls responses are paid for, one failure opens the circuit
\* breaker for good, and retries never pass max_retries.
CallBudget ==
    /\ calls <= MaxCalls
    /\ failures <= 1
    /\ dark => calls < MaxCalls
    /\ retries <= MaxRetries

\* A turn spends at most one query, and the loop never starts a turn beyond
\* either budget.
TurnBudget ==
    /\ turn <= TMax
    /\ Len(queries) <= QMax
    /\ Len(queries) <= turn + (IF ~ final /\ phase \in {"trigger", "abduce", "crashed"}
                               THEN 1 ELSE 0)

\* CallBudget and TurnBudget with what makes them inductive: an epoch starts
\* below the cap with the breaker closed, a turn starts below both budgets,
\* and only the loop phases precede the end of the loop.
BudgetInv ==
    /\ {calls, failures, retries, turn, submissions} \subseteq Nat
    /\ queries \in Seq(QueryRecord) /\ final \in BOOLEAN
    /\ calls <= MaxCalls /\ failures <= 1 /\ retries <= MaxRetries
    /\ dark => failures = 1 /\ calls < MaxCalls
    /\ phase = "abduce" =>
          calls + failures < MaxCalls /\ failures = 0 /\ pending # {}
    /\ ~ final /\ phase \in {"trigger", "abduce"} => turn < TMax
    /\ phase = "act" => ~ final
    /\ phase \in {"conclude", "emitted", "refused"} => final
    /\ TurnBudget

-----------------------------------------------------------------------------
(* Hypotheses.                                                             *)

\* A rejected explanation was contradicted: an expectation naming its id was
\* tested and refuted, whichever epoch proposed either of them.
RejectionHasRefutation ==
    \A l \in DOMAIN explanations :
        explanations[l].status = "rejected" =>
            \E x \in DOMAIN expectations :
                /\ expectations[x].owner = explanations[l].id
                /\ expectations[x].status = "refuted"

\* Explanations are never dropped or renamed, and a rejected one is never
\* touched again; an expectation's outcome, once drawn, is never redrawn.
RecordIsAppendOnly ==
    [][/\ \A l \in DOMAIN explanations :
             /\ l \in DOMAIN explanations'
             /\ explanations'[l].id = explanations[l].id
             /\ explanations[l].status = "rejected" =>
                    explanations'[l] = explanations[l]
       /\ \A x \in DOMAIN expectations :
             /\ x \in DOMAIN expectations'
             /\ expectations[x].status # "untested" =>
                    expectations'[x] = expectations[x]]_vars

-----------------------------------------------------------------------------
(* Verdicts.                                                               *)

\* An account claiming STOP_RESOLVED stands on one surviving class of best
\* support, was drawn within both budgets, and never follows an abduction
\* that was given up.
ResolvedIsUnblocked ==
    account # NoAccount /\ account.terminal = "STOP_RESOLVED" =>
        /\ ~ dark /\ turn < TMax /\ Len(queries) < QMax
        /\ \E l \in Surviving(explanations) :
              /\ explanations[l].class = account.disposition
              /\ \A k \in Surviving(explanations) :
                    /\ explanations[k].sup <= explanations[l].sup
                    /\ explanations[k].sup = explanations[l].sup =>
                          explanations[k].class = explanations[l].class

\* ResolvedIsUnblocked with what makes it inductive.  M3 is shown one
\* concluded expectation at a time, so it never finds an explanation half
\* refuted: each one is live, with no refutation, or rejected, and is never
\* confirmed more than once.
JudgedOnce(e) ==
    /\ e.status \in {"live", "rejected"}
    /\ e.sup <= 1
    /\ e.status = "live" => e.ref = 0

EachJudgedOnce == \A l \in DOMAIN explanations : JudgedOnce(explanations[l])

AccountInv ==
    /\ EachJudgedOnce
    /\ account # NoAccount => phase = "emitted"
    /\ ResolvedIsUnblocked

\* Every investigation ends: in an account, a refusal, or an error.
Termination == <>Terminal
=============================================================================
