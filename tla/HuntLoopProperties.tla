------------------------- MODULE HuntLoopProperties -------------------------
(***************************************************************************)
(* What the action loop of a hunt guarantees.                              *)
(***************************************************************************)
EXTENDS HuntLoop

Decisions ==
    {"none", "STOP_RESOLVED", "STOP_REFUTED", "STOP_BOUNDED",
     "STOP_INCONCLUSIVE_COVERAGE_GAP", "STOP_EXHAUSTED_BY_BUDGET"}
CellStates == {"unexplored", "explored", "partial", "unqueryable"}
Concludes == {"confirmed", "refuted", "untestable", "inconclusive"}

\* Every variable keeps its type and the budgets their limits; the list of
\* expectations and their statuses agree.
TypeOK ==
    /\ expectations \in Seq(Expectations)
    /\ testStatus \in [Range(expectations) -> Statuses]
    /\ hypStatus \in [Hypotheses ->
                        {"LIVE", "SUPPORTED", "WEAKENED", "REFUTED", "UNKNOWN"}]
    /\ reqStatus \in [Requirements -> {"DEFINED", "EXECUTED", "CONFIRMED", "UNSUPPORTED"}]
    /\ cells \in Seq(Entities) /\ IsInjective(cells)
    /\ cellState \in [Entities \cup {NoEntity} -> CellStates]
    /\ expand \in Seq(Entities) /\ pivots \in Seq(Entities)
    /\ controls \in Seq(Expectations) /\ discovered \subseteq Entities
    /\ ledger \subseteq Rows /\ incomplete \in BOOLEAN
    /\ cardKind \in [Groups -> {"none"} \cup {Row[w].kind : w \in Rows}]
    /\ turn \in 0..MaxTurns /\ queries \in 0..MaxQueries /\ scans \in 0..MaxScans
    /\ llm \in 0..MaxLlm /\ late \in BOOLEAN /\ pivotsDone \in 0..MaxPivots
    /\ decision \in Decisions /\ phase \in {"hunting", "reported", "declined"}

\* Rows the ledger holds of one group that between them meet x, one of them
\* being of the kind x asks for.
Grounded(x) ==
    \E g \in Groups : \E S \in SUBSET Group(ledger, g) :
        \E w \in S : Satisfies(S, Row[w].kind, x)

\* An attack hypothesis is SUPPORTED only while one of its own expectations
\* is confirmed and rows the ledger holds meet it: rows of one fingerprint,
\* though the entity may come from one and the value from another
\* (evaluate_hypothesis_network with the matched card of a TEST).
SupportIsGrounded ==
    \A h \in Hypotheses \ Benign : hypStatus[h] = "SUPPORTED" =>
        \E x \in Owned(h, testStatus) : testStatus[x] = "confirmed" /\ Grounded(x)

\* The benign baseline and an attack are never both SUPPORTED, through every
\* order of tests, expansions and pivots (competing hypotheses resolution).
RivalsNotBothSupported ==
    \A a \in Hypotheses \ Benign, b \in Benign :
        ~(hypStatus[a] = "SUPPORTED" /\ hypStatus[b] = "SUPPORTED")

\* A hunt that stops for another reason than a budget has left nothing
\* undone: no test, no control, no entity without coverage, no sweep of the
\* population and no pivot within its cap (select_action against the queues).
StopLeavesNothing ==
    decision \notin {"none", "STOP_EXHAUSTED_BY_BUDGET"} =>
        /\ With("untested") = {} /\ controls = << >> /\ expand = << >>
        /\ \A e \in Range(cells) \cup {NoEntity} : cellState[e] # "unexplored"
        /\ pivots = << >> \/ pivotsDone = MaxPivots

\* A conclusion is final, except that the controls may turn an inconclusive
\* expectation into a refuted one; an evidence row is never lost and the
\* report follows a decision that no longer changes.
ConclusionsAreFinal ==
    [][/\ \A x \in Known :
             testStatus[x] \in Concludes /\ testStatus'[x] # testStatus[x] =>
                testStatus[x] = "inconclusive" /\ testStatus'[x] = "refuted"
                    /\ x \in Range(controls)
       /\ ledger \subseteq ledger'
       /\ decision # "none" => decision' = decision /\ work' = work]_vars

\* Every hunt ends in a report or is declined: each iteration counts a turn.
Termination == <>(phase # "hunting")

-----------------------------------------------------------------------------
(* What the code says of itself and does otherwise.                        *)

\* A refuted expectation has no matching evidence (controller/reasoning.py:
\* a hypothesis is "Genuinely refuted by complete observable negative
\* evidence").
RefutedHasNoMatch ==
    \A x \in With("refuted") :
        ~\E g \in CardsOf(ledger) : Satisfies(Group(ledger, g), cardKind[g], x)
=============================================================================
