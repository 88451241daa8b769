------------------------- MODULE OrchestratorProofs -------------------------
(***************************************************************************)
(* Theorems about Orchestrator, for every registry, every repertoire of    *)
(* responses and every budget.                                             *)
(***************************************************************************)
EXTENDS OrchestratorProperties, FiniteSetTheorems, TLAPS

-----------------------------------------------------------------------------
(* Evidence: pending and processed partition the ledger.                   *)

\* Every result's rows are observations the ledger does not hold yet.
LEMMA ResultsFresh ==
    ASSUME NEW res \in Results
    PROVE  res.rows \subseteq Obs \ observations
BY DEF Results

\* Sweep either asks, adding fresh rows to ledger and pending alike, or
\* leaves both alone.
LEMMA SweepEvidence ==
    ASSUME NEW action, NEW target, NEW bindable, Sweep(action, target, bindable)
    PROVE  \/ UNCHANGED <<observations, pending>>
           \/ \E R \in SUBSET (Obs \ observations) :
                 /\ observations' = observations \cup R
                 /\ pending' = pending \cup R
BY ResultsFresh DEF Sweep, Ask

\* Every step keeps the partition.
LEMMA EvidenceStep ==
    ASSUME EvidencePartition, [Next]_vars
    PROVE  EvidencePartition'
<1> USE DEF EvidencePartition
<1>1. CASE Stop
  BY <1>1 DEF Stop, runtime
<1>2. CASE TestUnasked
  BY <1>2 DEF TestUnasked, runtime
<1>3. CASE TestAsked
  <2>1. PICK R \in SUBSET (Obs \ observations) :
            /\ observations' = observations \cup R
            /\ pending' = pending \cup R
    BY <1>3, ResultsFresh DEF TestAsked, Ask
  <2> QED BY <2>1, <1>3 DEF TestAsked
<1>4. CASE Expand
  <2>1. processed' = processed
    BY <1>4 DEF Expand
  <2> QED BY <2>1, <1>4, SweepEvidence DEF Expand
<1>5. CASE Sample
  <2>1. processed' = processed
    BY <1>5 DEF Sample
  <2> QED BY <2>1, <1>5, SweepEvidence DEF Sample
<1>6. CASE Trigger
  BY <1>6 DEF Trigger, runtime
<1>7. CASE AttemptFails
  BY <1>7 DEF AttemptFails, runtime
<1>8. CASE GiveUp
  BY <1>8 DEF GiveUp, Consume, Batch
<1>9. CASE EmptyResponse
  BY <1>9 DEF EmptyResponse, runtime
<1>10. CASE InvalidResponse
  BY <1>10 DEF InvalidResponse, Consume, Batch
<1>11. ASSUME NEW r \in Responses, Absorb(r) PROVE EvidencePartition'
  BY <1>11 DEF Absorb, Consume, Batch
<1>12. ASSUME NEW r \in Responses, CitationCrash(r) PROVE EvidencePartition'
  BY <1>12 DEF CitationCrash, runtime
<1>13. ASSUME NEW c \in BOOLEAN, EmitFinalAccount(c) PROVE EvidencePartition'
  BY <1>13 DEF EmitFinalAccount, runtime
<1>14. CASE UNCHANGED vars
  BY <1>14 DEF vars, runtime
<1>15. CASE ScopeCrash
  BY <1>15 DEF ScopeCrash, runtime
<1> QED BY <1>1, <1>2, <1>3, <1>4, <1>5, <1>6, <1>7, <1>8, <1>9, <1>10,
           <1>11, <1>12, <1>13, <1>14, <1>15 DEF Next

\* No observation is lost or abduced over twice, in any investigation.
THEOREM EvidenceIsPartitioned == Spec => []EvidencePartition
<1>1. Init => EvidencePartition
  BY DEF Init, EvidencePartition
<1>2. EvidencePartition /\ [Next]_vars => EvidencePartition'
  BY EvidenceStep
<1> QED BY <1>1, <1>2, PTL DEF Spec

-----------------------------------------------------------------------------
(* Types.                                                                  *)

\* The index of entry k in a row-by-row table of m rows and n columns.
LEMMA TableIndex ==
    ASSUME NEW n \in Nat, NEW m \in Nat, NEW k \in 1..(n * m)
    PROVE  /\ ((k - 1) % n) + 1 \in 1..n
           /\ ((k - 1) \div n) + 1 \in 1..m
<1>1. n > 0
  BY Z3
<1>2. (k - 1) % n \in 0..(n - 1)
  BY <1>1
<1> DEFINE q == (k - 1) \div n
<1>3. q \in Int /\ n * q <= k - 1
  BY <1>1, Z3
<1>4. q >= 0
  BY <1>1, <1>3, Z3
<1>5. q < m
  <2>1. SUFFICES ASSUME q >= m PROVE FALSE
    BY <1>3
  <2>2. n * q >= n * m
    BY <2>1, <1>1, <1>3, Z3
  <2> QED BY <2>2, <1>3
<1> QED BY <1>1, <1>2, <1>3, <1>4, <1>5

\* The cells of a list of entities are instance cells, in either order.
LEMMA CellsOfType ==
    ASSUME NEW found \in Seq(Entities)
    PROVE  /\ CellsOf(found) \in Seq(Scopes \X Entities)
           /\ SeedCellsOf(found) \in Seq(Scopes \X Entities)
<1>1. Len(ScopeOrder) \in Nat /\ Len(found) \in Nat
  BY OrchestratorAssumption
<1>2. \A i \in 1..Len(ScopeOrder) : ScopeOrder[i] \in Scopes
  BY OrchestratorAssumption DEF Scopes, Range
<1>3. \A i \in 1..Len(found) : found[i] \in Entities
  OBVIOUS
<1>4. CellsOf(found) \in Seq(Scopes \X Entities)
  <2> DEFINE n == Len(ScopeOrder)
             m == Len(found)
             f == [k \in 1..(n * m) |->
                     <<ScopeOrder[((k - 1) % n) + 1], found[((k - 1) \div n) + 1]>>]
  <2>1. n * m \in Nat
    BY <1>1
  <2>2. \A k \in 1..(n * m) : f[k] \in Scopes \X Entities
    BY <1>1, <1>2, <1>3, TableIndex
  <2>3. f \in [1..(n * m) -> Scopes \X Entities]
    BY <2>2
  <2> HIDE DEF n, m, f
  <2>4. f \in Seq(Scopes \X Entities)
    BY <2>1, <2>3
  <2> QED BY <2>4 DEF CellsOf, f, n, m
<1>5. SeedCellsOf(found) \in Seq(Scopes \X Entities)
  <2> DEFINE n == Len(found)
             m == Len(ScopeOrder)
             f == [k \in 1..(n * m) |->
                     <<ScopeOrder[((k - 1) \div n) + 1], found[((k - 1) % n) + 1]>>]
  <2>1. n * m \in Nat
    BY <1>1
  <2>2. \A k \in 1..(n * m) : f[k] \in Scopes \X Entities
    BY <1>1, <1>2, <1>3, TableIndex
  <2>3. f \in [1..(n * m) -> Scopes \X Entities]
    BY <2>2
  <2> HIDE DEF n, m, f
  <2>4. f \in Seq(Scopes \X Entities)
    BY <2>1, <2>3
  <2> QED BY <2>4 DEF SeedCellsOf, f, n, m
<1> QED BY <1>4, <1>5

\* The lists of entities a query can name are sequences of them.
LEMMA ListsType ==
    ASSUME NEW S, IsFiniteSet(S), NEW f \in Lists(S)
    PROVE  f \in Seq(S)
<1>1. Cardinality(S) \in Nat
  BY FS_CardinalityType
<1>2. PICK n \in 0..Cardinality(S) : f \in [1..n -> S]
  BY DEF Lists
<1> QED BY <1>1, <1>2

\* Judging an explanation by one tested expectation keeps its type.
LEMMA JudgeType ==
    ASSUME NEW e \in Explanation, NEW t \in Expectation
    PROVE  Judge(e, {t}) \in Explanation
<1> DEFINE owned     == {x \in {t} : x.owner = e.id}
           confirmed == Cardinality({x \in owned : x.status = "confirmed"})
           refuted   == Cardinality({x \in owned : x.status = "refuted"})
<1>1. IsFiniteSet(owned)
  BY FS_Singleton, FS_Subset, owned \subseteq {t}
<1>2. /\ IsFiniteSet({x \in owned : x.status = "confirmed"})
      /\ IsFiniteSet({x \in owned : x.status = "refuted"})
  BY <1>1, FS_Subset, {x \in owned : x.status = "confirmed"} \subseteq owned,
     {x \in owned : x.status = "refuted"} \subseteq owned
<1>3. confirmed \in Nat /\ refuted \in Nat /\ Cardinality(owned) \in Nat
  BY <1>1, <1>2, FS_CardinalityType
<1> DEFINE verdict ==
      CASE refuted > 0 /\ confirmed = 0 /\ refuted = Cardinality(owned)
              -> "rejected"
        [] refuted > 0 /\ ~ (confirmed = 0 /\ refuted = Cardinality(owned))
              -> "weakened"
        [] refuted = 0 /\ confirmed > 0 -> "live"
        [] refuted = 0 /\ confirmed = 0 -> e.status
<1>4. Judge(e, {t}) = IF e.status = "rejected" \/ owned = {} THEN e
                      ELSE [e EXCEPT !.sup = confirmed, !.ref = refuted,
                                     !.status = verdict]
  BY DEF Judge
<1> HIDE DEF owned, confirmed, refuted
<1>5. verdict \in ExplanationStatus
  BY <1>3 DEF Explanation, ExplanationStatus
<1> HIDE DEF verdict
<1> QED BY <1>3, <1>4, <1>5 DEF Explanation

\* M3 keeps every explanation typed.
LEMMA UpdateType ==
    ASSUME DOMAIN explanations \subseteq Labels,
           \A l \in DOMAIN explanations : explanations[l] \in Explanation,
           NEW t \in Expectation
    PROVE  LET new == UpdateExplanationContradictions(explanations, {t})
           IN  /\ DOMAIN new = DOMAIN explanations
               /\ \A l \in DOMAIN new : new[l] \in Explanation
BY JudgeType DEF UpdateExplanationContradictions

\* Concluding an expectation keeps the hypotheses typed.
LEMMA ConcludeType ==
    ASSUME TypeOK, NEW x \in DOMAIN expectations, NEW status \in TestStatus,
           Conclude(x, status)
    PROVE  /\ DOMAIN explanations' = DOMAIN explanations
           /\ \A l \in DOMAIN explanations' : explanations'[l] \in Explanation
           /\ DOMAIN expectations' = DOMAIN expectations
           /\ \A y \in DOMAIN expectations' : expectations'[y] \in Expectation
<1> DEFINE t == [expectations[x] EXCEPT !.status = status]
<1>1. t \in Expectation
  BY DEF TypeOK, Expectation
<1>2. expectations' = [expectations EXCEPT ![x] = t]
  BY DEF Conclude
<1>3. \/ explanations' = explanations
      \/ explanations' = UpdateExplanationContradictions(explanations, {t})
  BY DEF Conclude
<1> HIDE DEF t
<1>4. /\ DOMAIN expectations' = DOMAIN expectations
      /\ \A y \in DOMAIN expectations' : expectations'[y] \in Expectation
  BY <1>1, <1>2 DEF TypeOK
<1>5. /\ DOMAIN explanations' = DOMAIN explanations
      /\ \A l \in DOMAIN explanations' : explanations'[l] \in Explanation
  BY <1>1, <1>3, UpdateType DEF TypeOK
<1> QED BY <1>4, <1>5

\* A response's candidates are stored as typed explanations and expectations.
LEMMA AddType ==
    ASSUME TypeOK, NEW r \in Responses, NEW epoch \in Nat
    PROVE  LET es == AddExplanations(explanations, r.expls, epoch)
               xs == AddExpectations(expectations, r.exps, epoch)
           IN  /\ DOMAIN es \subseteq Labels
               /\ \A l \in DOMAIN es : es[l] \in Explanation
               /\ DOMAIN xs \subseteq ExpIds
               /\ \A x \in DOMAIN xs : xs[x] \in Expectation
<1>1. IsResponse(r, Obs)
  BY OrchestratorAssumption
<1> DEFINE es == AddExplanations(explanations, r.expls, epoch)
           xs == AddExpectations(expectations, r.exps, epoch)
<1>2. DOMAIN es \subseteq Labels /\ DOMAIN xs \subseteq ExpIds
  BY <1>1 DEF TypeOK, AddExplanations, AddExpectations, IsResponse
<1>3. ASSUME NEW l \in DOMAIN es PROVE es[l] \in Explanation
  <2>1. CASE l \in DOMAIN explanations
    BY <2>1 DEF TypeOK, AddExplanations
  <2>2. CASE l \notin DOMAIN explanations
    <3>1. l \in DOMAIN r.expls /\ r.expls[l] \in Candidate(Obs)
      BY <2>2, <1>1 DEF AddExplanations, IsResponse
    <3>2. es[l] = [id |-> r.expls[l].id, class |-> r.expls[l].class,
                   status |-> "live", sup |-> 0, ref |-> 0,
                   born |-> <<epoch, r.expls[l].pos>>]
      BY <2>2, <3>1 DEF AddExplanations
    <3> QED BY <3>1, <3>2 DEF Candidate, Explanation, ExplanationStatus
  <2> QED BY <2>1, <2>2
<1>4. ASSUME NEW x \in DOMAIN xs PROVE xs[x] \in Expectation
  <2>1. CASE x \in DOMAIN expectations
    BY <2>1 DEF TypeOK, AddExpectations
  <2>2. CASE x \notin DOMAIN expectations
    <3>1. x \in DOMAIN r.exps /\ x \in ExpIds /\ r.exps[x] \in CandidateTest
      BY <2>2, <1>1 DEF AddExpectations, IsResponse
    <3>2. xs[x] = [id |-> x, owner |-> r.exps[x].owner, req |-> r.exps[x].req,
                   entity |-> r.exps[x].entity, scope |-> r.exps[x].scope,
                   inWindow |-> r.exps[x].inWindow, status |-> "untested",
                   born |-> <<epoch, r.exps[x].pos>>]
      BY <2>2, <3>1 DEF AddExpectations
    <3> QED BY <3>1, <3>2 DEF CandidateTest, Expectation, TestStatus
  <2> QED BY <2>1, <2>2
<1> QED BY <1>2, <1>3, <1>4

\* The account's verdict is typed.
LEMMA VerdictType ==
    ASSUME TypeOK
    PROVE  /\ Verdict.terminal \in {"STOP_RESOLVED", "STOP_BOUNDED"}
           /\ Verdict.disposition \in Dispositions
           /\ Verdict.residual \in SUBSET Blockers
<1>1. CurrentIssues \subseteq Issues
  BY DEF CurrentIssues, Issues
<1>2. BlockersOf(explanations, CurrentIssues) \subseteq Blockers
  BY <1>1 DEF BlockersOf, Blockers
<1>3. ResolvedDisposition(explanations) \in Dispositions
  BY DEF ResolvedDisposition, Dispositions
<1>4. BoundedDisposition(explanations, CurrentIssues) \in Dispositions
  BY DEF BoundedDisposition, Dispositions
<1> QED BY <1>2, <1>3, <1>4 DEF Verdict, EvaluateStopping

\* A query runs in a scope that has an adapter (_get_adapter).
LEMMA AdapterType == ASSUME HasAdapter, NEW s PROVE AdapterFor(s) \in Scopes
BY OrchestratorAssumption DEF HasAdapter, AdapterFor

\* A logged query is typed, and so are the ledger and the pending ids.
LEMMA AskType ==
    ASSUME TypeOK, NEW action \in {"TEST", "EXPAND", "SAMPLE"},
           NEW adapter \in Scopes, NEW entity \in Entities \cup {ANY},
           NEW res \in Results, Ask(action, adapter, entity, res)
    PROVE  /\ \E q \in QueryRecord : queries' = Append(queries, q)
           /\ queries' \in Seq(QueryRecord)
           /\ observations' \subseteq Obs /\ pending' \subseteq Obs
<1> DEFINE q == [action |-> action, adapter |-> adapter, entity |-> entity,
                 ok |-> res.ok, complete |-> res.complete,
                 found |-> res.rows # {}]
<1>1. q \in QueryRecord
  BY DEF Results, QueryRecord
<1>2. queries' = Append(queries, q)
  BY DEF Ask
<1> HIDE DEF q
<1>3. queries' \in Seq(QueryRecord)
  BY <1>1, <1>2 DEF TypeOK
<1>4. observations' \subseteq Obs /\ pending' \subseteq Obs
  BY ResultsFresh DEF Ask, TypeOK
<1> QED BY <1>1, <1>2, <1>3, <1>4

\* A recorded outcome is a cell state.
LEMMA RecordOutcomeType ==
    ASSUME NEW state \in CellStates, NEW res \in Results
    PROVE  RecordOutcome(state, res) \in CellStates
BY DEF RecordOutcome, CellStates, Results

\* New cells are typed.
LEMMA DiscoverType ==
    ASSUME TypeOK, NEW res, NEW target \in Cells, NEW state \in CellStates,
           Discover(res, target, state)
    PROVE  /\ instances' \in Seq(Scopes \X Entities)
           /\ cell' \in [Cells -> CellStates]
<1> DEFINE registered == {instances[i][2] : i \in DOMAIN instances}
<1>1. PICK found \in IF res.rows = {} THEN {<< >>}
                     ELSE Lists(Entities \ registered) :
          /\ instances' = instances \o CellsOf(found)
          /\ cell' = [c \in Cells |->
                         CASE c = target -> state
                           [] c # target /\ c[2] \in Range(found) -> "unexplored"
                           [] c # target /\ c[2] \notin Range(found) -> cell[c]]
  BY DEF Discover
<1>2. found \in Seq(Entities)
  <2>1. CASE res.rows = {}
    BY <2>1, <1>1
  <2>2. CASE res.rows # {}
    <3>1. IsFiniteSet(Entities \ registered)
      BY OrchestratorAssumption, FS_Subset, Entities \ registered \subseteq Entities
    <3>2. found \in Lists(Entities \ registered)
      BY <2>2, <1>1
    <3> HIDE DEF registered
    <3>3. found \in Seq(Entities \ registered)
      BY <3>1, <3>2, ListsType
    <3> QED BY <3>3
  <2> QED BY <2>1, <2>2
<1>3. CellsOf(found) \in Seq(Scopes \X Entities)
  BY <1>2, CellsOfType
<1>4. instances' \in Seq(Scopes \X Entities)
  BY <1>1, <1>3 DEF TypeOK
<1>5. cell' \in [Cells -> CellStates]
  BY <1>1 DEF TypeOK, CellStates
<1> QED BY <1>4, <1>5

\* One EXPAND or SAMPLE keeps what it touches typed.
LEMMA SweepType ==
    ASSUME TypeOK, NEW action \in {"EXPAND", "SAMPLE"}, NEW target \in Cells,
           NEW bindable, Sweep(action, target, bindable)
    PROVE  /\ \/ UNCHANGED queries
              \/ \E q \in QueryRecord : queries' = Append(queries, q)
           /\ queries' \in Seq(QueryRecord)
           /\ observations' \subseteq Obs /\ pending' \subseteq Obs
           /\ instances' \in Seq(Scopes \X Entities)
           /\ cell' \in [Cells -> CellStates]
<1> DEFINE res0 == [ok |-> FALSE, complete |-> FALSE, rows |-> {}]
<1>1. CASE /\ Discover(res0, target, "explored")
           /\ UNCHANGED <<queries, observations, pending>>
  BY <1>1, DiscoverType DEF TypeOK, CellStates
<1>2. CASE /\ HasAdapter
           /\ \E res \in Results :
                /\ Ask(action, AdapterFor(target[1]), target[2], res)
                /\ Discover(res, target,
                            IF res.rows = {} THEN "explored"
                            ELSE RecordOutcome(cell[target], res))
  <2>1. PICK res \in Results :
                /\ Ask(action, AdapterFor(target[1]), target[2], res)
                /\ Discover(res, target,
                            IF res.rows = {} THEN "explored"
                            ELSE RecordOutcome(cell[target], res))
    BY <1>2
  <2>2. cell[target] \in CellStates /\ target[2] \in Entities \cup {ANY}
    BY DEF TypeOK, Cells
  <2>3. (IF res.rows = {} THEN "explored"
         ELSE RecordOutcome(cell[target], res)) \in CellStates
    BY <2>2, RecordOutcomeType DEF CellStates
  <2>4. AdapterFor(target[1]) \in Scopes
    BY <1>2, AdapterType
  <2>5. /\ \E q \in QueryRecord : queries' = Append(queries, q)
        /\ queries' \in Seq(QueryRecord)
        /\ observations' \subseteq Obs /\ pending' \subseteq Obs
    BY <2>1, <2>2, <2>4, AskType
  <2>6. /\ instances' \in Seq(Scopes \X Entities)
        /\ cell' \in [Cells -> CellStates]
    BY <2>1, <2>3, DiscoverType
  <2> QED BY <2>5, <2>6
<1> QED BY <1>1, <1>2 DEF Sweep

\* TypeOK survives every step.
LEMMA TypeStep ==
    ASSUME TypeOK, [Next]_vars
    PROVE  TypeOK'
<1>1. CASE Stop
  BY <1>1 DEF Stop, TypeOK, coverage, hypotheses, runtime
<1>2. CASE TestUnasked
  <2>1. PICK x \in DOMAIN expectations : Conclude(x, "refuted")
    BY <1>2 DEF TestUnasked
  <2>2. /\ DOMAIN explanations' = DOMAIN explanations
        /\ \A l \in DOMAIN explanations' : explanations'[l] \in Explanation
        /\ DOMAIN expectations' = DOMAIN expectations
        /\ \A y \in DOMAIN expectations' : expectations'[y] \in Expectation
    BY <2>1, ConcludeType DEF TestStatus
  <2>3. phase' = "trigger"
    BY <1>2 DEF TestUnasked, Acts, Takes
  <2> QED BY <1>2, <2>2, <2>3 DEF TestUnasked, TypeOK, coverage, runtime
<1>3. CASE TestAsked
  <2>1. PICK x \in DOMAIN expectations, res \in Results :
            /\ Ask("TEST", AdapterFor(expectations[x].scope),
                   expectations[x].entity, res)
            /\ RecordOnTarget(expectations[x],
                              AdapterFor(expectations[x].scope), res)
            /\ \E status \in TestStatusFrom(res) : Conclude(x, status)
    BY <1>3 DEF TestAsked
  <2>2. PICK status \in TestStatusFrom(res) : Conclude(x, status)
    BY <2>1
  <2>3. status \in TestStatus
    BY DEF TestStatusFrom, TestStatus
  <2>4. /\ DOMAIN explanations' = DOMAIN explanations
        /\ \A l \in DOMAIN explanations' : explanations'[l] \in Explanation
        /\ DOMAIN expectations' = DOMAIN expectations
        /\ \A y \in DOMAIN expectations' : expectations'[y] \in Expectation
    BY <2>2, <2>3, ConcludeType
  <2>5. AdapterFor(expectations[x].scope) \in Scopes
    BY <1>3, AdapterType DEF TestAsked
  <2>6. expectations[x].entity \in Entities
    BY DEF TypeOK, Expectation
  <2>7. /\ queries' \in Seq(QueryRecord)
        /\ observations' \subseteq Obs /\ pending' \subseteq Obs
    BY <2>1, <2>5, <2>6, AskType
  <2>8. cell' \in [Cells -> CellStates]
    <3> DEFINE target == <<AdapterFor(expectations[x].scope),
                           expectations[x].entity>>
    <3>1. target \in Cells
      BY <2>5, <2>6 DEF Cells
    <3>2. RecordOutcome(cell[target], res) \in CellStates
      BY <3>1, RecordOutcomeType DEF TypeOK
    <3>3. cell' = cell \/ cell' = [cell EXCEPT ![target] =
                                       RecordOutcome(cell[target], res)]
      BY <2>1 DEF RecordOnTarget
    <3> QED BY <3>1, <3>2, <3>3 DEF TypeOK
  <2>9. phase' = "trigger"
    BY <1>3 DEF TestAsked, Acts, Takes
  <2> QED BY <1>3, <2>4, <2>7, <2>8, <2>9 DEF TestAsked, TypeOK
<1>4. CASE Expand
  <2>1. PICK i \in DOMAIN instances :
            Sweep("EXPAND", instances[i], ExpandRequirements \cap Supported # {})
    BY <1>4 DEF Expand
  <2>2. instances[i] \in Cells
    BY DEF TypeOK, Cells
  <2>3. phase' = "trigger"
    BY <1>4 DEF Expand, Acts, Takes
  <2> QED BY <1>4, <2>1, <2>2, <2>3, SweepType DEF Expand, TypeOK, hypotheses
<1>5. CASE Sample
  <2>1. PICK s \in Scopes : Sweep("SAMPLE", <<s, ANY>>, "scope_records" \in Supported)
    BY <1>5 DEF Sample, SampleScopes
  <2>2. <<s, ANY>> \in Cells
    BY DEF Cells
  <2>3. phase' = "trigger"
    BY <1>5 DEF Sample, Acts, Takes
  <2> QED BY <1>5, <2>1, <2>2, <2>3, SweepType DEF Sample, TypeOK, hypotheses
<1>6. CASE Trigger
  BY <1>6 DEF Trigger, EndTurn, TypeOK, coverage, hypotheses, runtime
<1>7. CASE AttemptFails
  BY <1>7 DEF AttemptFails, TypeOK, coverage, hypotheses, runtime
<1>8. CASE GiveUp
  BY <1>8 DEF GiveUp, Consume, Batch, EndTurn, TypeOK, coverage, hypotheses
<1>9. CASE EmptyResponse
  BY <1>9 DEF EmptyResponse, EndTurn, TypeOK, coverage, hypotheses, runtime
<1>10. CASE InvalidResponse
  BY <1>10 DEF InvalidResponse, Consume, Batch, EndTurn, TypeOK, coverage,
               hypotheses
<1>11. ASSUME NEW r \in Responses, Absorb(r) PROVE TypeOK'
  <2>1. calls' \in Nat
    BY <1>11 DEF Absorb, TypeOK
  <2>2. /\ DOMAIN explanations' \subseteq Labels
        /\ \A l \in DOMAIN explanations' : explanations'[l] \in Explanation
        /\ DOMAIN expectations' \subseteq ExpIds
        /\ \A x \in DOMAIN expectations' : expectations'[x] \in Expectation
    BY <1>11, <2>1, AddType DEF Absorb
  <2>3. attributed' \subseteq Obs \X ExplIds
    <3>1. \A l \in DOMAIN r.expls : /\ r.expls[l].id \in ExplIds
                                    /\ Cited(r.expls[l]) \subseteq Obs
      BY <1>11, OrchestratorAssumption DEF Absorb, IsResponse, Candidate, TypeOK
    <3> QED BY <1>11, <3>1 DEF Absorb, TypeOK
  <2>4. pending' \subseteq Obs /\ processed' \subseteq Obs
    BY <1>11 DEF Absorb, Consume, Batch, TypeOK
  <2>5. phase' \in {"conclude", "act"} /\ turn' \in Nat
    BY <1>11 DEF Absorb, EndTurn, TypeOK
  <2>6. /\ retries' \in Nat
        /\ UNCHANGED <<final, cell, instances, observations, queries, failures,
                       dark, account, submissions>>
    BY <1>11 DEF Absorb, coverage
  <2>7. {calls', failures', retries', turn', submissions'} \subseteq Nat
    BY <2>1, <2>5, <2>6 DEF TypeOK
  <2> QED BY <2>2, <2>3, <2>4, <2>5, <2>6, <2>7 DEF TypeOK
<1>12. ASSUME NEW r \in Responses, CitationCrash(r) PROVE TypeOK'
  BY <1>12 DEF CitationCrash, TypeOK, coverage, hypotheses, runtime
<1>13. ASSUME NEW c \in BOOLEAN, EmitFinalAccount(c) PROVE TypeOK'
  <2>1. Account(c) \in AccountRecord
    BY VerdictType DEF Account, AccountRecord
  <2> QED BY <1>13, <2>1
          DEF EmitFinalAccount, TypeOK, coverage, hypotheses, runtime
<1>14. CASE UNCHANGED vars
  BY <1>14 DEF vars, TypeOK, coverage, hypotheses, runtime
<1>15. CASE ScopeCrash
  BY <1>15 DEF ScopeCrash, TypeOK, coverage, hypotheses, runtime
<1> QED BY <1>1, <1>2, <1>3, <1>4, <1>5, <1>6, <1>7, <1>8, <1>9, <1>10,
           <1>11, <1>12, <1>13, <1>14, <1>15 DEF Next

\* The bootstrap state is typed.
LEMMA TypeInit == Init => TypeOK
<1> SUFFICES ASSUME Init PROVE TypeOK
  OBVIOUS
<1>1. PICK seed \in Lists(Entities),
           scopeState \in [Scopes -> {"unexplored", "unreachable", "unqueryable"}] :
         /\ instances = SeedCellsOf(seed)
         /\ cell = [c \in Cells |->
                        IF c[2] \in Range(seed) \cup {ANY}
                        THEN scopeState[c[1]] ELSE "absent"]
  BY DEF Init
<1>2. instances \in Seq(Scopes \X Entities)
  BY <1>1, ListsType, CellsOfType, OrchestratorAssumption
<1>3. cell \in [Cells -> CellStates]
  BY <1>1 DEF Cells, CellStates
<1>4. DOMAIN explanations = {} /\ DOMAIN expectations = {}
  BY DEF Init
<1>5. queries \in Seq(QueryRecord)
  BY DEF Init
<1>6. /\ phase = "act" /\ final = FALSE /\ dark = FALSE
      /\ observations = {} /\ pending = {} /\ processed = {} /\ attributed = {}
      /\ calls = 0 /\ failures = 0 /\ retries = 0 /\ turn = 0
      /\ submissions = 0 /\ account = NoAccount
  BY DEF Init
<1>7. /\ observations \subseteq Obs /\ pending \subseteq Obs
      /\ processed \subseteq Obs /\ attributed \subseteq Obs \X ExplIds
  BY <1>6
<1>8. {calls, failures, retries, turn, submissions} \subseteq Nat
  BY <1>6
<1>9. /\ phase \in {"act", "trigger", "abduce", "conclude",
                    "emitted", "refused", "crashed"}
      /\ final \in BOOLEAN /\ dark \in BOOLEAN
      /\ account \in AccountRecord \cup {NoAccount}
  BY <1>6
<1>10. /\ DOMAIN explanations \subseteq Labels
       /\ \A l \in DOMAIN explanations : explanations[l] \in Explanation
       /\ DOMAIN expectations \subseteq ExpIds
       /\ \A x \in DOMAIN expectations : expectations[x] \in Expectation
  BY <1>4
<1> QED BY <1>2, <1>3, <1>5, <1>7, <1>8, <1>9, <1>10 DEF TypeOK

\* Every variable keeps its type.
THEOREM TypeCorrect == Spec => []TypeOK
BY TypeInit, TypeStep, PTL DEF Spec

-----------------------------------------------------------------------------
(* Budgets.                                                                *)

\* An epoch or a check that ends the turn adds one turn, or concludes.
LEMMA EndTurnBudget ==
    ASSUME BudgetInv, phase \in {"trigger", "abduce"}, EndTurn,
           UNCHANGED <<final, queries>>
    PROVE  /\ turn' \in Nat /\ TurnBudget'
           /\ phase' # "abduce" /\ phase' # "trigger"
           /\ phase' = "act" => ~ final'
           /\ phase' \in {"conclude", "emitted", "refused"} => final'
BY OrchestratorAssumption, SMTT(30) DEF BudgetInv, TurnBudget, EndTurn

\* The log grows by at most one query in an action that starts below both
\* budgets.
LEMMA ActBudget ==
    ASSUME BudgetInv, NEW action, Acts(action),
           UNCHANGED <<final, turn, calls, failures, retries, dark, submissions>>,
           \/ UNCHANGED queries
           \/ \E q \in QueryRecord : queries' = Append(queries, q)
    PROVE  BudgetInv'
<1>1. turn < TMax /\ Len(queries) < QMax /\ ~ final /\ phase = "act"
  BY OrchestratorAssumption DEF Acts, Takes, BudgetExhausted, BudgetInv
<1>2. queries' \in Seq(QueryRecord) /\ Len(queries') <= Len(queries) + 1
  BY SMTT(30) DEF BudgetInv
<1>3. Len(queries) \in Nat /\ Len(queries') \in Nat
  BY <1>2 DEF BudgetInv
<1>4. phase' = "trigger"
  BY DEF Acts, Takes
<1>5. TurnBudget'
  BY <1>1, <1>2, <1>3, <1>4, OrchestratorAssumption, SMTT(30) DEF BudgetInv, TurnBudget
<1> QED BY <1>1, <1>2, <1>4, <1>5 DEF BudgetInv

\* BudgetInv survives every step.
LEMMA BudgetStep ==
    ASSUME TypeOK, BudgetInv, [Next]_vars
    PROVE  BudgetInv'
<1>1. CASE Stop
  <2>1. phase' = "trigger" /\ final' /\ phase = "act" /\ ~ final
    BY <1>1 DEF Stop, BudgetInv
  <2>2. UNCHANGED <<queries, pending, calls, failures, retries, dark, turn,
                    submissions>>
    BY <1>1 DEF Stop, runtime
  <2> QED BY <2>1, <2>2 DEF BudgetInv, TurnBudget
<1>2. CASE TestUnasked
  BY <1>2, ActBudget DEF TestUnasked, runtime
<1>3. CASE TestAsked
  <2>1. PICK x \in DOMAIN expectations, res \in Results :
            Ask("TEST", AdapterFor(expectations[x].scope),
                expectations[x].entity, res)
    BY <1>3 DEF TestAsked
  <2>2. AdapterFor(expectations[x].scope) \in Scopes
    BY <1>3, AdapterType DEF TestAsked
  <2>3. expectations[x].entity \in Entities
    BY DEF TypeOK, Expectation
  <2>4. \E q \in QueryRecord : queries' = Append(queries, q)
    BY <2>1, <2>2, <2>3, AskType
  <2> QED BY <1>3, <2>4, ActBudget DEF TestAsked
<1>4. CASE Expand
  <2>1. PICK i \in DOMAIN instances :
            Sweep("EXPAND", instances[i], ExpandRequirements \cap Supported # {})
    BY <1>4 DEF Expand
  <2>2. instances[i] \in Cells
    BY DEF TypeOK, Cells
  <2> QED BY <1>4, <2>1, <2>2, SweepType, ActBudget DEF Expand
<1>5. CASE Sample
  <2>1. PICK s \in Scopes : Sweep("SAMPLE", <<s, ANY>>, "scope_records" \in Supported)
    BY <1>5 DEF Sample, SampleScopes
  <2>2. <<s, ANY>> \in Cells
    BY DEF Cells
  <2> QED BY <1>5, <2>1, <2>2, SweepType, ActBudget DEF Sample
<1>6. CASE Trigger
  <2>1. CASE ShouldCall
    <3>1. /\ phase = "trigger" /\ phase' = "abduce"
          /\ submissions' = submissions + 1
          /\ UNCHANGED <<final, queries, pending, calls, failures, retries,
                         dark, turn>>
      BY <1>6, <2>1 DEF Trigger, runtime
    <3>2. calls + failures < MaxCalls /\ failures = 0 /\ pending # {}
      BY <2>1 DEF ShouldCall
    <3> QED BY <3>1, <3>2 DEF BudgetInv, TurnBudget
  <2>2. CASE ~ ShouldCall
    <3>1. /\ phase = "trigger" /\ EndTurn
          /\ UNCHANGED <<final, queries, calls, failures, retries, dark,
                         submissions>>
      BY <1>6, <2>2 DEF Trigger, runtime
    <3> QED BY <3>1, EndTurnBudget DEF BudgetInv
  <2> QED BY <2>1, <2>2
<1>7. CASE AttemptFails
  <2>1. /\ phase = "abduce" /\ phase' = phase /\ retries + 1 <= MaxRetries
        /\ retries' = retries + 1
        /\ UNCHANGED <<final, queries, pending, calls, failures, dark, turn,
                       submissions>>
    BY <1>7 DEF AttemptFails, runtime
  <2> QED BY <2>1 DEF BudgetInv, TurnBudget
<1>8. CASE GiveUp
  <2>1. /\ phase = "abduce" /\ EndTurn /\ failures' = failures + 1
        /\ retries' = 0 /\ UNCHANGED <<final, queries, calls, submissions>>
    BY <1>8 DEF GiveUp
  <2> QED BY <2>1, EndTurnBudget, OrchestratorAssumption DEF BudgetInv
<1>9. CASE EmptyResponse
  <2>1. /\ phase = "abduce" /\ EndTurn /\ retries' = 0
        /\ UNCHANGED <<final, queries, calls, failures, dark, submissions>>
    BY <1>9 DEF EmptyResponse, runtime
  <2> QED BY <2>1, EndTurnBudget, OrchestratorAssumption DEF BudgetInv
<1>10. CASE InvalidResponse
  <2>1. /\ phase = "abduce" /\ EndTurn /\ retries' = 0
        /\ calls' = calls + 1 /\ failures' = failures + 1
        /\ UNCHANGED <<final, queries, dark, submissions>>
    BY <1>10 DEF InvalidResponse
  <2> QED BY <2>1, EndTurnBudget, OrchestratorAssumption, SMTT(30) DEF BudgetInv
<1>11. ASSUME NEW r \in Responses, Absorb(r) PROVE BudgetInv'
  <2>1. /\ phase = "abduce" /\ EndTurn /\ retries' = 0 /\ calls' = calls + 1
        /\ UNCHANGED <<final, queries, failures, dark, submissions>>
    BY <1>11 DEF Absorb
  <2> QED BY <2>1, EndTurnBudget, OrchestratorAssumption, SMTT(30) DEF BudgetInv
<1>12. ASSUME NEW r \in Responses, CitationCrash(r) PROVE BudgetInv'
  <2>1. /\ phase = "abduce" /\ phase' = "crashed"
        /\ UNCHANGED <<final, queries, pending, calls, failures, retries,
                       dark, turn, submissions>>
    BY <1>12 DEF CitationCrash, runtime
  <2> QED BY <2>1 DEF BudgetInv, TurnBudget
<1>13. ASSUME NEW c \in BOOLEAN, EmitFinalAccount(c) PROVE BudgetInv'
  <2>1. /\ phase = "conclude" /\ phase' \in {"refused", "emitted"}
        /\ UNCHANGED <<final, queries, pending, calls, failures, retries,
                       dark, turn, submissions>>
    BY <1>13 DEF EmitFinalAccount, runtime
  <2> QED BY <2>1 DEF BudgetInv, TurnBudget
<1>14. CASE UNCHANGED vars
  BY <1>14 DEF vars, runtime, BudgetInv, TurnBudget
<1>15. CASE ScopeCrash
  <2>1. /\ phase = "act" /\ phase' = "crashed"
        /\ UNCHANGED <<final, queries, pending, calls, failures, retries,
                       dark, turn, submissions>>
    BY <1>15 DEF ScopeCrash, Takes, runtime
  <2> QED BY <2>1 DEF BudgetInv, TurnBudget
<1> QED BY <1>1, <1>2, <1>3, <1>4, <1>5, <1>6, <1>7, <1>8, <1>9, <1>10,
           <1>11, <1>12, <1>13, <1>14, <1>15 DEF Next

\* The bootstrap state is within every budget.
LEMMA BudgetInit == Init => BudgetInv
<1> SUFFICES ASSUME Init PROVE BudgetInv
  OBVIOUS
<1>1. /\ phase = "act" /\ final = FALSE /\ dark = FALSE /\ calls = 0
      /\ failures = 0 /\ retries = 0 /\ turn = 0 /\ submissions = 0
      /\ queries = << >>
  BY DEF Init
<1>2. queries \in Seq(QueryRecord) /\ Len(queries) = 0
  BY <1>1
<1>3. {MaxRetries, TMax, QMax, MaxCalls} \subseteq Nat
  BY OrchestratorAssumption
<1>4. TurnBudget
  BY <1>1, <1>2, <1>3 DEF TurnBudget
<1>5. ~ dark /\ ~ final /\ final \in BOOLEAN
  BY <1>1
<1>6. {calls, failures, retries, turn, submissions} \subseteq Nat
  BY <1>1
<1>7. calls <= MaxCalls /\ failures <= 1 /\ retries <= MaxRetries
  BY <1>1, <1>3
<1>8. phase \notin {"abduce", "trigger", "conclude", "emitted", "refused"}
  BY <1>1
<1> QED BY <1>2, <1>4, <1>5, <1>6, <1>7, <1>8 DEF BudgetInv

\* The budgets' inductive invariant holds in every investigation.
LEMMA BudgetInvariant == Spec => [](TypeOK /\ BudgetInv)
<1>1. Init => TypeOK /\ BudgetInv
  BY TypeInit, BudgetInit
<1>2. TypeOK /\ BudgetInv /\ [Next]_vars => TypeOK' /\ BudgetInv'
  BY TypeStep, BudgetStep
<1> QED BY <1>1, <1>2, PTL DEF Spec

\* The call cap, the circuit breaker and the retry bound hold for every
\* policy configuration.
THEOREM CallsAreBounded == Spec => []CallBudget
<1>1. BudgetInv => CallBudget
  BY DEF BudgetInv, CallBudget
<1> QED BY <1>1, BudgetInvariant, PTL

\* Turns and queries stay within their budgets, one query a turn at most.
THEOREM TurnsAreBounded == Spec => []TurnBudget
<1>1. BudgetInv => TurnBudget
  BY DEF BudgetInv
<1> QED BY <1>1, BudgetInvariant, PTL

-----------------------------------------------------------------------------
(* Hypotheses.                                                             *)

\* What M3 does to one explanation when it sees one concluded expectation:
\* the id stays, a rejected explanation is left alone, and a new rejection
\* comes from a refuted expectation that names it.
LEMMA JudgeVerdict ==
    ASSUME NEW e \in Explanation, NEW t \in Expectation
    PROVE  /\ Judge(e, {t}).id = e.id
           /\ e.status = "rejected" => Judge(e, {t}) = e
           /\ Judge(e, {t}).status = "rejected" /\ e.status # "rejected" =>
                  t.owner = e.id /\ t.status = "refuted"
<1> DEFINE owned     == {x \in {t} : x.owner = e.id}
           confirmed == Cardinality({x \in owned : x.status = "confirmed"})
           refuted   == Cardinality({x \in owned : x.status = "refuted"})
           verdict   ==
             CASE refuted > 0 /\ confirmed = 0 /\ refuted = Cardinality(owned)
                     -> "rejected"
               [] refuted > 0 /\ ~ (confirmed = 0 /\ refuted = Cardinality(owned))
                     -> "weakened"
               [] refuted = 0 /\ confirmed > 0 -> "live"
               [] refuted = 0 /\ confirmed = 0 -> e.status
<1>1. Judge(e, {t}) = IF e.status = "rejected" \/ owned = {} THEN e
                      ELSE [e EXCEPT !.sup = confirmed, !.ref = refuted,
                                     !.status = verdict]
  BY DEF Judge
<1>2. refuted > 0 => t.owner = e.id /\ t.status = "refuted"
  <2>1. SUFFICES ASSUME ~ (t.owner = e.id /\ t.status = "refuted")
                 PROVE  refuted = 0
    OBVIOUS
  <2>2. {x \in owned : x.status = "refuted"} = {}
    BY <2>1
  <2> QED BY <2>2, FS_EmptySet
<1>3. confirmed \in Nat /\ refuted \in Nat
  <2>1. IsFiniteSet({t})
    BY FS_Singleton
  <2>2. /\ {x \in owned : x.status = "confirmed"} \subseteq {t}
        /\ {x \in owned : x.status = "refuted"} \subseteq {t}
    OBVIOUS
  <2> HIDE DEF owned
  <2> QED BY <2>1, <2>2, FS_Subset, FS_CardinalityType
<1> HIDE DEF owned, confirmed, refuted
<1>4. verdict = "rejected" /\ e.status # "rejected" => refuted > 0
  BY <1>3
<1> HIDE DEF verdict
<1> QED BY <1>1, <1>2, <1>4 DEF Explanation

\* Concluding the first untested expectation keeps every rejection grounded
\* and changes no record it should not.
LEMMA ConcludeRecord ==
    ASSUME TypeOK, NEW x \in DOMAIN expectations, NEW status \in TestStatus,
           IsFirstUntested(x, expectations), Conclude(x, status)
    PROVE  /\ DOMAIN explanations' = DOMAIN explanations
           /\ DOMAIN expectations' = DOMAIN expectations
           /\ \A y \in DOMAIN expectations :
                 /\ expectations'[y].owner = expectations[y].owner
                 /\ expectations[y].status # "untested" =>
                        expectations'[y] = expectations[y]
           /\ \A l \in DOMAIN explanations :
                 /\ explanations'[l].id = explanations[l].id
                 /\ explanations[l].status = "rejected" =>
                        explanations'[l] = explanations[l]
                 /\ explanations'[l].status = "rejected"
                    /\ explanations[l].status # "rejected" =>
                        /\ expectations'[x].owner = explanations[l].id
                        /\ expectations'[x].status = "refuted"
<1> DEFINE t == [expectations[x] EXCEPT !.status = status]
<1>1. /\ t \in Expectation /\ t.owner = expectations[x].owner
      /\ expectations[x].status = "untested"
  BY DEF TypeOK, Expectation, IsFirstUntested, Untested
<1>2. expectations' = [expectations EXCEPT ![x] = t]
  BY DEF Conclude
<1>3. \/ explanations' = explanations
      \/ explanations' = UpdateExplanationContradictions(explanations, {t})
  BY DEF Conclude
<1> HIDE DEF t
<1>4. \A l \in DOMAIN explanations :
         explanations'[l] \in {explanations[l], Judge(explanations[l], {t})}
  BY <1>3 DEF UpdateExplanationContradictions
<1>5. DOMAIN explanations' = DOMAIN explanations
  BY <1>3 DEF UpdateExplanationContradictions
<1>6. /\ DOMAIN expectations' = DOMAIN expectations
      /\ expectations'[x] = t
      /\ \A y \in DOMAIN expectations \ {x} : expectations'[y] = expectations[y]
  BY <1>2 DEF TypeOK
<1>7. \A l \in DOMAIN explanations : explanations[l] \in Explanation
  BY DEF TypeOK
<1>8. \A l \in DOMAIN explanations :
         /\ explanations'[l].id = explanations[l].id
         /\ explanations[l].status = "rejected" => explanations'[l] = explanations[l]
         /\ explanations'[l].status = "rejected" /\ explanations[l].status # "rejected"
              => t.owner = explanations[l].id /\ t.status = "refuted"
  BY <1>1, <1>4, <1>7, JudgeVerdict
<1> QED BY <1>1, <1>5, <1>6, <1>8

\* The two tests conclude one expectation; absorbing a response only adds;
\* every other step leaves the hypotheses alone.
LEMMA HypothesesStep ==
    ASSUME [Next]_vars
    PROVE  \/ UNCHANGED hypotheses
           \/ \E x \in DOMAIN expectations, status \in TestStatus :
                 IsFirstUntested(x, expectations) /\ Conclude(x, status)
           \/ \E r \in Responses : Absorb(r)
<1>1. CASE TestUnasked
  BY <1>1 DEF TestUnasked, TestStatus
<1>2. CASE TestAsked
  <2>1. \A res \in Results : TestStatusFrom(res) \subseteq TestStatus
    BY DEF TestStatusFrom, TestStatus
  <2> QED BY <1>2, <2>1 DEF TestAsked
<1> QED
  BY <1>1, <1>2
     DEF Next, vars, Stop, ScopeCrash, Expand, Sample, Trigger, AttemptFails,
         GiveUp, EmptyResponse, InvalidResponse, CitationCrash, EmitFinalAccount

\* Absorbing a response keeps every record that was there.
LEMMA AbsorbRecord ==
    ASSUME NEW r \in Responses, Absorb(r)
    PROVE  /\ DOMAIN explanations \subseteq DOMAIN explanations'
           /\ \A l \in DOMAIN explanations : explanations'[l] = explanations[l]
           /\ \A l \in DOMAIN explanations' \ DOMAIN explanations :
                 explanations'[l].status = "live"
           /\ DOMAIN expectations \subseteq DOMAIN expectations'
           /\ \A x \in DOMAIN expectations : expectations'[x] = expectations[x]
BY DEF Absorb, AddExplanations, AddExpectations

\* A rejected explanation was contradicted by a refuted expectation.
THEOREM RejectionsAreGrounded == Spec => []RejectionHasRefutation
<1>1. Init => RejectionHasRefutation
  BY DEF Init, RejectionHasRefutation
<1>2. ASSUME TypeOK, RejectionHasRefutation, [Next]_vars
      PROVE  RejectionHasRefutation'
  <2>1. CASE UNCHANGED hypotheses
    BY <1>2, <2>1 DEF hypotheses, RejectionHasRefutation
  <2>2. ASSUME NEW x \in DOMAIN expectations, NEW status \in TestStatus,
               IsFirstUntested(x, expectations), Conclude(x, status)
        PROVE  RejectionHasRefutation'
    <3>1. SUFFICES ASSUME NEW l \in DOMAIN explanations',
                          explanations'[l].status = "rejected"
                   PROVE  \E y \in DOMAIN expectations' :
                            /\ expectations'[y].owner = explanations'[l].id
                            /\ expectations'[y].status = "refuted"
      BY DEF RejectionHasRefutation
    <3>2. l \in DOMAIN explanations /\ explanations'[l].id = explanations[l].id
      BY <1>2, <2>2, ConcludeRecord
    <3>3. CASE explanations[l].status = "rejected"
      <4>1. PICK y \in DOMAIN expectations :
                /\ expectations[y].owner = explanations[l].id
                /\ expectations[y].status = "refuted"
        BY <1>2, <3>2, <3>3 DEF RejectionHasRefutation
      <4> QED BY <1>2, <2>2, <3>2, <4>1, ConcludeRecord
    <3>4. CASE explanations[l].status # "rejected"
      BY <1>2, <2>2, <3>1, <3>2, <3>4, ConcludeRecord
    <3> QED BY <3>3, <3>4
  <2>3. ASSUME NEW r \in Responses, Absorb(r) PROVE RejectionHasRefutation'
    <3>1. SUFFICES ASSUME NEW l \in DOMAIN explanations',
                          explanations'[l].status = "rejected"
                   PROVE  \E y \in DOMAIN expectations' :
                            /\ expectations'[y].owner = explanations'[l].id
                            /\ expectations'[y].status = "refuted"
      BY DEF RejectionHasRefutation
    <3>2. l \in DOMAIN explanations /\ explanations'[l] = explanations[l]
      BY <2>3, <3>1, AbsorbRecord
    <3>3. PICK y \in DOMAIN expectations :
              /\ expectations[y].owner = explanations[l].id
              /\ expectations[y].status = "refuted"
      BY <1>2, <3>1, <3>2 DEF RejectionHasRefutation
    <3> QED BY <2>3, <3>2, <3>3, AbsorbRecord
  <2> QED BY <1>2, <2>1, <2>2, <2>3, HypothesesStep
<1> QED BY <1>1, <1>2, TypeCorrect, PTL DEF Spec

\* The record is append-only: rejected explanations and drawn outcomes stand.
THEOREM RecordOnlyGrows == Spec => RecordIsAppendOnly
<1> DEFINE Grows ==
      /\ \A l \in DOMAIN explanations :
            /\ l \in DOMAIN explanations'
            /\ explanations'[l].id = explanations[l].id
            /\ explanations[l].status = "rejected" =>
                   explanations'[l] = explanations[l]
      /\ \A x \in DOMAIN expectations :
            /\ x \in DOMAIN expectations'
            /\ expectations[x].status # "untested" =>
                   expectations'[x] = expectations[x]
<1>1. ASSUME TypeOK, [Next]_vars PROVE Grows
  <2>1. CASE UNCHANGED hypotheses
    BY <2>1 DEF hypotheses
  <2>2. ASSUME NEW x \in DOMAIN expectations, NEW status \in TestStatus,
               IsFirstUntested(x, expectations), Conclude(x, status)
        PROVE  Grows
    BY <1>1, <2>2, ConcludeRecord
  <2>3. ASSUME NEW r \in Responses, Absorb(r) PROVE Grows
    BY <2>3, AbsorbRecord
  <2> HIDE DEF Grows
  <2> QED BY <1>1, <2>1, <2>2, <2>3, HypothesesStep
<1>2. TypeOK /\ [Next]_vars => [Grows]_vars
  BY <1>1
<1> QED BY <1>2, TypeCorrect, PTL DEF Spec, RecordIsAppendOnly

-----------------------------------------------------------------------------
(* Resolved accounts.                                                      *)

\* Judging by one expectation leaves an explanation live or rejected, with at
\* most one confirmation, and unrefuted while it lives.
LEMMA JudgeOnce ==
    ASSUME NEW e \in Explanation, NEW t \in Expectation, JudgedOnce(e)
    PROVE  JudgedOnce(Judge(e, {t}))
<1> DEFINE owned     == {x \in {t} : x.owner = e.id}
           confirmed == Cardinality({x \in owned : x.status = "confirmed"})
           refuted   == Cardinality({x \in owned : x.status = "refuted"})
           verdict   ==
             CASE refuted > 0 /\ confirmed = 0 /\ refuted = Cardinality(owned)
                     -> "rejected"
               [] refuted > 0 /\ ~ (confirmed = 0 /\ refuted = Cardinality(owned))
                     -> "weakened"
               [] refuted = 0 /\ confirmed > 0 -> "live"
               [] refuted = 0 /\ confirmed = 0 -> e.status
<1>1. Judge(e, {t}) = IF e.status = "rejected" \/ owned = {} THEN e
                      ELSE [e EXCEPT !.sup = confirmed, !.ref = refuted,
                                     !.status = verdict]
  BY DEF Judge
<1>2. CASE e.status = "rejected" \/ owned = {}
  BY <1>1, <1>2
<1>3. CASE ~ (e.status = "rejected" \/ owned = {})
  <2>1. owned = {t} /\ Cardinality(owned) = 1
    <3>1. owned = {t}
      BY <1>3
    <3> QED BY <3>1, FS_Singleton
  <2>2. confirmed = IF t.status = "confirmed" THEN 1 ELSE 0
    <3>1. {x \in owned : x.status = "confirmed"}
              = IF t.status = "confirmed" THEN {t} ELSE {}
      BY <2>1
    <3> QED BY <3>1, FS_Singleton, FS_EmptySet
  <2>3. refuted = IF t.status = "refuted" THEN 1 ELSE 0
    <3>1. {x \in owned : x.status = "refuted"}
              = IF t.status = "refuted" THEN {t} ELSE {}
      BY <2>1
    <3> QED BY <3>1, FS_Singleton, FS_EmptySet
  <2>4. e.status = "live"
    BY <1>3 DEF JudgedOnce
  <2> HIDE DEF owned, confirmed, refuted
  <2>5. verdict = IF t.status = "refuted" THEN "rejected" ELSE "live"
    BY <2>1, <2>2, <2>3, <2>4
  <2> HIDE DEF verdict
  <2>6. Judge(e, {t}) = [e EXCEPT !.sup = confirmed, !.ref = refuted,
                                  !.status = verdict]
    BY <1>1, <1>3
  <2>7. /\ Judge(e, {t}).sup = confirmed /\ Judge(e, {t}).ref = refuted
        /\ Judge(e, {t}).status = verdict
    BY <2>6 DEF Explanation
  <2> QED BY <2>2, <2>3, <2>5, <2>7 DEF JudgedOnce
<1> QED BY <1>2, <1>3

\* So every explanation of an investigation is judged that way.
LEMMA OnceInit == Init => EachJudgedOnce
BY DEF Init, EachJudgedOnce

LEMMA OnceStep ==
    ASSUME TypeOK, EachJudgedOnce, [Next]_vars
    PROVE  EachJudgedOnce'
<1>1. CASE UNCHANGED hypotheses
  BY <1>1 DEF hypotheses, EachJudgedOnce
<1>2. ASSUME NEW x \in DOMAIN expectations, NEW status \in TestStatus,
             Conclude(x, status)
      PROVE  EachJudgedOnce'
  <2> DEFINE t == [expectations[x] EXCEPT !.status = status]
  <2>1. t \in Expectation
    BY DEF TypeOK, Expectation
  <2>2. \/ explanations' = explanations
        \/ explanations' = UpdateExplanationContradictions(explanations, {t})
    BY <1>2 DEF Conclude
  <2> HIDE DEF t
  <2>3. \A l \in DOMAIN explanations : JudgedOnce(Judge(explanations[l], {t}))
    BY <2>1, JudgeOnce DEF TypeOK, EachJudgedOnce
  <2> QED BY <2>2, <2>3 DEF EachJudgedOnce, UpdateExplanationContradictions
<1>3. ASSUME NEW r \in Responses, Absorb(r) PROVE EachJudgedOnce'
  <2>1. SUFFICES ASSUME NEW l \in DOMAIN explanations'
                 PROVE  JudgedOnce(explanations'[l])
    BY DEF EachJudgedOnce
  <2>2. CASE l \in DOMAIN explanations
    BY <1>3, <2>2, AbsorbRecord DEF EachJudgedOnce
  <2>3. CASE l \notin DOMAIN explanations
    <3>1. explanations' = AddExplanations(explanations, r.expls, calls')
      BY <1>3 DEF Absorb
    <3>2. /\ explanations'[l].status = "live"
          /\ explanations'[l].sup = 0 /\ explanations'[l].ref = 0
      BY <2>3, <3>1 DEF AddExplanations
    <3> QED BY <3>2 DEF JudgedOnce
  <2> QED BY <2>2, <2>3
<1> QED BY <1>1, <1>2, <1>3, HypothesesStep

\* A nonempty set of numbers has a least one.
LEMMA LeastNat ==
    ASSUME NEW S \in SUBSET Nat, S # {}
    PROVE  \E m \in S : \A n \in S : m <= n
<1> DEFINE R == OpToRel(<, Nat)
<1>1. IsWellFoundedOn(R, Nat)
  BY NatLessThanWellFounded
<1>2. \A i, j \in Nat : j < i => <<j, i>> \in R
  BY DEF OpToRel
<1> HIDE DEF R
<1>3. PICK m \in S : \A n \in S : ~ (<<n, m>> \in R)
  BY <1>1, WFMin
<1>4. ASSUME NEW n \in S PROVE m <= n
  <2>1. m \in Nat /\ n \in Nat
    OBVIOUS
  <2>2. ~(n < m)
    BY <1>2, <1>3, <2>1
  <2> QED BY <2>1, <2>2
<1> QED BY <1>4

\* Where something survives, something leads: the earliest of the explanations
\* with the most confirmations.
LEMMA SomeoneLeads ==
    ASSUME TypeOK, EachJudgedOnce, Surviving(explanations) # {}
    PROVE  \E l \in Surviving(explanations) : IsLeading(l, explanations)
<1> DEFINE S == Surviving(explanations)
           T == {l \in S : \A k \in S : explanations[k].sup <= explanations[l].sup}
<1>1. \A l \in S : /\ explanations[l] \in Explanation
                   /\ explanations[l].status = "live"
                   /\ explanations[l].sup \in {0, 1}
                   /\ explanations[l].ref = 0
  <2>1. SUFFICES ASSUME NEW l \in S
                 PROVE  /\ explanations[l] \in Explanation
                        /\ explanations[l].status = "live"
                        /\ explanations[l].sup \in {0, 1}
                        /\ explanations[l].ref = 0
    OBVIOUS
  <2>2. l \in DOMAIN explanations /\ explanations[l].status # "rejected"
    BY DEF Surviving
  <2>3. explanations[l] \in Explanation /\ JudgedOnce(explanations[l])
    BY <2>2 DEF TypeOK, EachJudgedOnce
  <2> QED BY <2>2, <2>3 DEF JudgedOnce, Explanation
<1> HIDE DEF S
<1>2. T # {}
  <2>1. CASE \E l \in S : explanations[l].sup = 1
    <3>1. PICK l \in S : explanations[l].sup = 1
      BY <2>1
    <3>2. l \in T
      BY <1>1, <3>1
    <3> QED BY <3>2
  <2>2. CASE \A l \in S : explanations[l].sup = 0
    <3>1. PICK l \in S : TRUE
      BY DEF S
    <3>2. l \in T
      BY <2>2, <3>1
    <3> QED BY <3>2
  <2> QED BY <1>1, <2>1, <2>2
<1>3. \A l \in T : /\ l \in S
                   /\ explanations[l].born[1] \in Nat
                   /\ explanations[l].born[2] \in Nat
  BY <1>1 DEF Explanation
<1>4. PICK a \in T : \A k \in T : explanations[a].born[1] <= explanations[k].born[1]
  <2> DEFINE B == {explanations[l].born[1] : l \in T}
  <2>1. B \in SUBSET Nat /\ B # {}
    BY <1>2, <1>3
  <2>2. PICK m \in B : \A n \in B : m <= n
    BY <2>1, LeastNat
  <2> QED BY <2>2
<1> DEFINE U == {l \in T : explanations[l].born[1] = explanations[a].born[1]}
<1>5. PICK b \in U : \A k \in U : explanations[b].born[2] <= explanations[k].born[2]
  <2> DEFINE B == {explanations[l].born[2] : l \in U}
  <2>1. B \in SUBSET Nat /\ B # {}
    BY <1>3
  <2>2. PICK m \in B : \A n \in B : m <= n
    BY <2>1, LeastNat
  <2> QED BY <2>2
<1>6. ASSUME NEW k \in T PROVE ~ Before(explanations[k], explanations[b])
  BY <1>3, <1>4, <1>5 DEF Before
<1>7. b \in S /\ \A k \in S : explanations[k].sup <= explanations[b].sup
  BY <1>5
<1>8. ASSUME NEW k \in S
      PROVE  /\ ~ Stronger(explanations[k], explanations[b])
             /\ \/ Stronger(explanations[b], explanations[k])
                \/ ~ Before(explanations[k], explanations[b])
  <2>1. /\ explanations[k].sup \in {0, 1} /\ explanations[b].sup \in {0, 1}
        /\ explanations[k].ref = 0 /\ explanations[b].ref = 0
        /\ explanations[k].sup <= explanations[b].sup
    BY <1>1, <1>7
  <2>2. ~ Stronger(explanations[k], explanations[b])
    BY <2>1 DEF Stronger
  <2>3. CASE explanations[k].sup = explanations[b].sup
    <3>1. k \in T
      BY <1>7, <2>3
    <3> QED BY <2>2, <3>1, <1>6
  <2>4. CASE explanations[k].sup # explanations[b].sup
    BY <2>1, <2>2, <2>4 DEF Stronger
  <2> QED BY <2>3, <2>4
<1> QED BY <1>7, <1>8 DEF IsLeading, S

\* What a verdict of STOP_RESOLVED stands on.
LEMMA ResolvedVerdict ==
    ASSUME TypeOK, EachJudgedOnce, Verdict.terminal = "STOP_RESOLVED"
    PROVE  /\ ~ dark /\ turn < TMax /\ Len(queries) < QMax
           /\ \E l \in Surviving(explanations) :
                 /\ explanations[l].class = Verdict.disposition
                 /\ \A k \in Surviving(explanations) :
                       /\ explanations[k].sup <= explanations[l].sup
                       /\ explanations[k].sup = explanations[l].sup =>
                             explanations[k].class = explanations[l].class
<1> DEFINE S == Surviving(explanations)
<1>1. /\ BlockersOf(explanations, CurrentIssues) = {}
      /\ Verdict.disposition = ResolvedDisposition(explanations)
  BY DEF Verdict, EvaluateStopping
<1>2. CurrentIssues = {} /\ S # {} /\ ~ CrossClassTie(explanations)
  BY <1>1 DEF BlockersOf
<1>3. ~ dark /\ turn < TMax /\ Len(queries) < QMax
  <2>1. ~ dark /\ ~ BudgetExhausted
    BY <1>2 DEF CurrentIssues
  <2>2. turn \in Nat /\ Len(queries) \in Nat /\ TMax \in Nat /\ QMax \in Nat
    BY OrchestratorAssumption DEF TypeOK
  <2> QED BY <2>1, <2>2 DEF BudgetExhausted
<1>4. \A l \in S : /\ l \in DOMAIN explanations
                   /\ explanations[l].status = "live"
                   /\ explanations[l].class \in Classes
                   /\ explanations[l].sup \in Nat
  <2>1. SUFFICES ASSUME NEW l \in S
                 PROVE  /\ l \in DOMAIN explanations
                        /\ explanations[l].status = "live"
                        /\ explanations[l].class \in Classes
                        /\ explanations[l].sup \in Nat
    OBVIOUS
  <2>2. l \in DOMAIN explanations /\ explanations[l].status # "rejected"
    BY DEF Surviving
  <2>3. explanations[l] \in Explanation /\ JudgedOnce(explanations[l])
    BY <2>2 DEF TypeOK, EachJudgedOnce
  <2> QED BY <2>2, <2>3 DEF JudgedOnce, Explanation
<1>5. PICK l \in S : /\ IsLeading(l, explanations)
                     /\ explanations[l].class = Verdict.disposition
  <2>1. PICK b \in S : IsLeading(b, explanations)
    BY <1>2, SomeoneLeads
  <2>2. explanations[b].class \in {"benign", "malicious", "unknown"}
    BY <1>4 DEF Classes
  <2>3. \A l \in DOMAIN explanations : IsLeading(l, explanations) => l \in S
    BY DEF IsLeading
  <2> HIDE DEF S
  <2> QED BY <1>1, <1>4, <2>1, <2>2, <2>3 DEF ResolvedDisposition
<1>6. ASSUME NEW k \in S PROVE explanations[k].sup <= explanations[l].sup
  <2>1. CASE k = l
    BY <1>4, <2>1
  <2>2. CASE k # l
    <3>1. ~ Stronger(explanations[k], explanations[l])
      BY <1>5, <2>2 DEF IsLeading
    <3> QED BY <1>4, <3>1 DEF Stronger
  <2> QED BY <2>1, <2>2
<1>7. ASSUME NEW k \in S, explanations[k].sup = explanations[l].sup
      PROVE  explanations[k].class = explanations[l].class
  <2> DEFINE Top == {m \in S : \A n \in S : explanations[n].sup <= explanations[m].sup}
  <2>1. k \in Top /\ l \in Top
    BY <1>6, <1>7
  <2>2. k \in S /\ l \in S /\ explanations[k].status = "live"
        /\ explanations[l].status = "live"
    BY <1>4
  <2> QED BY <1>2, <2>1, <2>2 DEF CrossClassTie
<1> QED BY <1>3, <1>5, <1>6, <1>7

\* A resolved account is unblocked, and names the class that survives with
\* the best support.
THEOREM ResolvedStandsAlone == Spec => []ResolvedIsUnblocked
<1>1. Init => AccountInv
  BY OnceInit DEF Init, AccountInv, ResolvedIsUnblocked
<1>2. ASSUME TypeOK, AccountInv, [Next]_vars PROVE AccountInv'
  <2>1. EachJudgedOnce'
    BY <1>2, OnceStep DEF AccountInv
  <2>2. CASE UNCHANGED vars
    <3>1. UNCHANGED <<phase, account, dark, turn, queries, explanations>>
      BY <2>2 DEF vars, hypotheses
    <3> QED BY <1>2, <2>1, <3>1 DEF AccountInv, ResolvedIsUnblocked
  <2>3. ASSUME NEW c \in BOOLEAN, EmitFinalAccount(c) PROVE AccountInv'
    <3>1. /\ phase = "conclude"
          /\ UNCHANGED <<dark, turn, queries, explanations>>
      BY <2>3 DEF EmitFinalAccount, hypotheses
    <3>2. account = NoAccount
      BY <1>2, <3>1 DEF AccountInv
    <3>3. CASE account' = NoAccount
      BY <2>1, <3>3 DEF AccountInv, ResolvedIsUnblocked
    <3>4. CASE account' # NoAccount
      <4>1. phase' = "emitted" /\ account' = Account(c)
        BY <2>3, <3>2, <3>4 DEF EmitFinalAccount
      <4>2. /\ account'.terminal = Verdict.terminal
            /\ account'.disposition = Verdict.disposition
        BY <4>1 DEF Account
      <4>3. ResolvedIsUnblocked'
        BY <1>2, <3>1, <4>2, ResolvedVerdict DEF AccountInv, ResolvedIsUnblocked
      <4> QED BY <2>1, <4>1, <4>3 DEF AccountInv
    <3> QED BY <3>3, <3>4
  <2>4. CASE phase # "emitted" /\ UNCHANGED account
    BY <1>2, <2>1, <2>4 DEF AccountInv, ResolvedIsUnblocked
  <2> QED
    BY <1>2, <2>2, <2>3, <2>4
       DEF Next, Stop, TestUnasked, TestAsked, Expand, Sample, Trigger,
           AttemptFails, GiveUp, EmptyResponse, InvalidResponse, Absorb,
           CitationCrash, ScopeCrash, Acts, Takes
<1>3. AccountInv => ResolvedIsUnblocked
  BY DEF AccountInv
<1> QED BY <1>1, <1>2, <1>3, TypeCorrect, PTL DEF Spec

-----------------------------------------------------------------------------
(* Batches.                                                                *)

\* Observations are numbered, and at least one fits in a batch.
LEMMA WaitingAreNumbers ==
    ASSUME TypeOK
    PROVE  /\ \A o \in pending : o \in Nat /\ o <= MaxObs
           /\ MaxObs \in Nat /\ MaxBatch \in Nat /\ MaxBatch > 0
<1>1. MaxObs \in Nat /\ MaxBatch \in Nat \ {0}
  BY OrchestratorAssumption
<1>2. \A o \in pending : o \in 1..MaxObs
  BY DEF TypeOK, Obs
<1> QED BY <1>1, <1>2

\* The evidence that waits below o, and the batch, are finite.
LEMMA BelowIsFinite ==
    ASSUME TypeOK, NEW o
    PROVE  /\ IsFiniteSet(pending) /\ IsFiniteSet(Batch)
           /\ IsFiniteSet({p \in pending : p < o})
           /\ Cardinality({p \in pending : p < o}) \in Nat
<1>1. IsFiniteSet(Obs)
  BY FS_Interval, OrchestratorAssumption DEF Obs
<1>2. IsFiniteSet(pending)
  <2>1. pending \in SUBSET Obs
    BY DEF TypeOK
  <2> QED BY <1>1, <2>1, FS_Subset
<1>3. IsFiniteSet(Batch)
  <2>1. Batch \in SUBSET pending
    BY DEF Batch
  <2> QED BY <1>2, <2>1, FS_Subset
<1>4. IsFiniteSet({p \in pending : p < o})
  <2>1. {p \in pending : p < o} \in SUBSET pending
    OBVIOUS
  <2> QED BY <1>2, <2>1, FS_Subset
<1> QED BY <1>2, <1>3, <1>4, FS_CardinalityType

\* The first of the waiting observations is in the batch.
LEMMA BatchIsNonempty ==
    ASSUME TypeOK, pending # {}
    PROVE  Batch # {}
<1>1. pending \in SUBSET Nat
  BY WaitingAreNumbers
<1>2. PICK o \in pending : \A p \in pending : o <= p
  BY <1>1, LeastNat
<1>3. {p \in pending : p < o} = {}
  <2>1. ASSUME NEW p \in pending PROVE ~ (p < o)
    <3>1. p \in Nat /\ o \in Nat /\ o <= p
      BY <1>1, <1>2
    <3> QED BY <3>1
  <2> QED BY <2>1
<1>4. Cardinality({p \in pending : p < o}) = 0
  BY <1>3, FS_EmptySet
<1>5. o \in Batch
  BY <1>4, WaitingAreNumbers DEF Batch
<1> QED BY <1>5

\* A batch never exceeds max_observations_per_call.
LEMMA BatchIsBounded ==
    ASSUME TypeOK
    PROVE  Cardinality(Batch) \in Nat /\ Cardinality(Batch) <= MaxBatch
<1>1. /\ Batch \in SUBSET Nat /\ \A o \in Batch : o <= MaxObs
      /\ MaxObs \in Nat /\ MaxBatch \in Nat /\ MaxBatch > 0
  <2>1. Batch \subseteq pending
    BY DEF Batch
  <2> QED BY <2>1, WaitingAreNumbers
<1>2. IsFiniteSet(Batch) /\ Cardinality(Batch) \in Nat
  BY BelowIsFinite, FS_CardinalityType
<1> DEFINE Above == {n \in Nat : \A o \in Batch : o < n}
<1>3. MaxObs + 1 \in Above
  BY <1>1
<1>4. PICK n \in Above : \A k \in Above : n <= k
  <2>1. Above \in SUBSET Nat /\ Above # {}
    BY <1>3
  <2> HIDE DEF Above
  <2> QED BY <2>1, LeastNat
<1>5. CASE n = 0
  <2>1. Batch = {}
    BY <1>1, <1>4, <1>5
  <2> QED BY <1>1, <2>1, FS_EmptySet
<1>6. CASE n # 0
  <2>1. n \in Nat /\ n - 1 \in Nat /\ n - 1 \notin Above
    BY <1>4, <1>6
  <2>2. PICK b \in Batch : b >= n - 1
    BY <1>1, <2>1
  <2>3. \A o \in Batch : o <= b
    BY <1>1, <1>4, <2>1, <2>2
  <2> DEFINE Lower == {p \in pending : p < b}
  <2>4. Batch \in SUBSET (Lower \cup {b})
    <3>1. ASSUME NEW o \in Batch PROVE o \in Lower \cup {b}
      <4>1. o \in Nat /\ b \in Nat /\ o <= b
        BY <1>1, <2>3
      <4>2. o < b \/ o = b
        BY <4>1
      <4>3. o \in pending
        BY DEF Batch
      <4> QED BY <4>2, <4>3
    <3> QED BY <3>1
  <2>5. IsFiniteSet(Lower) /\ Cardinality(Lower) \in Nat
    BY BelowIsFinite
  <2>6. Cardinality(Lower) < MaxBatch
    BY <2>2 DEF Batch
  <2> HIDE DEF Lower
  <2>7. /\ IsFiniteSet(Lower \cup {b})
        /\ Cardinality(Lower \cup {b}) <= Cardinality(Lower) + 1
    <3>1. /\ IsFiniteSet(Lower \cup {b})
          /\ Cardinality(Lower \cup {b}) =
                 IF b \in Lower THEN Cardinality(Lower) ELSE Cardinality(Lower) + 1
      BY <2>5, FS_AddElement, Zenon
    <3> QED BY <2>5, <3>1
  <2>8. Cardinality(Lower \cup {b}) \in Nat
    BY <2>7, FS_CardinalityType
  <2>9. Cardinality(Batch) <= Cardinality(Lower \cup {b})
    BY <2>4, <2>7, FS_Subset
  <2> QED BY <1>1, <1>2, <2>5, <2>6, <2>7, <2>8, <2>9
<1> QED BY <1>2, <1>5, <1>6

\* When something has to wait for the next batch, this one is full.
LEMMA BatchIsFull ==
    ASSUME TypeOK, pending \ Batch # {}
    PROVE  Cardinality(Batch) = MaxBatch
<1>1. pending \ Batch \in SUBSET Nat /\ pending \in SUBSET Nat /\ MaxBatch \in Nat
  BY WaitingAreNumbers
<1>2. PICK o \in pending \ Batch : \A p \in pending \ Batch : o <= p
  BY <1>1, LeastNat
<1> DEFINE Lower == {p \in pending : p < o}
<1>3. Lower \in SUBSET Batch
  BY <1>1, <1>2
<1>4. ~ Cardinality(Lower) < MaxBatch
  BY <1>2 DEF Batch
<1>5. Cardinality(Lower) \in Nat /\ IsFiniteSet(Batch)
  BY BelowIsFinite
<1> HIDE DEF Lower
<1>6. Cardinality(Lower) <= Cardinality(Batch)
  BY <1>3, <1>5, FS_Subset
<1> QED BY <1>1, <1>4, <1>5, <1>6, BatchIsBounded

-----------------------------------------------------------------------------
(* Evidence left waiting.                                                  *)

\* The context of a call tells which batch it was about.
LEMMA ContextType ==
    ASSUME TypeOK
    PROVE  Context # NoContext /\ Context.batch = Batch
<1>1. Context.batch = Batch
  BY DEF Context
<1>2. Context \in Contexts
  <2>1. Batch \in SUBSET Obs
    BY DEF TypeOK, Batch
  <2>2. \A l \in DOMAIN explanations :
           /\ explanations[l].id \in ExplIds
           /\ explanations[l].status \in ExplanationStatus
           /\ explanations[l].sup \in Nat /\ explanations[l].ref \in Nat
    BY DEF TypeOK, Explanation
  <2>3. \A x \in DOMAIN expectations :
           x \in ExpIds /\ expectations[x].status \in TestStatus
    BY DEF TypeOK, Expectation
  <2>4. {<<explanations[l].id, explanations[l].status,
           explanations[l].sup, explanations[l].ref>> : l \in DOMAIN explanations}
            \in SUBSET (ExplIds \X ExplanationStatus \X Nat \X Nat)
    BY <2>2
  <2>5. {<<x, expectations[x].status>> : x \in DOMAIN expectations}
            \in SUBSET (ExpIds \X TestStatus)
    BY <2>3
  <2> QED BY <2>1, <2>4, <2>5 DEF Context, Contexts
<1> QED BY <1>1, <1>2, OrchestratorAssumption

\* A batch that would be offered again is not the one last consumed: that one
\* has left pending.
LEMMA ContextIsNew ==
    ASSUME TypeOK, EvidencePartition, LeftoverInv, pending # {}
    PROVE  Context # lastContext
<1>1. Batch # {} /\ Batch \subseteq pending
  BY BatchIsNonempty DEF Batch
<1>2. ASSUME Context = lastContext PROVE FALSE
  <2>1. Batch \subseteq processed
    BY <1>2, ContextType DEF LeftoverInv
  <2> QED BY <1>1, <2>1 DEF EvidencePartition
<1> QED BY <1>2

\* A batch consumed leaves something waiting only if it was full.
LEMMA ConsumeExplains ==
    ASSUME TypeOK, Consume
    PROVE  /\ lastContext' # NoContext /\ lastContext'.batch \subseteq processed'
           /\ pending' # {} => Cardinality(lastContext'.batch) = MaxBatch
<1>1. lastContext' # NoContext /\ lastContext'.batch = Batch
  BY ContextType DEF Consume
<1>2. pending' = pending \ Batch /\ Batch \subseteq processed'
  BY DEF Consume
<1> QED BY <1>1, <1>2, BatchIsFull

\* LeftoverInv survives every step.
LEMMA LeftoverStep ==
    ASSUME TypeOK, BudgetInv, EvidencePartition, LeftoverInv, [Next]_vars
    PROVE  LeftoverInv'
<1> DEFINE Called == /\ submissions >= calls
                     /\ phase = "abduce" => submissions > calls
           Held   == lastContext # NoContext => lastContext.batch \subseteq processed
<1>0. /\ {calls, failures, submissions} \subseteq Nat
      /\ calls' \in Nat /\ failures' \in Nat /\ submissions' \in Nat
  BY TypeStep DEF TypeOK
<1>1. CASE /\ phase' \in {"act", "trigger", "crashed", phase}
           /\ UNCHANGED <<processed, lastContext, calls, failures, submissions>>
           /\ phase \notin {"conclude", "emitted", "refused"}
  BY <1>1 DEF LeftoverInv, LeftoverExplained
<1>2. CASE Trigger /\ ShouldCall
  <2>1. /\ phase' = "abduce" /\ submissions' = submissions + 1
        /\ UNCHANGED <<processed, lastContext, calls>>
    BY <1>2 DEF Trigger, runtime
  <2>2. Called'
    BY <1>0, <2>1 DEF LeftoverInv
  <2>3. Held'
    BY <2>1 DEF LeftoverInv
  <2>4. LeftoverExplained'
    BY <2>1 DEF LeftoverExplained
  <2> QED BY <2>2, <2>3, <2>4 DEF LeftoverInv
<1>3. CASE Trigger /\ ~ ShouldCall
  <2>1. /\ UNCHANGED <<pending, processed, lastContext, calls, failures, submissions>>
        /\ EndTurn
    BY <1>3 DEF Trigger, runtime
  <2>2. phase' \in {"act", "conclude"} /\ (phase' = "conclude" => final)
    BY <2>1 DEF EndTurn
  <2>3. final /\ pending # {} => ~ (calls + failures < MaxCalls) \/ failures # 0
    BY <1>3, ContextIsNew DEF ShouldCall
  <2>4. final /\ pending # {} => calls + failures >= MaxCalls \/ failures > 0
    BY <1>0, <2>3, OrchestratorAssumption
  <2>5. LeftoverExplained'
    BY <2>1, <2>2, <2>4 DEF LeftoverExplained
  <2> QED BY <2>1, <2>2, <2>5 DEF LeftoverInv
<1>4. CASE EmptyResponse
  <2>1. /\ UNCHANGED <<pending, processed, lastContext, calls, failures, submissions>>
        /\ phase = "abduce" /\ phase' \in {"act", "conclude"}
    BY <1>4 DEF EmptyResponse, EndTurn, runtime
  <2>2. submissions > calls
    BY <2>1 DEF LeftoverInv
  <2>3. LeftoverExplained'
    BY <2>1, <2>2 DEF LeftoverExplained
  <2> QED BY <2>1, <2>3 DEF LeftoverInv
<1>5. ASSUME phase = "abduce", phase' \in {"act", "conclude"}, Consume,
             UNCHANGED submissions, calls' \in {calls, calls + 1}
      PROVE  LeftoverInv'
  <2>1. Called'
    BY <1>0, <1>5 DEF LeftoverInv
  <2>2. Held'
    BY <1>5, ConsumeExplains
  <2>3. LeftoverExplained'
    BY <1>5, ConsumeExplains DEF LeftoverExplained
  <2> QED BY <2>1, <2>2, <2>3 DEF LeftoverInv
<1>6. CASE GiveUp
  BY <1>5, <1>6 DEF GiveUp, EndTurn
<1>7. CASE InvalidResponse
  BY <1>5, <1>7 DEF InvalidResponse, EndTurn
<1>8. ASSUME NEW r \in Responses, Absorb(r) PROVE LeftoverInv'
  BY <1>5, <1>8 DEF Absorb, EndTurn
<1>9. ASSUME NEW c \in BOOLEAN, EmitFinalAccount(c) PROVE LeftoverInv'
  <2>1. /\ UNCHANGED <<pending, processed, lastContext, calls, failures, submissions>>
        /\ phase = "conclude" /\ phase' \in {"refused", "emitted"}
    BY <1>9 DEF EmitFinalAccount, runtime
  <2> QED BY <2>1 DEF LeftoverInv, LeftoverExplained
<1>10. CASE UNCHANGED vars
  BY <1>10 DEF vars, runtime, LeftoverInv, LeftoverExplained
<1> QED
  BY <1>1, <1>2, <1>3, <1>4, <1>6, <1>7, <1>8, <1>9, <1>10
     DEF Next, Stop, TestUnasked, TestAsked, ScopeCrash, Expand, Sample, Acts, Takes,
         AttemptFails, CitationCrash, runtime

\* Evidence still waiting at the end has a reason, in every investigation.
THEOREM LeftoversHaveReasons == Spec => []LeftoverExplained
<1>1. Init => LeftoverInv
  BY DEF Init, LeftoverInv, LeftoverExplained
<1>2. /\ TypeOK /\ BudgetInv /\ EvidencePartition /\ LeftoverInv
      /\ [Next]_vars
      => LeftoverInv'
  BY LeftoverStep
<1>3. LeftoverInv => LeftoverExplained
  BY DEF LeftoverInv
<1> QED BY <1>1, <1>2, <1>3, BudgetInvariant, EvidenceIsPartitioned, PTL DEF Spec

-----------------------------------------------------------------------------
(* The abstract flow of evidence.                                          *)

\* The loop's queries collect fresh evidence, or none.
LEMMA CollectStep ==
    ASSUME TypeOK, EvidencePartition, phase = "act", phase' = "trigger",
           UNCHANGED <<processed, calls, dark>>,
           NEW R \in SUBSET (Obs \ observations), pending' = pending \cup R
    PROVE  EF!Collect
BY DEF EF!Collect, EvidencePartition

\* The flow counts as the investigation does.
LEMMA FlowCounts == ASSUME NEW S PROVE EF!Cardinality(S) = Cardinality(S)
BY DEF EF!Cardinality, Cardinality

\* Consuming a batch hands it over, as the next of the batches allowed.
LEMMA HandOverStep ==
    ASSUME TypeOK, BudgetInv, phase = "abduce", phase' \in {"act", "conclude"},
           Consume,
           \/ UNCHANGED calls /\ dark'
           \/ calls' = calls + 1 /\ UNCHANGED dark
    PROVE  EF!HandOver
<1>1. ~ dark /\ calls < MaxCalls /\ pending # {}
  BY OrchestratorAssumption DEF BudgetInv
<1>2. (IF dark' THEN calls' + 1 ELSE calls') = calls + 1
  BY <1>1
<1>3. Batch \in SUBSET pending /\ Batch # {} /\ Cardinality(Batch) <= MaxBatch
  BY <1>1, BatchIsNonempty, BatchIsBounded DEF Batch
<1>4. pending' = pending \ Batch /\ processed' = processed \cup Batch
  BY DEF Consume
<1>5. ~ (phase \in {"emitted", "refused", "crashed"})
      /\ ~ (phase' \in {"emitted", "refused", "crashed"})
  OBVIOUS
<1>6. (IF dark THEN calls + 1 ELSE calls) = calls
  BY <1>1
<1>7. \E B \in SUBSET pending :
         /\ B # {} /\ EF!Cardinality(B) <= MaxBatch
         /\ pending' = pending \ B /\ processed' = processed \cup B
  BY <1>3, <1>4, FlowCounts
<1> QED BY <1>1, <1>2, <1>5, <1>6, <1>7 DEF EF!HandOver

\* Every step of the investigation is a step of the flow, or moves nothing.
LEMMA FlowStep ==
    ASSUME TypeOK, BudgetInv, EvidencePartition, [Next]_vars
    PROVE  [EF!FlowNext]_(EF!flowVars)
<1> USE DEF EF!FlowNext
<1>1. CASE /\ UNCHANGED <<pending, processed, calls, dark>>
           /\ phase \notin {"emitted", "refused", "crashed"}
           /\ phase' \notin {"emitted", "refused", "crashed"}
  BY <1>1 DEF EF!flowVars
<1>2. CASE TestAsked
  <2>1. PICK R \in SUBSET (Obs \ observations) : pending' = pending \cup R
    BY <1>2, ResultsFresh DEF TestAsked, Ask
  <2>2. /\ phase = "act" /\ phase' = "trigger"
        /\ UNCHANGED <<processed, calls, dark>>
    BY <1>2 DEF TestAsked, Acts, Takes
  <2> QED BY <2>1, <2>2, CollectStep
<1>3. CASE Expand \/ Sample
  <2>1. /\ phase = "act" /\ phase' = "trigger"
        /\ UNCHANGED <<processed, calls, dark>>
    BY <1>3 DEF Expand, Sample, Acts, Takes
  <2>2. \E action, target, bindable : Sweep(action, target, bindable)
    BY <1>3 DEF Expand, Sample
  <2>3. CASE UNCHANGED pending
    BY <1>1, <2>1, <2>3
  <2>4. CASE \E R \in SUBSET (Obs \ observations) : pending' = pending \cup R
    BY <2>1, <2>4, CollectStep
  <2> QED BY <2>2, <2>3, <2>4, SweepEvidence
<1>4. CASE Stop \/ TestUnasked
  BY <1>1, <1>4 DEF Stop, TestUnasked, Acts, Takes, runtime
<1>5. CASE Trigger \/ AttemptFails \/ EmptyResponse
  BY <1>1, <1>5 DEF Trigger, AttemptFails, EmptyResponse, EndTurn, runtime
<1>6. CASE GiveUp
  BY <1>6, HandOverStep DEF GiveUp, EndTurn
<1>7. CASE InvalidResponse
  BY <1>7, HandOverStep DEF InvalidResponse, EndTurn
<1>8. ASSUME NEW r \in Responses, Absorb(r) PROVE EF!FlowNext
  BY <1>8, HandOverStep DEF Absorb, EndTurn
<1>9. ASSUME NEW r \in Responses, CitationCrash(r) PROVE EF!FlowNext
  <2>1. /\ UNCHANGED <<pending, processed, calls, dark>>
        /\ phase = "abduce" /\ phase' = "crashed"
    BY <1>9 DEF CitationCrash, runtime
  <2> QED BY <2>1 DEF EF!Close
<1>10. ASSUME NEW c \in BOOLEAN, EmitFinalAccount(c) PROVE EF!FlowNext
  <2>1. /\ UNCHANGED <<pending, processed, calls, dark>>
        /\ phase = "conclude" /\ phase' \in {"refused", "emitted"}
    BY <1>10 DEF EmitFinalAccount, runtime
  <2> QED BY <2>1 DEF EF!Close
<1>11. CASE UNCHANGED vars
  BY <1>11 DEF vars, runtime, EF!flowVars
<1>12. CASE ScopeCrash
  <2>1. /\ UNCHANGED <<pending, processed, calls, dark>>
        /\ phase = "act" /\ phase' = "crashed"
    BY <1>12 DEF ScopeCrash, Takes, runtime
  <2> QED BY <2>1 DEF EF!Close
<1> QED BY <1>2, <1>3, <1>4, <1>5, <1>6, <1>7, <1>8, <1>9, <1>10, <1>11, <1>12 DEF Next

\* An investigation hands its evidence to abduction as EvidenceFlow says:
\* once, in bounded batches, at most MaxCalls of them, until it is closed.
THEOREM InvestigationImplementsFlow == Spec => RefinesEvidenceFlow
<1>1. Init => EF!FlowInit
  BY DEF Init, EF!FlowInit
<1>2. /\ TypeOK /\ BudgetInv /\ EvidencePartition /\ [Next]_vars
      => [EF!FlowNext]_(EF!flowVars)
  BY FlowStep
<1> QED BY <1>1, <1>2, BudgetInvariant, EvidenceIsPartitioned, PTL
        DEF Spec, RefinesEvidenceFlow, EF!FlowSpec
=============================================================================
