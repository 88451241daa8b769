----------------------------- MODULE Hypotheses -----------------------------
(***************************************************************************)
(* Explanations and expectations, as the investigation keeps them          *)
(* (contracts/explanations.py, contracts/expectations.py), the M3 rule     *)
(* that turns test outcomes into explanation statuses                      *)
(* (m3_constraints/integrity.py) and the effect of one M2 response         *)
(* (m2_abduction/schema.py, orchestrator.py).                              *)
(*                                                                         *)
(* state.explanations is a list in which labels are unique, because a      *)
(* candidate whose label is already present is dropped: it is modelled as  *)
(* a function from labels to records.  state.expectations is likewise a    *)
(* function from expectation ids.  The position in the list survives in    *)
(* the field "born" (epoch, place in the response).  Explanation ids are   *)
(* NOT unique: the model may reuse one in a later response.                *)
(***************************************************************************)
EXTENDS Integers, FiniteSets

CONSTANTS
    Labels,         \* explanation labels the abduction model may propose
    ExplIds,        \* explanation ids it may use
    ExpIds,         \* expectation ids it may use
    Requirements,   \* EvidenceRequirement values
    Entities,       \* entities an expectation may target
    ScopeRefs       \* provider_scope_id values an expectation may carry

Classes == {"benign", "malicious", "unknown"}
ExplanationStatus == {"live", "weakened", "rejected"}
TestStatus == {"untested", "confirmed", "refuted", "untestable", "inconclusive"}

Explanation ==
    [id : ExplIds, class : Classes, status : ExplanationStatus,
     sup : Nat, ref : Nat, born : Nat \X Nat]

Expectation ==
    [id : ExpIds, owner : ExplIds, req : Requirements, entity : Entities,
     scope : ScopeRefs, inWindow : BOOLEAN, status : TestStatus,
     born : Nat \X Nat]

\* List order of two records: by epoch, then by place in the response.
Before(a, b) ==
    \/ a.born[1] < b.born[1]
    \/ a.born[1] = b.born[1] /\ a.born[2] < b.born[2]

\* The LIVE and WEAKENED explanations, by label.
Surviving(expls) == {l \in DOMAIN expls : expls[l].status # "rejected"}

Untested(exps) == {x \in DOMAIN exps : exps[x].status = "untested"}

\* untested_expectations[0]
IsFirstUntested(x, exps) ==
    /\ x \in Untested(exps)
    /\ \A y \in Untested(exps) \ {x} : ~ Before(exps[y], exps[x])

-----------------------------------------------------------------------------
(* The M3 rule.                                                            *)

\* Mutant: the tests are not grouped by owner.
JudgeUngrouped(e, tested) ==
    LET refuted == Cardinality({x \in tested : x.status = "refuted"})
    IN  IF e.status = "rejected" \/ refuted = 0 THEN e
        ELSE [e EXCEPT !.ref = refuted, !.status = "rejected"]

\* Mutant: support is kept as a net count.
JudgeByNet(e, tested) ==
    LET owned     == {x \in tested : x.owner = e.id}
        confirmed == Cardinality({x \in owned : x.status = "confirmed"})
        refuted   == Cardinality({x \in owned : x.status = "refuted"})
    IN  IF e.status = "rejected" \/ owned = {} THEN e
        ELSE [e EXCEPT !.sup = confirmed - refuted]

\* One explanation, judged by the expectations in "tested" that name its id.
\* An explanation already rejected, or owning none of them, is left alone.
Judge(e, tested) ==
    LET owned     == {x \in tested : x.owner = e.id}
        confirmed == Cardinality({x \in owned : x.status = "confirmed"})
        refuted   == Cardinality({x \in owned : x.status = "refuted"})
        verdict   ==
            CASE refuted > 0 /\ confirmed = 0 /\ refuted = Cardinality(owned)
                    -> "rejected"
              [] refuted > 0 /\ ~ (confirmed = 0 /\ refuted = Cardinality(owned))
                    -> "weakened"
              [] refuted = 0 /\ confirmed > 0 -> "live"
              [] refuted = 0 /\ confirmed = 0 -> e.status
    IN  IF e.status = "rejected" \/ owned = {}
        THEN e
        ELSE [e EXCEPT !.sup = confirmed, !.ref = refuted, !.status = verdict]

UpdateExplanationContradictions(expls, tested) ==
    [l \in DOMAIN expls |-> Judge(expls[l], tested)]

-----------------------------------------------------------------------------
(* One validated M2 response: candidate explanations by label (at most one *)
(* per label, validate_m2_response deduplicates) and candidate             *)
(* expectations by id.  "cites" = {} is a candidate without attributions.  *)

Candidate(Obs) ==
    [id : ExplIds, class : Classes, cites : SUBSET Obs, pos : Nat]

CandidateTest ==
    [owner : ExplIds, req : Requirements, entity : Entities,
     scope : ScopeRefs, inWindow : BOOLEAN, pos : Nat]

\* validate_m2_response reassigns an expectation whose owner is not among
\* the candidate ids, so in its result every owner is a candidate's id.
IsResponse(r, Obs) ==
    /\ DOMAIN r.expls \subseteq Labels
    /\ \A l \in DOMAIN r.expls : r.expls[l] \in Candidate(Obs)
    /\ DOMAIN r.exps \subseteq ExpIds
    /\ \A x \in DOMAIN r.exps :
          /\ r.exps[x] \in CandidateTest
          /\ \E l \in DOMAIN r.expls : r.expls[l].id = r.exps[x].owner

\* Mutant: a candidate replaces the explanation that has its label.
AddExplanationsReplacing(expls, cands, epoch) ==
    [l \in DOMAIN expls \cup DOMAIN cands |->
        IF l \notin DOMAIN cands THEN expls[l]
        ELSE [id |-> cands[l].id, class |-> cands[l].class, status |-> "live",
              sup |-> 0, ref |-> 0, born |-> <<epoch, cands[l].pos>>]]

\* Append the candidates whose label is new; they start LIVE and untested.
AddExplanations(expls, cands, epoch) ==
    [l \in DOMAIN expls \cup DOMAIN cands |->
        IF l \in DOMAIN expls THEN expls[l]
        ELSE [id |-> cands[l].id, class |-> cands[l].class, status |-> "live",
              sup |-> 0, ref |-> 0, born |-> <<epoch, cands[l].pos>>]]

\* Append the expectations whose id is new.
AddExpectations(exps, cands, epoch) ==
    [x \in DOMAIN exps \cup DOMAIN cands |->
        IF x \in DOMAIN exps THEN exps[x]
        ELSE [id |-> x, owner |-> cands[x].owner, req |-> cands[x].req,
              entity |-> cands[x].entity, scope |-> cands[x].scope,
              inWindow |-> cands[x].inWindow, status |-> "untested",
              born |-> <<epoch, cands[x].pos>>]]
=============================================================================
