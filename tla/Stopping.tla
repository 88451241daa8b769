------------------------------ MODULE Stopping ------------------------------
(***************************************************************************)
(* The M4 decision rules of m4_controller/controller.py: the fixed action  *)
(* order, the stopping rule with its disposition, and the confirmation an  *)
(* account needs before it may be emitted.                                 *)
(***************************************************************************)
EXTENDS Hypotheses

Dispositions ==
    {"malicious", "benign", "unknown", "insufficient_evidence", "conflicted"}

\* What can stand between the investigation and STOP_RESOLVED.  The first
\* five come from the state and the budget, the last two from the explanations.
Issues == {"dark_source", "conflict", "untestable", "unattributed_demanding",
           "budget"}
Blockers == Issues \cup {"cross_class_tie", "no_survivor"}

\* TEST, then EXPAND, then SAMPLE; "none" when nothing is left to do.
SelectNextAction(hasUntested, hasExpand, hasSample) ==
    CASE hasUntested -> "TEST"
      [] ~ hasUntested /\ hasExpand -> "EXPAND"
      [] ~ hasUntested /\ ~ hasExpand /\ hasSample -> "SAMPLE"
      [] ~ hasUntested /\ ~ hasExpand /\ ~ hasSample -> "none"

\* More than one class is live, and more than one class shares the highest
\* support count.
CrossClassTie(expls) ==
    LET S   == Surviving(expls)
        Top == {l \in S : \A k \in S : expls[k].sup <= expls[l].sup}
    IN  /\ \E l, m \in S : /\ expls[l].status = "live"
                           /\ expls[m].status = "live"
                           /\ expls[l].class # expls[m].class
        /\ \E l, m \in Top : expls[l].class # expls[m].class

BlockersOf(expls, issues) ==
    issues \cup (IF CrossClassTie(expls) THEN {"cross_class_tie"} ELSE {})
           \cup (IF Surviving(expls) = {} THEN {"no_survivor"} ELSE {})

\* max(..., key = (supported_count, -refuted_count)): the first of the best.
Stronger(a, b) == a.sup > b.sup \/ (a.sup = b.sup /\ a.ref < b.ref)

IsLeading(l, expls) ==
    /\ l \in Surviving(expls)
    /\ \A k \in Surviving(expls) \ {l} :
          /\ ~ Stronger(expls[k], expls[l])
          /\ Stronger(expls[l], expls[k]) \/ ~ Before(expls[k], expls[l])

ResolvedDisposition(expls) ==
    LET LedBy(class) == \E l \in DOMAIN expls :
                            IsLeading(l, expls) /\ expls[l].class = class
    IN  IF LedBy("malicious") THEN "malicious"
        ELSE IF LedBy("benign") THEN "benign" ELSE "unknown"

BoundedDisposition(expls, issues) ==
    IF "conflict" \in issues THEN "conflicted"
    ELSE IF \E l \in Surviving(expls) : expls[l].class = "unknown" THEN "unknown"
    ELSE "insufficient_evidence"

EvaluateStopping(expls, issues) ==
    LET blockers == BlockersOf(expls, issues)
    IN  IF blockers = {}
        THEN [terminal |-> "STOP_RESOLVED",
              disposition |-> ResolvedDisposition(expls), residual |-> {}]
        ELSE [terminal |-> "STOP_BOUNDED",
              disposition |-> BoundedDisposition(expls, issues),
              residual |-> blockers]

IsConfirmationMandatory(verdict) ==
    \/ verdict.disposition \in {"malicious", "conflicted"}
    \/ verdict.terminal = "STOP_BOUNDED"
=============================================================================
