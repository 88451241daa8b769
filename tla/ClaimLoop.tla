------------------------------ MODULE ClaimLoop ------------------------------
(***************************************************************************)
(* The loop that runs a claim graph (engine.py, execute_hunt, with the     *)
(* action planner, the capability binder and the graph branches of         *)
(* evaluate_stopping).  Every claim has one edge, from its subject to its  *)
(* object, and the subject may be the object of another claim: an edge is  *)
(* asked when its source is known, and its proof makes its target known.   *)
(***************************************************************************)
EXTENDS RelationVerifier, Functions

CONSTANTS
    Subject,      \* claim -> claim whose object is its subject, or NoClaim
    Input,        \* claim -> value its subject has, for the others
    Object,       \* claim -> value of its object, NoValue when it is asked
    Kind,         \* claim -> kind of its object
    Optional, Prerequisite,   \* claims
    Rank,         \* claim -> cost and id of its operation, as one number
    Requires,     \* claim -> requirements its rows are evidence for
    Requirements,
    PersonSubject, HasAnalyst, MaxTurns, MaxQueries, NoClaim

ASSUME GraphAssumption ==
    /\ Subject \in [Claims -> Claims \cup {NoClaim}] /\ NoClaim \notin Claims
    /\ Object \in [Claims -> Values \cup {NoValue}]
    /\ Rank \in [Claims -> Nat] /\ IsInjective(Rank)
    /\ Requires \in [Claims -> SUBSET Requirements]
    /\ Optional \subseteq Claims /\ Optional # Claims
    /\ MaxTurns \in Nat \ {0} /\ MaxQueries \in Nat

VARIABLES
    bindable,     \* claims the census of the providers has an operation for
    claimStatus,
    edgeStatus,   \* edge of a claim -> UNPROVEN or VERIFIED
    node,         \* object of a claim -> its value, NoValue while unknown
    proof,        \* claim -> rows its proof cites
    reqStatus,
    cells,        \* source value -> coverage of its cell
    ledger,       \* rows kept as observations
    incomplete,   \* some query was not complete
    identified,   \* the subject's identity is resolved
    turn, queries, late, decision, phase

graph  == <<bindable, claimStatus, edgeStatus, node, proof>>
report == <<reqStatus, cells, ledger, incomplete, identified>>
vars   == <<graph, report, turn, queries, late, decision, phase>>

-----------------------------------------------------------------------------
\* build_investigation_case_from_intent: an object the claim names is known
\* from the start.
Init ==
    /\ bindable \in SUBSET Claims
    /\ claimStatus = [c \in Claims |-> "UNPROVEN"]
    /\ edgeStatus = [c \in Claims |-> "UNPROVEN"]
    /\ node = Object
    /\ proof = [c \in Claims |-> {}]
    /\ reqStatus = [r \in Requirements |-> "DEFINED"]
    /\ cells = [v \in Values |-> "none"]
    /\ ledger = {} /\ incomplete = FALSE /\ identified = FALSE
    /\ turn = 0 /\ queries = 0 /\ late = FALSE
    /\ decision = "none" /\ phase = "hunting"

Source(c) == IF Subject[c] = NoClaim THEN Input[c] ELSE node[Subject[c]]

\* get_unproven_edges(only_known_source)
Unproven   == {c \in Claims : edgeStatus[c] = "UNPROVEN"}

\* Mutant: an edge need not have a known source.
ActionableAll == Unproven \cap bindable

Actionable == {c \in Unproven : Source(c) # NoValue} \cap bindable

\* select_action: prerequisites first, then the cheapest.
Chosen ==
    CHOOSE c \in Actionable : \A d \in Actionable \ {c} :
        IF (c \in Prerequisite) = (d \in Prerequisite) THEN Rank[c] < Rank[d]
        ELSE c \in Prerequisite

IsExhausted(t) == t >= MaxTurns \/ queries >= MaxQueries \/ late

Turn ==
    /\ phase = "hunting" /\ decision = "none"
    /\ turn' = turn + 1 /\ ~IsExhausted(turn')

\* Rows come in any order, and only once.
Sendings == UNION {{rows \in [1..n -> Rows] : IsInjective(rows)} : n \in 0..Cardinality(Rows)}
Answers ==
    [how : {"complete", "partial"}, rows : Sendings]
        \cup [how : {"failed", "unreachable"}, rows : {<< >>}]

CellAfter(how) ==
    CASE how = "complete" -> "explored" [] how = "partial" -> "partial"
      [] how = "failed" -> "unqueryable" [] how = "unreachable" -> "unreachable"

\* Mutant: rows of earlier queries are offered as well.
FreshAll(rows) == DOMAIN rows

\* Only rows the ledger does not have become observations of this edge.
Fresh(rows) == {i \in DOMAIN rows : rows[i] \notin ledger}

Asked(c, answer) ==
    /\ queries' = queries + 1
    /\ cells' = [cells EXCEPT ![Source(c)] = CellAfter(answer.how)]
    /\ ledger' = ledger \cup Range(answer.rows)
    /\ incomplete' = (incomplete \/ answer.how # "complete")

\* Requirements of the edge: executed by its query, then as the proof says.
Executed(c, r) == r \in Requires[c] /\ reqStatus[r] = "DEFINED"
Settled(c, status) ==
    [r \in Requirements |-> IF r \in Requires[c] THEN status ELSE reqStatus[r]]

Resolves(c) == Kind[c] \in {"ip", "email_address"}

Prove(c, result) ==
    /\ claimStatus' = [claimStatus EXCEPT ![c] = "SUPPORTED"]
    /\ edgeStatus' = [edgeStatus EXCEPT ![c] = "VERIFIED"]
    /\ node' = [node EXCEPT ![c] = result.target]
    /\ proof' = [proof EXCEPT ![c] = result.rows]
    /\ identified' = (identified \/ Resolves(c))
    /\ reqStatus' = Settled(c, "CONFIRMED")
    /\ UNCHANGED decision

\* Roles and artefacts leave their requirements inconclusive.
Gap(c) == Kind[c] \in {"role", "artefact"}
FailureOf(c) ==
    IF Kind[c] \in {"account", "endpoint"} THEN "STOP_INCONCLUSIVE_IDENTITY_UNRESOLVED"
    ELSE "STOP_INCONCLUSIVE_RELATION_UNPROVEN"

\* Mutant: an edge that is not verified is tried again.
FailRetrying(c, how) ==
    /\ claimStatus' = [claimStatus EXCEPT ![c] =
                         IF how = "complete" THEN "UNKNOWN" ELSE "INCONCLUSIVE"]
    /\ UNCHANGED <<reqStatus, edgeStatus, node, proof, identified, decision>>

\* One edge that is not verified ends the loop.
Fail(c, how) ==
    /\ claimStatus' = [claimStatus EXCEPT ![c] =
                         IF how = "complete" THEN "UNKNOWN" ELSE "INCONCLUSIVE"]
    /\ reqStatus' = [r \in Requirements |->
         IF r \in Requires[c] /\ Gap(c) /\ reqStatus[r] # "CONFIRMED" THEN "INCONCLUSIVE"
         ELSE IF Executed(c, r) THEN "EXECUTED" ELSE reqStatus[r]]
    /\ decision' = FailureOf(c)
    /\ UNCHANGED <<edgeStatus, node, proof, identified>>

\* RESOLVE_ENTITY and TEST run the same branch.
Test ==
    /\ Turn /\ Actionable # {}
    /\ LET c == Chosen
       IN  \E answer \in Answers :
             LET result == Verify(c, answer.rows, Fresh(answer.rows), answer.how,
                                  Source(c), node[c])
             IN  /\ Asked(c, answer)
                 /\ \/ result.verified /\ Prove(c, result)
                    \/ ~result.verified /\ Fail(c, answer.how)
    /\ UNCHANGED <<bindable, late, phase>>

-----------------------------------------------------------------------------
(* evaluate_stopping, for a hunt that a claim graph with a mandatory claim *)
(* governs: it leaves the hypotheses as they are.                          *)

Mandatory == Claims \ Optional
Resolved(c) == claimStatus[c] \in {"SUPPORTED", "REFUTED", "UNKNOWN", "INCONCLUSIVE"}

\* The verdict of the claims, when every mandatory one is resolved.
ClaimVerdict ==
    LET statuses == {claimStatus[c] : c \in Mandatory}
    IN  IF "INCONCLUSIVE" \in statuses THEN "STOP_INCONCLUSIVE_COVERAGE_GAP"
        ELSE IF "UNKNOWN" \in statuses THEN "STOP_BOUNDED"
        ELSE IF statuses = {"REFUTED"} THEN "STOP_REFUTED"
        ELSE "STOP_RESOLVED"

\* Mutant: claims that failed count as resolved for any verdict.
EvaluateStoppingLoose(isLate) ==
    IF \A c \in Mandatory : Resolved(c) \/ c \notin bindable THEN "STOP_RESOLVED"
    ELSE "STOP_INCONCLUSIVE_RELATION_UNPROVEN"

EvaluateStopping(isLate) ==
    IF \A c \in Mandatory : Resolved(c) THEN ClaimVerdict
    ELSE IF isLate THEN "STOP_EXHAUSTED_BY_BUDGET"
    ELSE IF PersonSubject /\ ~identified THEN "STOP_INCONCLUSIVE_IDENTITY_UNRESOLVED"
    ELSE IF incomplete THEN "STOP_INCONCLUSIVE_COVERAGE_GAP"
    ELSE IF Unproven = {} THEN "STOP_RESOLVED"
    ELSE "STOP_INCONCLUSIVE_RELATION_UNPROVEN"

\* Nothing can be asked, or the runtime ends while an action is selected.
Stop ==
    /\ Turn /\ late' \in {late, TRUE}
    /\ Actionable = {} \/ late'
    /\ decision' = EvaluateStopping(late')
    /\ UNCHANGED <<graph, reqStatus, cells, ledger, incomplete, identified,
                   queries, phase>>

Exhaust ==
    /\ phase = "hunting" /\ decision = "none"
    /\ turn' = turn + 1 /\ IsExhausted(turn')
    /\ decision' = "STOP_EXHAUSTED_BY_BUDGET"
    /\ UNCHANGED <<graph, report, queries, late, phase>>

\* The analyst authorizes the report or declines it.
Report ==
    /\ phase = "hunting" /\ decision # "none"
    /\ phase' \in {"reported"} \cup (IF HasAnalyst THEN {"declined"} ELSE {})
    /\ UNCHANGED <<graph, report, turn, queries, late, decision>>

RunLate ==
    /\ phase = "hunting" /\ decision = "none" /\ ~late
    /\ late' = TRUE
    /\ UNCHANGED <<graph, report, turn, queries, decision, phase>>

Iterate == Test \/ Stop \/ Exhaust \/ Report
Next == Iterate \/ RunLate

Spec == Init /\ [][Next]_vars
=============================================================================
