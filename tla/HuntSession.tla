---------------------------- MODULE HuntSession ----------------------------
(***************************************************************************)
(* One session of the command line: a hunt, and at most one more execution *)
(* by the same engine after the analyst has chosen among candidates.  A    *)
(* hunt takes one of two ways to its evidence.                             *)
(*                                                                         *)
(*   text    a question without a graph: a content search that is relaxed  *)
(*           while it finds nothing, then at most MaxAdaptive operations   *)
(*           that the adaptive planner picks                               *)
(*   graph   two goals: one binds the device of the subject, the other     *)
(*           gives the answer, and may need the binding                    *)
(*                                                                         *)
(* The groups of the card builder, the evaluator's use of the model and    *)
(* the hypothesis (of the cached compilation) live as long as the engine;  *)
(* ledger, results and cards are those of one execution.                   *)
(***************************************************************************)
EXTENDS AnswerAccount, SequencesExt

CONSTANTS
    Matches,      \* level of relaxation -> events its search can return
    Ops,          \* operations of the provider's descriptor
    DirectOps,    \* type of answer -> operations that declare it, in order
    Returns,      \* operation, or goal -> events it can return
    MaxRows,      \* rows of one query
    MaxAdaptive   \* operations of the adaptive loop

Goals    == {"bind", "answer"}
Outcomes == {"failed", "partial", "complete"}
NoOp     == "none"

ASSUME SessionAssumption ==
    /\ MaxRows \in Nat /\ MaxAdaptive \in Nat
    /\ \A t \in Types : DirectOps[t] \in Seq(Ops)
    /\ \A l \in 1 .. 3 : Matches[l] \subseteq Events
    /\ \A o \in Ops \cup Goals : Returns[o] \subseteq Events

VARIABLES
    request,      \* what is asked, and whether a model is there: never changes
    pass,         \* which execution of the session
    phase,
    ledger, results, cards, decision, analysis, answer, evidence,
    groups, asked, hypothesis,
    level, schema, tried, ready,      \* text
    goals                             \* graph
execution == <<ledger, results, cards, decision, analysis, answer, evidence>>
engine    == <<groups, asked, hypothesis>>
textVars  == <<level, schema, tried, ready>>
vars == <<request, pass, phase, execution, engine, textVars, goals>>

NoEvidence == [detected |-> FALSE, attribute |-> "UNKNOWN"]
NoCards    == [k \in Keys |-> << >>]
NotRun     == [status |-> "waiting", outcome |-> "failed", rows |-> 0,
               grounded |-> FALSE, proof |-> FALSE, licence |-> FALSE]
Requests   ==
    [path : {"text"}, type : Types, llm : BOOLEAN, anchored : BOOLEAN, levels : 1 .. 3,
     chained : {FALSE}]
    \cup
    [path : {"graph"}, type : Types, llm : BOOLEAN, anchored : {FALSE}, levels : {0},
     chained : BOOLEAN]
First(r) == IF r.path = "text" THEN "discover" ELSE "goals"

Init ==
    /\ request \in {r \in Requests : r.path = "text" => (r.anchored \/ r.levels > 1)}
    /\ pass = 1 /\ phase = First(request)
    /\ ledger = << >> /\ results = {} /\ cards = NoCards
    /\ decision = "none" /\ analysis = NoAnswer /\ answer = NoAnswer /\ evidence = NoEvidence
    /\ groups = NoCards /\ asked = FALSE /\ hypothesis = "LIVE"
    /\ level = 1 /\ schema = FALSE /\ tried = << >> /\ ready = FALSE
    /\ goals = [g \in Goals |-> NotRun]

-----------------------------------------------------------------------------
(* Queries.                                                                *)

\* What a query over some events gives: a failed one has no rows.
Results(E) ==
    {r \in [outcome : Outcomes, rows : BoundedSeq(E, MaxRows)] :
        r.outcome = "failed" => r.rows = << >>}

Recorded(query, r) == results' = results \cup {[query |-> query, outcome |-> r.outcome]}

\* Rows of the text path are numbered by their place in the ledger.
Observed(kind, rows) ==
    [i \in DOMAIN rows |->
        [id |-> <<kind, Len(ledger) + i>>, query |-> kind, event |-> rows[i]]]

AllComplete == \A r \in results : r.outcome = "complete"

-----------------------------------------------------------------------------
(* Text: discovery.                                                        *)

\* Level 1 joins the subject and the evidence terms, if there are any; the
\* later levels have the evidence terms alone, the last the short ones.
TermGroups(l) ==
    (IF l = 1 /\ request.anchored THEN {"subject"} ELSE {})
    \cup (IF request.levels > 1 /\ l <= request.levels THEN {"evidence"} ELSE {})

Relax(found) ==
    IF ~ found /\ \E l \in level + 1 .. 3 : TermGroups(l) # {}
    THEN phase' = phase /\ level' = level + 1
    ELSE phase' = "schema" /\ level' = level

Discover ==
    /\ phase = "discover"
    /\ \E r \in Results(Matches[level]) :
          /\ Recorded("discovery", r)
          /\ ledger' = ledger \o Observed("discovery", r.rows)
          /\ IF r.rows # << >> /\ r.outcome # "complete" /\ Cardinality(TermGroups(level)) > 1
             THEN phase' = "followup" /\ level' = level
             ELSE Relax(r.rows # << >>)
    /\ UNCHANGED <<request, pass, cards, decision, analysis, answer, evidence, engine,
                   schema, tried, ready, goals>>

\* A truncated search is followed by one on the hosts it has seen.
FollowUp ==
    /\ phase = "followup"
    /\ \E r \in Results(Matches[2]) :
          /\ Recorded("followup", r)
          /\ ledger' = ledger \o Observed("discovery", r.rows)
    /\ phase' = "schema"
    /\ UNCHANGED <<request, pass, cards, decision, analysis, answer, evidence, engine,
                   textVars, goals>>

\* The schema lists fields, never rows; an adapter may refuse the query.
DiscoverSchema ==
    /\ phase = "schema"
    /\ \/ /\ \E outcome \in Outcomes : Recorded("schema", [outcome |-> outcome])
          /\ schema' \in BOOLEAN
       \/ UNCHANGED <<results, schema>>
    /\ phase' = "adaptive"
    /\ UNCHANGED <<request, pass, ledger, cards, decision, analysis, answer, evidence, engine,
                   level, tried, ready, goals>>

-----------------------------------------------------------------------------
(* Text: the adaptive loop.                                                *)

FieldsSatisfied == \E o \in RowsOf(ledger) : Carried(request.type, o) # {}

\* An operation that declares the answer goes first, in the descriptor's
\* order; otherwise the model's choice, and the content search when there is
\* no valid one.
Choose ==
    LET open     == Ops \ RowsOf(tried)
        declared == DirectOps[request.type]
        direct   == {i \in DOMAIN declared : declared[i] \in open}
    IN  IF open = {} THEN {NoOp}
        ELSE IF direct # {} THEN {declared[Min(direct)]}
        ELSE (IF request.llm THEN open ELSE {})
             \cup (IF "search_text" \in open THEN {"search_text"} ELSE {NoOp})

\* Mutant: the cards are not built again.
IngestQuietly(new) ==
    /\ ledger' = ledger \o new /\ groups' = IngestDelta(groups, new) /\ UNCHANGED cards

\* What is observed becomes cards at once, complete or not.
Ingest(new) ==
    /\ ledger' = ledger \o new
    /\ groups' = IF new = << >> THEN groups ELSE IngestDelta(groups, new)
    /\ cards'  = IF new = << >> THEN cards ELSE groups'

Adapt ==
    /\ phase = "adaptive"
    /\ Len(tried) < MaxAdaptive /\ ~ FieldsSatisfied
    /\ \E op \in Choose \ {NoOp} :
          /\ tried' = Append(tried, op)
          /\ \/ \E r \in Results(Returns[op]) :
                   Recorded(op, r) /\ Ingest(Observed("adaptive", r.rows))
             \/ UNCHANGED <<results, ledger, groups, cards>>     \* the adapter refuses it
    /\ UNCHANGED <<request, pass, phase, decision, analysis, answer, evidence, asked,
                   hypothesis, level, schema, ready, goals>>

Settle ==
    /\ phase = "adaptive"
    /\ Len(tried) = MaxAdaptive \/ FieldsSatisfied \/ NoOp \in Choose
    /\ ready' = FieldsSatisfied
    /\ decision' = "STOP_BOUNDED"
    /\ phase' = "analyze"
    /\ UNCHANGED <<request, pass, ledger, results, cards, analysis, answer, evidence, engine,
                   level, schema, tried, goals>>

-----------------------------------------------------------------------------
(* Graph.                                                                  *)

Verified(g)  == /\ goals[g].outcome = "complete" /\ goals[g].grounded /\ goals[g].proof
Selected(g)  == goals[g].status = "selected"
Supported(g) == goals[g].status = "run" /\ Verified(g)

\* Values that rows gave but nothing proved are candidates: the step that
\* needs them waits for the analyst.
NeedsUserDecision ==
    /\ request.chained
    /\ goals["bind"].status = "run" /\ goals["bind"].grounded /\ ~ Verified("bind")

Runnable(g) ==
    /\ goals[g].status = "waiting"
    /\ g = "answer" =>
          /\ goals["bind"].status # "waiting"
          /\ request.chained => Supported("bind") \/ Selected("bind")

\* An attempt without rows has a licence when the provider promises that an
\* empty complete answer means absence and no way was left untried.
Run(g, r) ==
    /\ Recorded(g, r)
    /\ ledger' = ledger \o [i \in DOMAIN r.rows |->
                              [id |-> <<g, i>>, query |-> g, event |-> r.rows[i]]]
    /\ \E grounded, proof, licence \in BOOLEAN :
          /\ grounded => r.rows # << >>
          /\ goals' = [goals EXCEPT ![g] =
                 [status |-> "run", outcome |-> r.outcome, rows |-> Len(r.rows),
                  grounded |-> grounded, proof |-> proof, licence |-> licence]]

ExecuteGoal(g) ==
    /\ phase = "goals" /\ Runnable(g)
    /\ IF g = "bind" /\ pass = 2
       THEN /\ goals' = [goals EXCEPT ![g].status = "selected"]
            /\ UNCHANGED <<ledger, results>>
       ELSE \E r \in Results(Returns[g]) : Run(g, r)
    /\ UNCHANGED <<request, pass, phase, cards, decision, analysis, answer, evidence, engine,
                   textVars>>

\* Mutant: rows of partial and failed attempts count as well.
AllGoalRows == ledger

\* Rows that count as evidence: complete, and of a step that bound a value.
GoalEvidence ==
    Kept(ledger, {o \in RowsOf(ledger) :
                     goals[o.query].outcome = "complete" /\ goals[o.query].grounded})

Judge ==
    /\ phase = "goals" /\ ~ \E g \in Goals : Runnable(g)
    /\ groups' = IF GoalEvidence = << >> THEN groups ELSE IngestDelta(groups, GoalEvidence)
    /\ cards'  = IF GoalEvidence = << >> THEN cards ELSE groups'
    /\ hypothesis' = IF \A g \in Goals : Supported(g) THEN "SUPPORTED" ELSE hypothesis
    /\ decision' = IF \A g \in Goals : Supported(g) THEN "STOP_RESOLVED"
                   ELSE IF NeedsUserDecision THEN "STOP_NEEDS_USER_DECISION"
                   ELSE "STOP_INCONCLUSIVE"
    /\ phase' = "analyze"
    /\ UNCHANGED <<request, pass, ledger, results, analysis, answer, evidence, asked,
                   textVars, goals>>

-----------------------------------------------------------------------------
(* The end of an execution.                                                *)

\* The model reads the cards once in the life of the evaluator, and not when
\* its budget is spent.
Analyze ==
    /\ phase = "analyze"
    /\ \/ /\ request.llm /\ ~ asked /\ CardSet(cards) # {}
          /\ analysis' \in AnalyzeBatch(cards, AllComplete)
          /\ asked' = TRUE
       \/ UNCHANGED <<analysis, asked>>
    /\ phase' = "account"
    /\ UNCHANGED <<request, pass, ledger, results, cards, decision, answer, evidence, groups,
                   hypothesis, textVars, goals>>

\* Of a graph, only what the answer goal's own query brought.
AnswerRows ==
    IF request.path = "text" THEN ledger ELSE Kept(ledger, {o \in RowsOf(ledger) : o.query = "answer"})

AnswerCards ==
    IF request.path = "text" THEN cards
    ELSE [k \in Keys |->
            IF \E o \in RowsOf(cards[k]) : o.query = "answer" /\ goals["answer"].status = "run"
            THEN cards[k] ELSE << >>]

\* Mutant: the rows of an attempt are not looked at.
LicensedAnyRows ==
    \A g \in Goals : goals[g].status = "run" /\ goals[g].outcome = "complete" /\ goals[g].licence

Licensed ==
    \A g \in Goals : /\ goals[g].status = "run" /\ goals[g].outcome = "complete"
                     /\ goals[g].rows = 0 /\ goals[g].licence

Account ==
    LET graph    == request.path = "graph"
        complete == results # {} /\ AllComplete
        detected == Detected(cards, ledger)
        derived  == DeriveAnswer(request.type, AnswerCards, AnswerRows)
        proposed == Negative(Overrides(derived, analysis), graph, Licensed)
        verified == VerifyAnswer(proposed, request.type, cards, ledger, complete, detected)
        settled  == Negative(verified, graph, Licensed)
    IN  /\ phase = "account"
        /\ evidence' = [detected  |-> detected,
                        attribute |-> Attribute(request.type, cards, ledger)]
        /\ hypothesis' = Promote(hypothesis, verified)
        /\ answer' = Concluded(settled, results # {}, AllComplete,
                               decision = "STOP_NEEDS_USER_DECISION")
        /\ phase' = "reported"
        /\ UNCHANGED <<request, pass, ledger, results, cards, decision, analysis, groups,
                       asked, textVars, goals>>

\* The analyst picks a candidate: the same engine executes the hunt again.
Resume ==
    /\ phase = "reported" /\ pass = 1
    /\ decision = "STOP_NEEDS_USER_DECISION"
    /\ pass' = 2 /\ phase' = First(request)
    /\ ledger' = << >> /\ results' = {} /\ cards' = NoCards
    /\ decision' = "none" /\ analysis' = NoAnswer /\ answer' = NoAnswer
    /\ evidence' = NoEvidence
    /\ goals' = [g \in Goals |-> NotRun]
    /\ UNCHANGED <<request, engine, textVars>>

Next ==
    \/ Discover \/ FollowUp \/ DiscoverSchema \/ Adapt \/ Settle
    \/ \E g \in Goals : ExecuteGoal(g)
    \/ Judge \/ Analyze \/ Account \/ Resume

Spec == Init /\ [][Next]_vars
=============================================================================
