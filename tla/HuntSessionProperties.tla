----------------------- MODULE HuntSessionProperties -----------------------
(***************************************************************************)
(* What the answer of a session owes to its evidence.                      *)
(***************************************************************************)
EXTENDS HuntSession

Queries == {"discovery", "adaptive"} \cup Goals
Observation(o) == o.query \in Queries /\ o.id \in {o.query} \X Nat /\ o.event \in Events

\* Types of the state; a card holds observations of its own fingerprint.
TypeOK ==
    /\ request \in Requests /\ pass \in 1..2 /\ asked \in BOOLEAN
    /\ phase \in {"discover", "followup", "schema", "adaptive", "goals", "analyze",
                  "account", "reported"}
    /\ \A o \in RowsOf(ledger) : Observation(o)
    /\ \A k \in Keys : \A o \in RowsOf(groups[k]) : Observation(o) /\ Row(o).key = k
    /\ \A k \in Keys : cards[k] \in {<< >>, groups[k]}
    /\ answer \in Answers /\ analysis \in Answers
    /\ hypothesis \in {"LIVE", "SUPPORTED", "PARTIALLY_SUPPORTED"}
    /\ level \in 1..3 /\ tried \in BoundedSeq(Ops, MaxAdaptive)
    /\ decision \in {"none", "STOP_BOUNDED", "STOP_RESOLVED", "STOP_NEEDS_USER_DECISION",
                     "STOP_INCONCLUSIVE"}

\* The rows of an operation that have o's fingerprint are requests, all of
\* them: none names a program or a sender as well.
AmongRequests(o) ==
    \A p \in RowsOf(ledger) :
        p.query = "adaptive" /\ Row(p).key = Row(o).key => Row(p).fact = "web_request"

\* A hunt without a model answers a field that one of its own operations has
\* observed, on any turn, from complete or partial reads: the row reaches a
\* card, the card the candidate, and the verifier lets it pass (adaptive
\* loop, _derive_answer, verify_answer).  Except for a domain, that is read
\* from cards of requests only: a row with a site that is itself taken for an
\* execution or a message, or is grouped with one, need not be answered.
ObservedIsAnswered ==
    phase = "reported" /\ request.path = "text" /\ ~ request.llm
    /\ (\E o \in RowsOf(ledger) :
           /\ o.query = "adaptive" /\ Carried(request.type, o) # {}
           /\ request.type = "domain" => AmongRequests(o))
        => answer.status = "ANSWERED" /\ answer.value # NoValue

\* The rows a first execution turns into cards are those of the adaptive
\* operations and of the complete goals that bound a value: a card is all of
\* them that have its fingerprint, each once and in their order; rows of
\* discovery, of partial reads and of attempts that proved nothing are never
\* cards (engine.py, goal_query_ids).
Admitted(o) ==
    \/ o.query = "adaptive"
    \/ o.query \in Goals /\ goals[o.query].outcome = "complete" /\ goals[o.query].grounded
OnlyAdmittedRowsBecomeCards ==
    pass = 1 /\ phase \in {"adaptive", "analyze", "account", "reported"} =>
        \A k \in Keys :
            cards[k] = Kept(ledger, {o \in RowsOf(ledger) : Admitted(o) /\ Row(o).key = k})

\* A concluded answer cites cards that exist, and the value it names is in a
\* row of this execution or in a card it cites: neither the model nor the
\* candidate of the rows can introduce a value (verify_answer).
AnsweredIsBound ==
    answer.status = "ANSWERED" =>
        /\ answer.cites # {} /\ answer.cites \subseteq CardSet(cards)
        /\ FieldSeen(request.type, answer.cites, cards, ledger)
        /\ answer.value # NoValue => Bound(answer.value, answer.cites, cards, ledger)

\* A negative is told only of a graph all of whose goals ran to the end of
\* their data, found nothing, and are licensed to mean absence (builder.py,
\* _graph_not_found_licence and the reassertion after verification).
NegativeIsLicensed ==
    answer.status = "NOT_FOUND" =>
        /\ request.path = "graph" /\ pass = 1 /\ ledger = << >> /\ AllComplete
        /\ \A g \in Goals : goals[g].status = "run" /\ goals[g].licence
        /\ decision # "STOP_NEEDS_USER_DECISION"
=============================================================================
