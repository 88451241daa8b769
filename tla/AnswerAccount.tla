--------------------------- MODULE AnswerAccount ---------------------------
(***************************************************************************)
(* How the rows of a hunt become its answer: rows are grouped into         *)
(* evidence cards, a candidate is derived from cards and rows, a language  *)
(* model may propose another one, a verifier downgrades what the evidence  *)
(* does not carry, and the account settles on one status.                  *)
(*                                                                         *)
(* An observation is [id, query, event]; of a row only what answers look   *)
(* at is kept: the fact it states, the group it falls into, whether it     *)
(* names the artifact, its version field, a version printed in one of its  *)
(* texts, its site.  Values are numbered in their order as texts, 0 is no  *)
(* value; cards are numbered in the order of their identifiers.            *)
(***************************************************************************)
EXTENDS Integers, Sequences, FiniteSets, FiniteSetsExt, Lists

CONSTANTS Events, Keys, Fields, Values

NoValue   == 0
Types     == {"software_version", "domain"}
Artifacts == {"process_execution", "software_artifact", "file_modification"}
Statuses  == {"NONE", "ANSWERED", "PARTIALLY_SUPPORTED", "PARTIAL", "NOT_FOUND", "INCONCLUSIVE"}
Answers   == [status : Statuses, value : Values \cup {NoValue}, cites : SUBSET Keys]
NoAnswer  == [status |-> "NONE", value |-> NoValue, cites |-> {}]

ASSUME FieldsAssumption ==
    /\ Keys \subseteq Nat /\ IsFiniteSet(Keys)
    /\ Values \subseteq Nat \ {NoValue} /\ IsFiniteSet(Values)
    /\ Fields \in [Events -> [fact : Artifacts \cup {"web_request", "message_activity",
                                                     "generic_telemetry"},
                              key : Keys, named : BOOLEAN, torlike : BOOLEAN,
                              version : Values \cup {NoValue},
                              printed : Values \cup {NoValue},
                              site : Values \cup {NoValue}]]

RowsOf(s) == {s[i] : i \in DOMAIN s}
Row(o)    == Fields[o.event]

-----------------------------------------------------------------------------
(* Cards: groups of observations with one fingerprint.                     *)

CardSet(cards) == {k \in Keys : cards[k] # << >>}
Ids(card)      == {o.id : o \in RowsOf(card)}

\* New observations go to the end of their groups.
IngestDelta(groups, new) ==
    [k \in Keys |-> groups[k] \o Kept(new, {o \in RowsOf(new) : Row(o).key = k})]

\* One execution makes the card one; otherwise its last row decides, and a
\* row of no known kind is an execution when its text has "tor" in it.
FactType(card) ==
    LET facts == {Row(o).fact : o \in RowsOf(card)}
        last  == Row(card[Len(card)]).fact
    IN  IF \/ "process_execution" \in facts
           \/ last = "generic_telemetry" /\ \E o \in RowsOf(card) : Row(o).torlike
        THEN "process_execution" ELSE last

Versions(card) ==
    LET explicit == {Row(o).version : o \in RowsOf(card)} \ {NoValue}
    IN  IF explicit # {} THEN explicit
        ELSE {Row(o).printed : o \in RowsOf(card)} \ {NoValue}

Sites(card) == {Row(o).site : o \in RowsOf(card)} \ {NoValue}

FieldSummary(type, card) == IF type = "domain" THEN Sites(card) ELSE Versions(card)

\* The cards in the order of the list: the largest first, then by identifier.
Sooner(cards, j, k) ==
    \/ Len(cards[j]) > Len(cards[k])
    \/ Len(cards[j]) = Len(cards[k]) /\ j < k

FirstOf(cards, K) == CHOOSE k \in K : \A j \in K \ {k} : Sooner(cards, k, j)

-----------------------------------------------------------------------------
(* What the evidence state says of the artifact.                           *)

Detected(cards, ledger) ==
    \/ \E k \in CardSet(cards) : \/ FactType(cards[k]) \in Artifacts
                                 \/ \E o \in RowsOf(cards[k]) : Row(o).named
    \/ \E o \in RowsOf(ledger) : Row(o).named

\* The fields of the answer that an observation itself carries.
Carried(type, o) ==
    (IF type = "domain" THEN {Row(o).site} ELSE {Row(o).version}) \ {NoValue}

Attribute(type, cards, ledger) ==
    IF \E o \in RowsOf(ledger) :
          \/ Row(o).version # NoValue
          \/ type = "software_version" /\ Row(o).printed # NoValue
    THEN "OBSERVED"
    ELSE IF Detected(cards, ledger) THEN "NOT_OBSERVED" ELSE "UNKNOWN"

-----------------------------------------------------------------------------
(* The candidate that cards and observations themselves give.              *)

\* A domain is read from cards of requests only, anything else from any card.
Eligible(type, cards) ==
    {k \in CardSet(cards) : type = "domain" => FactType(cards[k]) = "web_request"}

\* Raw rows have no "domains" or "sites", the names a domain is looked up by.
Direct(type, o) == IF type = "domain" THEN {} ELSE Carried(type, o)

Occurrences(ledger, S) == Cardinality({i \in DOMAIN ledger : ledger[i] \in S})

\* The rows of the cards that show the value, and the rows that carry it.
Showing(type, cards, v) == {k \in Eligible(type, cards) : v \in FieldSummary(type, cards[k])}

Weight(type, cards, ledger, v) ==
    Cardinality(UNION {{k} \X DOMAIN cards[k] : k \in Showing(type, cards, v)})
    + Occurrences(ledger, {o \in RowsOf(ledger) : v \in Direct(type, o)})

\* Only when no field gives a value are the texts of the rows searched.
Printing(type, ledger, v) ==
    {o \in RowsOf(ledger) : type = "software_version" /\ v = Row(o).printed}

Heaviest(W) ==
    CHOOSE v \in DOMAIN W : \A u \in DOMAIN W \ {v} : W[v] > W[u] \/ (W[v] = W[u] /\ v < u)

\* The cards a candidate cites: those that show it, those that hold one of
\* the observations (by identifier) it was read from.
Citing(type, cards, sources, v) ==
    {k \in CardSet(cards) :
        \/ k \in Showing(type, cards, v)
        \/ Ids(cards[k]) \cap {o.id : o \in sources} # {}}

\* A candidate no card shows cites the first card there is.
Candidate(type, cards, sources, v) ==
    LET cites == Citing(type, cards, sources, v)
    IN  [status |-> "ANSWERED", value |-> v,
         cites  |-> IF cites = {} /\ CardSet(cards) # {}
                    THEN {FirstOf(cards, CardSet(cards))} ELSE cites]

DeriveAnswer(type, cards, ledger) ==
    LET weighty == {v \in Values : Weight(type, cards, ledger, v) > 0}
        printed == {v \in Values : Printing(type, ledger, v) # {}}
        field   == Heaviest([v \in weighty |-> Weight(type, cards, ledger, v)])
        text    == Heaviest([v \in printed |-> Occurrences(ledger, Printing(type, ledger, v))])
    IN  IF weighty # {}
        THEN Candidate(type, cards, {o \in RowsOf(ledger) : field \in Direct(type, o)}, field)
        ELSE IF printed # {} THEN Candidate(type, cards, Printing(type, ledger, text), text)
        ELSE [NoAnswer EXCEPT !.status = "INCONCLUSIVE"]

-----------------------------------------------------------------------------
(* The language model's reading of the cards, or what stands in for it.    *)

\* Without the model: executions and files answer with the first version any
\* card shows.
DeterministicExplanation(cards) ==
    LET artifacts == {k \in CardSet(cards) : FactType(cards[k]) \in Artifacts}
        showing   == {k \in CardSet(cards) : Versions(cards[k]) # {}}
    IN  [status |-> IF artifacts = {} THEN "INCONCLUSIVE"
                    ELSE IF showing = {} THEN "PARTIALLY_SUPPORTED" ELSE "ANSWERED",
         value  |-> IF artifacts = {} \/ showing = {} THEN NoValue
                    ELSE Min(Versions(cards[FirstOf(cards, showing)])),
         cites  |-> artifacts]

\* What is kept of a reply: cards that were shown to the model, and neither an
\* answer that cites none nor an absence over incomplete queries.
Validated(reply, cards, complete) ==
    LET cites == reply.cites \cap CardSet(cards)
    IN  [status |-> IF \/ reply.status = "ANSWERED" /\ cites = {}
                       \/ reply.status = "NOT_FOUND" /\ ~ complete
                    THEN "INCONCLUSIVE" ELSE reply.status,
         value  |-> IF reply.status = "ANSWERED" /\ cites = {} THEN NoValue ELSE reply.value,
         cites  |-> cites]

\* Only the value and the citations of an answer are ever used.
Replies ==
    {a \in Answers : a.status = "ANSWERED"}
    \cup {[NoAnswer EXCEPT !.status = s] : s \in {"NOT_FOUND", "INCONCLUSIVE"}}

AnalyzeBatch(cards, complete) ==
    {Validated(reply, cards, complete) : reply \in Replies} \cup {DeterministicExplanation(cards)}

\* An answer of the model goes before the derived one.
Overrides(derived, analysis) == IF analysis.status = "ANSWERED" THEN analysis ELSE derived

-----------------------------------------------------------------------------
(* The verifier.                                                           *)

FieldSeen(type, cites, cards, ledger) ==
    \/ \E k \in cites : FieldSummary(type, cards[k]) # {}
    \/ \E o \in RowsOf(ledger) : Carried(type, o) # {}

\* The value is looked for in every row, then in the cited cards.
Bound(value, cites, cards, ledger) ==
    \/ \E o \in RowsOf(ledger) : value \in {Row(o).version, Row(o).printed, Row(o).site}
    \/ \E k \in cites : value \in Versions(cards[k]) \cup Sites(cards[k])

Present(detected) == IF detected THEN "PARTIALLY_SUPPORTED" ELSE "PARTIAL"

\* Mutant: the value itself is not looked for.
AnsweredUnbound(answer, cites, type, cards, ledger, complete, detected) ==
    IF cites = {} THEN "INCONCLUSIVE"
    ELSE IF FieldSeen(type, cites, cards, ledger) THEN "ANSWERED" ELSE Present(detected)

AnsweredStatus(answer, cites, type, cards, ledger, complete, detected) ==
    CASE cites = {} -> "INCONCLUSIVE"
      [] cites # {} /\ ~ FieldSeen(type, cites, cards, ledger) -> Present(detected)
      [] OTHER ->
            IF answer.value = NoValue THEN IF complete THEN "ANSWERED" ELSE "INCONCLUSIVE"
            ELSE IF Bound(answer.value, cites, cards, ledger) THEN "ANSWERED" ELSE "PARTIAL"

VerifyAnswer(answer, type, cards, ledger, complete, detected) ==
    LET cites   == answer.cites \cap CardSet(cards)
        missing == ~ FieldSeen(type, cites, cards, ledger)
        status  ==
            CASE answer.status = "ANSWERED" ->
                    AnsweredStatus(answer, cites, type, cards, ledger, complete, detected)
              [] answer.status \in {"NONE", "INCONCLUSIVE", "PARTIAL"} ->
                    IF detected /\ (missing \/ type = "software_version")
                    THEN "PARTIALLY_SUPPORTED"
                    ELSE IF answer.status = "PARTIAL" THEN "PARTIAL" ELSE "INCONCLUSIVE"
              [] answer.status = "NOT_FOUND" ->
                    IF detected THEN "PARTIALLY_SUPPORTED"
                    ELSE IF complete THEN "NOT_FOUND" ELSE "INCONCLUSIVE"
              [] OTHER -> answer.status
    IN  [answer EXCEPT !.status = status, !.cites = cites]

-----------------------------------------------------------------------------
(* The account.                                                            *)

\* A graph of goals has no negative but the licensed one.
Negative(answer, graph, licensed) ==
    IF graph /\ answer.status # "ANSWERED"
    THEN [answer EXCEPT !.status = IF licensed THEN "NOT_FOUND" ELSE "INCONCLUSIVE"]
    ELSE answer

\* An answer lifts the hypotheses nobody has judged yet.
Promote(hypothesis, answer) ==
    IF hypothesis = "LIVE" /\ answer.status = "ANSWERED" THEN "SUPPORTED"
    ELSE IF hypothesis = "LIVE" /\ answer.status = "PARTIALLY_SUPPORTED" THEN "PARTIALLY_SUPPORTED"
    ELSE hypothesis

Concluded(answer, searched, complete, undecided) ==
    IF \/ undecided
       \/ answer.status = "NOT_FOUND" /\ ~ (searched /\ complete)
    THEN [answer EXCEPT !.status = "INCONCLUSIVE", !.value = IF undecided THEN NoValue ELSE @]
    ELSE answer
=============================================================================
