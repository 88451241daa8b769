------------------------------ MODULE HuntLoop ------------------------------
(***************************************************************************)
(* The action loop of a hunt (engine.py, execute_hunt) with the controller *)
(* that selects its actions and stops it, the reasoner that judges the     *)
(* hypotheses and the budgets.  An iteration of the loop is one action of  *)
(* this module: it counts a turn, puts every idle entity in the queue of   *)
(* entities to expand, and takes the first possible action of              *)
(*   TEST -> CONTROL -> EXPAND -> DISCOVER -> PIVOT -> REFINE -> STOP.     *)
(* The provider answers a query with any rows about what was asked.        *)
(***************************************************************************)
EXTENDS Naturals, FiniteSets, Sequences, SequencesExt, Lists

CONSTANTS
    Hypotheses, Requirements,   \* of the compiled objective
    Benign,                     \* hypotheses of class benign_baseline
    BoundPairs,                 \* <<hypothesis, requirement>>, hypotheses first
    RequirementOrder,           \* the requirements in their order
    Primary,                    \* the requirement a sweep of the scope is for
    Owner,                      \* requirement -> hypothesis it supports first
    EvidenceType,               \* requirement -> kind of evidence it asks for
    Entities, Domains,          \* instance entities; those that are domains
    Asked,                      \* entities of the request, in order
    Compatible,                 \* <<entity, requirement>> an entity can meet
    Unplannable,                \* <<entity, requirement>> no plan is made for
    Untargeted,                 \* requirements planned as a scan of the scope
    Rows,                       \* telemetry records
    Row,    \* row -> [host, others, source, kind, meets, group, time]: the kind
            \* of evidence whose searches return it, the kind of fact it is
            \* taken for, its fingerprint, its time
    Addresses,                  \* entities that are addresses
    Day,                        \* how far correlated cards may be apart
    HasControls, HasAnalyst, HasEvaluator,
    MaxTurns, MaxQueries, MaxScans, MaxLlm, MaxPivots,
    NoEntity

ASSUME CountsAssumption ==
    /\ MaxTurns \in Nat /\ MaxQueries \in Nat /\ MaxScans \in Nat
    /\ MaxLlm \in Nat /\ MaxPivots \in Nat

ASSUME ObjectiveAssumption ==
    /\ Benign \subseteq Hypotheses
    /\ BoundPairs \in Seq(Hypotheses \X Requirements)
    /\ RequirementOrder \in Seq(Requirements)
    /\ Owner \in [Requirements -> Hypotheses] /\ Primary \in Requirements
    /\ Asked \in Seq(Entities) /\ NoEntity \notin Entities

ASSUME RowsAssumption ==
    /\ IsFiniteSet(Entities)
    /\ \A w \in Rows : /\ Row[w].host \in Entities \cup {NoEntity}
                       /\ Row[w].others \subseteq Entities
                       /\ Row[w].time \in Nat
    /\ Addresses \subseteq Entities /\ Day \in Nat

VARIABLES
    expectations,  \* the expectations, in the order they were added
    testStatus,    \* expectation -> status, for those that were added
    hypStatus, reqStatus,
    cells,         \* entities with an instance cell, in order
    cellState,     \* state of every cell; NoEntity is the wildcard cell
    expand, pivots, controls, discovered, pivotsDone,
    ledger,        \* rows kept as observations of a targeted test
    cardKind,      \* group of rows -> kind of fact its card is taken for
    incomplete,    \* some recorded result was not complete
    turn, queries, scans, llm, late,
    decision, phase

work   == <<expectations, testStatus, hypStatus, reqStatus>>
cover  == <<cells, cellState>>
queues == <<expand, pivots, controls, discovered, pivotsDone>>
data   == <<ledger, cardKind, incomplete>>
budget == <<turn, queries, scans, llm, late>>
verdict == <<decision, phase>>
vars == <<work, cover, queues, data, budget, verdict>>

-----------------------------------------------------------------------------
(* Expectations.  Their ids join the way they came, the hypothesis (unless *)
(* an expansion made them), the requirement and the entity.                *)

Expectations ==
    [via : {"initial", "expand", "pivot"}, hyp : Hypotheses,
     req : Requirements, ent : Entities]

Statuses == {"untested", "confirmed", "refuted", "untestable", "inconclusive"}
Known    == DOMAIN testStatus
With(s)  == {x \in Known : testStatus[x] = s}
Untested == {i \in DOMAIN expectations : testStatus[expectations[i]] = "untested"}
\* The first expectation not tested yet.
IsNext(x) == \E i \in Untested : x = expectations[i] /\ \A j \in Untested : i <= j

\* Every bound pair asked of every entity of a list, entity by entity.
EveryPair(via, es) ==
    LET n == Len(BoundPairs)
        at(k) == BoundPairs[((k - 1) % n) + 1]
    IN  [k \in 1 .. Len(es) * n |->
           [via |-> via, hyp |-> at(k)[1], req |-> at(k)[2],
            ent |-> es[((k - 1) \div n) + 1]]]

\* The expectations entities get for every bound pair, minus those that
\* exist or that an entity cannot meet.
BoundExpectations(via, es) ==
    Kept(EveryPair(via, es), {x \in Expectations \ Known : <<x.ent, x.req>> \in Compatible})

\* The expectations EXPAND adds: one per requirement nobody asks of e yet.
ExpandExpectations(e) ==
    LET open == Kept(RequirementOrder,
                     {r \in Requirements : /\ <<e, r>> \in Compatible
                                           /\ ~\E x \in Known : x.ent = e /\ x.req = r})
    IN  [i \in DOMAIN open |->
           [via |-> "expand", hyp |-> Owner[open[i]], req |-> open[i], ent |-> e]]

Adding(new) ==
    /\ expectations' = expectations \o new
    /\ testStatus' = [x \in Known \cup Range(new) |->
                        IF x \in Known THEN testStatus[x] ELSE "untested"]

\* The requirement a test works for is the first with the same kind of
\* evidence, which need not be the expectation's own.
RequirementOf(x) ==
    Kept(RequirementOrder,
         {r \in Requirements : r = x.req \/ EvidenceType[r] = EvidenceType[x.req]})[1]

-----------------------------------------------------------------------------
(* Rows and cards.  The rows of one fingerprint make one card, which is    *)
(* rebuilt from all of them when a test adds one (EvidenceGroupBuilder).   *)

Groups         == {Row[w].group : w \in Rows}
Group(rows, g) == {w \in rows : Row[w].group = g}
CardsOf(rows)  == {Row[w].group : w \in rows}
\* The entities rows name together.
NamedBy(rows) == (UNION {{Row[w].host} \cup Row[w].others : w \in rows}) \ {NoEntity}

\* A card is taken for a process as soon as one of its rows is, or else for
\* what the last of its rows is; last gives that row of every group a test
\* adds to, whose rows the provider lists in any order.
LastRows(new) == {f \in [CardsOf(new) -> new] : \A g \in DOMAIN f : Row[f[g]].group = g}
KindAfter(rows, last) ==
    [g \in Groups |->
       IF g \notin DOMAIN last THEN cardKind[g]
       ELSE IF \E w \in Group(ledger \cup rows, g) : Row[w].kind = "process"
       THEN "process" ELSE Row[last[g]].kind]

\* evaluate_card_against_expectation for the card of some rows: its kind, the
\* entity (a card that names none passes) and the predicate are looked up
\* each on its own, so that the rows may meet them between them.
Satisfies(rows, kind, x) ==
    /\ EvidenceType[x.req] \in {kind, "scope"}
    /\ NamedBy(rows) = {} \/ x.ent \in NamedBy(rows)
    /\ \E w \in rows : x.req \in Row[w].meets
\* The rows a query about an entity, or about the scope, can return.
Answers(x) ==
    {w \in Rows : /\ EvidenceType[RequirementOf(x)] \in {Row[w].source, "scope"}
                  /\ RequirementOf(x) \in Untargeted \/ x.ent \in NamedBy({w})}
Results(rows) ==
    [how : {"complete", "partial"}, rows : SUBSET rows]
        \cup [how : {"failed"}, rows : {{}}]

\* verify_attack_chain_correlation over the cards of rows: a host with a
\* process and a file, which a web card names or shares an address with.
\* (Addresses a registry would add for a host are left out.)
ChainHolds(rows, kinds) ==
    LET Of(k)      == {g \in CardsOf(rows) : kinds[g] = k}
        Hosts(g)   == {Row[w].host : w \in Group(rows, g)}
        Ips(g)     == NamedBy(Group(rows, g)) \cap Addresses
        On(k, h)   == {g \in Of(k) : h \in Hosts(g)}
        Own(h)     == UNION {Ips(g) : g \in {c \in CardsOf(rows) : h \in Hosts(c)}}
        Serving(h) == {g \in Of("web") : h \in Hosts(g) \/ Ips(g) \cap Own(h) # {}}
        First(g)   == Min({Row[w].time : w \in Group(rows, g)})
        Close(S, T) == \E c \in S, d \in T : First(c) <= First(d) + Day
                                           /\ First(d) <= First(c) + Day
    IN  \/ Of("web") = {} \/ Of("process") = {}
        \/ \E h \in Entities :
              /\ Close(Serving(h), On("process", h))
              /\ Of("file") # {} => Close(On("process", h), On("file", h))

-----------------------------------------------------------------------------
(* The reasoner (evaluate_hypothesis_network).                             *)

Owned(h, ts) == {x \in DOMAIN ts : x.hyp = h}
NeedsChain(h, ts) == \E x \in Owned(h, ts) : EvidenceType[x.req] = "web"

Judged(h, ts, rows, kinds) ==
    LET has(S) == \E x \in Owned(h, ts) : ts[x] \in S
        open == has({"untested", "inconclusive", "untestable"})
        artefact == \E x \in Owned(h, ts) :
            ts[x] = "confirmed" /\ EvidenceType[x.req] \in {"process", "file"}
        chained ==
            /\ artefact \/ ~(has({"refuted"}) \/ open)
            /\ ChainHolds(rows, kinds)
    IN  CASE Owned(h, ts) = {} -> hypStatus[h]
          [] has({"confirmed"}) ->
               IF NeedsChain(h, ts) /\ ~chained THEN "WEAKENED" ELSE "SUPPORTED"
          [] ~has({"confirmed"}) /\ has({"refuted"}) /\ ~open -> "REFUTED"
          [] OTHER -> IF hypStatus[h] \in {"SUPPORTED", "REFUTED"}
                      THEN hypStatus[h] ELSE "UNKNOWN"

\* Mutant: a supported attack leaves the benign baseline as it was.
NetworkKeepingBenign(ts, rows, kinds) ==
    LET own == [h \in Hypotheses |-> Judged(h, ts, rows, kinds)]
        attacks == Hypotheses \ Benign
    IN  [h \in Hypotheses |->
           IF h \in Benign /\ attacks # {} /\ \A a \in attacks : own[a] = "REFUTED"
           THEN "SUPPORTED" ELSE own[h]]

Network(ts, rows, kinds) ==
    LET own == [h \in Hypotheses |-> Judged(h, ts, rows, kinds)]
        attacks == Hypotheses \ Benign
        rival == IF \E h \in attacks : own[h] = "SUPPORTED" THEN "REFUTED"
                 ELSE IF attacks # {} /\ \A h \in attacks : own[h] = "REFUTED"
                 THEN "SUPPORTED" ELSE "own"
    IN  [h \in Hypotheses |->
           IF h \in Benign /\ rival # "own" THEN rival ELSE own[h]]

-----------------------------------------------------------------------------
(* Budgets, and the turn every iteration begins with.                      *)

IsExhausted(t) ==
    t >= MaxTurns \/ queries >= MaxQueries \/ scans >= MaxScans
        \/ llm >= MaxLlm \/ late

\* Unexplored entities without an untested expectation join the queue.
Idle(e) ==
    /\ cellState[e] = "unexplored"
    /\ ~\E x \in With("untested") : x.ent = e
    /\ e \notin Range(expand)
Queue == expand \o Kept(cells, {e \in Entities : Idle(e)})

Ambiguous ==
    {g \in CardsOf(ledger) :
       ~\E x \in Known : Satisfies(Group(ledger, g), cardKind[g], x)}

\* Mutant: controls are never run.
SelectedWithoutControl ==
    IF Untested # {} THEN "TEST"
    ELSE IF Queue # << >> THEN "EXPAND"
    ELSE IF cellState[NoEntity] = "unexplored" THEN "DISCOVER"
    ELSE IF pivots # << >> /\ pivotsDone < MaxPivots THEN "PIVOT"
    ELSE IF Ambiguous # {} /\ HasEvaluator THEN "REFINE"
    ELSE "STOP"

\* select_action
Selected ==
    IF Untested # {} THEN "TEST"
    ELSE IF controls # << >> THEN "CONTROL"
    ELSE IF Queue # << >> THEN "EXPAND"
    ELSE IF cellState[NoEntity] = "unexplored" THEN "DISCOVER"
    ELSE IF pivots # << >> /\ pivotsDone < MaxPivots THEN "PIVOT"
    ELSE IF Ambiguous # {} /\ HasEvaluator THEN "REFINE"
    ELSE "STOP"

\* Mutant: the turn is not recorded.
TurnUncounted(action) ==
    /\ phase = "hunting" /\ decision = "none"
    /\ turn' = turn /\ ~IsExhausted(turn) /\ Selected = action

Turn(action) ==
    /\ phase = "hunting" /\ decision = "none"
    /\ turn' = turn + 1 /\ ~IsExhausted(turn') /\ Selected = action

CellAfter(how) ==
    CASE how = "complete" -> "explored" [] how = "partial" -> "partial"
      [] how = "failed" -> "unqueryable"

\* seq extended with the members of S it lacks, up to a length of cap.
Extended(seq, S, cap) ==
    LET new == SetToSeq(S \ Range(seq))
        room == IF Len(seq) >= cap THEN 0
                ELSE IF Len(new) <= cap - Len(seq) THEN Len(new) ELSE cap - Len(seq)
    IN  seq \o SubSeq(new, 1, room)

\* Hosts the rows name, and what else in them could be pivoted to.
HostsIn(rows) == {Row[w].host : w \in rows} \ {NoEntity}
LeadsIn(rows, known) == UNION {Row[w].others : w \in rows} \ Range(known)

-----------------------------------------------------------------------------
\* The expectations of the entities the request names.
Initial ==
    Kept(EveryPair("initial", Asked), {x \in Expectations : <<x.ent, x.req>> \in Compatible})

Init ==
    \E used \in 0..MaxLlm :
        /\ expectations = Initial
        /\ testStatus = [x \in Range(Initial) |-> "untested"]
        /\ hypStatus = [h \in Hypotheses |-> "LIVE"]
        /\ reqStatus = [r \in Requirements |-> "DEFINED"]
        /\ cells = Asked
        /\ cellState = [c \in Entities \cup {NoEntity} |-> "unexplored"]
        /\ expand = << >> /\ pivots = << >> /\ controls = << >>
        /\ discovered = {} /\ pivotsDone = 0
        /\ ledger = {} /\ cardKind = [g \in Groups |-> "none"] /\ incomplete = FALSE
        /\ turn = 0 /\ queries = 0 /\ scans = 0 /\ llm = used /\ late = FALSE
        /\ decision = "none" /\ phase = "hunting"

\* A test no plan is made for.
TestUntestable ==
    /\ Turn("TEST")
    /\ \E x \in With("untested") : LET r == RequirementOf(x) IN
          /\ IsNext(x)
          /\ <<x.ent, r>> \in Unplannable
          /\ testStatus' = [testStatus EXCEPT ![x] = "untestable"]
          /\ reqStatus' = [reqStatus EXCEPT ![r] = "UNSUPPORTED"]
    /\ expand' = Queue
    /\ UNCHANGED <<expectations, hypStatus, cover, pivots, controls, discovered,
                   pivotsDone, data, queries, scans, llm, late, verdict>>

\* Mutant: any row confirms.
ConcludedByRows(x, result, kinds) ==
    IF result.rows # {} THEN "confirmed" ELSE "inconclusive"

\* What a test concludes: only the card of a row the ledger did not have can
\* confirm, and that card is judged with the older rows of its group.
Concluded(x, result, kinds) ==
    IF \E g \in CardsOf(result.rows \ ledger) :
          Satisfies(Group(ledger \cup result.rows, g), kinds[g], x)
    THEN "confirmed"
    ELSE IF result.rows # {} /\ result.how = "complete" THEN "refuted"
    ELSE "inconclusive"

\* The cell a test explores: the entity's own, or the wildcard cell.
Explores(x, r) ==
    IF r \notin Untargeted /\ x.ent \in Range(cells) THEN x.ent ELSE NoEntity

\* What the answer to a test changes.
Record(x, result, last) ==
    LET r     == RequirementOf(x)
        rows  == result.rows
        after == Concluded(x, result, KindAfter(rows, last))
        hosts == HostsIn(rows) \ discovered
        found == hosts \ (Range(Queue) \cup Range(cells))
        met   == SetToSeq(found)
        again == IF after = "confirmed" /\ x.ent \notin Domains THEN {x.ent} ELSE {}
    IN  /\ testStatus' = [testStatus EXCEPT ![x] = after]
        /\ reqStatus' = [reqStatus EXCEPT ![r] =
             IF after = "confirmed" THEN "CONFIRMED" ELSE "EXECUTED"]
        /\ ledger' = ledger \cup rows /\ cardKind' = KindAfter(rows, last)
        /\ hypStatus' = Network(testStatus', ledger', cardKind')
        /\ cells' = cells \o met
        /\ cellState' = [cellState EXCEPT ![Explores(x, r)] = CellAfter(result.how)]
        /\ discovered' = discovered \cup hosts
        /\ expand' = Extended(Queue \o met, again, Len(Queue \o met) + 1)
        /\ pivots' = IF after # "confirmed" THEN pivots
                     ELSE Extended(pivots, LeadsIn(rows, cells'), MaxPivots)
        /\ controls' = IF rows = {} /\ result.how = "complete" /\ HasControls
                       THEN Append(controls, x) ELSE controls
        /\ incomplete' = (incomplete \/ result.how # "complete")

TestQuery ==
    /\ Turn("TEST")
    /\ \E x \in With("untested") :
         /\ IsNext(x)
         /\ <<x.ent, RequirementOf(x)>> \notin Unplannable
         /\ \E result \in Results(Answers(x)) :
               \E last \in LastRows(result.rows \ ledger) : Record(x, result, last)
    /\ queries' = queries + 1
    /\ UNCHANGED <<expectations, pivotsDone, scans, llm, late, verdict>>

\* Mutant: an unlicensed negative is tested again.
ControlRetrying ==
    /\ Turn("CONTROL")
    /\ \E licensed \in BOOLEAN :
          testStatus' = [testStatus EXCEPT ![controls[1]] =
                           IF licensed THEN "refuted" ELSE "untested"]
    /\ controls' = Tail(controls)
    /\ hypStatus' = Network(testStatus', ledger, cardKind)
    /\ expand' = Queue
    /\ UNCHANGED <<expectations, reqStatus, cover, pivots, discovered, pivotsDone,
                   data, queries, scans, llm, late, verdict>>

\* The three controls decide whether an empty answer is a negative.
Control ==
    /\ Turn("CONTROL")
    /\ \E licensed \in BOOLEAN :
          testStatus' = [testStatus EXCEPT ![controls[1]] =
                           IF licensed THEN "refuted" ELSE "inconclusive"]
    /\ controls' = Tail(controls)
    /\ hypStatus' = Network(testStatus', ledger, cardKind)
    /\ expand' = Queue
    /\ UNCHANGED <<expectations, reqStatus, cover, pivots, discovered, pivotsDone,
                   data, queries, scans, llm, late, verdict>>

Expand ==
    /\ Turn("EXPAND")
    /\ Adding(ExpandExpectations(Queue[1]))
    /\ expand' = Tail(Queue)
    /\ UNCHANGED <<hypStatus, reqStatus, cover, pivots, controls, discovered,
                   pivotsDone, data, queries, scans, llm, late, verdict>>

\* A sweep of the population; an empty one is asked again as a plain scan.
Sweep == Results(Rows)

\* Every host found so far gets its expectations, tested ones included.
Promoted(new) == BoundExpectations("initial", new)

Discover ==
    /\ Turn("DISCOVER")
    /\ \E result \in Sweep :
         LET hosts == HostsIn(result.rows)
             named == discovered \cup hosts
             new   == IF result.rows = {} THEN << >> ELSE SetToSeq(named)
         IN  /\ cellState' = [cellState EXCEPT ![NoEntity] = CellAfter(result.how)]
             /\ incomplete' = (incomplete \/ result.how # "complete")
             /\ discovered' = named
             /\ pivots' = Extended(pivots, LeadsIn(result.rows, cells),
                                   Cardinality(Entities))
             /\ reqStatus' = [reqStatus EXCEPT ![Primary] = "EXECUTED"]
             /\ \/ /\ HasAnalyst /\ hosts # {} /\ phase' = "declined"
                   /\ UNCHANGED <<expectations, testStatus, cells>>
                \/ /\ phase' = phase
                   /\ cells' = cells \o Kept(new, Entities \ Range(cells))
                   /\ Adding(Promoted(new))
    /\ scans' = scans + 1 /\ queries' = queries + 1
    /\ expand' = Queue
    /\ UNCHANGED <<hypStatus, controls, pivotsDone, ledger, cardKind, llm, late, decision>>

Pivot ==
    /\ Turn("PIVOT")
    /\ LET e == pivots[1]
       IN  /\ cells' = IF e \in Range(cells) THEN cells ELSE Append(cells, e)
           /\ Adding(BoundExpectations("pivot", <<e>>))
    /\ pivots' = Tail(pivots) /\ pivotsDone' = pivotsDone + 1
    /\ expand' = Queue
    /\ UNCHANGED <<hypStatus, reqStatus, cellState, controls, discovered, data,
                   queries, scans, llm, late, verdict>>

\* Refining asks the evaluator and counts a call, whether or not it made one.
Refine ==
    /\ Turn("REFINE")
    /\ llm' = llm + 1 /\ expand' = Queue
    /\ UNCHANGED <<work, cover, pivots, controls, discovered, pivotsDone, data,
                   queries, scans, late, verdict>>

-----------------------------------------------------------------------------
(* Stopping (evaluate_stopping, for a hunt that no claim graph governs).   *)

\* The web-compromise guard weakens what was supported without the chain.
\* Here r.id in h.requirements is the bound pair of the two.
Guarded ==
    LET kinds == {cardKind[g] : g \in CardsOf(ledger)}
        asksWeb(h) == \E i \in DOMAIN BoundPairs :
            BoundPairs[i][1] = h /\ EvidenceType[BoundPairs[i][2]] = "web"
        whole == {"web", "process", "file"} \subseteq kinds /\ ChainHolds(ledger, cardKind)
    IN  [h \in Hypotheses |->
           IF asksWeb(h) /\ ~whole /\ hypStatus[h] = "SUPPORTED"
           THEN "WEAKENED" ELSE hypStatus[h]]

Disposition(hs) ==
    LET some(S) == \E h \in Hypotheses : hs[h] \in S
        concluded == /\ expectations # << >>
                     /\ \A x \in Range(expectations) :
                          testStatus[x] \in {"confirmed", "refuted", "untestable"}
        unseen == \E e \in Range(cells) : cellState[e] = "unexplored"
    IN  IF incomplete THEN "STOP_INCONCLUSIVE_COVERAGE_GAP"
        ELSE IF some({"LIVE", "WEAKENED"}) \/ ~concluded THEN "STOP_BOUNDED"
        ELSE IF some({"SUPPORTED"}) THEN IF unseen THEN "STOP_BOUNDED" ELSE "STOP_RESOLVED"
        ELSE IF some({"REFUTED"}) THEN "STOP_REFUTED"
        ELSE "STOP_BOUNDED"

StopWith(d) ==
    /\ hypStatus' = Guarded /\ decision' = d
    /\ expand' = Queue
    /\ UNCHANGED <<expectations, testStatus, reqStatus, cover, pivots, controls,
                   discovered, pivotsDone, data, queries, scans, llm, phase>>

Stop == Turn("STOP") /\ late' = late /\ StopWith(Disposition(Guarded))

\* The runtime ends between the check of the turn and that of select_action.
StopLate ==
    Turn(Selected) /\ late' = TRUE /\ StopWith("STOP_EXHAUSTED_BY_BUDGET")

\* A turn that finds a budget used up ends the hunt there and then.
Exhaust ==
    /\ phase = "hunting" /\ decision = "none"
    /\ turn' = turn + 1 /\ IsExhausted(turn')
    /\ decision' = "STOP_EXHAUSTED_BY_BUDGET"
    /\ UNCHANGED <<work, cover, queues, data, queries, scans, llm, late, phase>>

\* The analyst authorizes the report or declines it.
Report ==
    /\ phase = "hunting" /\ decision # "none"
    /\ phase' \in {"reported"} \cup (IF HasAnalyst THEN {"declined"} ELSE {})
    /\ UNCHANGED <<work, cover, queues, data, budget, decision>>

\* The clock of the runtime budget runs on its own.
RunLate ==
    /\ phase = "hunting" /\ decision = "none" /\ ~late
    /\ late' = TRUE
    /\ UNCHANGED <<work, cover, queues, data, turn, queries, scans, llm, verdict>>

Iterate ==
    \/ TestUntestable \/ TestQuery \/ Control \/ Expand \/ Discover \/ Pivot
    \/ Refine \/ Stop \/ Exhaust \/ Report
Next == Iterate \/ RunLate \/ StopLate

Spec == Init /\ [][Next]_vars
\* The loop is sequential code that never waits: it keeps iterating.
FairSpec == Spec /\ WF_vars(Iterate)
=============================================================================
