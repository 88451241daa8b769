----------------------------- MODULE GoalPlanner -----------------------------
(***************************************************************************)
(* From a graph of semantic goals and the operations a provider declares   *)
(* to a plan of steps (planner/semantic_goal_planner.py), and what is to   *)
(* be expected of each step (planner/semantic_readiness.py).               *)
(*                                                                         *)
(* A graph is a record                                                     *)
(*   type   variable -> its entity type                                    *)
(*   known  the variables the request gives a value                        *)
(*   goals  goals in the order of the graph: [id, relation, subject,       *)
(*          object, keys, required]; keys are the restrictions that a      *)
(*          proof has to cover                                             *)
(* and an operation [id, relations, inputs, outputs, supports, cost,       *)
(* proof, scoped, legacy], where outputs are in the order of the           *)
(* descriptor and ids are ordered numbers.                                 *)
(***************************************************************************)
EXTENDS Integers, FiniteSets, Sequences, TLC, SequencesExt, FiniteSetsExt, Lists

CONSTANTS
    Synonyms,     \* sets of entity types that name the same layer
    NoGoal        \* a step on the way to a goal

ASSUME SynonymsAssumption == Synonyms \in SUBSET (SUBSET STRING)

\* _type_compatible
Compatible(a, b) == a = b \/ \E group \in Synonyms : {a, b} \subseteq group
Takes(o, t) == \E kind \in o.inputs : Compatible(t, kind)
Gives(o, t) == o.outputs = << >> \/ \E kind \in Range(o.outputs) : Compatible(t, kind)

GoalIds(graph) == {graph.goals[i].id : i \in DOMAIN graph.goals}
GoalOf(graph, g) == graph.goals[CHOOSE i \in DOMAIN graph.goals : graph.goals[i].id = g]

-----------------------------------------------------------------------------
(* Which operation, and by which way to its input.                         *)

\* Operations that declare the relation and its object; aliases only when
\* there is nothing else.
Candidates(graph, goal, ops) ==
    LET declared == {o \in Range(ops) : /\ goal.relation \in o.relations
                                        /\ Gives(o, graph.type[goal.object])}
        canonical == {o \in declared : ~o.legacy}
    IN  IF canonical = {} THEN declared ELSE canonical

\* More of the goal's restrictions supported, then cheaper, then narrower.
Width(o) == IF o.inputs = {} THEN 999 ELSE Cardinality(o.inputs)
Preferred(goal, o, q) ==
    LET Covers(p) == Cardinality(goal.keys \cap p.supports)
        key(p)    == <<Covers(q) - Covers(p), p.cost, Width(p), p.id>>
        other     == <<0, q.cost, Width(q), q.id>>
        first     == {i \in 1..4 : key(o)[i] # other[i]}
    IN  first = {} \/ key(o)[Min(first)] < other[Min(first)]
Best(goal, ready) == CHOOSE o \in ready : \A q \in ready : Preferred(goal, o, q)

\* A way is a sequence of operations, each taking what the one before
\* gives.  The search is breadth first: the first among the shortest.
Ordered(goal, ops) ==
    LET declaring == {o \in Range(ops) : goal.relation \in o.relations}
    IN  Kept(ops, declaring) \o Kept(ops, Range(ops) \ declaring)

\* Of two ways the shorter, then the one whose operations come first.
Before(u, w) ==
    \/ Len(u) < Len(w)
    \/ /\ Len(u) = Len(w)
       /\ LET apart == {i \in DOMAIN u : u[i] # w[i]}
          IN  apart = {} \/ u[Min(apart)] < w[Min(apart)]
FirstWay(ways) == CHOOSE w \in ways : \A v \in ways : Before(w, v)

\* The ways to a type by one operation more.
Onward(order, found, t) ==
    {Append(found[q[1]], q[2]) : q \in
        {p \in (DOMAIN found) \X (DOMAIN order) :
            Takes(order[p[2]], p[1]) /\ t \in Range(order[p[2]].outputs)}}
Farther(order, found) ==
    LET types == UNION {Range(o.outputs) : o \in Range(order)}
    IN  [t \in DOMAIN found \cup {u \in types : Onward(order, found, u) # {}} |->
           IF t \in DOMAIN found THEN found[t] ELSE FirstWay(Onward(order, found, t))]

\* The types within reach, with the first way to each; none of them has to
\* take an operation twice.
Origin(from) == [t \in {from} |-> << >>]
Ways(from, order) ==
    LET level[n \in 0..Len(order)] ==
            IF n = 0 THEN Origin(from) ELSE Farther(order, level[n - 1])
    IN  level[Len(order)]

NoWay == << >>
Arrivals(from, candidates, found) ==
    {found[t] : t \in {u \in DOMAIN found \ {from} : \E o \in candidates : Takes(o, u)}}
Operations(order, way) == [i \in DOMAIN way |-> order[way[i]]]
FindTypedPath(goal, from, candidates, ops) ==
    LET order == Ordered(goal, ops)
        ways  == Arrivals(from, candidates, Ways(from, order))
    IN  IF ways = {} THEN NoWay ELSE Operations(order, FirstWay(ways))

-----------------------------------------------------------------------------
(* The plan.                                                               *)

Intermediate(n) == "intermediate" \o ToString(n)

\* The step that made a variable last.
Made(steps, var) == {i \in DOMAIN steps : steps[i].output = var}
Needs(steps, var) == IF Made(steps, var) = {} THEN {} ELSE {Max(Made(steps, var))}

AddStep(steps, o, from, into, g, others) ==
    Append(steps, [op |-> o.id, input |-> from, output |-> into, goal |-> g,
                   needs |-> Needs(steps, from), others |-> others])

\* Mutant: progress is not noted.
AdvanceQuietly(s, goal, from, ready) ==
    LET o == Best(goal, ready)
    IN  [known |-> s.known \cup {goal.object}, left |-> s.left \ {goal.id}, moved |-> s.moved,
         steps |-> AddStep(s.steps, o, from, goal.object, goal.id,
                           {q.id : q \in ready \ {o}})]

Advance(s, goal, from, ready) ==
    LET o == Best(goal, ready)
    IN  [known |-> s.known \cup {goal.object}, left |-> s.left \ {goal.id}, moved |-> TRUE,
         steps |-> AddStep(s.steps, o, from, goal.object, goal.id,
                           {q.id : q \in ready \ {o}})]

\* Mutant: the way goes on from where the last one ended.
WalkOn(s, from, way) ==
    LET add(steps, o) ==
            AddStep(steps, o, IF steps = << >> THEN from ELSE Last(steps).output,
                    Intermediate(Len(steps) + 1), NoGoal, {})
        steps == FoldLeft(add, s.steps, way)
    IN  [s EXCEPT !.steps = steps,
                  !.known = @ \cup {steps[i].output : i \in DOMAIN steps}]

WalkStep(steps, o, from) ==
    AddStep(steps, o, from, Intermediate(Len(steps) + 1), NoGoal, {})
Walk(s, from, way) ==
    LET walked[i \in 0..Len(way)] ==
            IF i = 0 THEN s.steps
            ELSE LET steps == walked[i - 1]
                 IN  WalkStep(steps, way[i], IF i = 1 THEN from ELSE Intermediate(Len(steps)))
        steps == walked[Len(way)]
    IN  [known |-> s.known \cup {steps[i].output : i \in DOMAIN steps},
         left |-> s.left, moved |-> s.moved, steps |-> steps]

\* The goal at the end of a way, if an operation takes what the way gives.
Arrive(walked, goal, reached) ==
    IF reached = {} THEN walked
    ELSE Advance(walked, goal, Last(walked.steps).output, reached)
Follow(s, goal, candidates, way) ==
    IF way = NoWay THEN s
    ELSE Arrive(Walk(s, goal.subject, way), goal,
                {o \in candidates : Takes(o, Head(Last(way).outputs))})

\* One goal: an operation that takes its subject, or a way to one's input.
Consider(graph, ops, s, goal) ==
    LET from == graph.type[goal.subject]
        candidates == Candidates(graph, goal, ops)
        ready == {o \in candidates : o.inputs = {} \/ (Takes(o, from) /\ goal.subject \in s.known)}
    IN  IF goal.id \notin s.left THEN s
        ELSE IF ready # {} THEN Advance(s, goal, goal.subject, ready)
        ELSE Follow(s, goal, candidates, FindTypedPath(goal, from, candidates, ops))

\* Goals in their order, again while some goal was planned.
Unmoved(s) == [known |-> s.known, left |-> s.left, moved |-> FALSE, steps |-> s.steps]
Pass(graph, ops, s) ==
    LET passed[i \in 0..Len(graph.goals)] ==
            IF i = 0 THEN Unmoved(s)
            ELSE Consider(graph, ops, passed[i - 1], graph.goals[i])
    IN  IF ~s.moved THEN s ELSE passed[Len(graph.goals)]

Start(graph) ==
    [known |-> graph.known, left |-> GoalIds(graph), moved |-> TRUE, steps |-> << >>]
Compose(graph, ops) ==
    LET composed[n \in 0..(Len(graph.goals) + 1)] ==
            IF n = 0 THEN Start(graph) ELSE Pass(graph, ops, composed[n - 1])
        last == composed[Len(graph.goals) + 1]
    IN  [steps |-> last.steps, unresolved |-> last.left]

NoPlan == [steps |-> << >>, unresolved |-> {}]

-----------------------------------------------------------------------------
(* assess_semantic_readiness                                               *)

StepOf(plan, g) == {i \in DOMAIN plan.steps : plan.steps[i].goal = g}
Route(plan, g, ops) ==
    {o \in Range(ops) : \E i \in StepOf(plan, g) :
        o.id = plan.steps[i].op \/ o.id \in plan.steps[i].others}

ProofReady(goal, o) == o.scoped /\ o.proof /\ goal.keys \subseteq o.supports

\* One kind of gap is counted once, however many operations have it.
Readiness(graph, plan, ops, g) ==
    LET route == Route(plan, g, ops)
        gaps  == IF \E o \in route : ~o.scoped THEN 1 ELSE 0
    IN  CASE route = {} -> "CAPABILITY_GAP"
          [] \E o \in route : ProofReady(GoalOf(graph, g), o) -> "PROOF_CAPABLE"
          [] gaps > 0 /\ gaps = Cardinality(route) -> "CAPABILITY_GAP"
          [] OTHER -> "RETRIEVAL_CAPABLE"

=============================================================================
