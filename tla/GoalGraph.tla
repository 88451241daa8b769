----------------------------- MODULE GoalGraph -----------------------------
(***************************************************************************)
(* From what a model replies to a graph of semantic goals that may be      *)
(* executed: compiler/compiler.py parses it, contracts/semantic_graph.py   *)
(* refuses a graph that does not hold together,                            *)
(* validator/investigation_validator.py takes values and goals away that   *)
(* the request does not carry, and the compiler marks the values that the  *)
(* request grounds.                                                        *)
(*                                                                         *)
(* A proposal is a record                                                  *)
(*   vars     variable -> [type, value, origin, restricted], restricted    *)
(*            when a constraint of the variable repeats its value          *)
(*   last     the variable named last                                      *)
(*   goals    goal -> [from, to, needs, gate], gate one of the strings     *)
(*            "and", "conditional" and "open", the last a gate without     *)
(*            its condition.  needs is the effective table: a goal's entry *)
(*            in the reply's own table of dependencies, and what the       *)
(*            relation lists only where that table has none; likewise gate *)
(*   quals    qualifier -> the goal it restricts, or NoGoal                *)
(*   answers  the variables of answers and answer contracts                *)
(*   spl      whether some text holds a native query                       *)
(* and a request is a record [text, entities]: the values its text         *)
(* contains and pairs <<kind, value>> that the analyst named.              *)
(***************************************************************************)
EXTENDS FiniteSets, Functions

CONSTANTS
    NoValue,      \* a variable without a value
    NoGoal,       \* a qualifier whose target is omitted
    DeviceWords,  \* "macbook", "laptop", ...: DEVICE_QUALIFIER_TERMS
    HostTypes,    \* "host", "endpoint", "computer"
    SeedTypes     \* "person", "account", "host", "domain", "ip", "email_address"

ASSUME DataAssumption == /\ NoValue \notin DeviceWords
                         /\ SeedTypes \cap HostTypes # {}

Origins == {"request", "llm_proposal", "provider_observation"}

Vars(p)   == DOMAIN p.vars
Goals(p)  == DOMAIN p.goals
Ends(p, g) == {p.goals[g].from, p.goals[g].to}

-----------------------------------------------------------------------------
(* Parsing.                                                                *)

\* _validate_semantic_graph_shape: a qualifier names its target.
ShapeOK(p) == \A q \in DOMAIN p.quals : p.quals[q] # NoGoal

\* A single goal is the target of a qualifier that names none.
Normalized(p) ==
    LET target(q) == IF p.quals[q] = NoGoal /\ Cardinality(Goals(p)) = 1
                     THEN CHOOSE g \in Goals(p) : TRUE
                     ELSE p.quals[q]
    IN  [p EXCEPT !.quals = [q \in DOMAIN p.quals |-> target(q)]]

\* SemanticGoalGraph.__post_init__.  The table of dependencies is filled
\* when the graph is first built and kept by every copy.
HoldsTogether(p, dependencies) ==
    /\ \A g \in Goals(p) : Ends(p, g) \subseteq Vars(p)
    /\ Range(p.quals) \subseteq Goals(p)
    /\ p.answers \subseteq Vars(p)
    /\ \A g \in DOMAIN dependencies :
            dependencies[g] # {} => {g} \cup dependencies[g] \subseteq Goals(p)

Dependencies(p) == [g \in Goals(p) |-> p.goals[g].needs]

Leaks(p) == p.spl

Parses(p) ==
    /\ ~Leaks(p)
    /\ ShapeOK(p)
    /\ Vars(p) # {} /\ Goals(p) # {}
    /\ HoldsTogether(Normalized(p), Dependencies(p))

-----------------------------------------------------------------------------
(* Validation.                                                             *)

Named(request, value) ==
    value \in request.text \/ \E e \in request.entities : e[2] = value

\* A device is a restriction of a host, never its name.
IsDevice(v) == v.type \in HostTypes /\ v.value \in DeviceWords
\* Mutant: a device that is said to be the request's keeps its value.
DemoteProposed(v) == IF IsDevice(v) /\ v.origin # "request" THEN [v EXCEPT !.value = NoValue]
                     ELSE v

Demote(v) == IF IsDevice(v) THEN [v EXCEPT !.value = NoValue, !.origin = "llm_proposal",
                                           !.restricted = FALSE]
             ELSE v

\* A person, and a value said to be the request's, is in the request.
Invented(request, v) ==
    /\ v.value # NoValue /\ ~IsDevice(v)
    /\ v.type \in {"person", "user"} \/ v.origin = "request"
    /\ ~Named(request, v.value)

Cyclic(dependencies) ==
    \E goals \in SUBSET DOMAIN dependencies :
        goals # {} /\ \A g \in goals : dependencies[g] \cap goals # {}

\* Mutant: goals may need each other.
RejectedInvented(request, p) ==
    \/ \E x \in Vars(p) : Invented(request, p.vars[x])
    \/ \E g \in Goals(p) : p.goals[g].gate = "open"

Rejected(request, p) ==
    \/ \E x \in Vars(p) : Invented(request, p.vars[x])
    \/ Cyclic(Dependencies(p))
    \/ \E g \in Goals(p) : p.goals[g].gate = "open"

\* What goals connect to an answer, whichever way they point.
Targets(p) == IF p.answers = {} THEN {p.last} ELSE p.answers
Relevant(p) ==
    LET Closed(S) == \A g \in Goals(p) : Ends(p, g) \cap S # {} => Ends(p, g) \subseteq S
    IN  {x \in Vars(p) : \A S \in SUBSET Vars(p) :
                            Targets(p) \subseteq S /\ Closed(S) => x \in S}

Useful(p) == {g \in Goals(p) : Ends(p, g) \cap Relevant(p) # {}}
Kept(p)   == IF Useful(p) = {} THEN Goals(p) ELSE Useful(p)

Validated(p) ==
    [p EXCEPT !.vars  = [x \in Vars(p) |-> Demote(p.vars[x])],
              !.goals = Restrict(p.goals, Kept(p)),
              !.quals = Restrict(p.quals, {q \in DOMAIN p.quals : p.quals[q] \in Kept(p)})]

-----------------------------------------------------------------------------
(* Grounding.                                                              *)

\* _mark_request_grounded_values
Explicit(request, v) ==
    IF v.type = "person" THEN v.value \in request.text /\ ~v.restricted
                         ELSE <<v.type, v.value>> \in request.entities
Grounded(request, v) ==
    IF v.value = NoValue \/ v.origin # "llm_proposal" THEN v
    ELSE IF IsDevice(v) THEN [v EXCEPT !.value = NoValue]
    ELSE IF v.type \in SeedTypes /\ Explicit(request, v) THEN [v EXCEPT !.origin = "request"]
    ELSE v
MarkGrounded(request, p) ==
    [p EXCEPT !.vars = [x \in Vars(p) |-> Grounded(request, p.vars[x])]]

-----------------------------------------------------------------------------
(* The reply of the model becomes a graph, or the request stays            *)
(* insufficiently specified.                                               *)

Compiles(request, p) ==
    /\ Parses(p)
    /\ ~Rejected(request, Normalized(p))
    /\ HoldsTogether(Validated(Normalized(p)), Dependencies(p))
Graph(request, p) == MarkGrounded(request, Validated(Normalized(p)))

\* The values execution starts from.
Seeds(g) == {x \in Vars(g) : g.vars[x].origin = "request" /\ g.vars[x].value # NoValue}
=============================================================================
