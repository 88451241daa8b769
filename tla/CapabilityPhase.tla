--------------------------- MODULE CapabilityPhase ---------------------------
(***************************************************************************)
(* What a hunt does before its first query (engine.py, execute_hunt): the  *)
(* census of the providers, the choice of one, the cache of capabilities,  *)
(* the profiling of its sources by a language model, one call per goal and *)
(* batch of sources, the probing of what the model proposes, the plan, and *)
(* which of the ways to query the hunt goes.                               *)
(*                                                                         *)
(* One engine runs hunts one after the other: the cache and the counter of *)
(* model calls outlive a hunt, and so do the sources, whose schema changes *)
(* at any time.                                                            *)
(***************************************************************************)
EXTENDS GoalPlanner

CONSTANTS
    Providers,    \* in the order of the configuration
    Owner,        \* source -> its provider
    Graphs,       \* requests: a graph of goals and kind, "native", "claims"
                  \* or "text"
    Declared,     \* provider -> the operations of its descriptor
    Hints,        \* sets of providers a request may be confined to
    Censuses,     \* provider -> what a census may find
    Contracts,    \* proof contracts: [relation, requires, approved]
    Assigns,      \* ways to assign the fields of a source -> the roles they give
    Supports,     \* the same ways -> restrictions the model says they support
    ProfilerLimit, MaxCalls,  \* model calls: of the profiler, of the session
    BatchSize, MaxSchema, MaxHunts,
    NotCached

Sources   == DOMAIN Owner
Roles     == DOMAIN Supports
Relations == UNION {{g.goals[i].relation : i \in DOMAIN g.goals} : g \in Graphs}

Statuses == {"ONLINE", "UNSUPPORTED", "UNREACHABLE"}

ASSUME PhaseAssumption ==
    /\ DOMAIN Assigns = DOMAIN Supports /\ Censuses \subseteq [Range(Providers) -> Statuses]
    /\ Owner \in [Sources -> Range(Providers)] /\ DOMAIN Declared = Range(Providers)
    /\ Hints \subseteq SUBSET Range(Providers)
    /\ \A g \in Graphs : Len(g.goals) \in Nat /\ DOMAIN g.goals = 1..Len(g.goals)
    /\ ProfilerLimit \in Nat /\ MaxCalls \in Nat /\ BatchSize \in Nat \ {0}
    /\ MaxSchema \in Nat \ {0} /\ MaxHunts \in Nat

\* SemanticGoalGraph refuses two goals of one id.
ASSUME GoalsAssumption ==
    \A g \in Graphs : \A i, j \in DOMAIN g.goals :
        g.goals[i].id # NoGoal /\ (g.goals[i].id = g.goals[j].id => i = j)

ASSUME ProvidersAssumption ==
    /\ Providers \in Seq(Range(Providers)) /\ Providers # << >>
    /\ \A p \in Range(Providers) : Declared[p] \in Seq(Range(Declared[p]))

VARIABLES
    schema,       \* source -> version of its fields
    cache,        \* <<source, schema, goal>> -> capability
    calls,        \* component -> model calls of the session
    hunts,
    phase,
    graph, hints,
    status,       \* provider -> what the census found
    active,       \* the provider of the hunt
    profiles,     \* source of the active provider -> its schema in the census
    profiling,    \* positions of the goals that the descriptor cannot prove
    hits,         \* <<source, relation>> -> cached capability
    todo,         \* batches that are still to be profiled
    proposals,
    operations,   \* runtime operations: proposal, capability
    probed,       \* history: capabilities whose probe succeeded
    plan,
    queried,      \* <<provider, why>>: a probe, the plan, the claims or a search
    stop

world == <<schema>>
kept  == <<cache, calls, hunts>>
hunt  == <<graph, hints, status, active, profiles, profiling>>
vars  == <<world, kept, phase, hunt, hits, todo, proposals, operations, probed,
           plan, queried, stop>>

Some(S)  == CHOOSE x \in S : TRUE
NoStop   == "none"

Init ==
    /\ schema = [s \in Sources |-> 1] /\ cache = << >>
    /\ calls = [profiler |-> 0, other |-> 0] /\ hunts = 0
    /\ phase = "idle" /\ graph = Some(Graphs) /\ hints = {}
    /\ status = [p \in Range(Providers) |-> "ONLINE"] /\ active = Providers[1]
    /\ profiles = << >> /\ profiling = {} /\ hits = << >> /\ todo = 0
    /\ proposals = << >> /\ operations = << >> /\ probed = {}
    /\ plan = NoPlan /\ queried = {} /\ stop = NoStop

\* The fields of a source change.
Drift(s) ==
    /\ schema[s] < MaxSchema
    /\ schema' = [schema EXCEPT ![s] = @ + 1]
    /\ UNCHANGED <<kept, phase, hunt, hits, todo, proposals, operations, probed,
                   plan, queried, stop>>

-----------------------------------------------------------------------------
(* Census and choice of a provider.                                        *)

\* _audit_without_claim and _audit_claim: online, in the hints if there are
\* any and, for claims, able to observe one.
Relevant(g, p) ==
    \/ g.kind # "claims"
    \/ \E o \in Range(Declared[p]), i \in DOMAIN g.goals : g.goals[i].relation \in o.relations
Selected(g, found, hinted) ==
    Kept(Providers, {p \in Range(Providers) : /\ found[p] = "ONLINE" /\ Relevant(g, p)
                                              /\ (hinted = {} \/ p \in hinted)})

\* The first that was selected, else the first that is configured.
Active(g, found, hinted) == Head(Selected(g, found, hinted) \o Providers)

\* Sources whose profile could be read; none of a provider out of reach.
Discovered(p, found) ==
    IF found[p] = "UNREACHABLE" THEN {{}}
    ELSE SUBSET {s \in Sources : Owner[s] = p}

Canonical(p) ==
    Kept(Declared[p], {o \in Range(Declared[p]) : ~o.legacy /\ o.relations # {}})
DescriptorPlan(g, p) == Compose(g, Canonical(p))
Assessed ==
    [g \in Graphs, p \in Range(Providers) |->
        LET composed == DescriptorPlan(g, p)
        IN  [id \in GoalIds(g) |-> Readiness(g, composed, Canonical(p), id)]]

\* Required goals that the descriptor cannot prove.
ProfilingOf(g, p) ==
    {i \in DOMAIN g.goals : /\ g.goals[i].required
                            /\ Assessed[g, p][g.goals[i].id] # "PROOF_CAPABLE"}

Begin(g, found, hinted) ==
    /\ phase = "idle" /\ hunts < MaxHunts
    /\ LET p == Active(g, found, hinted)
       IN  /\ active' = p /\ profiling' = ProfilingOf(g, p)
           /\ \E ss \in Discovered(p, found) : profiles' = [s \in ss |-> schema[s]]
    /\ phase' = "lookup" /\ hunts' = hunts + 1
    /\ graph' = g /\ status' = found /\ hints' = hinted
    /\ \E n \in 0..1 : calls' = [calls EXCEPT !.other = @ + n]
    /\ hits' = << >> /\ todo' = 0 /\ proposals' = << >> /\ operations' = << >>
    /\ probed' = {} /\ plan' = NoPlan /\ queried' = {} /\ stop' = NoStop
    /\ UNCHANGED <<schema, cache>>

-----------------------------------------------------------------------------
(* What has to be profiled.                                                *)

\* Mutant: the key has no fingerprint of the schema.
KeyOfSource(s, goal) == <<s, 1, goal>>

\* RuntimeCapabilityCache.key: the signature is the goal with its types.
Key(s, goal) == <<s, profiles[s], goal>>

\* Of the goals of one relation the last gives the key, and the requirement
\* that an operation is made for.
Same(at, relation)   == {i \in at : graph.goals[i].relation = relation}
LastOf(at, relation) == graph.goals[Max(Same(at, relation))]
Asked(relation)      == Same(profiling, relation) # {}

\* A goal of the relation whose capability for this source is cached; of
\* several the last counts.
IsCached(s, i) == Key(s, graph.goals[i]) \in DOMAIN cache
Hit(s, relation) ==
    LET found == {i \in Same(profiling, relation) : IsCached(s, i)}
    IN  IF found = {} THEN NotCached ELSE cache[Key(s, graph.goals[Max(found)])]

Pairs == (DOMAIN profiles) \X Relations
Missing == \E s \in DOMAIN profiles, i \in profiling : ~IsCached(s, i)

\* A capability from the cache is proposed once for every goal it is of.
CachedProposals ==
    LET found == {f \in (DOMAIN profiles) \X profiling : IsCached(f[1], f[2])}
        proposal(f) == cache[Key(f[1], graph.goals[f[2]])]
    IN  FoldSet(LAMBDA f, made : Append(made, [source |-> proposal(f).source,
                    relation |-> proposal(f).relation, roles |-> proposal(f).roles]),
                << >>, found)

TotalCalls == calls.profiler + calls.other
IsExhausted == TotalCalls >= MaxCalls

\* CapabilityBatcher: every source is in a batch, whatever its score, once
\* for every goal.
BatchCount == (Cardinality(DOMAIN profiles) + BatchSize - 1) \div BatchSize
Batches == Cardinality(profiling) * BatchCount

Profiles == Missing /\ ~IsExhausted

Lookup ==
    /\ phase = "lookup"
    /\ hits' = [p \in {q \in Pairs : Hit(q[1], q[2]) # NotCached} |-> Hit(p[1], p[2])]
    /\ proposals' = CachedProposals
    /\ todo' = IF Profiles THEN Batches ELSE 0
    /\ phase' = IF Profiles THEN "profile" ELSE "probe"
    /\ UNCHANGED <<world, kept, hunt, operations, probed, plan, queried, stop>>

-----------------------------------------------------------------------------
(* Profiling: one call of the model per goal and batch.                    *)

Proposal == [source : DOMAIN profiles, relation : Relations, roles : Roles]

Ends(made, called) ==
    /\ proposals' = proposals \o made
    /\ calls' = [calls EXCEPT !.profiler = @ + called]
    /\ todo' = todo - 1 /\ phase' = IF todo = 1 THEN "probe" ELSE phase
    /\ UNCHANGED <<world, cache, hunts, hunt, hits, operations, probed, plan, queried, stop>>

\* Too many calls, or a prompt that does not fit: nothing is sent.
Refuse == phase = "profile" /\ Ends(<< >>, 0)

MayCall == phase = "profile" /\ ~IsExhausted /\ calls.profiler < ProfilerLimit

\* The call times out, fails, or does not answer with proposals.
CallFails == MayCall /\ Ends(<< >>, 1)

\* The model may propose any relation, for any source of the census; what
\* names a source or a field that is not there is dropped.
Propose ==
    /\ MayCall
    /\ \/ Ends(<< >>, 1)
       \/ \E p \in Proposal : Ends(<<p>>, 1)

-----------------------------------------------------------------------------
(* Probing, and operations made of what was proposed.                      *)

\* validate_capability_conformance, find_matching_contract
Conforms(contract, p) ==
    /\ contract.approved /\ contract.relation = p.relation
    /\ contract.requires \subseteq Assigns[p.roles]
HasContract(p) == \E contract \in Contracts : Conforms(contract, p)

\* Mutant: the proof mode is the one that was proposed.
CapabilityTrusting(p) ==
    [source |-> p.source, relation |-> p.relation, roles |-> p.roles,
     schema |-> profiles[p.source], proof |-> TRUE]

Capability(p) ==
    [source |-> p.source, relation |-> p.relation, roles |-> p.roles,
     schema |-> profiles[p.source], proof |-> HasContract(p)]

\* materialize_runtime_operation: identity and proof mode of the capability,
\* fields of the proposal.
Operation(p, capability) ==
    LET goal == LastOf(DOMAIN graph.goals, p.relation)
    IN  [id |-> <<capability.source, capability.schema, p.relation>>, capability |-> capability,
         roles |-> p.roles, goal |-> goal.id]

Drop(more) ==
    /\ proposals' = Tail(proposals)
    /\ operations' = operations \o more
    /\ UNCHANGED <<world, hunts, calls, phase, hunt, hits, todo, plan, stop>>

Concerns(p) == \E i \in DOMAIN graph.goals : graph.goals[i].relation = p.relation
Proposed == phase = "probe" /\ proposals # << >>
NeedsProbe(p) == Concerns(p) /\ <<p.source, p.relation>> \notin DOMAIN hits

\* Not of this graph, or refused by the validator: no probe is sent.
Reject ==
    /\ Proposed /\ (Concerns(Head(proposals)) => NeedsProbe(Head(proposals)))
    /\ Drop(<< >>)
    /\ UNCHANGED <<cache, probed, queried>>

\* A cached capability answers for every proposal of its source and relation.
Reuse ==
    /\ Proposed /\ Concerns(Head(proposals))
    /\ LET p == Head(proposals)
       IN  /\ <<p.source, p.relation>> \in DOMAIN hits
           /\ Drop(<<Operation(p, hits[<<p.source, p.relation>>])>>)
    /\ UNCHANGED <<cache, probed, queried>>

Probe == /\ Proposed /\ NeedsProbe(Head(proposals))
         /\ queried' = queried \cup {<<active, "probe">>}

\* The probe fails, finds no row or finds more rows than it may return.
ProbeFails == Probe /\ Drop(<< >>) /\ UNCHANGED <<cache, probed>>

\* Stored over an older one of its key.
Cached(key, capability) ==
    [k \in DOMAIN cache \cup {key} |-> IF k = key THEN capability ELSE cache[k]]

\* The probe names the fields that were mapped, as the census found them.  The
\* schema may have changed since and left these in place: the capability is
\* recorded under the census all the same.
ProbeSucceeds ==
    /\ Probe
    /\ LET p == Head(proposals)
           key == Key(p.source, LastOf(profiling, p.relation))
       IN  /\ Drop(<<Operation(p, Capability(p))>>)
           /\ probed' = probed \cup {Capability(p)}
           /\ cache' = IF Asked(p.relation) THEN Cached(key, Capability(p)) ELSE cache

-----------------------------------------------------------------------------
(* The plan, and how the hunt goes on.                                     *)

TypeOf(o, end) ==
    LET goal == GoalOf(graph, o.goal)
    IN  graph.type[IF end = "subject" THEN goal.subject ELSE goal.object]

\* A runtime operation as the planner sees it.
AsPlanned(o, rank) ==
    [id |-> rank, relations |-> {o.capability.relation}, inputs |-> {TypeOf(o, "subject")},
     outputs |-> <<TypeOf(o, "object")>>, supports |-> Supports[o.capability.roles], cost |-> 1,
     proof |-> o.capability.proof, scoped |-> TRUE, legacy |-> FALSE]

\* Of operations with one id the last counts.
Runtime ==
    LET last == Kept([i \in DOMAIN operations |-> i], {i \in DOMAIN operations :
                    \A j \in DOMAIN operations : operations[j].id = operations[i].id => j <= i})
    IN  [n \in DOMAIN last |-> AsPlanned(operations[last[n]], 100 + last[n])]
Plannable == Kept(Declared[active], {o \in Range(Declared[active]) : ~o.legacy}) \o Runtime

MakePlan ==
    /\ phase = "probe" /\ proposals = << >>
    /\ plan' = IF graph.kind = "text" THEN NoPlan ELSE Compose(graph, Plannable)
    /\ phase' = "gate"
    /\ UNCHANGED <<world, kept, hunt, hits, todo, proposals, operations, probed,
                   queried, stop>>

IsSelected == Selected(graph, status, hints) # << >>
AnyOnline  == \E p \in Range(Providers) : status[p] = "ONLINE"

\* The guards before the first query.
Guarded ==
    CASE graph.kind = "claims" /\ ~IsSelected /\ AnyOnline -> "STOP_UNSUPPORTED_CAPABILITY"
      [] graph.kind = "claims" /\ ~IsSelected -> "STOP_UNREACHABLE"
      [] status[active] # "ONLINE" -> "STOP_UNREACHABLE"
      [] OTHER -> NoStop

Goes(stopped, queries) ==
    /\ phase = "gate" /\ phase' = "idle"
    /\ stop' = stopped /\ queried' = queried \cup queries
    /\ UNCHANGED <<world, kept, hunt, hits, todo, proposals, operations, probed, plan>>

Guard == Guarded # NoStop /\ Goes(Guarded, {})

\* The plan is executed as far as it goes; the plan executor always stops.
Execute ==
    /\ Guarded = NoStop /\ graph.kind = "native" /\ plan.steps # << >>
    /\ \E verdict \in {"STOP_RESOLVED", "STOP_NEEDS_USER_DECISION",
                       "STOP_INCONCLUSIVE_COVERAGE_GAP",
                       "STOP_INCONCLUSIVE_RELATION_UNPROVEN"} :
          Goes(verdict, {<<active, "plan">>})

\* Without a step to take the hunt stops instead of searching everything.
Decline ==
    /\ Guarded = NoStop /\ graph.kind = "native"
    /\ plan.steps = << >> /\ plan.unresolved # {}
    /\ Goes("STOP_UNSUPPORTED_CAPABILITY", {})

\* Claims go to the claim loop; a text is searched for, by content, schema
\* and adaptively chosen operations.  So is a graph whose plan has no step
\* and nothing unresolved, which neither of the ways above takes.
Claims == Guarded = NoStop /\ graph.kind = "claims" /\ Goes(NoStop, {<<active, "claims">>})
FallsThrough == graph.kind = "native" /\ plan.steps = << >> /\ plan.unresolved = {}
Search ==
    /\ Guarded = NoStop /\ (graph.kind = "text" \/ FallsThrough)
    /\ Goes(NoStop, {<<active, "search">>})

Request == \E g \in Graphs, h \in Hints, found \in Censuses :
               Begin(g, found, h)
Step ==
    \/ Lookup \/ Refuse \/ CallFails \/ Propose
    \/ Reject \/ Reuse \/ ProbeFails \/ ProbeSucceeds
    \/ MakePlan \/ Guard \/ Execute \/ Decline \/ Claims \/ Search
Next == Request \/ Step \/ \E s \in Sources : Drift(s)

Spec == Init /\ [][Next]_vars
=============================================================================
