---------------------- MODULE CapabilityPhaseProperties ----------------------
(***************************************************************************)
(* What the phase before the first query must keep.                        *)
(***************************************************************************)
EXTENDS CapabilityPhase

Phases == {"idle", "lookup", "profile", "probe", "gate"}

\* Types of the state; a capability is cached under its own source and schema.
TypeOK ==
    /\ schema \in [Sources -> 1..MaxSchema]
    /\ \A k \in DOMAIN cache : k[1] = cache[k].source /\ k[2] = cache[k].schema
    /\ calls \in [{"profiler", "other"} -> 0..(MaxCalls + MaxHunts)] /\ hunts \in 0..MaxHunts
    /\ calls.profiler <= ProfilerLimit
    /\ phase \in Phases /\ graph \in Graphs /\ active \in Range(Providers)
    /\ DOMAIN profiles \subseteq {s \in Sources : Owner[s] = active}

\* An operation made at run time reads the fields that the census of this
\* hunt found, also when its capability was cached by an earlier hunt
\* (engine.py, key of the runtime capability cache).
OperationsAreCurrent ==
    \A i \in DOMAIN operations :
        operations[i].capability.schema = profiles[operations[i].capability.source]

\* What may prove a goal was probed, now or by the hunt that cached it, and
\* its roles are those of an approved contract, whatever the model proposed
\* (SourceMappingValidator.materialize).
ProofIsProbed ==
    \A i \in DOMAIN operations :
        LET c == operations[i].capability
        IN  /\ c \in probed \cup Range(cache)
            /\ c.proof => \E contract \in Contracts :
                  /\ contract.approved /\ contract.relation = c.relation
                  /\ contract.requires \subseteq Assigns[c.roles]

\* A goal could be tested if an operation, declared or made at run time, takes
\* its subject and the request or a goal of the plan gives it.
Given == graph.known \cup {plan.steps[i].output :
                            i \in {j \in DOMAIN plan.steps : plan.steps[j].goal # NoGoal}}
CouldTest(goal) ==
    \E o \in Candidates(graph, goal, Plannable) :
        \/ o.inputs = {}
        \/ Takes(o, graph.type[goal.subject]) /\ goal.subject \in Given

\* Whatever is out of reach, excluded, dropped or refused on the way, a hunt
\* goes on with what is left and with nothing else: a goal that could be
\* tested has its step and the plan is executed, however late in the list of
\* goals what it needs is planned; and a graph that has a goal is never
\* searched for (compose, and the ways on after the guards in execute_hunt).
GoesOnWithWhatIsLeft ==
    phase = "idle" /\ hunts > 0 /\ graph.kind = "native" /\ Guarded = NoStop =>
        /\ \A i \in DOMAIN graph.goals : CouldTest(graph.goals[i]) =>
              StepOf(plan, graph.goals[i].id) # {} /\ <<active, "plan">> \in queried
        /\ GoalIds(graph) # {} => <<active, "search">> \notin queried

\* From the subject of its goal to the input of a goal's step lead the steps
\* right before it, which were planned for no goal and each wait for the one
\* before it alone (compose): a goal is never tested on something found for
\* another.  A step waits for steps that give what it takes.
LeadsFrom(steps, i, var) ==
    \E k \in 1..i :
        /\ steps[k].input = var
        /\ \A j \in k..(i - 1) : steps[j].goal = NoGoal /\ steps[j + 1].needs = {j}
RoutesStartAtSubject ==
    \A i \in DOMAIN plan.steps :
        /\ \A j \in plan.steps[i].needs :
              j \in 1..(i - 1) /\ plan.steps[j].output = plan.steps[i].input
        /\ plan.steps[i].goal # NoGoal =>
              /\ LeadsFrom(plan.steps, i, GoalOf(graph, plan.steps[i].goal).subject)
              /\ StepOf(plan, plan.steps[i].goal) = {i}
              /\ plan.steps[i].goal \notin plan.unresolved
=============================================================================
