----------------------------- MODULE MCHuntRun -----------------------------
(***************************************************************************)
(* Two runs, a request that names a person and one that names a host, and  *)
(* replies of the model that are good, invented, circular, leaking,        *)
(* unfinished, or tell a story around the answer.                          *)
(***************************************************************************)
EXTENDS HuntRunProperties, TLC

CONSTANTS alice, bob, web1, macbook, none, nogoal

Var(type, value, origin) ==
    [type |-> type, value |-> value, origin |-> origin, restricted |-> FALSE]
Goal(from, to, needs) == [from |-> from, to |-> to, needs |-> needs, gate |-> "and"]
NoQualifier == [q \in {} |-> nogoal]

\* alice -> a host -> a domain, the answer.
Whole == [vars    |-> [s |-> Var("person", alice, "request"),
                       h |-> Var("host", none, "llm_proposal"),
                       d |-> Var("domain", none, "llm_proposal")],
          last    |-> "d",
          goals   |-> [g1 |-> Goal("s", "h", {}), g2 |-> Goal("h", "d", {"g1"})],
          quals   |-> [q |-> "g2"],
          answers |-> {"d"},
          spl     |-> FALSE]

Single  == [Whole EXCEPT !.goals = [g1 |-> Goal("s", "d", {})], !.quals = NoQualifier]
Story(needs) ==
    [Whole EXCEPT !.vars  = @ @@ [x |-> Var("person", none, "llm_proposal"),
                                  y |-> Var("value", none, "llm_proposal")],
                  !.goals = @ @@ [g3 |-> Goal("x", "y", needs)]]

\* The last three may be executed, the others may not.
MCProposals ==
    {[Whole EXCEPT !.spl = TRUE],
     [Single EXCEPT !.quals = [q |-> nogoal]],
     [Whole EXCEPT !.vars.s.value = bob],
     [Whole EXCEPT !.goals.g1.needs = {"g2"}],
     [Whole EXCEPT !.goals.g2.gate = "open"],
     Story({"g1"}),
     Whole,
     [Whole EXCEPT !.vars.s.origin = "llm_proposal", !.vars.h.value = web1],
     [Story({}) EXCEPT !.vars.h.value = macbook, !.vars.h.origin = "request"]}

MCRequests == {[text |-> {alice, macbook}, entities |-> {}],
               [text |-> {}, entities |-> {<<"host", web1>>, <<"account", alice>>}]}

MCDeviceWords == {macbook}
MCHostTypes   == {"host", "endpoint"}
MCSeedTypes   == {"person", "host", "domain"}

MCTemplated == {"process", "baseline"}
MCQuestions == [cve        |-> {<<"process", "baseline">>},
                ttp        |-> {<<"process", "process">>},
                structured |-> {<<"custom", "custom">>}]

MCPromptSize == [compiler |-> 3, source_profiler |-> 2, planner |-> 1, evaluator |-> 2,
                 evaluator_refine |-> 1]
MCLimits     == [compiler |-> 2, source_profiler |-> 2, planner |-> 1, evaluator |-> 1]
MCUsages     == {0, 6}
=============================================================================
