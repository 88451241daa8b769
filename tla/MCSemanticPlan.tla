--------------------------- MODULE MCSemanticPlan ---------------------------
(***************************************************************************)
(* Small instances of SemanticPlan: three operations, four variables, and  *)
(* the shapes of plan the planner composes.                                *)
(***************************************************************************)
EXTENDS SemanticPlanProperties

CONSTANTS x, y, z, u, v1, v2, v3

\* A relation with a two-stage policy, one that reads a single page, and one
\* that only retrieves.
MCOperations ==
    [lookup |-> [observable |-> TRUE, supports |-> {"state"}, paged |-> TRUE,
                 stages |-> <<"narrow", "base_relation">>, attempts |-> 2],
     events |-> [observable |-> TRUE, supports |-> {"role"}, paged |-> FALSE,
                 stages |-> <<"narrow">>, attempts |-> 1],
     hints  |-> [observable |-> FALSE, supports |-> {}, paged |-> FALSE,
                 stages |-> <<"narrow">>, attempts |-> 1]]

LOCAL Do(op, alts, in, out, deps, keys, goal) ==
    [op |-> op, alts |-> alts, input |-> in, output |-> out, deps |-> deps,
     keys |-> keys, goal |-> goal]
LOCAL By(who, vals) == [by |-> who, values |-> vals]
LOCAL From(one, who, vals) ==
    [w \in Variables |-> IF w = one THEN By(who, vals) ELSE By("nobody", << >>)]

\* x leads to y, y to z, z to u.
Chain3 ==
    [steps |-> <<Do("events", <<"hints">>, x, y, {}, {}, "none"),
                 Do("lookup", <<"events">>, y, z, {1}, {"state", "role"}, "required"),
                 Do("hints", << >>, z, u, {2}, {}, "optional")>>,
     given |-> From(x, "request", <<v1>>), gap |-> FALSE]

\* Two goals about the same subject, answered by the same operations.
Twins ==
    [steps |-> <<Do("lookup", <<"events">>, x, y, {}, {"state"}, "required"),
                 Do("lookup", <<"events">>, x, z, {}, {"state"}, "required")>>,
     given |-> From(x, "request", <<v1>>), gap |-> FALSE]

\* Two goals with the same object.
Shared ==
    [steps |-> <<Do("hints", << >>, x, z, {}, {}, "required"),
                 Do("events", << >>, x, z, {}, {}, "required")>>,
     given |-> From(x, "user", <<v1, v2>>), gap |-> FALSE]

\* The request names the object of the first goal as well.
Named ==
    [steps |-> <<Do("lookup", << >>, x, y, {}, {}, "required"),
                 Do("events", << >>, y, z, {1}, {}, "required")>>,
     given |-> [From(x, "request", <<v1>>) EXCEPT ![y] = By("request", <<v2>>)],
     gap   |-> FALSE]

\* The run after the user chose a value for y; one goal has no step.
Resumed ==
    [Named EXCEPT !.given = [@ EXCEPT ![y] = By("user", <<v2>>)], !.gap = TRUE]

\* More values than the executor fans out to, and an input nobody provides.
Wide ==
    [steps |-> <<Do("lookup", << >>, x, y, {}, {}, "required"),
                 Do("events", << >>, y, z, {1}, {}, "required"),
                 Do("events", << >>, u, z, {}, {}, "required")>>,
     given |-> From(x, "user", <<v1, v2, v3>>), gap |-> FALSE]

MCPlans == {Chain3, Twins, Shared, Named, Resumed, Wide}
MCRowLists == {<< >>, <<NoValue>>, <<v1>>, <<v2, v3>>}
=============================================================================
