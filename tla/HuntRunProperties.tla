------------------------- MODULE HuntRunProperties -------------------------
(***************************************************************************)
(* What a run promises of its model calls, of the graph it executes and of *)
(* the report file it leaves behind.                                       *)
(***************************************************************************)
EXTENDS HuntRun

\* The variables hold values of their types.
TypeOK ==
    /\ calls \in Seq(Records) /\ tokens \in Nat /\ requests \in Nat
    /\ call \in [by : Components \cup {"abduction", "nobody"},
                 attempt : 0..MaxAttempts, usage : Usages]
    /\ run \in 0..MaxRuns /\ stage \in Stages
    /\ output \in [run : 0..MaxRuns, kind : {"none", "report", "aborted", "playbook"}]
    /\ hunt.compiled \in {"no", "rules", "insufficient", "graph"}
    /\ hunt.gaps \in 0..MaxGaps /\ hunt.turn \in 0..MaxTurns /\ hunt.plans \subseteq Templated
    /\ \A b \in {hunt.queried, hunt.cards, hunt.judged, hunt.undecided, hunt.resumed,
               hunt.raised} :
            b \in BOOLEAN

-----------------------------------------------------------------------------
(* The graph.                                                              *)

Executing == hunt.compiled = "graph"

\* Every value that execution starts from stands in the request, and a word
\* for a device is never taken for the name of a host, whatever origin the
\* model gives its values (validator and _mark_request_grounded_values).
SeedsComeFromRequest ==
    Executing => \A x \in Seeds(hunt.graph) :
                    /\ Named(job.request, hunt.graph.vars[x].value)
                    /\ ~IsDevice(hunt.graph.vars[x])

\* What pruning leaves of a graph can still be executed: its goals need no
\* goal that was pruned and do not need each other in a circle, its
\* qualifiers restrict goals that are left, and a graph that had a goal
\* towards its answer has only such goals.
ExecutedGraphIsWhole ==
    Executing =>
        LET g == hunt.graph
            towards(p) == {y \in Goals(p) : Ends(p, y) \cap Targets(p) # {}}
        IN  /\ \A y \in Goals(g) : g.goals[y].needs \subseteq Goals(g)
            /\ ~Cyclic(Dependencies(g))
            /\ Range(g.quals) \subseteq Goals(g)
            /\ towards(hunt.reply) # {} =>
                    /\ towards(hunt.reply) \subseteq Goals(g)
                    /\ \A y \in Goals(g) : Ends(g, y) \subseteq Relevant(g)

-----------------------------------------------------------------------------
(* The calls of the model.                                                 *)

\* The sum of a sequence of numbers.
Total(s) ==
    LET upto[n \in 0..Len(s)] == IF n = 0 THEN 0 ELSE upto[n - 1] + s[n]
    IN  upto[Len(s)]

TokensIn(records) == Total([i \in DOMAIN records |-> records[i].tokens])
AttemptsIn(records, cs) ==
    Total([i \in DOMAIN records |-> IF records[i].by \in cs THEN records[i].attempts ELSE 0])

\* Every request that a hunt sends to the model is in its ledger, with those
\* that were repeated and those that failed: no record is refused after the
\* request was sent, and the ledger's tokens are those of its records.
EveryRequestIsAccounted ==
    /\ tokens = TokensIn(calls)
    /\ job.command = "hunt" =>
            requests = AttemptsIn(calls, Components \ {"evaluator_refine"}) + call.attempt

-----------------------------------------------------------------------------
(* The report file.                                                        *)

\* The engine of the last hunt has begun, and the hunt is over.
HuntIsOver ==
    stage = "idle" /\ run > 0 /\ job.command = "hunt" /\ (hunt # Fresh \/ requests > 0)

\* Once the engine of a hunt has begun, the file that is left is the run's
\* own: a report of what was compiled and, if it has queried, of what it was
\* licensed to query, or the artifact that it was aborted.  One way out
\* leaves what earlier runs wrote: an exception at the prompt for a
\* candidate, which no try encloses, and the prompt is reached only when the
\* run has executed a graph and left a choice open.
ReportBelongsToRun ==
    HuntIsOver =>
        /\ IF hunt.raised
           THEN /\ output.run < run
                /\ hunt.undecided /\ ~hunt.resumed /\ hunt.compiled = "graph"
           ELSE /\ output.run = run /\ output.kind \in {"report", "aborted"}
                /\ output.kind = "report" => hunt.compiled # "no"
        /\ hunt.queried => hunt.compiled \in {"rules", "graph"}

\* "A failed run must never leave the previous run's Markdown at the default
\* output path."
FailedRunLeavesNoStaleReport ==
    stage = "idle" /\ output.kind = "report" => output.run = run

-----------------------------------------------------------------------------
\* Every run of the command line ends.
EveryRunEnds == stage # "idle" ~> stage = "idle"
=============================================================================
