------------------------------ MODULE HuntRun ------------------------------
(***************************************************************************)
(* Runs of the command line, one after the other, that write the same      *)
(* report file (cli.py): a run starts, compiles its request                *)
(* (compiler/compiler.py), asks the model about sources, queries, judges   *)
(* cards, and is signed off; or it stops on the way.  Between them lie the *)
(* calls of the language model, each of which may be refused, repeated,    *)
(* fail or time out.                                                       *)
(*                                                                         *)
(* What the queries of a hunt return is left to HuntLoop, SemanticPlan and *)
(* HuntSession: here a hunt has queried or not, and has cards or not.      *)
(***************************************************************************)
EXTENDS LanguageModel, GoalGraph

CONSTANTS
    MaxRuns,      \* bound: runs of the command line
    MaxGaps,      \* bound: batches of sources to be profiled
    MaxTurns,     \* turn budget of the hunt loop
    Requests,     \* requests: [text, entities]
    Proposals,    \* graphs the model may reply with
    Templated,    \* types of evidence with a query template
    Questions     \* kind of request -> sequences of types of evidence it asks for

ASSUME RunAssumption ==
    /\ MaxRuns \in Nat \ {0} /\ MaxGaps \in Nat /\ MaxTurns \in Nat \ {0}
    /\ DOMAIN Questions = {"cve", "ttp", "structured"}
    /\ {"compiler", "source_profiler", "planner", "evaluator", "evaluator_refine"}
            \subseteq Components

ASSUME ProposalAssumption ==
    \A p \in Proposals :
        /\ DOMAIN p = {"vars", "last", "goals", "quals", "answers", "spl"}
        /\ \A x \in Vars(p) : DOMAIN p.vars[x] = {"type", "value", "origin", "restricted"}

VARIABLES
    run,     \* runs started
    job      \* what the run was asked: [command, kind, llm, request]
VARIABLES
    stage,   \* where the run is
    hunt,    \* state of the engine, made anew for each run
    output   \* the report file: [run, kind]

vars == <<llmVars, run, job, stage, hunt, output>>

Commands == {"hunt", "playbook", "alert"}
Kinds    == {"cve", "ttp", "structured", "unknown_cve", "free_text", "injection"}
Stages   == {"idle", "start", "compile", "profile", "act", "evaluate", "sign",
             "decide", "abduct", "investigate"}
Nothing  == [run |-> 0, kind |-> "none"]

Fresh == [compiled |-> "no", graph |-> << >>, reply |-> << >>, gaps |-> 0, asked |-> << >>,
          turn |-> 0, plans |-> {}, queried |-> FALSE, cards |-> FALSE, judged |-> FALSE,
          undecided |-> FALSE, resumed |-> FALSE, raised |-> FALSE]

Init == /\ calls = << >> /\ tokens = 0 /\ requests = 0 /\ call = NoCall
        /\ run = 0 /\ stage = "idle" /\ hunt = Fresh /\ output = Nothing
        /\ job = [command |-> "none"]

-----------------------------------------------------------------------------
(* Beginning and ending a run.                                             *)

Jobs == [command : {"hunt", "playbook"}, kind : Kinds \ {"free_text"}, llm : BOOLEAN]
            \cup [command : {"hunt", "playbook"}, kind : {"free_text"}, llm : BOOLEAN,
                  request : Requests]
            \cup [command : {"alert"}, llm : BOOLEAN]

Begin(j) ==
    /\ stage = "idle" /\ run < MaxRuns
    /\ run' = run + 1 /\ job' = j /\ stage' = "start" /\ hunt' = Fresh
    /\ NewTracker
    /\ UNCHANGED <<call, output>>

End(kind) == /\ stage'  = "idle"
             /\ output' = [run |-> run, kind |-> kind]

\* write_hunt_abort_artifact
Abort == End("aborted") /\ UNCHANGED <<run, job, hunt>>

\* The file of the hypothesis, the provider or its index is not there; the
\* manifest of an alert is missing.
StartFails == /\ stage = "start"
              /\ stage' = "idle"
              /\ UNCHANGED <<llmVars, run, job, hunt, output>>

-----------------------------------------------------------------------------
(* Compiling the request.                                                  *)

Compiled(c, g, reply) ==
    /\ hunt' = [hunt EXCEPT !.compiled = c, !.graph = g, !.reply = reply]
    /\ UNCHANGED <<run, job>>
    /\ IF job.command = "playbook" THEN End("playbook")
       ELSE /\ stage' = CASE c = "graph" -> "profile" [] c = "rules" -> "act" [] OTHER -> "sign"
            /\ UNCHANGED output

Compiles0 == stage = "start" /\ job.command \in {"hunt", "playbook"}
Asking    == job.command = "hunt" /\ job.llm

\* _compile_cve, _compile_ttp_or_ioc, _try_compile_structured_hypothesis
CompileRules(asked) ==
    /\ Compiles0 /\ job.kind \in DOMAIN Questions
    /\ asked \in Questions[job.kind]
    /\ hunt' = [hunt EXCEPT !.compiled = "rules", !.asked = asked]
    /\ IF job.command = "playbook" THEN End("playbook") ELSE stage' = "act" /\ UNCHANGED output
    /\ UNCHANGED <<llmVars, run, job>>

\* _compile_general_structured: nothing is guessed from free text.
CompileInsufficient ==
    /\ Compiles0
    /\ job.kind = "unknown_cve" \/ (job.kind = "free_text" /\ ~Asking)
    /\ Compiled("insufficient", << >>, << >>)
    /\ UNCHANGED llmVars

\* An injection raises: a hunt leaves its artifact, a playbook does not.
CompileRefuses ==
    /\ Compiles0 /\ job.kind = "injection"
    /\ IF job.command = "hunt" THEN Abort
       ELSE stage' = "idle" /\ UNCHANGED <<run, job, hunt, output>>
    /\ UNCHANGED llmVars

CompileAsks ==
    /\ Compiles0 /\ job.kind = "free_text" /\ Asking
    /\ \/ Ask("compiler") /\ stage' = "compile" /\ UNCHANGED <<run, job, hunt, output>>
       \/ Refused("compiler") /\ Abort

\* A reply that is no graph, or not a graph that may be executed, is rejected.
CompilerReplies(o) ==
    /\ call.by = "compiler" /\ Result("compiler", o) = "reply"
    /\ Finish(o)
    /\ \/ Compiled("insufficient", << >>, << >>)
       \/ \E p \in Proposals :
            IF Compiles(job.request, p) THEN Compiled("graph", Graph(job.request, p), p)
                                        ELSE Compiled("insufficient", << >>, p)

\* Mutant: the run returns without the artifact.
CompilerFailsQuietly(o) ==
    /\ call.by = "compiler" /\ Result("compiler", o) # "reply"
    /\ Finish(o)
    /\ stage' = "idle" /\ UNCHANGED <<run, job, hunt, output>>

CompilerFails(o) ==
    /\ call.by = "compiler" /\ Result("compiler", o) # "reply"
    /\ Finish(o)
    /\ Abort

-----------------------------------------------------------------------------
(* Profiling the sources of a graph, one batch after the other.            *)

Gaps(n) ==
    /\ stage = "profile" /\ call = NoCall /\ hunt.gaps = 0
    /\ n \in 0..MaxGaps
    /\ stage' = "act"
    /\ hunt' = [hunt EXCEPT !.gaps = n]
    /\ UNCHANGED <<llmVars, run, job, output>>

BatchDone == hunt' = [hunt EXCEPT !.gaps = @ - 1] /\ UNCHANGED <<run, job, stage, output>>

AskProfiler ==
    /\ stage = "act" /\ hunt.gaps > 0 /\ call = NoCall
    /\ \/ Ask("source_profiler") /\ UNCHANGED <<run, job, stage, hunt, output>>
       \/ Refused("source_profiler") /\ BatchDone

ProfilerAnswers(o) == call.by = "source_profiler" /\ Finish(o) /\ BatchDone

-----------------------------------------------------------------------------
(* Querying: the steps of a graph, or the questions of the rules.          *)

Acting == stage = "act" /\ hunt.gaps = 0 /\ call = NoCall

\* The goals that have a route run; an input may need the analyst's choice.
RunGraph(routed, cards, undecided) ==
    /\ Acting
    /\ routed = {} => ~cards /\ ~undecided
    /\ hunt' = [hunt EXCEPT !.queried = @ \/ routed # {}, !.cards = @ \/ cards,
                            !.undecided = undecided]
    /\ stage' = "evaluate"
    /\ UNCHANGED <<llmVars, run, job, output>>

Turn == Acting /\ hunt.compiled = "rules" /\ hunt.turn < MaxTurns
Next0 == [hunt EXCEPT !.turn = @ + 1, !.asked = Tail(@)]
Query(h) == \E cards \in BOOLEAN :
                hunt' = [h EXCEPT !.queried = TRUE, !.cards = @ \/ cards]

\* plan_query: a plan of this type is kept for this provider.
PlanCached ==
    /\ Turn /\ hunt.asked # << >> /\ Head(hunt.asked) \in hunt.plans
    /\ Query(Next0)
    /\ UNCHANGED <<llmVars, run, job, stage, output>>

\* No descriptor, a gap of the scope, a parameter not allowed; no template
\* and no model.
Unplannable ==
    /\ Turn /\ hunt.asked # << >> /\ Head(hunt.asked) \notin hunt.plans
    /\ hunt' = Next0
    /\ UNCHANGED <<llmVars, run, job, stage, output>>

PlanTemplate ==
    /\ Turn /\ hunt.asked # << >> /\ Head(hunt.asked) \in Templated \ hunt.plans
    /\ Query([Next0 EXCEPT !.plans = @ \cup {Head(hunt.asked)}])
    /\ UNCHANGED <<llmVars, run, job, stage, output>>

AskPlanner ==
    /\ Turn /\ hunt.asked # << >> /\ job.llm
    /\ Head(hunt.asked) \notin Templated \cup hunt.plans
    /\ \/ Ask("planner") /\ UNCHANGED <<run, job, stage, hunt, output>>
       \/ Refused("planner") /\ Abort

\* Whatever the planner is given becomes the query, if the validator lets it;
\* it is not kept.
PlannerAnswers(o) ==
    /\ call.by = "planner" /\ Finish(o)
    /\ IF Result("planner", o) = "timeout" THEN Abort
       ELSE (Query(Next0) \/ hunt' = Next0) /\ UNCHANGED <<run, job, stage, output>>

\* A refinement of ambiguous cards asks the evaluator once, and is noted as
\* a call when none was recorded.
Note == RecordCall("evaluator_refine", 1, PromptSize["evaluator_refine"] + ReplySize)
            /\ UNCHANGED <<call, requests>>
Refine ==
    /\ Turn /\ hunt.cards
    /\ UNCHANGED <<run, job, stage, output>>
    /\ \/ /\ job.llm /\ ~hunt.judged /\ Ask("evaluator")
          /\ hunt' = [hunt EXCEPT !.turn = @ + 1, !.judged = TRUE]
       \/ /\ ~job.llm \/ hunt.judged \/ ~Preflight("evaluator")
          /\ IF IsExhausted THEN UNCHANGED llmVars ELSE Note
          /\ hunt' = [hunt EXCEPT !.turn = @ + 1, !.judged = @ \/ job.llm]

StopHunt ==
    /\ Acting /\ hunt.compiled = "rules"
    /\ stage' = "evaluate"
    /\ UNCHANGED <<llmVars, run, job, hunt, output>>

-----------------------------------------------------------------------------
(* Judging the cards, and signing.                                         *)

MayJudge == hunt.cards /\ job.llm /\ ~hunt.judged /\ ~IsExhausted

Evaluate ==
    /\ stage = "evaluate" /\ call = NoCall /\ MayJudge
    /\ Ask("evaluator") \/ Refused("evaluator")
    /\ hunt' = [hunt EXCEPT !.judged = TRUE]
    /\ UNCHANGED <<run, job, stage, output>>

EvaluatorAnswers(o) ==
    /\ call.by = "evaluator" /\ Finish(o)
    /\ UNCHANGED <<run, job, stage, hunt, output>>

Judged ==
    /\ stage = "evaluate" /\ call = NoCall /\ ~MayJudge
    /\ stage' = "sign"
    /\ UNCHANGED <<llmVars, run, job, hunt, output>>

\* The analyst declines, or anything of the engine raises.
Halt ==
    /\ stage \in {"act", "sign"} /\ call = NoCall
    /\ job.command = "hunt" /\ Abort
    /\ UNCHANGED llmVars

\* Mutant: the analyst is asked as long as a choice is open.
SignAgain ==
    /\ stage = "sign"
    /\ IF hunt.undecided THEN stage' = "decide" /\ UNCHANGED output ELSE End("report")
    /\ UNCHANGED <<llmVars, run, job, hunt>>

Sign ==
    /\ stage = "sign"
    /\ IF hunt.undecided /\ ~hunt.resumed THEN stage' = "decide" /\ UNCHANGED output
                                          ELSE End("report")
    /\ UNCHANGED <<llmVars, run, job, hunt>>

\* The analyst is asked for a candidate once, and may choose none.
Decline == stage = "decide" /\ End("report") /\ UNCHANGED <<llmVars, run, job, hunt>>
Resume ==
    /\ stage = "decide"
    /\ stage' = "profile"
    /\ hunt' = [hunt EXCEPT !.resumed = TRUE]
    /\ UNCHANGED <<llmVars, run, job, output>>

\* The prompt raises out of the run: input() meets the end of the input, or
\* int() a digit it does not read.  Nothing is written.
PromptRaises ==
    /\ stage = "decide"
    /\ stage' = "idle"
    /\ hunt' = [hunt EXCEPT !.raised = TRUE]
    /\ UNCHANGED <<llmVars, run, job, output>>

-----------------------------------------------------------------------------
(* A run that investigates an alert.                                       *)

Investigate ==
    /\ stage = "start" /\ job.command = "alert"
    /\ IF job.llm THEN Generate /\ stage' = "abduct"
                  ELSE stage' = "investigate" /\ UNCHANGED llmVars
    /\ UNCHANGED <<run, job, hunt, output>>

\* The orchestrator goes on without explanations when the model fails.
Abducted(o) ==
    /\ call.by = "abduction" /\ FinishGenerate(o)
    /\ stage' = "investigate"
    /\ UNCHANGED <<run, job, hunt, output>>

InvestigationEnds ==
    /\ stage = "investigate"
    /\ End("report") \/ (stage' = "idle" /\ UNCHANGED output)
    /\ UNCHANGED <<llmVars, run, job, hunt>>

-----------------------------------------------------------------------------
Repeats(o) == /\ call # NoCall /\ Repeat(o)
              /\ UNCHANGED <<run, job, stage, hunt, output>>

Answered(o) == \/ CompilerReplies(o) \/ CompilerFails(o) \/ ProfilerAnswers(o)
               \/ PlannerAnswers(o) \/ EvaluatorAnswers(o) \/ Abducted(o)

Step ==
    \/ StartFails
    \/ \E asked \in UNION Range(Questions) : CompileRules(asked)
    \/ CompileInsufficient \/ CompileRefuses \/ CompileAsks
    \/ \E n \in 0..MaxGaps : Gaps(n)
    \/ AskProfiler
    \/ /\ hunt.compiled = "graph"
       /\ \E routed \in SUBSET Goals(hunt.graph), cards, undecided \in BOOLEAN :
            RunGraph(routed, cards, undecided)
    \/ PlanCached \/ Unplannable \/ PlanTemplate \/ AskPlanner \/ Refine \/ StopHunt
    \/ Evaluate \/ Judged \/ Halt \/ Sign
    \/ Decline \/ Resume \/ PromptRaises \/ Investigate \/ InvestigationEnds
    \/ \E o \in Outcomes : Repeats(o) \/ Answered(o)

Next == (\E j \in Jobs : Begin(j)) \/ Step

\* A request to the model times out, the engine's loops are bounded, and the
\* analyst answers the prompts of a run or ends the input.
Spec == Init /\ [][Next]_vars /\ WF_vars(Step)
=============================================================================
