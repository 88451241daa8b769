---------------------------- MODULE HuntRunProofs ----------------------------
(***************************************************************************)
(* For every request, every reply of the model and every behaviour of its  *)
(* provider: what a run executes starts from values of the request, and a  *)
(* run whose engine has begun leaves its own file behind.                  *)
(***************************************************************************)
EXTENDS HuntRunProperties, WellFoundedInduction, TLAPS

IsVariable(v) == DOMAIN v = {"type", "value", "origin", "restricted"}

-----------------------------------------------------------------------------
(* Values of a graph.                                                      *)

\* Demoting takes the value of a device away and touches nothing else.
LEMMA DemoteKeepsNames ==
    ASSUME NEW v, IsVariable(v), Demote(v).value # NoValue
    PROVE  Demote(v) = v /\ ~IsDevice(v)
<1>1. IsDevice(v) => Demote(v).value = NoValue
  BY DEF Demote, IsVariable
<1> QED BY <1>1 DEF Demote

\* Of a variable that was not invented, grounding gives the request only
\* what the request names, and never a device.
LEMMA GroundedIsNamed ==
    ASSUME NEW request, NEW v, IsVariable(v), ~Invented(request, v), ~IsDevice(v),
           Grounded(request, v).origin = "request",
           Grounded(request, v).value # NoValue
    PROVE  /\ Named(request, Grounded(request, v).value)
           /\ ~IsDevice(Grounded(request, v))
<1>1. CASE v.origin = "request"
  BY <1>1 DEF Grounded, Invented
<1>2. CASE v.origin # "request"
  <2>1. /\ Explicit(request, v) /\ v.value # NoValue
        /\ Grounded(request, v) = [v EXCEPT !.origin = "request"]
    BY <1>2 DEF Grounded
  <2>2. /\ Grounded(request, v).value = v.value
        /\ Grounded(request, v).type = v.type
    BY <2>1 DEF IsVariable
  <2>3. Named(request, v.value)
    BY <2>1 DEF Explicit, Named
  <2> QED BY <2>2, <2>3 DEF IsDevice
<1> QED BY <1>1, <1>2

LEMMA SeedsAreNamed ==
    ASSUME NEW request, NEW p \in Proposals, Compiles(request, p),
           NEW x \in Seeds(Graph(request, p))
    PROVE  /\ Named(request, Graph(request, p).vars[x].value)
           /\ ~IsDevice(Graph(request, p).vars[x])
<1> DEFINE n == Normalized(p)
           u == Demote(n.vars[x])
<1>1. /\ n.vars = p.vars /\ "goals" \in DOMAIN n /\ "vars" \in DOMAIN n /\ "quals" \in DOMAIN n
  BY ProposalAssumption DEF Normalized
<1>2. /\ "vars" \in DOMAIN Validated(n)
      /\ Validated(n).vars = [y \in Vars(p) |-> Demote(p.vars[y])]
  BY <1>1 DEF Validated, Vars
<1>3. Graph(request, p).vars = [y \in Vars(p) |-> Grounded(request, Demote(p.vars[y]))]
  BY <1>2 DEF Graph, MarkGrounded, Vars
<1>4. /\ x \in Vars(p) /\ Graph(request, p).vars[x] = Grounded(request, Demote(p.vars[x]))
      /\ Grounded(request, Demote(p.vars[x])).origin = "request"
      /\ Grounded(request, Demote(p.vars[x])).value # NoValue
  BY <1>3 DEF Seeds, Vars
<1>5. IsVariable(p.vars[x]) /\ ~Invented(request, p.vars[x])
  BY <1>1, <1>4, ProposalAssumption DEF Compiles, Rejected, Vars, IsVariable
<1>6. Demote(p.vars[x]).value # NoValue
  BY <1>4 DEF Grounded
<1>7. Demote(p.vars[x]) = p.vars[x] /\ ~IsDevice(p.vars[x])
  BY <1>5, <1>6, DemoteKeepsNames
<1> QED BY <1>4, <1>5, <1>7, GroundedIsNamed

-----------------------------------------------------------------------------
(* The graph a run executes.                                               *)

Fields == {"compiled", "graph", "reply", "gaps", "asked", "turn", "plans", "queried",
           "cards", "judged", "undecided", "resumed", "raised"}

\* What is executed was made of a proposal, for the request of the run.
GraphInv ==
    /\ DOMAIN hunt = Fields
    /\ hunt.compiled = "graph" =>
          \E p \in Proposals : /\ Compiles(job.request, p)
                               /\ hunt.graph = Graph(job.request, p)
                               /\ hunt.reply = p

\* A step keeps what was compiled, and the request it was compiled for.
SameGraph(h) == /\ DOMAIN h = Fields
                /\ h.compiled = hunt.compiled /\ h.graph = hunt.graph
                /\ h.reply = hunt.reply

LEMMA NextTurnIsSame ==
    ASSUME GraphInv
    PROVE  SameGraph(hunt) /\ SameGraph(Next0) /\ Next0.queried = hunt.queried
BY DEF GraphInv, Next0, SameGraph, Fields

LEMMA QueryIsSame ==
    ASSUME NEW h, SameGraph(h), Query(h)
    PROVE  SameGraph(hunt')
BY DEF Query, SameGraph, Fields

\* The steps after compilation.
Later ==
    \/ \E n \in 0..MaxGaps : Gaps(n)
    \/ AskProfiler
    \/ /\ hunt.compiled = "graph"
       /\ \E routed \in SUBSET Goals(hunt.graph), cards, undecided \in BOOLEAN :
            RunGraph(routed, cards, undecided)
    \/ PlanCached \/ Unplannable \/ PlanTemplate \/ AskPlanner \/ Refine \/ StopHunt
    \/ Evaluate \/ Judged \/ Halt \/ Sign
    \/ Decline \/ Resume \/ PromptRaises \/ Investigate \/ InvestigationEnds
    \/ \E o \in Outcomes : \/ Repeats(o) \/ CompilerFails(o) \/ ProfilerAnswers(o)
                           \/ PlannerAnswers(o) \/ EvaluatorAnswers(o) \/ Abducted(o)

LEMMA LaterIsSame ==
    ASSUME GraphInv, Later
    PROVE  job' = job /\ SameGraph(hunt')
<1> USE NextTurnIsSame
<1>1. ASSUME NEW n, Gaps(n) PROVE job' = job /\ SameGraph(hunt')
  BY <1>1 DEF Gaps, SameGraph, Fields
<1>2. ASSUME BatchDone PROVE job' = job /\ SameGraph(hunt')
  BY <1>2 DEF BatchDone, SameGraph, Fields
<1>3. CASE AskProfiler
  BY <1>2, <1>3 DEF AskProfiler
<1>4. ASSUME NEW routed, NEW cards, NEW undecided, RunGraph(routed, cards, undecided)
      PROVE  job' = job /\ SameGraph(hunt')
  BY <1>4 DEF RunGraph, SameGraph, Fields
<1>5. CASE PlanCached \/ Unplannable
  BY <1>5, QueryIsSame DEF PlanCached, Unplannable
<1>6. CASE PlanTemplate
  <2> DEFINE h == [Next0 EXCEPT !.plans = @ \cup {Head(hunt.asked)}]
  <2>1. SameGraph(h)
    BY DEF SameGraph, Fields
  <2>2. Query(h) /\ job' = job
    BY <1>6 DEF PlanTemplate
  <2> HIDE DEF h
  <2> QED BY <2>1, <2>2, QueryIsSame
<1>7. CASE AskPlanner
  BY <1>7 DEF AskPlanner, Abort
<1>8. CASE Refine \/ Evaluate \/ Resume \/ PromptRaises
  BY <1>8 DEF Refine, Evaluate, Resume, PromptRaises, SameGraph, Fields
<1>9. CASE StopHunt \/ Judged \/ Halt \/ Sign \/ Decline \/ Investigate \/ InvestigationEnds
  BY <1>9 DEF StopHunt, Judged, Halt, Sign, Decline, Investigate, InvestigationEnds, Abort
<1>10. ASSUME NEW o, Repeats(o) \/ CompilerFails(o) \/ EvaluatorAnswers(o) \/ Abducted(o)
       PROVE  job' = job /\ SameGraph(hunt')
  BY <1>10 DEF Repeats, CompilerFails, EvaluatorAnswers, Abducted, Abort
<1>11. ASSUME NEW o, ProfilerAnswers(o) PROVE job' = job /\ SameGraph(hunt')
  BY <1>2, <1>11 DEF ProfilerAnswers
<1>12. ASSUME NEW o, PlannerAnswers(o) PROVE job' = job /\ SameGraph(hunt')
  BY <1>12, QueryIsSame DEF PlannerAnswers, Abort
<1> QED BY <1>1, <1>3, <1>4, <1>5, <1>6, <1>7, <1>8, <1>9, <1>10, <1>11, <1>12 DEF Later

LEMMA GraphInvNext ==
    ASSUME GraphInv, [Next]_vars
    PROVE  GraphInv'
<1>1. ASSUME NEW j \in Jobs, Begin(j) PROVE GraphInv'
  BY <1>1 DEF Begin, GraphInv, Fresh, Fields
<1>2. ASSUME NEW c, NEW g, NEW reply, Compiled(c, g, reply),
             c = "graph" => \E p \in Proposals : /\ Compiles(job.request, p)
                                                 /\ g = Graph(job.request, p)
                                                 /\ reply = p
      PROVE GraphInv'
  <2>1. /\ hunt' = [hunt EXCEPT !.compiled = c, !.graph = g, !.reply = reply]
        /\ job' = job
    BY <1>2 DEF Compiled
  <2>2. DOMAIN hunt' = Fields /\ hunt'.compiled = c /\ hunt'.graph = g /\ hunt'.reply = reply
    BY <2>1 DEF GraphInv, Fields
  <2> QED BY <2>1, <2>2, <1>2 DEF GraphInv
<1>3. CASE CompileInsufficient
  BY <1>3, <1>2 DEF CompileInsufficient
<1>4. ASSUME NEW o \in Outcomes, CompilerReplies(o) PROVE GraphInv'
  BY <1>4, <1>2 DEF CompilerReplies
<1>5. ASSUME NEW asked, CompileRules(asked) PROVE GraphInv'
  BY <1>5 DEF CompileRules, GraphInv, Fields
<1>6. CASE StartFails \/ CompileRefuses \/ CompileAsks \/ UNCHANGED vars
  BY <1>6 DEF StartFails, CompileRefuses, CompileAsks, Abort, vars, GraphInv
<1>7. CASE Later
  BY <1>7, LaterIsSame DEF GraphInv, SameGraph
<1> QED BY <1>1, <1>3, <1>4, <1>5, <1>6, <1>7 DEF Next, Step, Answered, Later

LEMMA GraphInvariant == Spec => []GraphInv
<1>1. Init => GraphInv
  BY DEF Init, GraphInv, Fresh, Fields
<1>2. GraphInv /\ [Next]_vars => GraphInv'
  BY GraphInvNext
<1> QED BY <1>1, <1>2, PTL DEF Spec

\* SeedsComeFromRequest holds in every run: whatever graph the model makes
\* up, execution starts from values the request names and never from a word
\* for a device (the validator and _mark_request_grounded_values).
THEOREM SeedsStandInRequest == Spec => []SeedsComeFromRequest
<1>1. GraphInv => SeedsComeFromRequest
  BY SeedsAreNamed DEF GraphInv, SeedsComeFromRequest, Executing
<1> QED BY <1>1, GraphInvariant, PTL

-----------------------------------------------------------------------------
(* The report file.                                                        *)

\* Where a run may be while a component of it has called the model.
CallInv ==
    /\ DOMAIN call = {"by", "attempt", "usage"}
    /\ stage \in {"idle", "start", "profile", "sign", "decide", "investigate"} => call = NoCall
    /\ call.by = "compiler" <=> stage = "compile"
    /\ call.by = "abduction" => stage = "abduct"
    /\ call.by = "planner" => hunt.compiled = "rules"

\* What a run has done by the time it is somewhere.
ProgressInv ==
    /\ stage \in {"start", "compile"} => hunt = Fresh
    /\ stage = "start" => requests = 0
    /\ stage \in {"abduct", "investigate"} => job.command = "alert"
    /\ job.command = "hunt" /\ stage \notin {"idle", "start", "compile"} =>
            hunt.compiled # "no"
    /\ hunt.queried => hunt.compiled \in {"rules", "graph"}

LEMMA CallInvNext ==
    ASSUME GraphInv, CallInv, ProgressInv, [Next]_vars
    PROVE  CallInv'
<1> USE DEF CallInv, NoCall
<1>1. ASSUME NEW j, Begin(j) PROVE CallInv'
  BY <1>1 DEF Begin
<1>2. CASE StartFails \/ CompileRefuses \/ CompileInsufficient
  BY <1>2 DEF StartFails, CompileRefuses, CompileInsufficient, Compiles0, Compiled, Abort,
              End, llmVars
<1>3. ASSUME NEW asked, CompileRules(asked) PROVE CallInv'
  BY <1>3 DEF CompileRules, Compiles0, End, llmVars
<1>4. CASE CompileAsks
  BY <1>4 DEF CompileAsks, Compiles0, Ask, Refused, Abort, End, llmVars
<1>5. ASSUME NEW o, CompilerReplies(o) \/ CompilerFails(o) PROVE CallInv'
  <2>1. ASSUME NEW c \in {"insufficient", "graph"}, NEW g, NEW reply, Compiled(c, g, reply)
        PROVE  stage' # "compile"
    BY <2>1 DEF Compiled, End
  <2>2. stage' # "compile"
    BY <1>5, <2>1 DEF CompilerReplies, CompilerFails, Abort, End
  <2> QED BY <1>5, <2>2 DEF CompilerReplies, CompilerFails, Finish
<1>6. ASSUME NEW n, Gaps(n) PROVE CallInv'
  BY <1>6 DEF Gaps, llmVars
<1>7. CASE AskProfiler
  BY <1>7 DEF AskProfiler, BatchDone, Ask, Refused, GraphInv, Fields, llmVars
<1>8. ASSUME NEW o, ProfilerAnswers(o) \/ PlannerAnswers(o) \/ EvaluatorAnswers(o)
      PROVE  CallInv'
  BY <1>8 DEF ProfilerAnswers, PlannerAnswers, EvaluatorAnswers, Finish,
              BatchDone, Abort, End
<1>9. ASSUME NEW routed, NEW cards, NEW undecided, RunGraph(routed, cards, undecided)
      PROVE  CallInv'
  BY <1>9 DEF RunGraph, Acting, llmVars
<1>10. CASE PlanCached \/ Unplannable \/ PlanTemplate
  BY <1>10 DEF PlanCached, Unplannable, PlanTemplate, Turn, Acting, llmVars
<1>11. CASE AskPlanner
  BY <1>11 DEF AskPlanner, Turn, Acting, Ask, Refused, Abort, End, llmVars
<1>12. CASE Refine
  BY <1>12 DEF Refine, Turn, Acting, Ask, Note, llmVars
<1>13. CASE Evaluate
  BY <1>13 DEF Evaluate, Ask, Refused, llmVars
<1>14. CASE StopHunt \/ Judged \/ Halt \/ Sign \/ Decline \/ Resume \/ PromptRaises
  BY <1>14 DEF StopHunt, Judged, Halt, Sign, Decline, Resume, PromptRaises, Acting, Abort, End, llmVars
<1>15. CASE Investigate \/ InvestigationEnds
  BY <1>15 DEF Investigate, InvestigationEnds, Generate, End, llmVars
<1>16. ASSUME NEW o, Repeats(o) PROVE CallInv'
  <2>1. /\ call # NoCall /\ UNCHANGED <<stage, hunt>>
        /\ call' = [call EXCEPT !.attempt = @ + 1, !.usage = Usage(o)]
    BY <1>16 DEF Repeats, Repeat
  <2>2. call'.by = call.by /\ DOMAIN call' = DOMAIN call
    BY <2>1
  <2> QED BY <2>1, <2>2
<1>17. ASSUME NEW o, Abducted(o) PROVE CallInv'
  BY <1>17 DEF Abducted, FinishGenerate
<1>18. CASE UNCHANGED vars
  BY <1>18 DEF vars, llmVars
<1> QED BY <1>1, <1>2, <1>3, <1>4, <1>5, <1>6, <1>7, <1>8, <1>9, <1>10, <1>11, <1>12, <1>13,
           <1>14, <1>15, <1>16, <1>17, <1>18 DEF Next, Step, Answered

\* Only a graph's steps and the questions of rules query.
LEMMA QueriesAreLicensed ==
    ASSUME GraphInv, CallInv, Later, hunt'.queried
    PROVE  hunt.queried \/ hunt.compiled \in {"rules", "graph"}
<1> USE NextTurnIsSame
<1> SUFFICES ASSUME hunt.compiled \notin {"rules", "graph"} PROVE hunt'.queried = hunt.queried
  OBVIOUS
<1>1. ~PlanCached /\ ~Unplannable /\ ~PlanTemplate /\ ~AskPlanner /\ ~Refine /\ ~StopHunt
  BY DEF PlanCached, Unplannable, PlanTemplate, AskPlanner, Refine, StopHunt, Turn
<1>2. \A o \in Outcomes : ~PlannerAnswers(o)
  BY DEF PlannerAnswers, CallInv
<1>3. ASSUME NEW n, Gaps(n) PROVE hunt'.queried = hunt.queried
  BY <1>3 DEF Gaps, SameGraph, Fields
<1>4. BatchDone => hunt'.queried = hunt.queried
  BY DEF BatchDone, SameGraph, Fields
<1>5. CASE AskProfiler
  BY <1>4, <1>5 DEF AskProfiler
<1>6. CASE Evaluate \/ Resume \/ PromptRaises
  BY <1>6 DEF Evaluate, Resume, PromptRaises, SameGraph, Fields
<1>7. CASE Judged \/ Halt \/ Sign \/ Decline \/ Investigate \/ InvestigationEnds
  BY <1>7 DEF Judged, Halt, Sign, Decline, Investigate, InvestigationEnds, Abort
<1>8. ASSUME NEW o, \/ Repeats(o) \/ CompilerFails(o) \/ ProfilerAnswers(o)
                    \/ EvaluatorAnswers(o) \/ Abducted(o)
      PROVE  hunt'.queried = hunt.queried
  BY <1>4, <1>8 DEF Repeats, CompilerFails, ProfilerAnswers, EvaluatorAnswers, Abducted, Abort
<1> QED BY <1>1, <1>2, <1>3, <1>5, <1>6, <1>7, <1>8 DEF Later

\* Where the steps after compilation lead.
Moves ==
    /\ stage' \in {"start", "compile"} =>
            /\ stage' = stage /\ hunt' = hunt
            /\ stage = "start" => requests' = requests
    /\ stage' \in {"abduct", "investigate"} =>
            stage \in {"abduct", "investigate"} \/ job.command = "alert"
    /\ stage' \notin {"idle", "start", "compile"} =>
            stage \notin {"idle", "start", "compile"} \/ job.command = "alert"

LEMMA LaterMoves ==
    ASSUME GraphInv, CallInv, Later
    PROVE  Moves
<1> USE DEF Moves, CallInv, NoCall
<1>1. ASSUME NEW n, Gaps(n) PROVE Moves
  BY <1>1 DEF Gaps
<1>2. CASE AskProfiler \/ PlanCached \/ Unplannable \/ PlanTemplate \/ Refine
  BY <1>2 DEF AskProfiler, PlanCached, Unplannable, PlanTemplate, Refine, Turn, Acting,
              BatchDone
<1>3. ASSUME NEW routed, NEW cards, NEW undecided, RunGraph(routed, cards, undecided)
      PROVE  Moves
  BY <1>3 DEF RunGraph, Acting
<1>4. CASE AskPlanner \/ StopHunt \/ Evaluate \/ Judged
  BY <1>4 DEF AskPlanner, StopHunt, Evaluate, Judged, Turn, Acting, Abort, End
<1>5. CASE Halt \/ Sign \/ Decline \/ Resume \/ PromptRaises
  BY <1>5 DEF Halt, Sign, Decline, Resume, PromptRaises, Abort, End
<1>6. CASE Investigate \/ InvestigationEnds
  BY <1>6 DEF Investigate, InvestigationEnds, End
<1>7. ASSUME NEW o, Repeats(o) PROVE Moves
  BY <1>7 DEF Repeats
<1>8. ASSUME NEW o, ProfilerAnswers(o) \/ PlannerAnswers(o) \/ EvaluatorAnswers(o) PROVE Moves
  BY <1>8 DEF ProfilerAnswers, PlannerAnswers, EvaluatorAnswers, BatchDone, Abort, End
<1>9. ASSUME NEW o, CompilerFails(o) \/ Abducted(o) PROVE Moves
  BY <1>9 DEF CompilerFails, Abducted, Abort, End
<1> QED BY <1>1, <1>2, <1>3, <1>4, <1>5, <1>6, <1>7, <1>8, <1>9 DEF Later

LEMMA ProgressInvNext ==
    ASSUME GraphInv, CallInv, ProgressInv, [Next]_vars
    PROVE  ProgressInv'
<1> USE DEF ProgressInv
<1>1. ASSUME NEW j, Begin(j) PROVE ProgressInv'
  BY <1>1 DEF Begin, NewTracker, Fresh
<1>2. CASE StartFails \/ CompileRefuses \/ UNCHANGED vars
  BY <1>2 DEF StartFails, CompileRefuses, Abort, End, llmVars, vars
<1>3. ASSUME NEW asked, CompileRules(asked) PROVE ProgressInv'
  BY <1>3 DEF CompileRules, Compiles0, End, llmVars, Fresh
<1>4. ASSUME NEW c \in {"insufficient", "graph"}, NEW g, NEW reply, Compiled(c, g, reply),
             stage \in {"start", "compile"}
      PROVE  ProgressInv'
  BY <1>4 DEF Compiled, End, Fresh
<1>5. CASE CompileInsufficient
  BY <1>4, <1>5 DEF CompileInsufficient, Compiles0
<1>6. CASE CompileAsks
  BY <1>6 DEF CompileAsks, Compiles0, Asking, Abort, End
<1>7. ASSUME NEW o, CompilerReplies(o) PROVE ProgressInv'
  BY <1>4, <1>7 DEF CompilerReplies, CallInv
<1>8. CASE Later
  BY <1>8, LaterIsSame, LaterMoves, QueriesAreLicensed DEF SameGraph, Moves
<1> QED BY <1>1, <1>2, <1>3, <1>5, <1>6, <1>7, <1>8 DEF Next, Step, Answered, Later

\* The exceptions that end a run at the prompt, and the file before a run ends.
PromptInv ==
    /\ run \in Nat /\ output.run \in Nat
    /\ output.run <= run /\ (stage # "idle" => output.run < run)
    /\ hunt.undecided => hunt.compiled = "graph"
    /\ stage = "decide" => hunt.undecided /\ ~hunt.resumed
    /\ hunt.raised => /\ stage = "idle" /\ output.run < run
                      /\ hunt.undecided /\ ~hunt.resumed

\* A step that is not about the analyst's choice.
SameChoice(h) == /\ h.undecided = hunt.undecided /\ h.resumed = hunt.resumed
                 /\ h.raised = hunt.raised

RunsGraph ==
    /\ hunt.compiled = "graph"
    /\ \E routed \in SUBSET Goals(hunt.graph), cards, undecided \in BOOLEAN :
            RunGraph(routed, cards, undecided)

LEMMA QueryKeepsChoice ==
    ASSUME NEW h, DOMAIN h = Fields, SameChoice(h), Query(h)
    PROVE  SameChoice(hunt')
BY DEF Query, SameChoice, Fields

LEMMA ChoiceKept ==
    ASSUME GraphInv, Later, ~Resume, ~PromptRaises, ~RunsGraph
    PROVE  SameChoice(hunt')
<1>1. SameChoice(hunt) /\ SameChoice(Next0) /\ DOMAIN Next0 = Fields /\ DOMAIN hunt = Fields
  BY DEF GraphInv, Next0, SameChoice, Fields
<1>2. ASSUME NEW n, Gaps(n) PROVE SameChoice(hunt')
  BY <1>1, <1>2 DEF Gaps, SameChoice, Fields
<1>3. BatchDone => SameChoice(hunt')
  BY <1>1 DEF BatchDone, SameChoice, Fields
<1>4. CASE AskProfiler
  BY <1>1, <1>3, <1>4 DEF AskProfiler
<1>5. CASE PlanCached \/ Unplannable
  BY <1>1, <1>5, QueryKeepsChoice DEF PlanCached, Unplannable
<1>6. CASE PlanTemplate
  <2> DEFINE h == [Next0 EXCEPT !.plans = @ \cup {Head(hunt.asked)}]
  <2>1. SameChoice(h) /\ DOMAIN h = Fields
    BY <1>1 DEF SameChoice, Fields
  <2>2. Query(h)
    BY <1>6 DEF PlanTemplate
  <2> HIDE DEF h
  <2> QED BY <2>1, <2>2, QueryKeepsChoice
<1>7. CASE AskPlanner
  BY <1>1, <1>7 DEF AskPlanner, Abort
<1>8. CASE Refine \/ Evaluate
  BY <1>1, <1>8 DEF Refine, Evaluate, SameChoice, Fields
<1>9. CASE StopHunt \/ Judged \/ Halt \/ Sign \/ Decline \/ Investigate \/ InvestigationEnds
  BY <1>1, <1>9 DEF StopHunt, Judged, Halt, Sign, Decline, Investigate, InvestigationEnds,
                    Abort
<1>10. ASSUME NEW o, \/ Repeats(o) \/ CompilerFails(o) \/ EvaluatorAnswers(o) \/ Abducted(o)
                     \/ ProfilerAnswers(o)
       PROVE  SameChoice(hunt')
  BY <1>1, <1>3, <1>10 DEF Repeats, CompilerFails, EvaluatorAnswers, Abducted, Abort,
                           ProfilerAnswers
<1>11. ASSUME NEW o, PlannerAnswers(o) PROVE SameChoice(hunt')
  BY <1>1, <1>11, QueryKeepsChoice DEF PlannerAnswers, Abort
<1> QED BY <1>2, <1>4, <1>5, <1>6, <1>7, <1>8, <1>9, <1>10, <1>11 DEF Later, RunsGraph

\* A step is one of a run under way; it leaves the file alone, or writes the
\* file of the run as the run ends.
Files == /\ stage # "idle" /\ run' = run
         /\ output' = output \/ (stage' = "idle" /\ output'.run = run)

LEMMA StepFiles ==
    ASSUME CallInv, Step
    PROVE  Files
<1> USE DEF Files, CallInv, NoCall
<1>1. ASSUME NEW c, NEW g, NEW reply, Compiled(c, g, reply), stage # "idle"
      PROVE  Files
  BY <1>1 DEF Compiled, End
<1>2. CASE StartFails \/ CompileInsufficient \/ CompileRefuses \/ CompileAsks
  <2>1. CASE StartFails
    BY <2>1 DEF StartFails
  <2>2. CASE CompileInsufficient
    BY <1>1, <2>2 DEF CompileInsufficient, Compiles0
  <2>3. CASE CompileRefuses \/ CompileAsks
    BY <2>3 DEF CompileRefuses, CompileAsks, Compiles0, Abort, End
  <2> QED BY <1>2, <2>1, <2>2, <2>3
<1>3. ASSUME NEW o, CompilerReplies(o) \/ CompilerFails(o) PROVE Files
  <2>1. stage # "idle"
    BY <1>3 DEF CompilerReplies, CompilerFails
  <2>2. CASE CompilerReplies(o)
    BY <1>1, <2>1, <2>2 DEF CompilerReplies
  <2>3. CASE CompilerFails(o)
    BY <2>1, <2>3 DEF CompilerFails, Abort, End
  <2> QED BY <1>3, <2>2, <2>3
<1>11. ASSUME NEW asked, CompileRules(asked) PROVE Files
  BY <1>11 DEF CompileRules, Compiles0, End
<1>4. CASE \E n \in 0..MaxGaps : Gaps(n)
  BY <1>4 DEF Gaps
<1>5. CASE AskProfiler \/ AskPlanner
  BY <1>5 DEF AskProfiler, AskPlanner, BatchDone, Turn, Acting, Abort, End
<1>6. ASSUME NEW routed, NEW cards, NEW undecided, RunGraph(routed, cards, undecided)
      PROVE  Files
  BY <1>6 DEF RunGraph, Acting
<1>7. CASE PlanCached \/ Unplannable \/ PlanTemplate \/ Refine \/ StopHunt
  BY <1>7 DEF PlanCached, Unplannable, PlanTemplate, Refine, StopHunt, Turn, Acting
<1>8. CASE Evaluate \/ Judged \/ Halt \/ Sign \/ Decline \/ Resume \/ PromptRaises
  BY <1>8 DEF Evaluate, Judged, Halt, Sign, Decline, Resume, PromptRaises, Abort, End
<1>9. CASE Investigate \/ InvestigationEnds
  BY <1>9 DEF Investigate, InvestigationEnds, End
<1>10. ASSUME NEW o, \/ Repeats(o) \/ ProfilerAnswers(o) \/ PlannerAnswers(o)
                     \/ EvaluatorAnswers(o) \/ Abducted(o)
       PROVE  Files
  BY <1>10 DEF Repeats, ProfilerAnswers, PlannerAnswers, EvaluatorAnswers, Abducted,
               BatchDone, Abort, End
<1> QED BY <1>2, <1>3, <1>4, <1>5, <1>6, <1>7, <1>8, <1>9, <1>10, <1>11 DEF Step, Answered

\* The prompt is reached from signing only.
LEMMA DecideIsAfterSign ==
    ASSUME CallInv, Later, stage' = "decide"
    PROVE  Sign
<1> USE DEF CallInv, NoCall
<1>1. \A n : ~Gaps(n)
  BY DEF Gaps
<1>2. \A routed, cards, undecided : ~RunGraph(routed, cards, undecided)
  BY DEF RunGraph
<1>3. \A o : /\ ~CompilerFails(o) /\ ~ProfilerAnswers(o) /\ ~PlannerAnswers(o)
             /\ ~EvaluatorAnswers(o) /\ ~Abducted(o)
  BY DEF CompilerFails, ProfilerAnswers, PlannerAnswers, EvaluatorAnswers, Abducted,
         BatchDone, Abort, End
<1>4. \A o : ~Repeats(o)
  BY DEF Repeats
<1>5. ~AskProfiler /\ ~PlanCached /\ ~Unplannable /\ ~PlanTemplate /\ ~AskPlanner /\ ~Refine
      /\ ~StopHunt
  BY DEF AskProfiler, PlanCached, Unplannable, PlanTemplate, AskPlanner, Refine, StopHunt,
         Turn, Acting, BatchDone, Abort, End
<1>6. /\ ~Evaluate /\ ~Judged /\ ~Halt /\ ~Decline /\ ~Resume /\ ~PromptRaises
      /\ ~Investigate /\ ~InvestigationEnds
  BY DEF Evaluate, Judged, Halt, Decline, Resume, PromptRaises, Investigate,
         InvestigationEnds, Abort, End
<1> QED BY <1>1, <1>2, <1>3, <1>4, <1>5, <1>6 DEF Later

LEMMA PromptInvNext ==
    ASSUME GraphInv, CallInv, ProgressInv, PromptInv, [Next]_vars
    PROVE  PromptInv'
<1>1. ASSUME NEW j, Begin(j) PROVE PromptInv'
  BY <1>1 DEF Begin, Fresh, PromptInv
<1>2. CASE UNCHANGED vars
  BY <1>2 DEF vars, PromptInv
<1>3. ASSUME Step
      PROVE  /\ run' \in Nat /\ output'.run \in Nat
             /\ output'.run <= run' /\ (stage' # "idle" => output'.run < run')
             /\ ~hunt.raised
             /\ output' = output => output'.run < run'
  BY <1>3, StepFiles DEF Files, PromptInv
<1>4. ASSUME Step,
             hunt'.undecided => hunt'.compiled = "graph",
             stage' = "decide" => hunt'.undecided /\ ~hunt'.resumed,
             ~hunt'.raised
      PROVE  PromptInv'
  BY <1>3, <1>4 DEF PromptInv
<1>5. ASSUME hunt = Fresh
      PROVE  ~hunt.undecided /\ ~hunt.raised /\ DOMAIN hunt = Fields
  BY <1>5 DEF Fresh, Fields
<1>6. CASE StartFails \/ CompileRefuses \/ CompileAsks
  <2>1. hunt' = hunt /\ stage' # "decide" /\ hunt = Fresh /\ Step
    BY <1>6 DEF StartFails, CompileRefuses, CompileAsks, Compiles0, Abort, End, ProgressInv,
                Step
  <2> QED BY <1>4, <1>5, <2>1
<1>7. ASSUME NEW c \in {"insufficient", "graph"}, NEW g, NEW reply, Compiled(c, g, reply), Step,
             stage \in {"start", "compile"}
      PROVE  PromptInv'
  <2>1. ~hunt'.undecided /\ ~hunt'.raised /\ stage' # "decide"
    BY <1>5, <1>7 DEF Compiled, End, ProgressInv, Fields
  <2> QED BY <1>4, <1>7, <2>1
<1>8. CASE CompileInsufficient
  BY <1>7, <1>8 DEF CompileInsufficient, Compiles0, Step
<1>9. ASSUME NEW o \in Outcomes, CompilerReplies(o) PROVE PromptInv'
  <2>1. Step /\ stage \in {"start", "compile"}
    BY <1>9 DEF Step, Answered, CompilerReplies, CallInv
  <2> QED BY <1>7, <1>9, <2>1 DEF CompilerReplies
<1>10. ASSUME NEW asked \in UNION Range(Questions), CompileRules(asked) PROVE PromptInv'
  <2>1. ~hunt'.undecided /\ ~hunt'.raised /\ stage' # "decide" /\ Step
    BY <1>5, <1>10 DEF CompileRules, Compiles0, End, ProgressInv, Fields, Step
  <2> QED BY <1>4, <2>1
<1>11. CASE PromptRaises
  <2>1. Step /\ output' = output /\ stage' = "idle"
    BY <1>11 DEF PromptRaises, Step
  <2>2. /\ hunt'.undecided = hunt.undecided /\ hunt'.resumed = hunt.resumed
        /\ hunt'.compiled = hunt.compiled
    BY <1>11 DEF PromptRaises, GraphInv, Fields
  <2>3. hunt.undecided /\ ~hunt.resumed /\ hunt.compiled = "graph"
    BY <1>11 DEF PromptRaises, PromptInv
  <2> QED BY <1>3, <2>1, <2>2, <2>3 DEF PromptInv
<1>12. CASE Resume
  <2>1. /\ Step /\ stage' # "decide" /\ hunt'.raised = hunt.raised
        /\ hunt'.undecided = hunt.undecided /\ hunt'.compiled = hunt.compiled
    BY <1>12 DEF Resume, Step, GraphInv, Fields
  <2> QED BY <1>3, <1>4, <2>1 DEF PromptInv
<1>13. CASE RunsGraph
  <2>1. stage' # "decide" /\ hunt'.raised = hunt.raised /\ hunt'.compiled = hunt.compiled
    BY <1>13 DEF RunsGraph, RunGraph, GraphInv, Fields
  <2>2. Step
    BY <1>13 DEF RunsGraph, Step
  <2> QED BY <1>3, <1>4, <1>13, <2>1, <2>2 DEF RunsGraph
<1>14. ASSUME Later, ~Resume, ~PromptRaises, ~RunsGraph
       PROVE  PromptInv'
  <2>1. SameChoice(hunt') /\ SameGraph(hunt') /\ Step
    BY <1>14, ChoiceKept, LaterIsSame DEF Later, Step, Answered
  <2>2. stage' = "decide" => hunt'.undecided /\ ~hunt'.resumed
    BY <1>14, <2>1, DecideIsAfterSign DEF SameChoice, Sign, End, PromptInv
  <2> QED BY <1>3, <1>4, <2>1, <2>2 DEF SameChoice, SameGraph, PromptInv
<1>15. Step => \/ StartFails \/ CompileRefuses \/ CompileAsks \/ CompileInsufficient
               \/ \E o \in Outcomes : CompilerReplies(o)
               \/ \E asked \in UNION Range(Questions) : CompileRules(asked)
               \/ Later
  BY DEF Step, Answered, Later
<1> QED BY <1>1, <1>2, <1>6, <1>8, <1>9, <1>10, <1>11, <1>12, <1>13, <1>14, <1>15 DEF Next

\* A run that ends after its engine began writes its file as it ends, but for
\* the exception at the prompt.
LEMMA ReportNext ==
    ASSUME GraphInv, CallInv, ProgressInv, PromptInv, ProgressInv', PromptInv',
           ReportBelongsToRun, [Next]_vars
    PROVE  ReportBelongsToRun'
<1> DEFINE Begun == job.command = "hunt" /\ (hunt # Fresh \/ requests > 0)
           Owns  == /\ output.run = run /\ output.kind \in {"report", "aborted"}
                    /\ output.kind = "report" => hunt.compiled # "no"
<1> USE DEF ProgressInv
<1>1. SUFFICES stage' = "idle" /\ run' > 0 /\ Begun' /\ ~hunt'.raised => Owns'
  BY DEF ReportBelongsToRun, HuntIsOver, PromptInv
<1>2. ASSUME NEW j, Begin(j) PROVE stage' # "idle"
  BY <1>2 DEF Begin
<1>3. CASE UNCHANGED vars
  BY <1>3 DEF vars, llmVars, ReportBelongsToRun, HuntIsOver
<1>4. CASE StartFails
  BY <1>4 DEF StartFails, llmVars
<1>5. ASSUME Abort PROVE stage' = "idle" /\ run' > 0 /\ Begun' => Owns'
  BY <1>5 DEF Abort, End
<1>6. CASE CompileRefuses
  BY <1>5, <1>6 DEF CompileRefuses
<1>7. ASSUME NEW asked, CompileRules(asked) PROVE stage' = "idle" => ~Begun'
  BY <1>7 DEF CompileRules
<1>8. CASE CompileAsks
  BY <1>5, <1>8 DEF CompileAsks
<1>9. ASSUME NEW c \in {"insufficient", "graph"}, NEW g, NEW reply, Compiled(c, g, reply)
      PROVE  stage' = "idle" => ~Begun'
  BY <1>9 DEF Compiled
<1>10. CASE CompileInsufficient
  BY <1>9, <1>10 DEF CompileInsufficient
<1>11. ASSUME NEW o, CompilerReplies(o) PROVE stage' = "idle" => ~Begun'
  BY <1>9, <1>11 DEF CompilerReplies
<1>12. CASE Later
  <2> USE DEF CallInv, NoCall
  <2>1. ASSUME \/ AskProfiler \/ PlanCached \/ Unplannable \/ PlanTemplate \/ Refine
               \/ StopHunt \/ Evaluate \/ Judged \/ Resume \/ Investigate
               \/ \E n \in 0..MaxGaps : Gaps(n)
        PROVE  stage' # "idle"
    BY <2>1 DEF AskProfiler, PlanCached, Unplannable, PlanTemplate, Refine, StopHunt, Evaluate,
                Judged, Resume, Investigate, Gaps, Turn, Acting, BatchDone
  <2>2. ASSUME NEW routed, NEW cards, NEW undecided, RunGraph(routed, cards, undecided)
        PROVE  stage' # "idle"
    BY <2>2 DEF RunGraph
  <2>3. ASSUME NEW o, Repeats(o) \/ ProfilerAnswers(o) \/ EvaluatorAnswers(o) \/ Abducted(o)
        PROVE  stage' # "idle"
    BY <2>3 DEF Repeats, ProfilerAnswers, EvaluatorAnswers, Abducted, BatchDone
  <2>4. CASE AskPlanner \/ Halt
    BY <1>5, <2>4 DEF AskPlanner, Halt, Turn, Acting
  <2>5. ASSUME NEW o, PlannerAnswers(o) \/ CompilerFails(o)
        PROVE  stage' = "idle" /\ run' > 0 /\ Begun' => Owns'
    BY <1>5, <2>5 DEF PlannerAnswers, CompilerFails
  <2>6. CASE Sign \/ Decline
    BY <2>6 DEF Sign, Decline, End
  <2>7. CASE InvestigationEnds
    BY <2>7 DEF InvestigationEnds
  <2>8. CASE PromptRaises
    BY <2>8 DEF PromptRaises, GraphInv, Fields
  <2> QED BY <1>12, <2>1, <2>2, <2>3, <2>4, <2>5, <2>6, <2>7, <2>8 DEF Later
<1> QED BY <1>2, <1>3, <1>4, <1>6, <1>7, <1>8, <1>10, <1>11, <1>12
        DEF Next, Step, Answered, Later

\* ReportBelongsToRun holds of every run: whichever way a hunt ends once its
\* engine has begun, the report file is its own and says no more than it
\* compiled (run_cli's reports and write_hunt_abort_artifact), unless the
\* prompt for a candidate raises, which it does only after a graph was
\* executed and left a choice open, and which leaves the file untouched.
THEOREM FileIsTheRuns == Spec => []ReportBelongsToRun
<1>1. Init => CallInv /\ ProgressInv /\ PromptInv /\ ReportBelongsToRun
  BY DEF Init, CallInv, ProgressInv, PromptInv, ReportBelongsToRun, HuntIsOver, NoCall,
         Fresh, Nothing
<1>2. GraphInv /\ CallInv /\ ProgressInv /\ PromptInv /\ ReportBelongsToRun /\ [Next]_vars
        => (CallInv /\ ProgressInv /\ PromptInv /\ ReportBelongsToRun)'
  BY CallInvNext, ProgressInvNext, PromptInvNext, ReportNext
<1> QED BY <1>1, <1>2, GraphInvariant, PTL DEF Spec

-----------------------------------------------------------------------------
(* What pruning leaves.                                                    *)

\* A set of variables that no goal of p leads out of.
ClosedUnder(p, S) == \A g \in Goals(p) : Ends(p, g) \cap S # {} => Ends(p, g) \subseteq S

LEMMA RelevantIs ==
    ASSUME NEW p, NEW x
    PROVE  x \in Relevant(p) <=>
              /\ x \in Vars(p)
              /\ \A S \in SUBSET Vars(p) :
                    Targets(p) \subseteq S /\ ClosedUnder(p, S) => x \in S
BY DEF Relevant, ClosedUnder

\* The graph that is executed has the goals that were kept, as they were
\* proposed, and every variable.
LEMMA GraphIsPruned ==
    ASSUME NEW request, NEW p \in Proposals
    PROVE  LET g == Graph(request, p)
               n == Normalized(p)
           IN  /\ Goals(g) = Kept(n) /\ Kept(n) \subseteq Goals(p) /\ Vars(g) = Vars(p)
               /\ \A y \in Goals(g) : g.goals[y] = p.goals[y]
               /\ g.quals = Validated(n).quals /\ Goals(g) = Goals(Validated(n))
               /\ Targets(g) = Targets(p)
<1> DEFINE n == Normalized(p)
           v == Validated(n)
           g == Graph(request, p)
<1>1. /\ DOMAIN n = {"vars", "last", "goals", "quals", "answers", "spl"}
      /\ n.vars = p.vars /\ n.goals = p.goals /\ n.last = p.last /\ n.answers = p.answers
  BY ProposalAssumption DEF Normalized
<1>2. Vars(n) = Vars(p) /\ Goals(n) = Goals(p) /\ Kept(n) \subseteq Goals(p)
  BY <1>1 DEF Vars, Goals, Kept, Useful
<1>3. /\ DOMAIN v = {"vars", "last", "goals", "quals", "answers", "spl"}
      /\ DOMAIN v.vars = Vars(p) /\ v.goals = Restrict(p.goals, Kept(n))
      /\ v.last = p.last /\ v.answers = p.answers
  <2> HIDE DEF n
  <2> QED BY <1>1, <1>2 DEF Validated
<1>4. /\ g.goals = v.goals /\ g.quals = v.quals /\ g.last = v.last
      /\ g.answers = v.answers /\ DOMAIN g.vars = DOMAIN v.vars
  <2> HIDE DEF v
  <2>1. g = MarkGrounded(request, v)
    BY DEF Graph, v
  <2> QED BY <1>3, <2>1 DEF MarkGrounded, Vars
<1> HIDE DEF n, v, g
<1>5. /\ DOMAIN v.goals = Kept(n)
      /\ \A y \in Kept(n) : v.goals[y] = p.goals[y]
  BY <1>3 DEF Restrict
<1>6. /\ Goals(g) = Kept(n) /\ Goals(v) = Kept(n) /\ Vars(g) = Vars(p)
      /\ \A y \in Goals(g) : g.goals[y] = p.goals[y]
  BY <1>3, <1>4, <1>5 DEF Goals, Vars
<1>7. Targets(g) = Targets(p)
  BY <1>3, <1>4 DEF Targets
<1> QED BY <1>2, <1>4, <1>6, <1>7 DEF n, v, g

LEMMA PrunedIsWhole ==
    ASSUME NEW request, NEW p \in Proposals, Compiles(request, p)
    PROVE  LET g == Graph(request, p)
           IN  /\ \A y \in Goals(g) : g.goals[y].needs \subseteq Goals(g)
               /\ ~Cyclic(Dependencies(g))
               /\ Range(g.quals) \subseteq Goals(g)
<1> DEFINE n == Normalized(p)
           v == Validated(n)
           g == Graph(request, p)
<1>1. /\ Goals(g) = Goals(v) /\ Goals(g) \subseteq Goals(p)
      /\ \A y \in Goals(g) : g.goals[y] = p.goals[y]
      /\ g.quals = v.quals
  BY GraphIsPruned
<1>2. HoldsTogether(v, Dependencies(p)) /\ ~Rejected(request, n)
  BY DEF Compiles
<1> HIDE DEF g, v
<1>3. ASSUME NEW y \in Goals(g) PROVE g.goals[y].needs \subseteq Goals(g)
  <2>1. Dependencies(p)[y] = p.goals[y].needs /\ y \in DOMAIN Dependencies(p)
    BY <1>1, <1>3 DEF Dependencies
  <2> QED BY <1>1, <1>2, <1>3, <2>1 DEF HoldsTogether
<1>4. Goals(n) = Goals(p) /\ n.goals = p.goals
  BY ProposalAssumption DEF Normalized, Goals
<1>5. ~Cyclic(Dependencies(g))
  <2>1. ~Cyclic(Dependencies(n))
    BY <1>2 DEF Rejected
  <2>2. /\ DOMAIN Dependencies(g) \subseteq DOMAIN Dependencies(n)
        /\ \A y \in DOMAIN Dependencies(g) : Dependencies(g)[y] = Dependencies(n)[y]
    <3> HIDE DEF n
    <3> QED BY <1>1, <1>4 DEF Dependencies
  <2> QED BY <2>1, <2>2 DEF Cyclic
<1>6. Range(g.quals) \subseteq Goals(g)
  BY <1>1, <1>2 DEF HoldsTogether
<1> QED BY <1>3, <1>5, <1>6 DEF g

\* When some goal leads towards the answer, pruning keeps those that do, and
\* the goals it keeps connect only variables that are connected to the answer.
LEMMA PrunedIsRelevant ==
    ASSUME NEW request, NEW p \in Proposals, Compiles(request, p),
           NEW t \in Goals(p), Ends(p, t) \cap Targets(p) # {}
    PROVE  LET g == Graph(request, p)
           IN  /\ \A y \in Goals(p) : Ends(p, y) \cap Targets(p) # {} => y \in Goals(g)
               /\ \A y \in Goals(g) : Ends(g, y) \subseteq Relevant(g)
<1> DEFINE n == Normalized(p)
           g == Graph(request, p)
<1>1. /\ n.vars = p.vars /\ n.goals = p.goals /\ n.last = p.last /\ n.answers = p.answers
  BY ProposalAssumption DEF Normalized
<1>2. /\ Vars(n) = Vars(p) /\ Goals(n) = Goals(p) /\ Targets(n) = Targets(p)
      /\ \A y \in Goals(p) : Ends(n, y) = Ends(p, y)
  <2> HIDE DEF n
  <2> QED BY <1>1 DEF Vars, Goals, Targets, Ends
<1>3. /\ Goals(g) = Kept(n) /\ Vars(g) = Vars(p) /\ Targets(g) = Targets(p)
      /\ \A y \in Goals(g) : Ends(g, y) = Ends(p, y)
  <2>1. /\ Goals(g) = Kept(n) /\ Vars(g) = Vars(p) /\ Targets(g) = Targets(p)
        /\ \A y \in Goals(g) : g.goals[y] = p.goals[y]
    BY GraphIsPruned
  <2> HIDE DEF g, n
  <2> QED BY <2>1 DEF Ends
<1>4. /\ \A y \in Goals(p) : Ends(p, y) \subseteq Vars(p)
      /\ p.answers \subseteq Vars(p)
  <2>1. HoldsTogether(n, Dependencies(p))
    BY DEF Compiles, Parses
  <2> HIDE DEF n
  <2> QED BY <1>1, <1>2, <2>1 DEF HoldsTogether
<1>5. Targets(p) \subseteq Vars(p)
  <2>1. CASE p.answers = {}
    BY <1>4, <2>1 DEF Targets
  <2>2. CASE p.answers # {}
    BY <1>4, <2>2 DEF Targets
  <2> QED BY <2>1, <2>2
<1> HIDE DEF n, g
<1>6. /\ Targets(p) \subseteq Relevant(n) /\ Relevant(n) \subseteq Vars(p)
      /\ ClosedUnder(p, Relevant(n))
  <2>1. Targets(p) \subseteq Relevant(n) /\ Relevant(n) \subseteq Vars(p)
    BY <1>2, <1>5, RelevantIs
  <2>2. ASSUME NEW y \in Goals(p), NEW a \in Ends(p, y), a \in Relevant(n),
               NEW b \in Ends(p, y)
        PROVE  b \in Relevant(n)
    <3>1. b \in Vars(n)
      BY <1>2, <1>4, <2>2
    <3>2. ASSUME NEW S \in SUBSET Vars(n), Targets(n) \subseteq S, ClosedUnder(n, S)
          PROVE  b \in S
      <4>1. a \in S
        BY <2>2, <3>2, RelevantIs
      <4>2. Ends(n, y) \cap S # {} /\ y \in Goals(n) /\ b \in Ends(n, y)
        BY <1>2, <2>2, <4>1
      <4> QED BY <3>2, <4>2 DEF ClosedUnder
    <3> QED BY <3>1, <3>2, RelevantIs
  <2> QED BY <2>1, <2>2 DEF ClosedUnder
<1>7. ASSUME NEW y \in Goals(p), Ends(p, y) \cap Targets(p) # {}
      PROVE  y \in Useful(n)
  BY <1>2, <1>6, <1>7 DEF Useful
<1>8. Kept(n) = Useful(n)
  BY <1>7 DEF Kept
<1>9. ASSUME NEW y \in Goals(g), NEW x \in Ends(g, y) PROVE x \in Relevant(g)
  <2>1. y \in Goals(p) /\ y \in Useful(n) /\ x \in Ends(p, y) /\ x \in Vars(g)
    BY <1>2, <1>3, <1>4, <1>8, <1>9 DEF Useful
  <2>2. ASSUME NEW S \in SUBSET Vars(g), Targets(g) \subseteq S, ClosedUnder(g, S)
        PROVE  x \in S
    <3> DEFINE C == S \cap Relevant(n)
    <3>1. ASSUME NEW z \in Goals(n), NEW a \in Ends(n, z), a \in C, NEW b \in Ends(n, z)
          PROVE  b \in C
      <4>1. z \in Useful(n) /\ a \in Ends(p, z) /\ b \in Ends(p, z) /\ z \in Goals(p)
        BY <1>2, <3>1 DEF Useful
      <4>2. z \in Goals(g) /\ a \in Ends(g, z) /\ b \in Ends(g, z)
        BY <1>3, <1>8, <4>1
      <4>3. b \in S
        BY <2>2, <3>1, <4>2 DEF ClosedUnder
      <4>4. b \in Relevant(n)
        BY <1>6, <3>1, <4>1 DEF ClosedUnder
      <4> QED BY <4>3, <4>4
    <3>2. C \in SUBSET Vars(n) /\ Targets(n) \subseteq C /\ ClosedUnder(n, C)
      <4>1. ClosedUnder(n, C)
        BY <3>1 DEF ClosedUnder
      <4>2. C \in SUBSET Vars(n) /\ Targets(n) \subseteq C
        BY <1>2, <1>3, <1>6, <2>2
      <4> QED BY <4>1, <4>2
    <3>3. Relevant(n) \subseteq C
      <4> HIDE DEF C
      <4> QED BY <3>2, RelevantIs
    <3>4. Ends(n, y) \cap Relevant(n) # {}
      BY <2>1 DEF Useful
    <3>5. Ends(g, y) \cap S # {}
      BY <1>2, <1>3, <1>9, <2>1, <3>3, <3>4
    <3> QED BY <1>9, <2>2, <3>5 DEF ClosedUnder
  <2> QED BY <2>1, <2>2, RelevantIs
<1>10. \A y \in Goals(p) : Ends(p, y) \cap Targets(p) # {} => y \in Goals(g)
  BY <1>3, <1>7, <1>8
<1> QED BY <1>9, <1>10 DEF g

\* ExecutedGraphIsWhole holds in every run: what pruning leaves of any reply
\* that compiles needs no goal that was pruned and no circle, its qualifiers
\* have their goals, and a graph that leads to its answer has only goals that
\* are connected to it (the validator's pruning and SemanticGoalGraph).
THEOREM PruningLeavesWhole == Spec => []ExecutedGraphIsWhole
<1>1. GraphInv => ExecutedGraphIsWhole
  <2> SUFFICES ASSUME GraphInv, Executing PROVE ExecutedGraphIsWhole
    BY DEF ExecutedGraphIsWhole
  <2>1. PICK p \in Proposals : /\ Compiles(job.request, p)
                               /\ hunt.graph = Graph(job.request, p)
                               /\ hunt.reply = p
    BY DEF GraphInv, Executing
  <2> DEFINE g == hunt.graph
             towards(q) == {y \in Goals(q) : Ends(q, y) \cap Targets(q) # {}}
  <2>2. /\ \A y \in Goals(g) : g.goals[y].needs \subseteq Goals(g)
        /\ ~Cyclic(Dependencies(g))
        /\ Range(g.quals) \subseteq Goals(g)
    BY <2>1, PrunedIsWhole
  <2>3. ASSUME NEW t \in towards(p)
        PROVE  /\ towards(p) \subseteq Goals(g)
               /\ \A y \in Goals(g) : Ends(g, y) \subseteq Relevant(g)
    BY <2>1, PrunedIsRelevant
  <2> QED BY <2>1, <2>2, <2>3 DEF ExecutedGraphIsWhole
<1> QED BY <1>1, GraphInvariant, PTL

-----------------------------------------------------------------------------
(* Sums.                                                                   *)

LEMMA NatSets ==
    ASSUME NEW S, 0 \in S, \A n \in Nat : n \in S => n + 1 \in S
    PROVE  Nat \subseteq S
<1> DEFINE T == Nat \ S
           R == OpToRel(<, Nat)
<1>1. SUFFICES ASSUME T # {} PROVE FALSE
  OBVIOUS
<1>2. IsWellFoundedOn(R, Nat)
  BY NatLessThanWellFounded
<1>3. \A i, j \in Nat : j < i => <<j, i>> \in R
  BY DEF OpToRel
<1> HIDE DEF R
<1>4. PICK m \in T : \A n \in T : ~ (<<n, m>> \in R)
  BY <1>1, <1>2, WFMin
<1>5. m - 1 \in Nat /\ m - 1 < m /\ m \in Nat
  BY <1>4
<1>6. m - 1 \notin T
  BY <1>3, <1>4, <1>5
<1> QED BY <1>4, <1>5, <1>6

Upto(f, s, n) == f = [i \in 0 .. n |-> IF i = 0 THEN 0 ELSE f[i - 1] + s[i]]

LEMMA UptoSteps ==
    ASSUME NEW f, NEW s, NEW n \in Nat, Upto(f, s, n)
    PROVE  f[0] = 0 /\ \A i \in 1 .. n : f[i] = f[i - 1] + s[i]
<1>1. f[0] = 0
  BY DEF Upto
<1>2. ASSUME NEW i \in 1 .. n PROVE f[i] = f[i - 1] + s[i]
  <2>1. i \in 0 .. n /\ i # 0
    OBVIOUS
  <2> QED BY <2>1, Zenon DEF Upto
<1> QED BY <1>1, <1>2

LEMMA UptoExists ==
    ASSUME NEW s, NEW n \in Nat
    PROVE  \E f : Upto(f, s, n)
<1> DEFINE N == {k \in Nat : \E f : Upto(f, s, k)}
<1>1. 0 \in N
  <2>1. Upto([i \in 0 .. 0 |-> 0], s, 0)
    BY DEF Upto
  <2> QED BY <2>1
<1>2. ASSUME NEW k \in Nat, k \in N PROVE k + 1 \in N
  <2>1. PICK f : Upto(f, s, k)
    BY <1>2
  <2> DEFINE g == [i \in 0 .. k + 1 |-> IF i \in 0 .. k THEN f[i] ELSE f[k] + s[k + 1]]
  <2>2. ASSUME NEW i \in 0 .. k + 1
        PROVE  g[i] = IF i = 0 THEN 0 ELSE g[i - 1] + s[i]
    <3>1. CASE i = 0
      <4>1. f[0] = 0 /\ 0 \in 0 .. k
        BY <2>1, UptoSteps
      <4> QED BY <3>1, <4>1
    <3>2. CASE i \in 1 .. k
      <4>1. g[i] = f[i] /\ g[i - 1] = f[i - 1]
        BY <3>2
      <4>2. f[i] = f[i - 1] + s[i]
        BY <2>1, <3>2, UptoSteps
      <4> QED BY <3>2, <4>1, <4>2
    <3>3. CASE i = k + 1
      <4>1. g[i - 1] = f[k] /\ i # 0 /\ i \notin 0 .. k
        BY <3>3
      <4> QED BY <3>3, <4>1
    <3> QED BY <3>1, <3>2, <3>3
  <2>3. Upto(g, s, k + 1)
    BY <2>2 DEF Upto
  <2> QED BY <2>3
<1>3. Nat \subseteq N
  <2> HIDE DEF N
  <2> QED BY <1>1, <1>2, NatSets
<1> QED BY <1>3

LEMMA TotalIsUpto ==
    ASSUME NEW s, Len(s) \in Nat
    PROVE  \E f : Upto(f, s, Len(s)) /\ Total(s) = f[Len(s)]
<1> DEFINE f == CHOOSE g : Upto(g, s, Len(s))
<1>1. Upto(f, s, Len(s))
  BY UptoExists
<1>2. Total(s) = f[Len(s)]
  BY DEF Total, Upto
<1> QED BY <1>1, <1>2

LEMMA UptoAgree ==
    ASSUME NEW f, NEW g, NEW s, NEW t, NEW m \in Nat, NEW n \in Nat,
           Upto(f, s, m), Upto(g, t, n), m <= n, \A i \in 1 .. m : s[i] = t[i]
    PROVE  f[m] = g[m]
<1> DEFINE N == {k \in Nat : k <= m => f[k] = g[k]}
<1>1. 0 \in N
  BY UptoSteps
<1>2. ASSUME NEW k \in Nat, k \in N PROVE k + 1 \in N
  <2> SUFFICES ASSUME k + 1 <= m PROVE f[k + 1] = g[k + 1]
    OBVIOUS
  <2>1. k + 1 \in 1 .. m /\ k + 1 \in 1 .. n /\ (k + 1) - 1 = k /\ f[k] = g[k]
    BY <1>2
  <2>2. f[k + 1] = f[(k + 1) - 1] + s[k + 1] /\ g[k + 1] = g[(k + 1) - 1] + t[k + 1]
    BY <2>1, UptoSteps
  <2>3. s[k + 1] = t[k + 1]
    BY <2>1
  <2> QED BY <2>1, <2>2, <2>3
<1>3. Nat \subseteq N
  <2> HIDE DEF N
  <2> QED BY <1>1, <1>2, NatSets
<1> QED BY <1>3

LEMMA TotalEmpty == Total(<< >>) = 0
<1>1. PICK f : Upto(f, << >>, Len(<< >>)) /\ Total(<< >>) = f[Len(<< >>)]
  BY TotalIsUpto
<1> QED BY <1>1, UptoSteps

\* A number more in the sequence is that much more in the sum.
LEMMA TotalAppend ==
    ASSUME NEW s \in Seq(Nat), NEW x \in Nat
    PROVE  Total(Append(s, x)) = Total(s) + x
<1> DEFINE t == Append(s, x)
           n == Len(s)
<1>1. /\ t \in Seq(Nat) /\ Len(t) = n + 1 /\ t[n + 1] = x /\ n \in Nat
      /\ \A i \in 1 .. n : t[i] = s[i]
  OBVIOUS
<1>2. PICK f : Upto(f, s, n) /\ Total(s) = f[n]
  BY TotalIsUpto
<1>3. PICK g : Upto(g, t, n + 1) /\ Total(t) = g[n + 1]
  <2>1. n + 1 \in Nat
    BY <1>1
  <2>2. PICK g : Upto(g, t, Len(t)) /\ Total(t) = g[Len(t)]
    BY <1>1, <2>1, TotalIsUpto
  <2> QED BY <1>1, <2>2
<1> HIDE DEF t, n
<1>4. f[n] = g[n]
  <2>1. n + 1 \in Nat /\ n <= n + 1
    BY <1>1
  <2> QED BY <1>1, <1>2, <1>3, <2>1, UptoAgree
<1>5. g[n + 1] = g[n] + x
  <2>1. n + 1 \in Nat /\ n + 1 \in 1 .. n + 1 /\ (n + 1) - 1 = n
    BY <1>1
  <2>2. g[n + 1] = g[(n + 1) - 1] + t[n + 1]
    BY <1>3, <2>1, UptoSteps
  <2> QED BY <1>1, <2>1, <2>2
<1>6. Total(t) = Total(s) + x
  BY <1>2, <1>3, <1>4, <1>5
<1> QED BY <1>6 DEF t

-----------------------------------------------------------------------------
(* The ledger of calls.                                                    *)

Callers == {"compiler", "source_profiler", "planner", "evaluator"}
Counted == Components \ {"evaluator_refine"}

\* While a call is made its record has room in the ledger; the ledger sums up
\* to what was sent and spent.
LedgerInv ==
    /\ calls \in Seq(Records) /\ tokens \in Nat /\ requests \in Nat
    /\ call \in [by : Callers \cup {"abduction", "nobody"}, attempt : 0..MaxAttempts,
                 usage : Nat]
    /\ call # NoCall => call.by # "nobody" /\ call.attempt \in 1..MaxAttempts
    /\ call.by \in Callers => Len(calls) < MaxCalls
    /\ tokens = TokensIn(calls)
    /\ job.command = "hunt" =>
            call.by # "abduction" /\ requests = AttemptsIn(calls, Counted) + call.attempt

\* What a step does with the model: it leaves it alone, or a component asks
\* or is answered, or the engine notes a call of its own, or an alert's
\* abduction asks outside the ledger.
ModelStep ==
    \/ UNCHANGED llmVars
    \/ \E c \in Callers : Ask(c)
    \/ \E o \in Outcomes : call.by \in Callers /\ Finish(o)
    \/ \E o \in Outcomes : call # NoCall /\ Repeat(o)
    \/ call = NoCall /\ ~IsExhausted /\ Note
    \/ job.command = "alert" /\ Generate
    \/ \E o \in Outcomes : call.by = "abduction" /\ FinishGenerate(o)

LEMMA StepsOfModel ==
    ASSUME CallInv, ProgressInv, Step
    PROVE  ModelStep /\ job' = job
<1> USE DEF ModelStep, Callers
<1>1. CASE StartFails \/ CompileInsufficient \/ CompileRefuses
  BY <1>1 DEF StartFails, CompileInsufficient, CompileRefuses, Compiled, Abort
<1>2. ASSUME NEW asked, CompileRules(asked) PROVE ModelStep /\ job' = job
  BY <1>2 DEF CompileRules
<1>3. CASE CompileAsks
  BY <1>3 DEF CompileAsks, Refused, Abort
<1>4. ASSUME NEW o \in Outcomes, CompilerReplies(o) PROVE ModelStep /\ job' = job
  BY <1>4 DEF CompilerReplies, Compiled
<1>5. ASSUME NEW o \in Outcomes, CompilerFails(o) PROVE ModelStep /\ job' = job
  BY <1>5 DEF CompilerFails, Abort
<1>6. ASSUME NEW n, Gaps(n) PROVE ModelStep /\ job' = job
  BY <1>6 DEF Gaps
<1>7. CASE AskProfiler
  BY <1>7 DEF AskProfiler, Refused, BatchDone
<1>8. ASSUME NEW o \in Outcomes, ProfilerAnswers(o) PROVE ModelStep /\ job' = job
  BY <1>8 DEF ProfilerAnswers, BatchDone
<1>9. ASSUME NEW routed, NEW cards, NEW undecided, RunGraph(routed, cards, undecided)
      PROVE  ModelStep /\ job' = job
  BY <1>9 DEF RunGraph
<1>10. CASE PlanCached \/ Unplannable \/ PlanTemplate \/ StopHunt
  BY <1>10 DEF PlanCached, Unplannable, PlanTemplate, StopHunt
<1>11. CASE AskPlanner
  BY <1>11 DEF AskPlanner, Refused, Abort
<1>12. ASSUME NEW o \in Outcomes, PlannerAnswers(o) PROVE ModelStep /\ job' = job
  BY <1>12 DEF PlannerAnswers, Abort
<1>13. CASE Refine
  <2>1. call = NoCall /\ job' = job
    BY <1>13 DEF Refine, Turn, Acting
  <2>2. Ask("evaluator") \/ (IF IsExhausted THEN UNCHANGED llmVars ELSE Note)
    BY <1>13 DEF Refine
  <2> QED BY <2>1, <2>2
<1>14. CASE Evaluate
  BY <1>14 DEF Evaluate, Refused
<1>15. ASSUME NEW o \in Outcomes, EvaluatorAnswers(o) PROVE ModelStep /\ job' = job
  BY <1>15 DEF EvaluatorAnswers
<1>16. CASE Judged \/ Halt \/ Sign \/ Decline \/ Resume \/ PromptRaises
  BY <1>16 DEF Judged, Halt, Sign, Decline, Resume, PromptRaises, Abort
<1>17. CASE Investigate
  BY <1>17 DEF Investigate
<1>18. CASE InvestigationEnds
  BY <1>18 DEF InvestigationEnds
<1>19. ASSUME NEW o \in Outcomes, Repeats(o) PROVE ModelStep /\ job' = job
  BY <1>19 DEF Repeats
<1>20. ASSUME NEW o \in Outcomes, Abducted(o) PROVE ModelStep /\ job' = job
  BY <1>20 DEF Abducted
<1> QED BY <1>1, <1>2, <1>3, <1>4, <1>5, <1>6, <1>7, <1>8, <1>9, <1>10, <1>11, <1>12, <1>13,
           <1>14, <1>15, <1>16, <1>17, <1>18, <1>19, <1>20 DEF Step, Answered

LEMMA FunctionIsSeq ==
    ASSUME NEW n \in Nat, NEW T, NEW f, f = [i \in 1..n |-> f[i]],
           \A i \in 1..n : f[i] \in T
    PROVE  f \in Seq(T) /\ Len(f) = n /\ DOMAIN f = 1..n
<1>1. f \in [1..n -> T]
  OBVIOUS
<1>2. f \in Seq(T)
  BY <1>1
<1> QED BY <1>1, <1>2

LEMMA OneMore ==
    ASSUME NEW s \in Seq(Nat), NEW x \in Nat, NEW t \in Seq(Nat), Len(t) = Len(s) + 1,
           t[Len(s) + 1] = x, \A i \in 1..Len(s) : t[i] = s[i]
    PROVE  t = Append(s, x)
<1> DEFINE u == Append(s, x)
<1>1. u \in Seq(Nat) /\ Len(u) = Len(s) + 1 /\ u[Len(s) + 1] = x
      /\ \A i \in 1..Len(s) : u[i] = s[i]
  OBVIOUS
<1> HIDE DEF u
<1>2. \A i \in 1..Len(t) : i = Len(s) + 1 \/ i \in 1..Len(s)
  OBVIOUS
<1>3. \A i \in 1..Len(t) : t[i] = u[i]
  BY <1>1, <1>2
<1>4. t = u
  BY <1>1, <1>3
<1> QED BY <1>4 DEF u

LEMMA LedgerIsTyped ==
    ASSUME NEW ls \in Seq(Records), NEW cs
    PROVE  LET ts == [i \in DOMAIN ls |-> ls[i].tokens]
               us == [i \in DOMAIN ls |-> IF ls[i].by \in cs THEN ls[i].attempts
                                                              ELSE 0]
           IN  /\ ts \in Seq(Nat) /\ Len(ts) = Len(ls) /\ DOMAIN ts = 1..Len(ls)
               /\ us \in Seq(Nat) /\ Len(us) = Len(ls) /\ DOMAIN us = 1..Len(ls)
<1> DEFINE ts == [i \in DOMAIN ls |-> ls[i].tokens]
           us == [i \in DOMAIN ls |-> IF ls[i].by \in cs THEN ls[i].attempts ELSE 0]
<1>1. ls \in Seq(Records) /\ MaxAttempts \in Nat
  BY CallAssumption
<1>2. /\ DOMAIN ls = 1..Len(ls) /\ Len(ls) \in Nat
      /\ \A i \in 1..Len(ls) : ls[i].tokens \in Nat /\ ls[i].attempts \in Nat
  <2>1. DOMAIN ls = 1..Len(ls) /\ Len(ls) \in Nat
        /\ \A i \in 1..Len(ls) : ls[i] \in Records
    BY <1>1
  <2>2. \A r \in Records : r.tokens \in Nat /\ r.attempts \in Nat
    BY <1>1 DEF Records
  <2> QED BY <2>1, <2>2
<1>3. ts = [i \in 1..Len(ls) |-> ts[i]] /\ us = [i \in 1..Len(ls) |-> us[i]]
  BY <1>2
<1>4. \A i \in 1..Len(ls) : ts[i] \in Nat /\ us[i] \in Nat
  BY <1>2
<1> HIDE DEF ts, us
<1>5. ts \in Seq(Nat) /\ Len(ts) = Len(ls) /\ DOMAIN ts = 1..Len(ls)
  BY <1>2, <1>3, <1>4, FunctionIsSeq
<1>6. us \in Seq(Nat) /\ Len(us) = Len(ls) /\ DOMAIN us = 1..Len(ls)
  BY <1>2, <1>3, <1>4, FunctionIsSeq
<1> QED BY <1>5, <1>6 DEF ts, us

LEMMA TotalIsNat ==
    ASSUME NEW s \in Seq(Nat)
    PROVE  Total(s) \in Nat
<1>1. PICK f : Upto(f, s, Len(s)) /\ Total(s) = f[Len(s)]
  BY TotalIsUpto
<1> DEFINE N == {k \in Nat : k <= Len(s) => f[k] \in Nat}
<1>2. 0 \in N
  BY <1>1, UptoSteps
<1>3. ASSUME NEW k \in Nat, k \in N PROVE k + 1 \in N
  <2> SUFFICES ASSUME k + 1 <= Len(s) PROVE f[k + 1] \in Nat
    OBVIOUS
  <2>1. k + 1 \in 1 .. Len(s) /\ (k + 1) - 1 = k /\ f[k] \in Nat
    BY <1>3
  <2>2. f[k + 1] = f[(k + 1) - 1] + s[k + 1]
    BY <1>1, <2>1, UptoSteps
  <2>3. s[k + 1] \in Nat
    BY <2>1
  <2> QED BY <2>1, <2>2, <2>3
<1>4. Nat \subseteq N
  <2> HIDE DEF N
  <2> QED BY <1>2, <1>3, NatSets
<1> QED BY <1>1, <1>4

LEMMA LedgerSums == LedgerInv => AttemptsIn(calls, Counted) \in Nat
BY LedgerIsTyped, TotalIsNat DEF AttemptsIn, LedgerInv

\* A record more adds its tokens and its attempts.
LEMMA RecordAdds ==
    ASSUME NEW old \in Seq(Records), NEW r \in Records, NEW new \in Seq(Records), NEW cs,
           Len(new) = Len(old) + 1, new[Len(old) + 1] = r,
           \A i \in 1..Len(old) : new[i] = old[i]
    PROVE  /\ TokensIn(new) = TokensIn(old) + r.tokens
           /\ AttemptsIn(new, cs)
                = AttemptsIn(old, cs) + (IF r.by \in cs THEN r.attempts ELSE 0)
<1> DEFINE ts == [i \in DOMAIN old |-> old[i].tokens]
           us == [i \in DOMAIN old |-> IF old[i].by \in cs THEN old[i].attempts ELSE 0]
           tn == [i \in DOMAIN new |-> new[i].tokens]
           un == [i \in DOMAIN new |-> IF new[i].by \in cs THEN new[i].attempts ELSE 0]
           extra == IF r.by \in cs THEN r.attempts ELSE 0
<1>1. /\ old \in Seq(Records) /\ DOMAIN old = 1..Len(old) /\ Len(old) \in Nat
      /\ MaxAttempts \in Nat
  BY CallAssumption
<1>2. /\ new \in Seq(Records) /\ DOMAIN new = 1..Len(old) + 1
  BY <1>1
<1>3. r.tokens \in Nat /\ extra \in Nat
  BY <1>1 DEF Records
<1>4. /\ ts \in Seq(Nat) /\ us \in Seq(Nat) /\ Len(ts) = Len(old) /\ Len(us) = Len(old)
      /\ tn \in Seq(Nat) /\ Len(tn) = Len(old) + 1
      /\ un \in Seq(Nat) /\ Len(un) = Len(old) + 1
  <2>1. Len(new) = Len(old) + 1
    BY <1>1
  <2>2. ts \in Seq(Nat) /\ us \in Seq(Nat) /\ Len(ts) = Len(old) /\ Len(us) = Len(old)
    BY <1>1, LedgerIsTyped
  <2>3. tn \in Seq(Nat) /\ un \in Seq(Nat) /\ Len(tn) = Len(new) /\ Len(un) = Len(new)
    BY <1>2, LedgerIsTyped
  <2> HIDE DEF ts, us, tn, un
  <2> QED BY <2>1, <2>2, <2>3
<1>5. tn[Len(old) + 1] = r.tokens /\ \A i \in 1..Len(old) : tn[i] = ts[i]
  BY <1>1, <1>2
<1>6. un[Len(old) + 1] = extra /\ \A i \in 1..Len(old) : un[i] = us[i]
  BY <1>1, <1>2
<1> HIDE DEF ts, us, tn, un, extra
<1>7. tn = Append(ts, r.tokens)
  BY <1>3, <1>4, <1>5, OneMore
<1>8. un = Append(us, extra)
  BY <1>3, <1>4, <1>6, OneMore
<1>9. Total(tn) = Total(ts) + r.tokens /\ Total(un) = Total(us) + extra
  BY <1>3, <1>4, <1>7, <1>8, TotalAppend
<1> QED BY <1>9 DEF TokensIn, AttemptsIn, ts, us, tn, un, extra

LEMMA LedgerKept ==
    ASSUME LedgerInv, calls' = calls, tokens' = tokens, job' = job, requests' \in Nat,
           call' \in [by : Callers \cup {"abduction", "nobody"}, attempt : 0..MaxAttempts,
                      usage : Nat],
           call' # NoCall => call'.by # "nobody" /\ call'.attempt \in 1..MaxAttempts,
           call'.by \in Callers => Len(calls) < MaxCalls,
           job.command = "hunt" =>
              call'.by # "abduction" /\ requests' = AttemptsIn(calls, Counted) + call'.attempt
    PROVE  LedgerInv'
<1>1. TokensIn(calls') = TokensIn(calls) /\ AttemptsIn(calls', Counted) = AttemptsIn(calls, Counted)
  OBVIOUS
<1> QED BY <1>1 DEF LedgerInv, NoCall

LEMMA LedgerGrows ==
    ASSUME LedgerInv, job' = job, NEW c \in Components, NEW n \in 1..MaxAttempts,
           NEW used \in Nat, Len(calls) < MaxCalls, RecordCall(c, n, used),
           requests' = requests, call' = NoCall,
           job.command = "hunt" =>
              requests = AttemptsIn(calls, Counted) + (IF c \in Counted THEN n ELSE 0)
    PROVE  LedgerInv'
<1> DEFINE r == [by |-> c, attempts |-> n, tokens |-> used]
<1>1. calls' = Append(calls, r) /\ tokens' = tokens + used
  <2>1. ~(Len(calls) >= MaxCalls)
    BY CallAssumption DEF LedgerInv
  <2> QED BY <2>1 DEF RecordCall
<1>2. r \in Records /\ r.tokens = used /\ r.by = c /\ r.attempts = n
  BY DEF Records
<1> HIDE DEF r
<1>3. /\ calls' \in Seq(Records) /\ TokensIn(calls') = TokensIn(calls) + used
      /\ AttemptsIn(calls', Counted)
            = AttemptsIn(calls, Counted) + (IF c \in Counted THEN n ELSE 0)
  <2>1. calls \in Seq(Records)
    BY DEF LedgerInv
  <2>2. /\ calls' \in Seq(Records) /\ Len(calls') = Len(calls) + 1
        /\ calls'[Len(calls) + 1] = r /\ \A i \in 1..Len(calls) : calls'[i] = calls[i]
    BY <1>1, <1>2, <2>1
  <2> QED BY <1>2, <2>1, <2>2, RecordAdds
<1>4. call' = [by |-> "nobody", attempt |-> 0, usage |-> 0] /\ MaxAttempts \in Nat
  BY CallAssumption DEF NoCall
<1> QED BY <1>1, <1>3, <1>4 DEF LedgerInv, NoCall, Callers

LEMMA LedgerInvStep ==
    ASSUME LedgerInv, CallInv, ModelStep, job' = job
    PROVE  LedgerInv'
<1>1. /\ Callers \subseteq Components /\ Callers \subseteq Counted
      /\ "evaluator_refine" \in Components \ Counted
      /\ "abduction" \notin Callers /\ "nobody" \notin Callers
  BY RunAssumption DEF Callers, Counted
<1>2. /\ MaxAttempts \in Nat \ {0} /\ ReplySize \in Nat
      /\ \A c \in Components : PromptSize[c] \in Nat
      /\ \A o \in Outcomes : o.usage \in Nat
  BY CallAssumption DEF Outcomes
<1>3. /\ requests \in Nat /\ call.usage \in Nat
      /\ call.by \in Callers \cup {"abduction", "nobody"}
      /\ DOMAIN call = {"by", "attempt", "usage"}
  BY DEF LedgerInv
<1>4. CASE UNCHANGED llmVars
  <2>1. calls' = calls /\ tokens' = tokens /\ requests' = requests /\ call' = call
    BY <1>4 DEF llmVars
  <2>2. call' # NoCall => call # NoCall
    BY <2>1 DEF NoCall
  <2> QED BY <2>1, <2>2, LedgerKept DEF LedgerInv
<1>5. ASSUME NEW c \in Callers, Ask(c) PROVE LedgerInv'
  <2>1. /\ call = NoCall /\ ~IsExhausted /\ requests' = requests + 1
        /\ call' = [by |-> c, attempt |-> 1, usage |-> 0]
        /\ calls' = calls /\ tokens' = tokens
    BY <1>5 DEF Ask, Preflight, IsComponentExhausted
  <2>2. Len(calls) < MaxCalls
    BY <2>1, CallAssumption DEF IsExhausted, LedgerInv
  <2>3. job.command = "hunt" => requests = AttemptsIn(calls, Counted) + 0
    BY <2>1 DEF LedgerInv, NoCall
  <2>4. AttemptsIn(calls, Counted) \in Nat
    BY LedgerSums
  <2>5. job.command = "hunt" =>
           call'.by # "abduction" /\ requests' = AttemptsIn(calls, Counted) + call'.attempt
    BY <1>1, <2>1, <2>3, <2>4
  <2>6. call'.by # "nobody" /\ call'.attempt \in 1..MaxAttempts /\ requests' \in Nat
        /\ call' \in [by : Callers \cup {"abduction", "nobody"}, attempt : 0..MaxAttempts,
                      usage : Nat]
    BY <1>1, <1>2, <1>3, <2>1
  <2> QED BY <2>1, <2>2, <2>5, <2>6, LedgerKept
<1>6. ASSUME NEW o \in Outcomes, call.by \in Callers, Finish(o) PROVE LedgerInv'
  <2>1. /\ RecordCall(call.by, call.attempt, Spent(o)) /\ call' = NoCall
        /\ requests' = requests
    BY <1>6 DEF Finish
  <2>2. call # NoCall
    BY <1>1, <1>6 DEF NoCall
  <2>3. call.attempt \in 1..MaxAttempts /\ Len(calls) < MaxCalls
    BY <1>6, <2>2 DEF LedgerInv
  <2>4. Spent(o) \in Nat
    BY <1>1, <1>2, <1>3, <1>6 DEF Spent, Usage, EstimateOfNothing
  <2>5. job.command = "hunt" => requests = AttemptsIn(calls, Counted) + call.attempt
    BY DEF LedgerInv
  <2> QED BY <1>1, <1>6, <2>1, <2>3, <2>4, <2>5, LedgerGrows
<1>7. ASSUME NEW o \in Outcomes, call # NoCall, Repeat(o) PROVE LedgerInv'
  <2>1. /\ call.attempt < MaxAttempts /\ requests' = requests + 1
        /\ call' = [call EXCEPT !.attempt = @ + 1, !.usage = Usage(o)]
        /\ calls' = calls /\ tokens' = tokens
    BY <1>7 DEF Repeat, Again
  <2>2. /\ call'.by = call.by /\ call'.attempt = call.attempt + 1
        /\ call'.usage = Usage(o) /\ DOMAIN call' = {"by", "attempt", "usage"}
    BY <1>3, <2>1
  <2>3. call.by # "nobody" /\ call.attempt \in 1..MaxAttempts
    BY <1>7 DEF LedgerInv
  <2>4. Usage(o) \in Nat
    BY <1>2, <1>3 DEF Usage
  <2>5. call'.by # "nobody" /\ call'.attempt \in 1..MaxAttempts /\ requests' \in Nat
    BY <1>2, <1>3, <2>1, <2>2, <2>3
  <2>6. call' \in [by : Callers \cup {"abduction", "nobody"}, attempt : 0..MaxAttempts,
                   usage : Nat]
    <3>1. call' = [by |-> call.by, attempt |-> call.attempt + 1, usage |-> Usage(o)]
      BY <2>1 DEF LedgerInv
    <3>2. call.attempt + 1 \in 0..MaxAttempts
      BY <1>2, <2>1, <2>3
    <3> QED BY <1>3, <2>4, <3>1, <3>2
  <2>7. call'.by \in Callers => Len(calls) < MaxCalls
    BY <2>2 DEF LedgerInv
  <2>8. AttemptsIn(calls, Counted) \in Nat
    BY LedgerSums
  <2>9. job.command = "hunt" =>
           call'.by # "abduction" /\ requests' = AttemptsIn(calls, Counted) + call'.attempt
    <3>1. job.command = "hunt" =>
             call.by # "abduction" /\ requests = AttemptsIn(calls, Counted) + call.attempt
      BY DEF LedgerInv
    <3> QED BY <2>1, <2>2, <2>3, <2>8, <3>1
  <2> QED BY <2>1, <2>5, <2>6, <2>7, <2>9, LedgerKept
<1>8. CASE call = NoCall /\ ~IsExhausted /\ Note
  <2>1. /\ RecordCall("evaluator_refine", 1, PromptSize["evaluator_refine"] + ReplySize)
        /\ call' = NoCall /\ requests' = requests
    BY <1>8 DEF Note
  <2>2. Len(calls) < MaxCalls
    BY <1>8, CallAssumption DEF IsExhausted, LedgerInv
  <2>3. job.command = "hunt" => requests = AttemptsIn(calls, Counted) + 0
    BY <1>8 DEF LedgerInv, NoCall
  <2>4. 1 \in 1..MaxAttempts /\ PromptSize["evaluator_refine"] + ReplySize \in Nat
    BY <1>1, <1>2
  <2> QED BY <1>1, <2>1, <2>2, <2>3, <2>4, LedgerGrows
<1>9. CASE job.command = "alert" /\ Generate
  <2>1. /\ call' = [by |-> "abduction", attempt |-> 1, usage |-> 0]
        /\ requests' = requests + 1 /\ calls' = calls /\ tokens' = tokens
        /\ job.command # "hunt"
    BY <1>9 DEF Generate
  <2>2. /\ call'.by = "abduction" /\ call'.attempt \in 1..MaxAttempts /\ requests' \in Nat
        /\ call' \in [by : Callers \cup {"abduction", "nobody"}, attempt : 0..MaxAttempts,
                      usage : Nat]
    BY <1>2, <1>3, <2>1
  <2> QED BY <1>1, <2>1, <2>2, LedgerKept
<1>10. ASSUME NEW o \in Outcomes, call.by = "abduction", FinishGenerate(o) PROVE LedgerInv'
  <2>1. /\ call' = NoCall /\ calls' = calls /\ tokens' = tokens /\ requests' = requests
        /\ job.command # "hunt"
    BY <1>10 DEF FinishGenerate, LedgerInv
  <2>2. /\ call'.by = "nobody" /\ requests' \in Nat
        /\ call' \in [by : Callers \cup {"abduction", "nobody"}, attempt : 0..MaxAttempts,
                      usage : Nat]
    BY <1>2, <1>3, <2>1 DEF NoCall
  <2>3. ~(call' # NoCall)
    BY <2>1
  <2> QED BY <1>1, <2>1, <2>2, <2>3, LedgerKept
<1> QED BY <1>4, <1>5, <1>6, <1>7, <1>8, <1>9, <1>10 DEF ModelStep

LEMMA LedgerEmpty == TokensIn(<< >>) = 0 /\ AttemptsIn(<< >>, Counted) = 0
<1> DEFINE cs == << >>
<1>1. /\ [i \in DOMAIN cs |-> cs[i].tokens] = << >>
      /\ [i \in DOMAIN cs |-> IF cs[i].by \in Counted THEN cs[i].attempts ELSE 0] = << >>
  OBVIOUS
<1> QED BY <1>1, TotalEmpty DEF TokensIn, AttemptsIn

\* EveryRequestIsAccounted holds of every run: the ledger of a hunt holds every
\* request that was sent, repeated and failed ones too, and no record is
\* refused after its request was sent (LLMUsageTracker.record_call and
\* create_llm_caller).
THEOREM LedgerIsWhole == Spec => []EveryRequestIsAccounted
<1>1. Init => LedgerInv
  <2> SUFFICES ASSUME Init PROVE LedgerInv
    OBVIOUS
  <2>1. calls = << >> /\ tokens = 0 /\ requests = 0 /\ call = NoCall /\ job.command = "none"
    BY DEF Init
  <2>2. TokensIn(calls) = 0 /\ AttemptsIn(calls, Counted) = 0
    BY <2>1, LedgerEmpty
  <2>3. MaxAttempts \in Nat
    BY CallAssumption
  <2> QED BY <2>1, <2>2, <2>3 DEF LedgerInv, NoCall, Callers
<1>2. LedgerInv /\ CallInv /\ ProgressInv /\ [Next]_vars => LedgerInv'
  <2> SUFFICES ASSUME LedgerInv, CallInv, ProgressInv, [Next]_vars PROVE LedgerInv'
    OBVIOUS
  <2>1. ASSUME NEW j \in Jobs, Begin(j) PROVE LedgerInv'
    <3>0. stage = "idle" /\ NewTracker /\ call' = call
      BY <2>1 DEF Begin
    <3>1. /\ calls' = << >> /\ tokens' = 0 /\ requests' = 0 /\ call' = call
          /\ call = NoCall
      BY <3>0 DEF NewTracker, CallInv
    <3>2. TokensIn(calls') = 0 /\ AttemptsIn(calls', Counted) = 0
      BY <3>1, LedgerEmpty
    <3>3. MaxAttempts \in Nat
      BY CallAssumption
    <3>4. << >> \in Seq(Records) /\ call' = [by |-> "nobody", attempt |-> 0, usage |-> 0]
      BY <3>1 DEF NoCall
    <3>5. call'.by \notin Callers /\ call'.by # "abduction" /\ call' = NoCall
      BY <3>1, <3>4 DEF Callers
    <3>6. call' \in [by : Callers \cup {"abduction", "nobody"}, attempt : 0..MaxAttempts,
                     usage : Nat]
      BY <3>3, <3>4
    <3>7. requests' = AttemptsIn(calls', Counted) + call'.attempt
      BY <3>1, <3>2, <3>4
    <3> QED BY <3>1, <3>2, <3>4, <3>5, <3>6, <3>7 DEF LedgerInv
  <2>2. CASE Step
    BY <2>2, StepsOfModel, LedgerInvStep
  <2>3. CASE UNCHANGED vars
    <3>1. UNCHANGED llmVars /\ job' = job
      BY <2>3 DEF vars
    <3> QED BY <3>1, LedgerInvStep DEF ModelStep
  <2> QED BY <2>1, <2>2, <2>3 DEF Next
<1>3. LedgerInv => EveryRequestIsAccounted
  BY DEF LedgerInv, EveryRequestIsAccounted, Counted
<1>4. Init => CallInv /\ ProgressInv
  BY DEF Init, CallInv, ProgressInv, NoCall, Fresh
<1>5. GraphInv /\ CallInv /\ ProgressInv /\ [Next]_vars => (CallInv /\ ProgressInv)'
  BY CallInvNext, ProgressInvNext
<1> QED BY <1>1, <1>2, <1>3, <1>4, <1>5, GraphInvariant, PTL DEF Spec

=============================================================================
