------------------------- MODULE SemanticPlanProofs -------------------------
(***************************************************************************)
(* For every set of plans, every catalog of operations and every bound:    *)
(* the executor derives values from verified values only, and what it has  *)
(* verified it never touches again.                                        *)
(***************************************************************************)
EXTENDS SemanticPlanProperties, TLAPS

\* The step is being worked on: its operations are tried one after another.
Working == phase \in {"stage", "query", "settle", "bind"}

\* A walk whose first page failed is never complete.
IsWalk(w) ==
    /\ w = [cand |-> w.cand, page |-> w.page, ok |-> w.ok,
            complete |-> w.complete, rows |-> w.rows]
    /\ w.ok \in BOOLEAN /\ w.complete \in BOOLEAN
    /\ ~ w.ok => ~ w.complete

\* While a step is worked on its input stays verified and its output is not
\* verified yet; a failed result never counts as complete.
ChainInv ==
    /\ plan \in Plans
    /\ bindings = [v \in Variables |-> bindings[v]]
    /\ \A v \in Variables : bindings[v].status \in {"NONE", "CANDIDATE", "VERIFIED"}
    /\ remaining \subseteq Steps
    /\ IsWalk(walk)
    /\ ~ last.ok => ~ last.complete
    /\ Working => /\ at \in Steps
                  /\ bindings[Step.input].status = "VERIFIED"
                  /\ bindings[Step.output].status # "VERIFIED"

LEMMA StepsAreTyped ==
    ASSUME NEW p \in Plans, NEW s \in DOMAIN p.steps
    PROVE  p.steps[s].input \in Variables /\ p.steps[s].output \in Variables
BY PlansAssumption DEF IsPlan, IsStep

LEMMA ChainInvInit == Init => ChainInv
<1> SUFFICES ASSUME Init PROVE ChainInv
  OBVIOUS
<1>1. IsWalk(NoWalk)
  BY DEF NoWalk, IsWalk
<1> QED BY <1>1 DEF Init, Given, ChainInv, NoResult, Working, Steps

\* Turning to the next method, or finishing, keeps what ChainInv says of a step.
LEMMA NextMethodKeeps ==
    ASSUME ChainInv, Working, NextMethod, UNCHANGED <<plan, walk, last>>,
           bindings' = [v \in Variables |-> bindings'[v]],
           bindings'[Step.input] = bindings[Step.input],
           bindings'[Step.output].status # "VERIFIED",
           \A v \in Variables : bindings'[v].status \in {"NONE", "CANDIDATE", "VERIFIED"}
    PROVE  ChainInv'
<1>1. CASE Finish
  BY <1>1 DEF ChainInv, Finish, Working, Steps
<1>2. CASE /\ method' = method + 1 /\ stage' = 1 /\ phase' = "stage"
           /\ UNCHANGED <<remaining, at, progress>>
  BY <1>2 DEF ChainInv, Working, Steps, Step
<1> QED BY <1>1, <1>2 DEF NextMethod

\* A page keeps a failed walk incomplete.
LEMMA QueryPageKeepsWalk ==
    ASSUME IsWalk(walk), NEW p \in Pages, QueryPage(p)
    PROVE  IsWalk(walk')
<1> DEFINE first == walk.cand = 1 /\ walk.page = 1
           seen == [walk EXCEPT !.ok = IF first THEN p.ok ELSE @,
                                !.rows = @ \o p.rows]
<1>1. /\ p.ok \in BOOLEAN /\ p.complete \in BOOLEAN
      /\ ~ p.ok => ~ p.complete
      /\ p.more => p.ok
  BY DEF Pages
<1>2. /\ seen = [cand |-> walk.cand, page |-> walk.page,
                 ok |-> IF first THEN p.ok ELSE walk.ok,
                 complete |-> walk.complete, rows |-> walk.rows \o p.rows]
  <2> DEFINE ok == IF first THEN p.ok ELSE walk.ok
             rows == walk.rows \o p.rows
  <2>1. seen = [[walk EXCEPT !.ok = ok] EXCEPT !.rows = rows]
    OBVIOUS
  <2> HIDE DEF seen, ok, rows
  <2>2. [walk EXCEPT !.ok = ok] =
           [cand |-> walk.cand, page |-> walk.page, ok |-> ok,
            complete |-> walk.complete, rows |-> walk.rows]
    BY DEF IsWalk
  <2>3. seen = [cand |-> walk.cand, page |-> walk.page, ok |-> ok,
                complete |-> walk.complete, rows |-> rows]
    BY <2>1, <2>2
  <2> QED BY <2>3 DEF ok, rows
<1> HIDE DEF seen
<1>3. CASE Turns(p)
  <2>1. walk' = [seen EXCEPT !.page = @ + 1]
    BY <1>3 DEF QueryPage, seen
  <2>2. p.ok
    BY <1>3, <1>1 DEF Turns
  <2> QED BY <2>1, <2>2, <1>1, <1>2 DEF IsWalk
<1>4. CASE ~ Turns(p)
  <2>1. walk' = [seen EXCEPT !.cand = @ + 1, !.page = 1,
                             !.complete = walk.complete /\ p.complete]
    BY <1>4 DEF QueryPage, Combine, seen
  <2> QED BY <2>1, <1>1, <1>2 DEF IsWalk
<1> QED BY <1>3, <1>4

LEMMA ChainInvStep == ChainInv /\ [Next]_vars => ChainInv'
<1> SUFFICES ASSUME ChainInv, [Next]_vars PROVE ChainInv'
  OBVIOUS
<1>1. CASE SkipFinished
  BY <1>1 DEF SkipFinished, record, ChainInv, Working, Steps, Step
<1>2. CASE SelectBound
  BY <1>2 DEF SelectBound, Finish, record, ChainInv, Working, Steps, Step
<1>3. CASE Wait
  BY <1>3 DEF Wait, PassOver, Considers, record, ChainInv, Working, Steps, Step
<1>4. CASE Block
  BY <1>4 DEF Block, PassOver, Considers, record, ChainInv, Working, Steps, Step
<1>5. CASE Begin
  BY <1>5, StepsAreTyped DEF Begin, Considers, IsPrebound, Obstacle, record,
              ChainInv, Working, Steps, Step
<1>6. CASE EndPass
  BY <1>6 DEF EndPass, record, ChainInv, Working, Steps, Step
<1>7. CASE SkipStage
  BY <1>7 DEF SkipStage, record, ChainInv, Working, Steps, Step
<1>8. CASE OpenStage
  <2>1. IsWalk(NoWalk)
    BY DEF NoWalk, IsWalk
  <2> QED BY <1>8, <2>1 DEF OpenStage, ChainInv, Working, Steps, Step
<1>9. CASE StagesDone
  BY <1>9, NextMethodKeeps DEF StagesDone, record, ChainInv, Working
<1>10. ASSUME NEW p \in Pages, QueryPage(p) PROVE ChainInv'
  <2>1. IsWalk(walk')
    BY <1>10, QueryPageKeepsWalk DEF ChainInv
  <2> QED BY <1>10, <2>1 DEF QueryPage, ChainInv, Working, Steps, Step
<1>11. CASE Settle
  <2>1. ~ walk.ok => ~ walk.complete
    BY DEF ChainInv, IsWalk
  <2> QED BY <1>11, <2>1 DEF Settle, ChainInv, Working, Steps, Step
<1>12. CASE Ambiguous
  BY <1>12 DEF Ambiguous, Finish, record, ChainInv, Working, Steps, Step
<1>13. CASE BindOutput
  <2>1. /\ Working /\ at \in Steps
        /\ Step.output \in Variables /\ Step.input \in Variables
        /\ Step.output # Step.input
    BY <1>13, StepsAreTyped DEF BindOutput, ChainInv, Working, Steps, Step
  <2>2. bindings' = [bindings EXCEPT ![Step.output] =
           [values |-> Bound(last.rows), status |-> Grade(Op), by |-> "step",
            step |-> at]]
    BY <1>13 DEF BindOutput
  <2>3. /\ bindings' = [v \in Variables |-> bindings'[v]]
        /\ bindings'[Step.input] = bindings[Step.input]
        /\ bindings'[Step.output].status = Grade(Op)
        /\ \A v \in Variables :
              bindings'[v].status \in {"NONE", "CANDIDATE", "VERIFIED"}
    BY <2>1, <2>2 DEF ChainInv, Grade
  <2>4. CASE Finish
    BY <1>13, <2>3, <2>4 DEF BindOutput, Finish, record, ChainInv, Working, Steps
  <2>5. CASE NextMethod /\ ~ (last.ok /\ last.complete /\ Grade(Op) = "VERIFIED")
                        /\ ~ (last.ok /\ ~ last.complete)
    <3>1. Grade(Op) # "VERIFIED"
      BY <2>5 DEF Grade, ChainInv
    <3> QED BY <1>13, <2>1, <2>3, <2>5, <3>1, NextMethodKeeps DEF BindOutput
  <2> QED BY <1>13, <2>4, <2>5 DEF BindOutput
<1>14. CASE BindNothing
  <2>1. CASE Finish
    BY <1>14, <2>1 DEF BindNothing, Finish, record, ChainInv, Working, Steps
  <2>2. CASE NextMethod
    BY <1>14, <2>2, NextMethodKeeps DEF BindNothing, record, ChainInv, Working
  <2> QED BY <1>14, <2>1, <2>2 DEF BindNothing
<1>15. CASE Judge
  BY <1>15 DEF Judge, record, ChainInv, Working, Steps, Step
<1>16. CASE UNCHANGED vars
  BY <1>16 DEF vars, control, ChainInv, Working, Steps, Step
<1> QED BY <1>1, <1>2, <1>3, <1>4, <1>5, <1>6, <1>7, <1>8, <1>9, <1>10, <1>11,
           <1>12, <1>13, <1>14, <1>15, <1>16 DEF Next

THEOREM ChainIsInvariant == Spec => []ChainInv
<1>1. Init => ChainInv
  BY ChainInvInit
<1>2. ChainInv /\ [Next]_vars => ChainInv'
  BY ChainInvStep
<1> QED BY <1>1, <1>2, PTL DEF Spec

-----------------------------------------------------------------------------
(* The refinement.                                                         *)

\* The step's output is derived from its verified input.
LEMMA BindOutputDerives ==
    ASSUME ChainInv, ChainInv', BindOutput,
           NEW x, x = Step.output, NEW y, y = Step.input, NEW g, g = Grade(Op)
    PROVE  Chain!Derive(x, y, g)
<1> DEFINE grade == [v \in Variables |-> bindings[v].status]
           basis == [v \in Variables |-> IF bindings[v].by = "step"
                        THEN {plan.steps[bindings[v].step].input} ELSE {}]
<1>1. /\ at \in Steps
      /\ Step.output \in Variables /\ Step.input \in Variables
      /\ bindings[Step.input].status = "VERIFIED"
      /\ bindings[Step.output].status # "VERIFIED"
  BY StepsAreTyped DEF BindOutput, ChainInv, Working, Steps, Step
<1>2. bindings' = [bindings EXCEPT ![Step.output] =
         [values |-> Bound(last.rows), status |-> Grade(Op), by |-> "step",
          step |-> at]] /\ plan' = plan
  BY DEF BindOutput
<1>3. /\ \A v \in Variables \ {Step.output} : bindings'[v] = bindings[v]
      /\ bindings'[Step.output].status = Grade(Op)
      /\ bindings'[Step.output].by = "step"
      /\ bindings'[Step.output].step = at
  BY <1>1, <1>2 DEF ChainInv
<1>4. grade' = [grade EXCEPT ![Step.output] = Grade(Op)]
  BY <1>1, <1>3
<1>5. basis' = [basis EXCEPT ![Step.output] = {Step.input}]
  <2>2. basis'[Step.output] = {Step.input}
    BY <1>1, <1>2, <1>3 DEF Step
  <2>3. \A v \in Variables \ {Step.output} : basis'[v] = basis[v]
    BY <1>2, <1>3
  <2>4. \A v \in Variables :
           basis'[v] = [basis EXCEPT ![Step.output] = {Step.input}][v]
    BY <2>2, <2>3
  <2> QED BY <2>4
<1> QED BY <1>1, <1>4, <1>5 DEF Chain!Derive

LEMMA ChainStep ==
    ASSUME ChainInv, ChainInv', [Next]_vars
    PROVE  [Chain!ChainNext]_(Chain!chainVars)
<1>1. CASE BindOutput
  <2>1. Step.output \in Variables /\ Step.input \in Variables
    BY <1>1, StepsAreTyped DEF BindOutput, ChainInv, Working, Steps, Step
  <2>2. Grade(Op) \in {"CANDIDATE", "VERIFIED"}
    BY DEF Grade
  <2>3. PICK x \in Variables, y \in Variables, g \in {"CANDIDATE", "VERIFIED"} :
            x = Step.output /\ y = Step.input /\ g = Grade(Op)
    BY <2>1, <2>2
  <2>4. Chain!Derive(x, y, g)
    BY <1>1, <2>3, BindOutputDerives
  <2> QED BY <2>4 DEF Chain!ChainNext
<1>2. CASE ~ BindOutput
  <2>1. UNCHANGED <<plan, bindings>>
    BY <1>2 DEF Next, vars, SkipFinished, SelectBound, Wait, Block, Begin,
                EndPass, SkipStage, OpenStage, StagesDone, QueryPage, Settle,
                Ambiguous, BindNothing, Judge
  <2> QED BY <2>1 DEF Chain!chainVars
<1> QED BY <1>1, <1>2

\* For every plan and every answer of the provider, values are derived from
\* verified values only, and a verified value is final (RefinesProofChain).
THEOREM PlanImplementsChain == Spec => RefinesProofChain
<1>1. Init => Chain!ChainInit
  <2> SUFFICES ASSUME Init PROVE Chain!ChainInit
    OBVIOUS
  <2>1. \A v \in Variables :
           /\ bindings[v].status \in {"NONE", "VERIFIED"}
           /\ bindings[v].by # "step"
    BY PlansAssumption DEF Init, Given, IsPlan
  <2> QED BY <2>1 DEF Chain!ChainInit
<1>2. ChainInv /\ ChainInv' /\ [Next]_vars => [Chain!ChainNext]_(Chain!chainVars)
  BY ChainStep
<1>3. Spec => []ChainInv
  BY ChainIsInvariant
<1> QED BY <1>1, <1>2, <1>3, PTL DEF Spec, RefinesProofChain, Chain!ChainSpec

-----------------------------------------------------------------------------
(* No step is dropped.                                                     *)

IsLog(e) == \E S : e \in Seq(S)

\* A finished step has an execution; once the passes are over, a step that is
\* left has a reason.
DropInv ==
    /\ IsLog(executions)
    /\ remaining \subseteq Steps
    /\ reasons = [s \in Steps |-> reasons[s]]
    /\ Working => at \in remaining
    /\ \A s \in Steps \ remaining : ExecutionsOf(s) # {}
    /\ phase \in {"judge", "done", "crashed"} =>
          \A s \in remaining : reasons[s] # "none"

\* Appending keeps every execution where it was and adds one at the end.
LEMMA AppendKeeps ==
    ASSUME NEW e, IsLog(e), NEW r
    PROVE  /\ IsLog(Append(e, r))
           /\ \A i \in DOMAIN e : i \in DOMAIN Append(e, r) /\ Append(e, r)[i] = e[i]
           /\ \A i \in DOMAIN Append(e, r) : i \in DOMAIN e \/ Append(e, r)[i] = r
           /\ \E i \in DOMAIN Append(e, r) : Append(e, r)[i] = r
<1>1. PICK S : e \in Seq(S)
  BY DEF IsLog
<1>2. e \in Seq(S \cup {r})
  BY <1>1
<1>3. /\ Append(e, r) \in Seq(S \cup {r})
      /\ Len(Append(e, r)) = Len(e) + 1
      /\ \A i \in 1..Len(e) : Append(e, r)[i] = e[i]
      /\ Append(e, r)[Len(e) + 1] = r
  BY <1>2
<1>4. /\ DOMAIN e = 1..Len(e) /\ Len(e) \in Nat
      /\ DOMAIN Append(e, r) = 1..(Len(e) + 1)
  BY <1>2, <1>3
<1>5. IsLog(Append(e, r))
  BY <1>3 DEF IsLog
<1> QED BY <1>3, <1>4, <1>5

\* What a step that records an execution of the step in hand keeps.
LEMMA RecordKeeps ==
    ASSUME DropInv, UNCHANGED plan, NEW r, r.step = at,
           executions' = Append(executions, r)
    PROVE  /\ IsLog(executions')
           /\ \A s \in (Steps \ remaining) \cup {at} : ExecutionsOf(s)' # {}
<1>1. /\ IsLog(executions')
      /\ \A i \in DOMAIN executions :
            i \in DOMAIN executions' /\ executions'[i] = executions[i]
      /\ \E i \in DOMAIN executions' : executions'[i] = r
  BY AppendKeeps DEF DropInv
<1> QED BY <1>1 DEF DropInv, ExecutionsOf

LEMMA FinishKeeps ==
    ASSUME DropInv, UNCHANGED plan, at \in remaining, Finish,
           IsLog(executions'), reasons' = [s \in Steps |-> reasons'[s]],
           \A s \in (Steps \ remaining) \cup {at} : ExecutionsOf(s)' # {}
    PROVE  DropInv'
BY DEF DropInv, Finish, Working, Steps

LEMMA NextMethodRecords ==
    ASSUME DropInv, Working, UNCHANGED <<plan, reasons>>, NextMethod,
           IsLog(executions'),
           \A s \in (Steps \ remaining) \cup {at} : ExecutionsOf(s)' # {}
    PROVE  DropInv'
<1>1. CASE Finish
  BY <1>1, FinishKeeps DEF DropInv, Steps
<1>2. CASE /\ method' = method + 1 /\ stage' = 1 /\ phase' = "stage"
           /\ UNCHANGED <<remaining, at, progress>>
  BY <1>2 DEF DropInv, Working, Steps
<1> QED BY <1>1, <1>2 DEF NextMethod

LEMMA DropInvInit == Init => DropInv
<1> SUFFICES ASSUME Init PROVE DropInv
  OBVIOUS
<1>1. IsLog(<< >>)
  <2>1. << >> \in Seq({})
    OBVIOUS
  <2> QED BY <2>1 DEF IsLog
<1> QED BY <1>1 DEF Init, DropInv, Working, Steps

LEMMA DropInvStep == DropInv /\ [Next]_vars => DropInv'
<1> SUFFICES ASSUME DropInv, [Next]_vars PROVE DropInv'
  OBVIOUS
<1> USE DEF record
<1>1. CASE SkipFinished
  BY <1>1 DEF SkipFinished, DropInv, Working, Steps, ExecutionsOf
<1>2. CASE SelectBound
  BY <1>2, RecordKeeps, FinishKeeps DEF SelectBound, Considers, DropInv, Steps
<1>3. CASE Wait
  BY <1>3 DEF Wait, PassOver, Considers, DropInv, Working, Steps, ExecutionsOf
<1>4. CASE Block
  BY <1>4 DEF Block, PassOver, Considers, Obstacle, DropInv, Working, Steps,
              ExecutionsOf
<1>5. CASE Begin
  BY <1>5 DEF Begin, Considers, DropInv, Working, Steps, ExecutionsOf
<1>6. CASE EndPass
  BY <1>6 DEF EndPass, LeftReasons, DropInv, Working, Steps, ExecutionsOf
<1>7. CASE SkipStage
  BY <1>7 DEF SkipStage, DropInv, Working, Steps, ExecutionsOf
<1>8. CASE OpenStage
  BY <1>8 DEF OpenStage, DropInv, Working, Steps, ExecutionsOf
<1>9. CASE StagesDone
  BY <1>9, RecordKeeps, NextMethodRecords DEF StagesDone, Working
<1>10. ASSUME NEW p \in Pages, QueryPage(p) PROVE DropInv'
  BY <1>10 DEF QueryPage, DropInv, Working, Steps, ExecutionsOf
<1>11. CASE Settle
  BY <1>11 DEF Settle, DropInv, Working, Steps, ExecutionsOf
<1>12. CASE Ambiguous
  BY <1>12, RecordKeeps, FinishKeeps DEF Ambiguous, Execution, DropInv, Working,
                                         Steps
<1>13. CASE BindOutput
  <2>1. /\ Working /\ UNCHANGED <<plan, reasons>> /\ at \in remaining
        /\ reasons' = [s \in Steps |-> reasons'[s]]
    BY <1>13 DEF BindOutput, DropInv, Working
  <2>2. /\ IsLog(executions')
        /\ \A s \in (Steps \ remaining) \cup {at} : ExecutionsOf(s)' # {}
    <3>1. PICK r : r.step = at /\ executions' = Append(executions, r)
      BY <1>13 DEF BindOutput, Execution
    <3> QED BY <2>1, <3>1, RecordKeeps
  <2>3. Finish \/ NextMethod
    BY <1>13 DEF BindOutput
  <2> QED BY <2>1, <2>2, <2>3, FinishKeeps, NextMethodRecords
<1>14. CASE BindNothing
  <2>1. /\ Working /\ UNCHANGED <<plan, reasons>> /\ at \in remaining
        /\ reasons' = [s \in Steps |-> reasons'[s]]
    BY <1>14 DEF BindNothing, DropInv, Working
  <2>2. /\ IsLog(executions')
        /\ \A s \in (Steps \ remaining) \cup {at} : ExecutionsOf(s)' # {}
    <3>1. PICK r : r.step = at /\ executions' = Append(executions, r)
      BY <1>14 DEF BindNothing, Execution
    <3> QED BY <2>1, <3>1, RecordKeeps
  <2>3. Finish \/ NextMethod
    BY <1>14 DEF BindNothing
  <2> QED BY <2>1, <2>2, <2>3, FinishKeeps, NextMethodRecords
<1>15. CASE Judge
  BY <1>15 DEF Judge, DropInv, Working, Steps, ExecutionsOf
<1>16. CASE UNCHANGED vars
  BY <1>16 DEF vars, control, DropInv, Working, Steps, ExecutionsOf
<1> QED BY <1>1, <1>2, <1>3, <1>4, <1>5, <1>6, <1>7, <1>8, <1>9, <1>10, <1>11,
           <1>12, <1>13, <1>14, <1>15, <1>16 DEF Next

\* For every plan, a step is executed or selected, or reported with a reason.
THEOREM NoStepIsDropped == Spec => []NothingDropped
<1>1. Init => DropInv
  BY DropInvInit
<1>2. DropInv /\ [Next]_vars => DropInv'
  BY DropInvStep
<1>3. DropInv => NothingDropped
  BY DEF DropInv, NothingDropped
<1> QED BY <1>1, <1>2, <1>3, PTL DEF Spec

-----------------------------------------------------------------------------
(* Supported goals are grounded.                                           *)

\* A proof was made from a verified input; a verified value that a step made
\* was proved by that step; a result that reaches the binding phase complete
\* has rows; a verdict SUPPORTED has a proof.
GroundInv ==
    /\ phase = "bind" => (last.ok /\ last.complete => last.rows # << >>)
    /\ \A i \in DOMAIN executions :
          Proves(executions[i]) =>
             bindings[plan.steps[executions[i].step].input].status = "VERIFIED"
    /\ \A i \in DOMAIN executions : executions[i].step \in Steps
    /\ \A v \in Variables :
          bindings[v].status = "VERIFIED" /\ bindings[v].by = "step"
             => /\ bindings[v].step \in Steps
                /\ \A s \in Steps : s = bindings[v].step => ProvedBy(s)
    /\ phase = "done" =>
          \A s \in DOMAIN outcome.verdicts :
             /\ s \in Steps
             /\ outcome.verdicts[s] = "SUPPORTED" =>
                   \E i \in ExecutionsOf(s) : Proves(executions[i])

\* Steps that neither bind nor record.
LEMMA GroundFrame ==
    ASSUME GroundInv, UNCHANGED <<plan, bindings, executions>>, phase' # "done",
           phase' = "bind" => (last'.ok /\ last'.complete => last'.rows # << >>)
    PROVE  GroundInv'
BY DEF GroundInv, ProvedBy, ExecutionsOf, Proves, Steps

\* Steps that record: the new execution proves only what it may, and a value
\* it verifies is proved by it.
LEMMA GroundRecord ==
    ASSUME GroundInv, ChainInv, DropInv, UNCHANGED plan, at \in Steps,
           NEW r, r.step = at, executions' = Append(executions, r),
           Proves(r) => bindings[Step.input].status = "VERIFIED",
           \A v \in Variables : \/ bindings'[v] = bindings[v]
                                \/ /\ bindings[v].status # "VERIFIED"
                                   /\ bindings'[v].status = "VERIFIED" =>
                                         /\ bindings'[v].step = at
                                         /\ Proves(r)
                                         /\ Step.keys \subseteq Operations[r.op].supports,
           phase' \notin {"bind", "done"}
    PROVE  GroundInv'
<1>1. /\ \A i \in DOMAIN executions :
            i \in DOMAIN executions' /\ executions'[i] = executions[i]
      /\ \A i \in DOMAIN executions' : i \in DOMAIN executions \/ executions'[i] = r
      /\ \E i \in DOMAIN executions' : executions'[i] = r
  BY AppendKeeps DEF DropInv
<1>2. \A v \in Variables : bindings[v].status = "VERIFIED" => bindings'[v] = bindings[v]
  OBVIOUS
<1>3. \A i \in DOMAIN executions' :
         /\ executions'[i].step \in Steps
         /\ Proves(executions'[i]) =>
              bindings[plan.steps[executions'[i].step].input].status = "VERIFIED"
  BY <1>1 DEF GroundInv, Step
<1>4. \A i \in DOMAIN executions' :
         /\ executions'[i].step \in Steps'
         /\ Proves(executions[i])' =>
              bindings'[plan'.steps[executions'[i].step].input].status = "VERIFIED"
  <2> SUFFICES ASSUME NEW i \in DOMAIN executions'
               PROVE  /\ executions'[i].step \in Steps'
                      /\ Proves(executions[i])' =>
                           bindings'[plan'.steps[executions'[i].step].input].status
                              = "VERIFIED"
    OBVIOUS
  <2>1. Steps' = Steps
    BY DEF Steps
  <2>2. Proves(executions[i])' = Proves(executions'[i])
    BY DEF Proves
  <2>3. plan.steps[executions'[i].step].input \in Variables
    BY <1>3, StepsAreTyped DEF ChainInv, Steps
  <2> QED BY <1>2, <1>3, <2>1, <2>2, <2>3
<1>5. \A s : ProvedBy(s) => ProvedBy(s)'
  BY <1>1 DEF ProvedBy, ExecutionsOf, Proves
<1>6. ASSUME NEW s \in Steps, s = at, Proves(r),
             Step.keys \subseteq Operations[r.op].supports
      PROVE  ProvedBy(s)'
  <2>1. PICK i \in DOMAIN executions' : executions'[i] = r
    BY <1>1
  <2>2. /\ i \in {k \in DOMAIN executions' : executions'[k].step = s}
        /\ Proves(executions[i])'
        /\ plan'.steps[s].keys \subseteq Operations[executions'[i].op].supports
    BY <1>6, <2>1 DEF Proves, Step
  <2> QED BY <2>2 DEF ProvedBy, ExecutionsOf
<1>7. ASSUME NEW v \in Variables, bindings'[v].status = "VERIFIED",
             bindings'[v].by = "step", NEW s \in Steps, s = bindings'[v].step
      PROVE  ProvedBy(s)'
  <2>1. CASE bindings'[v] = bindings[v]
    <3>1. ProvedBy(s)
      BY <1>7, <2>1 DEF GroundInv
    <3> QED BY <3>1, <1>5
  <2>2. CASE bindings'[v] # bindings[v]
    <3>1. s = at /\ Proves(r) /\ Step.keys \subseteq Operations[r.op].supports
      BY <1>7, <2>2
    <3> QED BY <3>1, <1>6
  <2> QED BY <2>1, <2>2
<1>8. Steps' = Steps
  BY DEF Steps
<1>9. \A v \in Variables :
         bindings'[v].status = "VERIFIED" /\ bindings'[v].by = "step"
            => bindings'[v].step \in Steps
  BY DEF GroundInv
<1> QED BY <1>4, <1>7, <1>8, <1>9 DEF GroundInv

LEMMA GroundInvStep == GroundInv /\ ChainInv /\ DropInv /\ [Next]_vars => GroundInv'
<1> SUFFICES ASSUME GroundInv, ChainInv, DropInv, [Next]_vars PROVE GroundInv'
  OBVIOUS
<1> USE DEF record
<1>1. CASE SkipFinished \/ Wait \/ Block \/ Begin \/ EndPass \/ SkipStage
           \/ OpenStage \/ \E p \in Pages : QueryPage(p)
  BY <1>1, GroundFrame DEF SkipFinished, Wait, Block, Begin, EndPass, SkipStage,
             OpenStage, QueryPage, PassOver, Considers
<1>2. CASE Settle
  BY <1>2, GroundFrame DEF Settle
<1>3. CASE SelectBound
  <2>1. PICK r : /\ r.step = at /\ r.rows = << >>
                 /\ executions' = Append(executions, r)
    BY <1>3 DEF SelectBound
  <2>2. ~ Proves(r)
    BY <2>1 DEF Proves
  <2> QED BY <1>3, <2>1, <2>2, GroundRecord
          DEF SelectBound, Considers, Finish, DropInv
<1>4. CASE StagesDone \/ Ambiguous \/ BindNothing
  <2>1. PICK r : /\ r.step = at /\ r.outputs = FALSE
                 /\ executions' = Append(executions, r)
    BY <1>4 DEF StagesDone, Ambiguous, BindNothing, Execution
  <2>2. ~ Proves(r)
    BY <2>1 DEF Proves
  <2>3. UNCHANGED <<plan, bindings>> /\ phase' \in {"pass", "stage"} /\ at \in Steps
    BY <1>4 DEF StagesDone, Ambiguous, BindNothing, NextMethod, Finish, DropInv,
                Working
  <2> QED BY <2>1, <2>2, <2>3, GroundRecord
<1>5. CASE BindOutput
  <2>1. /\ at \in Steps
        /\ Step.output \in Variables /\ Step.input \in Variables
        /\ bindings[Step.input].status = "VERIFIED"
        /\ bindings[Step.output].status # "VERIFIED"
    BY <1>5, StepsAreTyped DEF BindOutput, ChainInv, Working, Steps, Step
  <2>2. PICK r : /\ r.step = at /\ r.op = Methods(at)[method] /\ r.ok = last.ok
                 /\ r.complete = last.complete /\ r.rows = last.rows
                 /\ r.outputs = TRUE
                 /\ executions' = Append(executions, r)
    BY <1>5 DEF BindOutput, Execution
  <2>3. /\ \A v \in Variables \ {Step.output} : bindings'[v] = bindings[v]
        /\ bindings'[Step.output].status = Grade(Op)
        /\ bindings'[Step.output].step = at
    BY <1>5, <2>1 DEF BindOutput, ChainInv
  <2>4. Grade(Op) = "VERIFIED" => /\ Proves(r)
                                  /\ Step.keys \subseteq Operations[r.op].supports
    BY <1>5, <2>2 DEF BindOutput, Grade, Op, Proves, GroundInv, ChainInv
  <2>5. UNCHANGED plan /\ phase' \in {"pass", "stage"}
    BY <1>5 DEF BindOutput, NextMethod, Finish
  <2> QED BY <2>1, <2>2, <2>3, <2>4, <2>5, GroundRecord
<1>6. CASE Judge
  <2>1. CASE SameObservations
    BY <1>6, <2>1, GroundFrame DEF Judge
  <2>2. CASE ~ SameObservations
    <3>1. \A s \in GoalSteps : GoalVerdict(s) = "SUPPORTED" =>
             \E i \in ExecutionsOf(s) : Proves(executions[i])
      BY DEF GoalVerdict
    <3>2. outcome'.verdicts = [s \in GoalSteps |-> GoalVerdict(s)]
      BY <1>6, <2>2 DEF Judge
    <3>3. UNCHANGED <<plan, bindings, executions>> /\ phase' = "done"
      BY <1>6, <2>2 DEF Judge
    <3>4. \A s \in DOMAIN outcome'.verdicts :
             /\ s \in Steps
             /\ outcome'.verdicts[s] = "SUPPORTED" =>
                   \E i \in ExecutionsOf(s) : Proves(executions[i])
      BY <3>1, <3>2 DEF GoalSteps
    <3> QED BY <3>3, <3>4 DEF GroundInv, ProvedBy, ExecutionsOf, Proves, Steps
  <2> QED BY <2>1, <2>2
<1>7. CASE UNCHANGED vars
  BY <1>7 DEF vars, control, GroundInv, ProvedBy, ExecutionsOf, Proves, Steps
<1> QED BY <1>1, <1>2, <1>3, <1>4, <1>5, <1>6, <1>7 DEF Next

\* For every plan and every answer of the provider, a supported goal rests on a
\* proof about a given value or about one that a step proved.
THEOREM SupportIsGrounded == Spec => []SupportedIsGrounded
<1>1. Init => GroundInv
  BY PlansAssumption DEF Init, Given, IsPlan, GroundInv
<1>2. GroundInv /\ ChainInv /\ DropInv /\ [Next]_vars => GroundInv'
  BY GroundInvStep
<1>3. Init => DropInv
  BY DropInvInit
<1>4. DropInv /\ [Next]_vars => DropInv'
  BY DropInvStep
<1>5. GroundInv /\ ChainInv => SupportedIsGrounded
  <2> SUFFICES ASSUME GroundInv, ChainInv, phase = "done",
                      NEW s \in DOMAIN outcome.verdicts,
                      outcome.verdicts[s] = "SUPPORTED"
               PROVE  /\ \E i \in ExecutionsOf(s) : Proves(executions[i])
                      /\ bindings[plan.steps[s].input].status = "VERIFIED"
                      /\ bindings[plan.steps[s].input].by = "step" =>
                            ProvedBy(bindings[plan.steps[s].input].step)
    BY DEF SupportedIsGrounded
  <2>1. PICK i \in ExecutionsOf(s) : Proves(executions[i])
    BY DEF GroundInv
  <2>2. /\ s \in Steps /\ plan.steps[s].input \in Variables
        /\ bindings[plan.steps[s].input].status = "VERIFIED"
    BY <2>1, StepsAreTyped DEF GroundInv, ChainInv, ExecutionsOf, Steps
  <2> QED BY <2>1, <2>2 DEF GroundInv
<1> QED BY <1>1, <1>2, <1>3, <1>4, <1>5, ChainIsInvariant, PTL DEF Spec

-----------------------------------------------------------------------------
(* Exhausted routes.                                                       *)

\* A page on record asked operation o for step s.
AskedOf(s, o) ==
    \E t \in pageTrace : t.query[1] = s /\ Methods(s)[t.query[2]] = o

\* Every attempt has a page on record, also the one about to be recorded; what
\* was called exhausted asked every operation.
RouteInv ==
    /\ IsLog(attempts)
    /\ \A i \in DOMAIN attempts : AskedOf(attempts[i].step, attempts[i].op)
    /\ phase = "settle" => AskedOf(at, Methods(at)[method])
    /\ ExhaustedAskedAll

\* A page on record stays on record.
LEMMA AskedStays ==
    ASSUME UNCHANGED plan, pageTrace \subseteq pageTrace',
           NEW s, NEW o, AskedOf(s, o)
    PROVE  AskedOf(s, o)'
BY DEF AskedOf, Methods

\* Steps that ask nothing and record no attempt.
LEMMA RouteFrame ==
    ASSUME RouteInv, UNCHANGED <<plan, attempts, pageTrace>>,
           phase' \notin {"settle", "done"}
    PROVE  RouteInv'
<1>1. \A i \in DOMAIN attempts : AskedOf(attempts[i].step, attempts[i].op)'
  BY AskedStays DEF RouteInv
<1> QED BY <1>1 DEF RouteInv, ExhaustedAskedAll, AskedOf

LEMMA RouteInvStep == RouteInv /\ [Next]_vars => RouteInv'
<1> SUFFICES ASSUME RouteInv, [Next]_vars PROVE RouteInv'
  OBVIOUS
<1> USE DEF record
<1>1. CASE SkipFinished \/ SelectBound \/ Wait \/ Block \/ Begin \/ EndPass
  BY <1>1, RouteFrame DEF SkipFinished, SelectBound, Wait, Block, Begin, EndPass,
             PassOver, Finish, Considers
<1>2. CASE SkipStage \/ OpenStage
  BY <1>2, RouteFrame DEF SkipStage, OpenStage
<1>3. CASE StagesDone \/ Ambiguous \/ BindOutput \/ BindNothing
  BY <1>3, RouteFrame DEF StagesDone, Ambiguous, BindOutput, BindNothing,
             NextMethod, Finish
<1>4. ASSUME NEW p \in Pages, QueryPage(p) PROVE RouteInv'
  <2>1. UNCHANGED <<plan, attempts, at, method>>
    BY <1>4 DEF QueryPage
  <2>2. phase' # "done"
    <3>1. CASE Turns(p)
      BY <1>4, <3>1 DEF QueryPage
    <3>2. CASE ~ Turns(p)
      BY <1>4, <3>2 DEF QueryPage
    <3> QED BY <3>1, <3>2
  <2> DEFINE asked == [query |-> Query, cand |-> walk.cand, page |-> walk.page,
                       ok |-> p.ok, complete |-> p.complete]
  <2>3. pageTrace' = pageTrace \cup {asked}
    BY <1>4 DEF QueryPage
  <2>4. \A i \in DOMAIN attempts : AskedOf(attempts[i].step, attempts[i].op)'
    BY <2>1, <2>3, AskedStays DEF RouteInv
  <2>5. asked \in pageTrace' /\ asked.query[1] = at /\ asked.query[2] = method
    BY <2>3 DEF Query
  <2>6. Methods(at)' = Methods(at)
    BY <2>1 DEF Methods
  <2>7. AskedOf(at, Methods(at)[method])'
    <3> HIDE DEF asked
    <3> QED BY <2>1, <2>5, <2>6 DEF AskedOf, Methods
  <2>8. IsLog(attempts')
    BY <2>1 DEF RouteInv
  <2> QED BY <2>1, <2>2, <2>4, <2>7, <2>8 DEF RouteInv, ExhaustedAskedAll
<1>5. CASE Settle
  <2>1. PICK r : /\ r.step = at /\ r.op = Methods(at)[method]
                 /\ attempts' = Append(attempts, r)
    BY <1>5 DEF Settle
  <2>2. /\ UNCHANGED <<plan, pageTrace>> /\ phase = "settle"
        /\ phase' \in {"stage", "bind"}
    BY <1>5 DEF Settle
  <2>3. AskedOf(at, Methods(at)[method])
    BY <2>2 DEF RouteInv
  <2>4. /\ IsLog(attempts')
        /\ \A i \in DOMAIN attempts :
              i \in DOMAIN attempts' /\ attempts'[i] = attempts[i]
        /\ \A i \in DOMAIN attempts' : i \in DOMAIN attempts \/ attempts'[i] = r
    BY <2>1, AppendKeeps DEF RouteInv
  <2>5. \A i \in DOMAIN attempts' : AskedOf(attempts'[i].step, attempts'[i].op)
    BY <2>1, <2>3, <2>4 DEF RouteInv
  <2>6. \A i \in DOMAIN attempts' : AskedOf(attempts[i].step, attempts[i].op)'
    BY <2>2, <2>5 DEF AskedOf, Methods
  <2> QED BY <2>2, <2>4, <2>6 DEF RouteInv, ExhaustedAskedAll
<1>6. CASE Judge
  <2>1. CASE SameObservations
    BY <1>6, <2>1, RouteFrame DEF Judge
  <2>2. CASE ~ SameObservations
    <3>1. /\ UNCHANGED <<plan, attempts, pageTrace>> /\ phase' = "done"
          /\ outcome'.route = [s \in Steps |->
                                  [status |-> RouteStatus(s),
                                   exhausted |-> RouteExhausted(s)]]
      BY <1>6, <2>2 DEF Judge
    <3>2. ASSUME NEW s \in Steps, RouteExhausted(s)
          PROVE  /\ \A m \in DOMAIN Methods(s) : AskedOf(s, Methods(s)[m])
                 /\ \A i \in AttemptsOf(s) : attempts[i].rows = 0 /\ attempts[i].complete
      <4>1. Tried(s) /\ RouteStatus(s) = "ATTEMPTED_EMPTY"
        BY <3>2 DEF RouteExhausted
      <4>2. \A i \in AttemptsOf(s) : attempts[i].rows = 0 /\ attempts[i].complete
        BY <4>1 DEF RouteStatus
      <4>3. ASSUME NEW m \in DOMAIN Methods(s) PROVE AskedOf(s, Methods(s)[m])
        <5>1. PICK i \in AttemptsOf(s) : attempts[i].op = Methods(s)[m]
          BY <4>1 DEF Tried
        <5> QED BY <5>1 DEF RouteInv, AttemptsOf
      <4> QED BY <4>2, <4>3
    <3>3. ASSUME NEW s \in Steps', outcome'.route[s].exhausted
          PROVE  /\ \A m \in DOMAIN Methods(s)' :
                       \E t \in pageTrace' :
                          /\ t.query[1] = s
                          /\ Methods(s)'[t.query[2]] = Methods(s)'[m]
                 /\ \A i \in AttemptsOf(s)' : attempts'[i].rows = 0 /\ attempts'[i].complete
      <4>1. s \in Steps /\ RouteExhausted(s)
        BY <3>1, <3>3 DEF Steps
      <4>2. /\ Methods(s)' = Methods(s) /\ AttemptsOf(s)' = AttemptsOf(s)
            /\ pageTrace' = pageTrace /\ attempts' = attempts
        BY <3>1 DEF Methods, AttemptsOf
      <4>3. /\ \A m \in DOMAIN Methods(s) : AskedOf(s, Methods(s)[m])
            /\ \A i \in AttemptsOf(s) : attempts[i].rows = 0 /\ attempts[i].complete
        BY <4>1, <3>2
      <4> QED BY <4>2, <4>3 DEF AskedOf
    <3>5. ExhaustedAskedAll'
      BY <3>3 DEF ExhaustedAskedAll
    <3>4. \A i \in DOMAIN attempts : AskedOf(attempts[i].step, attempts[i].op)'
      BY <3>1, AskedStays DEF RouteInv
    <3> QED BY <3>1, <3>4, <3>5 DEF RouteInv
  <2> QED BY <2>1, <2>2
<1>7. CASE UNCHANGED vars
  <2>1. UNCHANGED <<plan, attempts, pageTrace, at, method, phase, outcome>>
    BY <1>7 DEF vars, control
  <2>2. /\ IsLog(attempts')
        /\ \A i \in DOMAIN attempts' : AskedOf(attempts[i].step, attempts[i].op)'
    BY <2>1, AskedStays DEF RouteInv
  <2>3. phase' = "settle" => AskedOf(at, Methods(at)[method])'
    BY <2>1 DEF RouteInv, AskedOf, Methods
  <2>4. ExhaustedAskedAll'
    <3>1. /\ Steps' = Steps
          /\ \A s : Methods(s)' = Methods(s) /\ AttemptsOf(s)' = AttemptsOf(s)
      BY <2>1 DEF AttemptsOf, Methods, Steps
    <3> QED BY <2>1, <3>1 DEF RouteInv, ExhaustedAskedAll
  <2> QED BY <2>1, <2>2, <2>3, <2>4 DEF RouteInv
<1> QED BY <1>1, <1>2, <1>3, <1>4, <1>5, <1>6, <1>7 DEF Next

\* For every plan and every answer of the provider, an exhausted route has
\* asked every operation its step declares, and read nothing, to the end.
THEOREM ExhaustedMeansAsked == Spec => []ExhaustedAskedAll
<1>1. Init => RouteInv
  <2>1. IsLog(<< >>)
    <3>1. << >> \in Seq({})
      OBVIOUS
    <3> QED BY <3>1 DEF IsLog
  <2> QED BY <2>1 DEF Init, RouteInv, ExhaustedAskedAll
<1>2. RouteInv /\ [Next]_vars => RouteInv'
  BY RouteInvStep
<1>3. RouteInv => ExhaustedAskedAll
  BY DEF RouteInv
<1> QED BY <1>1, <1>2, <1>3, PTL DEF Spec
=============================================================================
