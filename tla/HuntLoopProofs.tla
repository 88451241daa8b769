--------------------------- MODULE HuntLoopProofs ---------------------------
(***************************************************************************)
(* For every objective, every set of rows, every provider and every        *)
(* budget: what the loop concludes it keeps, support rests on rows, and    *)
(* rival hypotheses exclude each other.                                    *)
(***************************************************************************)
EXTENDS HuntLoopProperties, SequenceTheorems, FiniteSetTheorems, TLAPS

\* A confirmation rests on rows that the ledger holds.
Confirmations == \A x \in With("confirmed") : Grounded(x)

\* A supported attack owns a confirmed expectation.
SupportIsOwned ==
    \A h \in Hypotheses \ Benign : hypStatus[h] = "SUPPORTED" =>
        \E x \in Owned(h, testStatus) : testStatus[x] = "confirmed"

\* What waits for its controls is inconclusive and waits once.
ControlsWait == controls \in Seq(With("inconclusive")) /\ IsInjective(controls)

LoopInv == Confirmations /\ SupportIsOwned /\ ControlsWait

\* A statuses table that has everything the present one confirms.
Confirms(ts) == /\ Known \subseteq DOMAIN ts
                /\ \A x \in With("confirmed") : ts[x] = "confirmed"

-----------------------------------------------------------------------------
(* The reasoner.                                                           *)

\* What supports an attack is a confirmed expectation: the status that the
\* reasoner keeps for want of evidence was earned by one, too.
LEMMA NetworkGrounds ==
    ASSUME SupportIsOwned, NEW ts, NEW rows, NEW kinds, Confirms(ts),
           NEW h \in Hypotheses \ Benign, Network(ts, rows, kinds)[h] = "SUPPORTED"
    PROVE  \E x \in Owned(h, ts) : ts[x] = "confirmed"
<1>1. Judged(h, ts, rows, kinds) = "SUPPORTED"
  BY DEF Network
<1>2. SUFFICES ASSUME \A x \in Owned(h, ts) : ts[x] # "confirmed" PROVE FALSE
  OBVIOUS
<1>3. hypStatus[h] = "SUPPORTED"
  BY <1>1, <1>2 DEF Judged
<1>4. PICK x \in Owned(h, testStatus) : testStatus[x] = "confirmed"
  BY <1>3 DEF SupportIsOwned
<1> QED BY <1>2, <1>4 DEF Confirms, Owned, With, Known

\* Whatever the tests say, a supported attack refutes the benign baseline.
LEMMA NetworkSeparates ==
    ASSUME NEW ts, NEW rows, NEW kinds, NEW a \in Hypotheses \ Benign, NEW b \in Benign,
           Network(ts, rows, kinds)[a] = "SUPPORTED"
    PROVE  Network(ts, rows, kinds)[b] # "SUPPORTED"
<1>1. Judged(a, ts, rows, kinds) = "SUPPORTED"
  BY DEF Network
<1>2. b \in Hypotheses
  BY ObjectiveAssumption
<1> QED BY <1>1, <1>2 DEF Network

-----------------------------------------------------------------------------
(* Lists of controls.                                                      *)

LEMMA AppendedOnce ==
    ASSUME NEW S, NEW s \in Seq(S), IsInjective(s), NEW x, x \notin S
    PROVE  Append(s, x) \in Seq(S \cup {x}) /\ IsInjective(Append(s, x))
<1>1. s \in Seq(S \cup {x})
  BY SeqMonotonic
<1> QED BY <1>1 DEF IsInjective

LEMMA TailIsOnce ==
    ASSUME NEW S, NEW s \in Seq(S), s # << >>, IsInjective(s)
    PROVE  /\ Tail(s) \in Seq(S \ {s[1]}) /\ IsInjective(Tail(s))
           /\ s[1] \in S /\ s[1] \in Range(s)
<1>1. /\ Len(s) \in Nat /\ Len(s) >= 1 /\ DOMAIN s = 1..Len(s)
      /\ \A i \in 1..Len(s) : s[i] \in S
  OBVIOUS
<1>2. /\ Len(Tail(s)) = Len(s) - 1 /\ Tail(s) \in Seq(S)
      /\ \A i \in 1..Len(Tail(s)) : Tail(s)[i] = s[i + 1]
  BY HeadTailProperties
<1>3. Len(Tail(s)) \in Nat /\ DOMAIN Tail(s) = 1..Len(Tail(s))
  BY <1>2
<1>4. \A i \in 1..Len(Tail(s)) : Tail(s)[i] \in S \ {s[1]}
  BY <1>1, <1>2, <1>3 DEF IsInjective
<1>5. Tail(s) \in Seq(S \ {s[1]})
  <2> DEFINE rest == Tail(s)
  <2> HIDE DEF rest
  <2>0. rest \in UNION {[1..n -> S] : n \in Nat}
    BY <1>2, SeqDef, Zenon DEF rest
  <2>1. PICK n \in Nat : Tail(s) \in [1..n -> S]
    BY <2>0 DEF rest
  <2>2. n = Len(Tail(s))
    BY <2>1
  <2>3. Tail(s) \in [1..n -> S \ {s[1]}]
    BY <2>1, <2>2, <1>4
  <2> QED BY <2>3, SeqDef
<1>6. IsInjective(Tail(s))
  BY <1>1, <1>2, <1>3 DEF IsInjective
<1> QED BY <1>1, <1>5, <1>6 DEF Range

-----------------------------------------------------------------------------
(* Cards.                                                                  *)

\* Rows that meet an expectation stay in the ledger.
LEMMA GroundedLater ==
    ASSUME NEW x, Grounded(x), ledger \subseteq ledger'
    PROVE  Grounded(x)'
<1>1. PICK g \in Groups : \E S \in SUBSET Group(ledger, g) :
        \E w \in S : Satisfies(S, Row[w].kind, x)
  BY DEF Grounded
<1>2. \A S \in SUBSET Group(ledger, g) : S \in SUBSET Group(ledger', g)
  BY DEF Group
<1> QED BY <1>1, <1>2 DEF Grounded

\* Rows are added to group g, last giving the last one of every group.
Adds(rows, last, g) ==
    /\ rows \ ledger \subseteq Rows
    /\ last \in LastRows(rows \ ledger) /\ g \in CardsOf(rows \ ledger)
\* Group g is then taken for what one of its rows is.
IsOfRow(rows, last, g) ==
    /\ g \in Groups
    /\ \E w \in Group(ledger \cup rows, g) : KindAfter(rows, last)[g] = Row[w].kind

LEMMA KindOfRow ==
    ASSUME NEW rows, NEW last, NEW g, Adds(rows, last, g)
    PROVE  IsOfRow(rows, last, g)
<1> DEFINE all == Group(ledger \cup rows, g)
<1>1. g \in Groups
  BY DEF Adds, CardsOf, Groups
<1>2. g \in DOMAIN last /\ last[g] \in rows /\ Row[last[g]].group = g
  BY DEF Adds, LastRows
<1>3. last[g] \in all
  BY <1>2 DEF Group
<1>4. KindAfter(rows, last)[g] =
        IF \E w \in all : Row[w].kind = "process" THEN "process" ELSE Row[last[g]].kind
  BY <1>1, <1>2 DEF KindAfter
<1> HIDE DEF all
<1>5. \E w \in all : KindAfter(rows, last)[g] = Row[w].kind
  BY <1>3, <1>4
<1> QED BY <1>1, <1>5 DEF IsOfRow, all

-----------------------------------------------------------------------------
(* The invariant.                                                          *)

LEMMA LoopInvInit == Init => LoopInv
<1> SUFFICES ASSUME Init PROVE LoopInv
  OBVIOUS
<1>1. \A x \in Known : testStatus[x] = "untested"
  BY DEF Init, Known
<1>2. Confirmations
  BY <1>1 DEF Confirmations, With
<1>3. SupportIsOwned
  BY DEF Init, SupportIsOwned
<1>4. ControlsWait
  BY DEF Init, ControlsWait, IsInjective
<1> QED BY <1>2, <1>3, <1>4 DEF LoopInv

\* Nothing that the invariant speaks of has changed.
LEMMA StutterKeeps ==
    ASSUME LoopInv, UNCHANGED <<testStatus, hypStatus, ledger, controls>>
    PROVE  LoopInv' /\ Confirms(testStatus')
<1>1. Confirmations'
  BY GroundedLater DEF LoopInv, Confirmations, Known, With
<1> QED BY <1>1 DEF LoopInv, SupportIsOwned, ControlsWait, Confirms, Known, With, Owned

\* New expectations are untested and leave the others as they were.
LEMMA AddingKeeps ==
    ASSUME LoopInv, NEW new, Adding(new), UNCHANGED <<hypStatus, ledger, controls>>
    PROVE  LoopInv' /\ \A x \in Known : x \in Known' /\ testStatus'[x] = testStatus[x]
<1>1. /\ Known \subseteq Known'
      /\ \A x \in Known : testStatus'[x] = testStatus[x]
      /\ \A x \in Known' \ Known : testStatus'[x] = "untested"
  BY DEF Adding, Known
<1>2. With("confirmed")' = With("confirmed") /\ With("inconclusive")' = With("inconclusive")
  BY <1>1 DEF With
<1>3. Confirmations'
  BY <1>2, GroundedLater DEF LoopInv, Confirmations
<1>4. SupportIsOwned'
  BY <1>1 DEF LoopInv, SupportIsOwned, Owned, Known
<1>5. ControlsWait'
  BY <1>2 DEF LoopInv, ControlsWait
<1> QED BY <1>1, <1>3, <1>4, <1>5 DEF LoopInv

\* The end of the hunt only takes support away.
LEMMA StoppingKeeps ==
    ASSUME LoopInv, hypStatus' = Guarded, UNCHANGED <<testStatus, ledger, controls>>
    PROVE  LoopInv'
<1>1. \A h \in Hypotheses : hypStatus'[h] = "SUPPORTED" => hypStatus[h] = "SUPPORTED"
  BY DEF Guarded
<1>2. Confirmations'
  BY GroundedLater DEF LoopInv, Confirmations, Known, With
<1> QED BY <1>1, <1>2 DEF LoopInv, SupportIsOwned, ControlsWait, Known, With, Owned

LEMMA UntestableKeeps ==
    ASSUME LoopInv, TestUntestable
    PROVE  /\ LoopInv'
           /\ \A x \in Known : testStatus[x] # "untested" => testStatus'[x] = testStatus[x]
<1>1. PICK x \in With("untested") : testStatus' = [testStatus EXCEPT ![x] = "untestable"]
  BY DEF TestUntestable
<1>2. UNCHANGED <<hypStatus, ledger, controls>>
  BY DEF TestUntestable, data
<1>3. With("confirmed")' = With("confirmed") /\ With("inconclusive")' = With("inconclusive")
  BY <1>1 DEF With, Known
<1>4. Confirmations'
  BY <1>2, <1>3, GroundedLater DEF LoopInv, Confirmations
<1>5. SupportIsOwned'
  BY <1>1, <1>2 DEF LoopInv, SupportIsOwned, Owned, Known, With
<1>6. ControlsWait'
  BY <1>2, <1>3 DEF LoopInv, ControlsWait
<1> QED BY <1>1, <1>4, <1>5, <1>6 DEF LoopInv, With, Known

\* A test concludes an untested expectation, by a row if it confirms it.
LEMMA QueryKeeps ==
    ASSUME LoopInv, TestQuery
    PROVE  /\ LoopInv'
           /\ \A x \in Known : testStatus[x] # "untested" => testStatus'[x] = testStatus[x]
<1>0. PICK x, result, last :
        /\ x \in With("untested") /\ result \in Results(Answers(x))
        /\ last \in LastRows(result.rows \ ledger) /\ Record(x, result, last)
  BY DEF TestQuery
<1>1. /\ x \in With("untested") /\ result \in Results(Answers(x))
      /\ last \in LastRows(result.rows \ ledger)
      /\ testStatus' = [testStatus EXCEPT
            ![x] = Concluded(x, result, KindAfter(result.rows, last))]
      /\ ledger' = ledger \cup result.rows
      /\ hypStatus' = Network(testStatus', ledger', cardKind')
      /\ controls' = IF result.rows = {} /\ result.how = "complete" /\ HasControls
                     THEN Append(controls, x) ELSE controls
  BY <1>0 DEF Record
<1> DEFINE kinds == KindAfter(result.rows, last)
<1>2. /\ Known' = Known /\ x \in Known /\ testStatus[x] = "untested"
      /\ testStatus'[x] = Concluded(x, result, kinds)
      /\ \A y \in Known \ {x} : testStatus'[y] = testStatus[y]
  BY <1>1 DEF Known, With
<1>3. Confirms(testStatus')
  BY <1>2 DEF Confirms, With, Known
<1>4. Confirmations'
  <2> SUFFICES ASSUME NEW y \in With("confirmed")' PROVE Grounded(y)'
    BY DEF Confirmations
  <2>1. CASE y = x
    <3>1. PICK g \in CardsOf(result.rows \ ledger) :
            Satisfies(Group(ledger \cup result.rows, g), kinds[g], x)
      BY <2>1, <1>2 DEF With, Concluded
    <3>2. result.rows \ ledger \in SUBSET Rows
      BY <1>1 DEF Results, Answers
    <3>3. /\ g \in Groups
          /\ \E w \in Group(ledger \cup result.rows, g) : kinds[g] = Row[w].kind
      <4>1. last \in LastRows(result.rows \ ledger)
        BY <1>1
      <4>2. Adds(result.rows, last, g)
        BY <3>1, <3>2, <4>1 DEF Adds
      <4>3. IsOfRow(result.rows, last, g)
        BY <4>2, KindOfRow
      <4> QED BY <4>3 DEF IsOfRow
    <3>4. \E S \in SUBSET Group(ledger', g) : \E w \in S : Satisfies(S, Row[w].kind, x)
      BY <1>1, <3>1, <3>3
    <3> QED BY <2>1, <3>3, <3>4 DEF Grounded
  <2>2. CASE y # x
    <3>1. y \in With("confirmed") /\ ledger \subseteq ledger'
      BY <2>2, <1>1, <1>2 DEF With
    <3> QED BY <3>1, GroundedLater DEF LoopInv, Confirmations
  <2> QED BY <2>1, <2>2
<1>5. SupportIsOwned'
  <2> SUFFICES ASSUME NEW h \in Hypotheses \ Benign, hypStatus'[h] = "SUPPORTED"
               PROVE  \E y \in Owned(h, testStatus') : testStatus'[y] = "confirmed"
    BY DEF SupportIsOwned, Owned
  <2>1. Network(testStatus', ledger', cardKind')[h] = "SUPPORTED"
    BY <1>1
  <2> QED BY <1>3, <2>1, NetworkGrounds DEF LoopInv
<1>6. ControlsWait'
  <2>1. CASE controls' = controls
    <3>1. With("inconclusive") \subseteq With("inconclusive")'
      BY <1>2 DEF With
    <3> QED BY <2>1, <3>1, SeqMonotonic DEF LoopInv, ControlsWait
  <2>2. CASE result.rows = {} /\ controls' = Append(controls, x)
    <3>1. Concluded(x, result, kinds) = "inconclusive"
      BY <2>2 DEF Concluded, CardsOf
    <3>2. With("inconclusive")' = With("inconclusive") \cup {x} /\ x \notin With("inconclusive")
      BY <3>1, <1>2 DEF With
    <3> QED BY <2>2, <3>2, AppendedOnce DEF LoopInv, ControlsWait
  <2> QED BY <2>1, <2>2, <1>1
<1> QED BY <1>2, <1>4, <1>5, <1>6 DEF LoopInv

\* The controls conclude once more what was inconclusive, and only that.
LEMMA ControlKeeps ==
    ASSUME LoopInv, Control
    PROVE  /\ LoopInv' /\ controls[1] \in Range(controls)
           /\ \A x \in Known : testStatus'[x] # testStatus[x] =>
                  /\ x = controls[1]
                  /\ testStatus[x] = "inconclusive" /\ testStatus'[x] = "refuted"
<1> DEFINE x == controls[1]
<1>1. PICK licensed \in BOOLEAN :
        testStatus' = [testStatus EXCEPT ![x] = IF licensed THEN "refuted" ELSE "inconclusive"]
  BY DEF Control
<1>2. /\ controls # << >> /\ controls' = Tail(controls) /\ ledger' = ledger
      /\ hypStatus' = Network(testStatus', ledger, cardKind)
  BY DEF Control, Turn, Selected, data
<1>3. /\ Tail(controls) \in Seq(With("inconclusive") \ {x}) /\ IsInjective(Tail(controls))
      /\ x \in With("inconclusive") /\ x \in Range(controls)
  BY <1>2, TailIsOnce DEF LoopInv, ControlsWait
<1>4. /\ Known' = Known /\ x \in Known /\ testStatus[x] = "inconclusive"
      /\ testStatus'[x] \in {"refuted", "inconclusive"}
      /\ \A y \in Known \ {x} : testStatus'[y] = testStatus[y]
  BY <1>1, <1>3 DEF Known, With
<1>5. With("confirmed")' = With("confirmed")
  BY <1>4 DEF With
<1>6. Confirmations'
  BY <1>2, <1>5, GroundedLater DEF LoopInv, Confirmations
<1>7. SupportIsOwned'
  <2>1. Confirms(testStatus')
    BY <1>4 DEF Confirms, With, Known
  <2> QED BY <1>2, <2>1, NetworkGrounds DEF LoopInv, SupportIsOwned, Owned
<1>8. ControlsWait'
  <2>1. With("inconclusive") \ {x} \subseteq With("inconclusive")'
    BY <1>4 DEF With
  <2> QED BY <1>2, <1>3, <2>1, SeqMonotonic DEF ControlsWait
<1> QED BY <1>3, <1>4, <1>6, <1>7, <1>8 DEF LoopInv

-----------------------------------------------------------------------------
(* Every step.                                                             *)

\* What ConclusionsAreFinal asks of a step.
Finality ==
    /\ \A x \in Known :
          testStatus[x] \in Concludes /\ testStatus'[x] # testStatus[x] =>
             testStatus[x] = "inconclusive" /\ testStatus'[x] = "refuted"
                 /\ x \in Range(controls)
    /\ ledger \subseteq ledger'
    /\ decision # "none" => decision' = decision /\ work' = work

LEMMA EveryStep ==
    ASSUME LoopInv, [Next]_vars
    PROVE  LoopInv' /\ Finality
<1>1. CASE TestUntestable
  BY <1>1, UntestableKeeps DEF Finality, Concludes, TestUntestable, Turn, data
<1>2. CASE TestQuery
  <2>1. ledger \subseteq ledger' /\ decision = "none"
    BY <1>2 DEF TestQuery, Record, Turn
  <2> QED BY <1>2, <2>1, QueryKeeps DEF Finality, Concludes
<1>3. CASE Control
  BY <1>3, ControlKeeps DEF Finality, Control, Turn, data
<1>4. CASE Expand \/ Discover \/ Pivot
  <2>1. /\ UNCHANGED <<hypStatus, controls, ledger>> /\ decision = "none"
        /\ (\E new : Adding(new)) \/ UNCHANGED testStatus
    BY <1>4 DEF Expand, Discover, Pivot, Turn, data
  <2>2. LoopInv' /\ \A x \in Known : testStatus'[x] = testStatus[x]
    BY <2>1, AddingKeeps, StutterKeeps
  <2> QED BY <2>1, <2>2 DEF Finality
<1>5. CASE Refine \/ Exhaust \/ Report \/ RunLate \/ UNCHANGED vars
  <2>1. /\ UNCHANGED <<work, controls, ledger>>
        /\ decision # "none" => decision' = decision
    BY <1>5 DEF Refine, Exhaust, Report, RunLate, vars, queues, data, verdict, Turn
  <2> QED BY <2>1, StutterKeeps DEF Finality, work
<1>6. CASE Stop \/ StopLate
  <2>1. /\ UNCHANGED <<testStatus, controls, ledger>> /\ hypStatus' = Guarded
        /\ decision = "none"
    BY <1>6 DEF Stop, StopLate, StopWith, Turn, data
  <2> QED BY <2>1, StoppingKeeps DEF Finality
<1> QED BY <1>1, <1>2, <1>3, <1>4, <1>5, <1>6 DEF Next, Iterate

LEMMA LoopInvariant == Spec => []LoopInv
<1>1. LoopInv /\ [Next]_vars => LoopInv'
  BY EveryStep
<1> QED BY LoopInvInit, <1>1, PTL DEF Spec

\* SupportIsGrounded holds in every hunt: no test, control or stop leaves an
\* attack supported that no rows of one group of the ledger support (TEST and
\* the reasoner, engine.py and controller/reasoning.py).
THEOREM SupportRestsOnRows == Spec => []SupportIsGrounded
<1>1. LoopInv => SupportIsGrounded
  <2> SUFFICES ASSUME LoopInv, NEW h \in Hypotheses \ Benign, hypStatus[h] = "SUPPORTED"
               PROVE  \E x \in Owned(h, testStatus) :
                        testStatus[x] = "confirmed" /\ Grounded(x)
    BY DEF SupportIsGrounded
  <2>1. PICK x \in Owned(h, testStatus) : testStatus[x] = "confirmed"
    BY DEF LoopInv, SupportIsOwned
  <2>2. x \in With("confirmed")
    BY <2>1 DEF Owned, With, Known
  <2> QED BY <2>1, <2>2 DEF LoopInv, Confirmations
<1> QED BY <1>1, LoopInvariant, PTL

\* ConclusionsAreFinal holds of every step of every hunt: a concluded test
\* is only ever changed by its own controls, the ledger only grows, and the
\* decision to stop stands (the branches of execute_hunt's loop).
THEOREM ConclusionsStay == Spec => ConclusionsAreFinal
<1>1. LoopInv /\ [Next]_vars => [Finality]_vars
  BY EveryStep
<1> QED BY <1>1, LoopInvariant, PTL DEF Spec, ConclusionsAreFinal, Finality

\* RivalsNotBothSupported holds in every hunt (evaluate_hypothesis_network
\* and the guard of evaluate_stopping).
THEOREM RivalsExclude == Spec => []RivalsNotBothSupported
<1>1. Init => RivalsNotBothSupported
  BY ObjectiveAssumption DEF Init, RivalsNotBothSupported
<1>2. RivalsNotBothSupported /\ [Next]_vars => RivalsNotBothSupported'
  <2> SUFFICES ASSUME RivalsNotBothSupported, [Next]_vars,
                      NEW a \in Hypotheses \ Benign, NEW b \in Benign,
                      hypStatus'[a] = "SUPPORTED"
               PROVE  hypStatus'[b] # "SUPPORTED"
    BY DEF RivalsNotBothSupported
  <2>1. \/ \E ts, rows, kinds : hypStatus' = Network(ts, rows, kinds)
        \/ hypStatus' = Guarded
        \/ hypStatus' = hypStatus
    BY DEF Next, Iterate, TestUntestable, TestQuery, Record, Control, Expand, Discover, Pivot,
           Refine, Stop, StopLate, StopWith, Exhaust, Report, RunLate, work, vars
  <2>2. CASE \E ts, rows, kinds : hypStatus' = Network(ts, rows, kinds)
    BY <2>2, NetworkSeparates
  <2>3. CASE hypStatus' = Guarded
    BY <2>3, ObjectiveAssumption DEF Guarded, RivalsNotBothSupported
  <2>4. CASE hypStatus' = hypStatus
    BY <2>4 DEF RivalsNotBothSupported
  <2> QED BY <2>1, <2>2, <2>3, <2>4
<1> QED BY <1>1, <1>2, PTL DEF Spec

-----------------------------------------------------------------------------
(* What Kept keeps, by induction on the length of the list.                *)

LEMMA NatSets ==
    ASSUME NEW S, 0 \in S, \A n \in Nat : n \in S => n + 1 \in S
    PROVE  Nat \subseteq S
<1> DEFINE R == OpToRel(<, Nat)
           T == Nat \ S
<1>1. SUFFICES ASSUME T # {} PROVE FALSE
  OBVIOUS
<1>2. IsWellFoundedOn(R, Nat)
  BY NatLessThanWellFounded
<1>3. \A i, j \in Nat : j < i => <<j, i>> \in R
  BY DEF OpToRel
<1> HIDE DEF R
<1>4. PICK m \in T : \A n \in T : ~ (<<n, m>> \in R)
  BY <1>1, <1>2, WFMin
<1>5. m \in Nat /\ m # 0 /\ m \notin S
  BY <1>4
<1>6. m - 1 \in Nat /\ m - 1 < m /\ (m - 1) + 1 = m
  BY <1>5
<1>7. m - 1 \notin T
  BY <1>3, <1>4, <1>5, <1>6
<1> QED BY <1>5, <1>6, <1>7

Upto(f, s, S, n) ==
    f = [i \in 0 .. n |-> IF i = 0 THEN << >>
                          ELSE IF s[i] \in S THEN Append(f[i - 1], s[i]) ELSE f[i - 1]]

LEMMA UptoSteps ==
    ASSUME NEW f, NEW s, NEW S, NEW n \in Nat, Upto(f, s, S, n)
    PROVE  /\ f[0] = << >>
           /\ \A i \in 1 .. n :
                 f[i] = IF s[i] \in S THEN Append(f[i - 1], s[i]) ELSE f[i - 1]
<1>1. f[0] = << >>
  BY DEF Upto
<1>2. ASSUME NEW i \in 1 .. n
      PROVE  f[i] = IF s[i] \in S THEN Append(f[i - 1], s[i]) ELSE f[i - 1]
  <2>1. i \in 0 .. n /\ i # 0
    OBVIOUS
  <2> QED BY <2>1, Zenon DEF Upto
<1> QED BY <1>1, <1>2

LEMMA UptoExists ==
    ASSUME NEW s, NEW S, NEW n \in Nat
    PROVE  \E f : Upto(f, s, S, n)
<1> DEFINE N == {k \in Nat : \E f : Upto(f, s, S, k)}
<1>1. 0 \in N
  <2>1. Upto([i \in 0 .. 0 |-> << >>], s, S, 0)
    BY DEF Upto
  <2> QED BY <2>1
<1>2. ASSUME NEW k \in Nat, k \in N PROVE k + 1 \in N
  <2>1. PICK f : Upto(f, s, S, k)
    BY <1>2
  <2> DEFINE g == [i \in 0 .. k + 1 |->
                     IF i \in 0 .. k THEN f[i]
                     ELSE IF s[k + 1] \in S THEN Append(f[k], s[k + 1]) ELSE f[k]]
  <2>2. ASSUME NEW i \in 0 .. k + 1
        PROVE  g[i] = IF i = 0 THEN << >>
                      ELSE IF s[i] \in S THEN Append(g[i - 1], s[i]) ELSE g[i - 1]
    <3>1. CASE i = 0
      <4>1. f[0] = << >> /\ 0 \in 0 .. k
        BY <2>1, UptoSteps
      <4> QED BY <3>1, <4>1
    <3>2. CASE i \in 1 .. k
      <4>1. g[i] = f[i] /\ g[i - 1] = f[i - 1]
        BY <3>2
      <4>2. f[i] = IF s[i] \in S THEN Append(f[i - 1], s[i]) ELSE f[i - 1]
        <5>1. \A j \in 1 .. k : f[j] = IF s[j] \in S THEN Append(f[j - 1], s[j]) ELSE f[j - 1]
          BY <2>1, UptoSteps
        <5> QED BY <3>2, <5>1
      <4> QED BY <3>2, <4>1, <4>2
    <3>3. CASE i = k + 1
      <4>1. g[i - 1] = f[k] /\ i # 0 /\ i \notin 0 .. k
        BY <3>3
      <4> QED BY <3>3, <4>1
    <3> QED BY <3>1, <3>2, <3>3
  <2>3. Upto(g, s, S, k + 1)
    BY <2>2 DEF Upto
  <2> QED BY <2>3
<1>3. Nat \subseteq N
  <2> HIDE DEF N
  <2> QED BY <1>1, <1>2, NatSets
<1> QED BY <1>3

\* What is kept is in S, and what is in S is kept.
LEMMA KeptIn ==
    ASSUME NEW s, NEW S, Len(s) \in Nat
    PROVE  /\ Kept(s, S) \in Seq(S)
           /\ \A i \in 1 .. Len(s) : s[i] \in S => Kept(s, S) # << >>
<1> DEFINE f == CHOOSE g : Upto(g, s, S, Len(s))
<1>1. Upto(f, s, S, Len(s))
  BY UptoExists
<1>2. Kept(s, S) = f[Len(s)]
  BY DEF Kept, Upto
<1> HIDE DEF f
<1> DEFINE Good(k) == /\ f[k] \in Seq(S)
                      /\ \A i \in 1 .. k : s[i] \in S => f[k] # << >>
           N == {k \in Nat : k <= Len(s) => Good(k)}
<1>3. 0 \in N
  <2>1. f[0] = << >>
    BY <1>1, UptoSteps
  <2>2. f[0] \in Seq(S) /\ \A i \in 1 .. 0 : FALSE
    BY <2>1, EmptySeq
  <2>3. Good(0)
    BY <2>2
  <2> QED BY <2>3
<1>4. ASSUME NEW k \in Nat, k \in N PROVE k + 1 \in N
  <2> SUFFICES ASSUME k + 1 <= Len(s) PROVE Good(k + 1)
    OBVIOUS
  <2>1. f[k + 1] = IF s[k + 1] \in S THEN Append(f[k], s[k + 1]) ELSE f[k]
    <3>1. k + 1 \in 1 .. Len(s) /\ (k + 1) - 1 = k
      OBVIOUS
    <3>2. f[k + 1] = IF s[k + 1] \in S THEN Append(f[(k + 1) - 1], s[k + 1]) ELSE f[(k + 1) - 1]
      BY <1>1, <3>1, UptoSteps
    <3> QED BY <3>1, <3>2
  <2>2. f[k] \in Seq(S) /\ \A i \in 1 .. k : s[i] \in S => f[k] # << >>
    BY <1>4
  <2>3. CASE s[k + 1] \in S
    <3>1. f[k + 1] = Append(f[k], s[k + 1])
      BY <2>1, <2>3
    <3>2. f[k + 1] \in Seq(S) /\ f[k + 1] # << >>
      BY <2>2, <2>3, <3>1, AppendProperties
    <3> QED BY <3>2
  <2>4. CASE s[k + 1] \notin S
    <3>1. \A i \in 1 .. k + 1 : i \in 1 .. k \/ i = k + 1
      OBVIOUS
    <3> QED BY <2>1, <2>2, <2>4, <3>1
  <2> QED BY <2>3, <2>4
<1>5. Nat \subseteq N
  <2> HIDE DEF N
  <2> QED BY <1>3, <1>4, NatSets
<1> QED BY <1>2, <1>5

-----------------------------------------------------------------------------
(* The lists of the loop.                                                  *)

\* The order in which a set is put into a list.
LEMMA SetToSeqIn ==
    ASSUME NEW S, IsFiniteSet(S)
    PROVE  SetToSeq(S) \in Seq(S)
<1>1. Cardinality(S) \in Nat /\ ExistsBijection(1..Cardinality(S), S)
  BY FS_CardinalityType
<1>2. \E f \in [1..Cardinality(S) -> S] : IsInjective(f)
  BY <1>1 DEF ExistsBijection, Bijection, Injection, IsInjective
<1>3. SetToSeq(S) \in [1..Cardinality(S) -> S]
  BY <1>2 DEF SetToSeq
<1> QED BY <1>1, <1>3

LEMMA EntitiesIn ==
    ASSUME NEW S \in SUBSET Entities
    PROVE  SetToSeq(S) \in Seq(Entities)
<1>1. IsFiniteSet(S)
  BY FS_Subset, RowsAssumption
<1>2. SetToSeq(S) \in Seq(S)
  BY <1>1, SetToSeqIn
<1> QED BY <1>2, SeqMonotonic

LEMMA ExtendedIn ==
    ASSUME NEW s \in Seq(Entities), NEW S \in SUBSET Entities, NEW cap \in Nat
    PROVE  Extended(s, S, cap) \in Seq(Entities)
<1> DEFINE new == SetToSeq(S \ Range(s))
           room == IF Len(s) >= cap THEN 0
                   ELSE IF Len(new) <= cap - Len(s) THEN Len(new) ELSE cap - Len(s)
<1>1. new \in Seq(Entities)
  BY EntitiesIn
<1> HIDE DEF new
<1>2. room \in 0..Len(new)
  <2>1. Len(new) \in Nat /\ Len(s) \in Nat
    BY <1>1
  <2> QED BY <2>1
<1> HIDE DEF room
<1>3. SubSeq(new, 1, room) \in Seq(Entities)
  <2>1. \A i \in 1..room : i \in 1..Len(new)
    BY <1>1, <1>2
  <2> QED BY <1>1, <1>2, <2>1, SubSeqProperties
<1>4. Extended(s, S, cap) = s \o SubSeq(new, 1, room)
  BY DEF Extended, new, room
<1> QED BY <1>3, <1>4, ConcatProperties

LEMMA HostsAreEntities ==
    ASSUME NEW rows \in SUBSET Rows, NEW known
    PROVE  HostsIn(rows) \subseteq Entities /\ LeadsIn(rows, known) \subseteq Entities
BY RowsAssumption DEF HostsIn, LeadsIn

LEMMA BoundIn ==
    ASSUME NEW via, NEW es, Len(es) \in Nat
    PROVE  BoundExpectations(via, es) \in Seq(Expectations)
<1>1. Len(BoundPairs) \in Nat
  BY ObjectiveAssumption
<1>2. Len(EveryPair(via, es)) \in Nat
  BY <1>1 DEF EveryPair
<1>3. BoundExpectations(via, es) \in
        Seq({x \in Expectations \ Known : <<x.ent, x.req>> \in Compatible})
  BY <1>2, KeptIn DEF BoundExpectations
<1> QED BY <1>3, SeqMonotonic

LEMMA InitialIn == Initial \in Seq(Expectations)
<1>1. Len(BoundPairs) \in Nat /\ Len(Asked) \in Nat
  BY ObjectiveAssumption
<1>2. Len(EveryPair("initial", Asked)) \in Nat
  BY <1>1 DEF EveryPair
<1>3. Initial \in Seq({x \in Expectations : <<x.ent, x.req>> \in Compatible})
  BY <1>2, KeptIn DEF Initial
<1> QED BY <1>3, SeqMonotonic

LEMMA ExpandIn ==
    ASSUME NEW e \in Entities
    PROVE  ExpandExpectations(e) \in Seq(Expectations)
<1> DEFINE S == {r \in Requirements : /\ <<e, r>> \in Compatible
                                      /\ ~\E x \in Known : x.ent = e /\ x.req = r}
           open == Kept(RequirementOrder, S)
<1>1. Len(RequirementOrder) \in Nat
  BY ObjectiveAssumption
<1>2. open \in Seq(S)
  BY <1>1, KeptIn
<1>3. S \subseteq Requirements
  OBVIOUS
<1> HIDE DEF S
<1>4. DOMAIN open = 1..Len(open) /\ Len(open) \in Nat
      /\ \A i \in 1..Len(open) : open[i] \in Requirements
  BY <1>2, <1>3
<1>5. ExpandExpectations(e) =
        [i \in DOMAIN open |->
           [via |-> "expand", hyp |-> Owner[open[i]], req |-> open[i], ent |-> e]]
  BY DEF ExpandExpectations, S
<1> HIDE DEF open
<1>6. \A i \in 1..Len(open) :
        [via |-> "expand", hyp |-> Owner[open[i]], req |-> open[i], ent |-> e] \in Expectations
  BY <1>4, ObjectiveAssumption DEF Expectations
<1> QED BY <1>4, <1>5, <1>6

-----------------------------------------------------------------------------
(* Nothing is left when the hunt stops by itself.                          *)

\* The lists hold what they are lists of, and every expectation that has a
\* status is in the list of expectations: what select_action finds empty is
\* empty.
ListInv ==
    /\ expectations \in Seq(Expectations) /\ Known = Range(expectations)
    /\ cells \in Seq(Entities) /\ expand \in Seq(Entities) /\ pivots \in Seq(Entities)
    /\ discovered \subseteq Entities /\ pivotsDone \in 0..MaxPivots
    /\ StopLeavesNothing

LEMMA ListInvInit == Init => ListInv
<1> SUFFICES ASSUME Init PROVE ListInv
  OBVIOUS
<1>1. expectations \in Seq(Expectations)
  BY InitialIn DEF Init
<1>2. Known = Range(expectations)
  BY DEF Init, Known
<1>3. /\ cells \in Seq(Entities) /\ expand \in Seq(Entities) /\ pivots \in Seq(Entities)
      /\ discovered \subseteq Entities /\ pivotsDone \in 0..MaxPivots
  BY ObjectiveAssumption, CountsAssumption DEF Init
<1>4. StopLeavesNothing
  BY DEF Init, StopLeavesNothing
<1> QED BY <1>1, <1>2, <1>3, <1>4 DEF ListInv

LEMMA QueueIn ==
    ASSUME ListInv
    PROVE  /\ Queue \in Seq(Entities)
           /\ Queue = << >> => expand = << >> /\ \A e \in Range(cells) : ~Idle(e)
<1> DEFINE S == {e \in Entities : Idle(e)}
           idle == Kept(cells, S)
<1>1. cells \in Seq(Entities) /\ expand \in Seq(Entities) /\ Len(cells) \in Nat
  BY DEF ListInv
<1>2. idle \in Seq(S) /\ \A i \in 1 .. Len(cells) : cells[i] \in S => idle # << >>
  BY <1>1, KeptIn
<1>3. Queue = expand \o idle
  BY DEF Queue
<1>5. \A e \in Range(cells) : Idle(e) => \E i \in 1 .. Len(cells) : cells[i] \in S
  BY <1>1 DEF Range
<1>4. S \subseteq Entities
  OBVIOUS
<1> HIDE DEF S, idle
<1>6. idle \in Seq(Entities)
  BY <1>2, <1>4, SeqMonotonic
<1>7. expand \o idle \in Seq(Entities)
  BY <1>1, <1>6, ConcatProperties
<1>8. expand \o idle = << >> => expand = << >> /\ idle = << >>
  <2>1. Len(expand \o idle) = Len(expand) + Len(idle)
        /\ Len(expand) \in Nat /\ Len(idle) \in Nat
    BY <1>1, <1>6, ConcatProperties
  <2>2. SUFFICES ASSUME expand \o idle = << >> PROVE Len(expand) = 0 /\ Len(idle) = 0
    BY <1>1, <1>6, EmptySeq
  <2>3. Len(expand \o idle) = 0
    BY <2>2
  <2> QED BY <2>1, <2>3
<1> QED BY <1>2, <1>3, <1>5, <1>7, <1>8

LEMMA AddingLists ==
    ASSUME ListInv, NEW new \in Seq(Expectations), Adding(new)
    PROVE  expectations' \in Seq(Expectations) /\ Known' = Range(expectations')
<1>1. expectations' = expectations \o new /\ expectations \in Seq(Expectations)
  BY DEF Adding, ListInv
<1>2. Range(expectations \o new) = Range(expectations) \cup Range(new)
  BY <1>1, RangeConcatenation
<1> QED BY <1>1, <1>2, ConcatProperties DEF Adding, ListInv, Known

LEMMA UntestableLists == ASSUME ListInv, TestUntestable PROVE ListInv'
<1>1. /\ UNCHANGED <<expectations, cells, pivots, discovered, pivotsDone, decision>>
      /\ decision = "none" /\ expand' = Queue /\ Known' = Known
  BY DEF TestUntestable, Turn, cover, verdict, Known
<1>2. expand' \in Seq(Entities)
  BY <1>1, QueueIn
<1>3. StopLeavesNothing'
  BY <1>1 DEF StopLeavesNothing
<1> QED BY <1>1, <1>2, <1>3 DEF ListInv

LEMMA QueryLists == ASSUME ListInv, TestQuery PROVE ListInv'
<1>0. PICK x, result, last :
        /\ x \in With("untested") /\ result \in Results(Answers(x))
        /\ Record(x, result, last)
  BY DEF TestQuery
<1> DEFINE after == Concluded(x, result, KindAfter(result.rows, last))
           hosts == HostsIn(result.rows) \ discovered
           found == hosts \ (Range(Queue) \cup Range(cells))
           met   == SetToSeq(found)
           again == IF after = "confirmed" /\ x.ent \notin Domains THEN {x.ent} ELSE {}
<1>1. /\ x \in With("untested") /\ result \in Results(Answers(x))
      /\ testStatus' = [testStatus EXCEPT ![x] = after]
      /\ cells' = cells \o met
      /\ discovered' = discovered \cup hosts
      /\ expand' = Extended(Queue \o met, again, Len(Queue \o met) + 1)
      /\ pivots' = IF after # "confirmed" THEN pivots
                   ELSE Extended(pivots, LeadsIn(result.rows, cells'), MaxPivots)
  BY <1>0 DEF Record
<1>2. /\ UNCHANGED <<expectations, pivotsDone, decision>>
      /\ decision = "none" /\ Known' = Known
  BY <1>1 DEF TestQuery, Turn, verdict, Known
<1>3. result.rows \subseteq Rows
  BY <1>1 DEF Results, Answers
<1>4. hosts \subseteq Entities /\ found \subseteq Entities
  BY <1>3, HostsAreEntities
<1>5. met \in Seq(Entities)
  BY <1>4, EntitiesIn
<1>6. x.ent \in Entities
  <2>1. x \in Range(expectations)
    BY <1>1 DEF ListInv, With
  <2>2. x \in Expectations
    BY <2>1 DEF ListInv, Range
  <2> QED BY <2>2 DEF Expectations
<1>7. again \subseteq Entities
  BY <1>6
<1>8. cells' = cells \o met /\ discovered' = discovered \cup hosts
      /\ expand' = Extended(Queue \o met, again, Len(Queue \o met) + 1)
  BY <1>1
<1>9. pivots' = pivots \/ pivots' = Extended(pivots, LeadsIn(result.rows, cells'), MaxPivots)
  BY <1>1
<1> HIDE DEF hosts, found, met, again
<1>10. cells' \in Seq(Entities)
  BY <1>5, <1>8, ConcatProperties DEF ListInv
<1>11. expand' \in Seq(Entities)
  <2>1. Queue \o met \in Seq(Entities)
    BY <1>5, QueueIn, ConcatProperties
  <2>2. Len(Queue \o met) + 1 \in Nat
    BY <2>1
  <2> QED BY <1>7, <1>8, <2>1, <2>2, ExtendedIn
<1>12. pivots' \in Seq(Entities)
  <2>1. LeadsIn(result.rows, cells') \subseteq Entities
    BY <1>3, HostsAreEntities
  <2> QED BY <1>9, <2>1, ExtendedIn, CountsAssumption DEF ListInv
<1>13. StopLeavesNothing'
  BY <1>2 DEF StopLeavesNothing
<1> QED BY <1>2, <1>4, <1>8, <1>10, <1>11, <1>12, <1>13 DEF ListInv

LEMMA ControlLists == ASSUME ListInv, Control PROVE ListInv'
<1>1. /\ UNCHANGED <<expectations, cells, pivots, discovered, pivotsDone, decision>>
      /\ decision = "none" /\ expand' = Queue /\ Known' = Known
  BY DEF Control, Turn, cover, verdict, Known
<1>2. expand' \in Seq(Entities)
  BY <1>1, QueueIn
<1>3. StopLeavesNothing'
  BY <1>1 DEF StopLeavesNothing
<1> QED BY <1>1, <1>2, <1>3 DEF ListInv

LEMMA ExpandLists == ASSUME ListInv, Expand PROVE ListInv'
<1>1. /\ UNCHANGED <<cells, pivots, discovered, pivotsDone, decision>>
      /\ decision = "none" /\ expand' = Tail(Queue) /\ Adding(ExpandExpectations(Queue[1]))
      /\ Queue # << >>
  BY DEF Expand, Turn, Selected, cover, verdict
<1>2. Queue[1] \in Entities /\ Tail(Queue) \in Seq(Entities)
  <2>1. Queue \in Seq(Entities)
    BY QueueIn
  <2> QED BY <1>1, <2>1, HeadTailProperties
<1>3. expectations' \in Seq(Expectations) /\ Known' = Range(expectations')
  BY <1>1, <1>2, ExpandIn, AddingLists
<1>4. StopLeavesNothing'
  BY <1>1 DEF StopLeavesNothing
<1> QED BY <1>1, <1>2, <1>3, <1>4 DEF ListInv

LEMMA DiscoverLists == ASSUME ListInv, Discover PROVE ListInv'
<1>1. PICK result \in Sweep :
        LET hosts == HostsIn(result.rows)
            named == discovered \cup hosts
            new   == IF result.rows = {} THEN << >> ELSE SetToSeq(named)
        IN  /\ discovered' = named
            /\ pivots' = Extended(pivots, LeadsIn(result.rows, cells), Cardinality(Entities))
            /\ \/ UNCHANGED <<expectations, testStatus, cells>>
               \/ /\ cells' = cells \o Kept(new, Entities \ Range(cells))
                  /\ Adding(Promoted(new))
  BY DEF Discover
<1> DEFINE named == discovered \cup HostsIn(result.rows)
           new   == IF result.rows = {} THEN << >> ELSE SetToSeq(named)
<1>2. /\ pivotsDone' = pivotsDone /\ decision' = decision /\ decision = "none"
      /\ expand' = Queue
  BY DEF Discover, Turn
<1>3. result.rows \subseteq Rows
  BY DEF Sweep, Results
<1>4. named \subseteq Entities /\ LeadsIn(result.rows, cells) \subseteq Entities
  BY <1>3, HostsAreEntities DEF ListInv
<1>5. new \in Seq(Entities)
  <2>1. SetToSeq(named) \in Seq(Entities) /\ << >> \in Seq(Entities)
    BY <1>4, EntitiesIn
  <2> QED BY <2>1
<1>6. /\ discovered' = named
      /\ pivots' = Extended(pivots, LeadsIn(result.rows, cells), Cardinality(Entities))
      /\ \/ UNCHANGED <<expectations, testStatus, cells>>
         \/ /\ cells' = cells \o Kept(new, Entities \ Range(cells))
            /\ Adding(Promoted(new))
  BY <1>1
<1> HIDE DEF named, new
<1>7. pivots' \in Seq(Entities)
  <2>1. Cardinality(Entities) \in Nat
    BY RowsAssumption, FS_CardinalityType
  <2> QED BY <1>4, <1>6, <2>1, ExtendedIn DEF ListInv
<1>8. cells' \in Seq(Entities)
  <2>1. Kept(new, Entities \ Range(cells)) \in Seq(Entities \ Range(cells))
    BY <1>5, KeptIn
  <2>2. Kept(new, Entities \ Range(cells)) \in Seq(Entities)
    BY <2>1, SeqMonotonic
  <2> QED BY <1>6, <2>2, ConcatProperties DEF ListInv
<1>9. expectations' \in Seq(Expectations) /\ Known' = Range(expectations')
  <2>1. Promoted(new) \in Seq(Expectations)
    BY <1>5, BoundIn DEF Promoted
  <2>2. CASE Adding(Promoted(new))
    BY <2>1, <2>2, AddingLists
  <2>3. CASE UNCHANGED <<expectations, testStatus, cells>>
    BY <2>3 DEF ListInv, Known
  <2> QED BY <1>6, <2>2, <2>3
<1>10. expand' \in Seq(Entities)
  BY <1>2, QueueIn
<1>11. StopLeavesNothing'
  BY <1>2 DEF StopLeavesNothing
<1> QED BY <1>2, <1>4, <1>6, <1>7, <1>8, <1>9, <1>10, <1>11 DEF ListInv

LEMMA PivotLists == ASSUME ListInv, Pivot PROVE ListInv'
<1>1. /\ UNCHANGED <<discovered, decision>> /\ decision = "none"
      /\ pivots # << >> /\ pivotsDone < MaxPivots /\ pivotsDone' = pivotsDone + 1
      /\ pivots' = Tail(pivots) /\ expand' = Queue
      /\ cells' = IF pivots[1] \in Range(cells) THEN cells ELSE Append(cells, pivots[1])
      /\ Adding(BoundExpectations("pivot", <<pivots[1]>>))
  BY DEF Pivot, Turn, Selected, verdict
<1>2. pivots[1] \in Entities /\ Tail(pivots) \in Seq(Entities)
  <2>1. pivots \in Seq(Entities)
    BY DEF ListInv
  <2> QED BY <1>1, <2>1, HeadTailProperties
<1>3. expectations' \in Seq(Expectations) /\ Known' = Range(expectations')
  <2>1. Len(<<pivots[1]>>) \in Nat
    OBVIOUS
  <2>2. BoundExpectations("pivot", <<pivots[1]>>) \in Seq(Expectations)
    BY <2>1, BoundIn
  <2> QED BY <1>1, <2>2, AddingLists
<1>4. cells' \in Seq(Entities)
  BY <1>1, <1>2, AppendProperties DEF ListInv
<1>5. pivotsDone' \in 0..MaxPivots
  BY <1>1, CountsAssumption DEF ListInv
<1>6. expand' \in Seq(Entities)
  BY <1>1, QueueIn
<1>7. StopLeavesNothing'
  BY <1>1 DEF StopLeavesNothing
<1> QED BY <1>1, <1>2, <1>3, <1>4, <1>5, <1>6, <1>7 DEF ListInv

\* STOP is selected when every queue is empty; that a cell is idle would
\* have shown in the queue of entities.
LEMMA StopLists == ASSUME ListInv, Stop \/ StopLate PROVE ListInv'
<1>1. /\ UNCHANGED <<expectations, testStatus, cells, cellState, pivots, controls,
                     discovered, pivotsDone>>
      /\ expand' = Queue /\ decision = "none"
      /\ decision' # "STOP_EXHAUSTED_BY_BUDGET" => Selected = "STOP"
  BY DEF Stop, StopLate, StopWith, Turn, cover
<1>2. Queue \in Seq(Entities)
  BY QueueIn
<1>3. ASSUME Selected = "STOP"
      PROVE  /\ Untested = {} /\ controls = << >> /\ Queue = << >>
             /\ cellState[NoEntity] # "unexplored"
             /\ ~(pivots # << >> /\ pivotsDone < MaxPivots)
  BY <1>3 DEF Selected
<1>4. StopLeavesNothing'
  <2> SUFFICES ASSUME Selected = "STOP"
      PROVE  /\ With("untested")' = {} /\ controls' = << >> /\ expand' = << >>
             /\ \A e \in Range(cells') \cup {NoEntity} : cellState'[e] # "unexplored"
             /\ pivots' = << >> \/ pivotsDone' = MaxPivots
    BY <1>1 DEF StopLeavesNothing
  <2>1. With("untested") = {}
    <3> SUFFICES ASSUME NEW x \in With("untested") PROVE FALSE
      OBVIOUS
    <3>1. x \in Range(expectations) /\ testStatus[x] = "untested"
      BY DEF ListInv, With
    <3>2. PICK i \in DOMAIN expectations : expectations[i] = x
      BY <3>1 DEF Range
    <3> QED BY <1>3, <3>1, <3>2 DEF Untested
  <2>2. expand = << >> /\ \A e \in Range(cells) : ~Idle(e)
    BY <1>3, QueueIn
  <2>3. \A e \in Range(cells) : cellState[e] # "unexplored"
    <3>1. Range(expand) = {}
      BY <2>2 DEF Range
    <3> QED BY <2>1, <2>2, <3>1 DEF Idle
  <2>4. pivots = << >> \/ pivotsDone = MaxPivots
    BY <1>3, CountsAssumption DEF ListInv
  <2>5. With("untested")' = With("untested")
    BY <1>1 DEF With, Known
  <2> QED BY <1>1, <1>3, <2>1, <2>3, <2>4, <2>5
<1>5. Known' = Known
  BY <1>1 DEF Known
<1> QED BY <1>1, <1>2, <1>4, <1>5 DEF ListInv

LEMMA RestLists ==
    ASSUME ListInv, Refine \/ Exhaust \/ Report \/ RunLate \/ UNCHANGED vars
    PROVE  ListInv'
<1>1. CASE Refine
  <2>1. /\ UNCHANGED <<expectations, testStatus, cells, pivots, discovered, pivotsDone>>
        /\ decision' = decision /\ decision = "none" /\ expand' = Queue
    BY <1>1 DEF Refine, Turn, work, cover, verdict
  <2>2. expand' \in Seq(Entities)
    BY <2>1, QueueIn
  <2>3. StopLeavesNothing' /\ Known' = Known
    BY <2>1 DEF StopLeavesNothing, Known
  <2> QED BY <2>1, <2>2, <2>3 DEF ListInv
<1>2. CASE Exhaust \/ Report \/ RunLate \/ UNCHANGED vars
  <2>1. /\ UNCHANGED <<expectations, testStatus, cells, cellState, expand, pivots, controls,
                       discovered, pivotsDone>>
        /\ decision' = decision \/ decision' \in {"STOP_EXHAUSTED_BY_BUDGET"}
    BY <1>2 DEF Exhaust, Report, RunLate, vars, work, cover, queues, verdict
  <2>2. Known' = Known /\ With("untested")' = With("untested")
    BY <2>1 DEF Known, With
  <2>3. StopLeavesNothing'
    BY <2>1, <2>2 DEF ListInv, StopLeavesNothing
  <2> QED BY <2>1, <2>2, <2>3 DEF ListInv
<1> QED BY <1>1, <1>2

\* StopLeavesNothing holds in every hunt: when select_action finds nothing
\* to do there is nothing to do, whatever the provider has answered and
\* however the queues have filled each other (engine.py, the branches of
\* execute_hunt's loop).
THEOREM NothingIsLeft == Spec => []StopLeavesNothing
<1>1. ListInv /\ [Next]_vars => ListInv'
  BY UntestableLists, QueryLists, ControlLists, ExpandLists, DiscoverLists, PivotLists,
     StopLists, RestLists DEF Next, Iterate
<1>2. ListInv => StopLeavesNothing
  BY DEF ListInv
<1> QED BY ListInvInit, <1>1, <1>2, PTL DEF Spec

=============================================================================
