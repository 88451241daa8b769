-------------------------- MODULE ClaimLoopProofs --------------------------
(***************************************************************************)
(* For every claim graph, every set of rows and every contract: support is *)
(* proved by rows about the source that was found, a row proves one claim, *)
(* and a resolved hunt is whole.                                           *)
(***************************************************************************)
EXTENDS ClaimLoopProperties, FiniteSetTheorems, TLAPS

-----------------------------------------------------------------------------
(* Least elements.                                                         *)

LEMMA Least ==
    ASSUME NEW S \in SUBSET Nat, S # {}
    PROVE  \E m \in S : \A n \in S : m <= n
<1> DEFINE R == OpToRel(<, Nat)
<1>1. IsWellFoundedOn(R, Nat)
  BY NatLessThanWellFounded
<1>2. \A x, y \in Nat : y < x => <<y, x>> \in R
  BY DEF OpToRel
<1> HIDE DEF R
<1>3. PICK m \in S : \A n \in S : ~ (<<n, m>> \in R)
  BY <1>1, WFMin
<1>4. ASSUME NEW n \in S PROVE m <= n
  <2>1. m \in Nat /\ n \in Nat
    OBVIOUS
  <2>2. ~(n < m)
    BY <1>2, <1>3, <2>1
  <2> QED BY <2>1, <2>2
<1> QED BY <1>4

LEMMA FirstIsIn ==
    ASSUME NEW S \in SUBSET Nat, S # {}
    PROVE  First(S) \in S /\ \A j \in S : First(S) <= j
  BY Least DEF First

LEMMA LastIsIn ==
    ASSUME NEW n \in Nat, NEW S \in SUBSET (1..n), S # {}
    PROVE  Last(S) \in S /\ \A j \in S : j <= Last(S)
<1> DEFINE T == {n - i : i \in S}
<1>1. T \in SUBSET Nat /\ T # {}
  <2>1. \A i \in S : n - i \in Nat
    OBVIOUS
  <2> QED BY <2>1
<1>2. PICK m \in T : \A k \in T : m <= k
  BY <1>1, Least
<1>3. PICK i \in S : m = n - i
  BY <1>2
<1>4. \A j \in S : j <= i
  <2> SUFFICES ASSUME NEW j \in S PROVE j <= i
    OBVIOUS
  <2>1. n - j \in T
    OBVIOUS
  <2>2. n - i <= n - j
    BY <1>2, <1>3, <2>1
  <2> QED BY <2>2
<1> QED BY <1>3, <1>4 DEF Last

\* select_action selects one of the actions there are.
LEMMA ChosenIsActionable ==
    ASSUME Actionable # {}
    PROVE  Chosen \in Actionable
<1> DEFINE Best == IF Actionable \cap Prerequisite # {} THEN Actionable \cap Prerequisite
                   ELSE Actionable
           Ranks == {Rank[c] : c \in Best}
<1>1. Best # {} /\ Best \subseteq Actionable /\ Best \subseteq Claims
  BY DEF Actionable, Unproven
<1>2. Ranks \in SUBSET Nat /\ Ranks # {}
  BY <1>1, GraphAssumption
<1>3. PICK m \in Ranks : \A n \in Ranks : m <= n
  BY <1>2, Least
<1>4. PICK c \in Best : Rank[c] = m
  BY <1>3
<1>5. ASSUME NEW d \in Actionable \ {c}
      PROVE  IF (c \in Prerequisite) = (d \in Prerequisite) THEN Rank[c] < Rank[d]
             ELSE c \in Prerequisite
  <2>1. CASE d \in Best
    <3>1. Rank[c] <= Rank[d]
      BY <1>3, <1>4, <2>1
    <3>2. c \in Claims /\ d \in Claims /\ Rank[c] \in Nat /\ Rank[d] \in Nat
      BY <1>1, GraphAssumption DEF Actionable, Unproven
    <3>3. Rank[c] # Rank[d]
      BY <3>2, GraphAssumption DEF IsInjective
    <3> QED BY <2>1, <3>1, <3>2, <3>3
  <2>2. CASE d \notin Best
    BY <2>2
  <2> QED BY <2>1, <2>2
<1> QED BY <1>1, <1>5 DEF Chosen

-----------------------------------------------------------------------------
(* The verifier.                                                           *)

\* What a proof with these citations of this source and target must hold.
Holds(c, cited, source, target) ==
    IF c \in Transitions
    THEN \E a, b \in cited :
           /\ Event[a].artefact # NoValue /\ Event[a].artefact = Event[b].artefact
           /\ Event[a].state = NoValue \/ Event[a].state # Event[b].state
           /\ Event[a].time <= Event[b].time
           /\ Event[b].time - Event[a].time <= MaxDelta
    ELSE /\ Cardinality(cited) >= Needs[c]
         /\ \A r \in cited : Reads[c][r].fits /\ Reads[c][r].source \in {NoValue, source}
         /\ \E r \in cited : Reads[c][r].target = target

LEMMA ProvesIsHolds ==
    ASSUME NEW c \in Claims
    PROVE  Proves(c) <=> Holds(c, proof[c], Source(c), node[c])
  BY DEF Proves, Holds

\* Rows come once, so as many rows are cited as there are positions.
LEMMA AsManyRows ==
    ASSUME NEW rows \in Sendings, NEW at \in SUBSET (DOMAIN rows)
    PROVE  /\ IsFiniteSet(at) /\ RowsAt(rows, at) \subseteq Rows
           /\ Cardinality(RowsAt(rows, at)) = Cardinality(at)
<1>1. PICK n \in 0..Cardinality(Rows) : rows \in [1..n -> Rows] /\ IsInjective(rows)
  BY DEF Sendings
<1>2. n \in Nat
  BY VerifierAssumption, FS_CardinalityType
<1>3. IsFiniteSet(at)
  <2>1. at \in SUBSET (1..n)
    BY <1>1
  <2>2. IsFiniteSet(1..n)
    BY <1>2, FS_Interval
  <2> QED BY <2>1, <2>2, FS_Subset
<1> DEFINE f == [i \in at |-> rows[i]]
<1>4. f \in Bijection(at, RowsAt(rows, at))
  <2>1. f \in [at -> RowsAt(rows, at)]
    BY DEF RowsAt
  <2>2. \A i, j \in at : f[i] = f[j] => i = j
    BY <1>1 DEF IsInjective
  <2>3. \A r \in RowsAt(rows, at) : \E i \in at : f[i] = r
    BY DEF RowsAt
  <2> QED BY <2>1, <2>2, <2>3 DEF Bijection, Injection, Surjection, IsInjective
<1>5. ExistsBijection(at, RowsAt(rows, at))
  BY <1>4 DEF ExistsBijection
<1>6. Cardinality(RowsAt(rows, at)) = Cardinality(at)
  BY <1>3, <1>5, FS_Bijection
<1>7. RowsAt(rows, at) \subseteq Rows
  BY <1>1 DEF RowsAt
<1> QED BY <1>3, <1>6, <1>7

\* What the verifier promises of an edge that it verifies.
Verified(c, cited, offered, how, source, target, result) ==
    /\ how = "complete"
    /\ cited \subseteq offered /\ cited # {}
    /\ result \in Values /\ (target # NoValue => result = target)
    /\ Holds(c, cited, source, result)

LEMMA ContractVerifies ==
    ASSUME NEW c \in Claims \ Transitions, NEW rows \in Sendings, NEW at \in SUBSET (DOMAIN rows),
           NEW how, how = "complete", NEW source, NEW target \in Values \cup {NoValue},
           NEW result, result = ClaimContract(c, rows, at, how, source, target),
           result.verified
    PROVE  Verified(c, result.rows, RowsAt(rows, at), how, source, target, result.target)
<1> DEFINE matching == {i \in at : Matches(c, rows[i], source, target)}
           found == IF target # NoValue THEN target ELSE Reads[c][rows[First(matching)]].target
<1>1. /\ ~(Cardinality(matching) < Needs[c]) /\ found # NoValue
      /\ result = Proof(found, RowsAt(rows, matching))
  BY DEF ClaimContract, Rejected
<1>2. result.target = found /\ result.rows = RowsAt(rows, matching)
  BY <1>1 DEF Proof
<1>3. Needs[c] \in Nat \ {0}
  BY VerifierAssumption
<1>4. /\ IsFiniteSet(matching) /\ RowsAt(rows, matching) \subseteq Rows
      /\ Cardinality(RowsAt(rows, matching)) = Cardinality(matching)
  BY AsManyRows
<1>5. matching # {}
  BY <1>1, <1>3, <1>4, FS_EmptySet, FS_CardinalityType
<1>6. matching \in SUBSET Nat
  BY DEF Sendings
<1>7. First(matching) \in matching
  BY <1>5, <1>6, FirstIsIn
<1>8. \A i \in matching : Matches(c, rows[i], source, target)
  OBVIOUS
<1>9. \A i \in matching : rows[i] \in RowsAt(rows, matching) /\ rows[i] \in Rows
  BY <1>4 DEF RowsAt
<1> HIDE DEF matching
<1>10. Holds(c, result.rows, source, found)
  <2>1. Cardinality(result.rows) >= Needs[c]
    BY <1>1, <1>2, <1>3, <1>4, FS_CardinalityType
  <2>2. \A r \in result.rows : Reads[c][r].fits /\ Reads[c][r].source \in {NoValue, source}
    BY <1>2, <1>8 DEF RowsAt, Matches
  <2>3. Reads[c][rows[First(matching)]].target = found
    BY <1>7, <1>8 DEF Matches
  <2> QED BY <1>2, <1>7, <1>9, <2>1, <2>2, <2>3 DEF Holds
<1>11. found \in Values
  BY <1>1, <1>7, <1>9, VerifierAssumption
<1>12. result.rows \subseteq RowsAt(rows, at) /\ result.rows # {}
  BY <1>2, <1>5 DEF RowsAt, matching
<1> QED BY <1>2, <1>10, <1>11, <1>12 DEF Verified

LEMMA TransitionVerifies ==
    ASSUME NEW c \in Claims \cap Transitions, NEW rows \in Sendings,
           NEW at \in SUBSET (DOMAIN rows), at # {},
           NEW how, how = "complete", NEW source, NEW target \in Values \cup {NoValue},
           NEW result, result = StateTransition(c, rows, at, target), result.verified
    PROVE  Verified(c, result.rows, RowsAt(rows, at), how, source, target, result.target)
<1> DEFINE a == rows[First(at)]
           b == rows[Last(at)]
<1>1. PICK n \in Nat : rows \in [1..n -> Rows]
  <2>1. Cardinality(Rows) \in Nat
    BY VerifierAssumption, FS_CardinalityType
  <2> QED BY <2>1 DEF Sendings
<1>2. at \in SUBSET (1..n)
  BY <1>1
<1>3. First(at) \in at /\ Last(at) \in at /\ First(at) <= Last(at)
  <2>1. at \in SUBSET Nat
    BY <1>2
  <2>2. First(at) \in at /\ \A j \in at : First(at) <= j
    BY <2>1, FirstIsIn
  <2>3. Last(at) \in at
    BY <1>2, LastIsIn
  <2> QED BY <2>2, <2>3
<1>4. a \in Rows /\ b \in Rows /\ a \in RowsAt(rows, at) /\ b \in RowsAt(rows, at)
  BY <1>1, <1>2, <1>3 DEF RowsAt
<1>5. /\ ~ \E i, j \in at : i < j /\ Event[rows[i]].time > Event[rows[j]].time
      /\ ~(Event[b].time - Event[a].time > MaxDelta)
      /\ Event[a].artefact # NoValue /\ Event[b].artefact = Event[a].artefact
      /\ ~(Event[a].state # NoValue /\ Event[b].state = Event[a].state)
      /\ result = Proof(IF target # NoValue THEN target ELSE Event[b].artefact, RowsAt(rows, at))
  BY DEF StateTransition, Rejected
<1>6. /\ result.target = IF target # NoValue THEN target ELSE Event[b].artefact
      /\ result.rows = RowsAt(rows, at)
  BY <1>5 DEF Proof
<1>7. Event[a].time \in Int /\ Event[b].time \in Int /\ Event[b].artefact \in Values \cup {NoValue}
  BY <1>4, VerifierAssumption
<1>8. Event[a].time <= Event[b].time
  <2>1. CASE First(at) = Last(at)
    BY <2>1, <1>7
  <2>2. CASE First(at) < Last(at)
    BY <2>2, <1>3, <1>5, <1>7
  <2> QED BY <1>2, <1>3, <2>1, <2>2
<1>9. Event[b].time - Event[a].time <= MaxDelta
  BY <1>5, <1>7, VerifierAssumption
<1> HIDE DEF a, b
<1>10. Holds(c, result.rows, source, result.target)
  BY <1>4, <1>5, <1>6, <1>8, <1>9 DEF Holds
<1> QED BY <1>4, <1>5, <1>6, <1>7, <1>10 DEF Verified

LEMMA VerifierIsSound ==
    ASSUME NEW c \in Claims, NEW rows \in Sendings, NEW at \in SUBSET (DOMAIN rows),
           NEW how, NEW source, NEW target \in Values \cup {NoValue},
           NEW result, result = Verify(c, rows, at, how, source, target), result.verified
    PROVE  Verified(c, result.rows, RowsAt(rows, at), how, source, target, result.target)
<1>1. Admitted(at, how)
  BY DEF Verify, Rejected
<1>2. CASE c \in Transitions
  BY <1>1, <1>2, TransitionVerifies DEF Verify, Admitted
<1>3. CASE c \notin Transitions
  BY <1>1, <1>3, ContractVerifies DEF Verify, Admitted
<1> QED BY <1>2, <1>3

-----------------------------------------------------------------------------
(* The inductive invariant.                                                *)

AskedClaims == {c \in Claims : claimStatus[c] # "UNPROVEN"}

\* While the loop goes on no answer was incomplete and no edge failed: the
\* first that fails ends it.
GoesOn ==
    decision = "none" =>
        /\ turn < MaxTurns /\ ~incomplete
        /\ \A c \in Claims : claimStatus[c] \in {"UNPROVEN", "SUPPORTED"}

\* A claim is asked once.
Counted == queries = Cardinality(AskedClaims)

\* An object keeps the value the claim names, and has no other before its
\* edge is verified.
Nodes ==
    \A c \in Claims :
        /\ Object[c] # NoValue => node[c] = Object[c]
        /\ edgeStatus[c] = "UNPROVEN" => node[c] = Object[c] /\ proof[c] = {}

\* What a verified edge rests on, for as long as the hunt lasts.
Earned ==
    \A c \in Claims :
        /\ claimStatus[c] = "SUPPORTED" <=> edgeStatus[c] = "VERIFIED"
        /\ edgeStatus[c] = "VERIFIED" =>
             /\ Source(c) # NoValue
             /\ proof[c] \subseteq ledger /\ proof[c] # {}
             /\ Holds(c, proof[c], Source(c), node[c])
             /\ \A r \in Requires[c] : reqStatus[r] = "CONFIRMED"

\* A resolved hunt was never left with an open or failed mandatory claim.
Resolution ==
    decision = "STOP_RESOLVED" =>
        ~incomplete /\ \A c \in Mandatory : claimStatus[c] = "SUPPORTED"

ClaimInv == TypeOK /\ GoesOn /\ Counted /\ Nodes /\ Earned /\ OneProofPerRow /\ Resolution

LEMMA InitialClaims == Init => ClaimInv
<1> SUFFICES ASSUME Init PROVE ClaimInv
  OBVIOUS
<1>1. AskedClaims = {}
  BY DEF Init, AskedClaims
<1>2. Cardinality(Claims) \in Nat /\ Cardinality(AskedClaims) = 0
  BY <1>1, VerifierAssumption, FS_EmptySet, FS_CardinalityType
<1>3. TypeOK
  <2>1. turn \in 0..MaxTurns /\ queries \in 0..Cardinality(Claims)
    BY <1>2, GraphAssumption DEF Init
  <2>2. node \in [Claims -> Values \cup {NoValue}] /\ bindable \subseteq Claims
    BY GraphAssumption DEF Init
  <2>3. proof \in [Claims -> SUBSET Rows]
    BY DEF Init
  <2> QED BY <2>1, <2>2, <2>3 DEF Init, TypeOK, Decisions
<1>4. GoesOn /\ Counted /\ Nodes /\ OneProofPerRow /\ Resolution
  BY <1>2, GraphAssumption DEF Init, GoesOn, Counted, Nodes, OneProofPerRow, Resolution
<1>5. Earned
  BY DEF Init, Earned
<1> QED BY <1>3, <1>4, <1>5 DEF ClaimInv

\* What one query of the loop is about.
Queried(c, answer, result) ==
    /\ Turn /\ c \in Actionable /\ answer \in Answers
    /\ result = Verify(c, answer.rows, Fresh(answer.rows), answer.how, Source(c), node[c])
    /\ Asked(c, answer) /\ UNCHANGED <<bindable, late, phase>>

LEMMA TestQueries ==
    ASSUME Test
    PROVE  \E c, answer, result :
             /\ Queried(c, answer, result)
             /\ \/ result.verified /\ Prove(c, result)
                \/ ~result.verified /\ Fail(c, answer.how)
<1>1. Chosen \in Actionable
  BY ChosenIsActionable DEF Test
<1>2. PICK answer \in Answers :
        LET result == Verify(Chosen, answer.rows, Fresh(answer.rows), answer.how,
                             Source(Chosen), node[Chosen])
        IN  /\ Asked(Chosen, answer)
            /\ \/ result.verified /\ Prove(Chosen, result)
               \/ ~result.verified /\ Fail(Chosen, answer.how)
  BY DEF Test
<1> DEFINE res == Verify(Chosen, answer.rows, Fresh(answer.rows), answer.how,
                         Source(Chosen), node[Chosen])
<1>3. Queried(Chosen, answer, res)
  BY <1>1, <1>2 DEF Test, Queried
<1> QED BY <1>2, <1>3

\* What every query does to the types, whatever its answer proves.
LEMMA QueryFacts ==
    ASSUME ClaimInv, NEW c, NEW answer, NEW result, Queried(c, answer, result)
    PROVE  /\ c \in Claims /\ edgeStatus[c] = "UNPROVEN" /\ claimStatus[c] = "UNPROVEN"
           /\ Source(c) # NoValue /\ decision = "none" /\ ~incomplete
           /\ turn' \in 0..MaxTurns /\ turn' < MaxTurns
           /\ cells' \in [Values -> {"none", "explored", "partial", "unqueryable", "unreachable"}]
           /\ ledger' \subseteq Rows /\ ledger \subseteq ledger' /\ incomplete' \in BOOLEAN
           /\ incomplete' = (answer.how # "complete")
           /\ answer.how \in {"complete", "partial", "failed", "unreachable"}
           /\ queries' = Cardinality(AskedClaims \cup {c})
           /\ queries' \in 0..Cardinality(Claims)
<1>1. c \in Claims /\ edgeStatus[c] = "UNPROVEN" /\ Source(c) # NoValue /\ decision = "none"
  BY DEF Queried, Actionable, Unproven, Turn
<1>2. claimStatus[c] = "UNPROVEN" /\ ~incomplete
  BY <1>1 DEF ClaimInv, GoesOn, Earned, TypeOK
<1>3. turn' \in 0..MaxTurns /\ turn' < MaxTurns
  BY GraphAssumption DEF Queried, Turn, IsExhausted, ClaimInv, TypeOK
<1>4. answer.how \in {"complete", "partial", "failed", "unreachable"}
  BY DEF Queried, Answers
<1>5. CellAfter(answer.how) \in {"explored", "partial", "unqueryable", "unreachable"}
  BY <1>4 DEF CellAfter
<1>6. cells' \in [Values -> {"none", "explored", "partial", "unqueryable", "unreachable"}]
  BY <1>5 DEF Queried, Asked, ClaimInv, TypeOK
<1>7. Range(answer.rows) \subseteq Rows
  BY DEF Queried, Answers, Sendings, Range
<1>8. ledger' \subseteq Rows /\ ledger \subseteq ledger' /\ incomplete' = (answer.how # "complete")
  BY <1>2, <1>7 DEF Queried, Asked, ClaimInv, TypeOK
<1>9. AskedClaims \subseteq Claims /\ c \notin AskedClaims /\ AskedClaims \cup {c} \subseteq Claims
  BY <1>1, <1>2 DEF AskedClaims
<1>10. IsFiniteSet(Claims) /\ IsFiniteSet(AskedClaims)
  BY <1>9, VerifierAssumption, FS_Subset
<1>11. Cardinality(AskedClaims \cup {c}) = Cardinality(AskedClaims) + 1
  BY <1>9, <1>10, FS_AddElement
<1>12. /\ Cardinality(AskedClaims) \in Nat /\ Cardinality(Claims) \in Nat
       /\ Cardinality(AskedClaims \cup {c}) <= Cardinality(Claims)
  BY <1>9, <1>10, FS_Subset, FS_CardinalityType
<1>13. queries' = Cardinality(AskedClaims) + 1
  BY DEF Queried, Asked, ClaimInv, Counted
<1> QED BY <1>1, <1>2, <1>3, <1>4, <1>6, <1>8, <1>11, <1>12, <1>13

\* A proof is of rows that the ledger did not have.
LEMMA ProofIsNew ==
    ASSUME ClaimInv, NEW c, NEW answer, NEW result, Queried(c, answer, result), result.verified
    PROVE  /\ answer.how = "complete" /\ result.rows # {}
           /\ result.rows \subseteq ledger' /\ result.rows \cap ledger = {}
           /\ result.target \in Values /\ (node[c] # NoValue => result.target = node[c])
           /\ Holds(c, result.rows, Source(c), result.target)
<1>1. c \in Claims /\ node[c] \in Values \cup {NoValue}
  BY QueryFacts DEF ClaimInv, TypeOK
<1>2. answer.how = "complete"
  BY DEF Queried, Verify, Admitted, Rejected
<1>3. answer.rows \in Sendings
  BY <1>2 DEF Queried, Answers
<1>4. Fresh(answer.rows) \in SUBSET (DOMAIN answer.rows)
  BY DEF Fresh
<1> DEFINE offered == RowsAt(answer.rows, Fresh(answer.rows))
<1>5. Verified(c, result.rows, offered, answer.how, Source(c), node[c], result.target)
  BY <1>1, <1>3, <1>4, VerifierIsSound DEF Queried
<1>6. offered \subseteq ledger' /\ offered \cap ledger = {}
  BY DEF RowsAt, Fresh, Queried, Asked, Range
<1> QED BY <1>2, <1>5, <1>6 DEF Verified

-----------------------------------------------------------------------------
(* The steps.                                                              *)

\* What is known of a source stays as it is.
LEMMA SourcesStay ==
    ASSUME ClaimInv, NEW c, NEW answer, NEW result, Queried(c, answer, result),
           result.verified, Prove(c, result), NEW d \in Claims, Source(d) # NoValue
    PROVE  Source(d)' = Source(d)
<1>1. c \in Claims /\ node' = [node EXCEPT ![c] = result.target]
  BY QueryFacts DEF Prove
<1>2. node[c] # NoValue => result.target = node[c]
  BY ProofIsNew
<1>3. node \in [Claims -> Values \cup {NoValue}]
  BY DEF ClaimInv, TypeOK
<1>4. Subject[d] \in Claims \cup {NoClaim}
  BY GraphAssumption
<1> QED BY <1>1, <1>2, <1>3, <1>4 DEF Source

LEMMA ProofKeepsTypes ==
    ASSUME ClaimInv, NEW c, NEW answer, NEW result, Queried(c, answer, result),
           result.verified, Prove(c, result)
    PROVE  TypeOK'
<1>1. bindable' \subseteq Claims /\ late' \in BOOLEAN /\ phase' \in {"hunting", "reported", "declined"}
  BY DEF Queried, ClaimInv, TypeOK
<1>2. /\ claimStatus' \in [Claims -> {"UNPROVEN", "SUPPORTED", "UNKNOWN", "INCONCLUSIVE"}]
      /\ edgeStatus' \in [Claims -> {"UNPROVEN", "VERIFIED"}]
  BY DEF Prove, ClaimInv, TypeOK
<1>3. result.target \in Values /\ result.rows \subseteq Rows
  BY ProofIsNew, QueryFacts
<1>4. node' \in [Claims -> Values \cup {NoValue}]
  BY <1>3 DEF Prove, ClaimInv, TypeOK
<1>5. proof' \in [Claims -> SUBSET Rows]
  BY <1>3 DEF Prove, ClaimInv, TypeOK
<1>6. reqStatus' \in [Requirements -> {"DEFINED", "EXECUTED", "CONFIRMED", "INCONCLUSIVE"}]
  BY DEF Prove, Settled, ClaimInv, TypeOK
<1>7. identified' \in BOOLEAN
  BY DEF Prove, Resolves, ClaimInv, TypeOK
<1>8. decision' \in Decisions
  BY DEF Prove, ClaimInv, TypeOK
<1> QED BY <1>1, <1>2, <1>4, <1>5, <1>6, <1>7, <1>8, QueryFacts DEF TypeOK

LEMMA ProofStep ==
    ASSUME ClaimInv, NEW c, NEW answer, NEW result, Queried(c, answer, result),
           result.verified, Prove(c, result)
    PROVE  ClaimInv'
<1>1. /\ c \in Claims /\ edgeStatus[c] = "UNPROVEN" /\ claimStatus[c] = "UNPROVEN"
      /\ Source(c) # NoValue /\ decision = "none" /\ turn' < MaxTurns
      /\ ledger \subseteq ledger' /\ incomplete' = (answer.how # "complete")
      /\ queries' = Cardinality(AskedClaims \cup {c})
  BY QueryFacts
<1>2. /\ answer.how = "complete" /\ result.rows # {}
      /\ result.rows \subseteq ledger' /\ result.rows \cap ledger = {}
      /\ result.target \in Values /\ (node[c] # NoValue => result.target = node[c])
      /\ Holds(c, result.rows, Source(c), result.target)
  BY ProofIsNew
<1>3. /\ claimStatus' = [claimStatus EXCEPT ![c] = "SUPPORTED"]
      /\ edgeStatus' = [edgeStatus EXCEPT ![c] = "VERIFIED"]
      /\ node' = [node EXCEPT ![c] = result.target]
      /\ proof' = [proof EXCEPT ![c] = result.rows]
      /\ reqStatus' = Settled(c, "CONFIRMED") /\ decision' = decision
  BY DEF Prove
<1>4. TypeOK
  BY DEF ClaimInv
<1>5. GoesOn'
  BY <1>1, <1>2, <1>3, <1>4 DEF GoesOn, ClaimInv, TypeOK
<1>6. Counted'
  <2>1. AskedClaims' = AskedClaims \cup {c}
    BY <1>1, <1>3, <1>4 DEF AskedClaims, TypeOK
  <2> QED BY <1>1, <2>1 DEF Counted
<1>7. Nodes'
  <2> SUFFICES ASSUME NEW d \in Claims
               PROVE  /\ Object[d] # NoValue => node'[d] = Object[d]
                      /\ edgeStatus'[d] = "UNPROVEN" => node'[d] = Object[d] /\ proof'[d] = {}
    BY DEF Nodes
  <2>1. CASE d = c
    BY <2>1, <1>1, <1>2, <1>3, <1>4 DEF ClaimInv, Nodes, TypeOK
  <2>2. CASE d # c
    BY <2>2, <1>3, <1>4 DEF ClaimInv, Nodes, TypeOK
  <2> QED BY <2>1, <2>2
<1>8. Earned'
  <2> SUFFICES ASSUME NEW d \in Claims
               PROVE  /\ claimStatus'[d] = "SUPPORTED" <=> edgeStatus'[d] = "VERIFIED"
                      /\ edgeStatus'[d] = "VERIFIED" =>
                           /\ Source(d)' # NoValue
                           /\ proof'[d] \subseteq ledger' /\ proof'[d] # {}
                           /\ Holds(d, proof'[d], Source(d)', node'[d])
                           /\ \A r \in Requires[d] : reqStatus'[r] = "CONFIRMED"
    BY DEF Earned, Holds
  <2>1. CASE d = c
    <3>1. Source(c)' = Source(c)
      BY <1>1, SourcesStay
    <3>2. proof'[c] = result.rows /\ node'[c] = result.target
          /\ claimStatus'[c] = "SUPPORTED" /\ edgeStatus'[c] = "VERIFIED"
      BY <1>1, <1>3, <1>4 DEF TypeOK
    <3>3. \A r \in Requires[c] : reqStatus'[r] = "CONFIRMED"
      BY <1>1, <1>3, GraphAssumption DEF Settled
    <3> QED BY <2>1, <1>1, <1>2, <3>1, <3>2, <3>3
  <2>2. CASE d # c
    <3>1. /\ claimStatus'[d] = claimStatus[d] /\ edgeStatus'[d] = edgeStatus[d]
          /\ proof'[d] = proof[d] /\ node'[d] = node[d]
      BY <2>2, <1>3, <1>4 DEF TypeOK
    <3>2. claimStatus[d] = "SUPPORTED" <=> edgeStatus[d] = "VERIFIED"
      BY DEF ClaimInv, Earned
    <3>3. CASE edgeStatus[d] = "VERIFIED"
      <4>1. /\ Source(d) # NoValue /\ proof[d] \subseteq ledger /\ proof[d] # {}
            /\ Holds(d, proof[d], Source(d), node[d])
            /\ \A r \in Requires[d] : reqStatus[r] = "CONFIRMED"
        BY <3>3 DEF ClaimInv, Earned
      <4>2. Source(d)' = Source(d)
        BY <4>1, SourcesStay
      <4>3. \A r \in Requires[d] : reqStatus'[r] = "CONFIRMED"
        BY <4>1, <1>3, GraphAssumption DEF Settled
      <4> QED BY <1>1, <3>1, <3>2, <4>1, <4>2, <4>3
    <3> QED BY <3>1, <3>2, <3>3
  <2> QED BY <2>1, <2>2
<1>9. OneProofPerRow'
  <2> SUFFICES ASSUME NEW d \in Claims, NEW e \in Claims, d # e
               PROVE  proof'[d] \cap proof'[e] = {}
    BY DEF OneProofPerRow
  <2>1. \A b \in Claims \ {c} : proof'[b] = proof[b] /\ proof[b] \subseteq ledger
    BY <1>3, <1>4 DEF ClaimInv, Earned, Nodes, TypeOK
  <2>2. proof'[c] = result.rows
    BY <1>1, <1>3, <1>4 DEF TypeOK
  <2>3. proof[d] \cap proof[e] = {}
    BY DEF ClaimInv, OneProofPerRow
  <2> QED BY <1>2, <2>1, <2>2, <2>3
<1>10. Resolution'
  BY <1>1, <1>3 DEF Resolution
<1> QED BY ProofKeepsTypes, <1>5, <1>6, <1>7, <1>8, <1>9, <1>10 DEF ClaimInv

\* An edge that fails ends the loop, and touches no proof.
LEMMA FailureStep ==
    ASSUME ClaimInv, NEW c, NEW answer, NEW result, Queried(c, answer, result),
           ~result.verified, Fail(c, answer.how)
    PROVE  ClaimInv'
<1>1. /\ c \in Claims /\ edgeStatus[c] = "UNPROVEN" /\ claimStatus[c] = "UNPROVEN"
      /\ ledger \subseteq ledger'
      /\ queries' = Cardinality(AskedClaims \cup {c})
  BY QueryFacts
<1> DEFINE failed == IF answer.how = "complete" THEN "UNKNOWN" ELSE "INCONCLUSIVE"
<1>2. /\ claimStatus' = [claimStatus EXCEPT ![c] = failed]
      /\ edgeStatus' = edgeStatus /\ node' = node /\ proof' = proof
      /\ identified' = identified /\ decision' = FailureOf(c)
  BY DEF Fail
<1>3. TypeOK
  BY DEF ClaimInv
<1>4. decision' \in {"STOP_INCONCLUSIVE_IDENTITY_UNRESOLVED", "STOP_INCONCLUSIVE_RELATION_UNPROVEN"}
  BY <1>2 DEF FailureOf
<1>5. /\ reqStatus' \in [Requirements -> {"DEFINED", "EXECUTED", "CONFIRMED", "INCONCLUSIVE"}]
      /\ \A r \in Requirements : reqStatus[r] = "CONFIRMED" => reqStatus'[r] = "CONFIRMED"
  BY <1>3 DEF Fail, Executed, TypeOK
<1>6. TypeOK'
  <2>1. bindable' \subseteq Claims /\ late' \in BOOLEAN
        /\ phase' \in {"hunting", "reported", "declined"}
    BY <1>3 DEF Queried, TypeOK
  <2>2. claimStatus' \in [Claims -> {"UNPROVEN", "SUPPORTED", "UNKNOWN", "INCONCLUSIVE"}]
    BY <1>2, <1>3 DEF TypeOK
  <2>3. /\ edgeStatus' \in [Claims -> {"UNPROVEN", "VERIFIED"}]
        /\ node' \in [Claims -> Values \cup {NoValue}]
        /\ proof' \in [Claims -> SUBSET Rows]
        /\ identified' \in BOOLEAN
    BY <1>2, <1>3 DEF TypeOK
  <2>4. decision' \in Decisions
    BY <1>4 DEF Decisions
  <2> QED BY <2>1, <2>2, <2>3, <2>4, <1>5, QueryFacts DEF TypeOK
<1>7. GoesOn' /\ Resolution'
  BY <1>4 DEF GoesOn, Resolution
<1>8. Counted'
  <2>1. AskedClaims' = AskedClaims \cup {c}
    BY <1>1, <1>2, <1>3 DEF AskedClaims, TypeOK
  <2> QED BY <1>1, <2>1 DEF Counted
<1>9. Nodes' /\ OneProofPerRow'
  BY <1>2 DEF ClaimInv, Nodes, OneProofPerRow
<1>10. Earned'
  <2> SUFFICES ASSUME NEW d \in Claims
               PROVE  /\ claimStatus'[d] = "SUPPORTED" <=> edgeStatus'[d] = "VERIFIED"
                      /\ edgeStatus'[d] = "VERIFIED" =>
                           /\ Source(d)' # NoValue
                           /\ proof'[d] \subseteq ledger' /\ proof'[d] # {}
                           /\ Holds(d, proof'[d], Source(d)', node'[d])
                           /\ \A r \in Requires[d] : reqStatus'[r] = "CONFIRMED"
    BY DEF Earned, Holds
  <2>1. claimStatus'[d] = "SUPPORTED" <=> edgeStatus'[d] = "VERIFIED"
    BY <1>1, <1>2, <1>3 DEF ClaimInv, Earned, TypeOK
  <2>2. Source(d)' = Source(d)
    BY <1>2 DEF Source
  <2>3. Requires[d] \subseteq Requirements
    BY GraphAssumption
  <2> QED BY <1>1, <1>2, <1>5, <2>1, <2>2, <2>3 DEF ClaimInv, Earned
<1> QED BY <1>6, <1>7, <1>8, <1>9, <1>10 DEF ClaimInv

\* A hunt that stops as resolved has every mandatory claim supported.
LEMMA StoppedResolved ==
    ASSUME ClaimInv, decision = "none", NEW isLate, EvaluateStopping(isLate) = "STOP_RESOLVED"
    PROVE  \A c \in Mandatory : claimStatus[c] = "SUPPORTED"
<1>1. \A c \in Claims : claimStatus[c] \in {"UNPROVEN", "SUPPORTED"}
  BY DEF ClaimInv, GoesOn
<1>2. Mandatory \subseteq Claims
  BY DEF Mandatory
<1>3. CASE \A c \in Mandatory : Resolved(c)
  BY <1>1, <1>2, <1>3 DEF Resolved
<1>4. CASE ~ \A c \in Mandatory : Resolved(c)
  <2>1. Unproven = {}
    BY <1>4 DEF EvaluateStopping
  <2> QED BY <1>2, <2>1 DEF Unproven, ClaimInv, TypeOK, Earned
<1> QED BY <1>3, <1>4

LEMMA StopStep ==
    ASSUME ClaimInv, Stop \/ Exhaust \/ Report \/ RunLate \/ UNCHANGED vars
    PROVE  ClaimInv'
<1>1. UNCHANGED <<bindable, claimStatus, edgeStatus, node, proof, reqStatus, cells, ledger,
                  incomplete, identified, queries>>
  BY DEF Stop, Exhaust, Report, RunLate, vars, graph, report
<1>2. TypeOK
  BY DEF ClaimInv
<1>3. /\ decision' \in Decisions
      /\ \/ decision' # "STOP_RESOLVED"
         \/ decision' = decision
         \/ /\ decision = "none"
            /\ decision' = EvaluateStopping(late')
  <2>1. CASE Stop
    <3>1. decision = "none" /\ decision' = EvaluateStopping(late')
      BY <2>1 DEF Stop, Turn
    <3>2. ClaimVerdict \in Decisions
      BY DEF ClaimVerdict, Decisions
    <3>3. EvaluateStopping(late') \in Decisions
      BY <3>2 DEF EvaluateStopping, Decisions
    <3> QED BY <3>1, <3>3
  <2>2. CASE Exhaust
    BY <2>2 DEF Exhaust, Decisions
  <2>3. CASE Report \/ RunLate \/ UNCHANGED vars
    BY <2>3, <1>2 DEF Report, RunLate, vars, TypeOK
  <2> QED BY <2>1, <2>2, <2>3
<1>4. turn' \in 0..MaxTurns /\ (decision' = "none" => turn' < MaxTurns /\ decision = "none")
  <2>1. CASE Stop
    BY <2>1, <1>2, GraphAssumption DEF Stop, Turn, IsExhausted, TypeOK
  <2>2. CASE Exhaust
    BY <2>2, <1>2, GraphAssumption DEF Exhaust, TypeOK, ClaimInv, GoesOn
  <2>3. CASE Report \/ RunLate \/ UNCHANGED vars
    BY <2>3, <1>2 DEF Report, RunLate, vars, TypeOK, ClaimInv, GoesOn
  <2> QED BY <2>1, <2>2, <2>3
<1>5. late' \in BOOLEAN /\ phase' \in {"hunting", "reported", "declined"}
  BY <1>2 DEF Stop, Exhaust, Report, RunLate, vars, TypeOK
<1>6. TypeOK'
  BY <1>1, <1>2, <1>3, <1>4, <1>5 DEF TypeOK
<1>7. GoesOn'
  BY <1>1, <1>4 DEF ClaimInv, GoesOn
<1>8. Counted' /\ Nodes' /\ OneProofPerRow'
  BY <1>1 DEF ClaimInv, Counted, Nodes, OneProofPerRow, AskedClaims
<1>9. Earned'
  <2>1. \A d \in Claims : Source(d)' = Source(d)
    BY <1>1 DEF Source
  <2> QED BY <1>1, <2>1 DEF ClaimInv, Earned, Holds
<1>10. Resolution'
  <2>1. CASE decision' = decision
    BY <2>1, <1>1 DEF ClaimInv, Resolution
  <2>2. CASE decision = "none" /\ decision' = EvaluateStopping(late') /\ decision' = "STOP_RESOLVED"
    BY <2>2, <1>1, StoppedResolved DEF ClaimInv, GoesOn, Resolution
  <2> QED BY <1>3, <2>1, <2>2 DEF Resolution
<1> QED BY <1>6, <1>7, <1>8, <1>9, <1>10 DEF ClaimInv

LEMMA ClaimInvariant == Spec => []ClaimInv
<1>1. Init => ClaimInv
  BY InitialClaims
<1>2. ClaimInv /\ [Next]_vars => ClaimInv'
  <2> SUFFICES ASSUME ClaimInv, [Next]_vars PROVE ClaimInv'
    OBVIOUS
  <2>1. CASE Test
    <3>1. PICK c, answer, result :
            /\ Queried(c, answer, result)
            /\ \/ result.verified /\ Prove(c, result)
               \/ ~result.verified /\ Fail(c, answer.how)
      BY <2>1, TestQueries
    <3> QED BY <3>1, ProofStep, FailureStep
  <2>2. CASE Stop \/ Exhaust \/ Report \/ RunLate \/ UNCHANGED vars
    BY <2>2, StopStep
  <2> QED BY <2>1, <2>2 DEF Next, Iterate
<1> QED BY <1>1, <1>2, PTL DEF Spec

-----------------------------------------------------------------------------

\* The state is well typed, and a hunt makes at most one query per claim
\* (execute_hunt, the loop over a claim graph).
THEOREM QueriesAreBounded == Spec => []TypeOK
<1>1. ClaimInv => TypeOK
  BY DEF ClaimInv
<1> QED BY <1>1, ClaimInvariant, PTL

\* SupportedIsProved holds of every claim graph (verify_candidate_edge and
\* the branch of execute_hunt that records its proof).
THEOREM SupportIsProved == Spec => []SupportedIsProved
<1>1. ClaimInv => SupportedIsProved
  <2> SUFFICES ASSUME ClaimInv, NEW c \in Claims
               PROVE  /\ claimStatus[c] = "SUPPORTED" <=> edgeStatus[c] = "VERIFIED"
                      /\ claimStatus[c] = "SUPPORTED" =>
                           /\ proof[c] \subseteq ledger /\ proof[c] # {} /\ Proves(c)
                           /\ Subject[c] # NoClaim /\ Object[Subject[c]] = NoValue =>
                                claimStatus[Subject[c]] = "SUPPORTED"
    BY DEF SupportedIsProved
  <2>1. claimStatus[c] = "SUPPORTED" <=> edgeStatus[c] = "VERIFIED"
    BY DEF ClaimInv, Earned
  <2>2. ASSUME edgeStatus[c] = "VERIFIED"
        PROVE  proof[c] \subseteq ledger /\ proof[c] # {} /\ Proves(c) /\ Source(c) # NoValue
    BY <2>2, ProvesIsHolds DEF ClaimInv, Earned
  <2>3. ASSUME edgeStatus[c] = "VERIFIED", Subject[c] # NoClaim, Object[Subject[c]] = NoValue
        PROVE  claimStatus[Subject[c]] = "SUPPORTED"
    <3>1. Subject[c] \in Claims /\ node[Subject[c]] # NoValue
      BY <2>2, <2>3, GraphAssumption DEF Source
    <3> QED BY <2>3, <3>1 DEF ClaimInv, Nodes, Earned, TypeOK
  <2> QED BY <2>1, <2>2, <2>3
<1> QED BY <1>1, ClaimInvariant, PTL

\* OneProofPerRow holds in every hunt (the rows that execute_hunt offers).
THEOREM RowsProveOnce == Spec => []OneProofPerRow
<1>1. ClaimInv => OneProofPerRow
  BY DEF ClaimInv
<1> QED BY <1>1, ClaimInvariant, PTL

\* ResolvedIsWhole holds in every hunt: the decision to stop is never more
\* than the claims, the requirements and the answers bear (evaluate_stopping).
THEOREM ResolutionIsWhole == Spec => []ResolvedIsWhole
<1>1. ClaimInv => ResolvedIsWhole
  BY DEF ClaimInv, Resolution, Earned, Mandatory, ResolvedIsWhole
<1> QED BY <1>1, ClaimInvariant, PTL
=============================================================================
