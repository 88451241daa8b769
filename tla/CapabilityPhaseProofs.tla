----------------------- MODULE CapabilityPhaseProofs -----------------------
(***************************************************************************)
(* For every catalogue of providers, every request and every answer of the *)
(* model: what was cached or proposed for another schema is not used, what *)
(* may prove was probed, a goal is tested on what was found for it, and a  *)
(* hunt goes on with all that is left to it.                               *)
(***************************************************************************)
EXTENDS CapabilityPhaseProperties, FiniteSetTheorems, SequenceTheorems,
        WellFoundedInduction, TLAPS

LEMMA MaxIsIn ==
    ASSUME NEW n \in Nat, NEW S \in SUBSET (1..n), S # {}
    PROVE  Max(S) \in S
<1> DEFINE R == OpToRel(<, Nat)
           T == {n - i : i \in S}
<1>1. IsWellFoundedOn(R, Nat)
  BY NatLessThanWellFounded
<1>2. \A x, y \in Nat : y < x => <<y, x>> \in R
  BY DEF OpToRel
<1>3. \A i \in S : n - i \in Nat /\ i \in Nat
  OBVIOUS
<1>4. T \subseteq Nat /\ T # {}
  BY <1>3
<1> HIDE DEF R
<1>5. PICK m \in T : \A k \in T : ~ (<<k, m>> \in R)
  BY <1>1, <1>4, WFMin
<1>6. PICK i \in S : m = n - i
  BY <1>5
<1>7. ASSUME NEW j \in S PROVE i >= j
  <2>1. n - j \in T /\ n - j \in Nat /\ n - i \in Nat
    BY <1>3
  <2>2. ~(n - j < n - i)
    BY <1>2, <1>5, <1>6, <2>1
  <2> QED BY <1>3, <2>2
<1> QED BY <1>7 DEF Max

-----------------------------------------------------------------------------
(* The inductive invariant.                                                *)

\* What may prove has the roles of an approved contract.
Approved(c) ==
    c.proof => \E contract \in Contracts :
                  /\ contract.approved /\ contract.relation = c.relation
                  /\ contract.requires \subseteq Assigns[c.roles]

\* The key of a capability is of its own source and schema.
CacheInv ==
    \A k \in DOMAIN cache :
        k[1] = cache[k].source /\ k[2] = cache[k].schema /\ Approved(cache[k])

\* What was found in the cache stays there: what is probed later is cached
\* under other keys.
HitsInv ==
    \A k \in DOMAIN hits :
        /\ k = <<k[1], k[2]>>
        /\ \E i \in Same(profiling, k[2]) :
              IsCached(k[1], i) /\ hits[k] = cache[Key(k[1], graph.goals[i])]

\* The positions that are profiled are those of a list.
ProfilingInv == \E n \in Nat : profiling \subseteq 1..n

\* A capability that was read from the schema the census found and was
\* probed by this hunt or found in the cache.
Current(c, census, found, seen) ==
    /\ c.schema = census[c.source] /\ Approved(c)
    /\ c \in seen \/ \E k \in DOMAIN found : c = found[k]
OperationsInv ==
    /\ phase = "lookup" => operations = << >>
    /\ \E S : operations \in Seq(S)
    /\ \A i \in DOMAIN operations : Current(operations[i].capability, profiles, hits, probed)

PhaseInv == CacheInv /\ HitsInv /\ ProfilingInv /\ OperationsInv

LEMMA InitialPhase == Init => PhaseInv
<1> SUFFICES ASSUME Init PROVE PhaseInv
  OBVIOUS
<1>1. CacheInv /\ HitsInv
  BY DEF Init, CacheInv, HitsInv
<1>2. ProfilingInv
  <2>1. profiling \subseteq 1..0
    BY DEF Init
  <2> QED BY <2>1 DEF ProfilingInv
<1>3. OperationsInv
  <2>1. operations \in Seq({})
    BY DEF Init
  <2> QED BY <2>1 DEF Init, OperationsInv
<1> QED BY <1>1, <1>2, <1>3 DEF PhaseInv

LEMMA BeginStep ==
    ASSUME PhaseInv, NEW g \in Graphs, NEW found, NEW hinted, Begin(g, found, hinted)
    PROVE  PhaseInv'
<1>1. CacheInv'
  BY DEF Begin, PhaseInv, CacheInv, Approved
<1>2. HitsInv'
  BY DEF Begin, HitsInv
<1>3. ProfilingInv'
  <2>1. profiling' \subseteq 1..Len(g.goals) /\ Len(g.goals) \in Nat
    BY PhaseAssumption DEF Begin, ProfilingOf
  <2> QED BY <2>1 DEF ProfilingInv
<1>4. OperationsInv'
  <2>1. operations' = << >> /\ operations' \in Seq({})
    BY DEF Begin
  <2> QED BY <2>1 DEF OperationsInv
<1> QED BY <1>1, <1>2, <1>3, <1>4 DEF PhaseInv

\* What the cache has for a source was read from its schema in the census.
LEMMA HitIsCurrent ==
    ASSUME PhaseInv, NEW k \in DOMAIN hits
    PROVE  hits[k].schema = profiles[hits[k].source] /\ Approved(hits[k]) /\ hits[k] \in Range(cache)
<1>1. PICK i \in Same(profiling, k[2]) :
        IsCached(k[1], i) /\ hits[k] = cache[Key(k[1], graph.goals[i])]
  BY DEF PhaseInv, HitsInv
<1> DEFINE key == Key(k[1], graph.goals[i])
<1>2. key \in DOMAIN cache /\ key[1] = k[1] /\ key[2] = profiles[k[1]]
  BY <1>1 DEF IsCached, Key
<1> QED BY <1>1, <1>2 DEF PhaseInv, CacheInv, Range

LEMMA LookupStep ==
    ASSUME PhaseInv, Lookup
    PROVE  PhaseInv'
<1>1. UNCHANGED <<cache, graph, profiles, profiling, operations, probed>>
  BY DEF Lookup, kept, hunt
<1>2. OperationsInv'
  <2>1. operations = << >> /\ phase' # "lookup"
    BY DEF Lookup, PhaseInv, OperationsInv
  <2> QED BY <1>1, <2>1 DEF PhaseInv, OperationsInv
<1>3. HitsInv'
  <2> SUFFICES ASSUME NEW k \in DOMAIN hits'
               PROVE  /\ k = <<k[1], k[2]>>
                      /\ \E i \in Same(profiling, k[2]) :
                            IsCached(k[1], i) /\ hits'[k] = cache[Key(k[1], graph.goals[i])]
    BY <1>1 DEF HitsInv, Same, IsCached, Key
  <2>1. k \in Pairs /\ Hit(k[1], k[2]) # NotCached /\ hits'[k] = Hit(k[1], k[2])
    BY DEF Lookup
  <2> DEFINE at == {i \in Same(profiling, k[2]) : IsCached(k[1], i)}
  <2>2. at # {} /\ hits'[k] = cache[Key(k[1], graph.goals[Max(at)])]
    BY <2>1 DEF Hit
  <2>3. PICK n \in Nat : at \subseteq 1..n
    BY DEF PhaseInv, ProfilingInv, Same
  <2>4. Max(at) \in at
    BY <2>2, <2>3, MaxIsIn
  <2> QED BY <2>1, <2>2, <2>4 DEF Pairs
<1>4. CacheInv' /\ ProfilingInv'
  BY <1>1 DEF PhaseInv, CacheInv, Approved, ProfilingInv
<1> QED BY <1>2, <1>3, <1>4 DEF PhaseInv

\* Steps that leave what the invariant is about.
LEMMA OtherStep ==
    ASSUME PhaseInv,
           \/ Refuse \/ CallFails \/ Propose \/ MakePlan
           \/ (\E s \in Sources : Drift(s)) \/ UNCHANGED vars
    PROVE  PhaseInv'
<1>1. /\ UNCHANGED <<cache, graph, profiles, profiling, hits, operations, probed>>
      /\ phase' = "lookup" => phase = "lookup"
  <2>1. CASE Refuse \/ CallFails \/ Propose
    BY <2>1 DEF Refuse, CallFails, Propose, MayCall, Ends, hunt
  <2>2. CASE MakePlan
    BY <2>2 DEF MakePlan, hunt, kept
  <2>3. CASE (\E s \in Sources : Drift(s)) \/ UNCHANGED vars
    BY <2>3 DEF Drift, vars, hunt, kept, world
  <2> QED BY <2>1, <2>2, <2>3
<1>2. CacheInv' /\ HitsInv' /\ ProfilingInv'
  BY <1>1 DEF PhaseInv, CacheInv, Approved, HitsInv, ProfilingInv, Same, IsCached, Key
<1>3. OperationsInv'
  BY <1>1 DEF PhaseInv, OperationsInv, Current, Approved
<1> QED BY <1>2, <1>3 DEF PhaseInv

\* An operation of the proposal at the head, if its capability is current.
LEMMA OperationIsMade ==
    ASSUME PhaseInv, NEW o, operations' = operations \o <<o>>,
           Current(o.capability, profiles, hits, probed'),
           UNCHANGED <<profiles, hits>>, probed \subseteq probed', phase' # "lookup"
    PROVE  OperationsInv'
<1>1. PICK S : operations \in Seq(S)
  BY DEF PhaseInv, OperationsInv
<1>2. operations \in Seq(S \cup {o})
  BY <1>1
<1>3. operations' \in Seq(S \cup {o})
  BY <1>2
<1>4. ASSUME NEW i \in DOMAIN operations'
      PROVE  Current(operations'[i].capability, profiles, hits, probed')
  <2>1. CASE i \in DOMAIN operations
    <3>1. operations'[i] = operations[i]
      BY <1>2, <2>1
    <3>2. Current(operations[i].capability, profiles, hits, probed)
      BY <2>1 DEF PhaseInv, OperationsInv
    <3> QED BY <3>1, <3>2 DEF Current
  <2>2. CASE i \notin DOMAIN operations
    <3>1. operations'[i] = o
      BY <1>2, <2>2
    <3> QED BY <3>1
  <2> QED BY <2>1, <2>2
<1> QED BY <1>3, <1>4 DEF OperationsInv, Current, Approved

LEMMA DropStep ==
    ASSUME PhaseInv, Reject \/ ProbeFails
    PROVE  PhaseInv'
<1>1. UNCHANGED <<cache, graph, profiles, profiling, hits, probed, phase>>
  BY DEF Reject, ProbeFails, Drop, hunt
<1>2. operations' = operations
  <2>1. operations' = operations \o << >>
    BY DEF Reject, ProbeFails, Drop
  <2>2. PICK S : operations \in Seq(S)
    BY DEF PhaseInv, OperationsInv
  <2> QED BY <2>1, <2>2
<1>3. CacheInv' /\ HitsInv' /\ ProfilingInv'
  BY <1>1 DEF PhaseInv, CacheInv, Approved, HitsInv, ProfilingInv, Same, IsCached, Key
<1>4. OperationsInv'
  BY <1>1, <1>2 DEF PhaseInv, OperationsInv, Current, Approved
<1> QED BY <1>3, <1>4 DEF PhaseInv

LEMMA ReuseStep ==
    ASSUME PhaseInv, Reuse
    PROVE  PhaseInv'
<1> DEFINE p == Head(proposals)
           k == <<p.source, p.relation>>
<1>1. /\ UNCHANGED <<cache, graph, profiles, profiling, hits, probed, phase>>
      /\ phase = "probe" /\ k \in DOMAIN hits
      /\ operations' = operations \o <<Operation(p, hits[k])>>
  BY DEF Reuse, Proposed, Drop, hunt
<1>2. CacheInv' /\ HitsInv' /\ ProfilingInv'
  <2>1. CacheInv'
    BY <1>1 DEF PhaseInv, CacheInv, Approved
  <2>2. HitsInv' /\ ProfilingInv'
    BY <1>1 DEF PhaseInv, HitsInv, ProfilingInv, Same, IsCached, Key
  <2> QED BY <2>1, <2>2
<1>3. OperationsInv'
  <2>1. Operation(p, hits[k]).capability = hits[k]
    BY DEF Operation
  <2>2. Current(hits[k], profiles, hits, probed')
    BY <1>1, HitIsCurrent DEF Current
  <2> QED BY <1>1, <2>1, <2>2, OperationIsMade
<1> QED BY <1>2, <1>3 DEF PhaseInv

\* What was probed is cached under a key that no capability found in the
\* cache has.
LEMMA CachedApart ==
    ASSUME PhaseInv, NEW source, NEW relation, <<source, relation>> \notin DOMAIN hits,
           Asked(relation), NEW c,
           c.source = source, c.schema = profiles[source], Approved(c),
           cache' = Cached(Key(source, LastOf(profiling, relation)), c),
           UNCHANGED <<profiles, profiling, graph, hits>>
    PROVE  CacheInv' /\ HitsInv'
<1> DEFINE last == Max(Same(profiling, relation))
           key == Key(source, graph.goals[last])
<1>1. last \in Same(profiling, relation)
  <2>1. PICK n \in Nat : profiling \subseteq 1..n
    BY DEF PhaseInv, ProfilingInv
  <2> QED BY <2>1, MaxIsIn DEF Asked, Same
<1>2. /\ key = <<source, profiles[source], graph.goals[last]>>
      /\ cache' = [k \in DOMAIN cache \cup {key} |-> IF k = key THEN c ELSE cache[k]]
  BY DEF LastOf, Cached, Key
<1>3. CacheInv'
  <2> SUFFICES ASSUME NEW k \in DOMAIN cache'
               PROVE  k[1] = cache'[k].source /\ k[2] = cache'[k].schema /\ Approved(cache'[k])
    BY DEF CacheInv, Approved
  <2>1. CASE k = key
    BY <2>1, <1>2
  <2>2. CASE k # key
    BY <2>2, <1>2 DEF PhaseInv, CacheInv
  <2> QED BY <2>1, <2>2
<1>4. HitsInv'
  <2> SUFFICES ASSUME NEW k \in DOMAIN hits
               PROVE  /\ k = <<k[1], k[2]>>
                      /\ \E i \in Same(profiling, k[2]) :
                            /\ Key(k[1], graph.goals[i]) \in DOMAIN cache'
                            /\ hits[k] = cache'[Key(k[1], graph.goals[i])]
    BY DEF HitsInv, Same, IsCached, Key
  <2>1. k = <<k[1], k[2]>>
    BY DEF PhaseInv, HitsInv
  <2>2. PICK i \in Same(profiling, k[2]) :
          IsCached(k[1], i) /\ hits[k] = cache[Key(k[1], graph.goals[i])]
    BY DEF PhaseInv, HitsInv
  <2>3. Key(k[1], graph.goals[i]) # key
    <3> SUFFICES ASSUME Key(k[1], graph.goals[i]) = key PROVE FALSE
      OBVIOUS
    <3>1. k[1] = source /\ graph.goals[i] = graph.goals[last]
      BY DEF Key
    <3>2. k[2] = relation
      BY <1>1, <2>2, <3>1 DEF Same
    <3> QED BY <2>1, <3>1, <3>2
  <2> QED BY <1>2, <2>1, <2>2, <2>3 DEF IsCached
<1> QED BY <1>3, <1>4

LEMMA ProbeStep ==
    ASSUME PhaseInv, ProbeSucceeds
    PROVE  PhaseInv'
<1> DEFINE p == Head(proposals)
           c == Capability(p)
<1>1. /\ UNCHANGED <<graph, profiles, profiling, hits, phase>>
      /\ phase = "probe" /\ <<p.source, p.relation>> \notin DOMAIN hits
      /\ operations' = operations \o <<Operation(p, c)>>
      /\ probed' = probed \cup {c}
      /\ cache' = IF Asked(p.relation) THEN Cached(Key(p.source, LastOf(profiling, p.relation)), c)
                  ELSE cache
  BY DEF ProbeSucceeds, Probe, NeedsProbe, Proposed, Drop, hunt
<1>2. c.source = p.source /\ c.relation = p.relation /\ c.roles = p.roles
      /\ c.schema = profiles[p.source] /\ c.proof = HasContract(p)
  BY DEF Capability
<1>3. Approved(c)
  BY <1>2 DEF Approved, HasContract, Conforms
<1> HIDE DEF c, p
<1>4. CacheInv' /\ HitsInv'
  <2>1. CASE Asked(p.relation)
    BY <2>1, <1>1, <1>2, <1>3, CachedApart
  <2>2. CASE ~Asked(p.relation)
    BY <2>2, <1>1 DEF PhaseInv, CacheInv, Approved, HitsInv, Same, IsCached, Key
  <2> QED BY <2>1, <2>2
<1>5. OperationsInv'
  <2>1. Operation(p, c).capability = c
    BY DEF Operation
  <2>2. Current(c, profiles, hits, probed')
    BY <1>1, <1>2, <1>3 DEF Current
  <2> QED BY <1>1, <2>1, <2>2, OperationIsMade
<1>6. ProfilingInv'
  BY <1>1 DEF PhaseInv, ProfilingInv
<1> QED BY <1>4, <1>5, <1>6 DEF PhaseInv

LEMMA GoesStep ==
    ASSUME PhaseInv, Guard \/ Execute \/ Decline \/ Claims \/ Search
    PROVE  PhaseInv'
<1>1. /\ UNCHANGED <<cache, graph, profiles, profiling, hits, operations, probed>>
      /\ phase' = "idle"
  BY DEF Guard, Execute, Decline, Claims, Search, Goes, kept, hunt
<1>2. CacheInv' /\ HitsInv' /\ ProfilingInv'
  BY <1>1 DEF PhaseInv, CacheInv, Approved, HitsInv, ProfilingInv, Same, IsCached, Key
<1>3. OperationsInv'
  BY <1>1 DEF PhaseInv, OperationsInv, Current, Approved
<1> QED BY <1>2, <1>3 DEF PhaseInv

LEMMA PhaseInvariant == Spec => []PhaseInv
<1>1. Init => PhaseInv
  BY InitialPhase
<1>2. PhaseInv /\ [Next]_vars => PhaseInv'
  <2> SUFFICES ASSUME PhaseInv, [Next]_vars PROVE PhaseInv'
    OBVIOUS
  <2>1. CASE Request
    BY <2>1, BeginStep DEF Request
  <2>2. CASE Step
    BY <2>2, LookupStep, OtherStep, DropStep, ReuseStep, ProbeStep, GoesStep DEF Step
  <2>3. CASE (\E s \in Sources : Drift(s)) \/ UNCHANGED vars
    BY <2>3, OtherStep
  <2> QED BY <2>1, <2>2, <2>3 DEF Next
<1> QED BY <1>1, <1>2, PTL DEF Spec

-----------------------------------------------------------------------------

\* OperationsAreCurrent holds in every session: a capability cached for
\* another schema of the source is not found again (RuntimeCapabilityCache.key).
THEOREM CachedIsCurrent == Spec => []OperationsAreCurrent
<1>1. PhaseInv => OperationsAreCurrent
  BY DEF PhaseInv, OperationsInv, Current, OperationsAreCurrent
<1> QED BY <1>1, PhaseInvariant, PTL

\* ProofIsProbed holds in every session, whatever the model proposes
\* (SourceMappingValidator.materialize and the runtime capability cache).
THEOREM ProposalsProveNothing == Spec => []ProofIsProbed
<1>1. PhaseInv => ProofIsProbed
  <2> SUFFICES ASSUME PhaseInv, NEW i \in DOMAIN operations
               PROVE  LET c == operations[i].capability
                      IN  c \in probed \cup Range(cache) /\ Approved(c)
    BY DEF ProofIsProbed, Approved
  <2>1. Current(operations[i].capability, profiles, hits, probed)
    BY DEF PhaseInv, OperationsInv
  <2> QED BY <2>1, HitIsCurrent DEF Current
<1> QED BY <1>1, PhaseInvariant, PTL

-----------------------------------------------------------------------------
(* Lists that are built by a loop: induction on their length.              *)

LEMMA NatSets ==
    ASSUME NEW S, 0 \in S, \A n \in Nat : n \in S => n + 1 \in S
    PROVE  Nat \subseteq S
<1> DEFINE R == OpToRel(<, Nat)
           T == Nat \ S
<1>1. SUFFICES ASSUME T # {} PROVE FALSE
  OBVIOUS
<1>2. IsWellFoundedOn(R, Nat)
  BY NatLessThanWellFounded
<1>3. \A i, j \in Nat : j < i => <<j, i>> \in R
  BY DEF OpToRel
<1> HIDE DEF R
<1>4. PICK m \in T : \A n \in T : ~ (<<n, m>> \in R)
  BY <1>1, <1>2, WFMin
<1>5. m \in Nat /\ m # 0 /\ m \notin S
  BY <1>4
<1>6. m - 1 \in Nat /\ m - 1 < m /\ (m - 1) + 1 = m
  BY <1>5
<1>7. m - 1 \notin T
  BY <1>3, <1>4, <1>5, <1>6
<1> QED BY <1>5, <1>6, <1>7

KeptUpto(f, s, S, n) ==
    f = [i \in 0 .. n |-> IF i = 0 THEN << >>
                          ELSE IF s[i] \in S THEN Append(f[i - 1], s[i]) ELSE f[i - 1]]

LEMMA KeptUptoSteps ==
    ASSUME NEW f, NEW s, NEW S, NEW n \in Nat, KeptUpto(f, s, S, n)
    PROVE  /\ f[0] = << >>
           /\ \A i \in 1 .. n :
                 f[i] = IF s[i] \in S THEN Append(f[i - 1], s[i]) ELSE f[i - 1]
<1>1. f[0] = << >>
  BY DEF KeptUpto
<1>2. ASSUME NEW i \in 1 .. n
      PROVE  f[i] = IF s[i] \in S THEN Append(f[i - 1], s[i]) ELSE f[i - 1]
  <2>1. i \in 0 .. n /\ i # 0
    OBVIOUS
  <2> QED BY <2>1, Zenon DEF KeptUpto
<1> QED BY <1>1, <1>2

LEMMA KeptUptoExists ==
    ASSUME NEW s, NEW S, NEW n \in Nat
    PROVE  \E f : KeptUpto(f, s, S, n)
<1> DEFINE N == {k \in Nat : \E f : KeptUpto(f, s, S, k)}
<1>1. 0 \in N
  <2>1. KeptUpto([i \in 0 .. 0 |-> << >>], s, S, 0)
    BY DEF KeptUpto
  <2> QED BY <2>1
<1>2. ASSUME NEW k \in Nat, k \in N PROVE k + 1 \in N
  <2>1. PICK f : KeptUpto(f, s, S, k)
    BY <1>2
  <2> DEFINE g == [i \in 0 .. k + 1 |->
                     IF i \in 0 .. k THEN f[i]
                     ELSE IF s[k + 1] \in S THEN Append(f[k], s[k + 1]) ELSE f[k]]
  <2>2. ASSUME NEW i \in 0 .. k + 1
        PROVE  g[i] = IF i = 0 THEN << >>
                      ELSE IF s[i] \in S THEN Append(g[i - 1], s[i]) ELSE g[i - 1]
    <3>1. CASE i = 0
      <4>1. f[0] = << >> /\ 0 \in 0 .. k
        BY <2>1, KeptUptoSteps
      <4> QED BY <3>1, <4>1
    <3>2. CASE i \in 1 .. k
      <4>1. g[i] = f[i] /\ g[i - 1] = f[i - 1]
        BY <3>2
      <4>2. f[i] = IF s[i] \in S THEN Append(f[i - 1], s[i]) ELSE f[i - 1]
        <5>1. \A j \in 1 .. k : f[j] = IF s[j] \in S THEN Append(f[j - 1], s[j]) ELSE f[j - 1]
          BY <2>1, KeptUptoSteps
        <5> QED BY <3>2, <5>1
      <4> QED BY <3>2, <4>1, <4>2
    <3>3. CASE i = k + 1
      <4>1. g[i - 1] = f[k] /\ i # 0 /\ i \notin 0 .. k
        BY <3>3
      <4> QED BY <3>3, <4>1
    <3> QED BY <3>1, <3>2, <3>3
  <2>3. KeptUpto(g, s, S, k + 1)
    BY <2>2 DEF KeptUpto
  <2> QED BY <2>3
<1>3. Nat \subseteq N
  <2> HIDE DEF N
  <2> QED BY <1>1, <1>2, NatSets
<1> QED BY <1>3

\* What is kept is in S.
LEMMA KeptIn ==
    ASSUME NEW s, NEW S, Len(s) \in Nat
    PROVE  Kept(s, S) \in Seq(S)
<1> DEFINE f == CHOOSE g : KeptUpto(g, s, S, Len(s))
<1>1. KeptUpto(f, s, S, Len(s))
  BY KeptUptoExists
<1>2. Kept(s, S) = f[Len(s)]
  BY DEF Kept, KeptUpto
<1> HIDE DEF f
<1> DEFINE N == {k \in Nat : k <= Len(s) => f[k] \in Seq(S)}
<1>3. 0 \in N
  <2>1. f[0] = << >>
    BY <1>1, KeptUptoSteps
  <2> QED BY <2>1, EmptySeq
<1>4. ASSUME NEW k \in Nat, k \in N PROVE k + 1 \in N
  <2> SUFFICES ASSUME k + 1 <= Len(s) PROVE f[k + 1] \in Seq(S)
    OBVIOUS
  <2>1. k + 1 \in 1 .. Len(s) /\ (k + 1) - 1 = k
    OBVIOUS
  <2>2. f[k + 1] = IF s[k + 1] \in S THEN Append(f[(k + 1) - 1], s[k + 1]) ELSE f[(k + 1) - 1]
    BY <1>1, <2>1, KeptUptoSteps
  <2>3. f[k] \in Seq(S)
    BY <1>4
  <2> QED BY <2>1, <2>2, <2>3, AppendProperties
<1>5. Nat \subseteq N
  <2> HIDE DEF N
  <2> QED BY <1>3, <1>4, NatSets
<1> QED BY <1>2, <1>5

-----------------------------------------------------------------------------
(* The way that FirstWay chooses is one of the ways: of finitely many      *)
(* letters there is a first word among the shortest.                       *)

LEMMA LeastOf ==
    ASSUME NEW S \in SUBSET Nat, S # {}
    PROVE  \E m \in S : \A n \in S : m <= n
<1> DEFINE R == OpToRel(<, Nat)
<1>1. IsWellFoundedOn(R, Nat)
  BY NatLessThanWellFounded
<1>2. \A i, j \in Nat : j < i => <<j, i>> \in R
  BY DEF OpToRel
<1> HIDE DEF R
<1>3. PICK m \in S : \A n \in S : ~ (<<n, m>> \in R)
  BY <1>1, WFMin
<1>4. ASSUME NEW n \in S PROVE m <= n
  <2>1. ~ (n < m) /\ m \in Nat /\ n \in Nat
    BY <1>2, <1>3
  <2> QED BY <2>1
<1> QED BY <1>4

\* Of the first k letters, those of w do not come after those of v.
Ahead(w, v, k) ==
    \/ \A i \in 1 .. k : w[i] = v[i]
    \/ \E i \in 1 .. k : w[i] < v[i] /\ \A j \in 1 .. (i - 1) : w[j] = v[j]

LEMMA AheadExists ==
    ASSUME NEW L \in Nat, NEW A, A # {}, NEW m \in Nat,
           \A w \in A : \A i \in 1 .. L : w[i] \in 1 .. m
    PROVE  \E w \in A : \A v \in A : Ahead(w, v, L)
<1> DEFINE First(k) == {w \in A : \A v \in A : Ahead(w, v, k)}
           N == {k \in Nat : k <= L => First(k) # {}}
<1>1. 0 \in N
  BY DEF Ahead
<1>2. ASSUME NEW k \in Nat, k \in N PROVE k + 1 \in N
  <2> SUFFICES ASSUME k + 1 <= L PROVE First(k + 1) # {}
    OBVIOUS
  <2>1. First(k) # {}
    BY <1>2
  <2> DEFINE letters == {w[k + 1] : w \in First(k)}
  <2>2. letters \in SUBSET Nat /\ letters # {}
    BY <2>1
  <2>3. PICK w \in First(k) : \A v \in First(k) : w[k + 1] <= v[k + 1]
    <3>1. PICK x \in letters : \A y \in letters : x <= y
      <4> HIDE DEF letters
      <4> QED BY <2>2, LeastOf
    <3> QED BY <3>1
  <2>4. ASSUME NEW v \in A PROVE Ahead(w, v, k + 1)
    <3>1. Ahead(w, v, k)
      BY <2>3
    <3>2. CASE \E i \in 1 .. k : w[i] < v[i] /\ \A j \in 1 .. (i - 1) : w[j] = v[j]
      <4>1. 1 .. k \subseteq 1 .. k + 1
        OBVIOUS
      <4> QED BY <3>2, <4>1 DEF Ahead
    <3>3. CASE \A i \in 1 .. k : w[i] = v[i]
      <4>1. v \in First(k)
        <5> SUFFICES ASSUME NEW u \in A PROVE Ahead(v, u, k)
          OBVIOUS
        <5>1. Ahead(w, u, k)
          BY <2>3
        <5> QED BY <3>3, <5>1 DEF Ahead
      <4>2. w[k + 1] <= v[k + 1] /\ w[k + 1] \in Nat /\ v[k + 1] \in Nat
        BY <2>3, <4>1
      <4>3. CASE w[k + 1] = v[k + 1]
        <5>1. \A i \in 1 .. k + 1 : i \in 1 .. k \/ i = k + 1
          OBVIOUS
        <5> QED BY <3>3, <4>3, <5>1 DEF Ahead
      <4>4. CASE w[k + 1] < v[k + 1]
        <5>1. k + 1 \in 1 .. k + 1 /\ (k + 1) - 1 = k
          OBVIOUS
        <5> QED BY <3>3, <4>4, <5>1 DEF Ahead
      <4> QED BY <4>2, <4>3, <4>4
    <3> QED BY <3>1, <3>2, <3>3 DEF Ahead
  <2> QED BY <2>3, <2>4
<1>3. Nat \subseteq N
  <2> HIDE DEF N
  <2> QED BY <1>1, <1>2, NatSets
<1> QED BY <1>3

LEMMA AheadIsBefore ==
    ASSUME NEW m \in Nat, NEW w \in Seq(1 .. m), NEW v \in Seq(1 .. m), Len(w) = Len(v),
           Ahead(w, v, Len(w))
    PROVE  Before(w, v)
<1> DEFINE apart == {i \in DOMAIN w : w[i] # v[i]}
<1>1. DOMAIN w = 1 .. Len(w) /\ Len(w) \in Nat
  OBVIOUS
<1>2. CASE \A i \in 1 .. Len(w) : w[i] = v[i]
  <2>1. apart = {}
    BY <1>1, <1>2
  <2> QED BY <2>1 DEF Before
<1>3. CASE \E i \in 1 .. Len(w) : w[i] < v[i] /\ \A j \in 1 .. (i - 1) : w[j] = v[j]
  <2>1. PICK i \in 1 .. Len(w) : w[i] < v[i] /\ \A j \in 1 .. (i - 1) : w[j] = v[j]
    BY <1>3
  <2>2. w[i] \in 1 .. m /\ v[i] \in 1 .. m
    BY <1>1
  <2>3. i \in apart
    BY <1>1, <2>1, <2>2
  <2>4. ASSUME NEW j \in apart PROVE i <= j
    <3>1. j \in 1 .. Len(w) /\ w[j] # v[j]
      BY <1>1
    <3> QED BY <2>1, <3>1
  <2>5. Min(apart) \in apart /\ \A j \in apart : Min(apart) <= j
    BY <2>3, <2>4 DEF Min
  <2>6. Min(apart) = i
    <3>1. Min(apart) \in 1 .. Len(w)
      BY <1>1, <2>5
    <3>2. Min(apart) <= i /\ i <= Min(apart)
      BY <2>3, <2>4, <2>5
    <3> QED BY <3>1, <3>2
  <2>7. w[Min(apart)] < v[Min(apart)]
    BY <2>1, <2>6
  <2> QED BY <2>7, Zenon DEF Before
<1> QED BY <1>2, <1>3 DEF Ahead

LEMMA FirstIsAWay ==
    ASSUME NEW m \in Nat, NEW ways \in SUBSET Seq(1 .. m), ways # {}
    PROVE  FirstWay(ways) \in ways
<1> DEFINE lengths == {Len(w) : w \in ways}
<1>1. lengths \in SUBSET Nat /\ lengths # {}
  <2>1. \A w \in ways : Len(w) \in Nat
    BY LenProperties
  <2> QED BY <2>1
<1>2. PICK shortest \in ways : \A v \in ways : Len(shortest) <= Len(v)
  <2>1. PICK x \in lengths : \A y \in lengths : x <= y
    <3> HIDE DEF lengths
    <3> QED BY <1>1, LeastOf
  <2> QED BY <2>1
<1> DEFINE L == Len(shortest)
           A == {w \in ways : Len(w) = L}
<1>3. L \in Nat /\ A # {}
  BY <1>2
<1>4. \A w \in A : \A i \in 1 .. L : w[i] \in 1 .. m
  OBVIOUS
<1> HIDE DEF L
<1>5. PICK w \in A : \A v \in A : Ahead(w, v, L)
  <2> HIDE DEF A
  <2> QED BY <1>3, <1>4, AheadExists
<1>6. ASSUME NEW v \in ways PROVE Before(w, v)
  <2>1. CASE Len(v) = L
    BY <1>5, <2>1, AheadIsBefore
  <2>2. CASE Len(v) # L
    <3>1. L <= Len(v) /\ Len(v) \in Nat
      BY <1>2 DEF L
    <3>2. Len(w) = L
      BY <1>5
    <3>3. Len(w) < Len(v)
      BY <1>3, <2>2, <3>1, <3>2
    <3> QED BY <3>3 DEF Before
  <2> QED BY <2>1, <2>2
<1> QED BY <1>5, <1>6 DEF FirstWay

-----------------------------------------------------------------------------
(* A way is a list of operations.                                         *)

\* The types within reach by n operations.
WaysUpto(f, from, order, n) ==
    f = [i \in 0 .. n |-> IF i = 0 THEN Origin(from)
                          ELSE Farther(order, f[i - 1])]

LEMMA WaysUptoSteps ==
    ASSUME NEW f, NEW from, NEW order, NEW n \in Nat, WaysUpto(f, from, order, n)
    PROVE  /\ f[0] = Origin(from)
           /\ \A i \in 1 .. n : f[i] = Farther(order, f[i - 1])
<1>1. f[0] = Origin(from)
  BY DEF WaysUpto
<1>2. ASSUME NEW i \in 1 .. n
      PROVE  f[i] = Farther(order, f[i - 1])
  <2>1. i \in 0 .. n /\ i # 0
    OBVIOUS
  <2> QED BY <2>1, Zenon DEF WaysUpto
<1> QED BY <1>1, <1>2

LEMMA WaysUptoExists ==
    ASSUME NEW from, NEW order, NEW n \in Nat
    PROVE  \E f : WaysUpto(f, from, order, n)
<1> DEFINE N == {k \in Nat : \E f : WaysUpto(f, from, order, k)}
<1>1. 0 \in N
  <2>1. WaysUpto([i \in 0 .. 0 |-> Origin(from)], from, order, 0)
    BY DEF WaysUpto
  <2> QED BY <2>1
<1>2. ASSUME NEW k \in Nat, k \in N PROVE k + 1 \in N
  <2>1. PICK f : WaysUpto(f, from, order, k)
    BY <1>2
  <2> DEFINE g == [i \in 0 .. k + 1 |-> IF i \in 0 .. k THEN f[i]
                                       ELSE Farther(order, f[k])]
  <2>2. ASSUME NEW i \in 0 .. k + 1
        PROVE  g[i] = IF i = 0 THEN Origin(from)
                      ELSE Farther(order, g[i - 1])
    <3>1. CASE i = 0
      <4>1. f[0] = Origin(from) /\ 0 \in 0 .. k
        BY <2>1, WaysUptoSteps
      <4> QED BY <3>1, <4>1
    <3>2. CASE i \in 1 .. k
      <4>1. g[i] = f[i] /\ g[i - 1] = f[i - 1] /\ i # 0
        BY <3>2
      <4>2. f[i] = Farther(order, f[i - 1])
        BY <2>1, <3>2, WaysUptoSteps
      <4> QED BY <4>1, <4>2
    <3>3. CASE i = k + 1
      <4>1. g[i - 1] = f[k] /\ i # 0 /\ i \notin 0 .. k
        BY <3>3
      <4> QED BY <3>3, <4>1
    <3> QED BY <3>1, <3>2, <3>3
  <2>3. WaysUpto(g, from, order, k + 1)
    BY <2>2 DEF WaysUpto
  <2> QED BY <2>3
<1>3. Nat \subseteq N
  <2> HIDE DEF N
  <2> QED BY <1>1, <1>2, NatSets
<1> QED BY <1>3

\* All that was found is a list of positions of operations.
Positions(order, found) == \A t \in DOMAIN found : found[t] \in Seq(1 .. Len(order))

LEMMA FartherIsWays ==
    ASSUME NEW order, Len(order) \in Nat, DOMAIN order = 1 .. Len(order),
           NEW found, Positions(order, found)
    PROVE  Positions(order, Farther(order, found))
<1> DEFINE further == Farther(order, found)
<1>1. \A t : Onward(order, found, t) \in SUBSET Seq(1 .. Len(order))
  <2> SUFFICES ASSUME NEW t, NEW w \in Onward(order, found, t)
               PROVE  w \in Seq(1 .. Len(order))
    OBVIOUS
  <2>1. PICK q \in (DOMAIN found) \X (DOMAIN order) : w = Append(found[q[1]], q[2])
    BY DEF Onward
  <2>2. found[q[1]] \in Seq(1 .. Len(order)) /\ q[2] \in 1 .. Len(order)
    BY <2>1 DEF Positions
  <2> QED BY <2>1, <2>2, AppendProperties
<1>2. ASSUME NEW t \in DOMAIN further PROVE further[t] \in Seq(1 .. Len(order))
  <2>1. further[t] = IF t \in DOMAIN found THEN found[t] ELSE FirstWay(Onward(order, found, t))
    BY DEF Farther
  <2>2. CASE t \in DOMAIN found
    BY <2>1, <2>2 DEF Positions
  <2>3. CASE t \notin DOMAIN found
    <3>1. Onward(order, found, t) # {}
      BY <2>3 DEF Farther
    <3>2. FirstWay(Onward(order, found, t)) \in Onward(order, found, t)
      BY <1>1, <3>1, FirstIsAWay
    <3> QED BY <1>1, <2>1, <2>3, <3>2
  <2> QED BY <2>2, <2>3
<1> QED BY <1>2 DEF Positions

LEMMA WaysAreLists ==
    ASSUME NEW from, NEW order, Len(order) \in Nat, DOMAIN order = 1 .. Len(order)
    PROVE  Positions(order, Ways(from, order))
<1> DEFINE f == CHOOSE g : WaysUpto(g, from, order, Len(order))
<1>1. WaysUpto(f, from, order, Len(order))
  BY WaysUptoExists
<1>2. Ways(from, order) = f[Len(order)]
  BY DEF Ways, WaysUpto
<1> HIDE DEF f
<1> DEFINE N == {k \in Nat : k <= Len(order) => Positions(order, f[k])}
<1>3. 0 \in N
  <2>1. f[0] = [t \in {from} |-> << >>]
    BY <1>1, WaysUptoSteps DEF Origin
  <2>2. << >> \in Seq(1 .. Len(order))
    BY EmptySeq
  <2> QED BY <2>1, <2>2 DEF Positions
<1>4. ASSUME NEW k \in Nat, k \in N PROVE k + 1 \in N
  <2> SUFFICES ASSUME k + 1 <= Len(order) PROVE Positions(order, f[k + 1])
    OBVIOUS
  <2>1. k + 1 \in 1 .. Len(order) /\ (k + 1) - 1 = k
    OBVIOUS
  <2>2. f[k + 1] = Farther(order, f[(k + 1) - 1])
    BY <1>1, <2>1, WaysUptoSteps
  <2>3. Positions(order, f[k])
    BY <1>4
  <2> QED BY <2>1, <2>2, <2>3, FartherIsWays
<1>5. Nat \subseteq N
  <2> HIDE DEF N
  <2> QED BY <1>3, <1>4, NatSets
<1> QED BY <1>2, <1>5

LEMMA PathIsList ==
    ASSUME NEW goal, NEW from, NEW candidates, NEW U, NEW ops \in Seq(U)
    PROVE  \E V : FindTypedPath(goal, from, candidates, ops) \in Seq(V)
<1> DEFINE order == Ordered(goal, ops)
           declaring == {o \in Range(ops) : goal.relation \in o.relations}
           ways == Arrivals(from, candidates, Ways(from, order))
<1>1. Len(order) \in Nat /\ DOMAIN order = 1 .. Len(order)
  <2>1. Len(ops) \in Nat
    BY LenProperties
  <2>2. /\ Kept(ops, declaring) \in Seq(declaring)
        /\ Kept(ops, Range(ops) \ declaring) \in Seq(Range(ops) \ declaring)
    BY <2>1, KeptIn
  <2>3. /\ Kept(ops, declaring) \in Seq(Range(ops))
        /\ Kept(ops, Range(ops) \ declaring) \in Seq(Range(ops))
    BY <2>2, SeqMonotonic
  <2>4. order \in Seq(Range(ops))
    BY <2>3, ConcatProperties DEF Ordered
  <2> HIDE DEF order
  <2> QED BY <2>4, LenProperties
<1> HIDE DEF order
<1>2. ways \in SUBSET Seq(1 .. Len(order))
  BY <1>1, WaysAreLists DEF Arrivals, Positions
<1>3. CASE ways = {}
  <2>1. FindTypedPath(goal, from, candidates, ops) = << >>
    BY <1>3 DEF FindTypedPath, NoWay, order
  <2> QED BY <2>1, EmptySeq
<1>4. CASE ways # {}
  <2> DEFINE way == FirstWay(ways)
  <2>1. FindTypedPath(goal, from, candidates, ops) = [i \in DOMAIN way |-> order[way[i]]]
    BY <1>4 DEF FindTypedPath, Operations, order
  <2>2. way \in ways
    <3> HIDE DEF ways
    <3> QED BY <1>1, <1>2, <1>4, FirstIsAWay
  <2>3. way \in Seq(1 .. Len(order))
    BY <1>2, <2>2
  <2>4. DOMAIN way = 1 .. Len(way) /\ Len(way) \in Nat /\ \A i \in 1 .. Len(way) : way[i] \in 1 .. Len(order)
    <3> HIDE DEF way
    <3> QED BY <2>3, LenProperties, ElementOfSeq
  <2> HIDE DEF way
  <2>5. [i \in DOMAIN way |-> order[way[i]]] \in Seq(Range(order))
    <3>1. \A i \in 1 .. Len(way) : order[way[i]] \in Range(order)
      BY <1>1, <2>4 DEF Range
    <3> QED BY <2>4, <3>1, IsASeq
  <2> QED BY <2>1, <2>5
<1> QED BY <1>3, <1>4

-----------------------------------------------------------------------------
(* Steps that were added one after the other.                              *)

Listed(s) == \E T : s \in Seq(T)

Sound(request, steps, left, i) ==
    /\ \A j \in steps[i].needs : j \in 1 .. (i - 1) /\ steps[j].output = steps[i].input
    /\ steps[i].goal # NoGoal =>
          /\ LeadsFrom(steps, i, GoalOf(request, steps[i].goal).subject)
          /\ steps[i].goal \notin left
          /\ \A j \in DOMAIN steps : steps[j].goal = steps[i].goal => j = i
Routed(request, steps, left) ==
    Listed(steps) /\ \A i \in DOMAIN steps : Sound(request, steps, left, i)

LEMMA ListedDomain ==
    ASSUME NEW steps, Listed(steps)
    PROVE  Len(steps) \in Nat /\ DOMAIN steps = 1 .. Len(steps)
BY LenProperties DEF Listed

LEMMA AddedStep ==
    ASSUME NEW steps, Listed(steps), NEW o, NEW from, NEW into, NEW g, NEW others,
           NEW new, new = AddStep(steps, o, from, into, g, others)
    PROVE  LET n == Len(steps)
           IN  /\ n \in Nat /\ DOMAIN steps = 1 .. n
               /\ Listed(new) /\ Len(new) = n + 1 /\ DOMAIN new = 1 .. (n + 1)
               /\ \A i \in 1 .. n : new[i] = steps[i]
               /\ new[n + 1].input = from /\ new[n + 1].output = into
               /\ new[n + 1].goal = g /\ new[n + 1].needs = Needs(steps, from)
<1> DEFINE n == Len(steps)
           step == [op |-> o.id, input |-> from, output |-> into, goal |-> g,
                    needs |-> Needs(steps, from), others |-> others]
<1>1. PICK T : steps \in Seq(T)
  BY DEF Listed
<1>2. steps \in Seq(T \cup {step})
  BY <1>1, SeqMonotonic
<1>3. /\ step.input = from /\ step.output = into /\ step.goal = g
      /\ step.needs = Needs(steps, from)
  OBVIOUS
<1>4. new = Append(steps, step)
  BY DEF AddStep
<1> HIDE DEF step
<1>5. /\ new \in Seq(T \cup {step}) /\ Len(new) = n + 1
      /\ \A i \in 1 .. n : new[i] = steps[i]
      /\ new[n + 1] = step
  BY <1>2, <1>4, AppendProperties
<1>6. Listed(new)
  BY <1>5 DEF Listed
<1>7. /\ n \in Nat /\ DOMAIN steps = 1 .. n /\ DOMAIN new = 1 .. (n + 1)
  BY <1>5, <1>6, ListedDomain
<1> QED BY <1>3, <1>5, <1>6, <1>7

LEMMA NeedsAreMade ==
    ASSUME NEW steps, Listed(steps), NEW var, NEW j \in Needs(steps, var)
    PROVE  j \in 1 .. Len(steps) /\ steps[j].output = var
<1>1. Made(steps, var) # {} /\ j = Max(Made(steps, var))
  BY DEF Needs
<1>2. Made(steps, var) \subseteq 1 .. Len(steps) /\ Len(steps) \in Nat
  BY ListedDomain DEF Made
<1>3. j \in Made(steps, var)
  BY <1>1, <1>2, MaxIsIn
<1> QED BY <1>2, <1>3 DEF Made

\* The step at the end is the one that made its variable last.
LEMMA LastIsNeeded ==
    ASSUME NEW steps, Listed(steps), Len(steps) # 0, NEW var, steps[Len(steps)].output = var
    PROVE  Needs(steps, var) = {Len(steps)}
<1> DEFINE made == Made(steps, var)
           n == Len(steps)
<1>1. n \in Nat /\ n \in made /\ made \subseteq 1 .. n
  <2>1. n \in Nat /\ DOMAIN steps = 1 .. n
    BY ListedDomain
  <2>2. n \in 1 .. n
    BY <2>1
  <2> QED BY <2>1, <2>2 DEF Made
<1> HIDE DEF made, n
<1>2. \A i \in made : n >= i
  BY <1>1
<1>3. Max(made) \in made /\ \A i \in made : Max(made) >= i
  BY <1>1, <1>2 DEF Max
<1>4. Max(made) \in 1 .. n /\ Max(made) >= n
  BY <1>1, <1>3
<1>5. Max(made) = n
  BY <1>1, <1>4
<1>6. Needs(steps, var) = IF made = {} THEN {} ELSE {Max(made)}
  BY Zenon DEF Needs, made
<1> QED BY <1>1, <1>5, <1>6 DEF n

\* What leads to a step leads to it in a longer list.
LEMMA LeadsOn ==
    ASSUME NEW steps, NEW new, NEW n \in Nat, \A i \in 1 .. n : new[i] = steps[i],
           NEW i \in 1 .. n, NEW var, LeadsFrom(steps, i, var)
    PROVE  LeadsFrom(new, i, var)
<1>1. PICK k \in 1 .. i :
        /\ steps[k].input = var
        /\ \A j \in k .. (i - 1) : steps[j].goal = NoGoal /\ steps[j + 1].needs = {j}
  BY DEF LeadsFrom
<1>2. k \in 1 .. n /\ \A j \in k .. (i - 1) : j \in 1 .. n /\ j + 1 \in 1 .. n
  OBVIOUS
<1>3. new[k].input = var
  BY <1>1, <1>2
<1>4. \A j \in k .. (i - 1) : new[j].goal = NoGoal /\ new[j + 1].needs = {j}
  BY <1>1, <1>2
<1> QED BY <1>3, <1>4 DEF LeadsFrom

\* A step may be added on the way, or for a goal that is left.
LEMMA AddedIsRouted ==
    ASSUME NEW request, NEW steps, NEW left, Routed(request, steps, left),
           NEW o, NEW from, NEW into, NEW g, NEW others,
           NEW new, new = AddStep(steps, o, from, into, g, others),
           NEW rest \in SUBSET left,
           g # NoGoal => /\ g \in left /\ g \notin rest
                         /\ LeadsFrom(new, Len(steps) + 1, GoalOf(request, g).subject)
    PROVE  Routed(request, new, rest)
<1> DEFINE n == Len(steps)
<1>1. Listed(steps)
  BY DEF Routed
<1>2. /\ n \in Nat /\ DOMAIN steps = 1 .. n
      /\ Listed(new) /\ DOMAIN new = 1 .. (n + 1)
      /\ \A i \in 1 .. n : new[i] = steps[i]
      /\ new[n + 1].input = from /\ new[n + 1].goal = g /\ new[n + 1].needs = Needs(steps, from)
  <2>1. n = Len(steps)
    OBVIOUS
  <2> HIDE DEF n
  <2> QED BY <1>1, <2>1, AddedStep
<1>3. \A j \in Needs(steps, from) : j \in 1 .. n /\ steps[j].output = from
  BY <1>1, NeedsAreMade
<1> HIDE DEF n
<1>4. \A i \in 1 .. (n + 1) : i \in 1 .. n \/ i = n + 1
  BY <1>2
<1>5. ASSUME NEW i \in 1 .. n PROVE Sound(request, new, rest, i)
  <2>1. Sound(request, steps, left, i) /\ new[i] = steps[i]
    BY <1>2 DEF Routed
  <2>2. \A j \in new[i].needs : j \in 1 .. (i - 1) /\ new[j].output = new[i].input
    <3>1. 1 .. (i - 1) \subseteq 1 .. n
      BY <1>2
    <3> QED BY <1>2, <2>1, <3>1 DEF Sound
  <2>3. ASSUME new[i].goal # NoGoal
        PROVE  /\ LeadsFrom(new, i, GoalOf(request, new[i].goal).subject)
               /\ new[i].goal \notin rest
               /\ \A j \in 1 .. (n + 1) : new[j].goal = new[i].goal => j = i
    <3>1. /\ LeadsFrom(steps, i, GoalOf(request, new[i].goal).subject)
          /\ new[i].goal \notin left
          /\ \A j \in 1 .. n : steps[j].goal = new[i].goal => j = i
      BY <1>2, <2>1, <2>3 DEF Sound
    <3>2. LeadsFrom(new, i, GoalOf(request, new[i].goal).subject)
      <4> DEFINE var == GoalOf(request, new[i].goal).subject
      <4>1. LeadsFrom(steps, i, var) /\ \A j \in 1 .. n : new[j] = steps[j]
        BY <1>2, <3>1
      <4> HIDE DEF var
      <4>2. LeadsFrom(new, i, var)
        BY <1>2, <4>1, LeadsOn
      <4> QED BY <4>2 DEF var
    <3>3. new[n + 1].goal # new[i].goal
      BY <1>2, <2>3, <3>1
    <3> QED BY <1>2, <1>4, <3>1, <3>2, <3>3
  <2> QED BY <1>2, <2>2, <2>3 DEF Sound
<1>6. Sound(request, new, rest, n + 1)
  <2>1. \A j \in new[n + 1].needs : j \in 1 .. ((n + 1) - 1) /\ new[j].output = new[n + 1].input
    <3>1. (n + 1) - 1 = n
      BY <1>2
    <3> QED BY <1>2, <1>3, <3>1
  <2>2. ASSUME g # NoGoal
        PROVE  /\ LeadsFrom(new, n + 1, GoalOf(request, g).subject) /\ g \notin rest
               /\ \A j \in 1 .. (n + 1) : new[j].goal = g => j = n + 1
    <3>1. \A j \in 1 .. n : new[j].goal # g
      BY <1>2, <2>2 DEF Routed, Sound
    <3> QED BY <1>4, <2>2, <3>1 DEF n
  <2> QED BY <1>2, <2>1, <2>2 DEF Sound
<1> QED BY <1>2, <1>4, <1>5, <1>6 DEF Routed

-----------------------------------------------------------------------------
(* A way is walked step by step.                                           *)

\* The steps after n operations of the way.
WalkUpto(f, begun, from, way, n) ==
    f = [i \in 0 .. n |-> IF i = 0 THEN begun
                          ELSE WalkStep(f[i - 1], way[i], IF i = 1 THEN from ELSE Intermediate(Len(f[i - 1])))]

LEMMA WalkUptoSteps ==
    ASSUME NEW f, NEW begun, NEW from, NEW way, NEW n \in Nat, WalkUpto(f, begun, from, way, n)
    PROVE  /\ f[0] = begun
           /\ \A i \in 1 .. n : f[i] = WalkStep(f[i - 1], way[i], IF i = 1 THEN from ELSE Intermediate(Len(f[i - 1])))
<1>1. f[0] = begun
  BY DEF WalkUpto
<1>2. ASSUME NEW i \in 1 .. n
      PROVE  f[i] = WalkStep(f[i - 1], way[i], IF i = 1 THEN from ELSE Intermediate(Len(f[i - 1])))
  <2>1. i \in 0 .. n /\ i # 0
    OBVIOUS
  <2> QED BY <2>1, Zenon DEF WalkUpto
<1> QED BY <1>1, <1>2

LEMMA WalkUptoExists ==
    ASSUME NEW begun, NEW from, NEW way, NEW n \in Nat
    PROVE  \E f : WalkUpto(f, begun, from, way, n)
<1> DEFINE N == {k \in Nat : \E f : WalkUpto(f, begun, from, way, k)}
<1>1. 0 \in N
  <2>1. WalkUpto([i \in 0 .. 0 |-> begun], begun, from, way, 0)
    BY DEF WalkUpto
  <2> QED BY <2>1
<1>2. ASSUME NEW k \in Nat, k \in N PROVE k + 1 \in N
  <2>1. PICK f : WalkUpto(f, begun, from, way, k)
    BY <1>2
  <2> DEFINE g == [i \in 0 .. k + 1 |-> IF i \in 0 .. k THEN f[i]
                                       ELSE WalkStep(f[k], way[k + 1], IF k + 1 = 1 THEN from ELSE Intermediate(Len(f[k])))]
  <2>2. ASSUME NEW i \in 0 .. k + 1
        PROVE  g[i] = IF i = 0 THEN begun
                      ELSE WalkStep(g[i - 1], way[i], IF i = 1 THEN from ELSE Intermediate(Len(g[i - 1])))
    <3>1. CASE i = 0
      <4>1. f[0] = begun /\ 0 \in 0 .. k
        BY <2>1, WalkUptoSteps
      <4> QED BY <3>1, <4>1
    <3>2. CASE i \in 1 .. k
      <4>1. g[i] = f[i] /\ g[i - 1] = f[i - 1] /\ i # 0
        BY <3>2
      <4>2. f[i] = WalkStep(f[i - 1], way[i], IF i = 1 THEN from ELSE Intermediate(Len(f[i - 1])))
        BY <2>1, <3>2, WalkUptoSteps
      <4> QED BY <4>1, <4>2
    <3>3. CASE i = k + 1
      <4>1. g[i - 1] = f[k] /\ i # 0 /\ i \notin 0 .. k
        BY <3>3
      <4> QED BY <3>3, <4>1
    <3> QED BY <3>1, <3>2, <3>3
  <2>3. WalkUpto(g, begun, from, way, k + 1)
    BY <2>2 DEF WalkUpto
  <2> QED BY <2>3
<1>3. Nat \subseteq N
  <2> HIDE DEF N
  <2> QED BY <1>1, <1>2, NatSets
<1> QED BY <1>3

\* The steps at the end lead from a variable to what the last one made.
Walking(steps, from) ==
    LET n == Len(steps)
    IN  /\ steps[n].output = Intermediate(n)
        /\ \E k \in 1 .. n : /\ steps[k].input = from
                             /\ \A j \in k .. n : steps[j].goal = NoGoal
                             /\ \A j \in k .. (n - 1) : steps[j + 1].needs = {j}

LEMMA WalkStepKeeps ==
    ASSUME NEW request, NEW steps, NEW left, Routed(request, steps, left), NEW from, NEW var,
           var = from \/ (Walking(steps, from) /\ var = Intermediate(Len(steps))),
           NEW o, NEW new, new = WalkStep(steps, o, var)
    PROVE  Routed(request, new, left) /\ Walking(new, from)
<1> DEFINE n == Len(steps)
           into == Intermediate(n + 1)
           others == {}
<1>0. Listed(steps) /\ new = AddStep(steps, o, var, into, NoGoal, others) /\ n = Len(steps)
  BY DEF Routed, WalkStep
<1> HIDE DEF n, into, others
<1>1. /\ n \in Nat /\ DOMAIN steps = 1 .. n /\ Len(new) = n + 1
      /\ \A i \in 1 .. n : new[i] = steps[i]
      /\ new[n + 1].input = var /\ new[n + 1].output = Intermediate(n + 1)
      /\ new[n + 1].goal = NoGoal /\ new[n + 1].needs = Needs(steps, var)
  <2>1. /\ n \in Nat /\ DOMAIN steps = 1 .. n /\ Len(new) = n + 1
        /\ \A i \in 1 .. n : new[i] = steps[i]
        /\ new[n + 1].input = var /\ new[n + 1].output = into
        /\ new[n + 1].goal = NoGoal /\ new[n + 1].needs = Needs(steps, var)
    BY <1>0, AddedStep
  <2> QED BY <2>1 DEF into
<1>2. Routed(request, new, left)
  BY <1>0, AddedIsRouted
<1>3. \E k \in 1 .. (n + 1) : /\ new[k].input = from
                              /\ \A j \in k .. (n + 1) : new[j].goal = NoGoal
                              /\ \A j \in k .. n : new[j + 1].needs = {j}
  <2>1. CASE var = from
    <3>1. n + 1 \in 1 .. (n + 1) /\ (\A j \in (n + 1) .. (n + 1) : j = n + 1) /\ (n + 1) .. n = {}
      BY <1>1
    <3>2. new[n + 1].input = from
      BY <1>1, <2>1
    <3>3. \A j \in (n + 1) .. (n + 1) : new[j].goal = NoGoal
      BY <1>1, <3>1
    <3> QED BY <3>1, <3>2, <3>3
  <2>2. CASE Walking(steps, from) /\ var = Intermediate(n)
    <3>1. steps[n].output = var /\ n # 0
      BY <1>0, <1>1, <2>2 DEF Walking
    <3>2. Needs(steps, var) = {n}
      BY <1>0, <3>1, LastIsNeeded
    <3>3. PICK k \in 1 .. n :
            /\ steps[k].input = from
            /\ \A j \in k .. n : steps[j].goal = NoGoal
            /\ \A j \in k .. (n - 1) : steps[j + 1].needs = {j}
      BY <1>0, <2>2 DEF Walking
    <3>4. k \in 1 .. (n + 1) /\ \A j \in k .. (n + 1) : j \in k .. n \/ j = n + 1
      BY <1>1
    <3>5. ASSUME NEW j \in k .. n PROVE j \in 1 .. n /\ (j = n \/ (j \in k .. (n - 1) /\ j + 1 \in 1 .. n))
      BY <1>1
    <3>6. \A j \in k .. n : new[j].goal = NoGoal
      BY <1>1, <3>3, <3>5
    <3>7. \A j \in k .. n : new[j + 1].needs = {j}
      BY <1>1, <3>2, <3>3, <3>5
    <3>8. new[k].input = from
      BY <1>1, <3>3
    <3> QED BY <1>1, <3>4, <3>6, <3>7, <3>8
  <2> QED BY <1>0, <2>1, <2>2
<1>4. (n + 1) - 1 = n
  BY <1>1
<1>5. Walking(new, from)
  BY <1>1, <1>3, <1>4 DEF Walking
<1> QED BY <1>2, <1>5

LEMMA WalkIsRouted ==
    ASSUME NEW request, NEW s, Routed(request, s.steps, s.left), NEW from,
           NEW V, NEW way \in Seq(V), way # << >>
    PROVE  /\ Routed(request, Walk(s, from, way).steps, s.left)
           /\ Walking(Walk(s, from, way).steps, from) /\ Walk(s, from, way).left = s.left
<1> DEFINE begun == s.steps
           left == s.left
           f == CHOOSE g : WalkUpto(g, begun, from, way, Len(way))
<1>1. Len(way) \in Nat /\ Len(way) # 0
  BY LenProperties, EmptySeq
<1>2. WalkUpto(f, begun, from, way, Len(way))
  BY <1>1, WalkUptoExists
<1>3. Walk(s, from, way).steps = f[Len(way)] /\ Walk(s, from, way).left = left
  BY DEF Walk, WalkUpto
<1>4. Routed(request, begun, left)
  OBVIOUS
<1> HIDE DEF f, begun, left
<1> DEFINE N == {k \in Nat : k <= Len(way) => /\ Routed(request, f[k], left)
                                              /\ k # 0 => Walking(f[k], from)}
<1>5. 0 \in N
  <2>1. f[0] = begun
    BY <1>1, <1>2, WalkUptoSteps
  <2> QED BY <1>4, <2>1
<1>6. ASSUME NEW k \in Nat, k \in N PROVE k + 1 \in N
  <2> SUFFICES ASSUME k + 1 <= Len(way)
               PROVE  Routed(request, f[k + 1], left) /\ Walking(f[k + 1], from)
    OBVIOUS
  <2>1. k + 1 \in 1 .. Len(way) /\ (k + 1) - 1 = k /\ (k + 1 = 1 <=> k = 0)
    BY <1>1
  <2> DEFINE var == IF k = 0 THEN from ELSE Intermediate(Len(f[k]))
  <2>2. f[k + 1] = WalkStep(f[(k + 1) - 1], way[k + 1],
                            IF k + 1 = 1 THEN from ELSE Intermediate(Len(f[(k + 1) - 1])))
    BY <1>1, <1>2, <2>1, WalkUptoSteps
  <2>3. f[k + 1] = WalkStep(f[k], way[k + 1], var)
    BY <2>1, <2>2
  <2>4. Routed(request, f[k], left) /\ (k # 0 => Walking(f[k], from))
    BY <1>6, <2>1
  <2>5. var = from \/ (Walking(f[k], from) /\ var = Intermediate(Len(f[k])))
    BY <2>4
  <2> HIDE DEF var
  <2> QED BY <2>3, <2>4, <2>5, WalkStepKeeps
<1>7. Nat \subseteq N
  <2> HIDE DEF N
  <2> QED BY <1>5, <1>6, NatSets
<1>8. Routed(request, f[Len(way)], left) /\ Walking(f[Len(way)], from)
  BY <1>1, <1>7
<1> QED BY <1>3, <1>8 DEF left

-----------------------------------------------------------------------------
(* Goals are planned one after the other.                                  *)

On(request, s) == Routed(request, s.steps, s.left)

LEMMA GoalIsFound ==
    ASSUME NEW request \in Graphs, NEW i \in DOMAIN request.goals
    PROVE  request.goals[i].id # NoGoal /\ GoalOf(request, request.goals[i].id) = request.goals[i]
<1> DEFINE id == request.goals[i].id
           at == CHOOSE k \in DOMAIN request.goals : request.goals[k].id = id
<1>1. at \in DOMAIN request.goals /\ request.goals[at].id = id
  OBVIOUS
<1> HIDE DEF at
<1>2. at = i
  BY <1>1, GoalsAssumption
<1>3. id # NoGoal
  BY GoalsAssumption
<1> QED BY <1>2, <1>3 DEF GoalOf, at

LEMMA AdvanceIsRouted ==
    ASSUME NEW request \in Graphs, NEW i \in DOMAIN request.goals, NEW s, On(request, s),
           NEW goal, goal = request.goals[i], goal.id \in s.left, NEW ready, NEW from,
           \/ from = goal.subject
           \/ Walking(s.steps, goal.subject) /\ from = Last(s.steps).output
    PROVE  On(request, Advance(s, goal, from, ready))
<1> DEFINE advanced == Advance(s, goal, from, ready)
           others == {q.id : q \in ready \ {Best(goal, ready)}}
           steps == s.steps
           new == AddStep(steps, Best(goal, ready), from, goal.object, goal.id, others)
           n == Len(steps)
           left == s.left
           rest == left \ {goal.id}
<1>1. advanced.steps = new /\ advanced.left = rest
  BY DEF Advance
<1>2. Routed(request, steps, left) /\ Listed(steps) /\ n = Len(steps) /\ steps = s.steps
  BY DEF On, Routed
<1>3. goal.id # NoGoal /\ GoalOf(request, goal.id).subject = goal.subject
  BY GoalIsFound
<1> HIDE DEF advanced, others, steps, n
<1>4. /\ n \in Nat /\ DOMAIN steps = 1 .. n
      /\ \A j \in 1 .. n : new[j] = steps[j]
      /\ new[n + 1].input = from /\ new[n + 1].needs = Needs(steps, from)
  <2>1. new = AddStep(steps, Best(goal, ready), from, goal.object, goal.id, others)
    OBVIOUS
  <2> DEFINE o == Best(goal, ready)
             into == goal.object
             g == goal.id
  <2>2. new = AddStep(steps, o, from, into, g, others) /\ n = Len(steps) /\ Listed(steps)
    BY <1>2, <2>1
  <2> HIDE DEF new, o, into, g
  <2>3. /\ n \in Nat /\ DOMAIN steps = 1 .. n
        /\ \A j \in 1 .. n : new[j] = steps[j]
        /\ new[n + 1].input = from /\ new[n + 1].needs = Needs(steps, from)
    BY <2>2, AddedStep
  <2> QED BY <2>3
<1> HIDE DEF new
<1>5. LeadsFrom(new, n + 1, goal.subject)
  <2>1. CASE from = goal.subject
    <3>1. n + 1 \in 1 .. (n + 1) /\ (n + 1) .. ((n + 1) - 1) = {}
      BY <1>4
    <3>2. new[n + 1].input = goal.subject
      BY <1>4, <2>1
    <3> QED BY <3>1, <3>2 DEF LeadsFrom
  <2>2. CASE Walking(steps, goal.subject) /\ from = Last(steps).output
    <3>1. PICK k \in 1 .. n :
            /\ steps[k].input = goal.subject
            /\ \A j \in k .. n : steps[j].goal = NoGoal
            /\ \A j \in k .. (n - 1) : steps[j + 1].needs = {j}
      BY <1>2, <2>2 DEF Walking
    <3>2. n # 0 /\ k \in 1 .. (n + 1) /\ (n + 1) - 1 = n
      BY <1>4
    <3>3. steps[n].output = from
      BY <1>2, <2>2 DEF Last
    <3>4. Needs(steps, from) = {n}
      BY <1>2, <3>2, <3>3, LastIsNeeded
    <3>5. ASSUME NEW j \in k .. n PROVE j \in 1 .. n /\ (j = n \/ (j \in k .. (n - 1) /\ j + 1 \in 1 .. n))
      BY <1>4
    <3>6. \A j \in k .. n : new[j].goal = NoGoal
      BY <1>4, <3>1, <3>5
    <3>7. \A j \in k .. n : new[j + 1].needs = {j}
      BY <1>4, <3>1, <3>4, <3>5
    <3>8. new[k].input = goal.subject
      BY <1>4, <3>1
    <3> QED BY <3>2, <3>6, <3>7, <3>8 DEF LeadsFrom
  <2> QED BY <1>2, <2>1, <2>2
<1>6. Routed(request, new, rest)
  <2>1. new = AddStep(steps, Best(goal, ready), from, goal.object, goal.id, others)
    BY DEF new
  <2>2. rest \in SUBSET left /\ goal.id \in left /\ goal.id \notin rest
    OBVIOUS
  <2>3. LeadsFrom(new, Len(steps) + 1, GoalOf(request, goal.id).subject)
    BY <1>2, <1>3, <1>5
  <2> HIDE DEF rest, left
  <2> QED BY <1>2, <2>1, <2>2, <2>3, AddedIsRouted
<1> QED BY <1>1, <1>6 DEF On, advanced

LEMMA ConsiderIsRouted ==
    ASSUME NEW request \in Graphs, NEW i \in DOMAIN request.goals, NEW s, On(request, s),
           NEW U, NEW ops \in Seq(U)
    PROVE  On(request, Consider(request, ops, s, request.goals[i]))
<1> DEFINE goal == request.goals[i]
           from == request.type[goal.subject]
           candidates == Candidates(request, goal, ops)
           ready == {o \in candidates : o.inputs = {} \/ (Takes(o, from) /\ goal.subject \in s.known)}
           way == FindTypedPath(goal, from, candidates, ops)
           done == Consider(request, ops, s, goal)
<1>1. done = IF goal.id \notin s.left THEN s
             ELSE IF ready # {} THEN Advance(s, goal, goal.subject, ready)
             ELSE Follow(s, goal, candidates, way)
  BY Zenon DEF Consider
<1>2. goal = request.goals[i]
  OBVIOUS
<1>3. PICK V : way \in Seq(V)
  BY PathIsList
<1> HIDE DEF goal, ready, way, candidates, from
<1>4. ASSUME goal.id \in s.left PROVE On(request, Follow(s, goal, candidates, way))
  <2>1. CASE way = NoWay
    BY <2>1 DEF Follow
  <2>2. CASE way # NoWay
    <3> DEFINE walked == Walk(s, goal.subject, way)
               reached == {o \in candidates : Takes(o, Head(Last(way).outputs))}
    <3>1. Follow(s, goal, candidates, way) = Arrive(walked, goal, reached)
      BY <2>2 DEF Follow
    <3>2. Routed(request, s.steps, s.left) /\ way # << >>
      BY <2>2 DEF On, NoWay
    <3>3. /\ Routed(request, walked.steps, s.left) /\ Walking(walked.steps, goal.subject)
          /\ walked.left = s.left
      BY <1>3, <3>2, WalkIsRouted
    <3> HIDE DEF walked, reached
    <3>4. On(request, walked)
      BY <3>3 DEF On
    <3>5. CASE reached = {}
      BY <3>1, <3>4, <3>5 DEF Arrive
    <3>6. CASE reached # {}
      <4>1. Follow(s, goal, candidates, way) = Advance(walked, goal, Last(walked.steps).output, reached)
        BY <3>1, <3>6 DEF Arrive
      <4>2. goal.id \in walked.left
        BY <1>4, <3>3
      <4> QED BY <1>2, <3>3, <3>4, <4>1, <4>2, AdvanceIsRouted
    <3> QED BY <3>5, <3>6
  <2> QED BY <2>1, <2>2
<1>5. ASSUME goal.id \in s.left PROVE On(request, Advance(s, goal, goal.subject, ready))
  BY <1>2, <1>5, AdvanceIsRouted
<1> HIDE DEF done
<1>6. On(request, done)
  BY <1>1, <1>4, <1>5
<1> QED BY <1>6 DEF done, goal

\* The plan after n goals of a pass.
PassUpto(f, request, ops, s, n) ==
    f = [i \in 0 .. n |-> IF i = 0 THEN Unmoved(s)
                          ELSE Consider(request, ops, f[i - 1], request.goals[i])]

LEMMA PassUptoSteps ==
    ASSUME NEW f, NEW request, NEW ops, NEW s, NEW n \in Nat, PassUpto(f, request, ops, s, n)
    PROVE  /\ f[0] = Unmoved(s)
           /\ \A i \in 1 .. n : f[i] = Consider(request, ops, f[i - 1], request.goals[i])
<1>1. f[0] = Unmoved(s)
  BY DEF PassUpto
<1>2. ASSUME NEW i \in 1 .. n
      PROVE  f[i] = Consider(request, ops, f[i - 1], request.goals[i])
  <2>1. i \in 0 .. n /\ i # 0
    OBVIOUS
  <2> QED BY <2>1, Zenon DEF PassUpto
<1> QED BY <1>1, <1>2

LEMMA PassUptoExists ==
    ASSUME NEW request, NEW ops, NEW s, NEW n \in Nat
    PROVE  \E f : PassUpto(f, request, ops, s, n)
<1> DEFINE N == {k \in Nat : \E f : PassUpto(f, request, ops, s, k)}
<1>1. 0 \in N
  <2>1. PassUpto([i \in 0 .. 0 |-> Unmoved(s)], request, ops, s, 0)
    BY DEF PassUpto
  <2> QED BY <2>1
<1>2. ASSUME NEW k \in Nat, k \in N PROVE k + 1 \in N
  <2>1. PICK f : PassUpto(f, request, ops, s, k)
    BY <1>2
  <2> DEFINE g == [i \in 0 .. k + 1 |-> IF i \in 0 .. k THEN f[i]
                                       ELSE Consider(request, ops, f[k], request.goals[k + 1])]
  <2>2. ASSUME NEW i \in 0 .. k + 1
        PROVE  g[i] = IF i = 0 THEN Unmoved(s)
                      ELSE Consider(request, ops, g[i - 1], request.goals[i])
    <3>1. CASE i = 0
      <4>1. f[0] = Unmoved(s) /\ 0 \in 0 .. k
        BY <2>1, PassUptoSteps
      <4> QED BY <3>1, <4>1
    <3>2. CASE i \in 1 .. k
      <4>1. g[i] = f[i] /\ g[i - 1] = f[i - 1] /\ i # 0
        BY <3>2
      <4>2. f[i] = Consider(request, ops, f[i - 1], request.goals[i])
        BY <2>1, <3>2, PassUptoSteps
      <4> QED BY <4>1, <4>2
    <3>3. CASE i = k + 1
      <4>1. g[i - 1] = f[k] /\ i # 0 /\ i \notin 0 .. k
        BY <3>3
      <4> QED BY <3>3, <4>1
    <3> QED BY <3>1, <3>2, <3>3
  <2>3. PassUpto(g, request, ops, s, k + 1)
    BY <2>2 DEF PassUpto
  <2> QED BY <2>3
<1>3. Nat \subseteq N
  <2> HIDE DEF N
  <2> QED BY <1>1, <1>2, NatSets
<1> QED BY <1>3

LEMMA PassIsRouted ==
    ASSUME NEW request \in Graphs, NEW s, On(request, s), NEW U, NEW ops \in Seq(U)
    PROVE  On(request, Pass(request, ops, s))
<1> DEFINE n == Len(request.goals)
           f == CHOOSE g : PassUpto(g, request, ops, s, n)
<1>1. n \in Nat /\ DOMAIN request.goals = 1 .. n
  BY PhaseAssumption
<1>2. PassUpto(f, request, ops, s, n)
  <2> HIDE DEF n
  <2> QED BY <1>1, PassUptoExists
<1>3. Pass(request, ops, s) = IF ~s.moved THEN s ELSE f[n]
  BY Zenon DEF Pass, PassUpto
<1> HIDE DEF f, n
<1> DEFINE N == {k \in Nat : k <= n => On(request, f[k])}
<1>4. 0 \in N
  <2>1. f[0] = Unmoved(s)
    BY <1>1, <1>2, PassUptoSteps
  <2>2. Unmoved(s).steps = s.steps /\ Unmoved(s).left = s.left
    BY DEF Unmoved
  <2> QED BY <2>1, <2>2 DEF On
<1>5. ASSUME NEW k \in Nat, k \in N PROVE k + 1 \in N
  <2> SUFFICES ASSUME k + 1 <= n PROVE On(request, f[k + 1])
    OBVIOUS
  <2>1. k + 1 \in 1 .. n /\ (k + 1) - 1 = k
    BY <1>1
  <2>2. f[k + 1] = Consider(request, ops, f[(k + 1) - 1], request.goals[k + 1])
    BY <1>1, <1>2, <2>1, PassUptoSteps
  <2>3. On(request, f[k])
    BY <1>1, <1>5, <2>1
  <2>4. k + 1 \in DOMAIN request.goals
    BY <1>1, <2>1
  <2> QED BY <2>1, <2>2, <2>3, <2>4, ConsiderIsRouted
<1>6. Nat \subseteq N
  <2> HIDE DEF N
  <2> QED BY <1>4, <1>5, NatSets
<1>7. On(request, f[n])
  BY <1>1, <1>6
<1> QED BY <1>3, <1>7

\* The plan after n passes.
PlanUpto(f, request, ops, n) ==
    f = [i \in 0 .. n |-> IF i = 0 THEN Start(request)
                          ELSE Pass(request, ops, f[i - 1])]

LEMMA PlanUptoSteps ==
    ASSUME NEW f, NEW request, NEW ops, NEW n \in Nat, PlanUpto(f, request, ops, n)
    PROVE  /\ f[0] = Start(request)
           /\ \A i \in 1 .. n : f[i] = Pass(request, ops, f[i - 1])
<1>1. f[0] = Start(request)
  BY DEF PlanUpto
<1>2. ASSUME NEW i \in 1 .. n
      PROVE  f[i] = Pass(request, ops, f[i - 1])
  <2>1. i \in 0 .. n /\ i # 0
    OBVIOUS
  <2> QED BY <2>1, Zenon DEF PlanUpto
<1> QED BY <1>1, <1>2

LEMMA PlanUptoExists ==
    ASSUME NEW request, NEW ops, NEW n \in Nat
    PROVE  \E f : PlanUpto(f, request, ops, n)
<1> DEFINE N == {k \in Nat : \E f : PlanUpto(f, request, ops, k)}
<1>1. 0 \in N
  <2>1. PlanUpto([i \in 0 .. 0 |-> Start(request)], request, ops, 0)
    BY DEF PlanUpto
  <2> QED BY <2>1
<1>2. ASSUME NEW k \in Nat, k \in N PROVE k + 1 \in N
  <2>1. PICK f : PlanUpto(f, request, ops, k)
    BY <1>2
  <2> DEFINE g == [i \in 0 .. k + 1 |-> IF i \in 0 .. k THEN f[i]
                                       ELSE Pass(request, ops, f[k])]
  <2>2. ASSUME NEW i \in 0 .. k + 1
        PROVE  g[i] = IF i = 0 THEN Start(request)
                      ELSE Pass(request, ops, g[i - 1])
    <3>1. CASE i = 0
      <4>1. f[0] = Start(request) /\ 0 \in 0 .. k
        BY <2>1, PlanUptoSteps
      <4> QED BY <3>1, <4>1
    <3>2. CASE i \in 1 .. k
      <4>1. g[i] = f[i] /\ g[i - 1] = f[i - 1] /\ i # 0
        BY <3>2
      <4>2. f[i] = Pass(request, ops, f[i - 1])
        BY <2>1, <3>2, PlanUptoSteps
      <4> QED BY <4>1, <4>2
    <3>3. CASE i = k + 1
      <4>1. g[i - 1] = f[k] /\ i # 0 /\ i \notin 0 .. k
        BY <3>3
      <4> QED BY <3>3, <4>1
    <3> QED BY <3>1, <3>2, <3>3
  <2>3. PlanUpto(g, request, ops, k + 1)
    BY <2>2 DEF PlanUpto
  <2> QED BY <2>3
<1>3. Nat \subseteq N
  <2> HIDE DEF N
  <2> QED BY <1>1, <1>2, NatSets
<1> QED BY <1>3

LEMMA ComposeIsRouted ==
    ASSUME NEW request \in Graphs, NEW U, NEW ops \in Seq(U)
    PROVE  Routed(request, Compose(request, ops).steps, Compose(request, ops).unresolved)
<1> DEFINE n == Len(request.goals) + 1
           f == CHOOSE g : PlanUpto(g, request, ops, n)
<1>1. n \in Nat
  BY PhaseAssumption
<1>2. PlanUpto(f, request, ops, n)
  <2> HIDE DEF n
  <2> QED BY <1>1, PlanUptoExists
<1>3. Compose(request, ops) = [steps |-> f[n].steps, unresolved |-> f[n].left]
  BY Zenon DEF Compose, PlanUpto
<1> HIDE DEF f, n
<1> DEFINE N == {k \in Nat : k <= n => On(request, f[k])}
<1>4. 0 \in N
  <2>1. f[0] = Start(request)
    BY <1>1, <1>2, PlanUptoSteps
  <2>2. Start(request).steps = << >>
    BY DEF Start
  <2>3. Listed(<< >>) /\ DOMAIN << >> = {}
    <3>1. << >> \in Seq({})
      BY EmptySeq
    <3> QED BY <3>1 DEF Listed
  <2> QED BY <2>1, <2>2, <2>3 DEF On, Routed
<1>5. ASSUME NEW k \in Nat, k \in N PROVE k + 1 \in N
  <2> SUFFICES ASSUME k + 1 <= n PROVE On(request, f[k + 1])
    OBVIOUS
  <2>1. k + 1 \in 1 .. n /\ (k + 1) - 1 = k
    BY <1>1
  <2>2. f[k + 1] = Pass(request, ops, f[(k + 1) - 1])
    BY <1>1, <1>2, <2>1, PlanUptoSteps
  <2>3. On(request, f[k])
    BY <1>1, <1>5, <2>1
  <2> QED BY <2>1, <2>2, <2>3, PassIsRouted
<1>6. Nat \subseteq N
  <2> HIDE DEF N
  <2> QED BY <1>4, <1>5, NatSets
<1>7. On(request, f[n])
  BY <1>1, <1>6
<1> QED BY <1>3, <1>7 DEF On

-----------------------------------------------------------------------------
(* Nothing that could be planned is left: what the goals of a plan give    *)
(* only grows while the loop goes on, and the last pass, in which no goal  *)
(* was planned, has tried every goal that is left with all of it.          *)

GivenBy(request, steps) ==
    request.known \cup {steps[i].output : i \in {j \in DOMAIN steps : steps[j].goal # NoGoal}}
ReadyFor(request, ops, known, goal) ==
    {o \in Candidates(request, goal, ops) :
        o.inputs = {} \/ (Takes(o, request.type[goal.subject]) /\ goal.subject \in known)}

\* Every goal is left or has a step, and the variables of the steps are known.
Accounted(request, s) ==
    /\ s.moved \in BOOLEAN /\ s.left \subseteq GoalIds(request)
    /\ GivenBy(request, s.steps) \subseteq s.known
    /\ \A g \in GoalIds(request) : g \in s.left \/ \E i \in DOMAIN s.steps : s.steps[i].goal = g

\* A longer list of steps, the new ones on the way to a goal.
OnTheWay(old, new) ==
    /\ Listed(new) /\ DOMAIN old \subseteq DOMAIN new
    /\ \A i \in DOMAIN old : new[i] = old[i]
    /\ \A i \in DOMAIN new : i \in DOMAIN old \/ new[i].goal = NoGoal

LEMMA OnTheWayGives ==
    ASSUME NEW request, NEW old, NEW new, OnTheWay(old, new)
    PROVE  /\ GivenBy(request, new) = GivenBy(request, old)
           /\ \A g : g # NoGoal =>
                 ((\E i \in DOMAIN new : new[i].goal = g) <=> \E i \in DOMAIN old : old[i].goal = g)
<1>1. {j \in DOMAIN new : new[j].goal # NoGoal} = {j \in DOMAIN old : old[j].goal # NoGoal}
  BY DEF OnTheWay
<1>2. \A j \in DOMAIN old : new[j].output = old[j].output
  BY DEF OnTheWay
<1>3. GivenBy(request, new) = GivenBy(request, old)
  BY <1>1, <1>2 DEF GivenBy
<1>4. ASSUME NEW g, g # NoGoal
      PROVE  (\E i \in DOMAIN new : new[i].goal = g) <=> \E i \in DOMAIN old : old[i].goal = g
  BY <1>4 DEF OnTheWay
<1> QED BY <1>3, <1>4

LEMMA WalkStepIsOnTheWay ==
    ASSUME NEW begun, NEW steps, Listed(steps), OnTheWay(begun, steps), NEW o, NEW var
    PROVE  OnTheWay(begun, WalkStep(steps, o, var))
<1> DEFINE new == WalkStep(steps, o, var)
           into == Intermediate(Len(steps) + 1)
           others == {}
           n == Len(steps)
<1>1. new = AddStep(steps, o, var, into, NoGoal, others) /\ n = Len(steps)
  BY DEF WalkStep
<1> HIDE DEF new, into, others, n
<1>2. /\ n \in Nat /\ DOMAIN steps = 1 .. n /\ Listed(new) /\ DOMAIN new = 1 .. (n + 1)
      /\ \A i \in 1 .. n : new[i] = steps[i]
      /\ new[n + 1].goal = NoGoal
  BY <1>1, AddedStep
<1>3. \A i \in 1 .. (n + 1) : i \in 1 .. n \/ i = n + 1
  BY <1>2
<1>4. DOMAIN steps \subseteq DOMAIN new
  BY <1>2
<1>5. OnTheWay(begun, new)
  BY <1>2, <1>3, <1>4 DEF OnTheWay
<1> QED BY <1>5 DEF new

LEMMA WalkIsOnTheWay ==
    ASSUME NEW s, Listed(s.steps), NEW from, NEW V, NEW way \in Seq(V)
    PROVE  OnTheWay(s.steps, Walk(s, from, way).steps)
<1> DEFINE begun == s.steps
           f == CHOOSE g : WalkUpto(g, begun, from, way, Len(way))
<1>1. Len(way) \in Nat /\ Listed(begun)
  BY LenProperties
<1>2. WalkUpto(f, begun, from, way, Len(way))
  BY <1>1, WalkUptoExists
<1>3. Walk(s, from, way).steps = f[Len(way)]
  BY DEF Walk, WalkUpto
<1> HIDE DEF f, begun
<1> DEFINE N == {k \in Nat : k <= Len(way) => OnTheWay(begun, f[k])}
<1>4. 0 \in N
  <2>1. f[0] = begun
    BY <1>1, <1>2, WalkUptoSteps
  <2> QED BY <1>1, <2>1 DEF OnTheWay
<1>5. ASSUME NEW k \in Nat, k \in N PROVE k + 1 \in N
  <2> SUFFICES ASSUME k + 1 <= Len(way) PROVE OnTheWay(begun, f[k + 1])
    OBVIOUS
  <2>1. k + 1 \in 1 .. Len(way) /\ (k + 1) - 1 = k
    BY <1>1
  <2> DEFINE var == IF k + 1 = 1 THEN from ELSE Intermediate(Len(f[(k + 1) - 1]))
  <2>2. f[k + 1] = WalkStep(f[(k + 1) - 1], way[k + 1], var)
    BY <1>1, <1>2, <2>1, WalkUptoSteps
  <2> HIDE DEF var
  <2>3. OnTheWay(begun, f[k]) /\ Listed(f[k])
    BY <1>1, <1>5, <2>1 DEF OnTheWay
  <2>4. f[(k + 1) - 1] = f[k]
    BY <2>1
  <2> QED BY <2>2, <2>3, <2>4, WalkStepIsOnTheWay
<1>6. Nat \subseteq N
  <2> HIDE DEF N
  <2> QED BY <1>4, <1>5, NatSets
<1>7. OnTheWay(begun, f[Len(way)])
  BY <1>1, <1>6
<1> QED BY <1>3, <1>7 DEF begun

\* A goal was tried: it is planned, or nothing took it with what was given.
Planned(s, t, goal) ==
    t.moved = TRUE /\ goal.id \in s.left /\ t.left = s.left \ {goal.id}
Waits(request, ops, s, t, goal) ==
    /\ t.moved = s.moved /\ t.left = s.left
    /\ GivenBy(request, t.steps) = GivenBy(request, s.steps)
    /\ goal.id \in s.left => ReadyFor(request, ops, GivenBy(request, s.steps), goal) = {}

LEMMA AdvanceIsPlanned ==
    ASSUME NEW request \in Graphs, NEW i \in DOMAIN request.goals, NEW s, Listed(s.steps),
           Accounted(request, s), NEW goal, goal = request.goals[i], goal.id \in s.left,
           NEW ready, NEW from, NEW t, t = Advance(s, goal, from, ready)
    PROVE  Accounted(request, t) /\ Planned(s, t, goal)
<1> DEFINE steps == s.steps
           o == Best(goal, ready)
           into == goal.object
           g == goal.id
           others == {q.id : q \in ready \ {Best(goal, ready)}}
           n == Len(steps)
           new == t.steps
<1>1. /\ t.known = s.known \cup {goal.object} /\ t.left = s.left \ {goal.id} /\ t.moved = TRUE
      /\ new = AddStep(steps, o, from, into, g, others) /\ n = Len(steps) /\ Listed(steps)
  BY DEF Advance
<1>2. into = goal.object /\ g = goal.id /\ steps = s.steps /\ new = t.steps
  OBVIOUS
<1> HIDE DEF steps, o, into, g, others, n, new
<1>3. /\ n \in Nat /\ DOMAIN steps = 1 .. n /\ DOMAIN new = 1 .. (n + 1)
      /\ \A j \in 1 .. n : new[j] = steps[j]
      /\ new[n + 1].output = into /\ new[n + 1].goal = g
  BY <1>1, AddedStep
<1>4. \A j \in 1 .. (n + 1) : j \in 1 .. n \/ j = n + 1
  BY <1>3
<1>5. 1 .. n \subseteq 1 .. (n + 1) /\ n + 1 \in 1 .. (n + 1)
  BY <1>3
<1>6. GivenBy(request, new) \subseteq t.known
  <2>1. GivenBy(request, steps) \subseteq s.known
    BY <1>2 DEF Accounted
  <2> SUFFICES ASSUME NEW j \in DOMAIN new, new[j].goal # NoGoal PROVE new[j].output \in t.known
    BY <1>1, <2>1 DEF GivenBy
  <2>2. CASE j = n + 1
    BY <1>1, <1>2, <1>3, <2>2
  <2>3. CASE j \in 1 .. n
    <3>1. new[j].output \in GivenBy(request, steps)
      BY <1>3, <2>3 DEF GivenBy
    <3> QED BY <1>1, <2>1, <3>1
  <2> QED BY <1>3, <1>4, <2>2, <2>3
<1>7. ASSUME NEW h \in GoalIds(request) PROVE h \in t.left \/ \E j \in DOMAIN new : new[j].goal = h
  <2>1. CASE h = g
    BY <1>3, <1>5, <2>1
  <2>2. CASE h # g /\ h \in s.left
    BY <1>1, <1>2, <2>2
  <2>3. CASE \E j \in DOMAIN steps : steps[j].goal = h
    BY <1>3, <1>5, <2>3
  <2>4. h \in s.left \/ \E j \in DOMAIN steps : steps[j].goal = h
    BY <1>2 DEF Accounted
  <2> QED BY <2>1, <2>2, <2>3, <2>4
<1>8. t.left \subseteq GoalIds(request)
  BY <1>1 DEF Accounted
<1>9. Accounted(request, t)
  <2>1. t.moved \in BOOLEAN
    BY <1>1
  <2> QED BY <1>2, <1>6, <1>7, <1>8, <2>1, Zenon DEF Accounted
<1> QED BY <1>1, <1>2, <1>9 DEF Planned

LEMMA ReadyIsMonotone ==
    ASSUME NEW request, NEW ops, NEW goal, NEW known, NEW less \in SUBSET known,
           ReadyFor(request, ops, known, goal) = {}
    PROVE  ReadyFor(request, ops, less, goal) = {}
BY DEF ReadyFor

LEMMA ConsiderCounts ==
    ASSUME NEW request \in Graphs, NEW i \in DOMAIN request.goals, NEW s, Listed(s.steps),
           Accounted(request, s), NEW U, NEW ops \in Seq(U),
           NEW goal, goal = request.goals[i],
           NEW t, t = Consider(request, ops, s, goal)
    PROVE  /\ Accounted(request, t)
           /\ Planned(s, t, goal) \/ Waits(request, ops, s, t, goal)
<1> DEFINE from == request.type[goal.subject]
           candidates == Candidates(request, goal, ops)
           ready == {o \in candidates : o.inputs = {} \/ (Takes(o, from) /\ goal.subject \in s.known)}
           way == FindTypedPath(goal, from, candidates, ops)
           given == GivenBy(request, s.steps)
<1>1. t = IF goal.id \notin s.left THEN s
          ELSE IF ready # {} THEN Advance(s, goal, goal.subject, ready)
          ELSE Follow(s, goal, candidates, way)
  BY Zenon DEF Consider
<1>2. ready = ReadyFor(request, ops, s.known, goal)
  BY DEF ReadyFor
<1>3. PICK V : way \in Seq(V)
  BY PathIsList
<1>4. given \in SUBSET s.known
  BY DEF Accounted
<1> HIDE DEF from, candidates, ready, way, given
<1>5. CASE goal.id \notin s.left
  BY <1>1, <1>5 DEF Waits
<1>6. CASE goal.id \in s.left /\ ready # {}
  <2>1. t = Advance(s, goal, goal.subject, ready)
    BY <1>1, <1>6
  <2> QED BY <1>6, <2>1, AdvanceIsPlanned
<1>7. CASE goal.id \in s.left /\ ready = {}
  <2>1. t = Follow(s, goal, candidates, way)
    BY <1>1, <1>7
  <2>2. ReadyFor(request, ops, given, goal) = {}
    BY <1>2, <1>4, <1>7, ReadyIsMonotone
  <2>3. CASE way = NoWay
    <3>1. t = s
      BY <2>1, <2>3 DEF Follow
    <3> QED BY <2>2, <3>1 DEF Waits, given
  <2>4. CASE way # NoWay
    <3> DEFINE walked == Walk(s, goal.subject, way)
               reached == {o \in candidates : Takes(o, Head(Last(way).outputs))}
    <3>1. t = IF reached = {} THEN walked
              ELSE Advance(walked, goal, Last(walked.steps).output, reached)
      BY <2>1, <2>4 DEF Follow, Arrive
    <3>2. OnTheWay(s.steps, walked.steps)
      BY <1>3, WalkIsOnTheWay
    <3>3. walked.left = s.left /\ walked.moved = s.moved
          /\ walked.known = s.known \cup {walked.steps[j].output : j \in DOMAIN walked.steps}
      BY DEF Walk
    <3> HIDE DEF walked, reached
    <3>4. GivenBy(request, walked.steps) = given
      BY <3>2, OnTheWayGives DEF given
    <3>5. Accounted(request, walked)
      <4>1. GivenBy(request, walked.steps) \subseteq walked.known
        BY <1>4, <3>3, <3>4
      <4>2. \A g \in GoalIds(request) :
                 g \in walked.left \/ \E j \in DOMAIN walked.steps : walked.steps[j].goal = g
        <5> SUFFICES ASSUME NEW g \in GoalIds(request), g \notin s.left
                     PROVE  \E j \in DOMAIN walked.steps : walked.steps[j].goal = g
          BY <3>3
        <5>1. \E j \in DOMAIN s.steps : s.steps[j].goal = g
          BY DEF Accounted
        <5> QED BY <3>2, <5>1 DEF OnTheWay
      <4>3. walked.moved \in BOOLEAN /\ walked.left \subseteq GoalIds(request)
        BY <3>3 DEF Accounted
      <4> QED BY <4>1, <4>2, <4>3, Zenon DEF Accounted
    <3>6. CASE reached = {}
      <4>1. t = walked
        BY <3>1, <3>6
      <4>2. Waits(request, ops, s, t, goal)
        BY <2>2, <3>3, <3>4, <4>1 DEF Waits, given
      <4> QED BY <3>5, <4>1, <4>2
    <3>7. CASE reached # {}
      <4> DEFINE place == Last(walked.steps).output
      <4>1. t = Advance(walked, goal, place, reached)
        BY <3>1, <3>7
      <4>2. Listed(walked.steps) /\ goal.id \in walked.left
        BY <1>7, <3>2, <3>3 DEF OnTheWay
      <4> HIDE DEF place
      <4>3. Accounted(request, t) /\ Planned(walked, t, goal)
        BY <3>5, <4>1, <4>2, AdvanceIsPlanned
      <4>4. Planned(s, t, goal)
        BY <3>3, <4>3 DEF Planned
      <4> QED BY <4>3, <4>4
    <3> QED BY <3>6, <3>7
  <2> QED BY <2>3, <2>4
<1> QED BY <1>5, <1>6, <1>7

\* None of the first k goals that are left can be taken.
Tried(request, ops, s, k) ==
    \A i \in 1 .. k : request.goals[i].id \in s.left =>
        ReadyFor(request, ops, GivenBy(request, s.steps), request.goals[i]) = {}

\* A pass over k goals that began with s.
Passed(request, ops, s, t, k) ==
    /\ Accounted(request, t) /\ t.left \subseteq s.left
    /\ t.moved => t.left # s.left
    /\ ~t.moved => /\ t.left = s.left /\ Tried(request, ops, t, k)

LEMMA PassStep ==
    ASSUME NEW request, NEW ops, NEW s, NEW k \in Nat, NEW t, Passed(request, ops, s, t, k),
           NEW goal, goal = request.goals[k + 1], NEW u, Accounted(request, u),
           Planned(t, u, goal) \/ Waits(request, ops, t, u, goal)
    PROVE  Passed(request, ops, s, u, k + 1)
<1>1. CASE Planned(t, u, goal)
  <2>1. u.moved = TRUE /\ u.left = t.left \ {goal.id} /\ goal.id \in t.left /\ t.left \subseteq s.left
    BY <1>1 DEF Planned, Passed
  <2>2. u.left \subseteq s.left /\ u.left # s.left
    BY <2>1
  <2> QED BY <2>1, <2>2 DEF Passed
<1>2. CASE Waits(request, ops, t, u, goal)
  <2>1. u.moved = t.moved /\ u.left = t.left
        /\ GivenBy(request, u.steps) = GivenBy(request, t.steps)
        /\ (goal.id \in t.left => ReadyFor(request, ops, GivenBy(request, t.steps), goal) = {})
    BY <1>2 DEF Waits
  <2>2. \A i \in 1 .. (k + 1) : i \in 1 .. k \/ i = k + 1
    OBVIOUS
  <2>3. ASSUME ~t.moved PROVE Tried(request, ops, u, k + 1)
    <3>1. Tried(request, ops, t, k)
      BY <2>3 DEF Passed
    <3> QED BY <2>1, <2>2, <3>1 DEF Tried
  <2> QED BY <2>1, <2>3 DEF Passed
<1> QED BY <1>1, <1>2

LEMMA PassCounts ==
    ASSUME NEW request \in Graphs, NEW s, On(request, s), Accounted(request, s), s.moved,
           NEW U, NEW ops \in Seq(U)
    PROVE  Passed(request, ops, s, Pass(request, ops, s), Len(request.goals))
<1> DEFINE n == Len(request.goals)
           f == CHOOSE g : PassUpto(g, request, ops, s, n)
<1>1. n \in Nat /\ DOMAIN request.goals = 1 .. n
  BY PhaseAssumption
<1>2. PassUpto(f, request, ops, s, n)
  <2> HIDE DEF n
  <2> QED BY <1>1, PassUptoExists
<1>3. Pass(request, ops, s) = f[n]
  BY Zenon DEF Pass, PassUpto
<1> HIDE DEF f, n
<1> DEFINE N == {k \in Nat : k <= n => On(request, f[k]) /\ Passed(request, ops, s, f[k], k)}
<1>4. 0 \in N
  <2>1. f[0] = Unmoved(s)
    BY <1>1, <1>2, PassUptoSteps
  <2>2. f[0].steps = s.steps /\ f[0].left = s.left /\ f[0].moved = FALSE /\ f[0].known = s.known
    BY <2>1 DEF Unmoved
  <2>3. On(request, f[0])
    BY <2>2 DEF On
  <2>4. Accounted(request, f[0])
    BY <2>2 DEF Accounted
  <2>5. Tried(request, ops, f[0], 0)
    BY DEF Tried
  <2> QED BY <2>2, <2>3, <2>4, <2>5 DEF Passed
<1>5. ASSUME NEW k \in Nat, k \in N PROVE k + 1 \in N
  <2> SUFFICES ASSUME k + 1 <= n
               PROVE  On(request, f[k + 1]) /\ Passed(request, ops, s, f[k + 1], k + 1)
    OBVIOUS
  <2>1. k + 1 \in 1 .. n /\ (k + 1) - 1 = k
    BY <1>1
  <2>2. f[k + 1] = Consider(request, ops, f[(k + 1) - 1], request.goals[k + 1])
    BY <1>1, <1>2, <2>1, PassUptoSteps
  <2>3. f[k + 1] = Consider(request, ops, f[k], request.goals[k + 1])
    BY <2>1, <2>2
  <2>4. On(request, f[k]) /\ Passed(request, ops, s, f[k], k)
    BY <1>1, <1>5, <2>1
  <2>5. k + 1 \in DOMAIN request.goals
    BY <1>1, <2>1
  <2>6. On(request, f[k + 1])
    BY <2>3, <2>4, <2>5, ConsiderIsRouted
  <2>7. Listed(f[k].steps) /\ Accounted(request, f[k])
    BY <2>4 DEF On, Routed, Passed
  <2> DEFINE goal == request.goals[k + 1]
             t == f[k]
             u == f[k + 1]
  <2>8. u = Consider(request, ops, t, goal) /\ goal = request.goals[k + 1]
    BY <2>3
  <2>9. Listed(t.steps) /\ Accounted(request, t) /\ Passed(request, ops, s, t, k)
    BY <2>4, <2>7
  <2> HIDE DEF goal, t, u
  <2>10. Accounted(request, u) /\ (Planned(t, u, goal) \/ Waits(request, ops, t, u, goal))
    BY <2>5, <2>8, <2>9, ConsiderCounts
  <2>11. Passed(request, ops, s, u, k + 1)
    BY <2>8, <2>9, <2>10, PassStep
  <2> QED BY <2>6, <2>11 DEF u
<1>6. Nat \subseteq N
  <2> HIDE DEF N
  <2> QED BY <1>4, <1>5, NatSets
<1>7. Passed(request, ops, s, f[n], n)
  BY <1>1, <1>6
<1> QED BY <1>3, <1>7 DEF n

LEMMA GoalsAreFinite ==
    ASSUME NEW request \in Graphs
    PROVE  IsFiniteSet(GoalIds(request)) /\ Cardinality(GoalIds(request)) <= Len(request.goals)
<1> DEFINE n == Len(request.goals)
           S == GoalIds(request)
           f == [i \in 1 .. n |-> request.goals[i].id]
<1>1. n \in Nat /\ DOMAIN request.goals = 1 .. n
  BY PhaseAssumption
<1>2. f \in [1 .. n -> S] /\ \A g \in S : \E i \in 1 .. n : f[i] = g
  BY <1>1 DEF GoalIds
<1> HIDE DEF f, n, S
<1>3. ExistsSurjection(1 .. n, S)
  BY <1>2 DEF ExistsSurjection, Surjection
<1>4. IsFiniteSet(S)
  BY <1>1, <1>3, FS_NatSurjection
<1>5. Cardinality(S) <= n
  BY <1>1, <1>3, FS_SurjCardinalityBound
<1> QED BY <1>4, <1>5 DEF n, S

\* The passes before the last: each but an unmoved one plans a goal.
Counted(request, ops, s, k) ==
    /\ On(request, s) /\ Accounted(request, s)
    /\ s.moved => Cardinality(s.left) + k <= Len(request.goals)
    /\ ~s.moved => Tried(request, ops, s, Len(request.goals))

LEMMA CountedPass ==
    ASSUME NEW request \in Graphs, NEW U, NEW ops \in Seq(U), NEW k \in Nat, NEW s,
           Counted(request, ops, s, k), NEW t, t = Pass(request, ops, s)
    PROVE  Counted(request, ops, t, k + 1)
<1>1. On(request, s) /\ Accounted(request, s) /\ On(request, t)
  BY PassIsRouted DEF Counted
<1>2. CASE ~s.moved
  <2>1. t = s
    BY <1>2 DEF Pass
  <2> QED BY <1>2, <2>1 DEF Counted
<1>3. CASE s.moved
  <2>1. Passed(request, ops, s, t, Len(request.goals))
    BY <1>1, <1>3, PassCounts
  <2>2. Accounted(request, t)
    BY <2>1 DEF Passed
  <2>3. ASSUME t.moved PROVE Cardinality(t.left) + (k + 1) <= Len(request.goals)
    <3>1. t.left \in SUBSET s.left /\ t.left # s.left
      BY <2>1, <2>3 DEF Passed
    <3>2. s.left \in SUBSET GoalIds(request)
      BY <1>1 DEF Accounted
    <3>3. IsFiniteSet(s.left)
      BY <3>2, GoalsAreFinite, FS_Subset
    <3>4. /\ IsFiniteSet(t.left) /\ Cardinality(t.left) <= Cardinality(s.left)
          /\ Cardinality(s.left) # Cardinality(t.left)
      BY <3>1, <3>3, FS_Subset
    <3>5. Cardinality(t.left) \in Nat /\ Cardinality(s.left) \in Nat
      BY <3>3, <3>4, FS_CardinalityType
    <3>6. Cardinality(s.left) + k <= Len(request.goals) /\ Len(request.goals) \in Nat
      BY <1>3, PhaseAssumption DEF Counted
    <3> QED BY <3>4, <3>5, <3>6
  <2>4. ~t.moved => Tried(request, ops, t, Len(request.goals))
    BY <2>1 DEF Passed
  <2> QED BY <1>1, <2>2, <2>3, <2>4 DEF Counted
<1> QED BY <1>2, <1>3

\* A goal that an operation takes with what the plan gives is in the plan.
LEMMA ComposeIsComplete ==
    ASSUME NEW request \in Graphs, NEW U, NEW ops \in Seq(U),
           NEW p, p = Compose(request, ops)
    PROVE  /\ \A i \in DOMAIN request.goals :
                 \/ ReadyFor(request, ops, GivenBy(request, p.steps), request.goals[i]) = {}
                 \/ StepOf(p, request.goals[i].id) # {}
           /\ GoalIds(request) # {} /\ p.steps = << >> => p.unresolved # {}
<1> DEFINE m == Len(request.goals)
           n == m + 1
           f == CHOOSE g : PlanUpto(g, request, ops, n)
<1>1. m \in Nat /\ n \in Nat /\ DOMAIN request.goals = 1 .. m
  BY PhaseAssumption
<1>2. PlanUpto(f, request, ops, n)
  <2> HIDE DEF n
  <2> QED BY <1>1, PlanUptoExists
<1>3. p.steps = f[n].steps /\ p.unresolved = f[n].left
  <2>1. Compose(request, ops) = [steps |-> f[n].steps, unresolved |-> f[n].left]
    BY Zenon DEF Compose, PlanUpto
  <2> QED BY <2>1
<1> HIDE DEF f
<1> DEFINE N == {k \in Nat : k <= n => Counted(request, ops, f[k], k)}
<1>4. 0 \in N
  <2> HIDE DEF n
  <2>1. f[0] = Start(request)
    BY <1>1, <1>2, PlanUptoSteps
  <2>2. /\ f[0].steps = << >> /\ f[0].left = GoalIds(request)
        /\ f[0].moved = TRUE /\ f[0].known = request.known
    BY <2>1 DEF Start
  <2>3. On(request, f[0])
    <3>1. << >> \in Seq({})
      BY EmptySeq
    <3> QED BY <2>2, <3>1 DEF On, Routed, Listed
  <2>4. Accounted(request, f[0])
    <3>1. {j \in DOMAIN << >> : << >>[j].goal # NoGoal} = {}
      OBVIOUS
    <3>2. GivenBy(request, f[0].steps) \subseteq f[0].known
      BY <2>2, <3>1 DEF GivenBy
    <3>3. f[0].moved \in BOOLEAN
      BY <2>2
    <3>4. f[0].left \subseteq GoalIds(request) /\ \A g \in GoalIds(request) : g \in f[0].left
      BY <2>2
    <3> QED BY <3>2, <3>3, <3>4, Zenon DEF Accounted
  <2>5. Cardinality(f[0].left) + 0 <= Len(request.goals)
    <3>1. Cardinality(GoalIds(request)) <= Len(request.goals)
      BY GoalsAreFinite
    <3>2. Cardinality(GoalIds(request)) \in Nat
      BY GoalsAreFinite, FS_CardinalityType
    <3> QED BY <2>2, <3>1, <3>2
  <2>6. Counted(request, ops, f[0], 0)
    BY <2>2, <2>3, <2>4, <2>5 DEF Counted
  <2> QED BY <2>6
<1>5. ASSUME NEW k \in Nat, k \in N PROVE k + 1 \in N
  <2> SUFFICES ASSUME k + 1 <= n PROVE Counted(request, ops, f[k + 1], k + 1)
    OBVIOUS
  <2> HIDE DEF n
  <2>1. k + 1 \in 1 .. n /\ (k + 1) - 1 = k
    BY <1>1
  <2>2. f[k + 1] = Pass(request, ops, f[(k + 1) - 1])
    BY <1>1, <1>2, <2>1, PlanUptoSteps
  <2>3. Counted(request, ops, f[k], k) /\ f[k + 1] = Pass(request, ops, f[k])
    BY <1>1, <1>5, <2>1, <2>2
  <2> QED BY <2>3, CountedPass
<1>6. Nat \subseteq N
  <2> HIDE DEF N
  <2> QED BY <1>4, <1>5, NatSets
<1> DEFINE last == f[n]
<1>7. Counted(request, ops, last, n)
  BY <1>1, <1>6
<1>8. Accounted(request, last) /\ On(request, last)
  BY <1>7 DEF Counted
<1>9. p.steps = last.steps /\ p.unresolved = last.left
  BY <1>3
<1> HIDE DEF last
<1>10. ~last.moved
  <2> SUFFICES ASSUME last.moved PROVE FALSE
    OBVIOUS
  <2>1. Cardinality(last.left) + n <= m
    BY <1>7 DEF Counted
  <2>2. last.left \in SUBSET GoalIds(request)
    BY <1>8 DEF Accounted
  <2>3. IsFiniteSet(last.left)
    BY <2>2, GoalsAreFinite, FS_Subset
  <2>4. Cardinality(last.left) \in Nat
    BY <2>3, FS_CardinalityType
  <2> QED BY <1>1, <2>1, <2>4
<1>11. Tried(request, ops, last, m)
  BY <1>7, <1>10 DEF Counted
<1>12. ASSUME NEW g \in GoalIds(request), g \notin last.left PROVE StepOf(p, g) # {}
  <2>1. \E j \in DOMAIN last.steps : last.steps[j].goal = g
    BY <1>8, <1>12 DEF Accounted
  <2> QED BY <1>9, <2>1 DEF StepOf
<1>13. ASSUME NEW i \in DOMAIN request.goals
       PROVE  \/ ReadyFor(request, ops, GivenBy(request, p.steps), request.goals[i]) = {}
              \/ StepOf(p, request.goals[i].id) # {}
  <2>1. request.goals[i].id \in GoalIds(request)
    BY DEF GoalIds
  <2>2. CASE request.goals[i].id \in last.left
    BY <1>1, <1>9, <1>11, <2>2 DEF Tried
  <2>3. CASE request.goals[i].id \notin last.left
    BY <1>12, <2>1, <2>3
  <2> QED BY <2>2, <2>3
<1>14. ASSUME GoalIds(request) # {}, p.steps = << >> PROVE p.unresolved # {}
  <2>1. PICK g \in GoalIds(request) : TRUE
    BY <1>14
  <2>2. StepOf(p, g) = {}
    BY <1>14 DEF StepOf
  <2> QED BY <1>9, <1>12, <2>1, <2>2
<1> QED BY <1>13, <1>14

-----------------------------------------------------------------------------
(* The plan of a hunt.                                                     *)

RouteInv ==
    /\ phase # "idle" => graph \in Graphs /\ active \in Range(Providers)
    /\ RoutesStartAtSubject

LEMMA RoutedIsOwn ==
    ASSUME NEW request, NEW p, Routed(request, p.steps, p.unresolved), NEW i \in DOMAIN p.steps
    PROVE  /\ \A j \in p.steps[i].needs :
                 j \in 1..(i - 1) /\ p.steps[j].output = p.steps[i].input
           /\ p.steps[i].goal # NoGoal =>
                 /\ LeadsFrom(p.steps, i, GoalOf(request, p.steps[i].goal).subject)
                 /\ StepOf(p, p.steps[i].goal) = {i}
                 /\ p.steps[i].goal \notin p.unresolved
<1>1. Sound(request, p.steps, p.unresolved, i)
  BY DEF Routed
<1>2. ASSUME p.steps[i].goal # NoGoal PROVE StepOf(p, p.steps[i].goal) = {i}
  BY <1>1, <1>2 DEF Sound, StepOf
<1> QED BY <1>1, <1>2 DEF Sound

LEMMA EmptyPlanIsOwn ==
    ASSUME plan = NoPlan
    PROVE  RoutesStartAtSubject
BY DEF NoPlan, RoutesStartAtSubject

LEMMA ActiveIsConfigured ==
    ASSUME NEW g, NEW found, NEW hinted
    PROVE  Active(g, found, hinted) \in Range(Providers)
<1> DEFINE fit == {p \in Range(Providers) : /\ found[p] = "ONLINE" /\ Relevant(g, p)
                                            /\ (hinted = {} \/ p \in hinted)}
           chosen == Kept(Providers, fit)
<1>1. Len(Providers) \in Nat
  BY ProvidersAssumption, LenProperties
<1>2. chosen \in Seq(fit)
  <2> HIDE DEF fit
  <2> QED BY <1>1, KeptIn
<1>3. chosen \in Seq(Range(Providers))
  BY <1>2, SeqMonotonic
<1> HIDE DEF chosen
<1> DEFINE all == chosen \o Providers
<1>4. all \in Seq(Range(Providers)) /\ all # << >>
  <2>1. Len(all) = Len(chosen) + Len(Providers) /\ all \in Seq(Range(Providers))
    BY <1>3, ProvidersAssumption, ConcatProperties
  <2>2. Len(chosen) \in Nat /\ Len(Providers) # 0
    BY <1>3, ProvidersAssumption, LenProperties, EmptySeq
  <2>3. Len(all) # 0
    BY <1>1, <2>1, <2>2
  <2> HIDE DEF all
  <2> QED BY <2>1, <2>3
<1>5. Active(g, found, hinted) = Head(all)
  BY DEF Active, Selected, chosen
<1> HIDE DEF all
<1>6. Head(all) \in Range(Providers)
  BY <1>4, HeadTailProperties
<1> QED BY <1>5, <1>6

LEMMA PlannableIsList ==
    ASSUME PhaseInv, active \in Range(Providers)
    PROVE  \E U : Plannable \in Seq(U)
<1> DEFINE fit == {o \in Range(Declared[active]) : ~o.legacy}
           latest == {i \in DOMAIN operations :
                        \A j \in DOMAIN operations : operations[j].id = operations[i].id => j <= i}
           places == [i \in DOMAIN operations |-> i]
           last == Kept(places, latest)
           made == {AsPlanned(operations[last[n]], 100 + last[n]) : n \in DOMAIN last}
<1>1. Kept(Declared[active], fit) \in Seq(fit)
  <2>1. Len(Declared[active]) \in Nat
    BY ProvidersAssumption, LenProperties
  <2> HIDE DEF fit
  <2> QED BY <2>1, KeptIn
<1>2. Len(places) \in Nat
  <2>1. PICK S : operations \in Seq(S)
    BY DEF PhaseInv, OperationsInv
  <2>2. DOMAIN operations = 1 .. Len(operations) /\ Len(operations) \in Nat
    BY <2>1, LenProperties
  <2>3. places \in Seq(1 .. Len(operations))
    BY <2>2, IsASeq
  <2> HIDE DEF places
  <2> QED BY <2>3, LenProperties
<1>3. last \in Seq(latest)
  <2> HIDE DEF places, latest
  <2> QED BY <1>2, KeptIn
<1>4. DOMAIN last = 1 .. Len(last) /\ Len(last) \in Nat
  <2> HIDE DEF last
  <2> QED BY <1>3, LenProperties
<1>5. Runtime = [n \in DOMAIN last |-> AsPlanned(operations[last[n]], 100 + last[n])]
  BY Zenon DEF Runtime
<1>6. Runtime \in Seq(made)
  <2> HIDE DEF last
  <2>1. \A n \in 1 .. Len(last) : AsPlanned(operations[last[n]], 100 + last[n]) \in made
    BY <1>4
  <2> HIDE DEF made
  <2>2. [n \in 1 .. Len(last) |-> AsPlanned(operations[last[n]], 100 + last[n])] \in Seq(made)
    BY <1>4, <2>1, IsASeq
  <2> QED BY <1>4, <1>5, <2>2
<1>7. Plannable = Kept(Declared[active], fit) \o Runtime
  BY DEF Plannable
<1> HIDE DEF fit, made
<1>8. /\ Kept(Declared[active], fit) \in Seq(fit \cup made)
      /\ Runtime \in Seq(fit \cup made)
  BY <1>1, <1>6, SeqMonotonic
<1>9. Plannable \in Seq(fit \cup made)
  BY <1>7, <1>8, ConcatProperties
<1> QED BY <1>9

LEMMA RouteStep ==
    ASSUME PhaseInv, RouteInv, [Next]_vars
    PROVE  RouteInv'
<1>1. CASE Request
  <2>1. PICK g \in Graphs, hinted \in Hints, found \in Censuses :
                                                  Begin(g, found, hinted)
    BY <1>1 DEF Request
  <2>2. graph' = g /\ active' = Active(g, found, hinted) /\ plan' = NoPlan
    BY <2>1 DEF Begin
  <2>3. RoutesStartAtSubject'
    BY <2>2 DEF NoPlan, RoutesStartAtSubject
  <2> QED BY <2>2, <2>3, ActiveIsConfigured DEF RouteInv
<1>2. CASE MakePlan
  <2>1. /\ graph \in Graphs /\ active \in Range(Providers)
        /\ graph' = graph /\ active' = active
        /\ plan' = IF graph.kind = "text" THEN NoPlan ELSE Compose(graph, Plannable)
    BY <1>2 DEF MakePlan, hunt, RouteInv
  <2>2. CASE graph.kind = "text"
    <3>1. plan' = NoPlan
      BY <2>1, <2>2
    <3>2. RoutesStartAtSubject'
      BY <3>1 DEF NoPlan, RoutesStartAtSubject
    <3> QED BY <2>1, <3>2 DEF RouteInv
  <2>3. CASE graph.kind # "text"
    <3>1. plan' = Compose(graph, Plannable)
      BY <2>1, <2>3
    <3>2. PICK U : Plannable \in Seq(U)
      BY <2>1, PlannableIsList
    <3>3. Routed(graph', plan'.steps, plan'.unresolved)
      BY <2>1, <3>1, <3>2, ComposeIsRouted
    <3>4. RoutesStartAtSubject'
      BY <3>3, RoutedIsOwn DEF RoutesStartAtSubject
    <3> QED BY <2>1, <3>4 DEF RouteInv
  <2> QED BY <2>2, <2>3
<1>3. CASE UNCHANGED <<graph, active, plan>> /\ (phase' # "idle" => phase # "idle")
  <2>1. graph' = graph /\ plan' = plan /\ RoutesStartAtSubject
    BY <1>3 DEF RouteInv
  <2>2. RoutesStartAtSubject'
    BY <2>1, Zenon DEF RoutesStartAtSubject
  <2> QED BY <1>3, <2>2 DEF RouteInv
<1>4. ASSUME ~Request, ~MakePlan
      PROVE  UNCHANGED <<graph, active, plan>> /\ (phase' # "idle" => phase # "idle")
  <2>1. CASE Refuse \/ CallFails \/ Propose
    BY <2>1 DEF Refuse, CallFails, Propose, MayCall, Ends, hunt
  <2>2. CASE Lookup
    BY <2>2 DEF Lookup, hunt
  <2>3. CASE Reject \/ Reuse \/ ProbeFails \/ ProbeSucceeds
    BY <2>3 DEF Reject, Reuse, ProbeFails, ProbeSucceeds, Probe, Proposed, Drop, hunt
  <2>4. CASE Guard \/ Execute \/ Decline \/ Claims \/ Search
    BY <2>4 DEF Guard, Execute, Decline, Claims, Search, Goes, hunt
  <2>5. CASE (\E s \in Sources : Drift(s)) \/ UNCHANGED vars
    BY <2>5 DEF Drift, vars, hunt
  <2> QED BY <1>4, <2>1, <2>2, <2>3, <2>4, <2>5 DEF Next, Step
<1> QED BY <1>1, <1>2, <1>3, <1>4

\* RoutesStartAtSubject holds in every session: whatever is declared,
\* profiled and probed, a goal is tested on what was found for it (compose).
THEOREM RoutesAreTheirOwn == Spec => []RoutesStartAtSubject
<1>1. Init => RouteInv
  BY EmptyPlanIsOwn DEF Init, RouteInv
<1>2. PhaseInv /\ RouteInv /\ [Next]_vars => RouteInv'
  BY RouteStep
<1>3. RouteInv => RoutesStartAtSubject
  BY DEF RouteInv
<1> QED BY <1>1, <1>2, <1>3, PhaseInvariant, PTL DEF Spec

-----------------------------------------------------------------------------
(* How a hunt goes on.                                                     *)

\* The plan of a hunt is that of all that was declared and made for it, and
\* until it is there only probes were sent.
PlanInv ==
    /\ hunts \in Nat
    /\ phase # "idle" \/ hunts > 0 => graph \in Graphs /\ active \in Range(Providers)
    /\ phase # "idle" => queried \subseteq {<<active, "probe">>}
    /\ phase = "gate" \/ (phase = "idle" /\ hunts > 0) =>
          (graph.kind # "text" => plan = Compose(graph, Plannable))
    /\ phase = "idle" /\ hunts > 0 /\ graph.kind = "native" /\ Guarded = NoStop =>
          /\ plan.steps # << >> => <<active, "plan">> \in queried
          /\ <<active, "search">> \in queried => plan.steps = << >> /\ plan.unresolved = {}

\* What the plan and the guards are made from.
LEMMA SameMaterial ==
    ASSUME UNCHANGED <<graph, active, operations, status, hints>>
    PROVE  Plannable' = Plannable /\ Guarded' = Guarded
<1>1. UNCHANGED <<graph, active, operations, status, hints>>
  OBVIOUS
<1>2. Plannable' = Plannable
  BY <1>1 DEF Plannable, Runtime, AsPlanned, TypeOf
<1>3. Guarded' = Guarded
  BY <1>1 DEF Guarded, IsSelected, AnyOnline
<1> QED BY <1>2, <1>3

LEMMA GoesKeepsPlan ==
    ASSUME PlanInv, Guard \/ Execute \/ Decline \/ Claims \/ Search
    PROVE  PlanInv'
<1>1. PICK stopped, queries : Goes(stopped, queries)
  BY DEF Guard, Execute, Decline, Claims, Search
<1>2. /\ phase = "gate" /\ phase' = "idle"
      /\ UNCHANGED <<hunts, graph, active, operations, status, hints, plan>>
  BY <1>1 DEF Goes, kept, hunt
<1>3. Plannable' = Plannable /\ Guarded' = Guarded
  BY <1>2, SameMaterial
<1>4. /\ hunts \in Nat /\ graph \in Graphs /\ active \in Range(Providers)
      /\ queried \subseteq {<<active, "probe">>}
      /\ graph.kind # "text" => plan = Compose(graph, Plannable)
  BY <1>2 DEF PlanInv
<1>5. ASSUME graph.kind = "native", Guarded = NoStop
      PROVE  /\ plan.steps # << >> => <<active, "plan">> \in queried'
             /\ <<active, "search">> \in queried' => plan.steps = << >> /\ plan.unresolved = {}
  <2>1. <<active, "search">> # <<active, "probe">> /\ <<active, "search">> # <<active, "plan">>
    OBVIOUS
  <2>2. CASE Execute
    <3>1. queried' = queried \cup {<<active, "plan">>}
      BY <2>2 DEF Execute, Goes
    <3> QED BY <1>4, <2>1, <3>1
  <2>3. CASE Decline
    <3>1. queried' = queried \cup {} /\ plan.steps = << >>
      BY <2>3 DEF Decline, Goes
    <3> QED BY <1>4, <2>1, <3>1
  <2>4. CASE Search
    <3>1. plan.steps = << >> /\ plan.unresolved = {}
      BY <1>5, <2>4 DEF Search, FallsThrough
    <3> QED BY <3>1
  <2>5. CASE Guard \/ Claims
    BY <1>5, <2>5 DEF Guard, Claims
  <2> QED BY <2>2, <2>3, <2>4, <2>5
<1> QED BY <1>2, <1>3, <1>4, <1>5 DEF PlanInv

LEMMA PlanStep ==
    ASSUME PlanInv, [Next]_vars
    PROVE  PlanInv'
<1>1. CASE Request
  <2>1. PICK g \in Graphs, hinted \in Hints, found \in Censuses : Begin(g, found, hinted)
    BY <1>1 DEF Request
  <2>2. /\ graph' = g /\ active' = Active(g, found, hinted) /\ queried' = {}
        /\ phase' = "lookup" /\ hunts' = hunts + 1 /\ hunts \in Nat
    BY <2>1 DEF Begin, PlanInv
  <2>3. active' \in Range(Providers)
    BY <2>2, ActiveIsConfigured
  <2> QED BY <2>2, <2>3 DEF PlanInv
<1>2. CASE MakePlan
  <2>1. /\ UNCHANGED <<hunts, graph, active, operations, status, hints, queried>>
        /\ phase = "probe" /\ phase' = "gate"
        /\ graph.kind # "text" => plan' = Compose(graph, Plannable)
    BY <1>2 DEF MakePlan, kept, hunt
  <2>2. Plannable' = Plannable
    BY <2>1, SameMaterial
  <2> QED BY <2>1, <2>2 DEF PlanInv
<1>3. CASE Guard \/ Execute \/ Decline \/ Claims \/ Search
  BY <1>3, GoesKeepsPlan
<1>4. CASE Lookup \/ Refuse \/ CallFails \/ Propose
  <2>1. /\ UNCHANGED <<hunts, graph, active, queried>>
        /\ phase \notin {"idle", "gate"} /\ phase' \notin {"idle", "gate"}
    BY <1>4 DEF Lookup, Refuse, CallFails, Propose, MayCall, Ends, kept, hunt
  <2> QED BY <2>1 DEF PlanInv
<1>5. CASE Reject \/ Reuse \/ ProbeFails \/ ProbeSucceeds
  <2>1. /\ UNCHANGED <<hunts, graph, active, phase>> /\ phase = "probe"
        /\ queried' = queried \/ queried' = queried \cup {<<active, "probe">>}
    BY <1>5 DEF Reject, Reuse, ProbeFails, ProbeSucceeds, Probe, Proposed, Drop, hunt
  <2> QED BY <2>1 DEF PlanInv
<1>6. CASE (\E s \in Sources : Drift(s)) \/ UNCHANGED vars
  <2>1. UNCHANGED <<hunts, phase, graph, active, operations, status, hints, plan, queried>>
    BY <1>6 DEF Drift, vars, kept, hunt
  <2>2. Plannable' = Plannable /\ Guarded' = Guarded
    BY <2>1, SameMaterial
  <2> QED BY <2>1, <2>2 DEF PlanInv
<1> QED BY <1>1, <1>2, <1>3, <1>4, <1>5, <1>6 DEF Next, Step

\* GoesOnWithWhatIsLeft holds in every session: the loop of the planner stops
\* only after a pass that could plan none of the goals that are left, and of
\* the ways on only that of the plan takes a graph with a step (compose,
\* execute_hunt).
THEOREM HuntsGoOn == Spec => []GoesOnWithWhatIsLeft
<1>1. Init => PlanInv
  BY DEF Init, PlanInv
<1>2. PlanInv /\ [Next]_vars => PlanInv'
  BY PlanStep
<1>3. PhaseInv /\ PlanInv => GoesOnWithWhatIsLeft
  <2> SUFFICES ASSUME PhaseInv, PlanInv,
                      phase = "idle" /\ hunts > 0 /\ graph.kind = "native" /\ Guarded = NoStop
               PROVE  /\ \A i \in DOMAIN graph.goals : CouldTest(graph.goals[i]) =>
                            StepOf(plan, graph.goals[i].id) # {} /\ <<active, "plan">> \in queried
                      /\ GoalIds(graph) # {} => <<active, "search">> \notin queried
    BY DEF GoesOnWithWhatIsLeft
  <2>1. /\ graph \in Graphs /\ active \in Range(Providers)
        /\ plan = Compose(graph, Plannable)
        /\ plan.steps # << >> => <<active, "plan">> \in queried
        /\ <<active, "search">> \in queried => plan.steps = << >> /\ plan.unresolved = {}
    BY DEF PlanInv
  <2>2. PICK U : Plannable \in Seq(U)
    BY <2>1, PlannableIsList
  <2>3. /\ \A i \in DOMAIN graph.goals :
              \/ ReadyFor(graph, Plannable, GivenBy(graph, plan.steps), graph.goals[i]) = {}
              \/ StepOf(plan, graph.goals[i].id) # {}
        /\ GoalIds(graph) # {} /\ plan.steps = << >> => plan.unresolved # {}
    BY <2>1, <2>2, ComposeIsComplete
  <2>4. ASSUME NEW i \in DOMAIN graph.goals, CouldTest(graph.goals[i])
        PROVE  StepOf(plan, graph.goals[i].id) # {} /\ <<active, "plan">> \in queried
    <3>1. ReadyFor(graph, Plannable, GivenBy(graph, plan.steps), graph.goals[i]) # {}
      BY <2>4 DEF CouldTest, Given, ReadyFor, GivenBy
    <3>2. StepOf(plan, graph.goals[i].id) # {}
      BY <2>3, <3>1
    <3>3. plan.steps # << >>
      BY <3>2 DEF StepOf
    <3> QED BY <2>1, <3>2, <3>3
  <2> QED BY <2>1, <2>3, <2>4
<1> QED BY <1>1, <1>2, <1>3, PhaseInvariant, PTL DEF Spec
=============================================================================
