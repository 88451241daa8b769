------------------------ MODULE ClaimLoopProperties ------------------------
(***************************************************************************)
(* What the loop over a claim graph guarantees.                            *)
(***************************************************************************)
EXTENDS ClaimLoop

Decisions ==
    {"none", "STOP_RESOLVED", "STOP_REFUTED", "STOP_BOUNDED",
     "STOP_INCONCLUSIVE_COVERAGE_GAP", "STOP_INCONCLUSIVE_IDENTITY_UNRESOLVED",
     "STOP_INCONCLUSIVE_RELATION_UNPROVEN", "STOP_EXHAUSTED_BY_BUDGET"}

\* Every variable keeps its type, and no edge is asked twice: a hunt makes
\* at most one query per claim.
TypeOK ==
    /\ bindable \subseteq Claims
    /\ claimStatus \in [Claims -> {"UNPROVEN", "SUPPORTED", "UNKNOWN", "INCONCLUSIVE"}]
    /\ edgeStatus \in [Claims -> {"UNPROVEN", "VERIFIED"}]
    /\ node \in [Claims -> Values \cup {NoValue}]
    /\ proof \in [Claims -> SUBSET Rows]
    /\ reqStatus \in [Requirements -> {"DEFINED", "EXECUTED", "CONFIRMED", "INCONCLUSIVE"}]
    /\ cells \in [Values -> {"none", "explored", "partial", "unqueryable", "unreachable"}]
    /\ ledger \subseteq Rows /\ incomplete \in BOOLEAN /\ identified \in BOOLEAN
    /\ turn \in 0..MaxTurns /\ late \in BOOLEAN
    /\ queries \in 0..Cardinality(Claims)
    /\ decision \in Decisions /\ phase \in {"hunting", "reported", "declined"}

\* What a proof must hold: enough rows of the ledger that speak of the
\* source as it is now, one of them naming the target; or two states of one
\* artefact within the time allowed.
Proves(c) ==
    IF c \in Transitions
    THEN \E a, b \in proof[c] :
           /\ Event[a].artefact # NoValue /\ Event[a].artefact = Event[b].artefact
           /\ Event[a].state = NoValue \/ Event[a].state # Event[b].state
           /\ Event[a].time <= Event[b].time
           /\ Event[b].time - Event[a].time <= MaxDelta
    ELSE /\ Cardinality(proof[c]) >= Needs[c]
         /\ \A r \in proof[c] :
              Reads[c][r].fits /\ Reads[c][r].source \in {NoValue, Source(c)}
         /\ \E r \in proof[c] : Reads[c][r].target = node[c]

\* A claim is SUPPORTED exactly while its edge is VERIFIED, and then by a
\* proof from the ledger about the source as it was found; a source that is
\* the unknown object of another claim was found by a SUPPORTED claim.
SupportedIsProved ==
    \A c \in Claims :
        /\ claimStatus[c] = "SUPPORTED" <=> edgeStatus[c] = "VERIFIED"
        /\ claimStatus[c] = "SUPPORTED" =>
             /\ proof[c] \subseteq ledger /\ proof[c] # {} /\ Proves(c)
             /\ Subject[c] # NoClaim /\ Object[Subject[c]] = NoValue =>
                  claimStatus[Subject[c]] = "SUPPORTED"

\* A row proves one claim at most: rows the ledger has are not offered again.
OneProofPerRow ==
    \A c, d \in Claims : c # d => proof[c] \cap proof[d] = {}

\* A hunt is RESOLVED only with every mandatory claim SUPPORTED, over
\* complete answers, and with every requirement those claims were asked for
\* confirmed; no failed edge is left behind a later success.
ResolvedIsWhole ==
    decision = "STOP_RESOLVED" =>
        /\ ~incomplete
        /\ \A c \in Mandatory :
             /\ claimStatus[c] = "SUPPORTED"
             /\ \A r \in Requires[c] : reqStatus[r] = "CONFIRMED"
=============================================================================
