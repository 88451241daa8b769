-------------------------- MODULE RelationVerifier --------------------------
(***************************************************************************)
(* The deterministic verifier of graph edges (evidence/relation_verifier). *)
(* An edge is the claim it was projected from; it is verified against the  *)
(* rows of one query, in the order the provider returned them; all come    *)
(* from the scope of the hunt and have a time.                             *)
(***************************************************************************)
EXTENDS Integers, FiniteSets, Sequences

CONSTANTS
    Claims, Rows, Values,
    NoValue,        \* a field that is absent, a value not known yet
    Reads,          \* claim -> row -> [fits, source, target]: the required
                    \* fields are there, and what its role fields hold
    Event,          \* row -> [time, artefact, state]
    Needs,          \* claim -> least number of matching rows
    CompleteOnly,   \* claims whose contract asks for a complete query
    Transitions,    \* claims whose operation proves a state transition
    Unqualified,    \* transitions that claim ransomware without evidence
    MaxDelta        \* greatest time between the two states

ASSUME VerifierAssumption ==
    /\ IsFiniteSet(Claims) /\ IsFiniteSet(Rows)
    /\ NoValue \notin Values /\ MaxDelta \in Nat
    /\ \A c \in Claims, r \in Rows :
          Reads[c][r] \in [fits : BOOLEAN, source : Values \cup {NoValue},
                          target : Values \cup {NoValue}]
    /\ \A r \in Rows : /\ Event[r].time \in Int
                       /\ Event[r].artefact \in Values \cup {NoValue}
    /\ Needs \in [Claims -> Nat \ {0}]
    /\ Transitions \subseteq Claims /\ CompleteOnly \subseteq Claims

\* The outcome of a verification; rows are the citations of its proof.
Rejected == [verified |-> FALSE, target |-> NoValue, rows |-> {}]
Proof(v, cited) == [verified |-> TRUE, target |-> v, rows |-> cited]

\* What is offered are positions of an answer, in the provider's order.
First(at) == CHOOSE i \in at : \A j \in at : i <= j
Last(at)  == CHOOSE i \in at : \A j \in at : j <= i
RowsAt(rows, at) == {rows[i] : i \in at}

\* Every row offered must be cited, new to the ledger's proof and from a
\* query that executed, was complete and was not cut (_admit_evidence).
Admitted(at, how) == at # {} /\ how = "complete"

\* A row that has the required fields and names the source and the target,
\* where it says anything of the source at all.
Matches(c, r, source, target) ==
    LET row == Reads[c][r]
    IN  /\ row.fits
        /\ row.source \in {NoValue, source}
        /\ target # NoValue => row.target = target

\* _verify_claim_contract: the first matching row names the target.
ClaimContract(c, rows, at, how, source, target) ==
    LET matching == {i \in at : Matches(c, rows[i], source, target)}
        found == IF target # NoValue THEN target ELSE Reads[c][rows[First(matching)]].target
    IN  IF \/ c \in CompleteOnly /\ how # "complete"
           \/ Cardinality(matching) < Needs[c]
           \/ found = NoValue
        THEN Rejected ELSE Proof(found, RowsAt(rows, matching))

\* _verify_state_transition: the rows are in order of time, and the first
\* and the last are two states of one artefact.
StateTransition(c, rows, at, target) ==
    LET before == Event[rows[First(at)]]
        after  == Event[rows[Last(at)]]
    IN  IF \/ Cardinality(at) < 2
           \/ \E i, j \in at : i < j /\ Event[rows[i]].time > Event[rows[j]].time
           \/ after.time - before.time > MaxDelta
           \/ before.artefact = NoValue \/ after.artefact # before.artefact
           \/ before.state # NoValue /\ after.state = before.state
           \/ c \in Unqualified
        THEN Rejected
        ELSE Proof(IF target # NoValue THEN target ELSE after.artefact, RowsAt(rows, at))

\* verify_candidate_edge
Verify(c, rows, at, how, source, target) ==
    IF ~Admitted(at, how) THEN Rejected
    ELSE IF c \in Transitions THEN StateTransition(c, rows, at, target)
    ELSE ClaimContract(c, rows, at, how, source, target)
=============================================================================
