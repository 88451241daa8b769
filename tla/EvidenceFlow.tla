---------------------------- MODULE EvidenceFlow ----------------------------
(***************************************************************************)
(* What the abduction side of an investigation promises about evidence:    *)
(* every observation the ledger collects waits until it is handed over in  *)
(* a batch, is handed over at most once, batches are bounded and their     *)
(* number is bounded, and once the case is closed nothing moves any more.  *)
(***************************************************************************)
EXTENDS Integers, FiniteSets

CONSTANTS Evidence, BatchSize, MaxBatches

VARIABLES waiting, handed, batches, closed
flowVars == <<waiting, handed, batches, closed>>

FlowInit == waiting = {} /\ handed = {} /\ batches = 0 /\ closed = FALSE

\* New evidence arrives: none of it was seen before.
Collect ==
    /\ ~ closed
    /\ \E E \in SUBSET (Evidence \ (waiting \cup handed)) :
          waiting' = waiting \cup E
    /\ UNCHANGED <<handed, batches, closed>>

\* One batch of waiting evidence is handed to abduction, for good.
HandOver ==
    /\ ~ closed
    /\ batches < MaxBatches
    /\ \E B \in SUBSET waiting :
          /\ B # {} /\ Cardinality(B) <= BatchSize
          /\ waiting' = waiting \ B
          /\ handed' = handed \cup B
    /\ batches' = batches + 1
    /\ UNCHANGED closed

Close ==
    /\ ~ closed
    /\ closed' = TRUE
    /\ UNCHANGED <<waiting, handed, batches>>

FlowNext == Collect \/ HandOver \/ Close
FlowSpec == FlowInit /\ [][FlowNext]_flowVars
=============================================================================
