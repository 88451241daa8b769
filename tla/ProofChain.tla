----------------------------- MODULE ProofChain -----------------------------
(***************************************************************************)
(* What the execution of a semantic plan promises about the values it      *)
(* passes along: a value is given by the request or the user, or derived   *)
(* from another one; it is derived only from a verified value; a verified  *)
(* value is never touched again; candidates may still be replaced.         *)
(***************************************************************************)
CONSTANTS Names

VARIABLES grade,   \* per name: "NONE", "CANDIDATE" or "VERIFIED"
          basis    \* per name: the names its value was derived from

chainVars == <<grade, basis>>

Grades == {"NONE", "CANDIDATE", "VERIFIED"}

ChainTypeOK ==
    /\ grade \in [Names -> Grades]
    /\ basis \in [Names -> SUBSET Names]

\* Given values are verified and rest on nothing.
ChainInit ==
    /\ grade \in [Names -> {"NONE", "VERIFIED"}]
    /\ basis = [x \in Names |-> {}]

Derive(x, y, g) ==
    /\ grade[x] # "VERIFIED"
    /\ grade[y] = "VERIFIED"
    /\ grade' = [grade EXCEPT ![x] = g]
    /\ basis' = [basis EXCEPT ![x] = {y}]

ChainNext == \E x, y \in Names, g \in {"CANDIDATE", "VERIFIED"} : Derive(x, y, g)

ChainSpec == ChainInit /\ [][ChainNext]_chainVars

\* What a value rests on is verified: following the bases of a verified value
\* leads to given values only.
ChainSound == \A x \in Names : \A y \in basis[x] : grade[y] = "VERIFIED"
=============================================================================
