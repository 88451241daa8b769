------------------------------- MODULE Lists -------------------------------
(***************************************************************************)
(* Lists that the program builds by a loop with a test in it: a            *)
(* comprehension with an "if", or an append under a condition.             *)
(***************************************************************************)
EXTENDS Naturals, Sequences

\* The elements of s that are in S, in their order.
Kept(s, S) ==
    LET upto[i \in 0 .. Len(s)] ==
            IF i = 0 THEN << >>
            ELSE IF s[i] \in S THEN Append(upto[i - 1], s[i]) ELSE upto[i - 1]
    IN  upto[Len(s)]
=============================================================================
