---------------------------- MODULE MCClaimLoop ----------------------------
(***************************************************************************)
(* A person, the account of the person, the endpoint the account used, a   *)
(* file changed on it, and an optional claim about the person's address.   *)
(* Two rows name different accounts, two are states of one file.           *)
(***************************************************************************)
EXTENDS ClaimLoopProperties, TLC

CONSTANTS acc, host, change, mail, ann, acct1, acct2, pc, doc, addr,
          r1, r2, e1, e2, who, what

No == [fits |-> FALSE, source |-> NoValue, target |-> NoValue]
Yes(s, t) == [fits |-> TRUE, source |-> s, target |-> t]
Other == [r \in Rows |-> No]

MCReads ==
    (acc :> [Other EXCEPT ![r1] = Yes(ann, acct1), ![r2] = Yes(NoValue, acct2)]) @@
    (host :> [Other EXCEPT ![r1] = Yes(acct1, pc), ![r2] = Yes(acct2, pc),
                           ![e1] = Yes(acct1, pc)]) @@
    (change :> Other) @@
    (mail :> [Other EXCEPT ![r2] = Yes(ann, addr), ![e2] = Yes(NoValue, addr)])
NoEvent == [time |-> 0, artefact |-> NoValue, state |-> NoValue]
MCEvent ==
    (r1 :> NoEvent) @@ (r2 :> [NoEvent EXCEPT !.time = 3, !.artefact = doc]) @@
    (e1 :> [time |-> 1, artefact |-> doc, state |-> pc]) @@
    (e2 :> [time |-> 2, artefact |-> doc, state |-> addr])
MCNeeds == [c \in Claims |-> 1]
MCSubject ==
    (acc :> NoClaim) @@ (host :> acc) @@ (change :> host) @@ (mail :> NoClaim)
MCInput == [c \in Claims |-> ann]
MCObject == [c \in Claims |-> IF c = mail THEN addr ELSE NoValue]
MCKind ==
    (acc :> "account") @@ (host :> "endpoint") @@ (change :> "artefact") @@
    (mail :> "email_address")
MCRank == (change :> 1) @@ (host :> 2) @@ (mail :> 3) @@ (acc :> 4)
MCRequires ==
    (acc :> {who}) @@ (host :> {who}) @@ (change :> {what}) @@ (mail :> {})
=============================================================================
