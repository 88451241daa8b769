--------------------------- MODULE MCOrchestrator ---------------------------
(***************************************************************************)
(* Small instances of Orchestrator: two scopes, a few observations, and a  *)
(* model that can propose the responses below.                             *)
(***************************************************************************)
EXTENDS OrchestratorProperties

CONSTANTS l1, l2, h1, h2, x1, x2, e1, e2

\* Registry order differs from id order, so SAMPLE and EXPAND differ too.
MCScopeOrder == <<2, 1>>

LOCAL Claim(id, class, cites, pos) ==
    [id |-> id, class |-> class, cites |-> cites, pos |-> pos]
LOCAL TestIn(scope, owner, req, pos) ==
    [owner |-> owner, req |-> req, entity |-> e1, scope |-> scope,
     inWindow |-> TRUE, pos |-> pos]
LOCAL Test(owner, req, pos) == TestIn(1, owner, req, pos)
LOCAL None == [i \in {} |-> i]

\* One malicious hypothesis with two tests, one of which no provider answers.
Accuse ==
    [expls |-> [l \in {l1} |-> Claim(h1, "malicious", {}, 1)],
     exps  |-> [x \in {x1, x2} |->
                   IF x = x1 THEN Test(h1, "process_ancestry", 1)
                             ELSE Test(h1, "web_request", 2)]]

\* Two classes at once, a test for each.
Weigh ==
    [expls |-> [l \in {l1, l2} |-> IF l = l1 THEN Claim(h1, "malicious", {1}, 1)
                                             ELSE Claim(h2, "benign", {}, 2)],
     exps  |-> [x \in {x1, x2} |->
                   IF x = x1 THEN Test(h1, "process_ancestry", 1)
                             ELSE Test(h2, "process_ancestry", 2)]]

\* Two classes, both tests against the malicious one; the first of them asks
\* for a requirement no provider answers.
Contest ==
    [expls |-> [l \in {l1, l2} |-> IF l = l1 THEN Claim(h1, "malicious", {}, 1)
                                             ELSE Claim(h2, "benign", {}, 2)],
     exps  |-> [x \in {x1, x2} |->
                   IF x = x1 THEN Test(h1, "process_ancestry", 2)
                             ELSE Test(h1, "web_request", 1)]]

\* Labels, an id and a test id that may be used already, the id for another
\* label; the test names no scope.
Reuse ==
    [expls |-> [l \in {l1, l2} |-> IF l = l1 THEN Claim(h2, "benign", {}, 1)
                                             ELSE Claim(h1, "unknown", {}, 2)],
     exps  |-> [x \in {x1} |-> TestIn(NoScope, h1, "process_ancestry", 1)]]

\* A well-formed response that proposes nothing.
Nothing == [expls |-> None, exps |-> None]

MCResponses == {Accuse, Weigh, Contest, Reuse, Nothing}
=============================================================================
