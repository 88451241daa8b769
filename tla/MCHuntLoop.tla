----------------------------- MODULE MCHuntLoop -----------------------------
(***************************************************************************)
(* A small hunt: a web attack and its benign baseline; the request names a *)
(* site, a host serves it, a user ran the process, and a file event names  *)
(* an address no requirement can be asked of.  Files are searched by a     *)
(* scan of the scope, and no query is planned for the baseline.            *)
(***************************************************************************)
EXTENDS HuntLoopProperties

CONSTANTS attack, benign, web, proc, file, base, site, host, user, ip, w1, w2, p1, p2, f1,
          gw, gp, gf

MCBound ==
    <<<<attack, web>>, <<attack, proc>>, <<attack, file>>, <<benign, base>>>>
MCOrder == <<web, proc, file, base>>
MCOwner == [r \in Requirements |-> IF r = base THEN benign ELSE attack]
MCType ==
    (web :> "web") @@ (proc :> "process") @@ (file :> "file") @@ (base :> "scope")
MCAsked == <<site>>
MCCompatible ==
    {<<site, web>>, <<user, proc>>} \cup ({host} \X {proc, file, base})
MCUnplannable == {host} \X {base}
\* The user and the command come in two rows of one process; the web server's
\* own group also has a row that is taken for a process.
MCRow ==
    (w1 :> [host |-> host, others |-> {site}, source |-> "web", kind |-> "web",
            meets |-> {web}, group |-> gw, time |-> 1]) @@
    (w2 :> [host |-> host, others |-> {site}, source |-> "web", kind |-> "process",
            meets |-> {web}, group |-> gw, time |-> 2]) @@
    (p1 :> [host |-> host, others |-> {user}, source |-> "process", kind |-> "process",
            meets |-> {}, group |-> gp, time |-> 2]) @@
    (p2 :> [host |-> host, others |-> {}, source |-> "process", kind |-> "process",
            meets |-> {proc}, group |-> gp, time |-> 4]) @@
    (f1 :> [host |-> host, others |-> {ip}, source |-> "file", kind |-> "file",
            meets |-> {file}, group |-> gf, time |-> 3])
=============================================================================
