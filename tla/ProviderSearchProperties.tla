----------------------- MODULE ProviderSearchProperties -----------------------
(***************************************************************************)
(* What a search of a provider guarantees, whatever is indexed, lost       *)
(* or given up while it runs, and the statements it does not keep.         *)
(***************************************************************************)
EXTENDS ProviderSearch

Result == [ok : BOOLEAN, complete : BOOLEAN, rows : Seq(Rows), next : Nat,
           reason : {"rejected", "broken", "client_timeout_cancelled_sid",
                     "done", "finalized"}]

\* Every variable keeps its type (contracts/queries.py QueryResult).
TypeOK ==
    /\ stored \in 0..MaxStored /\ settled \in BOOLEAN
    /\ job \in [Sids -> [state : {"none", "running", "done", "finalized"},
                          rows : Seq(Rows)]]
    /\ phase \in {"idle", "ready", "waiting", "cancelling", "page", "controls"}
    /\ op \in Ops /\ mode \in {"walk", "test", "hunt"} /\ offset \in Nat
    /\ asked \in [stored : 0..MaxStored, settled : BOOLEAN]
    /\ pages \in Seq(Result) /\ Len(pages) <= MaxPages
    /\ searches \in 0..MaxSearches
    /\ licensed \subseteq [settled : BOOLEAN, cut : BOOLEAN]

Read == UNION {Range(pages[i].rows) : i \in DOMAIN pages}
Served == \A i \in DOMAIN pages : pages[i].reason = "done"
Paged == Form[op] \in {"records", "evidence"}

\* Pages join but for one row, the one the first page fetched to see that
\* there is a second: the next page may drop it (tail turns its rows around,
\* and the cut takes the end).  Whatever is indexed between two pages of one
\* search, of the records there were at the start and are no older than one
\* that was read, no other is left out; of an SQL query none is.  Records that
\* come while the search walks may be passed over.  Candidates join, but for
\* that row, while nothing is indexed: a record moves its candidate to the
\* front, past pages already read.
PagesJoin ==
    Served =>
        /\ Paged => \A r \in Read : \A s \in (r..asked.stored) \ Read :
                       s = Last(pages[1].rows) - 1
        /\ Form[op] = "sql" => \A r \in Read : 1..r \subseteq Read
        /\ Form[op] = "candidates" /\ stored = asked.stored =>
              LET newest   == Dedup(Newest(stored))
                  first(k) == Range(FirstRows(newest, k))
              IN  \E k \in 0..Len(newest) :
                     Read \subseteq first(k) /\ \A c \in first(k) \ Read : c = newest[Limit + 1]

\* The L+1 rule: a result called complete, of a job that ran to its end,
\* holds every record, or every candidate, there was when it began.  Outbound
\* messages are fetched by a limit of their own and left out.
CompleteIsWhole ==
    pages # << >> /\ Page.complete /\ Served /\ Form[op] # "outbound" =>
        /\ {Named[r] : r \in 1..asked.stored} \subseteq {Named[r] : r \in Read}
        /\ Form[op] # "candidates" => 1..asked.stored \subseteq Read

\* The controls run after the query they license.  A negative is one of a
\* query that was asked when the window's ingestion was over, and whose job
\* ran to its end, only if there is no record.
LicensedIsAbsent ==
    (\E l \in licensed : l.settled /\ ~l.cut) => stored = 0

\* Every search ends, and no job outlives its search for good: the server
\* ends what the client did not cancel.
Termination == <>[](phase = "idle" /\ Running = {})

-----------------------------------------------------------------------------
(* Statements of the repository that its code does not keep.               *)

\* "Window reaches into the unsettled ingestion lag period" (controls.py):
\* then "negative evidence cannot be licensed".
NegativeIsSettled == licensed # {} => settled
=============================================================================
