---------------------------- MODULE ProviderSearch ----------------------------
(***************************************************************************)
(* Searches of one provider scope: a search is a walk over pages           *)
(* (planner/semantic_executor.py) or one query and, when it is empty, the  *)
(* three controls of m5_adapter/controls.py that may license a negative.   *)
(* The provider is Splunk (m5_adapter/splunk_adapter.py), whose server     *)
(* runs a job while the client waits or gives up, or an SQLite file        *)
(* (m5_adapter/cdb_adapter.py).  Meanwhile records are being indexed.      *)
(*                                                                         *)
(* The records of the window that match are 1..stored, the newest last;    *)
(* Splunk returns the newest first and SQLite the oldest.                  *)
(***************************************************************************)
EXTENDS Integers, FiniteSets, Sequences, SequencesExt, FiniteSetsExt

CONSTANTS
    Ops,
    Form,         \* op -> how its query is written
    Named,        \* record -> the account, endpoint or site it names
    Limit, WideLimit,
    MaxStored, MaxPages, MaxSearches

ASSUME SearchAssumption ==
    /\ Ops # {} /\ Form \in [Ops -> {"candidates", "records", "evidence", "text",
                         "identity", "outbound", "sql"}]
    /\ DOMAIN Named = 1..MaxStored
    /\ Limit \in Nat \ {0} /\ WideLimit \in Nat \ {0} /\ MaxStored \in Nat
    /\ MaxPages \in Nat \ {0} /\ MaxSearches \in Nat \ {0}

VARIABLES
    stored,       \* records indexed so far
    settled,      \* the window ended longer ago than the ingestion lag
    job,          \* sid -> its state on the server, the rows for its client;
                  \* nothing is kept of a job that was answered or ended
    phase,        \* of the client
    op,           \* of the search
    mode,         \* who searches: the plan executor walks over pages, a test
                  \* of the orchestrator or of the hunt asks once
    offset,
    asked,        \* what held when the search began
    pages,        \* results of the search
    searches,     \* searches begun
    licensed      \* negatives: what held when they were asked

server == <<stored, settled>>
vars   == <<server, job, phase, op, mode, offset, asked, pages, searches, licensed>>

Sids == 1..(MaxPages * MaxSearches)
Rows == 1..MaxStored
NoJob == [state |-> "none", rows |-> << >>]
Running == {s \in Sids : job[s].state = "running"}

Init ==
    /\ stored \in 0..MaxStored /\ settled \in BOOLEAN
    /\ job = [s \in Sids |-> NoJob]
    /\ phase = "idle" /\ op = (CHOOSE o \in Ops : TRUE) /\ mode = "walk"
    /\ offset = 0 /\ pages = << >> /\ searches = 0 /\ licensed = {}
    /\ asked = [stored |-> 0, settled |-> FALSE]

-----------------------------------------------------------------------------
(* The text of a search: which of its rows a page asks for.                *)

FirstRows(rows, k) == SubSeq(rows, 1, Min({k, Len(rows)}))

\* tail begins at the end.
LastRows(rows, k)  == Reverse(SubSeq(rows, Max({1, Len(rows) - k + 1}), Len(rows)))

\* page_clause of _build_spl and _build_runtime_source_spl.  On every page
\* after the first the row beyond the limit stands first, and is kept; the
\* row the page should begin with stands last, and is cut.
PageClause(rows, from) ==
    IF from <= 0 THEN FirstRows(rows, Limit + 1)
    ELSE LastRows(FirstRows(rows, from + Limit + 1), Limit + 1)

\* Lookups of accounts, endpoints and sites keep the newest record of each
\* (the first that names it) and page through those; other relations page
\* through the records.
Dedup(rows) ==
    LET kept[n \in 0..Len(rows)] ==
            IF n = 0 THEN << >>
            ELSE IF Named[rows[n]] \in {Named[rows[i]] : i \in 1..(n - 1)} THEN kept[n - 1]
            ELSE Append(kept[n - 1], rows[n])
    IN  kept[Len(rows)]
CandidateSearch(rows, from) == PageClause(Dedup(rows), from)
RecordSearch(rows, from)    == PageClause(rows, from)

\* Evidence of one kind, by manifest or by source name, and the audited
\* sources of runtime capabilities.
EvidenceSearch(rows, from)  == PageClause(rows, from)

\* Full text, samples and identities do not page: each page is the first.
TextSearch(rows)            == FirstRows(rows, Limit + 1)
IdentitySearch(rows)        == FirstRows(rows, Limit + 1)

\* Outbound messages are cut at a limit of their own.
OutboundSearch(rows)        == FirstRows(rows, Max({Limit + 1, WideLimit}))

\* _build_spl
Search(o, rows, from) ==
    CASE Form[o] = "candidates" -> CandidateSearch(rows, from)
      [] Form[o] = "records"    -> RecordSearch(rows, from)
      [] Form[o] = "evidence"   -> EvidenceSearch(rows, from)
      [] Form[o] = "text"       -> TextSearch(rows)
      [] Form[o] = "identity"   -> IdentitySearch(rows)
      [] Form[o] = "outbound"   -> OutboundSearch(rows)

\* SQL has an offset.
SqlPage(rows, from) == SubSeq(rows, from + 1, Min({from + Limit + 1, Len(rows)}))

TargetLimit(o) == IF Form[o] = "outbound" THEN Max({Limit, WideLimit}) ELSE Limit

Oldest(n) == [i \in 1..n |-> i]
Newest(n) == [i \in 1..n |-> n + 1 - i]

-----------------------------------------------------------------------------
(* The server.                                                             *)

NextSid == (searches - 1) * MaxPages + Len(pages) + 1
Ended(state, rows) == [state |-> state, rows |-> Search(op, rows, offset)]

\* A record of the window is indexed late, until the lag is over.
Arrive ==
    /\ ~settled /\ stored < MaxStored
    /\ stored' = stored + 1
    /\ UNCHANGED <<settled, job, phase, op, mode, offset, asked, pages, searches, licensed>>

Settle ==
    /\ ~settled /\ settled' = TRUE
    /\ UNCHANGED <<stored, job, phase, op, mode, offset, asked, pages, searches, licensed>>

\* A job ends with all its rows, or at dispatch.max_time with those it has
\* by then.  Nobody reads the rows of a job whose client has gone.
Run(s) ==
    /\ job[s].state = "running"
    /\ IF phase = "waiting" /\ s = NextSid
       THEN \/ job' = [job EXCEPT ![s] = Ended("done", Newest(stored))]
            \/ \E n \in 0..stored :
                  job' = [job EXCEPT ![s] = Ended("finalized", FirstRows(Newest(stored), n))]
       ELSE job' = [job EXCEPT ![s] = NoJob]
    /\ UNCHANGED <<server, phase, op, mode, offset, asked, pages, searches, licensed>>

-----------------------------------------------------------------------------
(* The client.                                                             *)

Failed(reason) == [ok |-> FALSE, complete |-> FALSE, rows |-> << >>, next |-> 0,
                   reason |-> reason]

\* Mutant: the cursor counts the row that was fetched to see the next page.
AnswerSkipping(rows, reason) ==
    [ok |-> TRUE, complete |-> Len(rows) <= TargetLimit(op), reason |-> reason,
     rows |-> FirstRows(rows, TargetLimit(op)), next |-> offset + TargetLimit(op) + 1]

\* Mutant: one row too many still counts as the end.
AnswerLoose(rows, reason) ==
    [ok |-> TRUE, complete |-> Len(rows) <= TargetLimit(op) + 1, reason |-> reason,
     rows |-> FirstRows(rows, TargetLimit(op)), next |-> offset + TargetLimit(op)]

\* The L+1 rule: one row more than the limit means that there are others.
Answer(rows, reason) ==
    [ok |-> TRUE, complete |-> Len(rows) <= TargetLimit(op), reason |-> reason,
     rows |-> FirstRows(rows, TargetLimit(op)), next |-> offset + TargetLimit(op)]

\* A new search begins at its first page.
Begin ==
    /\ phase = "idle" /\ searches < MaxSearches
    /\ searches' = searches + 1
    /\ op' \in Ops /\ mode' \in {"walk", "test", "hunt"} /\ phase' = "ready"
    /\ asked' = [stored |-> stored, settled |-> settled]
    /\ UNCHANGED <<server, job, offset, pages, licensed>>

\* SQLite answers at once, or raises.
Select ==
    /\ phase = "ready" /\ Form[op] = "sql"
    /\ \E result \in {Answer(SqlPage(Oldest(stored), offset), "done"), Failed("broken")} :
          pages' = Append(pages, result)
    /\ phase' = "page"
    /\ UNCHANGED <<server, job, op, mode, offset, asked, searches, licensed>>

Submit ==
    /\ phase = "ready" /\ Form[op] # "sql"
    /\ job' = [job EXCEPT ![NextSid].state = "running"]
    /\ phase' = "waiting"
    /\ UNCHANGED <<server, op, mode, offset, asked, pages, searches, licensed>>

\* A candidate the gate rejects, or a runtime source that is not this one's.
Reject ==
    /\ phase = "ready"
    /\ pages' = Append(pages, Failed("rejected")) /\ phase' = "page"
    /\ UNCHANGED <<server, job, op, mode, offset, asked, searches, licensed>>

Receive ==
    /\ phase = "waiting" /\ job[NextSid].state \in {"done", "finalized"}
    /\ pages' = Append(pages, Answer(job[NextSid].rows, job[NextSid].state)) /\ phase' = "page"
    /\ job' = [job EXCEPT ![NextSid] = NoJob]
    /\ UNCHANGED <<server, op, mode, offset, asked, searches, licensed>>

\* The client goes: a job that was created runs on, or there is none.
Left ==
    LET ended == [job EXCEPT ![NextSid] = NoJob]
    IN  IF job[NextSid].state = "running" THEN {job, ended} ELSE {ended}

\* The server answers with an error, or the connection breaks.
Break ==
    /\ phase = "waiting"
    /\ job' \in Left
    /\ pages' = Append(pages, Failed("broken")) /\ phase' = "page"
    /\ UNCHANGED <<server, op, mode, offset, asked, searches, licensed>>

GiveUp ==
    /\ phase = "waiting" /\ phase' = "cancelling"
    /\ UNCHANGED <<server, job, op, mode, offset, asked, pages, searches, licensed>>

\* Mutant: a cancellation that fails is sent again.
CancelRetrying ==
    /\ phase = "cancelling"
    /\ \/ /\ job' = [job EXCEPT ![NextSid] = NoJob]
          /\ pages' = Append(pages, Failed("client_timeout_cancelled_sid")) /\ phase' = "page"
       \/ UNCHANGED <<job, pages>> /\ phase' = "waiting"
    /\ UNCHANGED <<server, op, mode, offset, asked, searches, licensed>>

\* cancel_search_job: the job may have ended, and the request may fail.
Cancel ==
    /\ phase = "cancelling"
    /\ job' \in Left
    /\ pages' = Append(pages, Failed("client_timeout_cancelled_sid")) /\ phase' = "page"
    /\ UNCHANGED <<server, op, mode, offset, asked, searches, licensed>>

-----------------------------------------------------------------------------
(* The page loop of the executor, and the controls after an empty query.   *)

Page == Last(pages)

\* Complete, failed, seen before, without a next page, or out of pages.
PageStops ==
    \/ Page.complete \/ ~Page.ok \/ mode # "walk"
    \/ \E i \in 1..(Len(pages) - 1) : pages[i].rows = Page.rows
    \/ Page.next <= offset \/ Page.rows = << >>
    \/ Len(pages) = MaxPages

Turn ==
    /\ phase = "page" /\ ~PageStops
    /\ offset' = Page.next /\ phase' = "ready"
    /\ UNCHANGED <<server, job, op, mode, asked, pages, searches, licensed>>

\* The caller takes the result.
Return ==
    /\ phase' = "idle" /\ pages' = << >> /\ offset' = 0
    /\ asked' = [stored |-> 0, settled |-> FALSE]

\* A test without rows goes on to the controls.
Finish ==
    /\ phase = "page" /\ PageStops
    /\ IF mode # "walk" /\ Page.rows = << >>
       THEN phase' = "controls" /\ UNCHANGED <<pages, offset, asked>>
       ELSE Return
    /\ UNCHANGED <<server, job, op, mode, searches, licensed>>

\* control_health: reachable (SQLite always is), and the window's ingestion
\* is over.  The hunt asks as of an hour after the window's end at least,
\* when it always is.
Healthy(reachable) == reachable /\ (settled \/ mode = "hunt")

\* Mutant: a query that failed is a negative when the controls pass.
LicenseWithoutQuery(healthy, records, observable) ==
    /\ Page.rows = << >> /\ healthy /\ records > 0 /\ observable

\* license_valid_negative
License(healthy, records, observable) ==
    /\ Page.ok /\ Page.complete /\ Page.rows = << >>
    /\ healthy /\ records > 0 /\ observable

Controls ==
    /\ phase = "controls"
    /\ \E reachable, observable \in BOOLEAN, records \in 0..1 :
          licensed' = IF License(Healthy(reachable), records, observable)
                      THEN licensed \cup {[settled |-> asked.settled, cut |-> Page.reason = "finalized"]}
                      ELSE licensed
    /\ Return
    /\ UNCHANGED <<server, job, op, mode, searches>>

Client == Begin \/ Select \/ Submit \/ Reject \/ Receive \/ Break \/ GiveUp \/ Cancel
              \/ Turn \/ Finish \/ Controls
Serve == \E s \in Sids : Run(s)
Next == Client \/ Serve \/ Arrive \/ Settle

Spec == Init /\ [][Next]_vars
\* requests returns or times out (60 s), and dispatch.max_time ends a job.
FairSpec == Spec /\ WF_vars(Client) /\ \A s \in Sids : WF_vars(Run(s))
=============================================================================
