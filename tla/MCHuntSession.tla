--------------------------- MODULE MCHuntSession ---------------------------
(***************************************************************************)
(* Five kinds of rows: an execution that prints its version, one with a    *)
(* version field, a request with a site, a message of the same fingerprint *)
(* that has the site too, and a monitor's generic row whose text names the *)
(* artifact and prints a version.                                          *)
(***************************************************************************)
EXTENDS HuntSessionProperties

Fact(fact, key, named, torlike, version, printed, site) ==
    [fact |-> fact, key |-> key, named |-> named, torlike |-> torlike,
     version |-> version, printed |-> printed, site |-> site]
MCFields ==
    [run     |-> Fact("process_execution", 1, TRUE,  TRUE,  0, 1, 0),
     install |-> Fact("software_artifact", 2, TRUE,  FALSE, 2, 0, 0),
     visit   |-> Fact("web_request",       3, FALSE, FALSE, 0, 0, 3),
     mail    |-> Fact("message_activity",  3, FALSE, FALSE, 0, 0, 3),
     monitor |-> Fact("generic_telemetry", 4, FALSE, TRUE,  0, 2, 0)]
MCMatches   == <<{"run"}, {"visit"}, {"monitor"}>>
MCOps       == {"software_inventory", "web_requests", "search_text"}
MCDirectOps == [software_version |-> <<"software_inventory">>, domain |-> <<"web_requests">>]
MCReturns   ==
    [software_inventory |-> {"install"}, web_requests |-> {"visit", "mail"},
     search_text |-> {"monitor", "visit"}, bind |-> {"run"}, answer |-> {"install", "visit"}]
=============================================================================
