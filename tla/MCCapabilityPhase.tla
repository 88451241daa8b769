-------------------------- MODULE MCCapabilityPhase --------------------------
(***************************************************************************)
(* Two providers with a source each; a graph whose goals share a relation  *)
(* and need a way over the person's host, one that lists a goal before the *)
(* goal it depends on, a claim and a text.                                 *)
(***************************************************************************)
EXTENDS CapabilityPhaseProperties

Op(id, relation, input, output, proof, legacy) ==
    [id |-> id, relations |-> {relation}, inputs |-> {input}, outputs |-> <<output>>,
     supports |-> {}, cost |-> 1, proof |-> proof, scoped |-> TRUE, legacy |-> legacy]
Goal(id, relation, subject, object, keys) ==
    [id |-> id, relation |-> relation, subject |-> subject, object |-> object,
     keys |-> keys, required |-> TRUE]
Graph(kind, goals) ==
    [kind |-> kind, goals |-> goals, known |-> {"p"},
     type |-> [v \in {"p", "h", "f", "d"} |->
                 CASE v = "p" -> "person" [] v = "h" -> "device"
                   [] v = "f" -> "file"   [] v = "d" -> "domain"]]

MCProviders == <<"splunk", "cdb">>
MCOwner     == [s1 |-> "splunk", c1 |-> "cdb"]
MCSynonyms  == {{"device", "host"}}
MCDeclared  ==
    [splunk |-> <<Op(1, "uses", "person", "host", TRUE, FALSE),
                  Op(2, "wrote", "host", "file", TRUE, FALSE),
                  Op(3, "visited", "host", "domain", FALSE, FALSE)>>,
     cdb    |-> <<Op(4, "wrote", "person", "file", FALSE, TRUE)>>]
MCGraphs ==
    {Graph("native", <<Goal("g1", "wrote", "p", "f", {}),
                       Goal("g2", "wrote", "p", "f", {"when"})>>),
     Graph("native", <<Goal("g3", "visited", "h", "d", {}), Goal("g4", "uses", "p", "h", {})>>),
     Graph("claims", <<Goal("g6", "uses", "p", "h", {})>>),
     Graph("text", << >>)}
MCHints     == {{}, {"cdb"}}
MCCensuses  == {[splunk |-> "ONLINE", cdb |-> "ONLINE"],
                [splunk |-> "ONLINE", cdb |-> "UNREACHABLE"],
                [splunk |-> "UNREACHABLE", cdb |-> "UNSUPPORTED"]}
MCSupports  == [full |-> {"when"}, thin |-> {}]
MCAssigns   == [full |-> {"actor", "artifact"}, thin |-> {"actor"}]
MCContracts == {[relation |-> "wrote", requires |-> {"actor", "artifact"}, approved |-> TRUE],
                [relation |-> "visited", requires |-> {"actor"}, approved |-> FALSE]}

=============================================================================
