--------------------------- MODULE MCRecoveryProof ---------------------------
EXTENDS RecoveryProof

Thing(group, name, folder, body, needs) ==
  [group |-> group, name |-> name, folder |-> folder, body |-> body, needs |-> needs, id |-> 0]

Plain(group, name) == Thing(group, name, "", {name}, {})

AllPlaces == Projects \cup {"main"}

Destination(name, template) == Thing("destinations", name, "", {template}, {<<"templates", template>>})
Alert(name, destination) ==
  Thing("alerts", name, "", {"v1"}, {<<"streams", "rum">>, <<"destinations", destination>>})
Folder(name) == Thing("dashboards", name, "folders", {}, {})
Dashboard(title, folder, body) == Thing("dashboards", title, folder, body, {})
Stream(body) == Thing("streams", "rum", "", body, {})

Lab ==
  {Stream({"retention", "service"}), Plain("functions", "redact"), Plain("pipelines", "sanitize"),
   Folder("starters"), Dashboard("overview", "starters", {"v1"}),
   Plain("templates", "t1"), Destination("sink", "t1"), Alert("errors", "sink")}

(* The lab as it is provisioned, and labs of which something cannot be     *)
(* brought elsewhere.                                                      *)
MainLabs ==
  {Lab,
   (Lab \ {Stream({"retention", "service"})}) \cup {Stream({"retention", "original"})},
   Lab \cup {Folder("empty")},
   Lab \cup {Dashboard("overview", "starters", {"v2"}), Plain("templates", "t2"), Destination("mail", "t2")},
   Lab \ {Alert("errors", "sink")}}

(* What lab:streams:provision wants of the main lab.                       *)
StreamManifests == {Stream({"retention", "service", "env"})}

CompanyObjects == {Alert("errors", "sink"), Destination("sink", "t1")}

SourceFixture ==
  {Stream({"retention"}), Plain("functions", "redact"), Plain("pipelines", "sanitize"),
   Folder("fixture"), Dashboard("recovery", "fixture", {"v1"}), Plain("templates", "t1"),
   Destination("recovery", "t1"), [Alert("errors", "recovery") EXCEPT !.body = {"recovery"}]}
=============================================================================
