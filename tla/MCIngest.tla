------------------------------ MODULE MCIngest ------------------------------
(* The ingest path on small instances.  A behaviour explores one scenario:  *)
(* who calls, and which rule table is edited and expires meanwhile.         *)
EXTENDS Traffic

CONSTANTS r1, v1, w1, p1, h1
VARIABLE scenario

MCRequests == {r1, v1, w1, p1}
Spot(id, offers) ==
  [id |-> id, is |-> {"readable", "advert", "complete", "retitled"}, offers |-> offers]
Known == Spot("a", {"table", "builtin"})
Signed == [Spot("b", {"explicit", "filename"}) EXCEPT !.is = @ \ {"advert"}]
Undated == [Spot("c", {}) EXCEPT !.is = {}]
MCBatches == {<<>>, <<Known>>, <<Known, Signed>>, <<Known, Undated, Signed>>}

Scenarios == {[who |-> {r1, w1}, edited |-> "rules"],
              [who |-> {v1}, edited |-> "titles"],
              [who |-> {p1, h1}, edited |-> "rules"]}

Init ==
  /\ scenario \in Scenarios
  /\ TrafficInit /\ ConnInit
  /\ \A t \in Tables \ {scenario.edited} : content[t] = 1
Next ==
  /\ TrafficNext
  /\ \A r \in MCRequests \ scenario.who : req'[r] = req[r]
  /\ \A p \in Probes \ scenario.who : probe'[p] = probe[p]
  /\ \A t \in Tables \ {scenario.edited} : content'[t] = content[t] /\ (fresh[t] => fresh'[t])
  /\ UNCHANGED scenario
vars == <<trafficVars, connVars, scenario>>

Spec == Init /\ [][Next]_vars /\ TrafficFairness
=============================================================================
