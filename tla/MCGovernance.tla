---------------------------- MODULE MCGovernance ----------------------------
EXTENDS Governance, TLC

CONSTANTS a, b, i1, i2, i3, service, env, rum, k1, k2

Starters == <<a, b>>
Identifiers == {i1, i2, i3}
IdentifierSymmetry == Permutations(Identifiers)

(* An export of a starter, and one of a starter that was renamed, with an  *)
(* object of the same title after it.                                      *)
ImportBatches ==
  {<<[title |-> a, marker |-> a]>>,
   <<[title |-> Own, marker |-> a], [title |-> Own, marker |-> NoMarker]>>}

CanonicalStreams == <<rum>>
DistinctNames == <<service, env>>

Lab == [retention |-> 1, original |-> FALSE, index |-> "empty", distinct |-> <<service, env>>]

(* The lab's manifest, one of defaults, and manifests edited to want what  *)
(* may not be written or cannot be had.                                    *)
StreamManifests ==
  {Lab, Fresh, [Lab EXCEPT !.original = TRUE], [Lab EXCEPT !.index = "custom"],
   [Lab EXCEPT !.distinct = <<env, service>>], [Lab EXCEPT !.distinct = <<>>]}

CanaryRecords ==
  {{<<"required", "plain", 1>>}, {<<"required", "secret", 1>>},
   {<<"required", "plain", 1>>, <<"forbidden", "plain", 1>>},
   {<<"required", "plain", 1>>, <<"unknown", "plain", 1>>},
   {<<"required", "plain", 1>>, <<"unknown", "plain", 1>>, <<"unknown", "plain", 2>>},
   {<<"required", "plain", 1>>, <<"foreign", "plain", 1>>},
   {<<"known", "query", 1>>}}

BrowserCanaries == {{}, CanaryRecords} \cup {{r} : r \in CanaryRecords}

AlertPolicies ==
  {[threshold |-> 1, recovery |-> 0, breaches |-> 2, healthy |-> 2, cooldown |-> 2],
   [threshold |-> 1, recovery |-> 1, breaches |-> 1, healthy |-> 1, cooldown |-> 3],
   [threshold |-> 1, recovery |-> Unstated, breaches |-> 0, healthy |-> Unstated, cooldown |-> 1]}

(* Bound: counters are followed one further than the policies ask.         *)
CountersFollowed == alert.breaches <= 3 /\ healed <= 3
=============================================================================
