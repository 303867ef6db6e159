------------------------ MODULE MCDeliveryPipeline ------------------------
EXTENDS DeliveryPipeline, TLC

CONSTANTS m1, m2, c1, c2, c3

OneMessage == {m1}
TwoMessages == {m1, m2}
TwoCopies == {c1, c2}
ThreeCopies == {c1, c2, c3}

(* m1 is a rum batch, m2 a log batch.                                      *)
TwoSignals == [m \in Message |-> IF m = m1 THEN "rum" ELSE "logs"]
OneSignal == [m \in Message |-> "rum"]

(* Slots are interchangeable.                                              *)
CopySymmetry == Permutations(Copy)
=============================================================================
