------------------------ MODULE MCAnalyticsPipeline ------------------------
(* Small instances of AnalyticsPipeline for TLC. *)
EXTENDS AnalyticsPipeline, TLC

CONSTANTS p1, p2

OneProducer == {p1}
TwoProducers == {p1, p2}

ProducerSymmetry == Permutations(TwoProducers)
=============================================================================
