------------------------ MODULE MCTelemetryDelivery ------------------------
(* Small instances of the delivery pipeline: the boots, and the bounds     *)
(* each run sets in its .cfg.                                              *)
EXTENDS TelemetryDelivery

OneBoot == {1}
TwoBoots == {1, 2}
=============================================================================
