------------------------ MODULE MCMonitoringDelivery ------------------------
(* Model-checking instance of MonitoringDelivery: another product's outbox   *)
(* sends the first identity with other bytes.                                *)
EXTENDS MonitoringDelivery

MCForeign == {[id |-> "run1", payload |-> "b"]}
=============================================================================
