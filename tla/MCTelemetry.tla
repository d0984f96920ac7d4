---------------------------- MODULE MCTelemetry ----------------------------
(* TLC instance of a fan-out with a TraceCollector attached. *)
EXTENDS MCCheckedCalls, Telemetry
=============================================================================
