---------------------------- MODULE MCTelemetry ----------------------------
(* Instances of Telemetry with two interfaces. *)
EXTENDS Telemetry, TLC

CONSTANTS e1, e2

Symmetric == Permutations({e1, e2})
=============================================================================
