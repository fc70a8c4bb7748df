-------------------------- MODULE MCTurnMeasurement --------------------------
(* Sessions measured from both ends on small instances.                    *)
EXTENDS TurnMeasurement
=============================================================================
