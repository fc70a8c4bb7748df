----------------------------- MODULE MCRobotFace -----------------------------
(* The robot's face on small instances.                                    *)
EXTENDS RobotFace
=============================================================================
