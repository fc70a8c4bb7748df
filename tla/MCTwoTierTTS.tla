---------------------------- MODULE MCTwoTierTTS ----------------------------
(* The speaking service on small instances.                                *)
EXTENDS TwoTierTTS
=============================================================================
