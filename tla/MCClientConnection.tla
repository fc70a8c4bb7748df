-------------------------- MODULE MCClientConnection --------------------------
(* The two pages on small instances.                                       *)
EXTENDS ClientConnection
=============================================================================
