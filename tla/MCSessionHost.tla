--------------------------- MODULE MCSessionHost ---------------------------
(* The session host on small instances.                                    *)
EXTENDS SessionHost, TLC

(* Requests of one kind are interchangeable; sessions are not: their       *)
(* numbers are the order in which they were created.                       *)
RequestSymmetry == Permutations(Offers) \cup Permutations(Deletes)
=============================================================================
