--------------------------- MODULE MCShareAccess ---------------------------
(* TLC instance of ShareAccess: requests are interchangeable.               *)
EXTENDS ShareAccess, TLC

Symmetry == Permutations(Requests)
=============================================================================
