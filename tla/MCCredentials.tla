--------------------------- MODULE MCCredentials ---------------------------
(* Credentials on small sets.  Requests are alike.                         *)
EXTENDS Credentials, TLC

Symmetry == Permutations(Requests)
=============================================================================
