--------------------------- MODULE MCIndexWorker ---------------------------
(* TLC instance of IndexWorker: mounts and handlers are interchangeable. *)
EXTENDS IndexWorker, TLC

Symmetry == Permutations(Mounts) \cup Permutations(Handlers)
=============================================================================
