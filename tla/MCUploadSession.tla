-------------------------- MODULE MCUploadSession --------------------------
(* TLC instance of UploadSession: requests and uploads are interchangeable. *)
EXTENDS UploadSession, TLC

Symmetry == Permutations(Requests) \cup Permutations(Uploads)

\* No step reads `accepted`, or `number` but to enter it there: states that
\* differ only there behave alike.
WithoutAccepted ==
    <<row, asked, disk, file, mount, writable, published, withdrawn,
      [r \in Requests |-> [req[r] EXCEPT !.number = 1]]>>

\* Bound: while requests are under way, one thing at a time stands in their way:
\* the access, the time or another's file at a target.
OneTrouble ==
    \/ \A r \in Requests : At(r, "idle")
    \/ Cardinality({t \in {"access", "time", "file"} :
                      CASE t = "access" -> ~MayWrite
                        [] t = "time" -> \E u \in Uploads : row[u].overdue
                        [] t = "file" -> \E v \in Targets : file[v].by = Others}) <= 1
=============================================================================
