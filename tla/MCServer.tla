------------------------------ MODULE MCServer ------------------------------
(* The job queue under arbitrary callers, and the control plane, side by   *)
(* side in one run: they share no state, so that one is at rest while the  *)
(* other runs.  Mounts are interchangeable, and so are administrators and  *)
(* backups; route groups are not, one is overridden.                       *)
EXTENDS JobStore, ControlPlane, TLC

CONSTANTS rest, mcp

OverrideOff == [g \in {mcp} |-> FALSE]
AllClosed == [g \in {rest, mcp} |-> FALSE]

VARIABLE focus

Init == JobsInit /\ ControlInit /\ focus \in {"jobs", "control"}

Next ==
    /\ \/ focus = "jobs" /\ StoreNext /\ UNCHANGED controlVars
       \/ focus = "control" /\ ControlNext /\ UNCHANGED jobs
    /\ UNCHANGED focus

Spec == Init /\ [][Next]_<<jobs, controlVars, focus>>

Symmetry == Permutations(Mounts) \cup Permutations(Admins) \cup Permutations(Backups)
=============================================================================
