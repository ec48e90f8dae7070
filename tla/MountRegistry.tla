--------------------------- MODULE MountRegistry ---------------------------
(***************************************************************************)
(* Which directories are mounts, and whether they still are the ones that  *)
(* were registered: the registration, reverification and deletion of       *)
(* mounts by administrators and at start-up, and the check of identity     *)
(* (internal/mountid) that every use of a mount begins with.               *)
(*                                                                         *)
(* A mount is a row that names a root path and remembers the identity of   *)
(* the directory that stood there, the entry of mountinfo it was reached   *)
(* by, and the kernel's id of that entry.  The host may put another        *)
(* directory behind a path, or the same one by another entry or under      *)
(* another id, at any time.  Registration and reverification hold one      *)
(* mutex; deletion, use and the host do not.                               *)
(***************************************************************************)

CONSTANTS
    Rows,           \* rows of `mounts` (ids are random)
    NoMount,        \* no row
    Roots,          \* root paths
    Unsteady,       \* bound: the root paths where the host changes something
    Nested,         \* pairs {p, q} of root paths, one inside the other
    Dirs,           \* directories, told apart by device and inode
    Vias,           \* entries of mountinfo, without their ids: device, root of
                    \* the bind, mount point, type and source
    Overlap,        \* pairs {v, w} of one device whose roots are equal or nested
    Ids,            \* kernel mount ids, which are given again
    NoDir,          \* nothing to be found behind a path
    Calls,          \* concurrent requests
    NoCall          \* nobody

ASSUME RegistryAssumption ==
    /\ Roots # {} /\ Unsteady \subseteq Roots
    /\ NoMount \notin Rows /\ NoDir \notin Dirs /\ NoCall \notin Calls

VARIABLES
    behind,     \* what stands behind each path
    row,        \* mounts: status, root path and identity ("none": free, or deleted)
    mutex,      \* mountRegistrationMu
    call        \* the requests: step and local variables

mountVars == <<behind, row, mutex, call>>

SomeRoot == CHOOSE p \in Roots : TRUE

Nothing == [dir |-> NoDir, via |-> NoDir, id |-> NoDir]
Sights == [dir : Dirs, via : Vias, id : Ids] \cup {Nothing}

\* `stale` is history: the identity was last written by a request whose view
\* of the row had been overtaken.
NoRow == [status |-> "none", root |-> SomeRoot, seen |-> Nothing, stale |-> FALSE]

\* A request remembers the row and path it is about, the identity it read in
\* the row, the one it captured, and the identities of the other mounts.
Free == [step |-> "free", row |-> NoMount, root |-> SomeRoot, stored |-> Nothing,
         seen |-> Nothing, known |-> {}, flag |-> FALSE]

OneEntryPerId(b) == \A p, q \in Roots : b[p].id = b[q].id => b[p].via = b[q].via

MountInit ==
    /\ behind \in [Roots -> Sights] /\ OneEntryPerId(behind)
    /\ row = [m \in Rows |-> NoRow]
    /\ mutex = NoCall
    /\ call = [c \in Calls |-> Free]

-----------------------------------------------------------------------------
Doing(c, step) == call[c].step = step
Finish(c) == call' = [call EXCEPT ![c] = Free]
Unlock(c) == mutex' = IF mutex = c THEN NoCall ELSE mutex

Fresh(m) == row[m].status = "none" /\ \A c \in Calls : call[c].row # m
Present(m) == row[m].status # "none"
IdentityOf(m) == [root |-> row[m].root, at |-> row[m].seen]

SamePaths(i, j) == i.root = j.root \/ {i.root, j.root} \in Nested

\* Mutant of Conflict: device and inode are not compared.
ConflictByPath(i, j) ==
    SamePaths(i, j) \/ (i.at.id # j.at.id /\ {i.at.via, j.at.via} \in Overlap)

\* CheckConflicts of one identity with another.  Overlapping binds are let pass
\* under one id: directories in one file system.
Conflict(i, j) ==
    \/ SamePaths(i, j)
    \/ i.at.dir = j.at.dir
    \/ i.at.id # j.at.id /\ {i.at.via, j.at.via} \in Overlap

\* The host: unmounts, mounts another directory, or recreates the container.
Remount(p, at) ==
    /\ behind' = [behind EXCEPT ![p] = at]
    /\ OneEntryPerId(behind')
    /\ UNCHANGED <<row, mutex, call>>

-----------------------------------------------------------------------------
(* Under the mutex: createMount, autoRegisterDockerMounts, reverifyMount.  *)

\* Mutant of StartRegister: createMount does not wait for the mutex.
StartRegisterUnlocked(c, m, p, auto) ==
    /\ Doing(c, "free")
    /\ Fresh(m)
    /\ mutex' = c
    /\ call' = [call EXCEPT ![c] = [Free EXCEPT !.step = "load", !.row = m, !.root = p,
                                                !.flag = auto]]
    /\ UNCHANGED <<behind, row>>

StartRegister(c, m, p, auto) ==
    /\ Doing(c, "free") /\ mutex = NoCall
    /\ Fresh(m)
    /\ mutex' = c
    /\ call' = [call EXCEPT ![c] = [Free EXCEPT !.step = "load", !.row = m, !.root = p,
                                                !.flag = auto]]
    /\ UNCHANGED <<behind, row>>

\* loadMountIdentities
LoadIdentities(c) ==
    /\ Doing(c, "load")
    /\ call' = [call EXCEPT ![c] = [@ EXCEPT !.step = "verify",
                                             !.known = {IdentityOf(m) : m \in {n \in Rows : Present(n)}}]]
    /\ UNCHANGED <<behind, row, mutex>>

\* reverifyMount loads the row, and of the identities those of other paths.
StartReverify(c, m) ==
    /\ Doing(c, "free") /\ mutex = NoCall
    /\ Present(m)
    /\ mutex' = c
    /\ call' = [call EXCEPT ![c] = [Free EXCEPT
            !.step = "reverify", !.row = m, !.root = row[m].root,
            !.known = {IdentityOf(n) : n \in {k \in Rows : Present(k) /\ row[k].root # row[m].root}}]]
    /\ UNCHANGED <<behind, row>>

\* VerifyCandidateRoot: the directory is there and conflicts with no mount.
AfterVerify == [verify |-> "insert", reverify |-> "update"]

VerifyCandidate(c) ==
    /\ call[c].step \in DOMAIN AfterVerify
    /\ LET at == behind[call[c].root] IN
        /\ at.dir # NoDir
        /\ \A i \in call[c].known : ~Conflict([root |-> call[c].root, at |-> at], i)
        /\ call' = [call EXCEPT ![c] = [call[c] EXCEPT
                !.step = AfterVerify[@], !.seen = at,
                !.known = IF call[c].flag THEN @ ELSE {}]]
    /\ UNCHANGED <<behind, row, mutex>>

\* The INSERT; a unique index keeps root paths of present mounts apart.
\* createMount is done, autoRegisterDockerMounts takes the next path and adds
\* the identity to those it has loaded.
InsertMount(c) ==
    /\ Doing(c, "insert")
    /\ \A n \in Rows : Present(n) => row[n].root # call[c].root
    /\ row' = [row EXCEPT ![call[c].row] =
            [status |-> "active", root |-> call[c].root, seen |-> call[c].seen, stale |-> FALSE]]
    /\ IF call[c].flag
       THEN /\ call' = [call EXCEPT ![c] = [call[c] EXCEPT !.step = "next",
                    !.known = @ \cup {[root |-> call[c].root, at |-> call[c].seen]}]]
            /\ UNCHANGED mutex
       ELSE Finish(c) /\ Unlock(c)
    /\ UNCHANGED behind

\* A candidate that fails, or is there already, is passed over.
NextCandidate(c, m, p) ==
    /\ call[c].flag /\ call[c].step \in {"verify", "insert", "next"}
    /\ Fresh(m)
    /\ call' = [call EXCEPT ![c] = [@ EXCEPT !.step = "verify", !.row = m, !.root = p]]
    /\ UNCHANGED <<behind, row, mutex>>

\* reverifyMount: unless the mount was deleted meanwhile, it is what stands at
\* its path now.
UpdateMount(c) ==
    /\ Doing(c, "update")
    /\ LET m == call[c].row IN
        row' = IF Present(m)
               THEN [row EXCEPT ![m] = [@ EXCEPT !.status = "active", !.seen = call[c].seen,
                                                 !.stale = FALSE]]
               ELSE row
    /\ Finish(c) /\ Unlock(c)
    /\ UNCHANGED behind

-----------------------------------------------------------------------------
(* Without the mutex: deleteMount and every use of a mount.                *)

\* softDeleteMount frees the path; nothing reads the row again.
DeleteMount(m) ==
    /\ Present(m)
    /\ row' = [row EXCEPT ![m] = NoRow]
    /\ UNCHANGED <<behind, mutex, call>>

\* loadMountForListing
StartUse(c, m) ==
    /\ Doing(c, "free")
    /\ row[m].status = "active"
    /\ call' = [call EXCEPT ![c] = [Free EXCEPT !.step = "capture", !.row = m,
                                        !.root = row[m].root, !.stored = row[m].seen]]
    /\ UNCHANGED <<behind, row, mutex>>

\* Mutant of Matches: another kernel mount id is another directory.
MatchesExactly(stored, seen) == stored = seen

\* mountIdentityMatches leaves kernel mount ids aside ...
Matches(stored, seen) == stored.dir = seen.dir /\ stored.via = seen.via

\* ... and mountIdentityNeedsRefresh looks at nothing else.  Looking at what is
\* behind the path may fail, whatever is there.
Capture(c) ==
    /\ Doing(c, "capture")
    /\ \E at \in {behind[call[c].root], Nothing} :
        LET next == IF ~Matches(call[c].stored, at) THEN "mark"
                    ELSE IF call[c].stored.id # at.id THEN "refresh" ELSE "free"
        IN IF next = "free" THEN Finish(c)
           ELSE call' = [call EXCEPT ![c] = [@ EXCEPT !.step = next, !.seen = at]]
    /\ UNCHANGED <<behind, row, mutex>>

\* markMountUnavailable: of a row that may have been reverified meanwhile.
MarkMount(c) ==
    /\ Doing(c, "mark")
    /\ row' = [row EXCEPT ![call[c].row].status = IF @ = "active" THEN "unavailable" ELSE @]
    /\ Finish(c)
    /\ UNCHANGED <<behind, mutex>>

\* refreshMountIdentity: likewise.
RefreshMount(c) ==
    /\ Doing(c, "refresh")
    /\ LET m == call[c].row IN
        row' = IF row[m].status = "active"
               THEN [row EXCEPT ![m] = [row[m] EXCEPT
                        !.seen = call[c].seen,
                        !.stale = @ \/ row[m].seen.dir # call[c].stored.dir]]
               ELSE row
    /\ Finish(c)
    /\ UNCHANGED <<behind, mutex>>

-----------------------------------------------------------------------------
\* A check fails, there are no more candidates, the client goes away or the
\* process is killed: the mutex is released.
AbortCall(c) ==
    /\ ~Doing(c, "free")
    /\ Finish(c) /\ Unlock(c)
    /\ UNCHANGED <<behind, row>>

MountNext ==
    \/ \E p \in Unsteady, at \in Sights : Remount(p, at)
    \/ \E c \in Calls, m \in Rows, p \in Roots, auto \in BOOLEAN : StartRegister(c, m, p, auto)
    \/ \E c \in Calls, m \in Rows, p \in Roots : NextCandidate(c, m, p)
    \/ \E m \in Rows : DeleteMount(m)
    \/ \E c \in Calls, m \in Rows : StartReverify(c, m) \/ StartUse(c, m)
    \/ \E c \in Calls :
        \/ LoadIdentities(c) \/ VerifyCandidate(c) \/ InsertMount(c) \/ UpdateMount(c)
        \/ Capture(c) \/ MarkMount(c) \/ RefreshMount(c) \/ AbortCall(c)

MountSpec == MountInit /\ [][MountNext]_mountVars

-----------------------------------------------------------------------------
MountSteps == {"free", "load", "verify", "insert", "next", "reverify", "update",
               "capture", "mark", "refresh"}
Locked == {"load", "verify", "insert", "next", "reverify", "update"}
Identities == [root : Roots, at : Sights]

MountTypeOK ==
    /\ behind \in [Roots -> Sights]
    /\ row \in [Rows -> [status : {"none", "active", "unavailable"}, root : Roots,
                         seen : Sights, stale : BOOLEAN]]
    /\ mutex \in Calls \cup {NoCall}
    /\ call \in [Calls -> [step : MountSteps, row : Rows \cup {NoMount}, root : Roots,
                           stored : Sights, seen : Sights, known : SUBSET Identities,
                           flag : BOOLEAN]]
    /\ \A c \in Calls : call[c].step # "free" => call[c].row \in Rows
    /\ \A c \in Calls : call[c].step \in Locked => mutex = c

Disjoint(i, j) == ~SamePaths(i, j) /\ i.at.dir # j.at.dir

\* No directory belongs to two mounts, under one path, under nested paths or
\* under two paths, however registrations, reverifications, deletions and the
\* host interleave; but for a mount whose identity a request has overwritten
\* with what it had captured before a reverification.  Nothing is said of
\* nested binds: a row may hold an id that is no longer, or now another's.
RootsDisjoint ==
    \A m, n \in Rows : m # n /\ Present(m) /\ Present(n) =>
        Disjoint(IdentityOf(m), IdentityOf(n)) \/ row[m].stale \/ row[n].stale

\* What stands at the path of a mount is what its row remembers: the directory,
\* by the entry of mountinfo.
Unmoved(m) ==
    /\ row[m].seen.dir = behind[row[m].root].dir
    /\ row[m].seen.via = behind[row[m].root].via

\* A mount becomes unavailable only when another directory stands at its path,
\* or none, or the same one by another entry of mountinfo: a new kernel mount
\* id alone does no harm.  Otherwise it was a request that had seen something
\* else than what is there, because it could not look or the host was quicker,
\* or one that was overtaken by a reverification after it had read the row.
OnlyDriftedUnavailable ==
    [][\A m \in Rows : row[m].status = "active" /\ row'[m].status = "unavailable" =>
            \/ ~Unmoved(m)
            \/ \E c \in Calls :
                /\ Doing(c, "mark") /\ call[c].row = m
                /\ \/ call[c].seen # behind[row[m].root]
                   \/ call[c].stored.dir # row[m].seen.dir
                   \/ call[c].stored.via # row[m].seen.via]_mountVars
=============================================================================
