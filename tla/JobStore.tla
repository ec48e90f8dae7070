------------------------------ MODULE JobStore ------------------------------
(***************************************************************************)
(* The durable job queue of internal/jobs: the `jobs` table and the        *)
(* operations of jobs.Store on it.  The database has one connection, so    *)
(* every operation (one statement or one transaction) is one step.         *)
(*                                                                         *)
(* A row is numbered by its place in the created_at order (the clock is    *)
(* taken to advance between two inserts).  claimed_by, claimed_at and      *)
(* last_error are left out: no statement reads them.  A new row starts     *)
(* without a checkpoint and with the default max_attempts, as every caller *)
(* has it.  The specification at the end is the contract of the package:   *)
(* any caller may invoke any operation at any time.                        *)
(***************************************************************************)
EXTENDS Naturals, FiniteSets

CONSTANTS
    MaxJobs,      \* bound: rows ever inserted
    Mounts,       \* the mounts a job's payload can name
    Priorities,   \* the priorities callers use; the smallest is served first
    MaxAttempts,  \* max_attempts of every row (3 unless a caller says so)
    LastBatch     \* a checkpoint's cursor counts the batches already indexed

ASSUME MaxJobsAssumption == MaxJobs \in Nat
ASSUME PrioritiesAssumption == Priorities \subseteq Nat
ASSUME MaxAttemptsAssumption == MaxAttempts \in Nat \ {0}
ASSUME LastBatchAssumption == LastBatch \in Nat \ {0}

VARIABLE jobs

JobIds == 1 .. MaxJobs
Cursors == 0 .. LastBatch
NoMount == "none"

Active == {"queued", "running", "paused"}
Terminal == {"completed", "failed", "canceled"}

Row == [status : {"absent"} \cup Active \cup Terminal,
        mount : Mounts \cup {NoMount},
        priority : Priorities \cup {0},
        cursor : Cursors,
        attempts : 0 .. MaxAttempts]

EmptyRow == [status |-> "absent", mount |-> NoMount, priority |-> 0,
             cursor |-> 0, attempts |-> 0]

JobsInit == jobs = [j \in JobIds |-> EmptyRow]

-----------------------------------------------------------------------------
Queued(j) == jobs[j].status = "queued"
Running(j) == jobs[j].status = "running"

\* NOT EXISTS (SELECT 1 FROM jobs WHERE status = 'running')
SlotFree == \A j \in JobIds : ~Running(j)

\* A new row takes the first free number; the bound leaves room for one.
IsNextId(j) == /\ jobs[j].status = "absent"
               /\ \A k \in 1 .. (j - 1) : jobs[k].status # "absent"
HasRoom == \E j \in JobIds : IsNextId(j)

\* ORDER BY priority ASC, created_at ASC
Precedes(j, k) == \/ jobs[j].priority < jobs[k].priority
                  \/ jobs[j].priority = jobs[k].priority /\ j < k

\* UPDATE jobs SET ... WHERE id = j AND status IN (allowed)
UpdateWhere(j, allowed, row) ==
    jobs' = [jobs EXCEPT ![j] = IF @.status \in allowed THEN row ELSE @]

-----------------------------------------------------------------------------
Enqueue(j, m, p) ==
    /\ IsNextId(j)
    /\ jobs' = [jobs EXCEPT ![j] = [status |-> "queued", mount |-> m, priority |-> p,
                                    cursor |-> 0, attempts |-> 0]]

Claim(j) ==
    /\ SlotFree
    /\ Queued(j)
    /\ \A k \in JobIds \ {j} : Queued(k) => Precedes(j, k)
    /\ jobs' = [jobs EXCEPT ![j].status = "running"]

\* Mutant of ClaimByID: the slot is not checked.
ClaimByIDWithoutSlot(j) ==
    /\ Queued(j)
    /\ jobs' = [jobs EXCEPT ![j].status = "running"]

\* Mutant of ClaimByID: the slot is checked, the status of the row is not.
ClaimByIDAnyStatus(j) ==
    /\ SlotFree
    /\ jobs' = [jobs EXCEPT ![j].status = "running"]

ClaimByID(j) ==
    /\ SlotFree
    /\ Queued(j)
    /\ jobs' = [jobs EXCEPT ![j].status = "running"]

SaveCheckpoint(j, c) ==
    UpdateWhere(j, {"running"}, [jobs[j] EXCEPT !.cursor = c])

Requeue(j, c) ==
    UpdateWhere(j, {"running"}, [jobs[j] EXCEPT !.status = "queued", !.cursor = c])

Pause(j) ==
    UpdateWhere(j, {"queued", "running"}, [jobs[j] EXCEPT !.status = "paused"])

Resume(j) ==
    UpdateWhere(j, {"paused"}, [jobs[j] EXCEPT !.status = "queued"])

\* Mutant of Complete: no condition on the status.
CompleteAnyStatus(j) ==
    UpdateWhere(j, Active \cup Terminal, [jobs[j] EXCEPT !.status = "completed"])

Complete(j) ==
    UpdateWhere(j, {"running"}, [jobs[j] EXCEPT !.status = "completed"])

\* Mutant of Fail: the attempt is counted, but no attempt is the last one.
FailForever(j) ==
    UpdateWhere(j, {"running"}, [jobs[j] EXCEPT !.attempts = @ + 1, !.status = "queued"])

\* Mutant of Fail: the attempt is not counted.
FailUncounted(j) ==
    UpdateWhere(j, {"running"}, [jobs[j] EXCEPT !.status = "queued"])

\* Mutant of Fail: off by one, one attempt too many.
FailLate(j) ==
    UpdateWhere(j, {"running"},
        [jobs[j] EXCEPT
            !.attempts = @ + 1,
            !.status = IF jobs[j].attempts >= MaxAttempts THEN "failed" ELSE "queued"])

Fail(j) ==
    UpdateWhere(j, {"running"},
        [jobs[j] EXCEPT
            !.attempts = @ + 1,
            !.status = IF jobs[j].attempts + 1 >= MaxAttempts THEN "failed" ELSE "queued"])

\* The statement by which the deletion of a mount cancels the mount's jobs.
CancelJobsOf(m) ==
    jobs' = [j \in JobIds |->
                IF jobs[j].mount = m /\ jobs[j].status \in Active
                THEN [jobs[j] EXCEPT !.status = "canceled"]
                ELSE jobs[j]]

-----------------------------------------------------------------------------
StoreNext ==
    \/ \E j \in JobIds, m \in Mounts, p \in Priorities : Enqueue(j, m, p)
    \/ \E j \in JobIds : Claim(j) \/ ClaimByID(j)
    \/ \E j \in JobIds, c \in Cursors : SaveCheckpoint(j, c) \/ Requeue(j, c)
    \/ \E j \in JobIds : Pause(j) \/ Resume(j)
    \/ \E j \in JobIds : Complete(j) \/ Fail(j)
    \/ \E m \in Mounts : CancelJobsOf(m)

StoreSpec == JobsInit /\ [][StoreNext]_jobs

-----------------------------------------------------------------------------
\* The table holds well-formed rows, whatever the callers do.
JobsTypeOK == jobs \in [JobIds -> Row]

\* At most one row is running: both claims re-check the slot inside their
\* transaction, and Resume and Requeue go back through the queue.
AtMostOneRunning ==
    \A j, k \in JobIds : Running(j) /\ Running(k) => j = k

\* A row fails permanently exactly when its attempts are used up, and a row
\* that can still be claimed has an attempt left: retries are bounded.
AttemptsBounded ==
    \A j \in JobIds :
        /\ jobs[j].status \in {"queued", "running", "paused"} => jobs[j].attempts < MaxAttempts
        /\ jobs[j].status = "failed" => jobs[j].attempts = MaxAttempts

\* A completed, failed or canceled row never changes again, however late the
\* report of a worker that still holds it arrives.
TerminalRowsFinal ==
    [][\A j \in JobIds : jobs[j].status \in Terminal => jobs'[j] = jobs[j]]_jobs
=============================================================================
