---------------------------- MODULE IndexWorker ----------------------------
(***************************************************************************)
(* The processes that drive the job queue: the background worker goroutine *)
(* (internal/server/index_worker.go) with its scheduler of catalog scans,  *)
(* the HTTP handlers enqueueIndexJob and runIndexJob, and the deletion,    *)
(* disabling and re-verification of mounts under their feet.               *)
(*                                                                         *)
(* Every database call is one step; a process keeps what it read in local  *)
(* variables between two calls.  A restart or a dropped client connection  *)
(* ends a process between any two calls and leaves the database as it is:  *)
(* the handler's writes, Fail included, use the canceled context too.      *)
(***************************************************************************)
EXTENDS JobStore

CONSTANTS
    Worker,         \* the background goroutine
    Handlers,       \* concurrent HTTP requests of administrators
    MaxInterrupts   \* bound: restarts and dropped connections

ASSUME WorkerAssumption == Worker \notin Handlers
ASSUME MaxInterruptsAssumption == MaxInterrupts \in Nat

\* Both places that enqueue a scan give it this priority.
ScanPriority == 100
ASSUME ScanPriorityAssumption == ScanPriority \in Priorities

Procs == {Worker} \cup Handlers

VARIABLES
    mounts,      \* rows of `mounts`: status and index_enabled
    entries,     \* rows of `catalog_entries`: the batches indexed per mount
    pc,          \* where a process is
    job,         \* the job a process runs (0: none)
    indexable,   \* what the process read: mount active, index enabled
    todo,        \* mounts a process is about to enqueue a scan for
    interrupts

procVars == <<pc, job, indexable, todo>>
vars == <<jobs, mounts, entries, pc, job, indexable, todo, interrupts>>

\* The steps of runCatalogScanBatch, in the order of the code.
BatchSteps == {"load", "verify", "scan", "requeue", "complete", "fail"}
Steps == {"idle", "mounts", "enqueue", "poll", "preverify", "claim"} \cup BatchSteps

MountStatus == {"active", "unavailable", "deleted"}

Init ==
    /\ JobsInit
    /\ mounts = [m \in Mounts |-> [status |-> "active", indexed |-> TRUE]]
    /\ entries = [m \in Mounts |-> {}]
    /\ pc = [p \in Procs |-> "idle"]
    /\ job = [p \in Procs |-> 0]
    /\ indexable = [p \in Procs |-> FALSE]
    /\ todo = [p \in Procs |-> {}]
    /\ interrupts = 0

Exists(m) == mounts[m].status # "deleted"
Indexable(m) == mounts[m].status = "active" /\ mounts[m].indexed
MountOf(p) == jobs[job[p]].mount
Holding(p) == pc[p] \in BatchSteps

Goto(p, step) == pc' = [pc EXCEPT ![p] = step]

\* UPDATE mounts SET status = 'unavailable' WHERE id = m AND status = 'active'
MarkUnavailable(m) ==
    mounts' = [mounts EXCEPT ![m].status = IF @ = "active" THEN "unavailable" ELSE @]

-----------------------------------------------------------------------------
(* The scheduler: enqueueCatalogScanJobs, run before a poll when due.      *)

\* The first query: the mounts that have no queued, running or paused job.
ReadActiveJobs ==
    /\ pc[Worker] = "idle"
    /\ todo' = [todo EXCEPT ![Worker] =
            {m \in Mounts : \A j \in JobIds : jobs[j].mount = m => jobs[j].status \notin Active}]
    /\ Goto(Worker, "mounts")
    /\ UNCHANGED <<jobs, mounts, entries, job, indexable, interrupts>>

\* The second query, later: of those, the active mounts with index enabled.
ReadMounts ==
    /\ pc[Worker] = "mounts"
    /\ todo' = [todo EXCEPT ![Worker] = {m \in @ : Indexable(m)}]
    /\ Goto(Worker, "enqueue")
    /\ UNCHANGED <<jobs, mounts, entries, job, indexable, interrupts>>

\* The administrator's enqueueIndexJob checks the mount, then inserts.
EnqueueRequest(p, m) ==
    /\ pc[p] = "idle"
    /\ Indexable(m)
    /\ todo' = [todo EXCEPT ![p] = {m}]
    /\ Goto(p, "enqueue")
    /\ UNCHANGED <<jobs, mounts, entries, job, indexable, interrupts>>

\* One INSERT of the scheduler's loop, or the handler's only one.
EnqueueScan(p) ==
    /\ pc[p] = "enqueue"
    /\ \E m \in todo[p], j \in JobIds :
        /\ Enqueue(j, m, ScanPriority)
        /\ todo' = [todo EXCEPT ![p] = @ \ {m}]
    /\ UNCHANGED <<mounts, entries, pc, job, indexable, interrupts>>

\* Nothing left to insert (or the bound on rows is reached).
EnqueueDone(p) ==
    /\ pc[p] = "enqueue"
    /\ todo[p] = {} \/ ~HasRoom
    /\ todo' = [todo EXCEPT ![p] = {}]
    /\ Goto(p, IF p = Worker THEN "poll" ELSE "idle")
    /\ UNCHANGED <<jobs, mounts, entries, job, indexable, interrupts>>

-----------------------------------------------------------------------------
(* Claiming a job: runNextJobBatch and runIndexJob.                        *)

\* Maintenance is not due: go straight to the poll.
SkipMaintenance ==
    /\ pc[Worker] = "idle"
    /\ Goto(Worker, "poll")
    /\ UNCHANGED <<jobs, mounts, entries, job, indexable, todo, interrupts>>

WorkerClaim ==
    /\ pc[Worker] = "poll"
    /\ \E j \in JobIds :
        /\ Claim(j)
        /\ job' = [job EXCEPT ![Worker] = j]
    /\ Goto(Worker, "load")
    /\ UNCHANGED <<mounts, entries, indexable, todo, interrupts>>

NothingToClaim ==
    /\ pc[Worker] = "poll"
    /\ ~SlotFree \/ \A j \in JobIds : ~Queued(j)
    /\ Goto(Worker, "idle")
    /\ UNCHANGED <<jobs, mounts, entries, job, indexable, todo, interrupts>>

\* runIndexJob reads the job and its mount; any existing row will do.
RunRequest(p, j) ==
    /\ pc[p] = "idle"
    /\ jobs[j].status # "absent"
    /\ Exists(jobs[j].mount)
    /\ job' = [job EXCEPT ![p] = j]
    /\ Goto(p, "preverify")
    /\ UNCHANGED <<jobs, mounts, entries, indexable, todo, interrupts>>

\* verifyLoadedMountIdentity before the claim: a drifted root is marked.
Preverify(p) ==
    /\ pc[p] = "preverify"
    /\ \/ Goto(p, "claim") /\ UNCHANGED <<mounts, job>>
       \/ /\ MarkUnavailable(MountOf(p))
          /\ Goto(p, "idle")
          /\ job' = [job EXCEPT ![p] = 0]
    /\ UNCHANGED <<jobs, entries, indexable, todo, interrupts>>

\* Mutant of InlineClaim: the row is taken whatever else is running.
InlineClaimUnchecked(p) ==
    /\ pc[p] = "claim"
    /\ jobs' = [jobs EXCEPT ![job[p]].status = "running"]
    /\ Goto(p, "load")
    /\ UNCHANGED <<mounts, entries, job, indexable, todo, interrupts>>

InlineClaim(p) ==
    /\ pc[p] = "claim"
    /\ ClaimByID(job[p])
    /\ Goto(p, "load")
    /\ UNCHANGED <<mounts, entries, job, indexable, todo, interrupts>>

\* job_not_claimed: another job is running or this one is not queued.
InlineClaimRefused(p) ==
    /\ pc[p] = "claim"
    /\ ~SlotFree \/ ~Queued(job[p])
    /\ Goto(p, "idle")
    /\ job' = [job EXCEPT ![p] = 0]
    /\ UNCHANGED <<jobs, mounts, entries, indexable, todo, interrupts>>

-----------------------------------------------------------------------------
(* One batch: runCatalogScanBatch.                                         *)

\* loadCatalogMount: a deleted mount is an error, any other state is kept.
LoadMount(p) ==
    /\ pc[p] = "load"
    /\ indexable' = [indexable EXCEPT ![p] = Indexable(MountOf(p))]
    /\ Goto(p, IF Exists(MountOf(p)) THEN "verify" ELSE "fail")
    /\ UNCHANGED <<jobs, mounts, entries, job, todo, interrupts>>

VerifyMount(p) ==
    /\ pc[p] = "verify"
    /\ \/ Goto(p, "scan") /\ UNCHANGED mounts
       \/ Goto(p, "fail") /\ MarkUnavailable(MountOf(p))
    /\ UNCHANGED <<jobs, entries, job, indexable, todo, interrupts>>

\* Mutant of NextBatch: the batch after the cursor is skipped.
NextBatchSkipping(p) == jobs[job[p]].cursor + 2

\* The cursor the claim returned.  No statement of the program changes the
\* cursor of a row while a process holds it, so it is read from the row.
NextBatch(p) == jobs[job[p]].cursor + 1

\* Mutant of ScanBatch: off by one, the last batch is not seen to be the last.
ScanBatchPastLast(p) ==
    /\ pc[p] = "scan"
    /\ indexable[p]
    /\ entries' = [entries EXCEPT ![MountOf(p)] = @ \cup {NextBatch(p)}]
    /\ Goto(p, IF NextBatch(p) > LastBatch THEN "complete" ELSE "requeue")
    /\ UNCHANGED <<jobs, mounts, job, indexable, todo, interrupts>>

\* ScanBatch: validate the mount as it was read, collect the next batch from
\* the file system and upsert its entries in one transaction.
ScanBatch(p) ==
    /\ pc[p] = "scan"
    /\ indexable[p]
    /\ entries' = [entries EXCEPT ![MountOf(p)] = @ \cup {NextBatch(p)}]
    /\ Goto(p, IF NextBatch(p) >= LastBatch THEN "complete" ELSE "requeue")
    /\ UNCHANGED <<jobs, mounts, job, indexable, todo, interrupts>>

\* ErrMountExcluded, an error of the walk, or a failed transaction.
ScanError(p) ==
    /\ pc[p] = "scan"
    /\ Goto(p, "fail")
    /\ UNCHANGED <<jobs, mounts, entries, job, indexable, todo, interrupts>>

EndBatch(p) ==
    /\ Goto(p, "idle")
    /\ job' = [job EXCEPT ![p] = 0]
    /\ indexable' = [indexable EXCEPT ![p] = FALSE]
    /\ UNCHANGED <<mounts, entries, todo, interrupts>>

RequeueJob(p) == pc[p] = "requeue" /\ Requeue(job[p], NextBatch(p)) /\ EndBatch(p)
CompleteJob(p) == pc[p] = "complete" /\ Complete(job[p]) /\ EndBatch(p)
FailJob(p) == pc[p] = "fail" /\ Fail(job[p]) /\ EndBatch(p)

-----------------------------------------------------------------------------
(* Administrators and the environment.                                     *)

\* softDeleteMount: one transaction (shares and uploads: other modules).
DeleteMount(m) ==
    /\ Exists(m)
    /\ mounts' = [mounts EXCEPT ![m].status = "deleted"]
    /\ entries' = [entries EXCEPT ![m] = {}]
    /\ CancelJobsOf(m)
    /\ UNCHANGED <<procVars, interrupts>>

\* renameMount with indexEnabled.
SetIndexEnabled(m) ==
    /\ Exists(m)
    /\ mounts' = [mounts EXCEPT ![m].indexed = ~@]
    /\ UNCHANGED <<jobs, entries, procVars, interrupts>>

ReverifyMount(m) ==
    /\ mounts[m].status = "unavailable"
    /\ mounts' = [mounts EXCEPT ![m].status = "active"]
    /\ UNCHANGED <<jobs, entries, procVars, interrupts>>

\* Any other request that finds the root drifted.
DriftSeenElsewhere(m) ==
    /\ mounts[m].status = "active"
    /\ MarkUnavailable(m)
    /\ UNCHANGED <<jobs, entries, procVars, interrupts>>

\* The client of an inline run goes away: the request's context is canceled.
Disconnect(p) ==
    /\ Holding(p)
    /\ interrupts < MaxInterrupts
    /\ interrupts' = interrupts + 1
    /\ Goto(p, "idle")
    /\ job' = [job EXCEPT ![p] = 0]
    /\ indexable' = [indexable EXCEPT ![p] = FALSE]
    /\ UNCHANGED <<jobs, mounts, entries, todo>>

\* A crash, or SIGTERM (which cancels the worker's context): the processes
\* are gone, the database stays, and start-up touches no row of `jobs`.
Restart ==
    /\ interrupts < MaxInterrupts
    /\ interrupts' = interrupts + 1
    /\ pc' = [p \in Procs |-> "idle"]
    /\ job' = [p \in Procs |-> 0]
    /\ indexable' = [p \in Procs |-> FALSE]
    /\ todo' = [p \in Procs |-> {}]
    /\ UNCHANGED <<jobs, mounts, entries>>

-----------------------------------------------------------------------------
Batch(p) ==
    \/ LoadMount(p) \/ VerifyMount(p) \/ ScanBatch(p) \/ ScanError(p)
    \/ RequeueJob(p) \/ CompleteJob(p) \/ FailJob(p)

WorkerLoop ==
    \/ ReadActiveJobs \/ ReadMounts \/ SkipMaintenance
    \/ WorkerClaim \/ NothingToClaim

HandlerStep(p) == Preverify(p) \/ InlineClaim(p) \/ InlineClaimRefused(p)

\* What a process does by itself once it has started.
Advance(p) ==
    \/ EnqueueScan(p) \/ EnqueueDone(p) \/ Batch(p)
    \/ p = Worker /\ WorkerLoop
    \/ p \in Handlers /\ HandlerStep(p)

Request(p) ==
    \/ \E m \in Mounts : EnqueueRequest(p, m)
    \/ \E j \in JobIds : RunRequest(p, j)
    \/ Disconnect(p)

MountChange(m) ==
    DeleteMount(m) \/ SetIndexEnabled(m) \/ ReverifyMount(m) \/ DriftSeenElsewhere(m)

Next ==
    \/ \E p \in Procs : Advance(p)
    \/ \E p \in Handlers : Request(p)
    \/ \E m \in Mounts : MountChange(m)
    \/ Restart

Spec == Init /\ [][Next]_vars

\* The goroutine and the running handlers keep taking steps; clients and
\* administrators owe nothing.
FairSpec == Spec /\ \A p \in Procs : WF_vars(Advance(p))

-----------------------------------------------------------------------------
TypeOK ==
    /\ JobsTypeOK
    /\ mounts \in [Mounts -> [status : MountStatus, indexed : BOOLEAN]]
    /\ entries \in [Mounts -> SUBSET (1 .. LastBatch)]
    /\ pc \in [Procs -> Steps]
    /\ job \in [Procs -> 0 .. MaxJobs]
    /\ indexable \in [Procs -> BOOLEAN]
    /\ todo \in [Procs -> SUBSET Mounts]
    /\ interrupts \in 0 .. MaxInterrupts

\* The store has no fencing: Complete, Requeue and Fail do not say whose claim
\* they end.  What makes that safe is that two processes never hold the same
\* job, not even one that was canceled while its batch was under way.
OneHolderPerJob ==
    \A p, q \in Procs : Holding(p) /\ Holding(q) /\ job[p] = job[q] => p = q

\* The checkpoint never runs ahead of the catalogue: the batches a row's
\* cursor counts are indexed, and a completed scan has indexed them all,
\* across yields, retries, restarts and competing runs of other jobs.
CheckpointCovered ==
    \A j \in JobIds :
        jobs[j].status \in {"queued", "running", "failed", "completed"}
            /\ Exists(jobs[j].mount) =>
        /\ 1 .. jobs[j].cursor \subseteq entries[jobs[j].mount]
        /\ jobs[j].status = "completed" => 1 .. LastBatch \subseteq entries[jobs[j].mount]

\* Once a mount is deleted no scan of it completes or advances any more,
\* neither one in flight at the deletion nor one enqueued from a stale read.
DeletedMountStopsScans ==
    [][\A j \in JobIds :
        jobs[j].status # "absent" /\ ~Exists(jobs[j].mount) =>
            /\ jobs'[j].cursor = jobs[j].cursor
            /\ jobs'[j].status = "completed" => jobs[j].status = "completed"]_vars

\* The processes use the table only through the store's operations.
ImplementsStore == StoreSpec

\* A running row that no process is working on.
OrphanRow ==
    \E j \in JobIds : Running(j) /\ \A p \in Procs : ~(Holding(p) /\ job[p] = j)

\* As long as no running row is orphaned, every queued job ends: it is not
\* starved by duplicates, inline runs, retries or the scheduler's new jobs.
JobsEnd ==
    \A j \in JobIds :
        Queued(j) ~> (jobs[j].status \in Terminal \/ OrphanRow)

-----------------------------------------------------------------------------
(* What the documentation says and the code does not do.                   *)

\* "After a restart tasks are recovered from the persisted state."
RunningJobsRecover == \A j \in JobIds : Running(j) ~> ~Running(j)
=============================================================================
