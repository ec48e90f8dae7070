------------------------- MODULE IndexWorkerProofs -------------------------
(***************************************************************************)
(* Proofs about the job store under arbitrary callers, and about the       *)
(* worker, the handlers and the mounts that call it, for every number of   *)
(* jobs, mounts, handlers, batches, attempts and interruptions.            *)
(***************************************************************************)
EXTENDS IndexWorker, TLAPS

USE MaxJobsAssumption, PrioritiesAssumption, MaxAttemptsAssumption, LastBatchAssumption

-----------------------------------------------------------------------------
(* The job store.                                                          *)

\* The statement UPDATE ... WHERE id = j AND status IN (allowed) changes row j
\* to `row` when its status is allowed, and no other row.
LEMMA UpdateWhereEffect ==
    ASSUME JobsTypeOK, NEW j \in JobIds, NEW allowed, NEW row, UpdateWhere(j, allowed, row)
    PROVE  /\ jobs[j].status \in allowed => jobs'[j] = row
           /\ jobs[j].status \notin allowed => jobs' = jobs
           /\ \A k \in JobIds \ {j} : jobs'[k] = jobs[k]
           /\ DOMAIN jobs' = JobIds
<1>1. jobs \in [JobIds -> Row]
  BY DEF JobsTypeOK
<1>2. jobs' = [jobs EXCEPT ![j] = IF jobs[j].status \in allowed THEN row ELSE jobs[j]]
  BY DEF UpdateWhere
<1>3. jobs[j].status \notin allowed => jobs' = jobs
  BY <1>1, <1>2
<1> QED BY <1>1, <1>2, <1>3

\* A guarded update with a well-formed row keeps the table well-formed.
LEMMA UpdateWhereType ==
    ASSUME JobsTypeOK, NEW j \in JobIds, NEW allowed, NEW row,
           UpdateWhere(j, allowed, row), jobs[j].status \in allowed => row \in Row
    PROVE  JobsTypeOK'
BY DEF JobsTypeOK, UpdateWhere

LEMMA RowFields ==
    ASSUME JobsTypeOK, NEW j \in JobIds
    PROVE  /\ jobs[j] \in Row
           /\ jobs[j].status \in {"absent", "queued", "running", "paused",
                                  "completed", "failed", "canceled"}
           /\ jobs[j].attempts \in 0 .. MaxAttempts
           /\ jobs[j].cursor \in Cursors
           /\ jobs[j].mount \in Mounts \cup {NoMount}
BY DEF JobsTypeOK, Row, Active, Terminal

-----------------------------------------------------------------------------
\* The inductive invariant: the three facts support one another, because Fail
\* counts an attempt only on a running row that has one left.
StoreInv == JobsTypeOK /\ AtMostOneRunning /\ AttemptsBounded

LEMMA StoreInvInit == JobsInit => StoreInv
<1> SUFFICES ASSUME JobsInit PROVE StoreInv
  OBVIOUS
<1>1. JobsTypeOK
  BY DEF JobsInit, JobsTypeOK, Row, EmptyRow, Cursors, Active, Terminal
<1>2. AtMostOneRunning /\ AttemptsBounded
  BY DEF JobsInit, AtMostOneRunning, AttemptsBounded, EmptyRow, Running
<1> QED BY <1>1, <1>2 DEF StoreInv

LEMMA EnqueueInv ==
    ASSUME StoreInv, NEW j \in JobIds, NEW m \in Mounts, NEW p \in Priorities, Enqueue(j, m, p)
    PROVE  StoreInv'
<1> DEFINE row == [status |-> "queued", mount |-> m, priority |-> p,
                   cursor |-> 0, attempts |-> 0]
<1>1. jobs' = [jobs EXCEPT ![j] = row]
  BY DEF Enqueue
<1>2. row \in Row
  BY DEF Row, Active, Cursors
<1> HIDE DEF row
<1>3. JobsTypeOK'
  BY <1>1, <1>2 DEF StoreInv, JobsTypeOK
<1>4. row.status = "queued" /\ row.attempts = 0
  BY DEF row
<1>5. AtMostOneRunning' /\ AttemptsBounded'
  BY <1>1, <1>4 DEF StoreInv, JobsTypeOK, AtMostOneRunning, AttemptsBounded, Running
<1> QED BY <1>3, <1>5 DEF StoreInv

LEMMA ClaimInv ==
    ASSUME StoreInv, NEW j \in JobIds, ClaimByID(j)
    PROVE  StoreInv'
<1>1. jobs' = [jobs EXCEPT ![j] = [jobs[j] EXCEPT !.status = "running"]]
  BY DEF ClaimByID
<1>2. jobs[j].status = "queued" /\ \A k \in JobIds : jobs[k].status # "running"
  BY DEF ClaimByID, SlotFree, Queued, Running
<1> DEFINE row == [jobs[j] EXCEPT !.status = "running"]
<1>3. row \in Row /\ row.status = "running" /\ row.attempts = jobs[j].attempts
  BY RowFields DEF StoreInv, Row, Active
<1> HIDE DEF row
<1>4. JobsTypeOK'
  BY <1>1, <1>3 DEF StoreInv, JobsTypeOK, row
<1>5. \A k \in JobIds : jobs'[k] = IF k = j THEN row ELSE jobs[k]
  BY <1>1 DEF StoreInv, JobsTypeOK, row
<1>6. AtMostOneRunning' /\ AttemptsBounded'
  BY <1>2, <1>3, <1>5 DEF StoreInv, AtMostOneRunning, AttemptsBounded, Running
<1> QED BY <1>4, <1>6 DEF StoreInv

\* A guarded update keeps the invariant when the new row is well-formed,
\* is not running unless the old row was, and respects the attempt bound.
LEMMA UpdateWhereInv ==
    ASSUME StoreInv, NEW j \in JobIds, NEW allowed, NEW row, UpdateWhere(j, allowed, row),
           jobs[j].status \in allowed =>
             /\ row \in Row
             /\ row.status = "running" => jobs[j].status = "running"
             /\ row.status \in {"queued", "running", "paused"} => row.attempts < MaxAttempts
             /\ row.status = "failed" => row.attempts = MaxAttempts
    PROVE  StoreInv'
<1>1. JobsTypeOK'
  BY UpdateWhereType DEF StoreInv
<1>2. CASE jobs[j].status \notin allowed
  <2>1. jobs' = jobs
    BY <1>2, UpdateWhereEffect DEF StoreInv
  <2> QED BY <2>1, <1>1 DEF StoreInv, AtMostOneRunning, AttemptsBounded, Running
<1>3. CASE jobs[j].status \in allowed
  <2>1. jobs'[j] = row /\ \A k \in JobIds \ {j} : jobs'[k] = jobs[k]
    BY <1>3, UpdateWhereEffect DEF StoreInv
  <2>2. AtMostOneRunning'
    BY <1>3, <2>1 DEF StoreInv, AtMostOneRunning, Running
  <2>3. AttemptsBounded'
    BY <1>3, <2>1 DEF StoreInv, AttemptsBounded
  <2> QED BY <1>1, <2>2, <2>3 DEF StoreInv
<1> QED BY <1>2, <1>3

LEMMA FailInv ==
    ASSUME StoreInv, NEW j \in JobIds, Fail(j)
    PROVE  StoreInv'
<1> DEFINE s == IF jobs[j].attempts + 1 >= MaxAttempts THEN "failed" ELSE "queued"
           n == jobs[j].attempts + 1
           row == [jobs[j] EXCEPT !.attempts = n, !.status = s]
<1>1. UpdateWhere(j, {"running"}, row)
  BY DEF Fail
<1>2. ASSUME jobs[j].status = "running"
      PROVE  /\ row \in Row
             /\ row.status = "running" => jobs[j].status = "running"
             /\ row.status \in {"queued", "running", "paused"} => row.attempts < MaxAttempts
             /\ row.status = "failed" => row.attempts = MaxAttempts
  <2>1. jobs[j].attempts \in 0 .. MaxAttempts /\ jobs[j].attempts < MaxAttempts
    BY <1>2, RowFields DEF StoreInv, AttemptsBounded
  <2>2. /\ n \in 0 .. MaxAttempts
        /\ s \in {"failed", "queued"}
        /\ s = "queued" => n < MaxAttempts
        /\ s = "failed" => n = MaxAttempts
    BY <2>1
  <2>3. jobs[j] \in Row
    BY RowFields DEF StoreInv
  <2> HIDE DEF s, n
  <2>4. row \in Row /\ row.status = s /\ row.attempts = n
    BY <2>2, <2>3 DEF Row, Active, Terminal
  <2> QED BY <2>2, <2>4
<1> HIDE DEF row
<1> QED BY <1>1, <1>2, UpdateWhereInv

LEMMA CancelInv ==
    ASSUME StoreInv, NEW m \in Mounts, CancelJobsOf(m)
    PROVE  StoreInv'
<1>1. \A j \in JobIds : \/ jobs'[j] = jobs[j]
                        \/ jobs'[j] = [jobs[j] EXCEPT !.status = "canceled"]
  BY DEF CancelJobsOf
<1>2. DOMAIN jobs' = JobIds /\ jobs' = [j \in JobIds |-> jobs'[j]]
  BY DEF CancelJobsOf
<1>3. \A j \in JobIds : [jobs[j] EXCEPT !.status = "canceled"] \in Row
  BY RowFields DEF StoreInv, Row, Terminal
<1>4. JobsTypeOK'
  BY <1>1, <1>2, <1>3 DEF StoreInv, JobsTypeOK
<1>5. \A j \in JobIds : jobs'[j] = jobs[j] \/ jobs'[j].status = "canceled"
  BY <1>1, RowFields DEF StoreInv, Row
<1>6. AtMostOneRunning' /\ AttemptsBounded'
  BY <1>5 DEF StoreInv, AtMostOneRunning, AttemptsBounded, Running
<1> QED BY <1>4, <1>6 DEF StoreInv

\* The remaining operations change the status, the cursor or both of one row.
LEMMA StatusUpdateInv ==
    ASSUME StoreInv, NEW j \in JobIds, NEW c \in Cursors,
           \/ SaveCheckpoint(j, c) \/ Requeue(j, c) \/ Pause(j) \/ Resume(j) \/ Complete(j)
    PROVE  StoreInv'
<1>1. /\ jobs[j] \in Row
      /\ jobs[j].status \in {"queued", "running", "paused"} => jobs[j].attempts < MaxAttempts
  BY RowFields DEF StoreInv, AttemptsBounded
<1>2. CASE SaveCheckpoint(j, c)
  <2> DEFINE row == [jobs[j] EXCEPT !.cursor = c]
  <2>1. row \in Row /\ row.status = jobs[j].status /\ row.attempts = jobs[j].attempts
    BY <1>1 DEF Row
  <2>2. UpdateWhere(j, {"running"}, row)
    BY <1>2 DEF SaveCheckpoint
  <2> HIDE DEF row
  <2> QED BY <1>1, <2>1, <2>2, UpdateWhereInv
<1>3. CASE Requeue(j, c)
  <2> DEFINE row == [jobs[j] EXCEPT !.status = "queued", !.cursor = c]
  <2>1. row \in Row /\ row.status = "queued" /\ row.attempts = jobs[j].attempts
    BY <1>1 DEF Row, Active
  <2>2. UpdateWhere(j, {"running"}, row)
    BY <1>3 DEF Requeue
  <2> HIDE DEF row
  <2> QED BY <1>1, <2>1, <2>2, UpdateWhereInv
<1>4. CASE Pause(j)
  <2> DEFINE row == [jobs[j] EXCEPT !.status = "paused"]
  <2>1. row \in Row /\ row.status = "paused" /\ row.attempts = jobs[j].attempts
    BY <1>1 DEF Row, Active
  <2>2. UpdateWhere(j, {"queued", "running"}, row)
    BY <1>4 DEF Pause
  <2> HIDE DEF row
  <2> QED BY <1>1, <2>1, <2>2, UpdateWhereInv
<1>5. CASE Resume(j)
  <2> DEFINE row == [jobs[j] EXCEPT !.status = "queued"]
  <2>1. row \in Row /\ row.status = "queued" /\ row.attempts = jobs[j].attempts
    BY <1>1 DEF Row, Active
  <2>2. UpdateWhere(j, {"paused"}, row)
    BY <1>5 DEF Resume
  <2> HIDE DEF row
  <2> QED BY <1>1, <2>1, <2>2, UpdateWhereInv
<1>6. CASE Complete(j)
  <2> DEFINE row == [jobs[j] EXCEPT !.status = "completed"]
  <2>1. row \in Row /\ row.status = "completed" /\ row.attempts = jobs[j].attempts
    BY <1>1 DEF Row, Terminal
  <2>2. UpdateWhere(j, {"running"}, row)
    BY <1>6 DEF Complete
  <2> HIDE DEF row
  <2> QED BY <1>1, <2>1, <2>2, UpdateWhereInv
<1> QED BY <1>2, <1>3, <1>4, <1>5, <1>6

LEMMA StoreInvStep == StoreInv /\ [StoreNext]_jobs => StoreInv'
<1> SUFFICES ASSUME StoreInv, [StoreNext]_jobs PROVE StoreInv'
  OBVIOUS
<1>1. ASSUME NEW j \in JobIds, NEW m \in Mounts, NEW p \in Priorities, Enqueue(j, m, p)
      PROVE StoreInv'
  BY <1>1, EnqueueInv
<1>2. ASSUME NEW j \in JobIds, Claim(j) \/ ClaimByID(j)
      PROVE StoreInv'
  BY <1>2, ClaimInv DEF Claim, ClaimByID
<1>3. ASSUME NEW j \in JobIds, NEW c \in Cursors, SaveCheckpoint(j, c) \/ Requeue(j, c)
      PROVE StoreInv'
  BY <1>3, StatusUpdateInv
<1>4. ASSUME NEW j \in JobIds, Pause(j) \/ Resume(j) \/ Complete(j)
      PROVE StoreInv'
  <2>1. 0 \in Cursors
    BY DEF Cursors
  <2> QED BY <1>4, <2>1, StatusUpdateInv
<1>5. ASSUME NEW j \in JobIds, Fail(j)
      PROVE StoreInv'
  BY <1>5, FailInv
<1>6. ASSUME NEW m \in Mounts, CancelJobsOf(m)
      PROVE StoreInv'
  BY <1>6, CancelInv
<1>7. CASE UNCHANGED jobs
  BY <1>7 DEF StoreInv, JobsTypeOK, AtMostOneRunning, AttemptsBounded, Running
<1> QED BY <1>1, <1>2, <1>3, <1>4, <1>5, <1>6, <1>7 DEF StoreNext

\* The invariant holds of every use of the store.
LEMMA StoreInvariant == StoreSpec => []StoreInv
BY StoreInvInit, StoreInvStep, PTL DEF StoreSpec

\* Whatever is called, the table holds well-formed rows.
THEOREM StoreTypeCorrect == StoreSpec => []JobsTypeOK
BY StoreInvariant, PTL DEF StoreInv

\* Single concurrency: two rows are never running together.
THEOREM SingleRunningRow == StoreSpec => []AtMostOneRunning
BY StoreInvariant, PTL DEF StoreInv

\* Retries are bounded by max_attempts and a failed row has used them all.
THEOREM BoundedRetries == StoreSpec => []AttemptsBounded
BY StoreInvariant, PTL DEF StoreInv

-----------------------------------------------------------------------------
\* No call touches a row that has reached a terminal status.
LEMMA TerminalStep ==
    ASSUME JobsTypeOK, StoreNext, NEW t \in JobIds, jobs[t].status \in Terminal
    PROVE  jobs'[t] = jobs[t]
<1>1. ASSUME NEW j \in JobIds, NEW allowed \in SUBSET Active, NEW row, UpdateWhere(j, allowed, row)
      PROVE jobs'[t] = jobs[t]
  <2>1. CASE j = t
    BY <1>1, <2>1, UpdateWhereEffect DEF Active, Terminal
  <2>2. CASE j # t
    BY <1>1, <2>2, UpdateWhereEffect
  <2> QED BY <2>1, <2>2
<1>2. {"running"} \in SUBSET Active /\ {"paused"} \in SUBSET Active
      /\ {"queued", "running"} \in SUBSET Active
  BY DEF Active
<1>3. ASSUME NEW j \in JobIds, NEW m \in Mounts, NEW p \in Priorities, Enqueue(j, m, p)
      PROVE jobs'[t] = jobs[t]
  BY <1>3 DEF Enqueue, IsNextId, JobsTypeOK, Terminal
<1>4. ASSUME NEW j \in JobIds, Claim(j) \/ ClaimByID(j)
      PROVE jobs'[t] = jobs[t]
  BY <1>4 DEF Claim, ClaimByID, Queued, JobsTypeOK, Terminal
<1>5. ASSUME NEW j \in JobIds, NEW c \in Cursors, SaveCheckpoint(j, c) \/ Requeue(j, c)
      PROVE jobs'[t] = jobs[t]
  BY <1>1, <1>2, <1>5 DEF SaveCheckpoint, Requeue
<1>6. ASSUME NEW j \in JobIds, Pause(j) \/ Resume(j) \/ Complete(j) \/ Fail(j)
      PROVE jobs'[t] = jobs[t]
  BY <1>1, <1>2, <1>6 DEF Pause, Resume, Complete, Fail
<1>7. ASSUME NEW m \in Mounts, CancelJobsOf(m)
      PROVE jobs'[t] = jobs[t]
  BY <1>7 DEF CancelJobsOf, Active, Terminal
<1> QED BY <1>3, <1>4, <1>5, <1>6, <1>7 DEF StoreNext

\* A finished job stays as it finished: no late report revives or rewrites it.
THEOREM FinishedJobsStay == StoreSpec => TerminalRowsFinal
<1>1. JobsTypeOK /\ [StoreNext]_jobs
        => [\A j \in JobIds : jobs[j].status \in Terminal => jobs'[j] = jobs[j]]_jobs
  BY TerminalStep
<1> QED BY <1>1, StoreTypeCorrect, PTL DEF StoreSpec, TerminalRowsFinal

-----------------------------------------------------------------------------
(* The worker, the handlers and the mounts.                                *)

USE WorkerAssumption, MaxInterruptsAssumption, ScanPriorityAssumption

\* What is known of the rows: a scan that has not completed has batches left.
RowsInv ==
    \A j \in JobIds :
        /\ jobs[j].status # "absent" => jobs[j].mount \in Mounts
        /\ jobs[j].cursor < LastBatch

\* What is known of a process: the row it holds is still running, or was
\* canceled under it; the batch it is about to report is indexed, unless the
\* mount is gone; and it has not begun to scan a mount deleted before it.
ProcInv(p) ==
    /\ pc[p] \in {"preverify", "claim"} => job[p] \in JobIds /\ jobs[job[p]].status # "absent"
    /\ Holding(p) => job[p] \in JobIds /\ jobs[job[p]].status \in {"running", "canceled"}
    /\ pc[p] = "requeue" => NextBatch(p) < LastBatch
    /\ pc[p] = "complete" => NextBatch(p) = LastBatch
    /\ pc[p] \in {"requeue", "complete"} /\ Running(job[p]) /\ Exists(MountOf(p)) =>
            NextBatch(p) \in entries[MountOf(p)]
    /\ Holding(p) /\ Running(job[p]) /\ ~Exists(MountOf(p)) => pc[p] \in {"load", "fail"}

ProcsInv == \A p \in Procs : ProcInv(p)

\* The store's own invariant is part of it: a claim relies on single concurrency.
IInv == StoreInv /\ TypeOK /\ RowsInv /\ ProcsInv /\ OneHolderPerJob /\ CheckpointCovered

LEMMA WorkerIsProc == Worker \in Procs /\ Handlers \subseteq Procs
BY DEF Procs

LEMMA InitInv == Init => IInv
<1> SUFFICES ASSUME Init PROVE IInv
  OBVIOUS
<1>1. StoreInv /\ TypeOK
  <2>1. StoreInv
    BY StoreInvInit DEF Init
  <2> QED BY <2>1 DEF StoreInv, Init, TypeOK, MountStatus, Steps, BatchSteps
<1>2. RowsInv
  BY DEF Init, JobsInit, EmptyRow, RowsInv
<1>3. \A p \in Procs : pc[p] = "idle" /\ ~Holding(p)
  BY DEF Init, Holding, BatchSteps
<1>4. ProcsInv /\ OneHolderPerJob
  BY <1>3 DEF ProcsInv, ProcInv, OneHolderPerJob
<1>5. CheckpointCovered
  BY DEF Init, JobsInit, EmptyRow, CheckpointCovered
<1> QED BY <1>1, <1>2, <1>4, <1>5 DEF IInv

-----------------------------------------------------------------------------
\* Steps that leave jobs and entries alone and delete no mount, such as reads
\* and interruptions: each process keeps its position, lets go of its job, or
\* moves to a step that assumes no more than the one it leaves.
LocalStep ==
    /\ UNCHANGED <<jobs, entries>>
    /\ TypeOK'
    /\ \A m \in Mounts : mounts'[m].status # "deleted" <=> mounts[m].status # "deleted"
    /\ \A p \in Procs :
        \/ pc'[p] = pc[p] /\ job'[p] = job[p]
        \/ pc'[p] \in {"idle", "mounts", "enqueue", "poll"}
        \/ /\ pc'[p] \in {"preverify", "claim"}
           /\ job'[p] \in JobIds /\ jobs[job'[p]].status # "absent"
        \/ pc[p] \in {"load", "verify", "scan"} /\ pc'[p] = "fail" /\ job'[p] = job[p]
        \/ pc[p] = "verify" /\ pc'[p] = "scan" /\ job'[p] = job[p]
        \/ /\ pc[p] = "load" /\ pc'[p] = "verify" /\ job'[p] = job[p]
           /\ Exists(MountOf(p))

LEMMA LocalStepInv == IInv /\ LocalStep => IInv'
<1> SUFFICES ASSUME IInv, LocalStep PROVE IInv'
  OBVIOUS
<1>1. /\ UNCHANGED <<jobs, entries>>
      /\ \A m \in Mounts : Exists(m)' <=> Exists(m)
  BY DEF LocalStep, Exists
<1>0. StoreInv'
  BY <1>1 DEF IInv, StoreInv, JobsTypeOK, AtMostOneRunning, AttemptsBounded, Running
<1>2. \A j \in JobIds : jobs[j].status # "absent" => jobs[j].mount \in Mounts
  BY DEF IInv, RowsInv
<1>3. RowsInv' /\ CheckpointCovered'
  BY <1>1, <1>2 DEF IInv, RowsInv, CheckpointCovered
<1>4. \A p \in Procs : Holding(p)' => Holding(p) /\ job'[p] = job[p]
  BY DEF LocalStep, Holding, BatchSteps
<1>5. OneHolderPerJob'
  BY <1>4 DEF IInv, OneHolderPerJob
<1>6. ASSUME NEW p \in Procs PROVE ProcInv(p)'
  <2>1. ProcInv(p)
    BY DEF IInv, ProcsInv
  <2>2. CASE pc'[p] = pc[p] /\ job'[p] = job[p]
    <3>1. Holding(p) /\ Running(job[p]) => MountOf(p) \in Mounts
      BY <1>2, <2>1 DEF ProcInv, MountOf, Running
    <3>2. MountOf(p)' = MountOf(p) /\ NextBatch(p)' = NextBatch(p)
          /\ (Holding(p)' <=> Holding(p)) /\ (Running(job[p])' <=> Running(job[p]))
      BY <1>1, <2>2 DEF MountOf, NextBatch, Holding, Running
    <3>3. Holding(p) /\ Running(job[p]) => (Exists(MountOf(p))' <=> Exists(MountOf(p)))
      BY <1>1, <3>1, <3>2 DEF Exists
    <3>4. pc[p] \in {"requeue", "complete"} => Holding(p)
      BY DEF Holding, BatchSteps
    <3> QED BY <1>1, <2>1, <2>2, <3>2, <3>3, <3>4 DEF ProcInv
  <2>3. CASE pc'[p] \in {"idle", "mounts", "enqueue", "poll"}
    BY <2>3 DEF ProcInv, Holding, BatchSteps
  <2>4. CASE /\ pc'[p] \in {"preverify", "claim"}
             /\ job'[p] \in JobIds /\ jobs[job'[p]].status # "absent"
    BY <1>1, <2>4 DEF ProcInv, Holding, BatchSteps
  <2>5. CASE pc[p] \in {"load", "verify", "scan"} /\ pc'[p] = "fail" /\ job'[p] = job[p]
    BY <1>1, <2>1, <2>5 DEF ProcInv, Holding, BatchSteps
  <2>6. CASE pc[p] = "verify" /\ pc'[p] = "scan" /\ job'[p] = job[p]
    BY <1>1, <1>2, <2>1, <2>6 DEF ProcInv, Holding, BatchSteps, MountOf, Running
  <2>7. CASE /\ pc[p] = "load" /\ pc'[p] = "verify" /\ job'[p] = job[p]
             /\ Exists(MountOf(p))
    BY <1>1, <1>2, <2>1, <2>7 DEF ProcInv, Holding, BatchSteps, MountOf, Running
  <2> QED BY <2>2, <2>3, <2>4, <2>5, <2>6, <2>7 DEF LocalStep
<1> QED BY <1>0, <1>3, <1>5, <1>6 DEF IInv, ProcsInv, LocalStep

LEMMA SchedulerInv ==
    ASSUME IInv, ReadActiveJobs \/ ReadMounts \/ SkipMaintenance \/ NothingToClaim
    PROVE  IInv'
<1> USE WorkerIsProc
<1>1. UNCHANGED <<jobs, mounts, entries, job, indexable, interrupts>>
  BY DEF ReadActiveJobs, ReadMounts, SkipMaintenance, NothingToClaim
<1>2. PICK step \in {"idle", "mounts", "enqueue", "poll"} : pc' = [pc EXCEPT ![Worker] = step]
  BY DEF ReadActiveJobs, ReadMounts, SkipMaintenance, NothingToClaim, Goto
<1>3. todo' \in [Procs -> SUBSET Mounts]
  BY DEF IInv, TypeOK, ReadActiveJobs, ReadMounts, SkipMaintenance, NothingToClaim
<1>4. TypeOK'
  BY <1>1, <1>2, <1>3 DEF IInv, TypeOK, JobsTypeOK, Steps
<1>5. LocalStep
  BY <1>1, <1>2, <1>4 DEF IInv, TypeOK, LocalStep
<1> QED BY <1>5, LocalStepInv

LEMMA LocalProcInv ==
    ASSUME IInv, NEW p \in Procs,
           \/ EnqueueDone(p) \/ InlineClaimRefused(p) \/ LoadMount(p) \/ ScanError(p)
           \/ Disconnect(p)
           \/ \E m \in Mounts : EnqueueRequest(p, m)
           \/ \E j \in JobIds : RunRequest(p, j)
    PROVE  IInv'
<1>1. CASE EnqueueDone(p)
  BY <1>1, LocalStepInv DEF EnqueueDone, Goto, IInv, TypeOK, JobsTypeOK, LocalStep, Steps
<1>2. CASE InlineClaimRefused(p)
  BY <1>2, LocalStepInv DEF InlineClaimRefused, Goto, IInv, TypeOK, JobsTypeOK, LocalStep, Steps
<1>3. CASE LoadMount(p)
  <2>1. Indexable(MountOf(p)) \in BOOLEAN
    BY DEF Indexable
  <2> QED BY <1>3, <2>1, LocalStepInv
          DEF LoadMount, Goto, IInv, TypeOK, JobsTypeOK, LocalStep, Steps, BatchSteps
<1>4. CASE ScanError(p)
  BY <1>4, LocalStepInv DEF ScanError, Goto, IInv, TypeOK, JobsTypeOK, LocalStep, Steps, BatchSteps
<1>5. CASE Disconnect(p)
  BY <1>5, LocalStepInv DEF Disconnect, Goto, IInv, TypeOK, JobsTypeOK, LocalStep, Steps
<1>6. CASE \E m \in Mounts : EnqueueRequest(p, m)
  BY <1>6, LocalStepInv DEF EnqueueRequest, Goto, IInv, TypeOK, JobsTypeOK, LocalStep, Steps
<1>7. CASE \E j \in JobIds : RunRequest(p, j)
  BY <1>7, LocalStepInv
     DEF RunRequest, Goto, IInv, TypeOK, JobsTypeOK, LocalStep, Steps, JobIds
<1> QED BY <1>1, <1>2, <1>3, <1>4, <1>5, <1>6, <1>7

LEMMA RestartInv == ASSUME IInv, Restart PROVE IInv'
BY LocalStepInv DEF Restart, IInv, TypeOK, JobsTypeOK, LocalStep, Steps

\* Marking a mount unavailable deletes none and brings none back.
LEMMA MarkUnavailableTyped ==
    ASSUME mounts \in [Mounts -> [status : MountStatus, indexed : BOOLEAN]],
           NEW n, MarkUnavailable(n)
    PROVE  /\ mounts' \in [Mounts -> [status : MountStatus, indexed : BOOLEAN]]
           /\ \A m \in Mounts : mounts'[m].status # "deleted" <=> mounts[m].status # "deleted"
<1> DEFINE status == IF mounts[n].status = "active" THEN "unavailable" ELSE mounts[n].status
<1>1. mounts' = [mounts EXCEPT ![n] = [mounts[n] EXCEPT !.status = status]]
  BY DEF MarkUnavailable
<1>2. ASSUME n \in Mounts
      PROVE  /\ status \in MountStatus
             /\ status # "deleted" <=> mounts[n].status # "deleted"
             /\ mounts[n] \in [status : MountStatus, indexed : BOOLEAN]
  BY <1>2 DEF MountStatus
<1> HIDE DEF status
<1>3. ASSUME n \in Mounts
      PROVE  [mounts[n] EXCEPT !.status = status] \in [status : MountStatus, indexed : BOOLEAN]
  BY <1>2, <1>3
<1>4. mounts' \in [Mounts -> [status : MountStatus, indexed : BOOLEAN]]
  BY <1>1, <1>3
<1>5. n \in Mounts => mounts'[n].status = status
  BY <1>1, <1>2
<1>6. \A m \in Mounts \ {n} : mounts'[m] = mounts[m]
  BY <1>1
<1> QED BY <1>2, <1>4, <1>5, <1>6

\* The verification of a mount's identity, by whoever performs it, and the
\* changes of a mount other than its deletion.
LEMMA VerifyInv ==
    ASSUME IInv, NEW p \in Procs, Preverify(p) \/ VerifyMount(p) PROVE IInv'
<1>1. /\ mounts' \in [Mounts -> [status : MountStatus, indexed : BOOLEAN]]
      /\ \A m \in Mounts : mounts'[m].status # "deleted" <=> mounts[m].status # "deleted"
  <2>1. mounts \in [Mounts -> [status : MountStatus, indexed : BOOLEAN]]
    BY DEF IInv, TypeOK
  <2>2. CASE UNCHANGED mounts
    BY <2>1, <2>2
  <2>3. CASE MarkUnavailable(MountOf(p))
    BY <2>1, <2>3, MarkUnavailableTyped
  <2> QED BY <2>2, <2>3 DEF Preverify, VerifyMount
<1>2. CASE Preverify(p)
  <2>1. /\ UNCHANGED <<jobs, entries, indexable, todo, interrupts>>
        /\ pc' \in [Procs -> Steps]
        /\ job' \in [Procs -> 0 .. MaxJobs]
    BY <1>2 DEF Preverify, Goto, IInv, TypeOK, Steps
  <2>2. TypeOK'
    BY <1>1, <2>1 DEF IInv, TypeOK, JobsTypeOK
  <2>3. \A q \in Procs \ {p} : pc'[q] = pc[q] /\ job'[q] = job[q]
    BY <1>2 DEF Preverify, Goto, IInv, TypeOK
  <2>4. pc'[p] = "idle" \/ (pc'[p] = "claim" /\ job'[p] = job[p])
    BY <1>2 DEF Preverify, Goto, IInv, TypeOK
  <2>5. job[p] \in JobIds /\ jobs[job[p]].status # "absent"
    BY <1>2 DEF Preverify, IInv, ProcsInv, ProcInv
  <2>6. LocalStep
    BY <1>1, <2>1, <2>2, <2>3, <2>4, <2>5 DEF LocalStep
  <2> QED BY <2>6, LocalStepInv
<1>3. CASE VerifyMount(p)
  <2>1. /\ UNCHANGED <<jobs, entries, job, indexable, todo, interrupts>>
        /\ pc' \in [Procs -> Steps]
    BY <1>3 DEF VerifyMount, Goto, IInv, TypeOK, Steps, BatchSteps
  <2>2. TypeOK'
    BY <1>1, <2>1 DEF IInv, TypeOK, JobsTypeOK
  <2>3. pc[p] = "verify" /\ pc'[p] \in {"scan", "fail"}
        /\ \A q \in Procs \ {p} : pc'[q] = pc[q]
    BY <1>3 DEF VerifyMount, Goto, IInv, TypeOK
  <2>4. LocalStep
    BY <1>1, <2>1, <2>2, <2>3 DEF LocalStep
  <2> QED BY <2>4, LocalStepInv
<1> QED BY <1>2, <1>3

LEMMA MountSettingInv ==
    ASSUME IInv, NEW m \in Mounts,
           SetIndexEnabled(m) \/ ReverifyMount(m) \/ DriftSeenElsewhere(m)
    PROVE  IInv'
<1>1. UNCHANGED <<jobs, entries, pc, job, indexable, todo, interrupts>>
  BY DEF SetIndexEnabled, ReverifyMount, DriftSeenElsewhere, procVars
<1>2. mounts \in [Mounts -> [status : MountStatus, indexed : BOOLEAN]]
  BY DEF IInv, TypeOK
<1>3. /\ mounts' \in [Mounts -> [status : MountStatus, indexed : BOOLEAN]]
      /\ \A n \in Mounts : mounts'[n].status # "deleted" <=> mounts[n].status # "deleted"
  <2>1. CASE SetIndexEnabled(m)
    BY <1>2, <2>1 DEF SetIndexEnabled, MountStatus
  <2>2. CASE ReverifyMount(m)
    BY <1>2, <2>2 DEF ReverifyMount, MountStatus
  <2>3. CASE DriftSeenElsewhere(m)
    BY <1>2, <2>3, MarkUnavailableTyped DEF DriftSeenElsewhere
  <2> QED BY <2>1, <2>2, <2>3
<1>4. TypeOK'
  BY <1>1, <1>3 DEF IInv, TypeOK, JobsTypeOK
<1>5. LocalStep
  BY <1>1, <1>3, <1>4 DEF LocalStep
<1> QED BY <1>5, LocalStepInv

-----------------------------------------------------------------------------
\* Steps on a job: one row changes, and a process that is not working on it
\* sees its own row as it was.
OneRowChanges(j) == \A k \in JobIds \ {j} : jobs'[k] = jobs[k]

Covered(j) ==
    jobs[j].status \in {"queued", "running", "failed", "completed"} /\ Exists(jobs[j].mount) =>
        /\ 1 .. jobs[j].cursor \subseteq entries[jobs[j].mount]
        /\ jobs[j].status = "completed" => 1 .. LastBatch \subseteq entries[jobs[j].mount]

LEMMA OtherProcInv ==
    ASSUME NEW j \in JobIds, OneRowChanges(j), UNCHANGED <<mounts, entries>>,
           NEW q \in Procs, ProcInv(q), pc'[q] = pc[q], job'[q] = job[q],
           Holding(q) => job[q] # j,
           jobs'[j].status # "absent"
    PROVE  ProcInv(q)'
<1>1. Holding(q)' <=> Holding(q)
  BY DEF Holding
<1>2. pc[q] \in {"requeue", "complete"} => Holding(q)
  BY DEF Holding, BatchSteps
<1>3. Holding(q) => jobs'[job[q]] = jobs[job[q]]
  BY DEF ProcInv, OneRowChanges
<1>4. pc[q] \in {"preverify", "claim"} => job[q] \in JobIds /\ jobs'[job[q]].status # "absent"
  BY DEF ProcInv, OneRowChanges
<1>5. CASE ~Holding(q)
  BY <1>1, <1>2, <1>4, <1>5 DEF ProcInv
<1>6. CASE Holding(q)
  <2>1. jobs'[job'[q]] = jobs[job[q]]
    BY <1>3, <1>6
  <2>2. /\ NextBatch(q)' = NextBatch(q) /\ MountOf(q)' = MountOf(q)
        /\ Running(job[q])' <=> Running(job[q])
        /\ Exists(MountOf(q))' <=> Exists(MountOf(q))
        /\ entries'[MountOf(q)'] = entries[MountOf(q)]
    BY <2>1 DEF NextBatch, MountOf, Running, Exists
  <2> QED BY <1>4, <1>6, <1>1, <2>1, <2>2 DEF ProcInv
<1> QED BY <1>5, <1>6

\* A step by which a process lets go of the row it holds.
LEMMA ReleaseInv ==
    ASSUME IInv, NEW p \in Procs, Holding(p), EndBatch(p), StoreInv',
           NEW j \in JobIds, j = job[p], OneRowChanges(j),
           jobs'[j].status # "absent", jobs'[j].mount = jobs[j].mount,
           jobs'[j].cursor < LastBatch, Covered(j)'
    PROVE  IInv'
<1>1. ProcInv(p) /\ jobs[j].status # "absent"
  BY DEF IInv, ProcsInv, ProcInv
<1>2. /\ UNCHANGED <<mounts, entries, todo, interrupts>>
      /\ pc'[p] = "idle"
      /\ \A q \in Procs \ {p} : pc'[q] = pc[q] /\ job'[q] = job[q]
  BY DEF EndBatch, Goto, IInv, TypeOK
<1>3. TypeOK'
  BY DEF EndBatch, Goto, IInv, TypeOK, StoreInv, Steps
<1>4. RowsInv'
  BY <1>1 DEF OneRowChanges, IInv, RowsInv
<1>5. CheckpointCovered'
  <2>1. ASSUME NEW k \in JobIds \ {j} PROVE Covered(k)'
    <3>1. Covered(k)
      BY DEF IInv, CheckpointCovered, Covered
    <3>2. jobs'[k] = jobs[k]
      BY DEF OneRowChanges
    <3> QED BY <1>2, <3>1, <3>2 DEF Covered, Exists
  <2> QED BY <2>1 DEF CheckpointCovered, Covered
<1>6. ~Holding(p)' /\ \A q \in Procs \ {p} : Holding(q)' <=> Holding(q)
  BY <1>2 DEF Holding, BatchSteps
<1>7. OneHolderPerJob'
  BY <1>2, <1>6 DEF IInv, OneHolderPerJob
<1>8. ASSUME NEW q \in Procs PROVE ProcInv(q)'
  <2>1. CASE q = p
    BY <1>2, <1>6, <2>1 DEF ProcInv
  <2>2. CASE q # p
    <3>1. Holding(q) => job[q] # j
      BY <2>2 DEF IInv, OneHolderPerJob
    <3>2. ProcInv(q)
      BY DEF IInv, ProcsInv
    <3> QED BY <1>2, <2>2, <3>1, <3>2, OtherProcInv
  <2> QED BY <2>1, <2>2
<1> QED BY <1>3, <1>4, <1>5, <1>7, <1>8 DEF IInv, ProcsInv

LEMMA HolderFacts ==
    ASSUME IInv, NEW p \in Procs, Holding(p)
    PROVE  /\ job[p] \in JobIds /\ jobs[job[p]] \in Row
           /\ jobs[job[p]].status \in {"running", "canceled"}
           /\ jobs[job[p]].mount \in Mounts
           /\ jobs[job[p]].cursor \in Cursors /\ jobs[job[p]].cursor < LastBatch
           /\ Covered(job[p])
<1>1. job[p] \in JobIds /\ jobs[job[p]].status \in {"running", "canceled"}
  BY DEF IInv, ProcsInv, ProcInv
<1>2. Covered(job[p])
  BY <1>1 DEF IInv, CheckpointCovered, Covered
<1> QED BY <1>1, <1>2, RowFields DEF IInv, StoreInv, RowsInv

LEMMA RequeueJobInv == ASSUME IInv, NEW p \in Procs, RequeueJob(p) PROVE IInv'
<1>1. Holding(p) /\ pc[p] = "requeue"
  BY DEF RequeueJob, Holding, BatchSteps
<1>2. PICK j \in JobIds : j = job[p]
  BY <1>1, HolderFacts
<1>3. PICK c : c = NextBatch(p)
  OBVIOUS
<1>4. c = jobs[j].cursor + 1 /\ c \in Cursors /\ c < LastBatch
  BY <1>1, <1>2, <1>3, HolderFacts DEF IInv, ProcsInv, ProcInv, NextBatch, Cursors
<1>5. Requeue(j, c) /\ EndBatch(p)
  BY <1>2, <1>3 DEF RequeueJob
<1>6. StoreInv'
  BY <1>4, <1>5, StatusUpdateInv DEF IInv
<1> DEFINE row == [jobs[j] EXCEPT !.status = "queued", !.cursor = c]
<1>7. /\ jobs[j].status = "running" => jobs'[j] = row
      /\ jobs[j].status # "running" => jobs'[j] = jobs[j]
      /\ OneRowChanges(j)
  BY <1>5, UpdateWhereEffect DEF Requeue, IInv, StoreInv, OneRowChanges
<1>8. jobs[j] \in Row /\ row.status = "queued" /\ row.cursor = c /\ row.mount = jobs[j].mount
  BY <1>1, <1>2, HolderFacts DEF Row
<1> HIDE DEF row
<1>9. UNCHANGED <<mounts, entries>>
  BY <1>5 DEF EndBatch
<1>10. Covered(j)'
  <2>1. CASE jobs[j].status = "running"
    <3>1. Exists(jobs[j].mount) => c \in entries[jobs[j].mount]
      BY <1>1, <1>2, <1>3, <2>1 DEF IInv, ProcsInv, ProcInv, Running, MountOf
    <3>2. Exists(jobs[j].mount) => 1 .. jobs[j].cursor \subseteq entries[jobs[j].mount]
      BY <1>1, <1>2, <2>1, HolderFacts DEF Covered
    <3>3. 1 .. c = (1 .. jobs[j].cursor) \cup {c}
      BY <1>1, <1>2, <1>4, HolderFacts DEF Cursors
    <3> QED BY <1>7, <1>8, <1>9, <2>1, <3>1, <3>2, <3>3 DEF Covered, Exists
  <2>2. CASE jobs[j].status # "running"
    BY <1>1, <1>2, <1>7, <1>9, <2>2, HolderFacts DEF Covered, Exists
  <2> QED BY <2>1, <2>2
<1>11. /\ jobs'[j].status # "absent" /\ jobs'[j].mount = jobs[j].mount
       /\ jobs'[j].cursor < LastBatch
  BY <1>1, <1>2, <1>4, <1>7, <1>8, HolderFacts
<1> QED BY <1>1, <1>2, <1>5, <1>6, <1>7, <1>10, <1>11, ReleaseInv

LEMMA CompleteJobInv == ASSUME IInv, NEW p \in Procs, CompleteJob(p) PROVE IInv'
<1>1. Holding(p) /\ pc[p] = "complete"
  BY DEF CompleteJob, Holding, BatchSteps
<1>2. PICK j \in JobIds : j = job[p]
  BY <1>1, HolderFacts
<1>3. jobs[j].cursor + 1 = LastBatch
  BY <1>1, <1>2 DEF IInv, ProcsInv, ProcInv, NextBatch
<1>4. Complete(j) /\ EndBatch(p)
  BY <1>2 DEF CompleteJob
<1>5. 0 \in Cursors
  BY DEF Cursors
<1>6. StoreInv'
  BY <1>4, <1>5, StatusUpdateInv DEF IInv
<1> DEFINE row == [jobs[j] EXCEPT !.status = "completed"]
<1>7. /\ jobs[j].status = "running" => jobs'[j] = row
      /\ jobs[j].status # "running" => jobs'[j] = jobs[j]
      /\ OneRowChanges(j)
  BY <1>4, UpdateWhereEffect DEF Complete, IInv, StoreInv, OneRowChanges
<1>8. /\ jobs[j] \in Row /\ row.status = "completed"
      /\ row.cursor = jobs[j].cursor /\ row.mount = jobs[j].mount
  BY <1>1, <1>2, HolderFacts DEF Row
<1> HIDE DEF row
<1>9. UNCHANGED <<mounts, entries>>
  BY <1>4 DEF EndBatch
<1>10. Covered(j)'
  <2>1. CASE jobs[j].status = "running"
    <3>1. Exists(jobs[j].mount) => LastBatch \in entries[jobs[j].mount]
      BY <1>1, <1>2, <1>3, <2>1 DEF IInv, ProcsInv, ProcInv, Running, MountOf, NextBatch
    <3>2. Exists(jobs[j].mount) => 1 .. jobs[j].cursor \subseteq entries[jobs[j].mount]
      BY <1>1, <1>2, <2>1, HolderFacts DEF Covered
    <3>3. 1 .. LastBatch = (1 .. jobs[j].cursor) \cup {LastBatch}
      BY <1>1, <1>2, <1>3, HolderFacts DEF Cursors
    <3> QED BY <1>7, <1>8, <1>9, <2>1, <3>1, <3>2, <3>3 DEF Covered, Exists
  <2>2. CASE jobs[j].status # "running"
    BY <1>1, <1>2, <1>7, <1>9, <2>2, HolderFacts DEF Covered, Exists
  <2> QED BY <2>1, <2>2
<1>11. /\ jobs'[j].status # "absent" /\ jobs'[j].mount = jobs[j].mount
       /\ jobs'[j].cursor < LastBatch
  BY <1>1, <1>2, <1>7, <1>8, HolderFacts
<1> QED BY <1>1, <1>2, <1>4, <1>6, <1>7, <1>10, <1>11, ReleaseInv

LEMMA FailJobInv == ASSUME IInv, NEW p \in Procs, FailJob(p) PROVE IInv'
<1>1. Holding(p) /\ pc[p] = "fail"
  BY DEF FailJob, Holding, BatchSteps
<1>2. PICK j \in JobIds : j = job[p]
  BY <1>1, HolderFacts
<1>3. Fail(j) /\ EndBatch(p)
  BY <1>2 DEF FailJob
<1>4. StoreInv'
  BY <1>3, FailInv DEF IInv
<1> DEFINE n == jobs[j].attempts + 1
           s == IF n >= MaxAttempts THEN "failed" ELSE "queued"
           row == [jobs[j] EXCEPT !.attempts = n, !.status = s]
<1>5. UpdateWhere(j, {"running"}, row)
  BY <1>3 DEF Fail
<1>6. s \in {"failed", "queued"}
  OBVIOUS
<1> HIDE DEF s, n
<1>7. /\ jobs[j] \in Row /\ row.status \in {"failed", "queued"}
      /\ row.cursor = jobs[j].cursor /\ row.mount = jobs[j].mount
  BY <1>1, <1>2, <1>6, HolderFacts DEF Row
<1> HIDE DEF row
<1>8. /\ jobs[j].status = "running" => jobs'[j] = row
      /\ jobs[j].status # "running" => jobs'[j] = jobs[j]
      /\ OneRowChanges(j)
  BY <1>5, UpdateWhereEffect DEF IInv, StoreInv, OneRowChanges
<1>9. UNCHANGED <<mounts, entries>>
  BY <1>3 DEF EndBatch
<1>10. Covered(j)'
  BY <1>1, <1>2, <1>7, <1>8, <1>9, HolderFacts DEF Covered, Exists
<1>11. /\ jobs'[j].status # "absent" /\ jobs'[j].mount = jobs[j].mount
       /\ jobs'[j].cursor < LastBatch
  BY <1>1, <1>2, <1>7, <1>8, HolderFacts
<1> QED BY <1>1, <1>2, <1>3, <1>4, <1>8, <1>10, <1>11, ReleaseInv

\* A step by which a process takes a queued row: nobody holds one.
LEMMA TakeInv ==
    ASSUME IInv, NEW p \in Procs, NEW j \in JobIds, ClaimByID(j),
           job' = [job EXCEPT ![p] = j], Goto(p, "load"),
           UNCHANGED <<mounts, entries, indexable, todo, interrupts>>
    PROVE  IInv'
<1> DEFINE row == [jobs[j] EXCEPT !.status = "running"]
<1>1. StoreInv'
  BY ClaimInv DEF IInv
<1>2. jobs[j].status = "queued" /\ jobs' = [jobs EXCEPT ![j] = row]
  BY DEF ClaimByID, Queued
<1>3. /\ row.status = "running" /\ row.cursor = jobs[j].cursor
      /\ row.mount = jobs[j].mount
  BY RowFields DEF IInv, StoreInv, Row
<1> HIDE DEF row
<1>4. jobs'[j] = row /\ OneRowChanges(j)
  BY <1>2 DEF IInv, StoreInv, JobsTypeOK, OneRowChanges
<1>5. /\ pc'[p] = "load" /\ job'[p] = j
      /\ \A q \in Procs \ {p} : pc'[q] = pc[q] /\ job'[q] = job[q]
  BY DEF Goto, IInv, TypeOK
<1>6. TypeOK'
  BY <1>1 DEF Goto, IInv, TypeOK, StoreInv, Steps, BatchSteps, JobIds
<1>7. RowsInv'
  BY <1>2, <1>3, <1>4 DEF OneRowChanges, IInv, RowsInv
<1>8. CheckpointCovered'
  <2>1. ASSUME NEW k \in JobIds PROVE Covered(k)'
    <3>1. Covered(k)
      BY DEF IInv, CheckpointCovered, Covered
    <3>2. CASE k = j
      BY <1>2, <1>3, <1>4, <3>1, <3>2 DEF Covered, Exists
    <3>3. CASE k # j
      BY <1>4, <3>1, <3>3 DEF Covered, Exists, OneRowChanges
    <3> QED BY <3>2, <3>3
  <2> QED BY <2>1 DEF CheckpointCovered, Covered
<1>9. \A q \in Procs : Holding(q) => job[q] # j
  BY <1>2, HolderFacts
<1>10. OneHolderPerJob'
  BY <1>5, <1>9 DEF IInv, OneHolderPerJob, Holding
<1>11. ASSUME NEW q \in Procs PROVE ProcInv(q)'
  <2>1. CASE q = p
    BY <1>3, <1>4, <1>5, <2>1 DEF ProcInv, Holding, BatchSteps
  <2>2. CASE q # p
    BY <1>3, <1>4, <1>5, <1>9, <2>2, OtherProcInv DEF IInv, ProcsInv
  <2> QED BY <2>1, <2>2
<1> QED BY <1>1, <1>6, <1>7, <1>8, <1>10, <1>11 DEF IInv, ProcsInv

LEMMA WorkerClaimInv == ASSUME IInv, WorkerClaim PROVE IInv'
<1>1. PICK j \in JobIds : Claim(j) /\ job' = [job EXCEPT ![Worker] = j]
  BY DEF WorkerClaim
<1>2. ClaimByID(j)
  BY <1>1 DEF Claim, ClaimByID
<1> QED BY <1>1, <1>2, WorkerIsProc, TakeInv DEF WorkerClaim

LEMMA InlineClaimInv == ASSUME IInv, NEW p \in Procs, InlineClaim(p) PROVE IInv'
<1>1. job[p] \in JobIds
  BY DEF InlineClaim, IInv, ProcsInv, ProcInv
<1>2. job' = [job EXCEPT ![p] = job[p]]
  BY DEF InlineClaim, IInv, TypeOK
<1> QED BY <1>1, <1>2, TakeInv DEF InlineClaim

LEMMA EnqueueScanInv == ASSUME IInv, NEW p \in Procs, EnqueueScan(p) PROVE IInv'
<1>1. PICK m \in todo[p], j \in JobIds :
        Enqueue(j, m, ScanPriority) /\ todo' = [todo EXCEPT ![p] = @ \ {m}]
  BY DEF EnqueueScan
<1>2. m \in Mounts
  BY DEF IInv, TypeOK
<1>3. UNCHANGED <<mounts, entries, pc, job, indexable, interrupts>>
  BY DEF EnqueueScan
<1>4. StoreInv'
  BY <1>1, <1>2, EnqueueInv DEF IInv
<1> DEFINE row == [status |-> "queued", mount |-> m, priority |-> ScanPriority,
                   cursor |-> 0, attempts |-> 0]
<1>5. jobs[j].status = "absent" /\ jobs' = [jobs EXCEPT ![j] = row]
  BY <1>1 DEF Enqueue, IsNextId
<1>6. row.status = "queued" /\ row.cursor = 0 /\ row.mount = m
  OBVIOUS
<1> HIDE DEF row
<1>7. jobs'[j] = row /\ OneRowChanges(j)
  BY <1>5 DEF IInv, StoreInv, JobsTypeOK, OneRowChanges
<1>8. TypeOK'
  BY <1>1, <1>3, <1>4 DEF IInv, TypeOK, StoreInv
<1>9. RowsInv'
  BY <1>2, <1>6, <1>7 DEF OneRowChanges, IInv, RowsInv
<1>10. CheckpointCovered'
  <2>1. ASSUME NEW k \in JobIds PROVE Covered(k)'
    <3>1. CASE k = j
      BY <1>6, <1>7, <3>1 DEF Covered
    <3>2. CASE k # j
      BY <1>3, <1>7, <3>2 DEF Covered, Exists, OneRowChanges, IInv, CheckpointCovered
    <3> QED BY <3>1, <3>2
  <2> QED BY <2>1 DEF CheckpointCovered, Covered
<1>11. \A q \in Procs : Holding(q) => job[q] # j
  BY <1>5, HolderFacts
<1>12. OneHolderPerJob'
  BY <1>3 DEF IInv, OneHolderPerJob, Holding
<1>13. ProcsInv'
  BY <1>3, <1>6, <1>7, <1>11, OtherProcInv DEF IInv, ProcsInv
<1> QED BY <1>4, <1>8, <1>9, <1>10, <1>12, <1>13 DEF IInv

-----------------------------------------------------------------------------
\* One batch is indexed: the catalogue of the mount grows.
LEMMA ScanBatchInv == ASSUME IInv, NEW p \in Procs, ScanBatch(p) PROVE IInv'
<1>1. Holding(p) /\ pc[p] = "scan"
  BY DEF ScanBatch, Holding, BatchSteps
<1>2. UNCHANGED <<jobs, mounts, job, indexable, todo, interrupts>>
  BY DEF ScanBatch
<1>3. /\ pc'[p] = IF NextBatch(p) >= LastBatch THEN "complete" ELSE "requeue"
      /\ \A q \in Procs \ {p} : pc'[q] = pc[q]
      /\ pc' \in [Procs -> Steps]
  BY DEF ScanBatch, Goto, IInv, TypeOK, Steps, BatchSteps
<1>4. NextBatch(p) \in 1 .. LastBatch
  BY <1>1, HolderFacts DEF NextBatch, Cursors
<1>5. MountOf(p) \in Mounts
  BY <1>1, HolderFacts DEF MountOf
<1>6. /\ entries' \in [Mounts -> SUBSET (1 .. LastBatch)]
      /\ \A m \in Mounts : entries[m] \subseteq entries'[m]
      /\ NextBatch(p) \in entries'[MountOf(p)]
  BY <1>4, <1>5 DEF ScanBatch, IInv, TypeOK
<1>7. TypeOK'
  BY <1>2, <1>3, <1>6 DEF IInv, TypeOK, JobsTypeOK
<1>8. StoreInv' /\ RowsInv'
  BY <1>2 DEF IInv, StoreInv, JobsTypeOK, AtMostOneRunning, AttemptsBounded, Running, RowsInv
<1>9. CheckpointCovered'
  <2>1. ASSUME NEW k \in JobIds PROVE Covered(k)'
    <3>1. Covered(k) /\ (jobs[k].status # "absent" => jobs[k].mount \in Mounts)
      BY DEF IInv, CheckpointCovered, Covered, RowsInv
    <3> QED BY <1>2, <1>6, <3>1 DEF Covered, Exists
  <2> QED BY <2>1 DEF CheckpointCovered, Covered
<1>10. \A q \in Procs : Holding(q)' <=> Holding(q)
  BY <1>1, <1>3 DEF Holding, BatchSteps
<1>11. OneHolderPerJob'
  BY <1>2, <1>10 DEF IInv, OneHolderPerJob
<1>12. ASSUME NEW q \in Procs PROVE ProcInv(q)'
  <2>1. ProcInv(q)
    BY DEF IInv, ProcsInv
  <2>2. NextBatch(q)' = NextBatch(q) /\ MountOf(q)' = MountOf(q)
        /\ (Running(job[q])' <=> Running(job[q]))
        /\ (Exists(MountOf(q))' <=> Exists(MountOf(q)))
    BY <1>2 DEF NextBatch, MountOf, Running, Exists
  <2>3. CASE q = p
    <3>1. Running(job[p]) => Exists(MountOf(p))
      BY <1>1, <2>1, <2>3 DEF ProcInv
    <3> QED BY <1>1, <1>2, <1>3, <1>4, <1>6, <1>10, <2>1, <2>2, <2>3, <3>1 DEF ProcInv
  <2>4. CASE q # p
    <3>1. pc[q] \in {"requeue", "complete"} => MountOf(q) \in Mounts
      BY HolderFacts DEF Holding, BatchSteps, MountOf
    <3> QED BY <1>2, <1>3, <1>6, <1>10, <2>1, <2>2, <2>4, <3>1 DEF ProcInv
  <2> QED BY <2>3, <2>4
<1> QED BY <1>7, <1>8, <1>9, <1>11, <1>12 DEF IInv, ProcsInv

\* A mount is deleted: its active rows are canceled in the same transaction.
LEMMA DeleteMountInv == ASSUME IInv, NEW m \in Mounts, DeleteMount(m) PROVE IInv'
<1>1. UNCHANGED <<pc, job, indexable, todo, interrupts>>
  BY DEF DeleteMount, procVars
<1>2. /\ mounts' \in [Mounts -> [status : MountStatus, indexed : BOOLEAN]]
      /\ ~Exists(m)'
      /\ \A n \in Mounts \ {m} : (Exists(n)' <=> Exists(n)) /\ entries'[n] = entries[n]
      /\ entries' \in [Mounts -> SUBSET (1 .. LastBatch)]
  BY DEF DeleteMount, Exists, IInv, TypeOK, MountStatus
<1>3. StoreInv'
  BY CancelInv DEF DeleteMount, IInv
<1>4. TypeOK'
  BY <1>1, <1>2, <1>3 DEF IInv, TypeOK, StoreInv
<1>5. \A j \in JobIds :
        /\ jobs'[j].mount = jobs[j].mount /\ jobs'[j].cursor = jobs[j].cursor
        /\ jobs'[j] = jobs[j] \/ (jobs[j].mount = m /\ jobs'[j].status = "canceled"
                                   /\ jobs[j].status \in Active)
        /\ jobs[j].mount = m => jobs'[j].status \notin Active
  <2> SUFFICES ASSUME NEW j \in JobIds
               PROVE /\ jobs'[j].mount = jobs[j].mount /\ jobs'[j].cursor = jobs[j].cursor
                     /\ jobs'[j] = jobs[j] \/ (jobs[j].mount = m /\ jobs'[j].status = "canceled"
                                                /\ jobs[j].status \in Active)
                     /\ jobs[j].mount = m => jobs'[j].status \notin Active
    OBVIOUS
  <2>1. jobs[j] \in Row
    BY RowFields DEF IInv, StoreInv
  <2>2. CASE jobs[j].mount = m /\ jobs[j].status \in Active
    <3>1. jobs'[j] = [jobs[j] EXCEPT !.status = "canceled"]
      BY <2>2 DEF DeleteMount, CancelJobsOf
    <3> QED BY <2>1, <2>2, <3>1 DEF Row, Active
  <2>3. CASE ~(jobs[j].mount = m /\ jobs[j].status \in Active)
    <3>1. jobs'[j] = jobs[j]
      BY <2>3 DEF DeleteMount, CancelJobsOf
    <3> QED BY <2>3, <3>1
  <2> QED BY <2>2, <2>3
<1>6. RowsInv'
  BY <1>5 DEF IInv, RowsInv, Active
<1>7. CheckpointCovered'
  <2>1. ASSUME NEW k \in JobIds PROVE Covered(k)'
    <3>1. Covered(k) /\ (jobs[k].status # "absent" => jobs[k].mount \in Mounts)
      BY DEF IInv, CheckpointCovered, Covered, RowsInv
    <3>2. CASE jobs[k].mount = m
      BY <1>2, <1>5, <3>2 DEF Covered
    <3>3. CASE jobs[k].mount # m
      <4>1. jobs'[k] = jobs[k]
        BY <1>5, <3>3
      <4> QED BY <1>2, <3>1, <3>3, <4>1 DEF Covered
    <3> QED BY <3>2, <3>3
  <2> QED BY <2>1 DEF CheckpointCovered, Covered
<1>8. \A q \in Procs : Holding(q)' <=> Holding(q)
  BY <1>1 DEF Holding
<1>9. OneHolderPerJob'
  BY <1>1, <1>8 DEF IInv, OneHolderPerJob
<1>10. ASSUME NEW q \in Procs PROVE ProcInv(q)'
  <2>1. ProcInv(q)
    BY DEF IInv, ProcsInv
  <2>2. CASE job[q] \notin JobIds \/ (~Holding(q) /\ pc[q] \notin {"preverify", "claim"})
    BY <1>1, <1>8, <2>1, <2>2 DEF ProcInv, Holding, BatchSteps
  <2>3. CASE job[q] \in JobIds /\ ~Holding(q) /\ pc[q] \in {"preverify", "claim"}
    BY <1>1, <1>5, <1>8, <2>1, <2>3 DEF ProcInv, Holding, BatchSteps, Active
  <2>4. CASE Holding(q) /\ MountOf(q) = m
    <3>1. jobs'[job[q]].status = "canceled" /\ job[q] \in JobIds
      BY <1>5, <2>4, HolderFacts DEF MountOf, Active
    <3>2. NextBatch(q)' = NextBatch(q) /\ ~Running(job[q])'
      BY <1>1, <1>5, <3>1 DEF NextBatch, Running
    <3> QED BY <1>1, <1>8, <2>1, <2>4, <3>1, <3>2 DEF ProcInv, Holding, BatchSteps
  <2>5. CASE Holding(q) /\ MountOf(q) # m
    <3>1. job[q] \in JobIds /\ jobs'[job[q]] = jobs[job[q]] /\ MountOf(q) \in Mounts
      BY <1>5, <2>5, HolderFacts DEF MountOf
    <3>2. /\ NextBatch(q)' = NextBatch(q) /\ MountOf(q)' = MountOf(q)
          /\ (Running(job[q])' <=> Running(job[q]))
      BY <1>1, <3>1 DEF NextBatch, MountOf, Running
    <3>3. /\ Exists(MountOf(q))' <=> Exists(MountOf(q))
          /\ entries'[MountOf(q)'] = entries[MountOf(q)]
      BY <1>2, <2>5, <3>1, <3>2 DEF Exists
    <3> QED BY <1>1, <1>8, <2>1, <2>5, <3>1, <3>2, <3>3 DEF ProcInv, Holding, BatchSteps
  <2> QED BY <2>2, <2>3, <2>4, <2>5
<1> QED BY <1>3, <1>4, <1>6, <1>7, <1>9, <1>10 DEF IInv, ProcsInv

-----------------------------------------------------------------------------
LEMMA NextInv == IInv /\ [Next]_vars => IInv'
<1> SUFFICES ASSUME IInv, [Next]_vars PROVE IInv'
  OBVIOUS
<1>1. ASSUME NEW p \in Procs, Batch(p) PROVE IInv'
  BY <1>1, LocalProcInv, VerifyInv, ScanBatchInv, RequeueJobInv, CompleteJobInv, FailJobInv
     DEF Batch
<1>2. ASSUME WorkerLoop PROVE IInv'
  BY <1>2, SchedulerInv, WorkerClaimInv DEF WorkerLoop
<1>3. ASSUME NEW p \in Procs, HandlerStep(p) PROVE IInv'
  BY <1>3, VerifyInv, InlineClaimInv, LocalProcInv DEF HandlerStep
<1>4. ASSUME NEW p \in Procs, Advance(p) PROVE IInv'
  BY <1>1, <1>2, <1>3, <1>4, EnqueueScanInv, LocalProcInv DEF Advance
<1>5. ASSUME NEW p \in Handlers, Request(p) PROVE IInv'
  BY <1>5, LocalProcInv, WorkerIsProc DEF Request
<1>6. ASSUME NEW m \in Mounts, MountChange(m) PROVE IInv'
  BY <1>6, DeleteMountInv, MountSettingInv DEF MountChange
<1>7. CASE UNCHANGED vars
  <2>1. LocalStep
    BY <1>7 DEF vars, LocalStep, IInv, TypeOK, JobsTypeOK
  <2> QED BY <2>1, LocalStepInv
<1> QED BY <1>4, <1>5, <1>6, <1>7, RestartInv DEF Next

LEMMA Invariance == Spec => []IInv
BY InitInv, NextInv, PTL DEF Spec

\* Every variable keeps its type.
THEOREM TypeCorrect == Spec => []TypeOK
BY Invariance, PTL DEF IInv

\* Two processes never work on the same job, so the unfenced reports of the
\* store cannot end somebody else's claim.
THEOREM ExclusiveHolding == Spec => []OneHolderPerJob
BY Invariance, PTL DEF IInv

\* A checkpoint never runs ahead of what has been indexed.
THEOREM CheckpointsCovered == Spec => []CheckpointCovered
BY Invariance, PTL DEF IInv

-----------------------------------------------------------------------------
\* Every step on the table is an operation of the store, with arguments the
\* store accepts.
LEMMA StoreStep == IInv /\ [Next]_vars => [StoreNext]_jobs
<1> SUFFICES ASSUME IInv, [Next]_vars PROVE StoreNext \/ UNCHANGED jobs
  OBVIOUS
<1>1. ASSUME NEW p \in Procs, Advance(p) PROVE StoreNext \/ UNCHANGED jobs
  <2>1. CASE EnqueueScan(p)
    BY <2>1, ScanPriorityAssumption DEF EnqueueScan, StoreNext, IInv, TypeOK
  <2>2. CASE RequeueJob(p)
    <3>1. job[p] \in JobIds /\ NextBatch(p) \in Cursors
      BY <2>2, HolderFacts DEF RequeueJob, Holding, BatchSteps, NextBatch, Cursors
    <3> QED BY <2>2, <3>1 DEF RequeueJob, StoreNext
  <2>3. CASE CompleteJob(p) \/ FailJob(p)
    <3>1. job[p] \in JobIds
      BY <2>3, HolderFacts DEF CompleteJob, FailJob, Holding, BatchSteps
    <3> QED BY <2>3, <3>1 DEF CompleteJob, FailJob, StoreNext
  <2>4. CASE WorkerClaim
    BY <2>4 DEF WorkerClaim, StoreNext
  <2>5. CASE InlineClaim(p)
    <3>1. job[p] \in JobIds
      BY <2>5 DEF InlineClaim, IInv, ProcsInv, ProcInv
    <3> QED BY <2>5, <3>1 DEF InlineClaim, StoreNext
  <2>6. CASE \/ EnqueueDone(p) \/ LoadMount(p) \/ VerifyMount(p) \/ ScanBatch(p) \/ ScanError(p)
             \/ ReadActiveJobs \/ ReadMounts \/ SkipMaintenance \/ NothingToClaim
             \/ Preverify(p) \/ InlineClaimRefused(p)
    BY <2>6 DEF EnqueueDone, LoadMount, VerifyMount, ScanBatch, ScanError, ReadActiveJobs,
                ReadMounts, SkipMaintenance, NothingToClaim, Preverify, InlineClaimRefused
  <2> QED BY <1>1, <2>1, <2>2, <2>3, <2>4, <2>5, <2>6 DEF Advance, Batch, WorkerLoop, HandlerStep
<1>2. ASSUME NEW p \in Handlers, Request(p) PROVE UNCHANGED jobs
  BY <1>2 DEF Request, EnqueueRequest, RunRequest, Disconnect
<1>3. ASSUME NEW m \in Mounts, MountChange(m) PROVE StoreNext \/ UNCHANGED jobs
  BY <1>3 DEF MountChange, DeleteMount, SetIndexEnabled, ReverifyMount, DriftSeenElsewhere,
              StoreNext
<1>4. ASSUME Restart PROVE UNCHANGED jobs
  BY <1>4 DEF Restart
<1>5. ASSUME UNCHANGED vars PROVE UNCHANGED jobs
  BY <1>5 DEF vars
<1> QED BY <1>1, <1>2, <1>3, <1>4, <1>5 DEF Next

\* The worker, the handlers and the deletion of mounts implement the contract
\* of the store.
THEOREM Refinement == Spec => ImplementsStore
<1>1. Init => JobsInit
  BY DEF Init
<1> QED BY <1>1, StoreStep, Invariance, PTL DEF Spec, StoreSpec, ImplementsStore

\* Hence the store's guarantees hold of the running program.
THEOREM SingleRunningJob == Spec => []AtMostOneRunning
BY Refinement, SingleRunningRow, PTL DEF ImplementsStore

THEOREM RetriesOfScansBounded == Spec => []AttemptsBounded
BY Refinement, BoundedRetries, PTL DEF ImplementsStore

-----------------------------------------------------------------------------
LEMMA DeletedMountStep ==
    ASSUME IInv, [Next]_vars, NEW j \in JobIds,
           jobs[j].status # "absent", ~Exists(jobs[j].mount)
    PROVE  /\ jobs'[j].cursor = jobs[j].cursor
           /\ jobs'[j].status = "completed" => jobs[j].status = "completed"
<1> DEFINE Safe == /\ jobs'[j].cursor = jobs[j].cursor
                   /\ jobs'[j].status = "completed" => jobs[j].status = "completed"
<1>1. jobs[j] \in Row
  BY RowFields DEF IInv, StoreInv
<1>2. ASSUME NEW p \in Procs, RequeueJob(p) \/ CompleteJob(p) PROVE Safe
  <2>1. Holding(p) /\ pc[p] \in {"requeue", "complete"}
    BY <1>2 DEF RequeueJob, CompleteJob, Holding, BatchSteps
  <2>2. PICK k \in JobIds : k = job[p]
    BY <2>1, HolderFacts
  <2>3. k = j => jobs[k].status # "running"
    BY <2>1, <2>2 DEF IInv, ProcsInv, ProcInv, MountOf, Running
  <2>4. PICK row : UpdateWhere(k, {"running"}, row)
    BY <1>2, <2>2 DEF RequeueJob, CompleteJob, Requeue, Complete
  <2>5. jobs'[j] = jobs[j]
    BY <2>3, <2>4, UpdateWhereEffect DEF IInv, StoreInv
  <2> QED BY <2>5
<1>3. ASSUME NEW p \in Procs, FailJob(p) PROVE Safe
  <2>1. PICK k \in JobIds : k = job[p] /\ Fail(k)
    BY <1>3, HolderFacts DEF FailJob, Holding, BatchSteps
  <2> DEFINE n == jobs[k].attempts + 1
             s == IF n >= MaxAttempts THEN "failed" ELSE "queued"
             row == [jobs[k] EXCEPT !.attempts = n, !.status = s]
  <2>2. UpdateWhere(k, {"running"}, row)
    BY <2>1 DEF Fail
  <2>3. s # "completed"
    OBVIOUS
  <2> HIDE DEF s, n
  <2>4. k = j => row.cursor = jobs[j].cursor /\ row.status # "completed"
    BY <1>1, <2>3 DEF Row
  <2> HIDE DEF row
  <2> QED BY <2>2, <2>4, UpdateWhereEffect DEF IInv, StoreInv
<1>4. ASSUME NEW k \in JobIds, ClaimByID(k) PROVE Safe
  <2>1. jobs' = [jobs EXCEPT ![k] = [jobs[k] EXCEPT !.status = "running"]]
    BY <1>4 DEF ClaimByID
  <2>2. jobs'[j] = jobs[j] \/ jobs'[j] = [jobs[j] EXCEPT !.status = "running"]
    BY <2>1 DEF IInv, StoreInv, JobsTypeOK
  <2> QED BY <1>1, <2>2 DEF Row
<1>5. ASSUME NEW p \in Procs, EnqueueScan(p) PROVE Safe
  <2>1. PICK k \in JobIds, m \in todo[p] : Enqueue(k, m, ScanPriority)
    BY <1>5 DEF EnqueueScan
  <2>2. jobs'[j] = jobs[j]
    BY <2>1 DEF Enqueue, IsNextId, IInv, StoreInv, JobsTypeOK
  <2> QED BY <2>2
<1>6. ASSUME NEW m \in Mounts, DeleteMount(m) PROVE Safe
  <2>1. jobs'[j] = jobs[j] \/ jobs'[j] = [jobs[j] EXCEPT !.status = "canceled"]
    BY <1>6 DEF DeleteMount, CancelJobsOf
  <2> QED BY <1>1, <2>1 DEF Row
<1>7. CASE UNCHANGED jobs
  BY <1>7
<1>8. ASSUME NEW p \in Procs, Advance(p) PROVE Safe
  <2>1. CASE WorkerClaim
    BY <1>4, <2>1 DEF WorkerClaim, Claim, ClaimByID
  <2>2. CASE InlineClaim(p)
    <3>1. job[p] \in JobIds
      BY <2>2 DEF InlineClaim, IInv, ProcsInv, ProcInv
    <3> QED BY <1>4, <2>2, <3>1 DEF InlineClaim
  <2>3. CASE \/ EnqueueDone(p) \/ LoadMount(p) \/ VerifyMount(p) \/ ScanBatch(p) \/ ScanError(p)
             \/ ReadActiveJobs \/ ReadMounts \/ SkipMaintenance \/ NothingToClaim
             \/ Preverify(p) \/ InlineClaimRefused(p)
    BY <1>7, <2>3 DEF EnqueueDone, LoadMount, VerifyMount, ScanBatch, ScanError, ReadActiveJobs,
                ReadMounts, SkipMaintenance, NothingToClaim, Preverify, InlineClaimRefused
  <2> QED BY <1>2, <1>3, <1>5, <1>8, <2>1, <2>2, <2>3 DEF Advance, Batch, WorkerLoop, HandlerStep
<1>9. ASSUME NEW p \in Handlers, Request(p) PROVE UNCHANGED jobs
  BY <1>9 DEF Request, EnqueueRequest, RunRequest, Disconnect
<1>10. ASSUME NEW m \in Mounts, MountChange(m) PROVE Safe
  BY <1>6, <1>7, <1>10 DEF MountChange, SetIndexEnabled, ReverifyMount, DriftSeenElsewhere
<1>11. ASSUME Restart \/ UNCHANGED vars PROVE UNCHANGED jobs
  BY <1>11 DEF Restart, vars
<1> QED BY <1>7, <1>8, <1>9, <1>10, <1>11 DEF Next

\* No scan of a deleted mount advances or completes.
THEOREM DeletedMountsStay == Spec => DeletedMountStopsScans
<1>1. IInv /\ [Next]_vars =>
        [\A j \in JobIds :
            jobs[j].status # "absent" /\ ~Exists(jobs[j].mount) =>
                /\ jobs'[j].cursor = jobs[j].cursor
                /\ jobs'[j].status = "completed" => jobs[j].status = "completed"]_vars
  BY DeletedMountStep
<1> QED BY <1>1, Invariance, PTL DEF Spec, DeletedMountStopsScans
=============================================================================
