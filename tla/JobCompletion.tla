---------------------------- MODULE JobCompletion ----------------------------
(***************************************************************************)
(* How a job becomes COMPLETED (_check_and_update_job_status and the write *)
(* helpers that call it), one statement of the transaction at a time, under*)
(* READ COMMITTED: the UPDATE of the task locks its row, SELECT ... FOR    *)
(* UPDATE locks the job's, the count of open tasks sees what the others    *)
(* have committed and what the transaction itself has written.             *)
(*                                                                         *)
(* Jobs do not interact: the module follows one.  A transaction here is    *)
(* what WorkerCommit of TaskPipeline takes as one step.                    *)
(***************************************************************************)
CONSTANTS
    Tasks,    \* the tasks of the job
    Workers,  \* workers of every instance: one short transaction at a time
    Nobody    \* a row that no transaction has locked

ASSUME NobodyAssumption == Nobody \notin Workers

VARIABLES
    status,    \* status[t]: the committed Task.status
    job,       \* the committed Job.status
    taskLock,  \* taskLock[t]: the transaction that has locked the task's row
    jobLock,   \* the transaction that has locked the job's row
    txn,       \* txn[w]: the transaction of worker w
    exhausted  \* history: tasks the recovery loop has failed

vars == <<status, job, taskLock, jobLock, txn, exhausted>>

\* PENDING and PROCESSING are the same to the count.
Open == "OPEN"
TaskStatus == {Open, "COMPLETED", "FAILED"}
Ends == {"COMPLETED", "FAILED"}
JobStatus == {"PENDING", "PROCESSING", "COMPLETED"}

\* pc names the statement that comes next. assigned is the task status the
\* helper sets, seen the one it selected; found and writes are the job status
\* it selected and the one it will commit.
NoTxn == [pc |-> "begin", task |-> Nobody, assigned |-> Open, seen |-> Open,
          found |-> "PENDING", writes |-> "PENDING"]

\* A new job: its tasks are open, or FAILED from the start (invalid domains).
\* One is open: a job without an open task has no transaction to end it.
Init ==
    /\ status \in [Tasks -> {Open, "FAILED"}]
    /\ \E t \in Tasks : status[t] = Open
    /\ job = "PENDING"
    /\ taskLock = [t \in Tasks |-> Nobody]
    /\ jobLock = Nobody
    /\ txn = [w \in Workers |-> NoTxn]
    /\ exhausted = {}

-----------------------------------------------------------------------------
\* SELECT the task; assign COMPLETED or FAILED to it, whatever it was.
SelectTask(w, t, s) ==
    /\ txn[w] = NoTxn
    /\ txn' = [txn EXCEPT ![w] = [NoTxn EXCEPT !.pc = "flush", !.task = t,
                                               !.assigned = s, !.seen = status[t]]]
    /\ UNCHANGED <<status, job, taskLock, jobLock, exhausted>>

\* The session flushes the UPDATE before it sends the SELECT of the job. It
\* waits for the lock of the row.
FlushTask(w) ==
    LET t == txn[w].task IN
    /\ txn[w].pc = "flush"
    /\ taskLock[t] = Nobody
    /\ taskLock' = [taskLock EXCEPT ![t] = w]
    /\ txn' = [txn EXCEPT ![w].pc = "lock_job"]
    /\ UNCHANGED <<status, job, jobLock, exhausted>>

\* Mistake: SELECT without FOR UPDATE.
LockJobNot(w) ==
    /\ txn[w].pc = "lock_job"
    /\ txn' = [txn EXCEPT ![w].pc = "count", ![w].found = job]
    /\ UNCHANGED <<status, job, taskLock, jobLock, exhausted>>

\* SELECT the job FOR UPDATE: waits for its lock, then reads the row as it is.
LockJob(w) ==
    /\ txn[w].pc = "lock_job"
    /\ jobLock = Nobody
    /\ jobLock' = w
    /\ txn' = [txn EXCEPT ![w].pc = "count", ![w].found = job]
    /\ UNCHANGED <<status, job, taskLock, exhausted>>

\* What the transaction of w reads and will commit of a task: its own UPDATE
\* holds the status only if the assignment changed what it had selected.
Version(w, t) ==
    IF t = txn[w].task /\ txn[w].assigned # txn[w].seen THEN txn[w].assigned
    ELSE status[t]

NonTerminal(w) == {t \in Tasks : Version(w, t) = Open}

\* Mistake: a job with a failed task fails.
CountOpenOrFail(w) ==
    /\ txn[w].pc = "count"
    /\ txn' = [txn EXCEPT ![w].pc = "commit",
                 ![w].writes = IF \E t \in Tasks : Version(w, t) = "FAILED" THEN "FAILED"
                               ELSE IF NonTerminal(w) = {} THEN "COMPLETED"
                               ELSE txn[w].found]
    /\ UNCHANGED <<status, job, taskLock, jobLock, exhausted>>

\* COUNT the tasks that are not terminal, and assign the job's status.
CountOpen(w) ==
    /\ txn[w].pc = "count"
    /\ txn' = [txn EXCEPT ![w].pc = "commit",
                 ![w].writes = IF NonTerminal(w) = {} THEN "COMPLETED"
                               ELSE IF txn[w].found = "PENDING" THEN "PROCESSING"
                               ELSE txn[w].found]
    /\ UNCHANGED <<status, job, taskLock, jobLock, exhausted>>

Unlocked(w) == /\ taskLock' = [t \in Tasks |-> IF taskLock[t] = w THEN Nobody ELSE taskLock[t]]
               /\ jobLock' = IF jobLock = w THEN Nobody ELSE jobLock
               /\ txn' = [txn EXCEPT ![w] = NoTxn]

\* COMMIT: the job's row is written only if its status was changed.
Commit(w) ==
    /\ txn[w].pc = "commit"
    /\ status' = [t \in Tasks |-> Version(w, t)]
    /\ job' = IF txn[w].writes # txn[w].found THEN txn[w].writes ELSE job
    /\ Unlocked(w)
    /\ UNCHANGED exhausted

\* Any statement may fail, or the process die: PostgreSQL rolls back.
Rollback(w) ==
    /\ txn[w] # NoTxn
    /\ Unlocked(w)
    /\ UNCHANGED <<status, job, exhausted>>

-----------------------------------------------------------------------------
(***************************************************************************)
(* Transactions that change a task and do not look at its job.             *)
(***************************************************************************)
\* recover_expired_tasks fails an exhausted task; SKIP LOCKED.
RecoveryFails(t) ==
    /\ status[t] = Open
    /\ taskLock[t] = Nobody
    /\ status' = [status EXCEPT ![t] = "FAILED"]
    /\ exhausted' = exhausted \cup {t}
    /\ UNCHANGED <<job, taskLock, jobLock, txn>>

\* _write_reschedule_task of a worker that selected the task earlier, before
\* another ended it: the task is open again.
Reopen(t) ==
    /\ status[t] # Open
    /\ taskLock[t] = Nobody
    /\ status' = [status EXCEPT ![t] = Open]
    /\ UNCHANGED <<job, taskLock, jobLock, txn, exhausted>>

-----------------------------------------------------------------------------
Statement(w) == FlushTask(w) \/ LockJob(w) \/ CountOpen(w) \/ Commit(w)

Next == \/ \E w \in Workers : \/ \E t \in Tasks, s \in Ends : SelectTask(w, t, s)
                              \/ Statement(w)
                              \/ Rollback(w)
        \/ \E t \in Tasks : RecoveryFails(t) \/ Reopen(t)

Spec == Init /\ [][Next]_vars

-----------------------------------------------------------------------------
Txn == [pc : {"begin", "flush", "lock_job", "count", "commit"},
        task : Tasks \cup {Nobody}, assigned : TaskStatus, seen : TaskStatus,
        found : JobStatus, writes : JobStatus]

\* Every variable keeps to its type: a job is never FAILED, whatever its tasks
\* are ("Failed individual tasks do not fail the overall job").
TypeOK ==
    /\ status \in [Tasks -> TaskStatus]
    /\ job \in JobStatus
    /\ taskLock \in [Tasks -> Workers \cup {Nobody}]
    /\ jobLock \in Workers \cup {Nobody}
    /\ txn \in [Workers -> Txn]
    /\ exhausted \in SUBSET Tasks

\* Of the workers that end the last tasks of a job together, one sees them all
\* ended and completes the job: it is left behind only if the recovery loop
\* failed one of its tasks.
NoMissedCompletion ==
    (\A t \in Tasks : status[t] # Open) /\ job # "COMPLETED"
      => exhausted # {}

\* A transaction that read the job before another completed it does not write
\* its older status over it.
CompletedIsFinal == [][job = "COMPLETED" => job' = "COMPLETED"]_vars
=============================================================================
