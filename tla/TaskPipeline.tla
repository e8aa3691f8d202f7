---------------------------- MODULE TaskPipeline ----------------------------
(***************************************************************************)
(* The life of the task rows of the service: claimed by the Task Manager,  *)
(* carried by the bounded queue, written by the workers, recovered when    *)
(* their lease runs out (manager.py, worker/worker.py, repositories/       *)
(* task.py and the write helpers of domain_processor.py).                  *)
(*                                                                         *)
(* The committed rows (row, job, active) are shared by every instance of   *)
(* the service and survive a crash; the queue, the two loops of the Task   *)
(* Manager and the workers are the memory of one instance.                 *)
(*                                                                         *)
(* Claim and recovery select FOR UPDATE and commit before they dispatch:   *)
(* each is one atomic step. The short transaction in which a worker writes *)
(* a task is two: a plain SELECT, then the flush and commit of the columns *)
(* that differ from what was selected.  What happens between a worker      *)
(* receiving a task and that transaction (lock, DNS, HTTP) only chooses    *)
(* which write it makes.  JobCompletion shows that the locks the second    *)
(* takes make it one step for the job's row as well.                       *)
(***************************************************************************)
EXTENDS Naturals, Sequences, FiniteSets

CONSTANTS
    Instances,      \* service processes that share one PostgreSQL database
    Workers,        \* worker coroutines, all instances together
    Host,           \* the instance a worker runs in
    Tasks, NoTask,  \* NoTask: a worker waiting in queue.get()
    Jobs, NoJob,    \* NoJob: a REFRESH task, whose job_id is None
    JobOf,          \* Task.job_id
    Domains,
    DomainOf,       \* Task.domain_id
    QueueCapacity,  \* settings.worker_queue_capacity
    MaxAttempts,    \* settings.max_attempts
    MaxCrashes      \* bound: crashes considered in a behaviour

ASSUME HostAssumption == Host \in [Workers -> Instances]
ASSUME WorkersAssumption == IsFiniteSet(Workers)
ASSUME TasksAssumption == IsFiniteSet(Tasks) /\ NoTask \notin Tasks
ASSUME JobAssumption == NoJob \notin Jobs /\ JobOf \in [Tasks -> Jobs \cup {NoJob}]
ASSUME DomainAssumption == DomainOf \in [Tasks -> Domains]
ASSUME BoundsAssumption == /\ QueueCapacity \in Nat \ {0}
                           /\ MaxAttempts \in Nat \ {0}
                           /\ MaxCrashes \in Nat

VARIABLES
    row,     \* row[t]: status, attempts and lease of the committed task row
    job,     \* job[j]: the committed status of the job
    active,  \* active[d]: the committed is_active of the domain
    queue,   \* queue[i]: the BoundedQueue of instance i
    claim,   \* claim[i]: the claim cycle: its batch size, what it has to put
    rec,     \* rec[i]: the recovery cycle, the tasks it found exhausted, and the
             \* domains whose rows its session has locked
    worker,  \* worker[w]: what the coroutine is doing
    crashes

vars == <<row, job, active, queue, claim, rec, worker, crashes>>

-----------------------------------------------------------------------------
TaskStatus == {"PENDING", "PROCESSING", "COMPLETED", "FAILED"}
JobStatus == {"PENDING", "PROCESSING", "COMPLETED"}

\* lease_expires_at: NULL, in the future, in the past.
Lease == {"none", "live", "expired"}

TaskRow == [status : TaskStatus, attempts : Nat, lease : Lease]
NewRow == [status |-> "PENDING", attempts |-> 0, lease |-> "none"]

\* The four writes a worker may end a task with: _write_complete_task or
\* _complete_task, _write_fail_task, _write_fail_task_with_deactivation for an
\* error that deactivates, _write_reschedule_task.
Writes == {"complete", "fail", "fail_deactivate", "reschedule"}

IdleClaim == [batch |-> 0, put |-> {}]
IdleRec == [batch |-> 0, put |-> {}, exhausted |-> {}, locks |-> {}]

\* pc: waiting in queue.get(); in the body of process_task; between the SELECT
\* and the COMMIT of its write; in its except clause; in the write of that
\* clause.  write and seen have a meaning only in the two writes.
WorkerPC == {"idle", "working", "writing", "failing", "rewriting"}
IdleWorker == [pc |-> "idle", task |-> NoTask, write |-> "complete", seen |-> NewRow]
Failing(t) == [pc |-> "failing", task |-> t, write |-> "complete", seen |-> NewRow]

-----------------------------------------------------------------------------
Terminal(r) == r.status \in {"COMPLETED", "FAILED"}

\* Mistake: is_not(None) turned round.
ExpiredUnleased == {t \in Tasks : row[t].status = "PROCESSING" /\ row[t].lease = "none"}

TasksOf(j) == {t \in Tasks : JobOf[t] = j}
Pending == {t \in Tasks : row[t].status = "PENDING"}
Expired == {t \in Tasks : row[t].status = "PROCESSING" /\ row[t].lease = "expired"}

AvailableCapacity(i) == QueueCapacity - Len(queue[i])
Concurrency(i) == Cardinality({w \in Workers : Host[w] = i})
Smaller(m, n) == IF m < n THEN m ELSE n

\* What LIMIT n returns of a set of eligible rows. Which rows come first
\* (type, created_at, id) is left open.
Limited(S, n) == {T \in SUBSET S : Cardinality(T) = Smaller(Cardinality(S), n)}

-----------------------------------------------------------------------------
Init ==
    /\ row = [t \in Tasks |-> NewRow]
    /\ job = [j \in Jobs |-> "PENDING"]
    /\ active = [d \in Domains |-> TRUE]
    /\ queue = [i \in Instances |-> <<>>]
    /\ claim = [i \in Instances |-> IdleClaim]
    /\ rec = [i \in Instances |-> IdleRec]
    /\ worker = [w \in Workers |-> IdleWorker]
    /\ crashes = 0

-----------------------------------------------------------------------------
(***************************************************************************)
(* The claim cycle.  The batch size is read from the queue before the      *)
(* database is asked; the tasks claimed are put one by one afterwards.     *)
(***************************************************************************)
ClaimSize(i) ==
    /\ claim[i] = IdleClaim
    /\ AvailableCapacity(i) > 0
    /\ claim' = [claim EXCEPT ![i].batch = Smaller(AvailableCapacity(i), Concurrency(i))]
    /\ UNCHANGED <<row, job, active, queue, rec, worker, crashes>>

Claimed(r) ==
    [status |-> "PROCESSING", attempts |-> r.attempts + 1, lease |-> "live"]

\* claim_tasks and its commit. The reply of the commit may be lost: the cycle
\* ends with an exception, the tasks stay PROCESSING and are put nowhere.
ClaimTasks(i) ==
    /\ claim[i].batch > 0
    /\ \E T \in Limited(Pending, claim[i].batch) :
          /\ row' = [t \in Tasks |-> IF t \in T THEN Claimed(row[t]) ELSE row[t]]
          /\ \E put \in {T, {}} : claim' = [claim EXCEPT ![i] = [batch |-> 0, put |-> put]]
    /\ UNCHANGED <<job, active, queue, rec, worker, crashes>>

\* The transaction fails and rolls back; _run_loop logs it and goes on.
ClaimFails(i) ==
    /\ claim[i].batch > 0
    /\ claim' = [claim EXCEPT ![i] = IdleClaim]
    /\ UNCHANGED <<row, job, active, queue, rec, worker, crashes>>

\* Mistake: a queue without maxsize.
ClaimPutUnbounded(i) ==
    \E t \in claim[i].put :
      /\ queue' = [queue EXCEPT ![i] = Append(@, t)]
      /\ claim' = [claim EXCEPT ![i].put = @ \ {t}]
      /\ UNCHANGED <<row, job, active, rec, worker, crashes>>

ClaimPut(i) ==
    \E t \in claim[i].put :
      /\ Len(queue[i]) < QueueCapacity
      /\ queue' = [queue EXCEPT ![i] = Append(@, t)]
      /\ claim' = [claim EXCEPT ![i].put = @ \ {t}]
      /\ UNCHANGED <<row, job, active, rec, worker, crashes>>

-----------------------------------------------------------------------------
(***************************************************************************)
(* The recovery cycle: the same shape over PROCESSING rows whose lease has *)
(* expired.  An exhausted task becomes FAILED, any other PENDING, and the  *)
(* PENDING ones are put in the queue as they are, from within the session. *)
(***************************************************************************)
RecoverySize(i) ==
    /\ rec[i] = IdleRec
    /\ AvailableCapacity(i) > 0
    /\ rec' = [rec EXCEPT ![i].batch = Smaller(AvailableCapacity(i), Concurrency(i))]
    /\ UNCHANGED <<row, job, active, queue, claim, worker, crashes>>

\* Mistakes: no check of max_attempts; the attempts of a recovered task reset.
RecoveredAlways(r) == [status |-> "PENDING", attempts |-> r.attempts, lease |-> "none"]
RecoveredAfresh(r) == [status |-> "PENDING", attempts |-> 0, lease |-> "none"]

Recovered(r) ==
    [status |-> IF r.attempts >= MaxAttempts THEN "FAILED" ELSE "PENDING",
     attempts |-> r.attempts, lease |-> "none"]

RecoverExpiredTasks(i) ==
    /\ rec[i].batch > 0
    /\ \E T \in Limited(Expired, rec[i].batch) :
          /\ row' = [t \in Tasks |-> IF t \in T THEN Recovered(row[t]) ELSE row[t]]
          /\ LET retried == {t \in T : row'[t].status = "PENDING"}
             IN  \/ rec' = [rec EXCEPT ![i] = [batch |-> 0, put |-> retried,
                                               exhausted |-> T \ retried, locks |-> {}]]
                 \/ rec' = [rec EXCEPT ![i] = IdleRec]  \* the reply is lost
    /\ UNCHANGED <<job, active, queue, claim, worker, crashes>>

\* The transaction fails, or later the statements of _maybe_deactivate_domain
\* do, as PostgreSQL makes them when two sessions wait for each other: the
\* exception takes the tasks that are not yet put with it.
RecoveryFails(i) ==
    /\ rec[i].batch > 0 \/ rec[i].exhausted # {}
    /\ rec' = [rec EXCEPT ![i] = IdleRec]
    /\ UNCHANGED <<row, job, active, queue, claim, worker, crashes>>

RecoveryPut(i) ==
    \E t \in rec[i].put :
      /\ Len(queue[i]) < QueueCapacity
      /\ queue' = [queue EXCEPT ![i] = Append(@, t)]
      /\ rec' = [rec EXCEPT ![i].put = @ \ {t}]
      /\ UNCHANGED <<row, job, active, claim, worker, crashes>>

\* _maybe_deactivate_domain flushes is_active = False after the cycle's only
\* commit: the row keeps its value, but the session has locked it, and keeps it
\* locked while the cycle waits for the queue.
RecoveryDeactivate(i) ==
    \E t \in rec[i].exhausted :
      LET d == DomainOf[t] IN
      /\ \A other \in Instances \ {i} : d \notin rec[other].locks
      /\ rec' = [rec EXCEPT ![i].exhausted = @ \ {t},
                            ![i].locks = IF active[d] THEN @ \cup {d} ELSE @]
      /\ UNCHANGED <<row, job, active, queue, claim, worker, crashes>>

\* The session is closed without another commit.
RecoveryEnds(i) ==
    /\ rec[i].locks # {} /\ rec[i].put = {} /\ rec[i].exhausted = {}
    /\ rec' = [rec EXCEPT ![i] = IdleRec]
    /\ UNCHANGED <<row, job, active, queue, claim, worker, crashes>>

-----------------------------------------------------------------------------
(***************************************************************************)
(* A worker.                                                               *)
(***************************************************************************)
WorkerGet(w) ==
    LET i == Host[w] IN
    /\ worker[w].pc = "idle"
    /\ queue[i] # <<>>
    /\ worker' = [worker EXCEPT ![w].pc = "working", ![w].task = Head(queue[i])]
    /\ queue' = [queue EXCEPT ![i] = Tail(@)]
    /\ UNCHANGED <<row, job, active, claim, rec, crashes>>

\* The SELECT of the transaction that ends the task. No write helper looks at
\* the status it finds.
WorkerSelects(w, k, pc) ==
    /\ worker' = [worker EXCEPT ![w].pc = pc, ![w].write = k,
                                ![w].seen = row[worker[w].task]]
    /\ UNCHANGED <<row, job, active, queue, claim, rec, crashes>>

WorkerSelect(w, k) == worker[w].pc = "working" /\ WorkerSelects(w, k, "writing")

\* The except clause of process_task: a retryable exception reschedules the
\* task, any other fails it.
WorkerSelectAgain(w, k) == /\ worker[w].pc = "failing"
                           /\ k \in {"fail", "reschedule"}
                           /\ WorkerSelects(w, k, "rewriting")

\* The task object after the helper's assignments.
Assigned(k, r) ==
    CASE k = "complete" -> [r EXCEPT !.status = "COMPLETED"]
      [] k \in {"fail", "fail_deactivate"} -> [r EXCEPT !.status = "FAILED"]
      [] k = "reschedule" ->
           [r EXCEPT !.status = IF r.attempts >= MaxAttempts THEN "FAILED" ELSE "PENDING",
                     !.lease = "none"]

\* The UPDATE the session emits: only the columns whose value was changed.
Column(now, seen, assigned) == IF assigned = seen THEN now ELSE assigned

\* Mistake: an UPDATE of every column.
FlushedWhole(now, seen, assigned) == assigned

Flushed(now, seen, assigned) ==
    [status   |-> Column(now.status, seen.status, assigned.status),
     attempts |-> Column(now.attempts, seen.attempts, assigned.attempts),
     lease    |-> Column(now.lease, seen.lease, assigned.lease)]

Exhausts(k, r) == k = "reschedule" /\ r.attempts >= MaxAttempts

\* _check_and_update_job_status.
JobAfter(j, rows) ==
    IF \A t \in TasksOf(j) : Terminal(rows[t]) THEN "COMPLETED"
    ELSE IF job[j] = "PENDING" THEN "PROCESSING" ELSE job[j]

\* Mistake: a reschedule never evaluates the job.
EvaluatesButReschedule(k, seen) == k # "reschedule"

\* Every write but a retry evaluates the job.
Evaluates(k, seen) == k # "reschedule" \/ Exhausts(k, seen)

Deactivates(k, seen) == k = "fail_deactivate" \/ Exhausts(k, seen)

\* The flush and the commit of a write. The UPDATE of the domain waits for a
\* recovery session that has locked the row.
Write(w) ==
    LET t == worker[w].task
        k == worker[w].write
        seen == worker[w].seen
    IN
    /\ worker[w].pc \in {"writing", "rewriting"}
    /\ row' = [row EXCEPT ![t] = Flushed(@, seen, Assigned(k, seen))]
    /\ job' = [j \in Jobs |->
                 IF j = JobOf[t] /\ Evaluates(k, seen) THEN JobAfter(j, row') ELSE job[j]]
    /\ Deactivates(k, seen) => \A i \in Instances : DomainOf[t] \notin rec[i].locks
    /\ active' = [active EXCEPT ![DomainOf[t]] = @ /\ ~Deactivates(k, seen)]

WorkerCommit(w) ==
    /\ Write(w)
    /\ worker' = [worker EXCEPT ![w] = IdleWorker]
    /\ UNCHANGED <<queue, claim, rec, crashes>>

\* The commit is done and its reply is lost: process_task catches the exception
\* and writes the task a second time.
WorkerCommitLost(w) ==
    /\ worker[w].pc = "writing"
    /\ Write(w)
    /\ worker' = [worker EXCEPT ![w] = Failing(worker[w].task)]
    /\ UNCHANGED <<queue, claim, rec, crashes>>

\* Anything else in process_task raises; an open transaction rolls back.
WorkerRaises(w) ==
    /\ worker[w].pc \in {"working", "writing"}
    /\ worker' = [worker EXCEPT ![w] = Failing(worker[w].task)]
    /\ UNCHANGED <<row, job, active, queue, claim, rec, crashes>>

\* process_task ends without a write: an HTTP 408 or 429, which
\* _handle_http_failure reports as completed, or an exception in the except
\* clause, which _run_loop logs as worker.task_failed.
WorkerGivesUp(w) ==
    /\ worker[w].pc \in {"working", "failing", "rewriting"}
    /\ worker' = [worker EXCEPT ![w] = IdleWorker]
    /\ UNCHANGED <<row, job, active, queue, claim, rec, crashes>>

-----------------------------------------------------------------------------
\* now passes lease_expires_at: only the lease of a PROCESSING row is read.
LeaseExpires(t) ==
    /\ row[t].status = "PROCESSING"
    /\ row[t].lease = "live"
    /\ row' = [row EXCEPT ![t].lease = "expired"]
    /\ UNCHANGED <<job, active, queue, claim, rec, worker, crashes>>

\* An instance dies and starts again: its memory is gone, the rows are not.
Crash(i) ==
    /\ crashes < MaxCrashes
    /\ crashes' = crashes + 1
    /\ queue' = [queue EXCEPT ![i] = <<>>]
    /\ claim' = [claim EXCEPT ![i] = IdleClaim]
    /\ rec' = [rec EXCEPT ![i] = IdleRec]
    /\ worker' = [w \in Workers |-> IF Host[w] = i THEN IdleWorker ELSE worker[w]]
    /\ UNCHANGED <<row, job, active>>

-----------------------------------------------------------------------------
ClaimLoop(i) == ClaimSize(i) \/ ClaimTasks(i) \/ ClaimFails(i) \/ ClaimPut(i)

RecoveryLoop(i) == \/ RecoverySize(i) \/ RecoverExpiredTasks(i) \/ RecoveryPut(i)
                   \/ RecoveryDeactivate(i) \/ RecoveryEnds(i) \/ RecoveryFails(i)

WorkerStep(w) == \/ WorkerGet(w)
                 \/ \E k \in Writes : WorkerSelect(w, k) \/ WorkerSelectAgain(w, k)
                 \/ WorkerCommit(w) \/ WorkerCommitLost(w)
                 \/ WorkerRaises(w) \/ WorkerGivesUp(w)

Next == \/ \E i \in Instances : ClaimLoop(i) \/ RecoveryLoop(i) \/ Crash(i)
        \/ \E w \in Workers : WorkerStep(w)
        \/ \E t \in Tasks : LeaseExpires(t)

Spec == Init /\ [][Next]_vars

(***************************************************************************)
(* Fairness: the two loops of the Task Manager and every worker are        *)
(* coroutines that take their next step when nothing makes it wait; the    *)
(* database is not out of reach for ever, so that a cycle that may commit  *)
(* again and again sometimes does; time passes, so a lease runs out.       *)
(* Nothing obliges an instance to crash, a transaction to fail or a worker *)
(* to raise, and a worker may do so every time.  A wait for a slot of the  *)
(* queue or for a locked row is not assumed to end.                        *)
(***************************************************************************)
ClaimGoesOn(i) == ClaimSize(i) \/ ClaimTasks(i) \/ ClaimPut(i)
RecoveryGoesOn(i) == \/ RecoverySize(i) \/ RecoverExpiredTasks(i) \/ RecoveryPut(i)
                     \/ RecoveryDeactivate(i) \/ RecoveryEnds(i)
WorkerGoesOn(w) == \/ WorkerGet(w)
                   \/ \E k \in Writes : WorkerSelect(w, k) \/ WorkerSelectAgain(w, k)
                   \/ WorkerCommit(w)

Fairness == /\ \A i \in Instances : /\ WF_vars(ClaimGoesOn(i)) /\ SF_vars(ClaimTasks(i))
                                    /\ WF_vars(RecoveryGoesOn(i))
                                    /\ SF_vars(RecoverExpiredTasks(i))
            /\ \A w \in Workers : WF_vars(WorkerGoesOn(w))
            /\ \A t \in Tasks : WF_vars(LeaseExpires(t))

FairSpec == Spec /\ Fairness

-----------------------------------------------------------------------------
WorkerState ==
    {s \in [pc : WorkerPC, task : Tasks \cup {NoTask}, write : Writes, seen : TaskRow] :
       s.pc # "idle" => s.task \in Tasks}

RecState == [batch : Nat, put : SUBSET Tasks, exhausted : SUBSET Tasks, locks : SUBSET Domains]

\* Every variable keeps to its type, and no queue grows past its capacity.
TypeOK ==
    /\ row \in [Tasks -> TaskRow]
    /\ job \in [Jobs -> JobStatus]
    /\ active \in [Domains -> BOOLEAN]
    /\ queue \in [Instances -> Seq(Tasks)]
    /\ \A i \in Instances : Len(queue[i]) <= QueueCapacity
    /\ claim \in [Instances -> [batch : Nat, put : SUBSET Tasks]]
    /\ rec \in [Instances -> RecState]
    /\ worker \in [Workers -> WorkerState]
    /\ crashes \in 0 .. MaxCrashes

\* max_attempts is checked against the row a worker selected, not the row its
\* UPDATE finds: a task can be claimed again past the limit, but only once for
\* each worker that was holding a selection from before the limit was reached
\* (claim_tasks, recover_expired_tasks, _write_reschedule_task).
AttemptsBounded ==
    \A t \in Tasks : row[t].attempts <= MaxAttempts + Cardinality(Workers)

\* Whatever reaches a worker has been claimed at least once, also when the
\* recovery cycle put it in the queue without a claim: the exponent
\* attempts - 1 of the retry delay is never negative.
DispatchedWasClaimed ==
    /\ \A i \in Instances, t \in Tasks :
          t \in claim[i].put \cup rec[i].put \/ (\E n \in DOMAIN queue[i] : queue[i][n] = t)
            => row[t].attempts >= 1
    /\ \A w \in Workers :
          /\ worker[w].pc # "idle" => row[worker[w].task].attempts >= 1
          /\ worker[w].pc \in {"writing", "rewriting"} => worker[w].seen.attempts >= 1

\* A job whose tasks have all ended and that nobody has completed.
Unfinished(j) ==
    /\ TasksOf(j) # {} /\ \A t \in TasksOf(j) : Terminal(row[t])
    /\ job[j] # "COMPLETED"

\* The step after which all tasks of a job are terminal and the job is not
\* COMPLETED is one of the recovery loop: a worker's write never ends the last
\* task without ending the job, whatever it overwrites, also when it is the
\* write of a reschedule that is out of attempts.
UnfinishedOnlyByRecovery ==
    [][\A j \in Jobs : Unfinished(j)' /\ ~Unfinished(j) =>
          \E i \in Instances : RecoverExpiredTasks(i)]_vars

\* "claim_tasks() is the sole owner of incrementing task.attempts": a stale
\* worker's write can move the status back but loses no increment.
AttemptsCountClaims ==
    [][\A t \in Tasks : row'[t].attempts # row[t].attempts =>
          row[t].status = "PENDING" /\ row'[t] = Claimed(row[t])]_vars

\* Retries, recoveries and overwritten rows come to an end, and no claimed task
\* is forgotten with a lease: every task is finally terminal, or PROCESSING
\* without a lease, where ProcessingHasLease says that it never should be.
Settled(r) == Terminal(r) \/ (r.status = "PROCESSING" /\ r.lease = "none")
EventuallySettled == \A t \in Tasks : <>[]Settled(row[t])

-----------------------------------------------------------------------------
(***************************************************************************)
(* What the repository's documents say and the code does not do: each is   *)
(* checked by a run that finds the behaviour that contradicts it.          *)
(***************************************************************************)

\* "A Job reaches COMPLETED if ... all constituent tasks reach a terminal
\* state": recover_expired_tasks fails a task without looking at its job.
JobEventuallyCompleted ==
    \A j \in Jobs : (\A t \in TasksOf(j) : Terminal(row[t])) ~>
                   (job[j] = "COMPLETED" \/ \E t \in TasksOf(j) : ~Terminal(row[t]))

\* "... and only if": a job is never COMPLETED with an open task. No write of a
\* worker looks at the status it overwrites, and a terminal task can be open again.
JobCompletedMeansTerminal ==
    \A j \in Jobs : job[j] = "COMPLETED" => \A t \in TasksOf(j) : Terminal(row[t])

\* "Automatically detects and reclaims abandoned or timed-out worker leases"
\* (README.md): a PROCESSING row has a lease that can run out.
ProcessingHasLease ==
    \A t \in Tasks : row[t].status = "PROCESSING" => row[t].lease # "none"
=============================================================================
