-------------------------- MODULE GracefulShutdown --------------------------
(***************************************************************************)
(* The stop of an instance (ShutdownCoordinator.shutdown, the stop methods *)
(* of the manager, the scheduler, the pool and the workers) while its      *)
(* coroutines are busy: cancellations that arrive inside a session, a put  *)
(* that waits for room, a session of the recovery loop that keeps the row  *)
(* lock of a domain, workers that wait for that row, and the grace period. *)
(* The tasks are of one domain, the worst case for that row.               *)
(***************************************************************************)
EXTENDS Naturals, Sequences, FiniteSets, SequencesExt

CONSTANTS
    Tasks, NoTask,
    WorkerCount,   \* settings.worker_concurrency
    Capacity       \* settings.worker_queue_capacity

ASSUME NoTaskIsNoTask == NoTask \notin Tasks
ASSUME SomeWorkers == WorkerCount \in Nat \ {0}
ASSUME SomeCapacity == Capacity \in Nat \ {0}

\* The pool stops its workers in the order of its list.
Workers == 1 .. WorkerCount

VARIABLES
    row,        \* row[t]: the committed status of the task
    active,     \* Domain.is_active, committed
    queue,      \* the bounded queue
    claim,      \* the claim loop and the session it is in
    recovery,   \* the recovery loop and the session it is in
    scheduler,  \* the scheduler's loop
    worker,     \* worker[w]: the loop of the worker
    step,       \* what shutdown waits for
    turn,       \* the worker that WorkerPool.stop waits for
    grace       \* the timer of wait_for

memory == <<queue, claim, recovery, scheduler, worker>>
stop == <<step, turn, grace>>
vars == <<row, active, memory, stop>>

-----------------------------------------------------------------------------
\* COMPLETED and FAILED are one here.
RowStatus == {"PENDING", "PROCESSING", "TERMINAL"}
Step == {"serving", "claim", "recovery", "scheduler", "drain", "completed"}

\* A loop sleeps between cycles, is in a session with the tasks it has still to
\* dispatch, or has ended.
Asleep == [pc |-> "asleep", batch |-> <<>>, locks |-> FALSE]
Ended == [pc |-> "ended", batch |-> <<>>, locks |-> FALSE]

\* A worker waits in get, has a task, waits for the row of the domain, or is gone.
Waiting == [pc |-> "get", task |-> NoTask]
Gone == [pc |-> "ended", task |-> NoTask]

Init ==
    /\ row = [t \in Tasks |-> "PENDING"]
    /\ active = TRUE
    /\ queue = <<>>
    /\ claim = Asleep
    /\ recovery = Asleep
    /\ scheduler = "asleep"
    /\ worker = [w \in Workers |-> Waiting]
    /\ step = "serving"
    /\ turn = 0
    /\ grace = "unset"

-----------------------------------------------------------------------------
(***************************************************************************)
(* The two loops of the manager. _running is False as soon as the stop has *)
(* begun: a loop that ends a cycle then does not begin another.            *)
(***************************************************************************)
Free == Capacity - Len(queue)
BatchSize == IF Free < WorkerCount THEN Free ELSE WorkerCount
Orders(S) == {q \in [1 .. Cardinality(S) -> S] : IsInjective(q)}
AfterCycle == IF step = "serving" THEN Asleep ELSE Ended

\* Up to a batch is claimed, and committed.
ClaimTasks ==
    /\ step = "serving"
    /\ claim.pc = "asleep"
    /\ \E S \in SUBSET {t \in Tasks : row[t] = "PENDING"} :
         /\ Cardinality(S) \in 1 .. BatchSize
         /\ row' = [t \in Tasks |-> IF t \in S THEN "PROCESSING" ELSE row[t]]
         /\ \E q \in Orders(S) : claim' = [claim EXCEPT !.pc = "session", !.batch = q]
    /\ UNCHANGED <<active, queue, recovery, scheduler, worker, stop>>

\* Mistake: a put that does not wait.
ClaimPutAnyway ==
    /\ claim.pc = "session"
    /\ claim.batch # <<>>
    /\ queue' = Append(queue, Head(claim.batch))
    /\ claim' = [claim EXCEPT !.batch = Tail(@)]
    /\ UNCHANGED <<row, active, recovery, scheduler, worker, stop>>

\* queue.put waits for room.
ClaimPut ==
    /\ claim.pc = "session"
    /\ claim.batch # <<>>
    /\ Len(queue) < Capacity
    /\ queue' = Append(queue, Head(claim.batch))
    /\ claim' = [claim EXCEPT !.batch = Tail(@)]
    /\ UNCHANGED <<row, active, recovery, scheduler, worker, stop>>

ClaimCycleEnds ==
    /\ claim.pc = "session"
    /\ claim.batch = <<>>
    /\ claim' = AfterCycle
    /\ UNCHANGED <<row, active, queue, recovery, scheduler, worker, stop>>

\* Leases have run out: a task goes back to PENDING or, out of attempts, FAILED.
RecoverExpiredTasks ==
    /\ step = "serving"
    /\ recovery.pc = "asleep"
    /\ \E S \in SUBSET {t \in Tasks : row[t] = "PROCESSING"} :
         /\ Cardinality(S) \in 1 .. BatchSize
         /\ \E exhausted \in SUBSET S :
              row' = [t \in Tasks |-> IF t \in exhausted THEN "TERMINAL"
                                      ELSE IF t \in S THEN "PENDING" ELSE row[t]]
         /\ \E q \in Orders(S) :
              recovery' = [recovery EXCEPT !.pc = "session",
                             !.batch = [i \in DOMAIN q |-> [task |-> q[i],
                                                            status |-> row'[q[i]]]]]
    /\ UNCHANGED <<active, queue, claim, scheduler, worker, stop>>

\* What it has set to PENDING it puts into the queue.
RecoveryPut ==
    /\ recovery.batch # <<>>
    /\ Head(recovery.batch).status = "PENDING"
    /\ Len(queue) < Capacity
    /\ queue' = Append(queue, Head(recovery.batch).task)
    /\ recovery' = [recovery EXCEPT !.batch = Tail(@)]
    /\ UNCHANGED <<row, active, claim, scheduler, worker, stop>>

\* For what it has failed it updates the domain, without a commit: the row stays
\* locked for as long as the session is open.
RecoveryDeactivate ==
    /\ recovery.batch # <<>>
    /\ Head(recovery.batch).status = "TERMINAL"
    /\ recovery' = [recovery EXCEPT !.batch = Tail(@), !.locks = @ \/ active]
    /\ UNCHANGED <<row, active, queue, claim, scheduler, worker, stop>>

\* After a second of sleep the session is closed, and rolled back.
RecoveryCycleEnds ==
    /\ recovery.pc = "session"
    /\ recovery.batch = <<>>
    /\ recovery' = AfterCycle
    /\ UNCHANGED <<row, active, queue, claim, scheduler, worker, stop>>

\* A tick of the scheduler begins, and ends.
SchedulerTick ==
    /\ scheduler # "ended"
    /\ scheduler' = IF scheduler = "asleep" THEN "session" ELSE "asleep"
    /\ UNCHANGED <<row, active, queue, claim, recovery, worker, stop>>

-----------------------------------------------------------------------------
(***************************************************************************)
(* The workers.                                                            *)
(***************************************************************************)
Goes(w, s) == worker' = [worker EXCEPT ![w] = s]

\* Worker._running is False once the pool has come to it.
Stopping(w) == w <= turn

Get(w) ==
    /\ worker[w].pc = "get"
    /\ queue # <<>>
    /\ queue' = Tail(queue)
    /\ Goes(w, [pc |-> "busy", task |-> Head(queue)])
    /\ UNCHANGED <<row, active, claim, recovery, scheduler, stop>>

\* get gives up after half a second. A worker that is to stop does so.
GetTimesOut(w) ==
    /\ worker[w].pc = "get"
    /\ Stopping(w)
    /\ Goes(w, Gone)
    /\ UNCHANGED <<row, active, queue, claim, recovery, scheduler, stop>>

\* Mistake: an exception of process_task ends the loop of the worker.
AfterTaskGone(w) == Gone

AfterTask(w) == IF Stopping(w) THEN Gone ELSE Waiting

\* process_task ends its task, reschedules it, or writes nothing.
Finish(w) ==
    /\ worker[w].pc = "busy"
    /\ \E status \in {"TERMINAL", "PENDING", row[worker[w].task]} :
         row' = [row EXCEPT ![worker[w].task] = status]
    /\ Goes(w, AfterTask(w))
    /\ UNCHANGED <<active, queue, claim, recovery, scheduler, stop>>

\* Or it deactivates the domain, if that is active.
BeginDeactivation(w) ==
    /\ worker[w].pc = "busy"
    /\ active
    /\ Goes(w, [worker[w] EXCEPT !.pc = "domain"])
    /\ UNCHANGED <<row, active, queue, claim, recovery, scheduler, stop>>

\* The UPDATE of the domain waits for another transaction's.
Deactivate(w) ==
    /\ worker[w].pc = "domain"
    /\ ~recovery.locks
    /\ row' = [row EXCEPT ![worker[w].task] = "TERMINAL"]
    /\ active' = FALSE
    /\ Goes(w, AfterTask(w))
    /\ UNCHANGED <<queue, claim, recovery, scheduler, stop>>

-----------------------------------------------------------------------------
(***************************************************************************)
(* The stop, one await after the other.                                    *)
(***************************************************************************)
\* The lifespan ends: shutdown, TaskManager.stop.
BeginShutdown ==
    /\ step = "serving"
    /\ step' = "claim"
    /\ UNCHANGED <<row, active, memory, turn, grace>>

\* A cancelled loop ends at the await it is in. Its session is rolled back; what
\* it has not put is lost to this instance.
StopClaimLoop ==
    /\ step = "claim"
    /\ claim' = Ended
    /\ step' = "recovery"
    /\ UNCHANGED <<row, active, queue, recovery, scheduler, worker, turn, grace>>

\* Mistake: the loop is awaited without having been cancelled.
AwaitRecoveryLoop ==
    /\ step = "recovery"
    /\ recovery.pc # "session"
    /\ recovery' = Ended
    /\ step' = "scheduler"
    /\ UNCHANGED <<row, active, queue, claim, scheduler, worker, turn, grace>>

StopRecoveryLoop ==
    /\ step = "recovery"
    /\ recovery' = Ended
    /\ step' = "scheduler"
    /\ UNCHANGED <<row, active, queue, claim, scheduler, worker, turn, grace>>

\* RefreshScheduler.stop; the pool begins to stop, and the timer starts.
StopScheduler ==
    /\ step = "scheduler"
    /\ scheduler' = "ended"
    /\ step' = "drain"
    /\ turn' = 1
    /\ grace' = "running"
    /\ UNCHANGED <<row, active, queue, claim, recovery, worker>>

\* Mistake: the pool does not await its workers.
NextWorkerAtOnce ==
    /\ step = "drain"
    /\ IF turn < WorkerCount
         THEN turn' = turn + 1 /\ UNCHANGED step
         ELSE step' = "completed" /\ UNCHANGED turn
    /\ UNCHANGED <<row, active, memory, grace>>

\* The worker it waits for has ended: it tells the next one to stop, which has
\* worked until now; after the last, the database is closed.
NextWorker ==
    /\ step = "drain"
    /\ worker[turn].pc = "ended"
    /\ IF turn < WorkerCount
         THEN turn' = turn + 1 /\ UNCHANGED step
         ELSE step' = "completed" /\ UNCHANGED turn
    /\ UNCHANGED <<row, active, memory, grace>>

\* wait_for cancels the await it is in, and with it the worker that is awaited.
\* Worker.stop takes the CancelledError for that worker's own and returns: the
\* pool goes on, gracefully and without a timer, and wait_for does not raise, so
\* that stop(graceful=False) is not called.
GraceExpires ==
    /\ step = "drain"
    /\ grace = "running"
    /\ worker[turn].pc # "ended"
    /\ grace' = "over"
    /\ Goes(turn, Gone)
    /\ UNCHANGED <<row, active, queue, claim, recovery, scheduler, step, turn>>

-----------------------------------------------------------------------------
ClaimLoop == ClaimTasks \/ ClaimPut \/ ClaimCycleEnds
RecoveryLoop == RecoverExpiredTasks \/ RecoveryPut \/ RecoveryDeactivate \/ RecoveryCycleEnds
WorkerLoop(w) == Get(w) \/ GetTimesOut(w) \/ Finish(w) \/ Deactivate(w)
Shutdown == StopClaimLoop \/ StopRecoveryLoop \/ StopScheduler \/ NextWorker

\* The process has ended.
Rest == step = "completed" /\ UNCHANGED vars

Next == \/ ClaimLoop \/ RecoveryLoop \/ SchedulerTick
        \/ \E w \in Workers : WorkerLoop(w) \/ BeginDeactivation(w)
        \/ BeginShutdown \/ Shutdown \/ GraceExpires
        \/ Rest

Spec == Init /\ [][Next]_vars

\* The coroutines of an instance go on when nothing makes them wait, and of two puts
\* that wait for room none is overtaken for ever. The timer may fire, or be in time.
FairSpec == /\ Spec
            /\ WF_vars(Shutdown) /\ SF_vars(RecoveryLoop)
            /\ \A w \in Workers : WF_vars(WorkerLoop(w))

-----------------------------------------------------------------------------
Loop == [pc : {"asleep", "session", "ended"}, locks : BOOLEAN, batch : Seq(Tasks)]
RecoveryRow == [task : Tasks, status : {"PENDING", "TERMINAL"}]

\* Every variable keeps to its type, and the queue to its capacity.
TypeOK ==
    /\ row \in [Tasks -> RowStatus]
    /\ active \in BOOLEAN
    /\ queue \in Seq(Tasks) /\ Len(queue) <= Capacity
    /\ claim \in Loop
    /\ recovery \in [pc : {"asleep", "session", "ended"}, locks : BOOLEAN,
                     batch : Seq(RecoveryRow)]
    /\ scheduler \in {"asleep", "session", "ended"}
    /\ worker \in [Workers -> [pc : {"get", "busy", "domain", "ended"},
                               task : Tasks \cup {NoTask}]]
    /\ step \in Step
    /\ turn \in 0 .. WorkerCount
    /\ grace \in {"unset", "running", "over"}

\* When the database is closed nothing is left that could use it: no loop, no
\* worker, no session and no lock on the domain.
NothingRunsAtTheEnd ==
    step = "completed" =>
      /\ claim.pc = "ended" /\ recovery.pc = "ended" /\ scheduler = "ended"
      /\ ~recovery.locks
      /\ \A w \in Workers : worker[w].pc = "ended"

\* Shutdown ends, also when the queue is full, every worker waits for the row of
\* the domain, and the session that has locked it waits for room in the queue.
ShutdownEnds == step = "claim" ~> step = "completed"

\* The recovery session has locked the row of the domain and waits for room in the
\* queue, while every worker waits for that row.
WaitCycle ==
    /\ recovery.locks /\ recovery.batch # <<>> /\ Len(queue) = Capacity
    /\ \A w \in Workers : worker[w].pc = "domain"

\* A recovery cycle ends, so that leases are looked at again, except in the one
\* cycle of waits that the row lock of _maybe_deactivate_domain makes possible:
\* neither a full queue nor workers that wait for the row keep it for ever.
SessionEndsUnlessWaitCycle ==
    recovery.pc = "session" ~> recovery.pc # "session" \/ WaitCycle

-----------------------------------------------------------------------------
(***************************************************************************)
(* What the repository's documents say and the code does not do: each is   *)
(* checked by a run that finds the behaviour that contradicts it.          *)
(***************************************************************************)

\* "Worker pool drain timed out, forcing stop" (shutdown.py), "drains remaining
\* in-flight tasks up to shutdown_grace_seconds" (ARCHITECTURE.md): once the
\* grace period is over, no worker takes another task from the queue.
NoTaskBegunAfterGrace == [][grace = "over" => \A w \in Workers : ~Get(w)]_vars
=============================================================================
