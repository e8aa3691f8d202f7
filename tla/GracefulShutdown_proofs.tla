------------------------ MODULE GracefulShutdown_proofs ------------------------
(***************************************************************************)
(* Theorems about GracefulShutdown, for any tasks, number of workers and   *)
(* capacity of the queue.                                                  *)
(***************************************************************************)
EXTENDS GracefulShutdown, SequenceTheorems, TLAPS

\* What the stop has waited for stays ended: the steps come in one order, and
\* nothing begins again what an earlier step has ended.
StoppedInOrder ==
    /\ step \in {"recovery", "scheduler", "drain", "completed"} => claim = Ended
    /\ step \in {"scheduler", "drain", "completed"} => recovery = Ended
    /\ step \in {"drain", "completed"} => scheduler = "ended" /\ turn \in Workers
    /\ step = "drain" => \A w \in Workers : w < turn => worker[w].pc = "ended"
    /\ step = "completed" => \A w \in Workers : worker[w].pc = "ended"

StopInv == TypeOK /\ StoppedInOrder

-----------------------------------------------------------------------------
\* A claimed batch is a sequence of tasks.
LEMMA BatchIsSeq ==
    ASSUME NEW S, NEW n \in Nat, Cardinality(S) \in 1 .. n, NEW q \in Orders(S)
    PROVE  q \in Seq(S) /\ DOMAIN q = 1 .. Cardinality(S)
<1>1. Cardinality(S) \in Nat
  OBVIOUS
<1>2. q \in [1 .. Cardinality(S) -> S]
  BY DEF Orders
<1>. QED
  BY <1>1, <1>2, SeqDef

\* There is never less than no room in the queue.
LEMMA BatchSizeType == ASSUME TypeOK PROVE BatchSize \in Nat
<1>1. Len(queue) \in Nat /\ Len(queue) <= Capacity
  BY LenProperties DEF TypeOK
<1>. QED
  BY <1>1, SomeWorkers, SomeCapacity DEF BatchSize, Free

LEMMA InitStopInv == Init => StopInv
<1> SUFFICES ASSUME Init PROVE StopInv
  OBVIOUS
<1>1. TypeOK
  <2>1. <<>> \in Seq(Tasks) /\ <<>> \in Seq(RecoveryRow) /\ Len(<<>>) = 0
    BY EmptySeq
  <2>. QED
    BY <2>1, SomeCapacity, SomeWorkers
       DEF Init, TypeOK, Loop, RowStatus, Step, Asleep, Waiting, Workers
<1>2. StoppedInOrder
  BY DEF Init, StoppedInOrder
<1>. QED
  BY <1>1, <1>2 DEF StopInv

-----------------------------------------------------------------------------
\* A put into a queue with room keeps it to its capacity.
LEMMA PutType ==
    ASSUME NEW q \in Seq(Tasks), Len(q) < Capacity, NEW t \in Tasks
    PROVE  Append(q, t) \in Seq(Tasks) /\ Len(Append(q, t)) <= Capacity
<1>1. Append(q, t) \in Seq(Tasks) /\ Len(Append(q, t)) = Len(q) + 1 /\ Len(q) \in Nat
  BY AppendProperties, LenProperties
<1>. QED
  BY <1>1, SomeCapacity

LEMMA StepTypeOK == StopInv /\ [Next]_vars => TypeOK'
<1> SUFFICES ASSUME StopInv, [Next]_vars PROVE TypeOK'
  OBVIOUS
<1> USE DEF StopInv, TypeOK, Loop
<1>0. /\ Asleep \in Loop /\ Ended \in Loop
      /\ Asleep \in [pc : {"asleep", "session", "ended"}, locks : BOOLEAN, batch : Seq(RecoveryRow)]
      /\ Ended \in [pc : {"asleep", "session", "ended"}, locks : BOOLEAN, batch : Seq(RecoveryRow)]
  BY DEF Asleep, Ended
<1>1. CASE ClaimTasks
  <2>1. PICK S \in SUBSET Tasks :
          /\ Cardinality(S) \in 1 .. BatchSize
          /\ row' = [t \in Tasks |-> IF t \in S THEN "PROCESSING" ELSE row[t]]
          /\ \E q \in Orders(S) : claim' = [claim EXCEPT !.pc = "session", !.batch = q]
    BY <1>1 DEF ClaimTasks
  <2>2. PICK q \in Orders(S) : claim' = [claim EXCEPT !.pc = "session", !.batch = q]
    BY <2>1
  <2>3. q \in Seq(Tasks)
    <3>1. q \in Seq(S)
      BY <2>1, BatchSizeType, BatchIsSeq
    <3>. QED
      BY <3>1
  <2>4. claim' \in Loop
    BY <2>2, <2>3
  <2>5. row' \in [Tasks -> RowStatus]
    BY <2>1 DEF RowStatus
  <2>. QED
    BY <1>1, <2>4, <2>5 DEF ClaimTasks, stop
<1>2. CASE ClaimPut
  <2>1. Head(claim.batch) \in Tasks /\ Tail(claim.batch) \in Seq(Tasks)
    BY <1>2, HeadTailProperties DEF ClaimPut
  <2>2. queue' \in Seq(Tasks) /\ Len(queue') <= Capacity
    BY <1>2, <2>1, PutType DEF ClaimPut
  <2>3. claim' \in Loop
    BY <1>2, <2>1 DEF ClaimPut
  <2>. QED
    BY <1>2, <2>2, <2>3 DEF ClaimPut, stop
<1>3. CASE ClaimCycleEnds
  BY <1>0, <1>3 DEF ClaimCycleEnds, AfterCycle, stop
<1>4. CASE RecoverExpiredTasks
  <2>1. PICK S \in SUBSET Tasks :
          /\ Cardinality(S) \in 1 .. BatchSize
          /\ \E exhausted \in SUBSET S :
               row' = [t \in Tasks |-> IF t \in exhausted THEN "TERMINAL"
                                       ELSE IF t \in S THEN "PENDING" ELSE row[t]]
          /\ \E q \in Orders(S) :
               recovery' = [recovery EXCEPT !.pc = "session",
                              !.batch = [i \in DOMAIN q |-> [task |-> q[i],
                                                             status |-> row'[q[i]]]]]
    BY <1>4 DEF RecoverExpiredTasks
  <2>2. PICK q \in Orders(S) :
          recovery' = [recovery EXCEPT !.pc = "session",
                         !.batch = [i \in DOMAIN q |-> [task |-> q[i],
                                                        status |-> row'[q[i]]]]]
    BY <2>1
  <2> DEFINE batch == [i \in DOMAIN q |-> [task |-> q[i], status |-> row'[q[i]]]]
  <2>3. q \in Seq(S) /\ DOMAIN q = 1 .. Cardinality(S) /\ Cardinality(S) \in Nat
    BY <2>1, BatchSizeType, BatchIsSeq
  <2>4. \A i \in 1 .. Cardinality(S) : q[i] \in S
    BY <2>3
  <2>5. \A t \in S : row'[t] \in {"PENDING", "TERMINAL"}
    BY <2>1
  <2>6. batch \in [1 .. Cardinality(S) -> RecoveryRow]
    BY <2>3, <2>4, <2>5 DEF RecoveryRow
  <2>7. batch \in Seq(RecoveryRow)
    BY <2>3, <2>6, SeqDef
  <2> HIDE DEF batch
  <2>8. recovery' = [recovery EXCEPT !.pc = "session", !.batch = batch]
    BY <2>2 DEF batch
  <2>9. recovery' \in [pc : {"asleep", "session", "ended"}, locks : BOOLEAN,
                       batch : Seq(RecoveryRow)]
    BY <2>7, <2>8
  <2>10. row' \in [Tasks -> RowStatus]
    BY <2>1 DEF RowStatus
  <2>. QED
    BY <1>4, <2>9, <2>10 DEF RecoverExpiredTasks, stop
<1>5. CASE RecoveryPut
  <2>1. Head(recovery.batch) \in RecoveryRow /\ Tail(recovery.batch) \in Seq(RecoveryRow)
    BY <1>5, HeadTailProperties DEF RecoveryPut
  <2>2. Head(recovery.batch).task \in Tasks
    BY <2>1 DEF RecoveryRow
  <2>3. queue' \in Seq(Tasks) /\ Len(queue') <= Capacity
    BY <1>5, <2>2, PutType DEF RecoveryPut
  <2>4. recovery' \in [pc : {"asleep", "session", "ended"}, locks : BOOLEAN,
                       batch : Seq(RecoveryRow)]
    BY <1>5, <2>1 DEF RecoveryPut
  <2>. QED
    BY <1>5, <2>3, <2>4 DEF RecoveryPut, stop
<1>6. CASE RecoveryDeactivate
  <2>1. Tail(recovery.batch) \in Seq(RecoveryRow)
    BY <1>6, HeadTailProperties DEF RecoveryDeactivate
  <2>2. recovery' \in [pc : {"asleep", "session", "ended"}, locks : BOOLEAN,
                       batch : Seq(RecoveryRow)]
    BY <1>6, <2>1 DEF RecoveryDeactivate
  <2>. QED
    BY <1>6, <2>2 DEF RecoveryDeactivate, stop
<1>7. CASE RecoveryCycleEnds
  BY <1>0, <1>7 DEF RecoveryCycleEnds, AfterCycle, stop
<1>8. CASE SchedulerTick
  BY <1>8 DEF SchedulerTick, stop
<1>9. ASSUME NEW w \in Workers, WorkerLoop(w) \/ BeginDeactivation(w) PROVE TypeOK'
  <2> USE DEF Goes, AfterTask, Waiting, Gone, stop
  <2>1. CASE Get(w)
    <3>1. Head(queue) \in Tasks /\ Tail(queue) \in Seq(Tasks) /\ Len(Tail(queue)) = Len(queue) - 1
          /\ Len(queue) \in Nat
      BY <2>1, HeadTailProperties, LenProperties DEF Get
    <3>2. worker' \in [Workers -> [pc : {"get", "busy", "domain", "ended"},
                                   task : Tasks \cup {NoTask}]]
      BY <2>1, <3>1 DEF Get
    <3>. QED
      BY <2>1, <3>1, <3>2, SomeCapacity DEF Get
  <2>2. CASE GetTimesOut(w)
    BY <2>2 DEF GetTimesOut
  <2>3. CASE Finish(w)
    <3>1. PICK s \in {"TERMINAL", "PENDING", row[worker[w].task]} :
            row' = [row EXCEPT ![worker[w].task] = s]
      BY <2>3 DEF Finish
    <3>2. row' \in [Tasks -> RowStatus]
      BY <3>1 DEF RowStatus
    <3>. QED
      BY <2>3, <3>2 DEF Finish
  <2>4. CASE Deactivate(w)
    BY <2>4 DEF Deactivate, RowStatus
  <2>5. CASE BeginDeactivation(w)
    BY <2>5 DEF BeginDeactivation
  <2>. QED
    BY <1>9, <2>1, <2>2, <2>3, <2>4, <2>5 DEF WorkerLoop
<1>10. CASE BeginShutdown
  BY <1>10 DEF BeginShutdown, memory, Step
<1>11. CASE StopClaimLoop \/ StopRecoveryLoop
  BY <1>0, <1>11 DEF StopClaimLoop, StopRecoveryLoop, Step
<1>12. CASE StopScheduler
  BY <1>12, SomeWorkers DEF StopScheduler, Step
<1>13. CASE NextWorker
  BY <1>13, SomeWorkers DEF NextWorker, memory, Step, StoppedInOrder, Workers
<1>14. CASE GraceExpires
  BY <1>14 DEF GraceExpires, Goes, Gone, StoppedInOrder
<1>15. CASE UNCHANGED vars
  BY <1>15 DEF vars, memory, stop
<1>. QED
  BY <1>1, <1>2, <1>3, <1>4, <1>5, <1>6, <1>7, <1>8, <1>9, <1>10, <1>11, <1>12, <1>13, <1>14, <1>15
     DEF Next, ClaimLoop, RecoveryLoop, Shutdown, Rest

-----------------------------------------------------------------------------
LEMMA StepStoppedInOrder == StopInv /\ [Next]_vars => StoppedInOrder'
<1> SUFFICES ASSUME StopInv, [Next]_vars PROVE StoppedInOrder'
  OBVIOUS
<1> USE DEF StopInv, StoppedInOrder
<1>1. CASE ClaimLoop
  <2>1. UNCHANGED <<recovery, scheduler, worker, stop>> /\ claim.pc # "ended"
    BY <1>1 DEF ClaimLoop, ClaimTasks, ClaimPut, ClaimCycleEnds
  <2>2. claim # Ended
    BY <2>1 DEF Ended
  <2>. QED
    BY <2>1, <2>2 DEF stop
<1>2. CASE RecoveryLoop
  <2>1. /\ UNCHANGED <<claim, scheduler, worker, stop>>
        /\ recovery.pc # "ended" \/ recovery.batch # <<>>
    <3>1. CASE RecoverExpiredTasks
      BY <3>1 DEF RecoverExpiredTasks
    <3>2. CASE RecoveryPut \/ RecoveryDeactivate
      BY <3>2 DEF RecoveryPut, RecoveryDeactivate
    <3>3. CASE RecoveryCycleEnds
      BY <3>3 DEF RecoveryCycleEnds
    <3>. QED
      BY <1>2, <3>1, <3>2, <3>3 DEF RecoveryLoop
  <2>2. recovery # Ended
    BY <2>1 DEF Ended
  <2>. QED
    BY <2>1, <2>2 DEF stop
<1>3. CASE SchedulerTick
  BY <1>3 DEF SchedulerTick, stop
<1>4. ASSUME NEW w \in Workers, WorkerLoop(w) \/ BeginDeactivation(w)
      PROVE  StoppedInOrder'
  <2>1. worker[w].pc # "ended" /\ UNCHANGED <<claim, recovery, scheduler, stop>>
    BY <1>4 DEF WorkerLoop, Get, GetTimesOut, Finish, Deactivate, BeginDeactivation
  <2>2. \A v \in Workers : v # w => worker'[v] = worker[v]
    BY <1>4 DEF WorkerLoop, Get, GetTimesOut, Finish, Deactivate, BeginDeactivation, Goes, TypeOK
  <2>. QED
    BY <2>1, <2>2 DEF stop
<1>5. CASE BeginShutdown
  BY <1>5 DEF BeginShutdown, memory
<1>6. CASE StopClaimLoop \/ StopRecoveryLoop
  BY <1>6 DEF StopClaimLoop, StopRecoveryLoop
<1>7. CASE StopScheduler
  <2>1. \A w \in Workers : ~(w < 1)
    BY SomeWorkers DEF Workers
  <2>. QED
    BY <1>7, <2>1, SomeWorkers DEF StopScheduler, Workers
<1>8. CASE NextWorker
  <2>1. turn \in Workers /\ worker[turn].pc = "ended"
    BY <1>8 DEF NextWorker
  <2>2. \A w \in Workers : w < turn + 1 => worker[w].pc = "ended"
    BY <1>8, <2>1 DEF NextWorker, Workers
  <2>3. CASE turn < WorkerCount
    BY <1>8, <2>1, <2>2, <2>3, SomeWorkers DEF NextWorker, memory, Workers
  <2>4. CASE ~(turn < WorkerCount)
    <3>1. \A w \in Workers : w < turn + 1
      BY <2>1, <2>4, SomeWorkers DEF Workers
    <3>. QED
      BY <1>8, <2>1, <2>2, <2>4, <3>1 DEF NextWorker, memory
  <2>. QED
    BY <2>3, <2>4
<1>9. CASE GraceExpires
  BY <1>9 DEF GraceExpires, Goes, Gone, TypeOK
<1>10. CASE UNCHANGED vars
  BY <1>10 DEF vars, memory, stop
<1>. QED
  BY <1>1, <1>2, <1>3, <1>4, <1>5, <1>6, <1>7, <1>8, <1>9, <1>10 DEF Next, Shutdown, Rest

LEMMA StepStopInv == StopInv /\ [Next]_vars => StopInv'
  BY StepTypeOK, StepStoppedInOrder DEF StopInv

LEMMA StopInvariant == Spec => []StopInv
  BY InitStopInv, StepStopInv, PTL DEF Spec

\* The loops, the pool and the stop keep every variable to its type, and no put of
\* the claim loop or the recovery loop takes the queue over its capacity.
THEOREM StopTypeCorrect == Spec => []TypeOK
  BY StopInvariant, PTL DEF StopInv

\* ShutdownCoordinator.shutdown and the stop methods it awaits, for any number of
\* workers: what has been stopped does not begin again while the rest is stopped,
\* so that at the end, where the database is closed, nothing runs.
THEOREM NothingRuns == Spec => []NothingRunsAtTheEnd
<1>1. StopInv => NothingRunsAtTheEnd
  BY DEF StopInv, StoppedInOrder, NothingRunsAtTheEnd, Ended
<1>. QED
  BY <1>1, StopInvariant, PTL
=============================================================================
