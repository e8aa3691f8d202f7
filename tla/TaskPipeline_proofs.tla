------------------------ MODULE TaskPipeline_proofs ------------------------
(***************************************************************************)
(* Theorems about TaskPipeline, for any instances, workers, tasks and      *)
(* bounds.                                                                 *)
(***************************************************************************)
EXTENDS TaskPipeline, FiniteSetTheorems, TLAPS

USE DEF TaskRow, TaskStatus, Lease, RecState

\* What the session flushes is a task row, with the attempts it finds there: no
\* helper assigns attempts, so the column is never written.
LEMMA FlushedRow ==
  ASSUME NEW now \in TaskRow, NEW seen \in TaskRow, NEW k \in Writes
  PROVE  /\ Flushed(now, seen, Assigned(k, seen)) \in TaskRow
         /\ Flushed(now, seen, Assigned(k, seen)).attempts = now.attempts
         /\ Flushed(now, seen, Assigned(k, seen)).status \in
              {now.status, Assigned(k, seen).status}
         /\ Assigned(k, seen).status \in {"PENDING", "COMPLETED", "FAILED"}
         /\ Assigned(k, seen).status = "PENDING" =>
              k = "reschedule" /\ seen.attempts < MaxAttempts
<1>1. CASE k = "complete"
  BY <1>1 DEF Flushed, Assigned, Column
<1>2. CASE k \in {"fail", "fail_deactivate"}
  BY <1>2 DEF Flushed, Assigned, Column
<1>3. CASE k = "reschedule"
  <2>1. CASE seen.attempts >= MaxAttempts
    BY <1>3, <2>1 DEF Flushed, Assigned, Column
  <2>2. CASE seen.attempts < MaxAttempts
    BY <1>3, <2>2 DEF Flushed, Assigned, Column
  <2>3. QED
    BY <2>1, <2>2, BoundsAssumption
<1>4. QED
  BY <1>1, <1>2, <1>3 DEF Writes

LEMMA BatchIsNat ==
  ASSUME TypeOK, NEW i \in Instances
  PROVE  Smaller(AvailableCapacity(i), Concurrency(i)) \in Nat
<1>1. Concurrency(i) \in Nat
  <2>1. {w \in Workers : Host[w] = i} \subseteq Workers
    OBVIOUS
  <2>2. QED
    BY <2>1, WorkersAssumption, FS_Subset, FS_CardinalityType DEF Concurrency
<1>2. AvailableCapacity(i) \in Nat
  BY BoundsAssumption DEF AvailableCapacity, TypeOK
<1>3. QED
  BY <1>1, <1>2 DEF Smaller

\* A put in a queue with room.
LEMMA PutFits ==
  ASSUME TypeOK, NEW i \in Instances, NEW t \in Tasks, Len(queue[i]) < QueueCapacity,
         queue' = [queue EXCEPT ![i] = Append(@, t)]
  PROVE  /\ queue' \in [Instances -> Seq(Tasks)]
         /\ \A j \in Instances : Len(queue'[j]) <= QueueCapacity
<1>1. /\ Append(queue[i], t) \in Seq(Tasks)
      /\ Len(Append(queue[i], t)) = Len(queue[i]) + 1
  BY DEF TypeOK
<1>2. Len(queue[i]) + 1 <= QueueCapacity
  BY BoundsAssumption DEF TypeOK
<1>3. QED
  BY <1>1, <1>2 DEF TypeOK

\* What the recovery cycle is left with, also when the reply of its commit is
\* lost.
LEMMA RecoveryStep ==
  ASSUME NEW i \in Instances, RecoverExpiredTasks(i)
  PROVE  \E T \in Limited(Expired, rec[i].batch) :
           /\ row' = [t \in Tasks |-> IF t \in T THEN Recovered(row[t]) ELSE row[t]]
           /\ \E put, exhausted \in SUBSET T :
                 rec' = [rec EXCEPT ![i] = [batch |-> 0, put |-> put, exhausted |-> exhausted,
                                            locks |-> {}]]
<1> DEFINE retried(S) == {t \in S : row'[t].status = "PENDING"}
<1>1. PICK T \in Limited(Expired, rec[i].batch) :
        /\ row' = [t \in Tasks |-> IF t \in T THEN Recovered(row[t]) ELSE row[t]]
        /\ \/ rec' = [rec EXCEPT ![i] = [batch |-> 0, put |-> retried(T),
                                         exhausted |-> T \ retried(T), locks |-> {}]]
           \/ rec' = [rec EXCEPT ![i] = IdleRec]
  BY DEF RecoverExpiredTasks
<1>2. CASE rec' = [rec EXCEPT ![i] = [batch |-> 0, put |-> retried(T),
                                      exhausted |-> T \ retried(T), locks |-> {}]]
  <2>1. retried(T) \in SUBSET T /\ T \ retried(T) \in SUBSET T
    OBVIOUS
  <2> HIDE DEF retried
  <2>2. QED
    BY <1>1, <1>2, <2>1
<1>3. CASE rec' = [rec EXCEPT ![i] = IdleRec]
  <2>1. {} \in SUBSET T
    OBVIOUS
  <2>2. QED
    BY <1>1, <1>3, <2>1 DEF IdleRec
<1>4. QED
  BY <1>1, <1>2, <1>3

LEMMA DeactivateStep ==
  ASSUME NEW i \in Instances, RecoveryDeactivate(i)
  PROVE  \E t \in rec[i].exhausted :
           \E locks \in {rec[i].locks, rec[i].locks \cup {DomainOf[t]}} :
             rec' = [rec EXCEPT ![i].exhausted = @ \ {t}, ![i].locks = locks]
<1>1. PICK t \in rec[i].exhausted :
        rec' = [rec EXCEPT ![i].exhausted = @ \ {t},
                           ![i].locks = IF active[DomainOf[t]] THEN @ \cup {DomainOf[t]} ELSE @]
  BY DEF RecoveryDeactivate
<1>2. CASE active[DomainOf[t]]
  BY <1>1, <1>2
<1>3. CASE ~active[DomainOf[t]]
  BY <1>1, <1>3
<1>4. QED
  BY <1>2, <1>3

-----------------------------------------------------------------------------
LEMMA InitTypeOK == Init => TypeOK
<1> SUFFICES ASSUME Init PROVE TypeOK
  OBVIOUS
<1>1. NewRow \in TaskRow
  BY DEF NewRow
<1>2. IdleWorker \in WorkerState
  BY <1>1 DEF IdleWorker, WorkerState, WorkerPC, Writes
<1>3. QED
  BY <1>1, <1>2, BoundsAssumption DEF Init, TypeOK, IdleClaim, IdleRec, JobStatus

LEMMA StepTypeOK == TypeOK /\ [Next]_vars => TypeOK'
<1> SUFFICES ASSUME TypeOK, [Next]_vars PROVE TypeOK'
  OBVIOUS
<1> USE BoundsAssumption DEF TypeOK
<1>1. ASSUME NEW i \in Instances, ClaimSize(i) PROVE TypeOK'
  BY <1>1, BatchIsNat, ZenonT(60) DEF ClaimSize
<1>2. ASSUME NEW i \in Instances, ClaimTasks(i) PROVE TypeOK'
  <2>1. PICK T \in Limited(Pending, claim[i].batch) :
          /\ row' = [t \in Tasks |-> IF t \in T THEN Claimed(row[t]) ELSE row[t]]
          /\ \E put \in SUBSET T : claim' = [claim EXCEPT ![i] = [batch |-> 0, put |-> put]]
    BY <1>2 DEF ClaimTasks
  <2>2. T \subseteq Tasks
    BY <2>1 DEF Limited, Pending
  <2>3. row' \in [Tasks -> TaskRow]
    BY <2>1 DEF Claimed
  <2>4. claim' \in [Instances -> [batch : Nat, put : SUBSET Tasks]]
    BY <2>1, <2>2
  <2>5. QED
    BY <1>2, <2>3, <2>4 DEF ClaimTasks
<1>3. ASSUME NEW i \in Instances, ClaimPut(i) PROVE TypeOK'
  <2>1. PICK t \in claim[i].put :
          /\ Len(queue[i]) < QueueCapacity
          /\ queue' = [queue EXCEPT ![i] = Append(@, t)]
          /\ claim' = [claim EXCEPT ![i].put = @ \ {t}]
    BY <1>3 DEF ClaimPut
  <2>2. t \in Tasks
    OBVIOUS
  <2>3. claim' \in [Instances -> [batch : Nat, put : SUBSET Tasks]]
    <3>1. [claim[i] EXCEPT !.put = @ \ {t}] \in [batch : Nat, put : SUBSET Tasks]
      BY ZenonT(60)
    <3>2. QED
      BY <2>1, <3>1
  <2>4. QED
    BY <1>3, <2>1, <2>2, <2>3, PutFits DEF ClaimPut
<1>4. ASSUME NEW i \in Instances, RecoverySize(i) PROVE TypeOK'
  BY <1>4, BatchIsNat DEF RecoverySize
<1>5. ASSUME NEW i \in Instances, RecoverExpiredTasks(i) PROVE TypeOK'
  <2>1. PICK T \in Limited(Expired, rec[i].batch) :
          /\ row' = [t \in Tasks |-> IF t \in T THEN Recovered(row[t]) ELSE row[t]]
          /\ \E put, exhausted \in SUBSET T :
                rec' = [rec EXCEPT ![i] = [batch |-> 0, put |-> put, exhausted |-> exhausted,
                                           locks |-> {}]]
    BY <1>5, RecoveryStep
  <2>2. T \subseteq Tasks
    BY <2>1 DEF Limited, Expired
  <2>3. row' \in [Tasks -> TaskRow]
    BY <2>1 DEF Recovered
  <2>4. rec' \in [Instances -> RecState]
    BY <2>1, <2>2
  <2>5. QED
    BY <1>5, <2>3, <2>4 DEF RecoverExpiredTasks
<1>6. ASSUME NEW i \in Instances, RecoveryPut(i) PROVE TypeOK'
  <2>1. PICK t \in rec[i].put :
          /\ Len(queue[i]) < QueueCapacity
          /\ queue' = [queue EXCEPT ![i] = Append(@, t)]
          /\ rec' = [rec EXCEPT ![i].put = @ \ {t}]
    BY <1>6 DEF RecoveryPut
  <2>2. t \in Tasks
    OBVIOUS
  <2>3. rec' \in [Instances -> RecState]
    BY <2>1
  <2>4. QED
    BY <1>6, <2>1, <2>2, <2>3, PutFits DEF RecoveryPut
<1>7. ASSUME NEW i \in Instances, RecoveryDeactivate(i) PROVE TypeOK'
  <2>1. PICK t \in rec[i].exhausted :
          \E locks \in {rec[i].locks, rec[i].locks \cup {DomainOf[t]}} :
            rec' = [rec EXCEPT ![i].exhausted = @ \ {t}, ![i].locks = locks]
    BY <1>7, DeactivateStep
  <2>2. rec[i] \in RecState /\ DomainOf[t] \in Domains
    BY DomainAssumption
  <2>3. rec' \in [Instances -> RecState]
    <3>1. PICK locks \in SUBSET Domains :
            rec' = [rec EXCEPT ![i].exhausted = @ \ {t}, ![i].locks = locks]
      BY <2>1, <2>2
    <3>2. [rec[i] EXCEPT !.exhausted = @ \ {t}, !.locks = locks] \in RecState
      BY <2>2
    <3>3. QED
      BY <3>1, <3>2
  <2>4. QED
    BY <1>7, <2>3 DEF RecoveryDeactivate
<1>8. ASSUME NEW w \in Workers, WorkerGet(w) PROVE TypeOK'
  <2> DEFINE i == Host[w]
  <2>1. i \in Instances /\ queue[i] \in Seq(Tasks) /\ queue[i] # <<>>
    BY <1>8, HostAssumption DEF WorkerGet
  <2>2. /\ Head(queue[i]) \in Tasks
        /\ Tail(queue[i]) \in Seq(Tasks)
        /\ Len(Tail(queue[i])) = Len(queue[i]) - 1
    BY <2>1
  <2>3. [worker[w] EXCEPT !.pc = "working", !.task = Head(queue[i])] \in WorkerState
    <3>1. worker[w] \in WorkerState
      BY DEF TypeOK
    <3>2. SUFFICES ASSUME NEW t \in Tasks
                   PROVE  [worker[w] EXCEPT !.pc = "working", !.task = t] \in WorkerState
      BY <2>2
    <3> HIDE DEF i
    <3>3. QED
      BY <3>1, ZenonT(60) DEF WorkerState, WorkerPC
  <2>4. worker' \in [Workers -> WorkerState]
    BY <1>8, <2>3 DEF WorkerGet
  <2>5. queue' = [queue EXCEPT ![i] = Tail(@)]
    BY <1>8 DEF WorkerGet
  <2>6. queue' \in [Instances -> Seq(Tasks)]
    BY <2>1, <2>2, <2>5
  <2>7. \A j \in Instances : Len(queue'[j]) <= QueueCapacity
    BY <2>1, <2>2, <2>5
  <2>8. QED
    BY <1>8, <2>4, <2>6, <2>7 DEF WorkerGet
<1>9. ASSUME NEW w \in Workers, NEW k \in Writes,
             WorkerSelect(w, k) \/ WorkerSelectAgain(w, k)
      PROVE  TypeOK'
  <2>1. PICK pc \in {"writing", "rewriting"} : WorkerSelects(w, k, pc) /\ worker[w].pc # "idle"
    BY <1>9 DEF WorkerSelect, WorkerSelectAgain
  <2>2. worker[w].task \in Tasks
    BY <2>1 DEF WorkerState
  <2>3. [worker[w] EXCEPT !.pc = pc, !.write = k, !.seen = row[worker[w].task]] \in WorkerState
    BY <2>2, ZenonT(60) DEF WorkerState, WorkerPC
  <2>4. QED
    BY <2>1, <2>3 DEF WorkerSelects
<1>10. IdleWorker \in WorkerState
  BY DEF IdleWorker, WorkerState, WorkerPC, Writes, NewRow
<1>11. ASSUME NEW w \in Workers, Write(w)
       PROVE  /\ row' \in [Tasks -> TaskRow]
              /\ job' \in [Jobs -> JobStatus]
              /\ active' \in [Domains -> BOOLEAN]
  <2> DEFINE t == worker[w].task
             k == worker[w].write
             seen == worker[w].seen
  <2>1. t \in Tasks /\ k \in Writes /\ seen \in TaskRow
    BY <1>11 DEF Write, WorkerState
  <2>2. row' = [row EXCEPT ![t] = Flushed(row[t], seen, Assigned(k, seen))]
    BY <1>11, <2>1 DEF Write
  <2>3. row' \in [Tasks -> TaskRow]
    <3>1. row[t] \in TaskRow
      BY <2>1
    <3>2. Flushed(row[t], seen, Assigned(k, seen)) \in TaskRow
      BY <2>1, <3>1, FlushedRow
    <3>3. QED
      BY <2>2, <3>2
  <2>4. job' \in [Jobs -> JobStatus]
    BY <1>11 DEF Write, JobAfter, JobStatus
  <2>5. active' \in [Domains -> BOOLEAN]
    <3>1. active' = [active EXCEPT ![DomainOf[t]] = @ /\ ~Deactivates(k, seen)]
      BY <1>11 DEF Write
    <3>2. QED
      BY <3>1
  <2>6. QED
    BY <2>3, <2>4, <2>5
<1>12. ASSUME NEW w \in Workers, WorkerCommit(w) PROVE TypeOK'
  BY <1>10, <1>11, <1>12 DEF WorkerCommit
<1>13. ASSUME NEW w \in Workers, worker[w].pc # "idle" PROVE Failing(worker[w].task) \in WorkerState
  BY <1>13 DEF Failing, WorkerState, WorkerPC, Writes, NewRow
<1>14. ASSUME NEW w \in Workers, WorkerCommitLost(w) PROVE TypeOK'
  BY <1>11, <1>13, <1>14 DEF WorkerCommitLost
<1>15. ASSUME NEW w \in Workers, WorkerRaises(w) PROVE TypeOK'
  BY <1>13, <1>15 DEF WorkerRaises
<1>16. ASSUME NEW w \in Workers, WorkerGivesUp(w) PROVE TypeOK'
  BY <1>10, <1>16 DEF WorkerGivesUp
<1>17. ASSUME NEW i \in Instances, ClaimFails(i) PROVE TypeOK'
  BY <1>17 DEF ClaimFails, IdleClaim
<1>18. ASSUME NEW i \in Instances, RecoveryEnds(i) \/ RecoveryFails(i) PROVE TypeOK'
  <2>1. IdleRec \in RecState
    BY DEF IdleRec
  <2>2. rec' = [rec EXCEPT ![i] = IdleRec]
    BY <1>18 DEF RecoveryEnds, RecoveryFails
  <2>3. QED
    BY <1>18, <2>1, <2>2 DEF RecoveryEnds, RecoveryFails
<1>19. ASSUME NEW t \in Tasks, LeaseExpires(t) PROVE TypeOK'
  BY <1>19 DEF LeaseExpires
<1>20. ASSUME NEW i \in Instances, Crash(i) PROVE TypeOK'
  BY <1>10, <1>20 DEF Crash, IdleClaim, IdleRec
<1>21. CASE UNCHANGED vars
  BY <1>21 DEF vars
<1>22. QED
  BY <1>1, <1>2, <1>3, <1>4, <1>5, <1>6, <1>7, <1>8, <1>9, <1>12, <1>14, <1>15, <1>16, <1>17,
     <1>18, <1>19, <1>20, <1>21
     DEF Next, ClaimLoop, RecoveryLoop, WorkerStep

\* Every variable keeps its type: no loop of the Task Manager and no write of a
\* worker leaves the rows, and no put overfills a queue.
THEOREM TypeCorrect == Spec => []TypeOK
BY InitTypeOK, StepTypeOK, PTL DEF Spec

-----------------------------------------------------------------------------
(***************************************************************************)
(* What a step does to one task row.                                       *)
(***************************************************************************)
LEMMA ClaimedRows ==
  ASSUME TypeOK, NEW i \in Instances, ClaimTasks(i)
  PROVE  \A t \in Tasks : \/ row'[t] = row[t] /\ t \notin claim'[i].put
                          \/ row[t].status = "PENDING" /\ row'[t] = Claimed(row[t])
<1>1. PICK T \in Limited(Pending, claim[i].batch) :
        /\ row' = [t \in Tasks |-> IF t \in T THEN Claimed(row[t]) ELSE row[t]]
        /\ \E put \in SUBSET T : claim' = [claim EXCEPT ![i] = [batch |-> 0, put |-> put]]
  BY DEF ClaimTasks
<1>2. T \subseteq Pending /\ claim'[i].put \subseteq T
  BY <1>1 DEF Limited, TypeOK
<1>3. QED
  BY <1>1, <1>2 DEF Pending

LEMMA RecoveredRows ==
  ASSUME TypeOK, NEW i \in Instances, RecoverExpiredTasks(i)
  PROVE  \A t \in Tasks : \/ row'[t] = row[t] /\ t \notin rec'[i].put
                          \/ row[t].status = "PROCESSING" /\ row'[t] = Recovered(row[t])
<1>1. PICK T \in Limited(Expired, rec[i].batch) :
        /\ row' = [t \in Tasks |-> IF t \in T THEN Recovered(row[t]) ELSE row[t]]
        /\ \E put, exhausted \in SUBSET T :
              rec' = [rec EXCEPT ![i] = [batch |-> 0, put |-> put, exhausted |-> exhausted,
                                         locks |-> {}]]
  BY RecoveryStep
<1>2. T \subseteq Expired /\ rec'[i].put \subseteq T
  BY <1>1 DEF Limited, TypeOK
<1>3. QED
  BY <1>1, <1>2 DEF Expired

LEMMA CommittedRow ==
  ASSUME TypeOK, NEW w \in Workers, Write(w)
  PROVE  /\ worker[w].task \in Tasks /\ worker[w].write \in Writes
         /\ worker[w].seen \in TaskRow
         /\ row' = [row EXCEPT ![worker[w].task] =
                      Flushed(row[worker[w].task], worker[w].seen,
                              Assigned(worker[w].write, worker[w].seen))]
         /\ row'[worker[w].task].attempts = row[worker[w].task].attempts
<1>1. /\ worker[w].task \in Tasks /\ worker[w].write \in Writes
      /\ worker[w].seen \in TaskRow
  BY DEF TypeOK, WorkerState, Write
<1>2. row' = [row EXCEPT ![worker[w].task] =
                Flushed(row[worker[w].task], worker[w].seen,
                        Assigned(worker[w].write, worker[w].seen))]
  BY <1>1 DEF Write, TypeOK
<1>3. row[worker[w].task] \in TaskRow
  BY <1>1 DEF TypeOK
<1>4. QED
  BY <1>1, <1>2, <1>3, FlushedRow, SMTT(30) DEF TypeOK

\* The steps that leave every row alone.
LEMMA OtherRows ==
  ASSUME [Next]_vars,
         \A i \in Instances : ~ClaimTasks(i) /\ ~RecoverExpiredTasks(i),
         \A w \in Workers : ~Write(w),
         \A t \in Tasks : ~LeaseExpires(t)
  PROVE  row' = row
BY DEF Next, vars, ClaimLoop, RecoveryLoop, WorkerStep, ClaimSize, ClaimFails, ClaimPut,
       RecoverySize, RecoveryEnds, RecoveryFails, RecoveryPut, RecoveryDeactivate, WorkerGet, WorkerSelect,
       WorkerSelectAgain, WorkerSelects, WorkerCommit, WorkerCommitLost, WorkerRaises,
       WorkerGivesUp, Crash

LEMMA StepAttempts ==
  ASSUME TypeOK, [Next]_vars, NEW t \in Tasks
  PROVE  \/ row'[t].attempts = row[t].attempts
         \/ row[t].status = "PENDING" /\ row'[t] = Claimed(row[t])
<1>1. ASSUME NEW i \in Instances, ClaimTasks(i)
      PROVE  \/ row'[t].attempts = row[t].attempts
             \/ row[t].status = "PENDING" /\ row'[t] = Claimed(row[t])
  BY <1>1, ClaimedRows
<1>2. ASSUME NEW i \in Instances, RecoverExpiredTasks(i)
      PROVE  row'[t].attempts = row[t].attempts
  <2>1. row'[t] = row[t] \/ row'[t] = Recovered(row[t])
    BY <1>2, RecoveredRows
  <2>2. QED
    BY <2>1 DEF Recovered
<1>3. ASSUME NEW w \in Workers, Write(w) PROVE row'[t].attempts = row[t].attempts
  <2>1. CASE t = worker[w].task
    BY <1>3, <2>1, CommittedRow
  <2>2. CASE t # worker[w].task
    <3>1. row' = [row EXCEPT ![worker[w].task] =
                    Flushed(row[worker[w].task], worker[w].seen,
                            Assigned(worker[w].write, worker[w].seen))]
      BY <1>3, CommittedRow
    <3>2. QED
      BY <2>2, <3>1 DEF TypeOK
  <2>3. QED
    BY <2>1, <2>2
<1>4. ASSUME NEW u \in Tasks, LeaseExpires(u) PROVE row'[t].attempts = row[t].attempts
  BY <1>4 DEF LeaseExpires, TypeOK
<1>5. QED
  BY <1>1, <1>2, <1>3, <1>4, OtherRows

\* claim_tasks is the sole owner of attempts: no write of a worker, however
\* stale the row it selected, loses or adds an attempt.
THEOREM AttemptsCounted == Spec => AttemptsCountClaims
<1>1. TypeOK /\ [Next]_vars =>
        [\A t \in Tasks : row'[t].attempts # row[t].attempts =>
            row[t].status = "PENDING" /\ row'[t] = Claimed(row[t])]_vars
  BY StepAttempts
<1>2. QED
  BY TypeCorrect, <1>1, PTL DEF Spec, AttemptsCountClaims

-----------------------------------------------------------------------------
(***************************************************************************)
(* How far past max_attempts a task can be claimed.                        *)
(***************************************************************************)
\* The workers about to put t back in PENDING on the strength of a selection
\* from before the limit.
Stale(t) == {w \in Workers : /\ worker[w].pc \in {"writing", "rewriting"}
                             /\ worker[w].task = t
                             /\ worker[w].write = "reschedule"
                             /\ worker[w].seen.attempts < MaxAttempts}

ClaimsDue(t) == IF row[t].status = "PENDING" THEN 1 ELSE 0

\* From the limit on nobody new becomes stale, and each claim spends a PENDING
\* that one stale worker paid for: AttemptsBounded alone says nothing of a
\* PENDING row at the bound.
StalePaysForClaim ==
    \A t \in Tasks : row[t].attempts >= MaxAttempts =>
      row[t].attempts + ClaimsDue(t) + Cardinality(Stale(t))
        <= MaxAttempts + Cardinality(Workers)

LEMMA StaleFinite ==
  ASSUME NEW t
  PROVE  /\ IsFiniteSet(Stale(t)) /\ Cardinality(Stale(t)) \in Nat
         /\ Cardinality(Workers) \in Nat /\ Cardinality(Stale(t)) <= Cardinality(Workers)
<1>1. Stale(t) \in SUBSET Workers
  BY DEF Stale
<1>2. QED
  BY <1>1, WorkersAssumption, FS_Subset, FS_CardinalityType

\* A task at its limit that takes no claim and is not made PENDING stays within
\* the bound when no worker becomes stale for it.
LEMMA BoundKept ==
  ASSUME TypeOK, TypeOK', StalePaysForClaim, NEW t \in Tasks,
         row'[t].attempts = row[t].attempts,
         row'[t].status = "PENDING" => row[t].status = "PENDING",
         Stale(t)' \subseteq Stale(t), row'[t].attempts >= MaxAttempts
  PROVE  row'[t].attempts + ClaimsDue(t)' + Cardinality(Stale(t)')
           <= MaxAttempts + Cardinality(Workers)
<1>1. Cardinality(Stale(t)') <= Cardinality(Stale(t)) /\ Cardinality(Stale(t)') \in Nat
  BY StaleFinite, FS_Subset, FS_CardinalityType
<1>2. Cardinality(Stale(t)) \in Nat /\ Cardinality(Workers) \in Nat
  BY StaleFinite
<1>3. row[t].attempts \in Nat
  BY DEF TypeOK
<1>4. ClaimsDue(t)' <= ClaimsDue(t) /\ ClaimsDue(t) \in {0, 1} /\ ClaimsDue(t)' \in {0, 1}
  BY DEF ClaimsDue
<1>5. row[t].attempts + ClaimsDue(t) + Cardinality(Stale(t))
        <= MaxAttempts + Cardinality(Workers)
  BY DEF StalePaysForClaim
<1>6. QED
  BY <1>1, <1>2, <1>3, <1>4, <1>5, BoundsAssumption

LEMMA StepStalePays ==
    TypeOK /\ StalePaysForClaim /\ [Next]_vars => StalePaysForClaim'
<1> SUFFICES ASSUME TypeOK, StalePaysForClaim, [Next]_vars,
                    NEW t \in Tasks, row'[t].attempts >= MaxAttempts
             PROVE  row'[t].attempts + ClaimsDue(t)' + Cardinality(Stale(t)')
                      <= MaxAttempts + Cardinality(Workers)
  BY DEF StalePaysForClaim
<1> DEFINE Bound == row'[t].attempts + ClaimsDue(t)' + Cardinality(Stale(t)')
                      <= MaxAttempts + Cardinality(Workers)
<1>0. TypeOK'
  BY StepTypeOK
<1>1. ASSUME NEW i \in Instances, ClaimTasks(i) PROVE Bound
  <2>1. Stale(t)' = Stale(t)
    BY <1>1 DEF ClaimTasks, Stale
  <2>2. CASE row'[t] = row[t]
    BY <1>0, <2>1, <2>2, BoundKept
  <2>3. CASE row[t].status = "PENDING" /\ row'[t] = Claimed(row[t])
    <3>1. /\ row'[t].attempts = row[t].attempts + 1 /\ ClaimsDue(t)' = 0 /\ ClaimsDue(t) = 1
          /\ row[t].attempts \in Nat
      BY <2>3 DEF Claimed, ClaimsDue, TypeOK
    <3>2. CASE row[t].attempts >= MaxAttempts
      BY <2>1, <3>1, <3>2 DEF StalePaysForClaim
    <3>3. CASE row[t].attempts < MaxAttempts
      <4>1. row'[t].attempts = MaxAttempts
        BY <3>1, <3>3, BoundsAssumption
      <4>2. QED
        BY <2>1, <3>1, <4>1, StaleFinite, BoundsAssumption
    <3>4. QED
      BY <3>1, <3>2, <3>3, BoundsAssumption
  <2>4. QED
    BY <1>1, <2>2, <2>3, ClaimedRows
<1>2. ASSUME NEW i \in Instances, RecoverExpiredTasks(i) PROVE Bound
  <2>1. Stale(t)' = Stale(t)
    BY <1>2 DEF RecoverExpiredTasks, Stale
  <2>2. \/ row'[t] = row[t]
        \/ row[t].status = "PROCESSING" /\ row'[t] = Recovered(row[t])
    BY <1>2, RecoveredRows
  <2>3. /\ row'[t].attempts = row[t].attempts
        /\ row'[t].status = "PENDING" => row[t].status = "PENDING"
    BY <2>2 DEF Recovered, TypeOK
  <2>4. QED
    BY <1>0, <2>1, <2>3, BoundKept
<1>3. ASSUME NEW w \in Workers, WorkerCommit(w) \/ WorkerCommitLost(w) PROVE Bound
  <2>0. Write(w)
    BY <1>3 DEF WorkerCommit, WorkerCommitLost
  <2>1. \/ worker' = [worker EXCEPT ![w] = IdleWorker]
        \/ worker' = [worker EXCEPT ![w] = Failing(worker[w].task)]
    BY <1>3 DEF WorkerCommit, WorkerCommitLost
  <2>2. Stale(t)' = Stale(t) \ {w}
    BY <2>1 DEF Stale, IdleWorker, Failing, TypeOK
  <2>3. row'[t].attempts = row[t].attempts
    <3>1. CASE t = worker[w].task
      BY <2>0, <3>1, CommittedRow
    <3>2. CASE t # worker[w].task
      BY <2>0, <3>2, CommittedRow DEF TypeOK
    <3>3. QED
      BY <3>1, <3>2
  <2>4. CASE w \in Stale(t)
    <3>1. Cardinality(Stale(t)') = Cardinality(Stale(t)) - 1
      BY <2>2, <2>4, StaleFinite, FS_RemoveElement
    <3>2. row[t].attempts + ClaimsDue(t) + Cardinality(Stale(t))
            <= MaxAttempts + Cardinality(Workers)
      BY <2>3 DEF StalePaysForClaim
    <3>3. ClaimsDue(t) \in {0, 1} /\ ClaimsDue(t)' \in {0, 1} /\ row[t].attempts \in Nat
      BY DEF ClaimsDue, TypeOK
    <3>4. QED
      BY <2>3, <3>1, <3>2, <3>3, StaleFinite, BoundsAssumption
  <2>5. CASE w \notin Stale(t)
    <3>1. row'[t].status = "PENDING" => row[t].status = "PENDING"
      <4>1. CASE t # worker[w].task
        <5>1. row'[t] = row[t]
          BY <2>0, <4>1, CommittedRow DEF TypeOK
        <5>2. QED
          BY <5>1
      <4>2. CASE t = worker[w].task
        <5> DEFINE k == worker[w].write
                   seen == worker[w].seen
        <5>1. k \in Writes /\ seen \in TaskRow /\ row[t] \in TaskRow
          BY <2>0, CommittedRow DEF TypeOK
        <5>2. row'[t] = Flushed(row[t], seen, Assigned(k, seen))
          BY <2>0, <4>2, CommittedRow DEF TypeOK
        <5>3. ~(k = "reschedule" /\ seen.attempts < MaxAttempts)
          BY <2>0, <2>5, <4>2 DEF Stale, Write
        <5>4. Assigned(k, seen).status # "PENDING"
          BY <5>1, <5>3, FlushedRow
        <5>5. row'[t].status \in {row[t].status, Assigned(k, seen).status}
          BY <5>1, <5>2, FlushedRow
        <5>6. QED
          BY <5>4, <5>5
      <4>3. QED
        BY <4>1, <4>2
    <3>2. QED
      BY <1>0, <2>2, <2>3, <3>1, BoundKept
  <2>6. QED
    BY <2>4, <2>5
<1>4. ASSUME NEW u \in Tasks, LeaseExpires(u) PROVE Bound
  <2>1. Stale(t)' = Stale(t)
    BY <1>4 DEF LeaseExpires, Stale
  <2>2. row'[t].attempts = row[t].attempts /\ row'[t].status = row[t].status
    BY <1>4 DEF LeaseExpires, TypeOK
  <2>3. QED
    BY <1>0, <2>1, <2>2, BoundKept
<1>5. ASSUME NEW w \in Workers, NEW k \in Writes,
             WorkerSelect(w, k) \/ WorkerSelectAgain(w, k)
      PROVE  Bound
  <2>0. PICK pc \in {"writing", "rewriting"} : WorkerSelects(w, k, pc) /\ worker[w].pc # "idle"
    BY <1>5 DEF WorkerSelect, WorkerSelectAgain
  <2>1. row' = row
    BY <2>0 DEF WorkerSelects
  <2>2. w \notin Stale(t)'
    <3>1. worker'[w].seen = row[worker[w].task] /\ worker'[w].task = worker[w].task
      BY <2>0 DEF WorkerSelects, TypeOK, WorkerState
    <3>2. row[t].attempts \in Nat /\ row[t].attempts >= MaxAttempts
      BY <2>1 DEF TypeOK
    <3>3. QED
      BY <3>1, <3>2, BoundsAssumption DEF Stale
  <2>3. Stale(t)' \subseteq Stale(t)
    BY <2>0, <2>2 DEF WorkerSelects, Stale, TypeOK
  <2>4. QED
    BY <1>0, <2>1, <2>3, BoundKept
<1>6. ASSUME row' = row, Stale(t)' \subseteq Stale(t) PROVE Bound
  BY <1>0, <1>6, BoundKept
<1>7. ASSUME NEW w \in Workers, WorkerGet(w) PROVE Stale(t)' \subseteq Stale(t)
  BY <1>7 DEF WorkerGet, Stale, TypeOK, WorkerState
<1>8. ASSUME NEW w \in Workers, WorkerGivesUp(w) \/ WorkerRaises(w)
      PROVE  Stale(t)' \subseteq Stale(t)
  <2>1. PICK idle : worker' = [worker EXCEPT ![w] = idle] /\ idle.pc \in {"idle", "failing"}
    <3>1. IdleWorker.pc = "idle" /\ Failing(worker[w].task).pc = "failing"
      BY DEF IdleWorker, Failing
    <3>2. QED
      BY <1>8, <3>1 DEF WorkerGivesUp, WorkerRaises
  <2>2. QED
    BY <2>1 DEF Stale, TypeOK
<1>9. ASSUME NEW i \in Instances, Crash(i) PROVE Stale(t)' \subseteq Stale(t)
  BY <1>9 DEF Crash, Stale, TypeOK, IdleWorker
<1>10. ASSUME UNCHANGED worker PROVE Stale(t)' \subseteq Stale(t)
  BY <1>10 DEF Stale
<1>11. QED
  BY <1>1, <1>2, <1>3, <1>4, <1>5, <1>6, <1>7, <1>8, <1>9, <1>10
     DEF Next, vars, ClaimLoop, RecoveryLoop, WorkerStep, ClaimSize, ClaimPut, RecoverySize,
         RecoveryPut, RecoveryDeactivate, ClaimFails, RecoveryEnds, RecoveryFails, WorkerGet, WorkerRaises,
         WorkerGivesUp, Crash

\* max_attempts is exceeded at most once for each worker: the retry budget of
\* claim_tasks, recover_expired_tasks and _write_reschedule_task is finite.
THEOREM RetriesAreBounded == Spec => []AttemptsBounded
<1>1. Init => StalePaysForClaim
  BY BoundsAssumption DEF Init, StalePaysForClaim, NewRow
<1>2. TypeOK /\ StalePaysForClaim => AttemptsBounded
  <2> SUFFICES ASSUME TypeOK, StalePaysForClaim, NEW t \in Tasks
               PROVE  row[t].attempts <= MaxAttempts + Cardinality(Workers)
    BY DEF AttemptsBounded
  <2>1. /\ row[t].attempts \in Nat /\ ClaimsDue(t) \in {0, 1}
        /\ Cardinality(Stale(t)) \in Nat /\ Cardinality(Workers) \in Nat
    BY StaleFinite DEF TypeOK, ClaimsDue
  <2>2. CASE row[t].attempts >= MaxAttempts
    BY <2>1, <2>2, BoundsAssumption DEF StalePaysForClaim
  <2>3. CASE row[t].attempts < MaxAttempts
    BY <2>1, <2>3, BoundsAssumption
  <2>4. QED
    BY <2>1, <2>2, <2>3, BoundsAssumption
<1>3. QED
  BY TypeCorrect, StepStalePays, <1>1, <1>2, PTL DEF Spec

-----------------------------------------------------------------------------
(***************************************************************************)
(* What reaches a worker has been claimed.                                 *)
(***************************************************************************)
Queued(t) == \E i \in Instances : \E n \in DOMAIN queue[i] : queue[i][n] = t
ToPut(t) == \E i \in Instances : t \in claim[i].put \cup rec[i].put
Worked(t) == \E w \in Workers : worker[w].pc # "idle" /\ worker[w].task = t
Held(t) == Queued(t) \/ ToPut(t) \/ Worked(t)

\* DispatchedWasClaimed, and what the recovery loop picks up.
ClaimedFirst ==
    /\ \A t \in Tasks : Held(t) \/ row[t].status = "PROCESSING" => row[t].attempts >= 1
    /\ \A w \in Workers : worker[w].pc \in {"writing", "rewriting"} =>
                            worker[w].seen.attempts >= 1

\* A task becomes PROCESSING by a claim only.
LEMMA StepProcessing ==
  ASSUME TypeOK, [Next]_vars, NEW t \in Tasks, row'[t].status = "PROCESSING"
  PROVE  row[t].status = "PROCESSING" \/ row'[t] = Claimed(row[t])
<1>1. ASSUME NEW i \in Instances, ClaimTasks(i)
      PROVE  row'[t] = row[t] \/ row'[t] = Claimed(row[t])
  BY <1>1, ClaimedRows
<1>2. ASSUME NEW i \in Instances, RecoverExpiredTasks(i)
      PROVE  row[t].status = "PROCESSING"
  <2>1. row'[t] = row[t] \/ row'[t] = Recovered(row[t])
    BY <1>2, RecoveredRows
  <2>2. Recovered(row[t]).status # "PROCESSING"
    BY DEF Recovered
  <2>3. QED
    BY <2>1, <2>2
<1>3. ASSUME NEW w \in Workers, Write(w) PROVE row[t].status = "PROCESSING"
  <2>1. CASE t = worker[w].task
    <3> DEFINE k == worker[w].write
               seen == worker[w].seen
    <3>1. k \in Writes /\ seen \in TaskRow /\ row[t] \in TaskRow
      BY <1>3, CommittedRow DEF TypeOK
    <3>2. row'[t] = Flushed(row[t], seen, Assigned(k, seen))
      BY <1>3, <2>1, CommittedRow DEF TypeOK
    <3> HIDE DEF k, seen
    <3>3. /\ Flushed(row[t], seen, Assigned(k, seen)).status \in
               {row[t].status, Assigned(k, seen).status}
          /\ Assigned(k, seen).status # "PROCESSING"
      BY <3>1, FlushedRow
    <3>4. QED
      BY <3>2, <3>3
  <2>2. CASE t # worker[w].task
    BY <1>3, <2>2, CommittedRow DEF TypeOK
  <2>3. QED
    BY <2>1, <2>2
<1>4. ASSUME NEW u \in Tasks, LeaseExpires(u) PROVE row[t].status = "PROCESSING"
  BY <1>4 DEF LeaseExpires, TypeOK
<1>5. QED
  BY <1>1, <1>2, <1>3, <1>4, OtherRows

LEMMA TailPlace ==
  ASSUME NEW q \in Seq(Tasks), q # <<>>, NEW n \in DOMAIN Tail(q)
  PROVE  n + 1 \in DOMAIN q /\ q[n + 1] = Tail(q)[n]
OBVIOUS

LEMMA StepQueued ==
  ASSUME TypeOK, [Next]_vars, NEW t \in Tasks, Queued(t)'
  PROVE  Queued(t) \/ ToPut(t)
<1>1. ASSUME NEW i \in Instances, NEW u \in claim[i].put \cup rec[i].put,
             queue' = [queue EXCEPT ![i] = Append(@, u)]
      PROVE  Queued(t) \/ ToPut(t)
  <2>0. PICK j \in Instances : \E n \in DOMAIN queue'[j] : queue'[j][n] = t
    BY DEF Queued
  <2>1. PICK n \in DOMAIN queue'[j] : queue'[j][n] = t
    BY <2>0
  <2>2. CASE j = i /\ n = Len(queue[i]) + 1
    <3>1. u \in Tasks /\ queue[i] \in Seq(Tasks)
      BY DEF TypeOK
    <3>2. queue'[j][n] = u
      BY <1>1, <2>2, <3>1 DEF TypeOK
    <3>3. QED
      BY <2>1, <3>2 DEF ToPut
  <2>3. CASE ~(j = i /\ n = Len(queue[i]) + 1)
    <3>1. u \in Tasks /\ queue[j] \in Seq(Tasks)
      BY DEF TypeOK
    <3>2. n \in DOMAIN queue[j] /\ queue[j][n] = t
      <4>1. CASE j = i
        <5>1. queue'[j] = Append(queue[j], u)
          BY <1>1, <4>1 DEF TypeOK
        <5>2. QED
          BY <2>1, <2>3, <3>1, <4>1, <5>1
      <4>2. CASE j # i
        BY <1>1, <2>1, <4>2 DEF TypeOK
      <4>3. QED
        BY <4>1, <4>2
    <3>3. QED
      BY <3>2 DEF Queued
  <2>4. QED
    BY <2>2, <2>3
<1>2. ASSUME NEW w \in Workers, WorkerGet(w) PROVE Queued(t)
  <2> DEFINE i == Host[w]
  <2>0. PICK j \in Instances : \E n \in DOMAIN queue'[j] : queue'[j][n] = t
    BY DEF Queued
  <2>1. PICK n \in DOMAIN queue'[j] : queue'[j][n] = t
    BY <2>0
  <2>2. /\ i \in Instances /\ queue[i] # <<>> /\ queue[j] \in Seq(Tasks)
        /\ queue' = [queue EXCEPT ![i] = Tail(@)]
    BY <1>2, HostAssumption DEF WorkerGet, TypeOK
  <2>3. CASE j = i
    <3>1. queue'[j] = Tail(queue[j])
      BY <2>2, <2>3 DEF TypeOK
    <3>2. n + 1 \in DOMAIN queue[j] /\ queue[j][n + 1] = t
      BY <2>1, <2>2, <2>3, <3>1, TailPlace
    <3>3. QED
      BY <3>2 DEF Queued
  <2>4. CASE j # i
    BY <2>1, <2>2, <2>4 DEF TypeOK, Queued
  <2>5. QED
    BY <2>3, <2>4
<1>3. ASSUME NEW i \in Instances, Crash(i) PROVE Queued(t)
  <2>0. PICK j \in Instances : \E n \in DOMAIN queue'[j] : queue'[j][n] = t
    BY DEF Queued
  <2>1. PICK n \in DOMAIN queue'[j] : queue'[j][n] = t
    BY <2>0
  <2>2. j # i
    BY <1>3, <2>1 DEF Crash, TypeOK
  <2>3. QED
    BY <1>3, <2>1, <2>2 DEF Crash, TypeOK, Queued
<1>4. ASSUME queue' = queue PROVE Queued(t)
  BY <1>4 DEF Queued
<1>5. QED
  BY <1>1, <1>2, <1>3, <1>4
     DEF Next, vars, ClaimLoop, RecoveryLoop, WorkerStep, ClaimSize, ClaimTasks, ClaimFails,
         ClaimPut, RecoverySize, RecoverExpiredTasks, RecoveryEnds, RecoveryFails, RecoveryPut,
         RecoveryDeactivate, WorkerSelect, WorkerSelectAgain, WorkerSelects, WorkerCommit,
         WorkerCommitLost, WorkerRaises, WorkerGivesUp, LeaseExpires

LEMMA StepToPut ==
  ASSUME TypeOK, [Next]_vars, NEW t \in Tasks, ToPut(t)'
  PROVE  \/ ToPut(t)
         \/ row[t].status = "PROCESSING"
         \/ row'[t] = Claimed(row[t])
<1> DEFINE Goal == ToPut(t) \/ row[t].status = "PROCESSING" \/ row'[t] = Claimed(row[t])
<1>1. PICK j \in Instances : t \in claim'[j].put \cup rec'[j].put
  BY DEF ToPut
<1>2. ASSUME claim'[j].put \subseteq claim[j].put, rec'[j].put \subseteq rec[j].put
      PROVE  Goal
  BY <1>1, <1>2 DEF ToPut
<1>3. ASSUME NEW i \in Instances, ClaimTasks(i) PROVE Goal
  <2>1. rec' = rec /\ \A k \in Instances : k # i => claim'[k] = claim[k]
    BY <1>3 DEF ClaimTasks, TypeOK
  <2>2. CASE t \in claim'[i].put
    BY <1>3, <2>2, ClaimedRows
  <2>3. CASE t \notin claim'[i].put
    BY <1>1, <2>1, <2>3 DEF ToPut
  <2>4. QED
    BY <2>2, <2>3
<1>4. ASSUME NEW i \in Instances, RecoverExpiredTasks(i) PROVE Goal
  <2>1. claim' = claim /\ \A k \in Instances : k # i => rec'[k] = rec[k]
    BY <1>4, RecoveryStep DEF RecoverExpiredTasks, TypeOK
  <2>2. CASE t \in rec'[i].put
    BY <1>4, <2>2, RecoveredRows
  <2>3. CASE t \notin rec'[i].put
    BY <1>1, <2>1, <2>3 DEF ToPut
  <2>4. QED
    BY <2>2, <2>3
<1>5. ASSUME NEW i \in Instances,
             \/ ClaimSize(i) \/ ClaimFails(i) \/ ClaimPut(i) \/ RecoverySize(i) \/ RecoveryPut(i)
             \/ RecoveryDeactivate(i) \/ RecoveryEnds(i) \/ RecoveryFails(i) \/ Crash(i)
      PROVE  Goal
  <2>1. CASE j # i
    BY <1>2, <1>5, <2>1 DEF ClaimSize, ClaimFails, ClaimPut, RecoverySize, RecoveryPut,
                            RecoveryDeactivate, RecoveryEnds, RecoveryFails, Crash, TypeOK
  <2>2. CASE j = i
    <3>1. /\ claim[i] \in [batch : Nat, put : SUBSET Tasks]
          /\ rec[i] \in RecState
      BY DEF TypeOK
    <3>2. claim' = claim \/ claim'[i].put \subseteq claim[i].put
      <4>1. CASE ClaimSize(i)
        <5>1. claim'[i] = [claim[i] EXCEPT !.batch = Smaller(AvailableCapacity(i), Concurrency(i))]
          BY <4>1 DEF ClaimSize, TypeOK
        <5>2. QED
          BY <3>1, <5>1
      <4>2. CASE ClaimPut(i)
        <5>1. PICK u \in claim[i].put : claim' = [claim EXCEPT ![i].put = @ \ {u}]
          BY <4>2 DEF ClaimPut
        <5>2. claim'[i] = [claim[i] EXCEPT !.put = @ \ {u}]
          BY <5>1 DEF TypeOK
        <5>3. QED
          BY <3>1, <5>2
      <4>3. CASE ClaimFails(i) \/ Crash(i)
        <5>1. claim'[i] = IdleClaim
          BY <4>3 DEF ClaimFails, Crash, TypeOK
        <5>2. QED
          BY <5>1 DEF IdleClaim
      <4>4. CASE \/ RecoverySize(i) \/ RecoveryPut(i) \/ RecoveryDeactivate(i)
                 \/ RecoveryEnds(i) \/ RecoveryFails(i)
        BY <4>4 DEF RecoverySize, RecoveryEnds, RecoveryFails, RecoveryPut, RecoveryDeactivate
      <4>5. QED
        BY <1>5, <4>1, <4>2, <4>3, <4>4
    <3>3. rec' = rec \/ rec'[i].put \subseteq rec[i].put
      <4>1. CASE RecoverySize(i)
        <5>1. rec'[i] = [rec[i] EXCEPT !.batch = Smaller(AvailableCapacity(i), Concurrency(i))]
          BY <4>1 DEF RecoverySize, TypeOK
        <5>2. QED
          BY <3>1, <5>1
      <4>2. CASE RecoveryPut(i)
        <5>1. PICK u \in rec[i].put : rec' = [rec EXCEPT ![i].put = @ \ {u}]
          BY <4>2 DEF RecoveryPut
        <5>2. rec'[i] = [rec[i] EXCEPT !.put = @ \ {u}]
          BY <5>1 DEF TypeOK
        <5>3. QED
          BY <3>1, <5>2
      <4>3. CASE RecoveryDeactivate(i)
        <5>1. PICK u \in rec[i].exhausted :
                \E locks \in {rec[i].locks, rec[i].locks \cup {DomainOf[u]}} :
                  rec' = [rec EXCEPT ![i].exhausted = @ \ {u}, ![i].locks = locks]
          BY <4>3, DeactivateStep
        <5>2. \E locks : rec'[i] = [rec[i] EXCEPT !.exhausted = @ \ {u}, !.locks = locks]
          BY <5>1 DEF TypeOK
        <5>3. QED
          BY <3>1, <5>2
      <4>4. CASE RecoveryEnds(i) \/ RecoveryFails(i) \/ Crash(i)
        <5>1. rec'[i] = IdleRec
          BY <4>4 DEF RecoveryEnds, RecoveryFails, Crash, TypeOK
        <5>2. QED
          BY <5>1 DEF IdleRec
      <4>5. CASE ClaimSize(i) \/ ClaimFails(i) \/ ClaimPut(i)
        BY <4>5 DEF ClaimSize, ClaimFails, ClaimPut
      <4>6. QED
        BY <1>5, <4>1, <4>2, <4>3, <4>4, <4>5
    <3>4. QED
      BY <1>2, <2>2, <3>2, <3>3
  <2>3. QED
    BY <2>1, <2>2
<1>6. CASE UNCHANGED <<claim, rec>>
  BY <1>2, <1>6
<1>7. QED
  BY <1>3, <1>4, <1>5, <1>6
     DEF Next, vars, ClaimLoop, RecoveryLoop, WorkerStep, WorkerGet, WorkerSelect,
         WorkerSelectAgain, WorkerSelects, WorkerCommit, WorkerCommitLost, WorkerRaises,
         WorkerGivesUp, LeaseExpires

\* A worker has its task from the queue, and what it selected from the row.
LEMMA StepWorker ==
  ASSUME TypeOK, [Next]_vars, NEW w \in Workers
  PROVE  \/ worker'[w].pc = "idle"
         \/ /\ worker'[w].pc = "working"
            /\ worker[w].pc = "idle" => Queued(worker'[w].task)
            /\ worker[w].pc # "idle" => worker'[w].task = worker[w].task
         \/ /\ worker[w].pc # "idle" /\ worker'[w].task = worker[w].task
            /\ \/ worker'[w].pc = "failing"
               \/ worker'[w].seen = row[worker[w].task]
               \/ worker'[w] = worker[w]
<1> DEFINE Goal == \/ worker'[w].pc = "idle"
                   \/ /\ worker'[w].pc = "working"
                      /\ worker[w].pc = "idle" => Queued(worker'[w].task)
                      /\ worker[w].pc # "idle" => worker'[w].task = worker[w].task
                   \/ /\ worker[w].pc # "idle" /\ worker'[w].task = worker[w].task
                      /\ \/ worker'[w].pc = "failing"
                         \/ worker'[w].seen = row[worker[w].task]
                         \/ worker'[w] = worker[w]
<1>0. worker[w] \in WorkerState
  BY DEF TypeOK
<1>1. ASSUME worker'[w] = worker[w] PROVE Goal
  BY <1>1
<1>2. ASSUME worker'[w] = IdleWorker PROVE Goal
  BY <1>2 DEF IdleWorker
<1>3. ASSUME worker[w].pc # "idle", worker'[w] = Failing(worker[w].task) PROVE Goal
  BY <1>3 DEF Failing
<1>4. ASSUME WorkerGet(w) PROVE Goal
  <2> DEFINE i == Host[w]
  <2>1. /\ i \in Instances /\ queue[i] \in Seq(Tasks) /\ queue[i] # <<>>
        /\ worker[w].pc = "idle"
        /\ worker'[w] = [worker[w] EXCEPT !.pc = "working", !.task = Head(queue[i])]
    BY <1>4, HostAssumption DEF WorkerGet, TypeOK
  <2>2. worker'[w].pc = "working" /\ worker'[w].task = Head(queue[i])
    BY <1>0, <2>1 DEF WorkerState
  <2>3. 1 \in DOMAIN queue[i] /\ queue[i][1] = Head(queue[i])
    BY <2>1
  <2>4. QED
    BY <2>1, <2>2, <2>3 DEF Queued
<1>5. ASSUME NEW k \in Writes, NEW pc \in {"writing", "rewriting"}, WorkerSelects(w, k, pc),
             worker[w].pc # "idle"
      PROVE  Goal
  <2>1. worker'[w] = [worker[w] EXCEPT !.pc = pc, !.write = k, !.seen = row[worker[w].task]]
    BY <1>5 DEF WorkerSelects, TypeOK
  <2>2. worker'[w].task = worker[w].task /\ worker'[w].seen = row[worker[w].task]
    BY <1>0, <2>1 DEF WorkerState
  <2>3. QED
    BY <1>5, <2>2
<1>6. ASSUME NEW v \in Workers, v # w, WorkerStep(v) PROVE worker'[w] = worker[w]
  BY <1>6 DEF WorkerStep, WorkerGet, WorkerSelect, WorkerSelectAgain, WorkerSelects,
              WorkerCommit, WorkerCommitLost, WorkerRaises, WorkerGivesUp, TypeOK
<1>7. ASSUME WorkerStep(w) PROVE Goal
  <2>1. ASSUME NEW k \in Writes, WorkerSelect(w, k) \/ WorkerSelectAgain(w, k) PROVE Goal
    BY <1>5, <2>1 DEF WorkerSelect, WorkerSelectAgain
  <2>2. ASSUME WorkerCommit(w) \/ WorkerGivesUp(w) PROVE Goal
    BY <1>2, <2>2 DEF WorkerCommit, WorkerGivesUp, TypeOK
  <2>3. ASSUME WorkerCommitLost(w) \/ WorkerRaises(w) PROVE Goal
    BY <1>3, <2>3 DEF WorkerCommitLost, WorkerRaises, TypeOK
  <2>4. QED
    BY <1>4, <1>7, <2>1, <2>2, <2>3 DEF WorkerStep
<1>8. ASSUME NEW i \in Instances, Crash(i) PROVE Goal
  BY <1>1, <1>2, <1>8 DEF Crash
<1>9. QED
  <2>1. CASE worker' = worker
    BY <1>1, <2>1
  <2>2. CASE worker' # worker
    BY <1>1, <1>6, <1>7, <1>8, <2>2
       DEF Next, vars, ClaimLoop, RecoveryLoop, ClaimSize, ClaimTasks, ClaimFails, ClaimPut,
           RecoverySize, RecoverExpiredTasks, RecoveryEnds, RecoveryFails, RecoveryPut, RecoveryDeactivate,
           LeaseExpires
  <2>3. QED
    BY <2>1, <2>2

LEMMA StepClaimedFirst ==
  TypeOK /\ ClaimedFirst /\ [Next]_vars => ClaimedFirst'
<1> SUFFICES ASSUME TypeOK, ClaimedFirst, [Next]_vars PROVE ClaimedFirst'
  OBVIOUS
<1>0. TypeOK'
  BY StepTypeOK
<1>1. ASSUME NEW t \in Tasks, Held(t) \/ row[t].status = "PROCESSING"
      PROVE  row[t].attempts >= 1 /\ row'[t].attempts >= 1
  <2>1. row[t].attempts >= 1 /\ row[t].attempts \in Nat
    BY <1>1 DEF ClaimedFirst, TypeOK
  <2>2. row'[t].attempts \in {row[t].attempts, row[t].attempts + 1}
    <3>1. row'[t].attempts = row[t].attempts \/ row'[t] = Claimed(row[t])
      BY StepAttempts
    <3>2. Claimed(row[t]).attempts = row[t].attempts + 1
      BY DEF Claimed
    <3>3. QED
      BY <3>1, <3>2
  <2>3. QED
    BY <2>1, <2>2
<1>2. ASSUME NEW t \in Tasks, row'[t] = Claimed(row[t]) PROVE row'[t].attempts >= 1
  BY <1>2 DEF Claimed, TypeOK
<1>3. ASSUME NEW w \in Workers, worker'[w].pc # "idle"
      PROVE  worker'[w].task \in Tasks /\ Held(worker'[w].task)
  <2>1. worker'[w].task \in Tasks
    BY <1>0, <1>3 DEF TypeOK, WorkerState
  <2>2. CASE worker[w].pc = "idle"
    BY <1>3, <2>1, <2>2, StepWorker DEF Held
  <2>3. CASE worker[w].pc # "idle"
    <3>1. worker'[w].task = worker[w].task
      BY <1>3, <2>3, StepWorker
    <3>2. QED
      BY <2>1, <2>3, <3>1 DEF Held, Worked
  <2>4. QED
    BY <2>1, <2>2, <2>3
<1>4. ASSUME NEW t \in Tasks, Held(t)' PROVE row'[t].attempts >= 1
  <2>1. CASE Queued(t)'
    BY <1>1, <2>1, StepQueued DEF Held
  <2>2. CASE ToPut(t)'
    BY <1>1, <1>2, <2>2, StepToPut DEF Held
  <2>3. CASE Worked(t)'
    BY <1>1, <1>3, <2>3 DEF Worked
  <2>4. QED
    BY <1>4, <2>1, <2>2, <2>3 DEF Held
<1>5. ASSUME NEW t \in Tasks, row'[t].status = "PROCESSING" PROVE row'[t].attempts >= 1
  BY <1>1, <1>2, <1>5, StepProcessing
<1>6. ASSUME NEW w \in Workers, worker'[w].pc \in {"writing", "rewriting"}
      PROVE  worker'[w].seen.attempts >= 1
  <2>1. worker[w].pc # "idle" /\ worker[w].task \in Tasks
    <3>1. worker[w].pc # "idle"
      BY <1>6, StepWorker
    <3>2. QED
      BY <3>1 DEF TypeOK, WorkerState
  <2>2. CASE worker'[w].seen = row[worker[w].task]
    <3>1. Held(worker[w].task)
      BY <2>1 DEF Held, Worked
    <3>2. QED
      BY <1>1, <2>1, <2>2, <3>1
  <2>3. CASE worker'[w] = worker[w]
    BY <1>6, <2>3 DEF ClaimedFirst
  <2>4. QED
    BY <1>6, <2>2, <2>3, StepWorker
<1>7. QED
  BY <1>4, <1>5, <1>6 DEF ClaimedFirst

\* Whatever the queue, the batches and the workers hold has been claimed: the
\* exponent attempts - 1 of both retry delays is a natural number.
THEOREM DispatchIsClaimed == Spec => []DispatchedWasClaimed
<1>1. Init => ClaimedFirst
  BY DEF Init, ClaimedFirst, Held, Queued, ToPut, Worked, NewRow, IdleWorker, IdleClaim, IdleRec
<1>2. TypeOK /\ ClaimedFirst => DispatchedWasClaimed
  <2> SUFFICES ASSUME TypeOK, ClaimedFirst PROVE DispatchedWasClaimed
    OBVIOUS
  <2>1. ASSUME NEW i \in Instances, NEW t \in Tasks,
               t \in claim[i].put \cup rec[i].put \/ (\E n \in DOMAIN queue[i] : queue[i][n] = t)
        PROVE  row[t].attempts >= 1
    BY <2>1 DEF ClaimedFirst, Held, ToPut, Queued
  <2>2. ASSUME NEW w \in Workers, worker[w].pc # "idle"
        PROVE  row[worker[w].task].attempts >= 1
    <3>1. worker[w].task \in Tasks
      BY <2>2 DEF TypeOK, WorkerState
    <3>2. QED
      BY <2>2, <3>1 DEF ClaimedFirst, Held, Worked
  <2>3. QED
    BY <2>1, <2>2 DEF DispatchedWasClaimed, ClaimedFirst
<1>3. QED
  BY TypeCorrect, StepClaimedFirst, <1>1, <1>2, PTL DEF Spec

-----------------------------------------------------------------------------
(***************************************************************************)
(* Who can leave a job behind.                                             *)
(***************************************************************************)
\* A retry leaves no row terminal that was not terminal before.
LEMMA RetryOverTerminal ==
  ASSUME NEW now \in TaskRow, NEW seen \in TaskRow, ~Exhausts("reschedule", seen),
         Terminal(Flushed(now, seen, Assigned("reschedule", seen)))
  PROVE  Terminal(now)
<1>1. ~(seen.attempts >= MaxAttempts)
  BY DEF Exhausts
<1>2. Assigned("reschedule", seen).status = "PENDING"
  BY <1>1 DEF Assigned
<1>3. Flushed(now, seen, Assigned("reschedule", seen)).status \in {now.status, "PENDING"}
  BY <1>2 DEF Flushed, Column
<1>4. QED
  BY <1>3 DEF Terminal

\* The write that makes the last open task of a job terminal evaluates the job,
\* and the evaluation counts the row it has just written.
LEMMA WriteFinishes ==
  ASSUME TypeOK, NEW w \in Workers, Write(w), NEW j \in Jobs, Unfinished(j)'
  PROVE  Unfinished(j)
<1> DEFINE u == worker[w].task
           k == worker[w].write
           seen == worker[w].seen
<1>0. /\ TasksOf(j) \subseteq Tasks /\ TasksOf(j) # {}
      /\ \A t \in TasksOf(j) : Terminal(row'[t])
      /\ job'[j] # "COMPLETED"
  BY DEF Unfinished, TasksOf, Terminal
<1>1. /\ u \in Tasks /\ seen \in TaskRow /\ row[u] \in TaskRow
      /\ \A t \in Tasks : t # u => row'[t] = row[t]
      /\ row'[u] = Flushed(row[u], seen, Assigned(k, seen))
  BY CommittedRow DEF TypeOK
<1>2. job'[j] = IF j = JobOf[u] /\ Evaluates(k, seen) THEN JobAfter(j, row') ELSE job[j]
  BY DEF Write
<1>3. JobAfter(j, row') = "COMPLETED"
  BY <1>0 DEF JobAfter
<1> HIDE DEF u, k, seen
<1>4. ~(j = JobOf[u] /\ Evaluates(k, seen)) /\ job[j] # "COMPLETED"
  BY <1>0, <1>2, <1>3
<1>5. \A t \in TasksOf(j) : Terminal(row[t])
  <2>1. CASE j # JobOf[u]
    <3>1. u \notin TasksOf(j)
      BY <2>1 DEF TasksOf
    <3>2. \A t \in TasksOf(j) : row[t] = row'[t]
      BY <1>0, <1>1, <3>1
    <3>3. QED
      BY <1>0, <3>2 DEF Terminal
  <2>2. CASE j = JobOf[u]
    <3>1. k = "reschedule" /\ ~Exhausts("reschedule", seen)
      BY <1>4, <2>2 DEF Evaluates
    <3>2. u \in TasksOf(j)
      BY <1>1, <2>2 DEF TasksOf
    <3>3. Terminal(row[u])
      BY <1>0, <1>1, <3>1, <3>2, RetryOverTerminal
    <3>4. ASSUME NEW t \in TasksOf(j), t # u PROVE Terminal(row[t])
      <4>1. row[t] = row'[t] /\ Terminal(row'[t])
        BY <1>0, <1>1, <3>4
      <4>2. QED
        BY <4>1 DEF Terminal
    <3>5. QED
      BY <3>3, <3>4
  <2>3. QED
    BY <2>1, <2>2
<1>6. QED
  BY <1>0, <1>4, <1>5 DEF Unfinished

LEMMA StepUnfinished ==
  ASSUME TypeOK, [Next]_vars, NEW j \in Jobs, Unfinished(j)',
         \A i \in Instances : ~RecoverExpiredTasks(i)
  PROVE  Unfinished(j)
<1>0. /\ TasksOf(j) \subseteq Tasks /\ TasksOf(j) # {}
      /\ \A t \in TasksOf(j) : Terminal(row'[t])
      /\ job'[j] # "COMPLETED"
  BY DEF Unfinished, TasksOf, Terminal
<1>1. ASSUME \A t \in TasksOf(j) : row'[t] = row[t], job' = job PROVE Unfinished(j)
  <2>1. \A t \in TasksOf(j) : Terminal(row[t])
    BY <1>0, <1>1 DEF Terminal
  <2>2. QED
    BY <1>0, <1>1, <2>1 DEF Unfinished
<1>2. ASSUME NEW i \in Instances, ClaimTasks(i) PROVE Unfinished(j)
  <2>1. ASSUME NEW t \in TasksOf(j) PROVE row'[t] = row[t]
    <3>1. t \in Tasks /\ Terminal(row'[t])
      BY <1>0
    <3>2. row'[t] = row[t] \/ row'[t] = Claimed(row[t])
      BY <1>2, <3>1, ClaimedRows
    <3>3. Claimed(row[t]).status = "PROCESSING"
      BY DEF Claimed
    <3>4. QED
      BY <3>1, <3>2, <3>3 DEF Terminal
  <2>2. QED
    BY <1>1, <1>2, <2>1 DEF ClaimTasks
<1>3. ASSUME NEW w \in Workers, Write(w) PROVE Unfinished(j)
  BY <1>3, WriteFinishes
<1>4. ASSUME NEW u \in Tasks, LeaseExpires(u) PROVE Unfinished(j)
  <2>1. row'[u].status = "PROCESSING" /\ job' = job
    BY <1>4 DEF LeaseExpires, TypeOK
  <2>2. u \notin TasksOf(j)
    BY <1>0, <2>1 DEF Terminal
  <2>3. \A t \in TasksOf(j) : row'[t] = row[t]
    BY <1>0, <1>4, <2>2 DEF LeaseExpires, TypeOK
  <2>4. QED
    BY <1>1, <2>1, <2>3
<1>5. ASSUME row' = row, job' = job PROVE Unfinished(j)
  BY <1>1, <1>5
<1>6. QED
  BY <1>2, <1>3, <1>4, <1>5
     DEF Next, vars, ClaimLoop, RecoveryLoop, WorkerStep, ClaimSize, ClaimFails, ClaimPut,
         RecoverySize, RecoveryEnds, RecoveryFails, RecoveryPut, RecoveryDeactivate, WorkerGet,
         WorkerSelect, WorkerSelectAgain, WorkerSelects, WorkerCommit, WorkerCommitLost,
         WorkerRaises, WorkerGivesUp, Crash

\* A job comes to have only terminal tasks and not to be COMPLETED by a step of
\* the recovery loop only: every last write of a worker completes the job.
THEOREM WorkersLeaveNoJob == Spec => UnfinishedOnlyByRecovery
<1>1. TypeOK /\ [Next]_vars =>
        [\A j \in Jobs : Unfinished(j)' /\ ~Unfinished(j) =>
            \E i \in Instances : RecoverExpiredTasks(i)]_vars
  BY StepUnfinished
<1>2. QED
  BY TypeCorrect, <1>1, PTL DEF Spec, UnfinishedOnlyByRecovery
=============================================================================
