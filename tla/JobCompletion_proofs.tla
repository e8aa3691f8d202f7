------------------------ MODULE JobCompletion_proofs ------------------------
(***************************************************************************)
(* Theorems about JobCompletion, for any tasks and workers.                *)
(***************************************************************************)
EXTENDS JobCompletion, TLAPS

\* A transaction has the lock of every row it has been through.
LocksHeld ==
    \A w \in Workers :
      /\ txn[w].pc # "begin" => txn[w].task \in Tasks
      /\ txn[w].pc \in {"lock_job", "count", "commit"} => taskLock[txn[w].task] = w
      /\ txn[w].pc \in {"count", "commit"} <=> jobLock = w

\* While the job's row is locked nobody else writes it, so what was selected is
\* still there; and nobody but the recovery loop ends a task, so a count that
\* found an open task is still right.
CountHolds ==
    \A w \in Workers :
      /\ jobLock = w => txn[w].found = job
      /\ txn[w].pc = "commit" /\ txn[w].found = "COMPLETED" => txn[w].writes = "COMPLETED"
      /\ /\ txn[w].pc = "commit"
         /\ exhausted = {}
         /\ \A t \in Tasks : Version(w, t) # Open
         => txn[w].writes = "COMPLETED"

JobInv == TypeOK /\ LocksHeld /\ CountHolds /\ NoMissedCompletion

LEMMA InitJobInv == Init => JobInv
<1> SUFFICES ASSUME Init PROVE JobInv
  OBVIOUS
<1> USE NobodyAssumption DEF Init, NoTxn, Open, TaskStatus, JobStatus
<1>1. TypeOK
  BY DEF TypeOK, Txn
<1>2. LocksHeld /\ CountHolds /\ NoMissedCompletion
  BY DEF LocksHeld, CountHolds, NoMissedCompletion
<1>3. QED
  BY <1>1, <1>2 DEF JobInv

LEMMA StepTypeOK == TypeOK /\ LocksHeld /\ [Next]_vars => TypeOK'
<1> SUFFICES ASSUME TypeOK, LocksHeld, [Next]_vars PROVE TypeOK'
  OBVIOUS
<1> USE DEF TypeOK, Txn, TaskStatus, JobStatus, Open, Ends, NoTxn
<1>1. ASSUME NEW w \in Workers, NEW t \in Tasks, NEW s \in Ends, SelectTask(w, t, s)
      PROVE  TypeOK'
  BY <1>1 DEF SelectTask
<1>2. ASSUME NEW w \in Workers, FlushTask(w) PROVE TypeOK'
  BY <1>2 DEF FlushTask, LocksHeld
<1>3. ASSUME NEW w \in Workers, LockJob(w) PROVE TypeOK'
  <2>1. [txn[w] EXCEPT !.pc = "count", !.found = job] \in Txn
    BY ZenonT(60)
  <2>2. txn' \in [Workers -> Txn]
    BY <1>3, <2>1 DEF LockJob
  <2>3. QED
    BY <1>3, <2>2 DEF LockJob
<1>4. ASSUME NEW w \in Workers, CountOpen(w) PROVE TypeOK'
  <2>1. \A s \in JobStatus : [txn[w] EXCEPT !.pc = "commit", !.writes = s] \in Txn
    BY ZenonT(60)
  <2>2. PICK s \in JobStatus :
          txn' = [txn EXCEPT ![w] = [txn[w] EXCEPT !.pc = "commit", !.writes = s]]
    <3>1. txn[w].found \in JobStatus
      OBVIOUS
    <3>2. CASE NonTerminal(w) = {}
      BY <1>4, <3>2 DEF CountOpen
    <3>3. CASE NonTerminal(w) # {} /\ txn[w].found = "PENDING"
      BY <1>4, <3>3 DEF CountOpen
    <3>4. CASE NonTerminal(w) # {} /\ txn[w].found # "PENDING"
      BY <1>4, <3>1, <3>4 DEF CountOpen
    <3>5. QED
      BY <3>2, <3>3, <3>4
  <2>3. txn' \in [Workers -> Txn]
    BY <2>1, <2>2
  <2>4. QED
    BY <1>4, <2>3 DEF CountOpen
<1>0. ASSUME NEW w \in Workers, Unlocked(w)
      PROVE  /\ taskLock' \in [Tasks -> Workers \cup {Nobody}]
             /\ jobLock' \in Workers \cup {Nobody}
             /\ txn' \in [Workers -> Txn]
  <2>1. NoTxn \in Txn
    OBVIOUS
  <2>2. txn' \in [Workers -> Txn]
    BY <1>0, <2>1 DEF Unlocked
  <2>3. taskLock' \in [Tasks -> Workers \cup {Nobody}]
    BY <1>0 DEF Unlocked
  <2>4. jobLock' \in Workers \cup {Nobody}
    BY <1>0 DEF Unlocked
  <2>5. QED
    BY <2>2, <2>3, <2>4
<1>5. ASSUME NEW w \in Workers, Commit(w) PROVE TypeOK'
  <2>1. \A t \in Tasks : Version(w, t) \in TaskStatus
    BY DEF Version
  <2>2. status' \in [Tasks -> TaskStatus]
    BY <1>5, <2>1 DEF Commit
  <2>3. job' \in JobStatus
    BY <1>5 DEF Commit
  <2>4. QED
    BY <1>0, <1>5, <2>2, <2>3 DEF Commit
<1>6. ASSUME NEW w \in Workers, Rollback(w) PROVE TypeOK'
  BY <1>0, <1>6 DEF Rollback
<1>7. ASSUME NEW t \in Tasks, RecoveryFails(t) PROVE TypeOK'
  BY <1>7 DEF RecoveryFails
<1>8. ASSUME NEW t \in Tasks, Reopen(t) PROVE TypeOK'
  BY <1>8 DEF Reopen
<1>9. CASE UNCHANGED vars
  BY <1>9 DEF vars
<1>10. QED
  BY <1>1, <1>2, <1>3, <1>4, <1>5, <1>6, <1>7, <1>8, <1>9 DEF Next, Statement

LEMMA StepLocksHeld == TypeOK /\ LocksHeld /\ [Next]_vars => LocksHeld'
<1> SUFFICES ASSUME TypeOK, LocksHeld, [Next]_vars PROVE LocksHeld'
  OBVIOUS
<1> USE NobodyAssumption DEF TypeOK, Txn, LocksHeld, NoTxn
<1>1. ASSUME NEW w \in Workers, NEW t \in Tasks, NEW s \in Ends, SelectTask(w, t, s)
      PROVE  LocksHeld'
  BY <1>1 DEF SelectTask
<1>2. ASSUME NEW w \in Workers, FlushTask(w) PROVE LocksHeld'
  BY <1>2 DEF FlushTask
<1>3. ASSUME NEW w \in Workers, LockJob(w) PROVE LocksHeld'
  BY <1>3 DEF LockJob
<1>4. ASSUME NEW w \in Workers, CountOpen(w) PROVE LocksHeld'
  BY <1>4 DEF CountOpen
<1>5. ASSUME NEW w \in Workers, Unlocked(w) PROVE LocksHeld'
  BY <1>5 DEF Unlocked
<1>6. ASSUME NEW t \in Tasks, RecoveryFails(t) PROVE LocksHeld'
  BY <1>6 DEF RecoveryFails
<1>7. ASSUME NEW t \in Tasks, Reopen(t) PROVE LocksHeld'
  BY <1>7 DEF Reopen
<1>8. CASE UNCHANGED vars
  BY <1>8 DEF vars
<1>9. QED
  BY <1>1, <1>2, <1>3, <1>4, <1>5, <1>6, <1>7, <1>8
     DEF Next, Statement, Commit, Rollback

LEMMA StepCountHolds ==
    TypeOK /\ LocksHeld /\ CountHolds /\ [Next]_vars => CountHolds'
<1> SUFFICES ASSUME TypeOK, LocksHeld, CountHolds, [Next]_vars PROVE CountHolds'
  OBVIOUS
<1> USE NobodyAssumption DEF TypeOK, Txn, LocksHeld, CountHolds, NoTxn
<1>1. ASSUME NEW w \in Workers, NEW t \in Tasks, NEW s \in Ends, SelectTask(w, t, s)
      PROVE  CountHolds'
  BY <1>1 DEF SelectTask, Version
<1>2. ASSUME NEW w \in Workers, FlushTask(w) PROVE CountHolds'
  BY <1>2 DEF FlushTask, Version
<1>3. ASSUME NEW w \in Workers, LockJob(w) PROVE CountHolds'
  BY <1>3 DEF LockJob, Version
<1>4. ASSUME NEW w \in Workers, CountOpen(w) PROVE CountHolds'
  BY <1>4 DEF CountOpen, Version, NonTerminal
<1>5. ASSUME NEW w \in Workers, Commit(w) PROVE CountHolds'
  <2>1. jobLock = w /\ \A v \in Workers : v # w => txn[v].pc \notin {"count", "commit"}
    BY <1>5 DEF Commit
  <2>2. \A v \in Workers : txn'[v].pc \notin {"count", "commit"}
    BY <1>5, <2>1 DEF Commit, Unlocked
  <2>3. jobLock' = Nobody
    BY <1>5, <2>1 DEF Commit, Unlocked
  <2>4. QED
    BY <2>2, <2>3
<1>6. ASSUME NEW w \in Workers, Rollback(w) PROVE CountHolds'
  BY <1>6 DEF Rollback, Unlocked, Version
<1>7. ASSUME NEW t \in Tasks, RecoveryFails(t) PROVE CountHolds'
  BY <1>7 DEF RecoveryFails
<1>8. ASSUME NEW t \in Tasks, Reopen(t) PROVE CountHolds'
  <2>1. ASSUME NEW w \in Workers, NEW u \in Tasks, txn[w].pc = "commit", Version(w, u)' # Open
        PROVE  Version(w, u) # Open
    BY <1>8, <2>1 DEF Reopen, Version
  <2>2. QED
    BY <1>8, <2>1 DEF Reopen
<1>9. CASE UNCHANGED vars
  BY <1>9 DEF vars, Version
<1>10. QED
  BY <1>1, <1>2, <1>3, <1>4, <1>5, <1>6, <1>7, <1>8, <1>9 DEF Next, Statement

LEMMA StepNoMissed == JobInv /\ [Next]_vars => NoMissedCompletion'
<1> SUFFICES ASSUME JobInv, [Next]_vars PROVE NoMissedCompletion'
  OBVIOUS
<1> USE DEF JobInv, NoMissedCompletion
<1>1. ASSUME UNCHANGED <<status, job, exhausted>> PROVE NoMissedCompletion'
  BY <1>1
<1>2. ASSUME NEW w \in Workers, Commit(w) PROVE NoMissedCompletion'
  <2>1. SUFFICES ASSUME \A t \in Tasks : status'[t] # Open, exhausted' = {}
                 PROVE  job' = "COMPLETED"
    OBVIOUS
  <2>2. txn[w].pc = "commit" /\ exhausted = {} /\ \A t \in Tasks : Version(w, t) # Open
    BY <1>2, <2>1 DEF Commit
  <2>3. txn[w].writes = "COMPLETED"
    BY <2>2 DEF CountHolds
  <2>4. txn[w].found = job
    BY <2>2 DEF CountHolds, LocksHeld
  <2>5. QED
    BY <1>2, <2>3, <2>4 DEF Commit
<1>3. ASSUME NEW t \in Tasks, RecoveryFails(t) PROVE NoMissedCompletion'
  BY <1>3 DEF RecoveryFails
<1>4. ASSUME NEW t \in Tasks, Reopen(t) PROVE NoMissedCompletion'
  BY <1>4 DEF Reopen, TypeOK
<1>5. QED
  BY <1>1, <1>2, <1>3, <1>4
     DEF Next, Statement, SelectTask, FlushTask, LockJob, CountOpen, Rollback, vars

LEMMA StepJobInv == JobInv /\ [Next]_vars => JobInv'
BY StepTypeOK, StepLocksHeld, StepCountHolds, StepNoMissed DEF JobInv

LEMMA JobInvariant == Spec => []JobInv
BY InitJobInv, StepJobInv, PTL DEF Spec

\* Every variable of the completion keeps its type.
THEOREM TypeCorrect == Spec => []TypeOK
BY JobInvariant, PTL DEF JobInv

\* The row lock of _check_and_update_job_status is enough, for any number of
\* tasks and workers: of the transactions that end the last tasks of a job one
\* completes it.
THEOREM CompletionNotMissed == Spec => []NoMissedCompletion
BY JobInvariant, PTL DEF JobInv

\* No transaction overwrites COMPLETED with the status it had read before.
THEOREM CompletedStays == Spec => CompletedIsFinal
<1>1. JobInv /\ [Next]_vars => [job = "COMPLETED" => job' = "COMPLETED"]_vars
  <2> SUFFICES ASSUME JobInv, Next, job = "COMPLETED" PROVE job' = "COMPLETED"
    OBVIOUS
  <2>1. ASSUME NEW w \in Workers, Commit(w) PROVE job' = "COMPLETED"
    BY <2>1 DEF Commit, JobInv, LocksHeld, CountHolds
  <2>2. QED
    BY <2>1 DEF Next, Statement, SelectTask, FlushTask, LockJob, CountOpen, Rollback,
                RecoveryFails, Reopen
<1>2. QED
  BY JobInvariant, <1>1, PTL DEF Spec, CompletedIsFinal
=============================================================================
