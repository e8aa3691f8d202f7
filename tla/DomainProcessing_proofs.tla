---------------------- MODULE DomainProcessing_proofs ----------------------
(***************************************************************************)
(* Theorems about DomainProcessing, for any workers, tokens and tasks, and *)
(* any number of attempts and results.                                     *)
(***************************************************************************)
EXTENDS DomainProcessing, TLAPS

-----------------------------------------------------------------------------
\* Types.
WorkerState == [pc : PC, task : Tasks \cup {NoTask}, write : Writes,
                why : {"", "contention", "conflict"}, expected : Nat, existed : BOOLEAN,
                retry : BOOLEAN, fetched : Nat, epoch : Nat]
TaskState == [status : TaskStatus, attempts : Nat]

LocksTyped == /\ Lock!LockTypeOK
              /\ shared \in [Workers -> BOOLEAN]
              /\ rowLock \in Workers \cup {Nobody}
RowsTyped == /\ detail \in [version : Nat, fetched : Nat, fresh : BOOLEAN]
             /\ active \in BOOLEAN
             /\ clock \in Nat
             /\ cleared \in Nat
TasksTyped == /\ task \in [Tasks -> TaskState]
              /\ queued \in [Tasks -> Nat]
WorkersTyped == worker \in [Workers -> WorkerState]

Typed == LocksTyped /\ RowsTyped /\ TasksTyped /\ WorkersTyped

LEMMA TypedIsTypeOK == Typed => ProcessingTypeOK
  BY DEF Typed, LocksTyped, RowsTyped, TasksTyped, WorkersTyped, ProcessingTypeOK, WorkerState, TaskState

\* The lock's own steps keep its types.
LEMMA LockTyped ==
    ASSUME Lock!LockTypeOK, NEW w \in Workers,
           \/ Lock!Acquire(w, Domain) \/ Lock!AcquireReplyLost(w, Domain)
           \/ Lock!Release(w) \/ Lock!Abandon(w)
           \/ UNCHANGED <<key, holds, token, lapsed>>
    PROVE  Lock!LockTypeOK'
<1> USE DomainNotNone, TokensWithoutNone DEF Lock!LockTypeOK
<1>1. CASE Lock!Acquire(w, Domain)
  BY <1>1 DEF Lock!Acquire, Lock!Fresh
<1>2. CASE Lock!AcquireReplyLost(w, Domain)
  BY <1>2 DEF Lock!AcquireReplyLost, Lock!Fresh
<1>3. CASE Lock!Release(w)
  BY <1>3 DEF Lock!Release, Lock!Leave
<1>4. CASE Lock!Abandon(w)
  BY <1>4 DEF Lock!Abandon, Lock!Leave
<1>. QED
  BY <1>1, <1>2, <1>3, <1>4

\* A step of w that gives it a state of its type.
LEMMA Moved ==
    ASSUME WorkersTyped, NEW w \in Workers, NEW s \in WorkerState,
           worker' = [worker EXCEPT ![w] = s]
    PROVE  WorkersTyped'
  BY DEF WorkersTyped

\* The states that the operators of the module make.
LEMMA IdleState == Idle \in WorkerState /\ Idle.pc = "idle"
  BY DEF WorkerState, Idle, PC, Writes

LEMMA ToState ==
    ASSUME WorkersTyped, NEW w \in Workers, NEW pc \in PC
    PROVE  To(w, pc) \in WorkerState /\ To(w, pc).pc = pc
  BY DEF WorkersTyped, WorkerState, To

LEMMA ToWriteState ==
    ASSUME WorkersTyped, NEW w \in Workers, NEW pc \in PC, NEW k \in Writes,
           NEW why \in {"", "contention", "conflict"}
    PROVE  ToWrite(w, pc, k, why) \in WorkerState
  BY DEF WorkersTyped, WorkerState, ToWrite, Idle

LEMMA OutState ==
    ASSUME WorkersTyped, NEW w \in Workers, NEW k \in Writes
    PROVE  Out(w, k) \in WorkerState
  BY IdleState, ToWriteState DEF Out, PC

LEMMA JudgementsAreWrites == Judgements \subseteq Writes
  BY DEF Judgements, Judged, AfterHttp, Resolved, Probed, HttpAnswers, Writes

LEMMA TypedInit == Init => Typed
<1> SUFFICES ASSUME Init PROVE Typed
  OBVIOUS
<1>1. Lock!LockTypeOK
  BY DEF Init, Lock!Init, Lock!LockTypeOK
<1>2. LocksTyped
  BY <1>1 DEF Init, LocksTyped
<1>3. RowsTyped
  <2>1. detail \in [version : Nat, fetched : Nat, fresh : BOOLEAN]
    <3>1. detail = NoRow \/ detail = [version |-> 1, fetched |-> 1, fresh |-> FALSE]
      BY DEF Init
    <3>2. /\ NoRow \in [version : Nat, fetched : Nat, fresh : BOOLEAN]
          /\ [version |-> 1, fetched |-> 1, fresh |-> FALSE]
               \in [version : Nat, fetched : Nat, fresh : BOOLEAN]
      BY DEF NoRow
    <3>. QED
      BY <3>1, <3>2
  <2>. QED
    BY <2>1 DEF Init, RowsTyped
<1>4. TasksTyped
  BY DEF Init, TaskStatus, TasksTyped, TaskState
<1>5. WorkersTyped
  BY DEF Init, Idle, WorkersTyped, WorkerState, PC, Writes
<1>. QED
  BY <1>2, <1>3, <1>4, <1>5 DEF Typed

LEMMA GoesTyped ==
    ASSUME Typed, NEW w \in Workers, NEW s \in WorkerState, Goes(w, s)
    PROVE  RowsTyped' /\ TasksTyped' /\ WorkersTyped'
<1>1. WorkersTyped'
  BY Moved DEF Typed, Goes
<1>. QED
  BY <1>1 DEF Typed, Goes, RowsTyped, TasksTyped

LEMMA LockKept ==
    ASSUME Typed, UNCHANGED lock, rowLock' \in Workers \cup {Nobody}
    PROVE  LocksTyped'
  BY DEF Typed, LocksTyped, lock, Lock!LockTypeOK

LEMMA EndTaskTyped ==
    ASSUME Typed, NEW w \in Workers, EndTask(w)
    PROVE  RowsTyped' /\ TasksTyped'
<1> DEFINE k == worker[w].write
           status == CASE k = "complete" -> "COMPLETED"
                       [] k \in {"fail", "deactivate"} \/ Exhausts(w) -> "FAILED"
                       [] OTHER -> "PENDING"
<1>1. RowsTyped'
  <2>1. active' \in BOOLEAN /\ UNCHANGED <<detail, clock, cleared>>
    BY DEF EndTask
  <2>. QED
    BY <2>1 DEF Typed, RowsTyped
<1>2. task' = [task EXCEPT ![worker[w].task].status = status] /\ queued' = queued
  BY DEF EndTask
<1>3. status \in TaskStatus
  BY DEF TaskStatus
<1> HIDE DEF status
<1>. QED
  BY <1>1, <1>2, <1>3 DEF Typed, TasksTyped, TaskState

LEMMA StartsTyped ==
    ASSUME Typed, NEW w \in Workers, NEW t \in Tasks, Begin(w, t) \/ BeginRecovered(w, t)
    PROVE  Typed'
<1> DEFINE s == [Idle EXCEPT !.task = t, !.pc = IF detail.fresh THEN "write" ELSE "lock",
                             !.write = IF detail.fresh THEN "complete" ELSE "nothing"]
<1>1. s \in WorkerState
  BY DEF Idle, PC, Writes, WorkerState
<1>2. worker' = [worker EXCEPT ![w] = s]
  BY DEF Begin, BeginRecovered, Starts
<1> HIDE DEF s
<1>3. WorkersTyped'
  BY <1>1, <1>2, Moved DEF Typed
<1>4. LocksTyped' /\ RowsTyped'
  BY LockKept DEF Begin, BeginRecovered, Starts, Typed, RowsTyped, LocksTyped
<1>5. CASE Begin(w, t)
  BY <1>3, <1>4, <1>5 DEF Begin, Typed, TasksTyped, TaskState, TaskStatus
<1>6. CASE BeginRecovered(w, t)
  <2>1. queued[t] - 1 \in Nat
    BY <1>6 DEF BeginRecovered, Typed, TasksTyped
  <2>2. TasksTyped'
    BY <1>6, <2>1 DEF BeginRecovered, Typed, TasksTyped
  <2>. QED
    BY <1>3, <1>4, <2>2 DEF Typed
<1>. QED
  BY <1>5, <1>6

LEMMA PersistTyped ==
    ASSUME Typed, NEW w \in Workers, Persist(w)
    PROVE  Typed'
<1> DEFINE s == [worker[w] EXCEPT !.pc = "update", !.expected = detail.version,
                              !.existed = detail.version > 0, !.fetched = clock + 1,
                              !.epoch = cleared]
<1>1. /\ worker[w] \in WorkerState
      /\ detail.version \in Nat /\ clock \in Nat /\ cleared \in Nat
  BY DEF Typed, WorkersTyped, RowsTyped
<1>2. s \in WorkerState
  <2>1. /\ "update" \in PC /\ clock + 1 \in Nat
        /\ (detail.version > 0) \in BOOLEAN
    BY <1>1 DEF PC
  <2>. QED
    BY <1>1, <2>1 DEF WorkerState
<1>3. worker' = [worker EXCEPT ![w] = s]
  BY DEF Persist
<1> HIDE DEF s
<1>4. WorkersTyped'
  BY <1>2, <1>3, Moved DEF Typed
<1>5. LocksTyped'
  BY LockKept DEF Persist, Typed, LocksTyped
<1>6. RowsTyped'
  <2>1. clock' = clock + 1 /\ UNCHANGED <<detail, active, cleared>>
    BY DEF Persist
  <2>. QED
    BY <1>1, <2>1 DEF Typed, RowsTyped
<1>7. TasksTyped'
  BY DEF Persist, Typed, TasksTyped
<1>. QED
  BY <1>4, <1>5, <1>6, <1>7 DEF Typed

LEMMA CommitTyped ==
    ASSUME Typed, NEW w \in Workers, Commit(w)
    PROVE  Typed'
<1>1. PICK k \in {"nothing", "fail", "reschedule"} :
        worker' = [worker EXCEPT ![w] = ToWrite(w, "unlock", k, "")]
  BY DEF Commit
<1>2. WorkersTyped'
  <2>1. k \in Writes /\ "unlock" \in PC
    BY DEF Writes, PC
  <2>2. ToWrite(w, "unlock", k, "") \in WorkerState
    BY <2>1, ToWriteState DEF Typed
  <2>. QED
    BY <1>1, <2>2, Moved DEF Typed
<1>3. LocksTyped'
  BY LockKept DEF Commit, Store
<1>4. RowsTyped'
  <2>1. worker[w].expected \in Nat /\ worker[w].fetched \in Nat
    BY DEF Typed, WorkersTyped, WorkerState
  <2>2. detail' = [version |-> worker[w].expected + 1, fetched |-> worker[w].fetched,
                   fresh |-> TRUE]
        /\ UNCHANGED <<active, clock, cleared>>
    BY DEF Commit, Store
  <2>. QED
    BY <2>1, <2>2 DEF Typed, RowsTyped
<1>5. TasksTyped'
  BY DEF Commit, Store, Typed, TasksTyped, TaskState, TaskStatus
<1>. QED
  BY <1>2, <1>3, <1>4, <1>5 DEF Typed

\* The steps of a worker that only move it, and perhaps a lock.
LEMMA MovesTyped ==
    ASSUME Typed, NEW w \in Workers,
           \/ LockAcquired(w) \/ LockNotAcquired(w) \/ Recheck(w) \/ Probe(w)
           \/ Update(w) \/ UpdateMisses(w) \/ SelectMissed(w) \/ Retry(w) \/ Insert(w)
           \/ Raise(w) \/ Unlock(w) \/ Vanish(w)
    PROVE  Typed'
<1> DEFINE Moves == RowsTyped' /\ TasksTyped' /\ WorkersTyped'
<1>m. ASSUME NEW s \in WorkerState, Goes(w, s) PROVE Moves
  BY <1>m, GoesTyped
<1> HIDE DEF Moves
<1>0. worker[w] \in WorkerState /\ Idle \in WorkerState /\ Idle.pc = "idle"
      /\ detail.version \in Nat
  BY IdleState DEF Typed, WorkersTyped, RowsTyped
<1>1. ASSUME NEW pc \in PC, Goes(w, To(w, pc)) PROVE Moves
  <2>1. To(w, pc) \in WorkerState
    BY ToState DEF Typed
  <2>. QED
    BY <1>1, <2>1, <1>m
<1>2. ASSUME NEW pc \in PC, NEW k \in Writes,
             NEW why \in {"", "contention", "conflict"}, Goes(w, ToWrite(w, pc, k, why))
      PROVE  Moves
  <2>1. ToWrite(w, pc, k, why) \in WorkerState
    BY ToWriteState DEF Typed
  <2>. QED
    BY <1>2, <2>1, <1>m
<1>3. ASSUME NEW k \in Writes, Goes(w, Out(w, k)) PROVE Moves
  <2>1. Out(w, k) \in WorkerState
    BY OutState DEF Typed
  <2>. QED
    BY <1>3, <2>1, <1>m
<1>4. Goes(w, Idle) => Moves
  BY <1>0, <1>m
<1> USE DEF PC, Writes
<1>5. CASE LockAcquired(w)
  <2>1. Moves
    BY <1>1, <1>5 DEF LockAcquired
  <2>2. LocksTyped'
    BY <1>5, LockTyped DEF LockAcquired, Typed, LocksTyped
  <2>. QED
    BY <2>1, <2>2 DEF Moves, Typed
<1>6. CASE LockNotAcquired(w)
  <2>1. Moves
    BY <1>2, <1>6 DEF LockNotAcquired
  <2>2. LocksTyped'
    BY <1>6, LockTyped DEF LockNotAcquired, Typed, LocksTyped
  <2>. QED
    BY <2>1, <2>2 DEF Moves, Typed
<1>7. CASE Recheck(w)
  <2>1. Moves
    BY <1>1, <1>2, <1>7 DEF Recheck
  <2>. QED
    BY <1>7, <2>1, LockKept DEF Moves, Typed, LocksTyped, Recheck
<1>8. CASE Probe(w)
  <2>1. PICK k \in Judgements :
          Goes(w, CASE k = "complete" -> To(w, "persist")
                    [] k = "nothing" -> ToWrite(w, "unlock", "nothing", "")
                    [] OTHER -> ToWrite(w, "write", k, ""))
    BY <1>8 DEF Probe
  <2>2. Moves
    BY <1>1, <1>2, <2>1, JudgementsAreWrites
  <2>. QED
    BY <1>8, <2>2, LockKept DEF Moves, Typed, LocksTyped, Probe
<1>9. CASE Update(w) \/ Insert(w)
  <2>1. Moves
    <3>1. [To(w, "commit") EXCEPT !.expected = 0] \in WorkerState
      BY <1>0 DEF To, WorkerState
    <3>2. Goes(w, [To(w, "commit") EXCEPT !.expected = 0]) => Moves
      BY <3>1, <1>m
    <3>3. CASE Update(w)
      BY <1>1, <3>3 DEF Update
    <3>4. CASE Insert(w)
      BY <1>2, <3>2, <3>4 DEF Insert
    <3>. QED
      BY <1>9, <3>3, <3>4
  <2>2. rowLock' \in Workers \cup {Nobody} /\ UNCHANGED lock
    BY <1>9 DEF Update, Insert, Typed, LocksTyped
  <2>. QED
    BY <2>1, <2>2, LockKept DEF Moves, Typed
<1>10. CASE SelectMissed(w)
  <2> DEFINE e == IF worker[w].existed THEN worker[w].expected + 1 ELSE detail.version
             s == [worker[w] EXCEPT !.pc = "conflict", !.retry = TRUE, !.expected = e]
  <2>5. worker[w].expected \in Nat
    BY <1>0 DEF WorkerState
  <2>0. e \in Nat /\ "conflict" \in PC
    BY <1>0, <2>5
  <2>4. SelectMissed(w) => \/ Goes(w, To(w, "insert"))
                           \/ Goes(w, ToWrite(w, "unlock", "fail", "conflict"))
                           \/ Goes(w, s)
    BY DEF SelectMissed
  <2> HIDE DEF e
  <2>1. s \in WorkerState
    BY <1>0, <2>0 DEF WorkerState
  <2>2. Goes(w, s) => Moves
    BY <2>1, <1>m
  <2>3. Moves
    BY <1>1, <1>2, <1>10, <2>2, <2>4
  <2>. QED
    BY <1>10, <2>3, LockKept DEF Moves, Typed, LocksTyped, SelectMissed
<1>15. CASE UpdateMisses(w)
  <2>1. Moves
    BY <1>1, <1>15 DEF UpdateMisses
  <2>. QED
    BY <1>15, <2>1, LockKept DEF Moves, Typed, LocksTyped, UpdateMisses
<1>11. CASE Retry(w)
  <2>1. Moves
    BY <1>1, <1>2, <1>11 DEF Retry
  <2>. QED
    BY <1>11, <2>1, LockKept DEF Moves, Typed, LocksTyped, Retry
<1>12. CASE Raise(w)
  <2>1. Moves
    BY <1>3, <1>12 DEF Raise
  <2>. QED
    BY <1>12, <2>1, LockKept DEF Moves, Typed, LocksTyped, Raise
<1>13. CASE Unlock(w)
  <2>1. Moves
    BY <1>1, <1>4, <1>13 DEF Unlock
  <2>2. LocksTyped'
    BY <1>13, LockTyped DEF Unlock, Typed, LocksTyped
  <2>. QED
    BY <2>1, <2>2 DEF Moves, Typed
<1>14. CASE Vanish(w)
  <2>1. Moves
    BY <1>4, <1>14 DEF Vanish
  <2>2. LocksTyped'
    BY <1>14, LockTyped DEF Vanish, Typed, LocksTyped
  <2>. QED
    BY <2>1, <2>2 DEF Moves, Typed
<1>. QED
  BY <1>5, <1>6, <1>7, <1>8, <1>9, <1>10, <1>11, <1>12, <1>13, <1>14,
     <1>15

LEMMA TypedStep == Typed /\ [Next]_vars => Typed'
<1> SUFFICES ASSUME Typed, [Next]_vars PROVE Typed'
  OBVIOUS
<1>1. CASE UNCHANGED vars
  <2>1. LocksTyped'
    BY <1>1, LockKept DEF vars, Typed, LocksTyped
  <2>. QED
    BY <1>1, <2>1 DEF vars, Typed, RowsTyped, TasksTyped, WorkersTyped
<1>2. ASSUME NEW t \in Tasks, Submit(t) PROVE Typed'
  <2>1. LocksTyped' /\ WorkersTyped'
    BY <1>2, LockKept DEF Submit, Typed, LocksTyped, WorkersTyped
  <2>2. TasksTyped'
    BY <1>2 DEF Submit, Typed, TasksTyped, TaskState, TaskStatus
  <2>3. RowsTyped'
    <3>1. /\ detail' = detail \/ detail' = NoRow
          /\ cleared' = cleared \/ cleared' = cleared + 1
          /\ active' = TRUE
          /\ clock' = clock
      BY <1>2 DEF Submit
    <3>2. NoRow \in [version : Nat, fetched : Nat, fresh : BOOLEAN]
      BY DEF NoRow
    <3>. QED
      BY <3>1, <3>2 DEF Typed, RowsTyped
  <2>. QED
    BY <2>1, <2>2, <2>3 DEF Typed
<1>3. ASSUME NEW t \in Tasks, Recover(t) PROVE Typed'
  <2>1. LocksTyped' /\ WorkersTyped' /\ RowsTyped'
    BY <1>3, LockKept DEF Recover, Typed, LocksTyped, WorkersTyped, RowsTyped
  <2>2. PICK n \in {0, 1} : queued' = [queued EXCEPT ![t] = @ + n]
    BY <1>3 DEF Recover
  <2>3. TasksTyped'
    BY <1>3, <2>2 DEF Recover, Typed, TasksTyped, TaskState, TaskStatus
  <2>. QED
    BY <2>1, <2>3 DEF Typed
<1>4. CASE Age
  <2>1. LocksTyped' /\ WorkersTyped' /\ TasksTyped'
    BY <1>4, LockKept DEF Age, Typed, LocksTyped, WorkersTyped, TasksTyped
  <2>2. RowsTyped'
    BY <1>4 DEF Age, Typed, RowsTyped
  <2>. QED
    BY <2>1, <2>2 DEF Typed
<1>5. CASE KeyExpires
  <2>1. Lock!LockTypeOK'
    BY <1>5, DomainNotNone, TokensWithoutNone
       DEF KeyExpires, Lock!Expire, Lock!LockTypeOK, Typed, LocksTyped
  <2>. QED
    BY <1>5, <2>1 DEF KeyExpires, Typed, LocksTyped, RowsTyped, TasksTyped, WorkersTyped
<1>6. ASSUME NEW w \in Workers, Write(w) \/ Rewrite(w) PROVE Typed'
  <2>1. RowsTyped' /\ TasksTyped'
    BY <1>6, EndTaskTyped DEF Write, Rewrite
  <2>2. LocksTyped'
    BY <1>6, LockKept DEF Write, Rewrite, EndTask, Typed, LocksTyped
  <2>3. PICK s \in {Idle} \cup {Out(w, k) : k \in {"nothing", "fail", "reschedule"}} :
          worker' = [worker EXCEPT ![w] = s]
    BY <1>6 DEF Write, Rewrite
  <2>4. s \in WorkerState
    BY IdleState, OutState DEF Typed, Writes
  <2>. QED
    BY <2>1, <2>2, <2>3, <2>4, Moved DEF Typed
<1>. QED
  BY <1>1, <1>2, <1>3, <1>4, <1>5, <1>6, StartsTyped, PersistTyped, CommitTyped, MovesTyped
     DEF Next, Processing, Persisting, Rest

\* Every variable keeps to its type: in particular a worker only ever has one of the
\* five decisions of process_task to write, and the lock's tokens and owners are its own.
THEOREM TypeCorrect == Spec => []ProcessingTypeOK
<1>1. Spec => []Typed
  BY TypedInit, TypedStep, PTL DEF Spec
<1>. QED
  BY <1>1, TypedIsTypeOK, PTL

-----------------------------------------------------------------------------
(***************************************************************************)
(* What a worker in the lock knows of the row of domain_details.  Alone in *)
(* the lock, it knows that nobody else stores a result: the row is as it   *)
(* saw it or has been deleted, and is not fresh.                           *)
(***************************************************************************)
Held == {"recheck", "probe", "persist", "update", "missed", "conflict", "insert", "commit",
         "unlock"}

\* A worker is in the lock from SET NX to the release, and its transaction has the
\* row from the UPDATE or INSERT to the COMMIT.
Placed(w) ==
    LET s == worker[w] IN
    /\ s.pc \in Held => Inside(w)
    /\ s.pc = "commit" <=> rowLock = w
    /\ s.pc = "commit" => detail.version = s.expected

KnowsRow(s) ==
    /\ s.pc # "conflict"
    /\ s.pc = "unlock" => s.why # "conflict"
    /\ s.pc = "update" => detail.version \in {0, s.expected}
    /\ s.pc \in {"missed", "insert"} => detail.version = 0
    /\ s.pc \in {"probe", "persist", "update", "missed", "insert", "commit"} =>
         detail.fresh = FALSE
Knows(w) == shared[w] = FALSE => KnowsRow(worker[w])

\* Whether alone or not: as long as the row was not deleted its versions increase, so
\* a version seen again is the row seen, and older than the result.
Ordered(w) ==
    LET s == worker[w] IN
    /\ s.fetched <= clock
    /\ s.epoch <= cleared
    /\ s.pc \in {"update", "missed", "conflict", "insert", "commit"} => s.fetched > 0
    /\ s.pc = "conflict" => s.retry = TRUE
    /\ s.retry = FALSE /\ s.epoch = cleared =>
         /\ s.pc = "update" => /\ s.expected <= detail.version
                               /\ s.expected = detail.version => detail.fetched < s.fetched
         /\ s.pc = "commit" => detail.fetched < s.fetched

Sharing ==
    \A w \in Workers : Inside(w) /\ shared[w] = FALSE => \A v \in Workers \ {w} : ~Inside(v)

RowKnown == /\ detail.version = 0 => detail = NoRow
            /\ detail.fetched <= clock

Followed == /\ \A w \in Workers : Placed(w) /\ Knows(w) /\ Ordered(w)
            /\ Sharing
            /\ RowKnown

LEMMA FollowedInit == Init => Followed
<1> SUFFICES ASSUME Init PROVE Followed
  OBVIOUS
<1>1. /\ rowLock = Nobody /\ clock = detail.fetched /\ cleared = 0
      /\ worker = [w \in Workers |-> Idle]
      /\ detail = NoRow \/ detail = [version |-> 1, fetched |-> 1, fresh |-> FALSE]
  BY DEF Init
<1>2. \A w \in Workers : holds[w] = NoDomain
  BY DEF Init, Lock!Init
<1>3. Idle.pc = "idle" /\ Idle.fetched = 0 /\ Idle.epoch = 0
  BY DEF Idle
<1>4. RowKnown /\ detail.fetched \in {0, 1}
  <2>1. CASE detail = NoRow
    BY <1>1, <2>1 DEF RowKnown, NoRow
  <2>2. CASE detail = [version |-> 1, fetched |-> 1, fresh |-> FALSE]
    BY <1>1, <2>2 DEF RowKnown
  <2>. QED
    BY <1>1, <2>1, <2>2
<1>5. Sharing
  BY <1>2 DEF Sharing, Inside
<1>6. ASSUME NEW w \in Workers PROVE Placed(w) /\ Knows(w) /\ Ordered(w)
  <2>1. worker[w] = Idle
    BY <1>1
  <2>2. Placed(w)
    BY <1>1, <1>3, <2>1, NobodyIsNoWorker DEF Placed, Held
  <2>3. Knows(w)
    BY <1>3, <2>1 DEF Knows, KnowsRow
  <2>4. Ordered(w)
    BY <1>1, <1>3, <1>4, <2>1 DEF Ordered
  <2>. QED
    BY <2>2, <2>3, <2>4
<1>. QED
  BY <1>4, <1>5, <1>6 DEF Followed

\* What the operators of the module keep and reset.
LEMMA ToFields ==
    ASSUME WorkersTyped, NEW w \in Workers, NEW pc
    PROVE  /\ To(w, pc).pc = pc
           /\ To(w, pc).why = worker[w].why
           /\ To(w, pc).expected = worker[w].expected
           /\ To(w, pc).retry = worker[w].retry
           /\ To(w, pc).fetched = worker[w].fetched
           /\ To(w, pc).epoch = worker[w].epoch
  BY DEF WorkersTyped, WorkerState, To

LEMMA ToWriteFields ==
    ASSUME NEW w, NEW pc, NEW k, NEW why
    PROVE  /\ ToWrite(w, pc, k, why).pc = pc
           /\ ToWrite(w, pc, k, why).why = why
           /\ ToWrite(w, pc, k, why).fetched = 0
           /\ ToWrite(w, pc, k, why).epoch = 0
  BY DEF ToWrite, Idle

\* A step of w in which the row stays as it is leaves the others what they know.
LEMMA OthersFollow ==
    ASSUME Typed, Followed, NEW w \in Workers, NEW s,
           worker' = [worker EXCEPT ![w] = s],
           UNCHANGED <<detail, cleared>>, clock' \in Nat, clock <= clock',
           \A v \in Workers \ {w} :
             /\ Inside(v)' <=> Inside(v)
             /\ rowLock' = v <=> rowLock = v
             /\ Inside(v) /\ shared'[v] = FALSE => shared[v] = FALSE
    PROVE  \A v \in Workers \ {w} : Placed(v)' /\ Knows(v)' /\ Ordered(v)'
<1> SUFFICES ASSUME NEW v \in Workers \ {w}
             PROVE  Placed(v)' /\ Knows(v)' /\ Ordered(v)'
  OBVIOUS
<1>1. worker'[v] = worker[v]
  BY DEF Typed, WorkersTyped
<1>2. Placed(v) /\ Knows(v) /\ Ordered(v)
  BY DEF Followed
<1>3. Placed(v)'
  BY <1>1, <1>2 DEF Placed
<1>4. Knows(v)'
  <2>1. SUFFICES ASSUME shared'[v] = FALSE PROVE KnowsRow(worker[v])'
    BY <1>1 DEF Knows
  <2>2. CASE Inside(v)
    <3>1. KnowsRow(worker[v])
      BY <1>2, <2>1, <2>2 DEF Knows
    <3>. QED
      BY <1>1, <3>1 DEF KnowsRow
  <2>3. CASE ~Inside(v)
    BY <1>1, <1>2, <2>3 DEF KnowsRow, Placed, Held
  <2>. QED
    BY <2>2, <2>3
<1>5. Ordered(v)'
  <2>1. clock \in Nat /\ worker[v].fetched \in Nat
    BY DEF Typed, RowsTyped, WorkersTyped, WorkerState
  <2>. QED
    BY <1>1, <1>2, <2>1 DEF Ordered
<1>. QED
  BY <1>3, <1>4, <1>5

\* So does a step in which nobody enters or leaves the lock.
LEMMA QuietFollows ==
    ASSUME Typed, Followed, NEW w \in Workers, NEW s,
           worker' = [worker EXCEPT ![w] = s],
           UNCHANGED <<holds, shared, detail, clock, cleared>>,
           \A v \in Workers \ {w} : rowLock' = v <=> rowLock = v,
           Placed(w)', Knows(w)', Ordered(w)'
    PROVE  Followed'
<1>1. UNCHANGED <<holds, shared>> /\ clock \in Nat
  BY DEF Typed, RowsTyped
<1>2. \A v \in Workers : Inside(v)' <=> Inside(v)
  BY <1>1 DEF Inside
<1>3. \A v \in Workers \ {w} : Placed(v)' /\ Knows(v)' /\ Ordered(v)'
  <2>1. clock' \in Nat /\ clock <= clock'
    BY <1>1
  <2>2. \A v \in Workers \ {w} : /\ Inside(v)' <=> Inside(v)
                                 /\ rowLock' = v <=> rowLock = v
                                 /\ Inside(v) /\ shared'[v] = FALSE => shared[v] = FALSE
    BY <1>1, <1>2
  <2>. QED
    BY <2>1, <2>2, OthersFollow
<1>4. Sharing' /\ RowKnown'
  BY <1>1, <1>2 DEF Followed, Sharing, RowKnown
<1>. QED
  BY <1>3, <1>4 DEF Followed

\* A state outside the write phase, reached by a worker that leaves it.
Plain(s) == /\ s.pc \in {"idle", "lock", "write", "unlock", "rewrite"}
            /\ s.pc = "unlock" => s.why # "conflict"
            /\ s.fetched <= clock /\ s.epoch <= cleared

LEMMA PlainStates ==
    ASSUME Typed
    PROVE  /\ Plain(Idle)
           /\ \A w, k : \A pc \in {"idle", "lock", "write", "unlock", "rewrite"} :
                \A why \in {"", "contention"} : Plain(ToWrite(w, pc, k, why))
<1>1. 0 <= clock /\ 0 <= cleared
  BY DEF Typed, RowsTyped
<1>2. Plain(Idle)
  BY <1>1 DEF Plain, Idle
<1>3. ASSUME NEW w, NEW k, NEW pc \in {"idle", "lock", "write", "unlock", "rewrite"},
             NEW why \in {"", "contention"}
      PROVE  Plain(ToWrite(w, pc, k, why))
  <2> DEFINE s == ToWrite(w, pc, k, why)
  <2>1. s.pc = pc /\ s.why = why /\ s.fetched = 0 /\ s.epoch = 0
    BY DEF ToWrite, Idle
  <2> HIDE DEF s
  <2>2. Plain(s)
    BY <1>1, <1>3, <2>1 DEF Plain
  <2>. QED
    BY <2>2 DEF s
<1>. QED
  BY <1>2, <1>3

LEMMA OutStates ==
    ASSUME Typed, NEW w \in Workers, NEW k
    PROVE  Plain(Out(w, k)) /\ (Out(w, k).pc = "unlock" => Inside(w))
<1>1. ToWrite(w, "rewrite", k, "").pc = "rewrite"
  BY DEF ToWrite, Idle
<1>. QED
  BY <1>1, PlainStates, IdleState DEF Out

LEMMA PlainFollows ==
    ASSUME Typed, NEW w \in Workers, NEW s, Plain(s),
           worker' = [worker EXCEPT ![w] = s],
           clock' = clock, cleared' = cleared,
           rowLock' # w,
           s.pc = "unlock" => Inside(w)'
    PROVE  Placed(w)' /\ Knows(w)' /\ Ordered(w)'
<1>1. worker'[w] = s
  BY DEF Typed, WorkersTyped
<1>2. clock \in Nat /\ cleared \in Nat
  BY DEF Typed, RowsTyped
<1>3. Placed(w)'
  BY <1>1 DEF Placed, Plain, Held
<1>4. Knows(w)'
  BY <1>1 DEF Knows, KnowsRow, Plain
<1>5. Ordered(w)'
  BY <1>1, <1>2 DEF Ordered, Plain
<1>. QED
  BY <1>3, <1>4, <1>5

\* Steps of the write phase that keep the lock and the row as they are.
LEMMA RowFollows ==
    ASSUME Typed, Followed, NEW w \in Workers,
           Update(w) \/ UpdateMisses(w) \/ SelectMissed(w) \/ Retry(w) \/ Insert(w)
    PROVE  Followed'
<1>1. Placed(w) /\ Knows(w) /\ Ordered(w) /\ RowKnown
  BY DEF Followed
<1>2. UNCHANGED <<holds, shared, detail, clock, cleared>>
  BY DEF Update, UpdateMisses, SelectMissed, Retry, Insert, Goes, lock
<1>3. \A v \in Workers \ {w} : rowLock' = v <=> rowLock = v
  BY NobodyIsNoWorker DEF Update, UpdateMisses, SelectMissed, Retry, Insert
<1>4. Inside(w) /\ Inside(w)' /\ shared' = shared
  BY <1>1, <1>2 DEF Update, UpdateMisses, SelectMissed, Retry, Insert, Placed, Held, Inside
<1>5. /\ worker[w] \in WorkerState /\ detail.version \in Nat /\ detail.fetched \in Nat
      /\ clock \in Nat /\ cleared \in Nat
  BY DEF Typed, WorkersTyped, RowsTyped
<1>6. rowLock # w
  BY <1>1 DEF Update, UpdateMisses, SelectMissed, Retry, Insert, Placed
<1>7. ASSUME NEW s, worker' = [worker EXCEPT ![w] = s], Placed(w)', Knows(w)', Ordered(w)'
      PROVE  Followed'
  BY <1>2, <1>3, <1>7, QuietFollows
<1>8. ASSUME NEW s, worker' = [worker EXCEPT ![w] = s],
             Plain(s), rowLock' = rowLock
      PROVE  Followed'
  BY <1>2, <1>3, <1>4, <1>6, <1>8, PlainFollows, QuietFollows
<1>9. Goes(w, ToWrite(w, "unlock", "fail", "conflict")) /\ rowLock' = rowLock
        /\ shared[w] # FALSE => Followed'
  <2> DEFINE s == ToWrite(w, "unlock", "fail", "conflict")
  <2>1. SUFFICES ASSUME worker' = [worker EXCEPT ![w] = s], rowLock' = rowLock,
                        shared[w] # FALSE
                 PROVE  Followed'
    BY DEF Goes
  <2>2. s.pc = "unlock" /\ s.fetched = 0 /\ s.epoch = 0
    BY ToWriteFields
  <2>3. worker'[w] = s
    BY <2>1 DEF Typed, WorkersTyped
  <2> HIDE DEF s
  <2>4. Placed(w)'
    BY <1>4, <1>6, <2>1, <2>2, <2>3 DEF Placed
  <2>5. Knows(w)'
    BY <1>4, <2>1 DEF Knows
  <2>6. Ordered(w)'
    BY <1>2, <1>5, <2>2, <2>3 DEF Ordered
  <2>. QED
    BY <1>7, <2>1, <2>4, <2>5, <2>6
<1>10. CASE Update(w)
  <2> DEFINE s == To(w, "commit")
  <2>1. worker' = [worker EXCEPT ![w] = s] /\ rowLock' = w /\ Sees(w)
        /\ worker[w].pc = "update"
    BY <1>10 DEF Update, Goes
  <2>2. /\ s.pc = "commit" /\ s.expected = worker[w].expected /\ s.retry = worker[w].retry
        /\ s.fetched = worker[w].fetched /\ s.epoch = worker[w].epoch
        /\ worker'[w] = s
    BY <2>1, ToFields DEF Typed, WorkersTyped
  <2> HIDE DEF s
  <2>3. Placed(w)'
    BY <1>2, <1>4, <2>1, <2>2 DEF Placed, Sees
  <2>4. Knows(w)'
    BY <1>1, <1>2, <1>4, <2>1, <2>2 DEF Knows, KnowsRow
  <2>5. Ordered(w)'
    BY <1>1, <1>2, <1>5, <2>1, <2>2 DEF Ordered, Sees
  <2>. QED
    BY <1>7, <2>1, <2>3, <2>4, <2>5
<1>11. CASE SelectMissed(w)
  <2> DEFINE e == IF worker[w].existed THEN worker[w].expected + 1 ELSE detail.version
             c == [worker[w] EXCEPT !.pc = "conflict", !.retry = TRUE, !.expected = e]
  <2>1. /\ worker[w].pc = "missed" /\ rowLock' = rowLock
        /\ \/ detail.version = 0 /\ Goes(w, To(w, "insert"))
           \/ detail.version # 0 /\ Goes(w, ToWrite(w, "unlock", "fail", "conflict"))
           \/ detail.version # 0 /\ Goes(w, c)
    BY <1>11 DEF SelectMissed
  <2>2. detail.version # 0 => shared[w] # FALSE
    BY <1>1, <2>1 DEF Knows, KnowsRow
  <2>3. CASE detail.version = 0 /\ Goes(w, To(w, "insert"))
    <3> DEFINE s == To(w, "insert")
    <3>1. worker' = [worker EXCEPT ![w] = s]
      BY <2>3 DEF Goes
    <3>2. /\ s.pc = "insert" /\ s.retry = worker[w].retry
          /\ s.fetched = worker[w].fetched /\ s.epoch = worker[w].epoch
          /\ worker'[w] = s
      BY <3>1, ToFields DEF Typed, WorkersTyped
    <3> HIDE DEF s
    <3>3. Placed(w)'
      BY <1>4, <1>6, <2>1, <3>2 DEF Placed
    <3>4. Knows(w)'
      BY <1>1, <1>2, <1>4, <2>1, <2>3, <3>2 DEF Knows, KnowsRow
    <3>5. Ordered(w)'
      BY <1>1, <1>2, <1>5, <2>1, <3>2 DEF Ordered
    <3>. QED
      BY <1>7, <3>1, <3>3, <3>4, <3>5
  <2>4. CASE detail.version # 0 /\ Goes(w, c)
    <3>1. worker' = [worker EXCEPT ![w] = c]
      BY <2>4 DEF Goes
    <3>2. /\ c.pc = "conflict" /\ c.retry = TRUE
          /\ c.fetched = worker[w].fetched /\ c.epoch = worker[w].epoch
      BY <1>5 DEF WorkerState
    <3>6. worker'[w] = c
      BY <3>1 DEF Typed, WorkersTyped
    <3> HIDE DEF c
    <3>3. Placed(w)'
      BY <1>4, <1>6, <2>1, <3>2, <3>6 DEF Placed
    <3>4. Knows(w)'
      BY <1>4, <2>2, <2>4 DEF Knows
    <3>5. Ordered(w)'
      BY <1>1, <1>2, <1>5, <2>1, <3>2, <3>6 DEF Ordered
    <3>. QED
      BY <1>7, <3>1, <3>3, <3>4, <3>5
  <2>. QED
    BY <1>9, <2>1, <2>2, <2>3, <2>4
<1>14. CASE UpdateMisses(w)
  <2> DEFINE s == To(w, "missed")
  <2>1. worker' = [worker EXCEPT ![w] = s] /\ rowLock' = rowLock /\ ~Sees(w)
        /\ worker[w].pc = "update"
    BY <1>14 DEF UpdateMisses, Goes
  <2>2. /\ s.pc = "missed" /\ s.retry = worker[w].retry
        /\ s.fetched = worker[w].fetched /\ s.epoch = worker[w].epoch
        /\ worker'[w] = s
    BY <2>1, ToFields DEF Typed, WorkersTyped
  <2> HIDE DEF s
  <2>3. Placed(w)'
    BY <1>4, <1>6, <2>1, <2>2 DEF Placed
  <2>4. Knows(w)'
    <3>1. shared[w] = FALSE => detail.version = 0 /\ detail.fresh = FALSE
      BY <1>1, <1>5, <2>1 DEF Knows, KnowsRow, Sees
    <3>. QED
      BY <1>2, <1>4, <2>2, <3>1 DEF Knows, KnowsRow
  <2>5. Ordered(w)'
    BY <1>1, <1>2, <1>5, <2>1, <2>2 DEF Ordered
  <2>. QED
    BY <1>7, <2>1, <2>3, <2>4, <2>5
<1>12. CASE Retry(w)
  <2>1. /\ worker[w].pc = "conflict" /\ rowLock' = rowLock
        /\ \/ Goes(w, ToWrite(w, "unlock", "fail", "conflict"))
           \/ Goes(w, To(w, "update"))
    BY <1>12 DEF Retry
  <2>2. shared[w] # FALSE
    BY <1>1, <2>1 DEF Knows, KnowsRow
  <2>3. CASE Goes(w, To(w, "update"))
    <3> DEFINE s == To(w, "update")
    <3>1. worker' = [worker EXCEPT ![w] = s]
      BY <2>3 DEF Goes
    <3>2. /\ s.pc = "update" /\ s.retry = worker[w].retry
          /\ s.fetched = worker[w].fetched /\ s.epoch = worker[w].epoch
          /\ worker'[w] = s
      BY <3>1, ToFields DEF Typed, WorkersTyped
    <3> HIDE DEF s
    <3>3. Placed(w)'
      BY <1>4, <1>6, <2>1, <3>2 DEF Placed
    <3>4. Knows(w)'
      BY <1>4, <2>2 DEF Knows
    <3>5. Ordered(w)'
      BY <1>1, <1>2, <1>5, <2>1, <3>2 DEF Ordered
    <3>. QED
      BY <1>7, <3>1, <3>3, <3>4, <3>5
  <2>. QED
    BY <1>9, <2>1, <2>2, <2>3
<1>13. CASE Insert(w)
  <2> DEFINE s == [To(w, "commit") EXCEPT !.expected = 0]
  <2>1. /\ worker[w].pc = "insert"
        /\ \/ detail.version = 0 /\ rowLock' = w /\ Goes(w, s)
           \/ /\ detail.version # 0 /\ rowLock' = rowLock
              /\ Goes(w, ToWrite(w, "unlock", "fail", "conflict"))
    BY <1>13 DEF Insert
  <2>2. detail.version # 0 => shared[w] # FALSE
    BY <1>1, <2>1 DEF Knows, KnowsRow
  <2>3. CASE detail.version = 0 /\ rowLock' = w /\ Goes(w, s)
    <3>1. worker' = [worker EXCEPT ![w] = s]
      BY <2>3 DEF Goes
    <3>2. /\ s.pc = "commit" /\ s.expected = 0 /\ s.retry = worker[w].retry
          /\ s.fetched = worker[w].fetched /\ s.epoch = worker[w].epoch
      BY <1>5 DEF To, WorkerState
    <3>6. worker'[w] = s
      BY <3>1 DEF Typed, WorkersTyped
    <3>7. detail = NoRow /\ detail.fetched = 0 /\ detail.fresh = FALSE
      BY <1>1, <2>3 DEF RowKnown, NoRow
    <3> HIDE DEF s
    <3>3. Placed(w)'
      BY <1>2, <1>4, <2>3, <3>2, <3>6 DEF Placed
    <3>4. Knows(w)'
      BY <1>2, <3>2, <3>6, <3>7 DEF Knows, KnowsRow
    <3>5. Ordered(w)'
      BY <1>1, <1>2, <1>5, <2>1, <3>2, <3>6, <3>7 DEF Ordered
    <3>. QED
      BY <1>7, <3>1, <3>3, <3>4, <3>5
  <2>. QED
    BY <1>9, <2>1, <2>2, <2>3
<1>. QED
  BY <1>10, <1>11, <1>12, <1>13, <1>14

\* A worker leaves the lock, or is not in it.
LEMMA LeaverFollows ==
    ASSUME Typed, Followed, NEW w \in Workers, NEW s,
           Plain(s), s.pc # "unlock",
           worker' = [worker EXCEPT ![w] = s],
           holds' = [holds EXCEPT ![w] = NoDomain],
           shared' = [shared EXCEPT ![w] = FALSE],
           UNCHANGED <<detail, clock, cleared>>,
           rowLock' # w,
           \A v \in Workers \ {w} : rowLock' = v <=> rowLock = v
    PROVE  Followed'
<1>1. /\ \A v \in Workers \ {w} : holds'[v] = holds[v] /\ shared'[v] = shared[v]
      /\ holds'[w] = NoDomain
      /\ clock \in Nat
  BY DEF Typed, LocksTyped, RowsTyped, Lock!LockTypeOK
<1>2. /\ \A v \in Workers \ {w} : Inside(v)' <=> Inside(v)
      /\ ~Inside(w)'
  BY <1>1 DEF Inside
<1>3. \A v \in Workers \ {w} : Placed(v)' /\ Knows(v)' /\ Ordered(v)'
  <2>1. clock' \in Nat /\ clock <= clock'
    BY <1>1
  <2>2. \A v \in Workers \ {w} : /\ Inside(v)' <=> Inside(v)
                                 /\ rowLock' = v <=> rowLock = v
                                 /\ Inside(v) /\ shared'[v] = FALSE => shared[v] = FALSE
    BY <1>1, <1>2
  <2>. QED
    BY <2>1, <2>2, OthersFollow
<1>4. Placed(w)' /\ Knows(w)' /\ Ordered(w)'
  BY PlainFollows
<1>5. Sharing'
  BY <1>1, <1>2 DEF Followed, Sharing
<1>6. RowKnown'
  BY DEF Followed, RowKnown
<1>. QED
  BY <1>3, <1>4, <1>5, <1>6 DEF Followed

\* Steps without the lock, or with it before the write phase.
LEMMA WayFollows ==
    ASSUME Typed, Followed, NEW w \in Workers,
           \/ LockNotAcquired(w) \/ Recheck(w) \/ Probe(w)
           \/ Write(w) \/ Rewrite(w) \/ Raise(w)
           \/ \E t \in Tasks : Begin(w, t) \/ BeginRecovered(w, t)
    PROVE  Followed'
<1>1. Placed(w) /\ Knows(w) /\ Ordered(w)
  BY DEF Followed
<1>2. UNCHANGED <<holds, shared, detail, clock, cleared>>
  BY DEF LockNotAcquired, Recheck, Probe, Write, Rewrite, Raise, Begin, BeginRecovered, Starts, Goes, EndTask, lock,
         Lock!AcquireReplyLost
<1>3. rowLock' # w /\ \A v \in Workers \ {w} : rowLock' = v <=> rowLock = v
  BY <1>1, NobodyIsNoWorker
     DEF LockNotAcquired, Recheck, Probe, Write, Rewrite, Raise, Begin, BeginRecovered, Starts, EndTask, Placed
<1>4. Inside(w)' <=> Inside(w)
  BY <1>2 DEF Inside
<1>5. ASSUME NEW s, worker' = [worker EXCEPT ![w] = s], Plain(s),
             s.pc = "unlock" => Inside(w)
      PROVE  Followed'
  BY <1>2, <1>3, <1>4, <1>5, PlainFollows, QuietFollows
<1>6. ASSUME NEW pc \in {"probe", "persist"}, Goes(w, To(w, pc)),
             shared[w] = FALSE => detail.fresh = FALSE, Inside(w)
      PROVE  Followed'
  <2> DEFINE s == To(w, pc)
  <2>1. worker' = [worker EXCEPT ![w] = s]
    BY <1>6 DEF Goes
  <2>2. s.pc = pc /\ s.fetched = worker[w].fetched /\ s.epoch = worker[w].epoch
        /\ worker'[w] = s
    BY <2>1, ToFields DEF Typed, WorkersTyped
  <2> HIDE DEF s
  <2>3. Placed(w)'
    BY <1>3, <1>4, <1>6, <2>2 DEF Placed
  <2>4. Knows(w)'
    BY <1>2, <1>6, <2>2 DEF Knows, KnowsRow
  <2>5. Ordered(w)'
    BY <1>1, <1>2, <1>6, <2>2 DEF Ordered
  <2>. QED
    BY <1>2, <1>3, <2>1, <2>3, <2>4, <2>5, QuietFollows
<1>7. CASE LockNotAcquired(w)
  <2>1. worker' = [worker EXCEPT ![w] = ToWrite(w, "write", "reschedule", "contention")]
    BY <1>7 DEF LockNotAcquired, Goes
  <2>2. Plain(ToWrite(w, "write", "reschedule", "contention"))
    BY PlainStates
  <2>3. ToWrite(w, "write", "reschedule", "contention").pc = "write"
    BY ToWriteFields
  <2>. QED
    BY <1>5, <2>1, <2>2, <2>3
<1>8. CASE Recheck(w)
  <2>1. Inside(w)
    BY <1>1, <1>8 DEF Recheck, Placed, Held
  <2>2. CASE detail.fresh
    <3>1. worker' = [worker EXCEPT ![w] = ToWrite(w, "write", "complete", "")]
      BY <1>8, <2>2 DEF Recheck, Goes
    <3>2. Plain(ToWrite(w, "write", "complete", ""))
      BY PlainStates
    <3>. QED
      BY <1>5, <2>1, <3>1, <3>2
  <2>3. CASE ~detail.fresh
    <3>1. Goes(w, To(w, "probe")) /\ detail.fresh = FALSE
      BY <1>8, <2>3 DEF Recheck, Typed, RowsTyped
    <3>. QED
      BY <1>6, <2>1, <3>1
  <2>. QED
    BY <2>2, <2>3
<1>9. CASE Probe(w)
  <2>1. Inside(w) /\ worker[w].pc = "probe"
    BY <1>1, <1>9 DEF Probe, Placed, Held
  <2>2. PICK k \in Judgements :
          Goes(w, CASE k = "complete" -> To(w, "persist")
                    [] k = "nothing" -> ToWrite(w, "unlock", "nothing", "")
                    [] OTHER -> ToWrite(w, "write", k, ""))
    BY <1>9 DEF Probe
  <2>3. CASE Goes(w, To(w, "persist"))
    BY <1>1, <1>6, <2>1, <2>3 DEF Knows, KnowsRow
  <2>4. ASSUME NEW pc \in {"unlock", "write"}, Goes(w, ToWrite(w, pc, k, ""))
        PROVE  Followed'
    <3>1. Plain(ToWrite(w, pc, k, ""))
      BY PlainStates
    <3>. QED
      BY <1>5, <2>1, <2>4, <3>1 DEF Goes
  <2>. QED
    BY <2>2, <2>3, <2>4
<1>10. CASE Write(w) \/ Raise(w)
  <2>1. PICK k : worker' = [worker EXCEPT ![w] = Out(w, k)]
    BY <1>10 DEF Write, Raise, Goes
  <2>2. Plain(Out(w, k)) /\ (Out(w, k).pc = "unlock" => Inside(w))
    BY OutStates
  <2>. QED
    BY <1>5, <2>1, <2>2
<1>11. CASE Rewrite(w)
  BY <1>5, <1>11, PlainStates, IdleState DEF Rewrite
<1>12. ASSUME NEW t \in Tasks, Begin(w, t) \/ BeginRecovered(w, t) PROVE Followed'
  <2> DEFINE s == [Idle EXCEPT !.task = t, !.pc = IF detail.fresh THEN "write" ELSE "lock",
                               !.write = IF detail.fresh THEN "complete" ELSE "nothing"]
  <2>1. worker' = [worker EXCEPT ![w] = s]
    BY <1>12 DEF Begin, BeginRecovered, Starts
  <2>2. s.pc \in {"write", "lock"} /\ s.fetched = 0 /\ s.epoch = 0
    BY DEF Idle
  <2> HIDE DEF s
  <2>3. Plain(s)
    BY <2>2 DEF Plain, Typed, RowsTyped
  <2>. QED
    BY <1>5, <2>1, <2>2, <2>3
<1>. QED
  BY <1>7, <1>8, <1>9, <1>10, <1>11, <1>12

LEMMA LockAcquiredFollows ==
    ASSUME Typed, Followed, NEW w \in Workers, LockAcquired(w)
    PROVE  Followed'
<1> DEFINE s == To(w, "recheck")
<1>1. Placed(w) /\ Ordered(w) /\ RowKnown /\ worker[w].pc = "lock"
  BY DEF Followed, LockAcquired
<1>2. /\ worker' = [worker EXCEPT ![w] = s]
      /\ UNCHANGED <<rowLock, detail, clock, cleared>>
      /\ clock \in Nat
  BY DEF LockAcquired, Goes, Typed, RowsTyped
<1>3. /\ s.pc = "recheck" /\ s.fetched = worker[w].fetched /\ s.epoch = worker[w].epoch
      /\ worker'[w] = s
  BY <1>2, ToFields DEF Typed, WorkersTyped
<1> HIDE DEF s
<1>4. /\ Inside(w)'
      /\ \A v \in Workers \ {w} : Inside(v)' <=> Inside(v)
  BY DomainNotNone DEF LockAcquired, Lock!Acquire, Inside, Typed, LocksTyped, Lock!LockTypeOK
<1>5. /\ \A v \in Workers \ {w} : Inside(v) => shared'[v] # FALSE
      /\ shared'[w] = FALSE => \A v \in Workers \ {w} : ~Inside(v)
  BY DEF LockAcquired
<1>6. \A v \in Workers \ {w} : Placed(v)' /\ Knows(v)' /\ Ordered(v)'
  <2>1. clock' \in Nat /\ clock <= clock'
    BY <1>2
  <2>2. \A v \in Workers \ {w} : /\ Inside(v)' <=> Inside(v)
                                 /\ rowLock' = v <=> rowLock = v
                                 /\ Inside(v) /\ shared'[v] = FALSE => shared[v] = FALSE
    BY <1>2, <1>4, <1>5
  <2>. QED
    BY <1>2, <2>1, <2>2, OthersFollow
<1>7. Placed(w)'
  BY <1>1, <1>2, <1>3, <1>4 DEF Placed
<1>8. Knows(w)'
  BY <1>3 DEF Knows, KnowsRow
<1>9. Ordered(w)'
  BY <1>1, <1>2, <1>3 DEF Ordered
<1>10. Sharing'
  BY <1>4, <1>5 DEF Sharing
<1>11. RowKnown'
  BY <1>1, <1>2 DEF RowKnown
<1>. QED
  BY <1>6, <1>7, <1>8, <1>9, <1>10, <1>11 DEF Followed

LEMMA LeavingFollows ==
    ASSUME Typed, Followed, NEW w \in Workers, Unlock(w) \/ Vanish(w)
    PROVE  Followed'
<1>1. Placed(w) /\ Ordered(w)
  BY DEF Followed
<1>2. /\ UNCHANGED <<detail, clock, cleared>>
      /\ shared' = [shared EXCEPT ![w] = FALSE]
  BY DEF Unlock, Vanish, Goes
<1>3. holds' = [holds EXCEPT ![w] = NoDomain]
  BY DEF Unlock, Vanish, Lock!Release, Lock!Abandon, Lock!Leave, Inside,
         Typed, LocksTyped, Lock!LockTypeOK
<1>4. rowLock' # w /\ \A v \in Workers \ {w} : rowLock' = v <=> rowLock = v
  BY <1>1, NobodyIsNoWorker DEF Unlock, Vanish, Placed
<1>5. ASSUME NEW s, Plain(s), s.pc # "unlock", worker' = [worker EXCEPT ![w] = s]
      PROVE  Followed'
  BY <1>2, <1>3, <1>4, <1>5, LeaverFollows
<1>6. Goes(w, Idle) => Followed'
  BY <1>5, PlainStates, IdleState DEF Goes
<1>7. Goes(w, To(w, "rewrite")) => Followed'
  <2> DEFINE s == To(w, "rewrite")
  <2>1. s.pc = "rewrite" /\ s.fetched = worker[w].fetched /\ s.epoch = worker[w].epoch
    BY ToFields DEF Typed
  <2> HIDE DEF s
  <2>2. Plain(s)
    BY <1>1, <2>1 DEF Plain, Ordered
  <2>3. worker' = [worker EXCEPT ![w] = s] => Followed'
    BY <1>5, <2>1, <2>2
  <2>. QED
    BY <2>3 DEF Goes, s
<1>. QED
  BY <1>6, <1>7 DEF Unlock, Vanish

LEMMA PersistFollows ==
    ASSUME Typed, Followed, NEW w \in Workers, Persist(w)
    PROVE  Followed'
<1> DEFINE s == [worker[w] EXCEPT !.pc = "update", !.expected = detail.version,
                              !.existed = detail.version > 0, !.fetched = clock + 1,
                              !.epoch = cleared]
<1>1. Placed(w) /\ Knows(w) /\ RowKnown /\ worker[w].pc = "persist"
  BY DEF Followed, Persist
<1>2. /\ worker' = [worker EXCEPT ![w] = s]
      /\ UNCHANGED <<rowLock, detail, cleared, holds, shared>>
      /\ clock' = clock + 1
  BY DEF Persist, lock
<1>3. /\ worker[w] \in WorkerState /\ clock \in Nat /\ cleared \in Nat
      /\ detail.version \in Nat /\ detail.fetched \in Nat
  BY DEF Typed, WorkersTyped, RowsTyped
<1>4. /\ s.pc = "update" /\ s.expected = detail.version
      /\ s.fetched = clock + 1 /\ s.epoch = cleared
  BY <1>3 DEF WorkerState
<1>5. worker'[w] = s
  BY <1>2 DEF Typed, WorkersTyped
<1> HIDE DEF s
<1>6. \A v \in Workers : Inside(v)' <=> Inside(v)
  BY <1>2 DEF Inside
<1>7. \A v \in Workers \ {w} : Placed(v)' /\ Knows(v)' /\ Ordered(v)'
  <2>1. clock' \in Nat /\ clock <= clock'
    BY <1>2, <1>3
  <2>2. \A v \in Workers \ {w} : /\ Inside(v)' <=> Inside(v)
                                 /\ rowLock' = v <=> rowLock = v
                                 /\ Inside(v) /\ shared'[v] = FALSE => shared[v] = FALSE
    BY <1>2, <1>6
  <2>. QED
    BY <1>2, <2>1, <2>2, OthersFollow
<1>8. Placed(w)'
  BY <1>1, <1>2, <1>4, <1>5, <1>6 DEF Placed, Held
<1>9. Knows(w)'
  BY <1>1, <1>2, <1>4, <1>5 DEF Knows, KnowsRow
<1>10. Ordered(w)'
  BY <1>1, <1>2, <1>3, <1>4, <1>5 DEF Ordered, RowKnown
<1>11. Sharing'
  BY <1>2, <1>6 DEF Followed, Sharing
<1>12. RowKnown'
  BY <1>1, <1>2, <1>3 DEF RowKnown
<1>. QED
  BY <1>7, <1>8, <1>9, <1>10, <1>11, <1>12 DEF Followed

\* Whoever stores a result was inside: another that is inside too is not alone.
LEMMA CommitFollows ==
    ASSUME Typed, Followed, NEW w \in Workers, Commit(w)
    PROVE  Followed'
<1>1. Placed(w) /\ Ordered(w) /\ RowKnown /\ Sharing /\ worker[w].pc = "commit"
  BY DEF Followed, Commit, Store
<1>2. rowLock = w /\ Inside(w) /\ detail.version = worker[w].expected
  BY <1>1 DEF Placed, Held
<1>3. PICK k : worker' = [worker EXCEPT ![w] = ToWrite(w, "unlock", k, "")]
  BY DEF Commit
<1>4. /\ UNCHANGED <<holds, shared, clock, cleared>>
      /\ rowLock' = Nobody
      /\ detail' = [version |-> worker[w].expected + 1, fetched |-> worker[w].fetched,
                    fresh |-> TRUE]
  BY DEF Commit, Store, lock
<1>5. /\ detail'.version = detail.version + 1 /\ detail.version \in Nat
      /\ detail'.fetched = worker[w].fetched
  BY <1>2, <1>4 DEF Typed, RowsTyped
<1>6. \A v \in Workers : Inside(v)' <=> Inside(v)
  BY <1>4 DEF Inside
<1>7. Placed(w)' /\ Knows(w)' /\ Ordered(w)'
  <2>1. Plain(ToWrite(w, "unlock", k, ""))
    BY PlainStates
  <2>2. Inside(w)' /\ rowLock' # w
    BY <1>2, <1>4, <1>6, NobodyIsNoWorker
  <2>. QED
    BY <1>3, <1>4, <2>1, <2>2, PlainFollows
<1>8. ASSUME NEW v \in Workers \ {w} PROVE Placed(v)' /\ Knows(v)' /\ Ordered(v)'
  <2>1. worker'[v] = worker[v] /\ worker[v] \in WorkerState
    BY <1>3 DEF Typed, WorkersTyped
  <2>2. Placed(v) /\ Ordered(v)
    BY DEF Followed
  <2>3. worker[v].pc # "commit"
    BY <1>2, <2>2 DEF Placed
  <2>4. Placed(v)'
    BY <1>4, <1>6, <2>1, <2>2, <2>3, NobodyIsNoWorker DEF Placed
  <2>5. shared[v] = FALSE => worker[v].pc \notin Held
    BY <1>1, <1>2, <2>2 DEF Sharing, Placed
  <2>6. Knows(v)'
    BY <1>4, <2>1, <2>5 DEF Knows, KnowsRow, Held
  <2>7. Ordered(v)'
    <3>1. worker[v].expected \in Nat
      BY <2>1 DEF WorkerState
    <3>. QED
      BY <1>4, <1>5, <2>1, <2>2, <2>3, <3>1 DEF Ordered
  <2>. QED
    BY <2>4, <2>6, <2>7
<1>9. Sharing'
  BY <1>1, <1>4, <1>6 DEF Sharing
<1>10. RowKnown'
  BY <1>1, <1>4, <1>5 DEF RowKnown, Ordered
<1>. QED
  BY <1>7, <1>8, <1>9, <1>10 DEF Followed

\* Deleting the row of an inactive domain makes every worker's version one of a row
\* that is gone.
LEMMA SubmitFollows ==
    ASSUME Typed, Followed, NEW t \in Tasks, Submit(t)
    PROVE  Followed'
<1>1. /\ UNCHANGED <<holds, shared, rowLock, worker, clock>>
      /\ clock \in Nat /\ cleared \in Nat
      /\ detail = NoRow \/ detail.version # 0
  BY DEF Submit, lock, Typed, RowsTyped, Followed, RowKnown
<1>2. Sharing'
  BY <1>1 DEF Followed, Sharing, Inside
<1>3. CASE UNCHANGED <<detail, cleared>>
  <2>1. \A w \in Workers : Placed(w)' /\ Knows(w)' /\ Ordered(w)'
    BY <1>1, <1>3 DEF Followed, Placed, Knows, KnowsRow, Ordered, Inside
  <2>2. RowKnown'
    BY <1>1, <1>3 DEF Followed, RowKnown
  <2>. QED
    BY <1>2, <2>1, <2>2 DEF Followed
<1>4. CASE rowLock = Nobody /\ detail' = NoRow /\ cleared' = cleared + 1
  <2>1. /\ detail'.version = 0 /\ detail'.fetched = 0 /\ detail'.fresh = FALSE
    BY <1>4 DEF NoRow
  <2>2. RowKnown'
    BY <1>1, <1>4, <2>1 DEF RowKnown
  <2>3. ASSUME NEW w \in Workers PROVE Placed(w)' /\ Knows(w)' /\ Ordered(w)'
    <3>1. /\ Placed(w) /\ Knows(w) /\ Ordered(w)
          /\ worker[w].epoch \in Nat
      BY DEF Followed, Typed, WorkersTyped, WorkerState
    <3>2. worker[w].pc # "commit"
      BY <1>4, <3>1, NobodyIsNoWorker DEF Placed
    <3>3. Placed(w)'
      BY <1>1, <3>1, <3>2 DEF Placed, Inside
    <3>4. Knows(w)'
      BY <1>1, <2>1, <3>1 DEF Knows, KnowsRow
    <3>5. Ordered(w)'
      BY <1>1, <1>4, <3>1 DEF Ordered
    <3>. QED
      BY <3>3, <3>4, <3>5
  <2>. QED
    BY <1>2, <2>2, <2>3 DEF Followed
<1>5. \/ UNCHANGED <<detail, cleared>>
      \/ rowLock = Nobody /\ detail' = NoRow /\ cleared' = cleared + 1
  <2>1. NoRow.version = 0
    BY DEF NoRow
  <2>. QED
    BY <1>1, <2>1 DEF Submit
<1>. QED
  BY <1>3, <1>4, <1>5

\* A detail that gets old, and steps that touch neither workers nor rows.
LEMMA TimeFollows ==
    ASSUME Typed, Followed, UNCHANGED <<holds, shared, rowLock, worker, clock, cleared>>,
           detail' = detail \/ (detail.fresh /\ detail' = [detail EXCEPT !.fresh = FALSE])
    PROVE  Followed'
<1>1. /\ detail'.version = detail.version /\ detail'.fetched = detail.fetched
      /\ detail.fresh = FALSE => detail'.fresh = FALSE
      /\ detail' = detail \/ detail # NoRow
  BY DEF Typed, RowsTyped, NoRow
<1>2. ASSUME NEW w \in Workers PROVE Placed(w)' /\ Knows(w)' /\ Ordered(w)'
  <2>1. Placed(w) /\ Knows(w) /\ Ordered(w)
    BY DEF Followed
  <2>. QED
    BY <1>1, <2>1 DEF Placed, Knows, KnowsRow, Ordered, Inside
<1>3. Sharing'
  BY DEF Followed, Sharing, Inside
<1>4. RowKnown'
  BY <1>1 DEF Followed, RowKnown
<1>. QED
  BY <1>2, <1>3, <1>4 DEF Followed

LEMMA FollowedStep == Typed /\ Followed /\ [Next]_vars => Followed'
<1> SUFFICES ASSUME Typed, Followed, [Next]_vars PROVE Followed'
  OBVIOUS
<1>1. CASE UNCHANGED vars \/ Age \/ KeyExpires \/ \E t \in Tasks : Recover(t)
  BY <1>1, TimeFollows DEF vars, lock, Age, KeyExpires, Lock!Expire, Recover
<1>. QED
  BY <1>1, SubmitFollows, WayFollows, LockAcquiredFollows, LeavingFollows, PersistFollows,
     RowFollows, CommitFollows
     DEF Next, Processing, Persisting, Rest

LEMMA Always == Spec => [](Typed /\ Followed)
  BY TypedInit, TypedStep, FollowedInit, FollowedStep, PTL DEF Spec

-----------------------------------------------------------------------------
\* The row that a transaction of upsert_with_occ has locked or inserted is still the
\* one it saw when it commits, although the lock of the domain may have lapsed and
\* others write too.
THEOREM RowStands == Spec => []LockedRowStands
<1>1. Typed /\ Followed => LockedRowStands
  <2> SUFFICES ASSUME Typed, Followed PROVE LockedRowStands
    OBVIOUS
  <2>1. \A w \in Workers : Placed(w)
    BY DEF Followed
  <2>2. \A w \in Workers : worker[w].pc = "commit" => rowLock = w /\ Inside(w)
    BY <2>1 DEF Placed, Held
  <2>3. rowLock # Nobody => detail.version = worker[rowLock].expected
    BY <2>1 DEF Placed, Typed, LocksTyped
  <2>. QED
    BY <2>2, <2>3 DEF LockedRowStands
<1>. QED
  BY <1>1, Always, PTL

\* _persist_domain_detail meets a version conflict only in a worker that was not alone
\* in the lock of the domain: one whose key lapsed, or that came after such a one.
THEOREM ConflictMeansShared == Spec => []ConflictOnlyIfShared
<1>1. Typed /\ Followed => ConflictOnlyIfShared
  BY DEF Typed, LocksTyped, Followed, Knows, KnowsRow, ConflictOnlyIfShared
<1>. QED
  BY <1>1, Always, PTL

\* The double check of process_task: a worker alone in the lock stores no result over
\* a fresh one.
THEOREM AloneProbesOnce == Spec => ProbedAgainOnlyIfShared
<1>1. Typed /\ Followed /\ [Next]_vars =>
        [\A w \in Workers :
           rowLock = w /\ detail.fresh /\ detail'.fetched # detail.fetched => shared[w]]_vars
  <2> SUFFICES ASSUME Typed, Followed, NEW w \in Workers, rowLock = w, detail.fresh
               PROVE  shared[w]
    OBVIOUS
  <2>1. worker[w].pc = "commit" /\ Knows(w)
    BY DEF Followed, Placed
  <2>. QED
    BY <2>1 DEF Knows, KnowsRow, Typed, LocksTyped
<1>. QED
  BY <1>1, Always, PTL DEF Spec, ProbedAgainOnlyIfShared

LEMMA WhoStores ==
    ASSUME Typed, Followed, [Next]_vars, NEW w \in Workers, rowLock = w
    PROVE  detail'.fetched \in {0, detail.fetched, worker[w].fetched}
<1>1. CASE \E t \in Tasks : Submit(t)
  BY <1>1 DEF Submit, NoRow
<1>2. CASE Age
  BY <1>2 DEF Age, Typed, RowsTyped
<1>3. ASSUME NEW v \in Workers, Commit(v)
      PROVE  detail'.fetched \in {0, detail.fetched, worker[w].fetched}
  <2>1. v = w
    BY <1>3 DEF Commit, Store, Followed, Placed
  <2>. QED
    BY <1>3, <2>1 DEF Commit, Store
<1>. QED
  BY <1>1, <1>2, <1>3
     DEF Next, Processing, Persisting, Rest, vars, Recover, Begin, BeginRecovered, Starts, KeyExpires, LockAcquired,
         LockNotAcquired, Recheck, Probe, Persist, Update, UpdateMisses, SelectMissed, Retry, Insert, Write,
         Rewrite, Raise, Unlock, Vanish, Goes, EndTask

\* What the version check of upsert_with_occ is for: without a retry, and if nobody
\* deleted the row, a result never replaces a later one.
THEOREM StaleOnlyByRetry == Spec => OlderOnlyByRetry
<1>1. Typed /\ Followed /\ [Next]_vars =>
        [\A w \in Workers :
           rowLock = w /\ 0 < detail'.fetched /\ detail'.fetched < detail.fetched =>
             worker[w].retry \/ worker[w].epoch # cleared]_vars
  <2> SUFFICES ASSUME Typed, Followed, [Next]_vars, NEW w \in Workers, rowLock = w,
                      0 < detail'.fetched, detail'.fetched < detail.fetched
               PROVE  worker[w].retry \/ worker[w].epoch # cleared
    OBVIOUS
  <2>1. worker[w].pc = "commit" /\ Ordered(w)
    BY DEF Followed, Placed
  <2>2. /\ detail.fetched \in Nat /\ worker[w].fetched \in Nat
        /\ worker[w].retry \in BOOLEAN
    BY DEF Typed, RowsTyped, WorkersTyped, WorkerState
  <2>3. detail'.fetched = worker[w].fetched
    <3>1. detail'.fetched \in {0, detail.fetched, worker[w].fetched}
      BY WhoStores
    <3>. QED
      BY <2>2, <3>1
  <2>. QED
    BY <2>1, <2>2, <2>3 DEF Ordered
<1>. QED
  BY <1>1, Always, PTL DEF Spec, OlderOnlyByRetry

-----------------------------------------------------------------------------
(***************************************************************************)
(* The workers use the lock as DomainLock says, so that what is proved of  *)
(* DomainLock is true of them.                                             *)
(***************************************************************************)
LockProofs == INSTANCE DomainLock_proofs WITH Domains <- {Domain}

LEMMA StepIsLockStep == [Next]_vars => [Lock!Next]_(Lock!vars)
<1> SUFFICES ASSUME Next PROVE Lock!Next \/ UNCHANGED <<key, holds, token, lapsed>>
  BY DEF vars, lock, Lock!vars
<1>1. CASE KeyExpires
  BY <1>1 DEF KeyExpires, Lock!Next
<1>2. ASSUME NEW w \in Workers, LockAcquired(w) \/ LockNotAcquired(w)
      PROVE  Lock!Next \/ UNCHANGED <<key, holds, token, lapsed>>
  BY <1>2 DEF LockAcquired, LockNotAcquired, Lock!Next
<1>3. ASSUME NEW w \in Workers, Unlock(w) \/ Vanish(w)
      PROVE  Lock!Next \/ UNCHANGED <<key, holds, token, lapsed>>
  BY <1>3 DEF Unlock, Vanish, Lock!Next
<1>4. CASE UNCHANGED lock
  BY <1>4 DEF lock
<1>. QED
  BY <1>1, <1>2, <1>3, <1>4
     DEF Next, Processing, Persisting, Submit, Recover, Begin, BeginRecovered, Starts, Age, Recheck, Probe, Persist,
         Update, UpdateMisses, SelectMissed, Retry, Insert, Commit, Store, Write, Rewrite, Raise, Rest, vars

\* process_task enters and leaves the lock in no other way than the context
\* manager of DomainLock.
THEOREM ProcessingUsesLock == Spec => Lock!Spec
<1>1. Init => Lock!Init
  BY DEF Init
<1>. QED
  BY <1>1, StepIsLockStep, PTL DEF Spec, Lock!Spec

LEMMA LockInvHolds == Spec => []LockProofs!LockInv
<1>1. Lock!Init => LockProofs!Init
  BY DEF Lock!Init, LockProofs!Init
<1>2. [Lock!Next]_(Lock!vars) => [LockProofs!Next]_(LockProofs!vars)
  <2>1. Lock!Next => LockProofs!Next
    BY DEF Lock!Next, LockProofs!Next, Lock!Acquire, LockProofs!Acquire,
           Lock!AcquireReplyLost, LockProofs!AcquireReplyLost, Lock!Release,
           LockProofs!Release, Lock!Abandon, LockProofs!Abandon, Lock!Leave,
           LockProofs!Leave, Lock!Expire, LockProofs!Expire, Lock!Fresh, LockProofs!Fresh
  <2>. QED
    BY <2>1 DEF Lock!vars, LockProofs!vars
<1>3. LockProofs!Spec => []LockProofs!LockInv
  BY LockProofs!LockInvariant, DomainNotNone, TokensWithoutNone, WorkersAreNotOwners
<1>. QED
  BY <1>1, <1>2, <1>3, ProcessingUsesLock, PTL DEF Lock!Spec, LockProofs!Spec

\* Another worker gets the key of a domain only when it is gone, and the key of a
\* worker in process_task is gone only if its time to live has run out.
THEOREM SharedMeansLapse == Spec => SharedOnlyAfterLapse
<1>1. Typed /\ LockProofs!LockInv /\ [Next]_vars =>
        [\A w \in Workers :
           shared'[w] /\ ~shared[w] => \E v \in Workers : Inside(v) /\ lapsed[v]]_vars
  <2> SUFFICES ASSUME Typed, LockProofs!LockInv, Next, NEW w \in Workers,
                      shared'[w], ~shared[w]
               PROVE  \E v \in Workers : Inside(v) /\ lapsed[v]
    OBVIOUS
  <2>1. PICK u \in Workers : LockAcquired(u)
    <3>1. CASE UNCHANGED shared
      BY <3>1
    <3>2. ASSUME NEW v \in Workers, Unlock(v) \/ Vanish(v) PROVE FALSE
      BY <3>2 DEF Unlock, Vanish, Typed, LocksTyped
    <3>. QED
      BY <3>1, <3>2
         DEF Next, Processing, Persisting, Submit, Recover, Begin, BeginRecovered, Starts, Age, KeyExpires,
             LockNotAcquired, Recheck, Probe, Persist, Update, UpdateMisses, SelectMissed, Retry, Insert,
             Commit, Store, Write, Rewrite, Raise, Rest, vars, lock
  <2>2. key[Domain] = NoToken
    BY <2>1 DEF LockAcquired, Lock!Acquire
  <2>3. PICK v \in Workers : Inside(v)
    BY <2>1 DEF LockAcquired
  <2>4. holds[v] = Domain /\ token[v] # NoToken
    BY <2>3 DEF Inside, LockProofs!LockInv, LockProofs!LockTypeOK, LockProofs!TokensApart
  <2>5. lapsed[v]
    BY <2>2, <2>4, DomainNotNone DEF LockProofs!LockInv, LockProofs!HeldUntilLapsed
  <2>. QED
    BY <2>3, <2>5
<1>. QED
  BY <1>1, Always, LockInvHolds, PTL DEF Spec, SharedOnlyAfterLapse
=============================================================================
