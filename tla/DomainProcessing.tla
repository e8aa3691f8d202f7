-------------------------- MODULE DomainProcessing --------------------------
(***************************************************************************)
(* How workers process the tasks of one domain (process_task): read, lock, *)
(* read again, DNS, IP validation, HTTP, and one transaction that stores   *)
(* the result and ends the task.  The lock is DomainLock; the row of       *)
(* domain_details is written with upsert_with_occ under READ COMMITTED.    *)
(*                                                                         *)
(* Domains interact in nothing but the queue: the module follows one.  The *)
(* way of a task from the database to a worker (claim, queue) is one step  *)
(* here, Begin, and so is the transaction of a write helper; TaskPipeline  *)
(* has their interleavings, and JobCompletion the evaluation of the job.   *)
(***************************************************************************)
EXTENDS Naturals

CONSTANTS
    Workers,
    Domain, NoDomain,
    Tokens, NoToken,
    Tasks, NoTask,
    Nobody,        \* nobody has locked the row of domain_details
    MaxAttempts,   \* settings.max_attempts
    MaxResults     \* bound: results considered in a behaviour

ASSUME DomainNotNone == NoDomain # Domain
ASSUME TokensWithoutNone == NoToken \notin Tokens
ASSUME WorkersAreNotOwners == {"nobody", "stranded"} \cap Workers = {}
ASSUME NobodyIsNoWorker == Nobody \notin Workers
ASSUME NoTaskIsNoTask == NoTask \notin Tasks
ASSUME AttemptsAllowed == MaxAttempts \in Nat \ {0}
ASSUME ResultsBounded == MaxResults \in Nat

VARIABLES
    key, holds, token, lapsed,  \* DomainLock
    detail,   \* the committed row of domain_details; version 0: there is none
    rowLock,  \* the worker whose transaction has locked or inserted that row
    active,   \* Domain.is_active
    task,     \* task[t]: the committed row of the task
    queued,   \* queued[t]: how often the recovery loop has it in a queue
    worker,   \* worker[w]: the coroutine in process_task
    clock,    \* fetched_at of the latest result: counts results
    cleared,  \* history: how often the row of domain_details was deleted
    shared    \* history: w has not been alone in the lock since it got it

lock == <<key, holds, token, lapsed, shared>>
vars == <<lock, detail, rowLock, active, task, queued, worker, clock, cleared>>

Lock == INSTANCE DomainLock WITH Domains <- {Domain}

-----------------------------------------------------------------------------
TaskStatus == {"NONE", "PENDING", "PROCESSING", "COMPLETED", "FAILED"}
NoRow == [version |-> 0, fetched |-> 0, fresh |-> FALSE]

\* What process_task may end a task with; "nothing" leaves it PROCESSING.
Writes == {"complete", "fail", "deactivate", "reschedule", "nothing"}

\* pc names the step that comes next; write is what it has decided, why what
\* made it decide. expected, existed, retry and fetched are the locals of
\* _persist_domain_detail, epoch tells which row of domain_details it saw.
PC == {"idle", "lock", "recheck", "probe", "persist", "update", "missed", "conflict",
       "insert", "commit", "write", "unlock", "rewrite"}
Idle == [pc |-> "idle", task |-> NoTask, write |-> "nothing", why |-> "",
         expected |-> 0, existed |-> FALSE, retry |-> FALSE, fetched |-> 0, epoch |-> 0]

Inside(w) == holds[w] # NoDomain
Terminal(t) == task[t].status \in {"COMPLETED", "FAILED"}

\* A domain that was processed before, or never; its tasks are yet to come.
Init ==
    /\ Lock!Init
    /\ shared = [w \in Workers |-> FALSE]
    /\ detail \in {NoRow, [version |-> 1, fetched |-> 1, fresh |-> FALSE]}
    /\ clock = detail.fetched
    /\ rowLock = Nobody
    /\ active = TRUE
    /\ task = [t \in Tasks |-> [status |-> "NONE", attempts |-> 0]]
    /\ queued = [t \in Tasks |-> 0]
    /\ worker = [w \in Workers |-> Idle]
    /\ cleared = 0

-----------------------------------------------------------------------------
(***************************************************************************)
(* What a worker makes of the answers of DNS, the address table and HTTP.  *)
(***************************************************************************)
\* One record type: addresses, an empty list for NXDOMAIN and for no data, or
\* an error, which resolve logs and replaces by an empty list.
LookupAnswers == {"addresses", "empty", "error"}

\* https first, then http: 2xx or 3xx, 4xx, 408 or 429, 5xx, or an exception.
HttpAnswers == {"success", "client_error", "busy", "server_error", "unreachable",
                "too_many_redirects"}

\* DnsResult.error is never set and neither is its classification: whatever
\* left the lists empty counts as transient.
Resolved(a, aaaa) == "addresses" \in {a, aaaa}

\* probe goes from https to http after any exception but TooManyRedirects.
Probed(https, http) == IF https = "unreachable" THEN http ELSE https

\* HttpResult and _handle_http_failure. HTTP_PERMANENT_FAILURE is none of the
\* codes _should_soft_deactivate deactivates for.
AfterHttp(answer) ==
    CASE answer = "success" -> "complete"
      [] answer \in {"unreachable", "too_many_redirects", "server_error"} -> "reschedule"
      [] answer = "client_error" -> "fail"
      [] answer = "busy" -> "nothing"

\* The write that follows, "complete" with the result; allowed: one of the
\* addresses is not blocked.
Judged(a, aaaa, allowed, https, http) ==
    IF ~Resolved(a, aaaa) THEN "reschedule"
    ELSE IF ~allowed THEN "deactivate"
    ELSE AfterHttp(Probed(https, http))

Judgements == {Judged(a, aaaa, allowed, https, http) :
                 a \in LookupAnswers, aaaa \in LookupAnswers, allowed \in BOOLEAN,
                 https \in HttpAnswers, http \in HttpAnswers}

-----------------------------------------------------------------------------
(***************************************************************************)
(* Tasks come: create_job for a domain that is inactive reactivates it and *)
(* deletes its detail, which waits for a transaction that has the row.     *)
(***************************************************************************)
Submit(t) ==
    /\ task[t].status = "NONE"
    /\ task' = [task EXCEPT ![t].status = "PENDING"]
    /\ active' = TRUE
    /\ IF active THEN UNCHANGED <<detail, cleared>>
       ELSE /\ detail.version = 0 \/ rowLock = Nobody
            /\ detail' = NoRow
            /\ cleared' = IF detail.version = 0 THEN cleared ELSE cleared + 1
    /\ UNCHANGED <<lock, rowLock, queued, worker, clock>>

\* freshness_seconds pass after fetched_at.
Age == /\ detail.fresh
       /\ detail' = [detail EXCEPT !.fresh = FALSE]
       /\ UNCHANGED <<lock, rowLock, active, task, queued, worker, clock, cleared>>

\* The lease of a task runs out, also under a worker that still has it. What the
\* recovery loop makes PENDING it puts in the queue, without a claim.
Recover(t) ==
    /\ task[t].status = "PROCESSING"
    /\ LET exhausted == task[t].attempts >= MaxAttempts IN
       /\ task' = [task EXCEPT ![t].status = IF exhausted THEN "FAILED" ELSE "PENDING"]
       /\ \E n \in IF exhausted THEN {0} ELSE {0, 1} :  \* 0: or it is lost
            queued' = [queued EXCEPT ![t] = @ + n]
    /\ UNCHANGED <<lock, detail, rowLock, active, worker, clock, cleared>>

\* The key of the lock runs out under its holder, or after it.
KeyExpires == /\ Lock!Expire(Domain)
              /\ UNCHANGED <<shared, detail, rowLock, active, task, queued, worker, clock,
                             cleared>>

-----------------------------------------------------------------------------
\* Next step of w, with nothing else changed.
Goes(w, s) == /\ worker' = [worker EXCEPT ![w] = s]
              /\ UNCHANGED <<detail, active, task, queued, clock, cleared>>

To(w, pc) == [worker[w] EXCEPT !.pc = pc]
ToWrite(w, pc, k, why) ==
    [Idle EXCEPT !.task = worker[w].task, !.pc = pc, !.write = k, !.why = why]

\* The way out of the body of process_task: through the end of the lock's context
\* and, if there is something to write, the except clause.
Out(w, k) == IF Inside(w) THEN ToWrite(w, "unlock", k, "")
             ELSE IF k = "nothing" THEN Idle
             ELSE ToWrite(w, "rewrite", k, "")

\* A task reaches w, whose read phase looks at the detail.
Starts(w, t) ==
    /\ worker[w].pc = "idle"
    /\ worker' = [worker EXCEPT ![w] =
                    [Idle EXCEPT !.task = t, !.pc = IF detail.fresh THEN "write" ELSE "lock",
                                 !.write = IF detail.fresh THEN "complete" ELSE "nothing"]]
    /\ UNCHANGED <<lock, detail, rowLock, active, clock, cleared>>

\* It was claimed. The claim does not ask for next_attempt_at.
Begin(w, t) ==
    /\ Starts(w, t)
    /\ task[t].status = "PENDING"
    /\ task' = [task EXCEPT ![t] = [status |-> "PROCESSING", attempts |-> @.attempts + 1]]
    /\ UNCHANGED queued

\* It comes from the recovery loop, whatever has become of its row.
BeginRecovered(w, t) ==
    /\ Starts(w, t)
    /\ queued[t] > 0
    /\ queued' = [queued EXCEPT ![t] = @ - 1]
    /\ UNCHANGED task

\* SET NX succeeds.
LockAcquired(w) ==
    /\ worker[w].pc = "lock"
    /\ Lock!Acquire(w, Domain)
    /\ shared' = [v \in Workers |-> IF v = w \/ Inside(v)
                                      THEN shared[v] \/ \E u \in Workers \ {w} : Inside(u)
                                      ELSE FALSE]
    /\ Goes(w, To(w, "recheck"))
    /\ UNCHANGED rowLock

\* Mistake: a worker that did not get the lock goes on.
LockIgnored(w) ==
    /\ worker[w].pc = "lock"
    /\ key[Domain] # NoToken /\ UNCHANGED <<key, holds, token, lapsed>>
    /\ Goes(w, To(w, "recheck"))
    /\ UNCHANGED <<shared, rowLock>>

\* It does not: another's key is there, or the reply is lost, or Redis is not
\* reached. The worker does not wait.
LockNotAcquired(w) ==
    /\ worker[w].pc = "lock"
    /\ \/ key[Domain] # NoToken /\ UNCHANGED <<key, holds, token, lapsed>>
       \/ Lock!AcquireReplyLost(w, Domain)
    /\ Goes(w, ToWrite(w, "write", "reschedule", "contention"))
    /\ UNCHANGED <<shared, rowLock>>

\* Mistake: no second look after the lock.
RecheckNot(w) == /\ worker[w].pc = "recheck"
                 /\ Goes(w, To(w, "probe"))
                 /\ UNCHANGED <<lock, rowLock>>

\* The double check under the lock.
Recheck(w) ==
    /\ worker[w].pc = "recheck"
    /\ Goes(w, IF detail.fresh THEN ToWrite(w, "write", "complete", "") ELSE To(w, "probe"))
    /\ UNCHANGED <<lock, rowLock>>

\* DNS, IP validation and HTTP. A result goes to the write phase.
Probe(w) ==
    /\ worker[w].pc = "probe"
    /\ \E k \in Judgements :
         Goes(w, CASE k = "complete" -> To(w, "persist")
                   [] k = "nothing" -> ToWrite(w, "unlock", "nothing", "")
                   [] OTHER -> ToWrite(w, "write", k, ""))
    /\ UNCHANGED <<lock, rowLock>>

-----------------------------------------------------------------------------
(***************************************************************************)
(* The write phase: one transaction, up to four statements on the detail.  *)
(***************************************************************************)
\* SELECT of the existing row; fetched_at is the time of this moment.
Persist(w) ==
    /\ worker[w].pc = "persist"
    /\ clock < MaxResults
    /\ clock' = clock + 1
    /\ worker' = [worker EXCEPT ![w] =
                    [@ EXCEPT !.pc = "update", !.expected = detail.version,
                              !.existed = detail.version > 0, !.fetched = clock + 1,
                              !.epoch = cleared]]
    /\ UNCHANGED <<lock, detail, rowLock, active, task, queued, cleared>>

Sees(w) == detail.version > 0 /\ detail.version = worker[w].expected

\* Mistake: UPDATE without the version in its WHERE clause.
UpdateAnyway(w) ==
    /\ worker[w].pc = "update"
    /\ detail.version > 0
    /\ rowLock = Nobody
    /\ rowLock' = w
    /\ Goes(w, To(w, "commit"))
    /\ UNCHANGED lock

\* UPDATE WHERE version = expected: a row another transaction has locked is
\* waited for and looked at again.
Update(w) ==
    /\ worker[w].pc = "update"
    /\ Sees(w)
    /\ rowLock = Nobody
    /\ rowLock' = w
    /\ Goes(w, To(w, "commit"))
    /\ UNCHANGED lock

UpdateMisses(w) ==
    /\ worker[w].pc = "update"
    /\ ~Sees(w)
    /\ Goes(w, To(w, "missed"))
    /\ UNCHANGED <<lock, rowLock>>

\* Then it selects: with no row at all, upsert_with_occ inserts; else it raises,
\* and _persist_domain_detail catches that once. The version for its second try
\* is the one of the object in the session: if the row was selected before, the
\* UPDATE has set it to expected + 1 there, whatever the database holds.
SelectMissed(w) ==
    /\ worker[w].pc = "missed"
    /\ Goes(w, IF detail.version = 0 THEN To(w, "insert")
               ELSE IF worker[w].retry THEN ToWrite(w, "unlock", "fail", "conflict")
               ELSE [worker[w] EXCEPT !.pc = "conflict", !.retry = TRUE,
                       !.expected = IF worker[w].existed THEN @ + 1 ELSE detail.version])
    /\ UNCHANGED <<lock, rowLock>>

\* The retry selects again, and raises if the row is gone.
Retry(w) ==
    /\ worker[w].pc = "conflict"
    /\ Goes(w, IF detail.version = 0 THEN ToWrite(w, "unlock", "fail", "conflict")
               ELSE To(w, "update"))
    /\ UNCHANGED <<lock, rowLock>>

\* INSERT of version 1: it waits for another's, and fails on the primary key if
\* that is committed.
Insert(w) ==
    /\ worker[w].pc = "insert"
    /\ rowLock = Nobody
    /\ IF detail.version = 0
         THEN rowLock' = w /\ Goes(w, [To(w, "commit") EXCEPT !.expected = 0])
         ELSE Goes(w, ToWrite(w, "unlock", "fail", "conflict")) /\ UNCHANGED rowLock
    /\ UNCHANGED lock

\* The result and the end of the task in one commit.
Store(w) ==
    /\ worker[w].pc = "commit"
    /\ detail' = [version |-> worker[w].expected + 1, fetched |-> worker[w].fetched,
                  fresh |-> TRUE]
    /\ task' = [task EXCEPT ![worker[w].task].status = "COMPLETED"]
    /\ rowLock' = Nobody
    /\ UNCHANGED <<lock, active, queued, clock, cleared>>

\* The reply of the commit comes, or is lost: then the except clause writes.
Commit(w) ==
    /\ Store(w)
    /\ \E k \in {"nothing", "fail", "reschedule"} :
          worker' = [worker EXCEPT ![w] = ToWrite(w, "unlock", k, "")]

-----------------------------------------------------------------------------
\* The check of max_attempts in _write_reschedule_task.
Exhausts(w) ==
    worker[w].write = "reschedule" /\ task[worker[w].task].attempts >= MaxAttempts

\* A write helper: its short transaction, whatever the task is by now.
EndTask(w) ==
    LET k == worker[w].write IN
    /\ task' = [task EXCEPT ![worker[w].task].status =
                  CASE k = "complete" -> "COMPLETED"
                    [] k \in {"fail", "deactivate"} \/ Exhausts(w) -> "FAILED"
                    [] OTHER -> "PENDING"]
    /\ active' = (active /\ k # "deactivate" /\ ~Exhausts(w))
    /\ UNCHANGED <<detail, rowLock, queued, clock, cleared>>

\* In the body of process_task. The reply of its commit may be lost, too.
Write(w) ==
    /\ worker[w].pc = "write"
    /\ EndTask(w)
    /\ \E k \in {"nothing", "fail", "reschedule"} :
          worker' = [worker EXCEPT ![w] = Out(w, k)]
    /\ UNCHANGED lock

\* In its except clause.
Rewrite(w) ==
    /\ worker[w].pc = "rewrite"
    /\ EndTask(w)
    /\ worker' = [worker EXCEPT ![w] = Idle]
    /\ UNCHANGED lock

\* Anything before the unlock may raise: a transaction rolls back, the lock is
\* released, the except clause decides by the class of the exception.
Raise(w) ==
    /\ worker[w].pc \notin {"idle", "unlock", "rewrite"}
    /\ rowLock' = IF rowLock = w THEN Nobody ELSE rowLock
    /\ \E k \in {"fail", "reschedule"} : Goes(w, Out(w, k))
    /\ UNCHANGED lock

\* The end of the lock's context. Its release may not reach Redis.
Unlock(w) ==
    /\ worker[w].pc = "unlock"
    /\ Lock!Release(w) \/ Lock!Abandon(w)
    /\ shared' = [shared EXCEPT ![w] = FALSE]
    /\ Goes(w, IF worker[w].write = "nothing" THEN Idle ELSE To(w, "rewrite"))
    /\ UNCHANGED rowLock

\* The worker is cancelled, its process dies, or the except clause raises.
Vanish(w) ==
    /\ worker[w].pc # "idle"
    /\ rowLock' = IF rowLock = w THEN Nobody ELSE rowLock
    /\ IF Inside(w) THEN Lock!Release(w) \/ Lock!Abandon(w)
       ELSE UNCHANGED <<key, holds, token, lapsed>>
    /\ shared' = [shared EXCEPT ![w] = FALSE]
    /\ Goes(w, Idle)

-----------------------------------------------------------------------------
Persisting(w) == \/ Persist(w) \/ Update(w) \/ UpdateMisses(w) \/ SelectMissed(w) \/ Retry(w)
                 \/ Insert(w) \/ Commit(w)

Processing(w) == \/ LockAcquired(w) \/ LockNotAcquired(w) \/ Recheck(w) \/ Probe(w)
                 \/ Persisting(w) \/ Write(w) \/ Unlock(w) \/ Rewrite(w) \/ Raise(w)

\* Every task of the domain is done with: the service waits for more.
Rest == /\ \A t \in Tasks : Terminal(t)
        /\ \A w \in Workers : worker[w].pc = "idle"
        /\ UNCHANGED vars

Next == \/ \E t \in Tasks : Submit(t) \/ Recover(t)
        \/ \E w \in Workers, t \in Tasks : Begin(w, t) \/ BeginRecovered(w, t)
        \/ \E w \in Workers : Processing(w) \/ Vanish(w)
        \/ Age \/ KeyExpires \/ Rest

Spec == Init /\ [][Next]_vars

-----------------------------------------------------------------------------
\* Every variable keeps to its type. That attempts are bounded is a property of
\* TaskPipeline (AttemptsBounded), where a write has its two steps.
ProcessingTypeOK ==
    /\ Lock!LockTypeOK
    /\ shared \in [Workers -> BOOLEAN]
    /\ detail \in [version : Nat, fetched : Nat, fresh : BOOLEAN]
    /\ rowLock \in Workers \cup {Nobody}
    /\ active \in BOOLEAN
    /\ task \in [Tasks -> [status : TaskStatus, attempts : Nat]]
    /\ queued \in [Tasks -> Nat]
    /\ worker \in [Workers ->
          [pc : PC, task : Tasks \cup {NoTask}, write : Writes,
           why : {"", "contention", "conflict"}, expected : Nat, existed : BOOLEAN,
           retry : BOOLEAN, fetched : Nat, epoch : Nat]]
    /\ clock \in Nat
    /\ cleared \in Nat

\* A worker meets an optimistic conflict, or loses its INSERT to another's, only
\* if it was not alone in the lock: deleting the detail of a domain that is
\* reactivated under a probe is none.
ConflictOnlyIfShared ==
    \A w \in Workers :
      worker[w].pc = "conflict" \/ (worker[w].pc = "unlock" /\ worker[w].why = "conflict")
        => shared[w]

\* The row that somebody's transaction has locked or inserted is still the one
\* it saw: nobody commits between its UPDATE and its COMMIT, and it commits
\* inside the lock.
LockedRowStands ==
    /\ \A w \in Workers : worker[w].pc = "commit" => rowLock = w /\ Inside(w)
    /\ rowLock # Nobody => detail.version = worker[rowLock].expected

\* A domain that has a fresh detail is probed again only by a worker that was
\* not alone in the lock: whoever waited for it finds the result.
ProbedAgainOnlyIfShared ==
    [][\A w \in Workers :
         rowLock = w /\ detail.fresh /\ detail'.fetched # detail.fetched => shared[w]]_vars

\* "Uses version check to prevent stale concurrent writes": a result replaces
\* a later one only in the second try of a conflict, which looks at the version
\* but not at fetched_at, or when versions began again at 1 in between.
OlderOnlyByRetry ==
    [][\A w \in Workers :
         rowLock = w /\ 0 < detail'.fetched /\ detail'.fetched < detail.fetched =>
           worker[w].retry \/ worker[w].epoch # cleared]_vars

\* The lock is shared for one reason only: whoever is joined in it has outlived
\* the time to live of its key. No worker takes a lock that is held, and no late
\* release, of this or of another worker, opens it.
SharedOnlyAfterLapse ==
    [][\A w \in Workers :
         shared'[w] /\ ~shared[w] => \E v \in Workers : Inside(v) /\ lapsed[v]]_vars
=============================================================================
