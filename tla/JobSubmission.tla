---------------------------- MODULE JobSubmission ----------------------------
(***************************************************************************)
(* POST /jobs (create_job): one transaction that stores the job with its   *)
(* idempotency record, the domains that are missing and the tasks, and     *)
(* reactivates domains, against other requests and workers that deactivate *)
(* domains.  Rows and unique keys behave as under READ COMMITTED: an       *)
(* INSERT waits for another transaction's uncommitted row of the same key, *)
(* and fails if that is committed.                                         *)
(***************************************************************************)
EXTENDS Naturals, Sequences, FiniteSets

CONSTANTS
    Requests,    \* requests, retries included; each has its own session
    Keys, NoKey, \* what scopes idempotency: client and Idempotency-Key
    KeyOf,       \* KeyOf[r]; a request without X-Client-ID shares its key with none
    Domains,     \* domain names, valid or not
    ValidOf,     \* the valid names of a request's payload, without duplicates
    InvalidOf,   \* the names normalize_domain rejects
    HashOf,      \* the hash of its names, which keeps duplicates
    Nobody

ASSUME KeysAssumption == NoKey \notin Keys /\ KeyOf \in [Requests -> Keys \cup {NoKey}]
ASSUME PayloadAssumption ==
         /\ ValidOf \in [Requests -> SUBSET Domains]
         /\ InvalidOf \in [Requests -> SUBSET Domains]
         /\ \A r \in Requests : ValidOf[r] \cup InvalidOf[r] # {}
         /\ \A r, q \in Requests : ValidOf[r] \cap InvalidOf[q] = {}
ASSUME HashAssumption ==
         \A r, q \in Requests :
           HashOf[r] = HashOf[q] => ValidOf[r] = ValidOf[q] /\ InvalidOf[r] = InvalidOf[q]
ASSUME DomainsAreFinite == IsFiniteSet(Domains)
ASSUME NobodyIsNoRequest == Nobody \notin Requests

\* The job of a request is named by it: uuid4 repeats no id.
Jobs == Requests
Names(r) == ValidOf[r] \cup InvalidOf[r]

VARIABLES
    record,      \* record[k]: the request whose idempotency record is committed
    recordLock,  \* recordLock[k]: the transaction that has inserted one
    domain,      \* domain[d]: the committed row: absent, active, inactive
    domainLock,  \* domainLock[d]: the transaction that has inserted or updated it
    tasks,       \* tasks[j]: the committed tasks of the job, by domain; {}: no job
    request      \* request[r]: where create_job is

vars == <<record, recordLock, domain, domainLock, tasks, request>>

-----------------------------------------------------------------------------
DomainStatus == {"absent", "active", "inactive"}
TaskRow == [domain : Domains, status : {"PENDING", "FAILED"}]

PC == {"new", "record", "lookup", "domains", "insert", "reactivate", "commit", "done"}
\* 202, 200 with the job of the record, 409, 500, or 503 and its like.
Replies == {"none", "created", "replayed", "conflict", "error", "unavailable"}

\* missing: domains it has still to insert, in the order of its INSERT; inactive:
\* those it has selected as inactive and will reactivate; job: that of its reply;
\* raced, history: domains a worker has deactivated since it selected them.
RequestState == [pc : PC, missing : Seq(Domains), inactive : SUBSET Domains,
                 raced : SUBSET Domains, reply : Replies, job : Jobs \cup {Nobody}]
Bare(pc, reply, j) == [pc |-> pc, missing |-> <<>>, inactive |-> {}, raced |-> {},
                       reply |-> reply, job |-> j]
New == Bare("new", "none", Nobody)
Done(reply, j) == Bare("done", reply, j)

Init ==
    /\ record = [k \in Keys |-> Nobody]
    /\ recordLock = [k \in Keys |-> Nobody]
    /\ domain \in [Domains -> {"absent", "inactive"}]
    /\ domainLock = [d \in Domains |-> Nobody]
    /\ tasks = [j \in Jobs |-> {}]
    /\ request = [r \in Requests |-> New]

-----------------------------------------------------------------------------
Goes(r, s) == request' = [request EXCEPT ![r] = s]
To(r, pc) == [request[r] EXCEPT !.pc = pc]

\* A transaction ends: its locks are free.
Unlocked(lock, r) == [x \in DOMAIN lock |-> IF lock[x] = r THEN Nobody ELSE lock[x]]
Ends(r, s) ==
    /\ recordLock' = Unlocked(recordLock, r)
    /\ domainLock' = Unlocked(domainLock, r)
    /\ Goes(r, s)

\* The service shuts down (503), or the list of domains is empty or too long (400,
\* 413): no transaction.
Refuse(r) ==
    /\ request[r].pc = "new"
    /\ Goes(r, Done("unavailable", Nobody))
    /\ UNCHANGED <<record, recordLock, domain, domainLock, tasks>>

\* A payload that passes; without a key the job is inserted at once.
Accept(r) ==
    /\ request[r].pc = "new"
    /\ Goes(r, To(r, IF KeyOf[r] = NoKey THEN "domains" ELSE "record"))
    /\ UNCHANGED <<record, recordLock, domain, domainLock, tasks>>

\* Mistake: a record looked for but not locked by its unique key.
InsertRecordUnlocked(r) ==
    LET k == KeyOf[r] IN
    /\ request[r].pc = "record"
    /\ Goes(r, To(r, IF record[k] = Nobody THEN "domains" ELSE "lookup"))
    /\ UNCHANGED <<record, recordLock, domain, domainLock, tasks>>

\* The savepoint: INSERT the job, INSERT the record. Waits for another's record.
InsertRecord(r) ==
    LET k == KeyOf[r] IN
    /\ request[r].pc = "record"
    /\ recordLock[k] = Nobody
    /\ IF record[k] = Nobody
         THEN /\ recordLock' = [recordLock EXCEPT ![k] = r]
              /\ Goes(r, To(r, "domains"))
         ELSE /\ UNCHANGED recordLock
              /\ Goes(r, To(r, "lookup"))
    /\ UNCHANGED <<record, domain, domainLock, tasks>>

\* Mistake: any record will do, whatever was asked for.
LookupAny(r) ==
    /\ request[r].pc = "lookup"
    /\ Goes(r, Done("replayed", record[KeyOf[r]]))
    /\ UNCHANGED <<record, recordLock, domain, domainLock, tasks>>

\* The savepoint failed: SELECT the record and compare the hash of the payload.
Lookup(r) ==
    LET other == record[KeyOf[r]] IN
    /\ request[r].pc = "lookup"
    /\ Goes(r, IF HashOf[r] = HashOf[other] THEN Done("replayed", other)
               ELSE Done("conflict", Nobody))
    /\ UNCHANGED <<record, recordLock, domain, domainLock, tasks>>

\* The order in which a Python set is iterated: any.
Orders(S) == {q \in [1 .. Cardinality(S) -> S] : \A i, j \in DOMAIN q : q[i] = q[j] => i = j}

\* SELECT the domains of the payload.
SelectDomains(r) ==
    /\ request[r].pc = "domains"
    /\ \E q \in Orders({d \in Names(r) : domain[d] = "absent"}) :
          Goes(r, [To(r, "insert") EXCEPT
                     !.missing = q,
                     !.inactive = {d \in ValidOf[r] : domain[d] = "inactive"}])
    /\ UNCHANGED <<record, recordLock, domain, domainLock, tasks>>

Inserting(r, d) == /\ request[r].pc = "insert"
                   /\ request[r].missing # <<>>
                   /\ d = Head(request[r].missing)
                   /\ domainLock[d] = Nobody

\* INSERT the missing domains, one after the other. One that another request has
\* committed since makes the request fail on the unique name.
InsertDomain(r) ==
    \E d \in Names(r) :
      /\ Inserting(r, d)
      /\ domain[d] = "absent"
      /\ domainLock' = [domainLock EXCEPT ![d] = r]
      /\ Goes(r, [request[r] EXCEPT !.missing = Tail(@)])
      /\ UNCHANGED <<record, recordLock, domain, tasks>>

InsertDomainFails(r) ==
    \E d \in Names(r) :
      /\ Inserting(r, d)
      /\ domain[d] # "absent"
      /\ Ends(r, Done("error", Nobody))
      /\ UNCHANGED <<record, domain, tasks>>

InsertedAll(r) ==
    /\ request[r].pc = "insert"
    /\ request[r].missing = <<>>
    /\ Goes(r, To(r, "reactivate"))
    /\ UNCHANGED <<record, recordLock, domain, domainLock, tasks>>

\* Mistake: an inactive domain left as it is.
ReactivateNone(r) ==
    /\ request[r].pc = "reactivate"
    /\ Goes(r, [To(r, "commit") EXCEPT !.inactive = {}])
    /\ UNCHANGED <<record, recordLock, domain, domainLock, tasks>>

\* UPDATE the domains it saw inactive and DELETE their details: it waits for the
\* rows, which every transaction updates in the order of their ids.
Reactivate(r) ==
    /\ request[r].pc = "reactivate"
    /\ \A d \in request[r].inactive : domainLock[d] = Nobody
    /\ domainLock' = [d \in Domains |-> IF d \in request[r].inactive THEN r ELSE domainLock[d]]
    /\ Goes(r, To(r, "commit"))
    /\ UNCHANGED <<record, recordLock, domain, tasks>>

\* A PENDING task for each valid domain, a FAILED one for each invalid name.
TasksOf(r) == [domain : ValidOf[r], status : {"PENDING"}]
              \cup [domain : InvalidOf[r], status : {"FAILED"}]

\* INSERT the tasks, and COMMIT. If the reply of the commit is lost the client
\* is told 500.
Commit(r) ==
    /\ request[r].pc = "commit"
    /\ record' = [k \in Keys |-> IF recordLock[k] = r THEN r ELSE record[k]]
    /\ domain' = [d \in Domains |-> IF domainLock[d] = r THEN "active" ELSE domain[d]]
    /\ tasks' = [tasks EXCEPT ![r] = TasksOf(r)]
    /\ \E s \in {Done("created", r), Done("error", Nobody)} : Ends(r, s)

\* Mistake: the exception is answered and the transaction left open.
FailOpen(r) ==
    /\ request[r].pc \notin {"new", "done"}
    /\ Goes(r, Done("error", Nobody))
    /\ UNCHANGED <<record, recordLock, domain, domainLock, tasks>>

\* A statement fails, or the process dies: PostgreSQL rolls back. The client is
\* told 500, or nothing.
Fail(r) ==
    /\ request[r].pc \notin {"new", "done"}
    /\ Ends(r, Done("error", Nobody))
    /\ UNCHANGED <<record, domain, tasks>>

-----------------------------------------------------------------------------
\* The transaction that r waits for: PostgreSQL aborts a transaction on a cycle.
WaitsFor(r) ==
    LET s == request[r] IN
    CASE s.pc = "record" -> {recordLock[KeyOf[r]]} \ {Nobody}
      [] s.pc = "insert" /\ s.missing # <<>> -> {domainLock[Head(s.missing)]} \ {Nobody}
      [] s.pc = "reactivate" -> {domainLock[d] : d \in s.inactive} \ {Nobody}
      [] OTHER -> {}

Deadlocked(r) == /\ WaitsFor(r) # {}
                 /\ \E S \in SUBSET Requests : /\ r \in S
                                               /\ S = UNION {WaitsFor(q) : q \in S}

DeadlockVictim(r) == Deadlocked(r) /\ Fail(r)

\* A worker ends a task of d with a security rejection or out of attempts.
Deactivate(d) ==
    /\ domain[d] = "active"
    /\ domainLock[d] = Nobody
    /\ domain' = [domain EXCEPT ![d] = "inactive"]
    /\ request' = [r \in Requests |->
                     IF request[r].pc \in {"insert", "reactivate", "commit"}
                       THEN [request[r] EXCEPT !.raced = @ \cup ({d} \cap ValidOf[r])]
                       ELSE request[r]]
    /\ UNCHANGED <<record, recordLock, domainLock, tasks>>

-----------------------------------------------------------------------------
CreateJob(r) == \/ Accept(r) \/ InsertRecord(r) \/ Lookup(r) \/ SelectDomains(r)
                \/ InsertDomain(r) \/ InsertDomainFails(r) \/ InsertedAll(r)
                \/ Reactivate(r) \/ Commit(r)

\* Every request is answered: the API waits for more.
Rest == (\A r \in Requests : request[r].pc = "done") /\ UNCHANGED vars

Next == \/ \E r \in Requests : CreateJob(r) \/ Refuse(r) \/ Fail(r)
        \/ \E d \in Domains : Deactivate(d)
        \/ Rest

Spec == Init /\ [][Next]_vars

\* The coroutine of a request goes on, and PostgreSQL does not leave a deadlock.
FairSpec == Spec /\ \A r \in Requests : WF_vars(CreateJob(r) \/ DeadlockVictim(r))

-----------------------------------------------------------------------------
\* Every variable keeps to its type, and a request that is answered has locked
\* nothing.
SubmissionTypeOK ==
    /\ record \in [Keys -> Requests \cup {Nobody}]
    /\ recordLock \in [Keys -> Requests \cup {Nobody}]
    /\ domain \in [Domains -> DomainStatus]
    /\ domainLock \in [Domains -> Requests \cup {Nobody}]
    /\ tasks \in [Jobs -> SUBSET TaskRow]
    /\ request \in [Requests -> RequestState]
    /\ \A k \in Keys : recordLock[k] # Nobody => request[recordLock[k]].pc # "done"
    /\ \A d \in Domains : domainLock[d] # Nobody => request[domainLock[d]].pc # "done"

\* However many requests carry a key, and whenever they fail, wait or are sent
\* again, one job is made for it.
OneJobPerKey ==
    \A i, j \in Jobs :
      tasks[i] # {} /\ tasks[j] # {} /\ KeyOf[i] = KeyOf[j] /\ KeyOf[i] # NoKey => i = j

\* A request that is answered with a job is answered with one that is stored,
\* whole, and made of what this request asked for, also when another made it.
AnsweredJobIsStored ==
    \A r \in Requests :
      request[r].reply \in {"created", "replayed"} => tasks[request[r].job] = TasksOf(r)

\* A job's valid domains are active when it is stored, reactivated if need be,
\* except one that a worker deactivated after the request had selected it.
StoredJobIsActive ==
    [][\A r \in Requests : tasks[r] = {} /\ tasks'[r] # {} =>
         \A d \in ValidOf[r] : domain'[d] = "active" \/ d \in request[r].raced]_vars

\* Requests wait for each other's records and domains, in any order: each is
\* answered all the same.
EveryRequestAnswered == \A r \in Requests : <>(request[r].pc = "done")
=============================================================================
