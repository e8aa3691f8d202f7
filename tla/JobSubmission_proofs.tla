------------------------ MODULE JobSubmission_proofs ------------------------
(***************************************************************************)
(* Proofs about JobSubmission, for any requests, keys and domains.         *)
(***************************************************************************)
EXTENDS JobSubmission, FiniteSetTheorems, TLAPS

\* The places where a transaction may have inserted its record, or domains.
HasJob == {"domains", "insert", "reactivate", "commit"}
Writing == {"insert", "reactivate", "commit"}

Typed ==
    /\ record \in [Keys -> Requests \cup {Nobody}]
    /\ recordLock \in [Keys -> Requests \cup {Nobody}]
    /\ domain \in [Domains -> DomainStatus]
    /\ domainLock \in [Domains -> Requests \cup {Nobody}]
    /\ tasks \in [Jobs -> SUBSET TaskRow]
    /\ request \in [Requests -> RequestState]

\* A lock belongs to a transaction that has got as far as to take it.
LocksHeld ==
    /\ \A k \in Keys : recordLock[k] # Nobody =>
         /\ request[recordLock[k]].pc \in HasJob
         /\ KeyOf[recordLock[k]] = k
    /\ \A d \in Domains : domainLock[d] # Nobody =>
         request[domainLock[d]].pc \in Writing

\* A request that looks at the record of its key has a key.
Keyed == \A r \in Requests : request[r].pc \in {"record", "lookup"} => KeyOf[r] \in Keys

Basic == Typed /\ LocksHeld /\ Keyed

LEMMA BasicTyped == Basic => SubmissionTypeOK
  BY DEF Basic, Typed, LocksHeld, SubmissionTypeOK, HasJob, Writing

\* Every order of a set of domains is a sequence of them, all of them.
LEMMA OrdersOfDomains ==
    ASSUME NEW S \in SUBSET Domains, NEW q \in Orders(S)
    PROVE  /\ q \in Seq(Domains)
           /\ \A d \in S : \E i \in 1 .. Len(q) : q[i] = d
<1> DEFINE n == Cardinality(S)
<1>1. IsFiniteSet(S) /\ n \in Nat
  BY DomainsAreFinite, FS_Subset, FS_CardinalityType
<1>2. q \in [1 .. n -> S] /\ \A i, j \in 1 .. n : q[i] = q[j] => i = j
  BY DEF Orders
<1>3. q \in Seq(Domains) /\ Len(q) = n
  BY <1>1, <1>2
<1>4. q \in Injection(1 .. n, S)
  BY <1>2, Zenon DEF Injection, IsInjective
<1>5. IsFiniteSet(1 .. n) /\ Cardinality(1 .. n) = n
  BY <1>1, FS_Interval
<1>6. q \in Surjection(1 .. n, S)
  BY <1>1, <1>4, <1>5, FS_Injection
<1>. QED
  BY <1>3, <1>6 DEF Surjection

LEMMA StateReplaced ==
    ASSUME Typed, NEW r \in Requests, NEW s \in RequestState, Goes(r, s)
    PROVE  /\ request' \in [Requests -> RequestState]
           /\ request'[r] = s
           /\ \A q \in Requests \ {r} : request'[q] = request[q]
  BY DEF Typed, Goes

\* A request that moves on keeps what it knows.
LEMMA MovedTyped ==
    ASSUME Typed, NEW r \in Requests, NEW pc \in PC
    PROVE  /\ To(r, pc) \in RequestState
           /\ To(r, pc).pc = pc
           /\ To(r, pc).inactive = request[r].inactive
           /\ To(r, pc).missing = request[r].missing
           /\ To(r, pc).raced = request[r].raced
           /\ To(r, pc).reply = request[r].reply
           /\ To(r, pc).job = request[r].job
<1>1. request[r] \in RequestState
  BY DEF Typed
<1>. QED
  BY <1>1 DEF To, RequestState

LEMMA DoneTyped ==
    ASSUME NEW reply \in Replies, NEW j \in Jobs \cup {Nobody}
    PROVE  /\ Done(reply, j) \in RequestState
           /\ Done(reply, j).pc = "done"
           /\ Done(reply, j).reply = reply
           /\ Done(reply, j).job = j
  BY DEF Done, Bare, RequestState, PC, Replies

LEMMA LocksFreed ==
    ASSUME NEW X, NEW lock \in [X -> Requests \cup {Nobody}], NEW r \in Requests
    PROVE  /\ Unlocked(lock, r) \in [X -> Requests \cup {Nobody}]
           /\ \A x \in X : /\ Unlocked(lock, r)[x] # r
                           /\ Unlocked(lock, r)[x] # Nobody => Unlocked(lock, r)[x] = lock[x]
                           /\ lock[x] # r => Unlocked(lock, r)[x] = lock[x]
  BY NobodyIsNoRequest DEF Unlocked

-----------------------------------------------------------------------------
\* No action that leaves the stored rows and the locks alone, and moves a request
\* forward, disturbs what has been said so far.
LEMMA OnlyRequest ==
    ASSUME Basic, NEW r \in Requests, NEW s \in RequestState, Goes(r, s),
           UNCHANGED <<record, recordLock, domain, domainLock, tasks>>,
           request[r].pc \in HasJob => s.pc \in HasJob,
           request[r].pc \in Writing => s.pc \in Writing,
           s.pc \in {"record", "lookup"} => KeyOf[r] \in Keys
    PROVE  Basic'
<1> USE DEF Basic
<1>1. /\ request' \in [Requests -> RequestState]
      /\ request'[r] = s
      /\ \A q \in Requests \ {r} : request'[q] = request[q]
  BY StateReplaced
<1>2. Typed'
  BY <1>1 DEF Typed, DomainStatus, TaskRow, Jobs
<1>3. LocksHeld'
  BY <1>1 DEF Typed, LocksHeld
<1>4. Keyed'
  BY <1>1 DEF Keyed
<1>. QED
  BY <1>2, <1>3, <1>4

\* A transaction ends with its locks.
LEMMA EndsBasic ==
    ASSUME Basic, NEW r \in Requests, NEW s \in RequestState, Ends(r, s), s.pc = "done",
           record' \in [Keys -> Requests \cup {Nobody}],
           domain' \in [Domains -> DomainStatus],
           tasks' \in [Jobs -> SUBSET TaskRow]
    PROVE  Basic'
<1> USE DEF Basic
<1>1. /\ request' \in [Requests -> RequestState]
      /\ request'[r] = s
      /\ \A q \in Requests \ {r} : request'[q] = request[q]
  BY StateReplaced DEF Ends
<1>2. /\ recordLock' \in [Keys -> Requests \cup {Nobody}]
      /\ \A k \in Keys : /\ recordLock'[k] # r
                         /\ recordLock'[k] # Nobody => recordLock'[k] = recordLock[k]
  BY LocksFreed DEF Ends, Typed
<1>3. /\ domainLock' \in [Domains -> Requests \cup {Nobody}]
      /\ \A d \in Domains : /\ domainLock'[d] # r
                            /\ domainLock'[d] # Nobody => domainLock'[d] = domainLock[d]
  BY LocksFreed DEF Ends, Typed
<1>4. Typed'
  BY <1>1, <1>2, <1>3 DEF Typed
<1>5. LocksHeld'
  <2>1. ASSUME NEW k \in Keys, recordLock'[k] # Nobody
        PROVE  /\ request'[recordLock'[k]].pc \in HasJob
               /\ KeyOf[recordLock'[k]] = k
    <3>3. recordLock[k] \in Requests \cup {Nobody}
      BY DEF Typed
    <3>1. recordLock'[k] = recordLock[k] /\ recordLock[k] \in Requests \ {r}
      BY <3>3, <1>2, <2>1
    <3>2. request'[recordLock'[k]] = request[recordLock[k]]
      BY <1>1, <3>1
    <3>. QED
      BY <2>1, <3>1, <3>2 DEF LocksHeld
  <2>2. ASSUME NEW d \in Domains, domainLock'[d] # Nobody
        PROVE  request'[domainLock'[d]].pc \in Writing
    <3>3. domainLock[d] \in Requests \cup {Nobody}
      BY DEF Typed
    <3>1. domainLock'[d] = domainLock[d] /\ domainLock[d] \in Requests \ {r}
      BY <3>3, <1>3, <2>2
    <3>2. request'[domainLock'[d]] = request[domainLock[d]]
      BY <1>1, <3>1
    <3>. QED
      BY <2>2, <3>1, <3>2 DEF LocksHeld
  <2>. QED
    BY <2>1, <2>2 DEF LocksHeld
<1>6. Keyed'
  BY <1>1 DEF Keyed
<1>. QED
  BY <1>4, <1>5, <1>6

LEMMA BasicInit == Init => Basic
  BY NobodyIsNoRequest, KeysAssumption
  DEF Init, Basic, Typed, LocksHeld, Keyed, New, Bare, RequestState, PC, Replies,
      DomainStatus, Jobs

\* The tasks of a request are rows.
LEMMA TasksTyped == \A r \in Requests : TasksOf(r) \subseteq TaskRow
  BY PayloadAssumption DEF TasksOf, TaskRow

\* One step per action, for a request r or a domain d.
LEMMA BasicStep == Basic /\ [Next]_vars => Basic'
<1> SUFFICES ASSUME Basic, [Next]_vars PROVE Basic'
  OBVIOUS
<1>a. Typed
  BY DEF Basic
<1>1. ASSUME NEW r \in Requests, Refuse(r) PROVE Basic'
  <2>1. Done("unavailable", Nobody) \in RequestState /\ Done("unavailable", Nobody).pc = "done"
    BY DoneTyped DEF Replies
  <2>. QED
    BY <1>1, <2>1, OnlyRequest DEF Refuse, HasJob, Writing
<1>2. ASSUME NEW r \in Requests, Accept(r) PROVE Basic'
  <2> DEFINE pc == IF KeyOf[r] = NoKey THEN "domains" ELSE "record"
  <2>1. To(r, pc) \in RequestState /\ To(r, pc).pc = pc
    BY <1>a, MovedTyped DEF PC
  <2>2. pc = "record" => KeyOf[r] \in Keys
    BY KeysAssumption
  <2>. QED
    BY <1>2, <2>1, <2>2, OnlyRequest DEF Accept, HasJob, Writing
<1>3. ASSUME NEW r \in Requests, InsertRecord(r) PROVE Basic'
  <2>1. KeyOf[r] \in Keys
    BY <1>3 DEF InsertRecord, Basic, Keyed
  <2>2. CASE record[KeyOf[r]] = Nobody
    <3>1. To(r, "domains") \in RequestState /\ To(r, "domains").pc = "domains"
      BY <1>a, MovedTyped DEF PC
    <3>2. /\ request' \in [Requests -> RequestState]
          /\ request'[r].pc = "domains"
          /\ \A q \in Requests \ {r} : request'[q] = request[q]
      BY <1>3, <1>a, <2>2, <3>1, StateReplaced DEF InsertRecord
    <3>3. /\ request[r].pc = "record"
          /\ recordLock' = [recordLock EXCEPT ![KeyOf[r]] = r]
          /\ UNCHANGED <<record, domain, domainLock, tasks>>
      BY <1>3, <2>2 DEF InsertRecord
    <3>4. Typed'
      BY <1>a, <2>1, <3>2, <3>3 DEF Typed
    <3>5. LocksHeld'
      BY <1>a, <2>1, <3>2, <3>3 DEF Basic, Typed, LocksHeld, HasJob, Writing
    <3>6. Keyed'
      BY <3>2 DEF Basic, Keyed
    <3>. QED
      BY <3>4, <3>5, <3>6 DEF Basic
  <2>3. CASE record[KeyOf[r]] # Nobody
    <3>1. To(r, "lookup") \in RequestState /\ To(r, "lookup").pc = "lookup"
      BY <1>a, MovedTyped DEF PC
    <3>. QED
      BY <1>3, <2>1, <2>3, <3>1, OnlyRequest DEF InsertRecord, HasJob, Writing
  <2>. QED
    BY <2>2, <2>3
<1>4. ASSUME NEW r \in Requests, Lookup(r) PROVE Basic'
  <2>1. KeyOf[r] \in Keys
    BY <1>4 DEF Lookup, Basic, Keyed
  <2>2. PICK s \in {Done("replayed", record[KeyOf[r]]), Done("conflict", Nobody)} : Goes(r, s)
    BY <1>4 DEF Lookup
  <2>3. s \in RequestState /\ s.pc = "done"
    BY <1>a, <2>1, <2>2, DoneTyped DEF Replies, Typed, Jobs
  <2>. QED
    BY <1>4, <2>2, <2>3, OnlyRequest DEF Lookup, HasJob, Writing
<1>5. ASSUME NEW r \in Requests, SelectDomains(r) PROVE Basic'
  <2>1. PICK q \in Orders({d \in Names(r) : domain[d] = "absent"}) :
          Goes(r, [To(r, "insert") EXCEPT
                     !.missing = q,
                     !.inactive = {d \in ValidOf[r] : domain[d] = "inactive"}])
    BY <1>5 DEF SelectDomains
  <2> DEFINE s == [To(r, "insert") EXCEPT
                     !.missing = q,
                     !.inactive = {d \in ValidOf[r] : domain[d] = "inactive"}]
  <2>2. {d \in Names(r) : domain[d] = "absent"} \in SUBSET Domains
        /\ {d \in ValidOf[r] : domain[d] = "inactive"} \in SUBSET Domains
    BY PayloadAssumption DEF Names
  <2>3. q \in Seq(Domains)
    BY <2>2, OrdersOfDomains
  <2>4. To(r, "insert") \in RequestState /\ To(r, "insert").pc = "insert"
    BY <1>a, MovedTyped DEF PC
  <2>5. s \in RequestState /\ s.pc = "insert"
    BY <2>2, <2>3, <2>4 DEF RequestState
  <2>6. Goes(r, s)
    BY <2>1
  <2> HIDE DEF s
  <2>. QED
    BY <1>5, <2>5, <2>6, OnlyRequest DEF SelectDomains, HasJob, Writing
<1>6. ASSUME NEW r \in Requests, InsertDomain(r) PROVE Basic'
  <2>1. PICK d \in Names(r) :
          /\ Inserting(r, d)
          /\ domainLock' = [domainLock EXCEPT ![d] = r]
          /\ Goes(r, [request[r] EXCEPT !.missing = Tail(@)])
    BY <1>6 DEF InsertDomain
  <2>2. d \in Domains
    BY PayloadAssumption DEF Names
  <2> DEFINE s == [request[r] EXCEPT !.missing = Tail(@)]
  <2>3. request[r] \in RequestState /\ request[r].missing # <<>> /\ request[r].pc = "insert"
    BY <1>a, <2>1 DEF Inserting, Typed
  <2>t. request[r].missing \in Seq(Domains) /\ Tail(request[r].missing) \in Seq(Domains)
    BY <2>3 DEF RequestState
  <2>4. s \in RequestState /\ s.pc = "insert"
    BY <2>3, <2>t DEF RequestState
  <2>5. Goes(r, s)
    BY <2>1
  <2> HIDE DEF s
  <2>6. /\ request' \in [Requests -> RequestState]
        /\ request'[r] = s
        /\ \A q \in Requests \ {r} : request'[q] = request[q]
    BY <1>a, <2>4, <2>5, StateReplaced
  <2>7. UNCHANGED <<record, recordLock, domain, tasks>>
    BY <1>6 DEF InsertDomain
  <2>8. Typed'
    BY <1>a, <2>1, <2>2, <2>6, <2>7 DEF Typed
  <2>9. LocksHeld'
    BY <1>a, <2>1, <2>2, <2>3, <2>4, <2>6, <2>7 DEF Basic, Typed, LocksHeld, HasJob, Writing
  <2>10. Keyed'
    BY <2>4, <2>6 DEF Basic, Keyed
  <2>. QED
    BY <2>8, <2>9, <2>10 DEF Basic
<1>7. ASSUME NEW r \in Requests, InsertDomainFails(r) PROVE Basic'
  <2>1. Done("error", Nobody) \in RequestState /\ Done("error", Nobody).pc = "done"
    BY DoneTyped DEF Replies
  <2>2. Ends(r, Done("error", Nobody)) /\ UNCHANGED <<record, domain, tasks>>
    BY <1>7 DEF InsertDomainFails
  <2>. QED
    BY <1>a, <2>1, <2>2, EndsBasic DEF Typed
<1>8. ASSUME NEW r \in Requests, InsertedAll(r) PROVE Basic'
  <2>1. To(r, "reactivate") \in RequestState /\ To(r, "reactivate").pc = "reactivate"
    BY <1>a, MovedTyped DEF PC
  <2>. QED
    BY <1>8, <2>1, OnlyRequest DEF InsertedAll, HasJob, Writing
<1>9. ASSUME NEW r \in Requests, Reactivate(r) PROVE Basic'
  <2>1. To(r, "commit") \in RequestState /\ To(r, "commit").pc = "commit"
    BY <1>a, MovedTyped DEF PC
  <2>2. /\ request' \in [Requests -> RequestState]
        /\ request'[r].pc = "commit"
        /\ \A q \in Requests \ {r} : request'[q] = request[q]
    BY <1>9, <1>a, <2>1, StateReplaced DEF Reactivate
  <2>3. /\ request[r].pc = "reactivate"
        /\ domainLock' = [d \in Domains |-> IF d \in request[r].inactive THEN r
                                            ELSE domainLock[d]]
        /\ UNCHANGED <<record, recordLock, domain, tasks>>
    BY <1>9 DEF Reactivate
  <2>4. Typed'
    BY <1>a, <2>2, <2>3 DEF Typed
  <2>5. LocksHeld'
    BY <1>a, <2>2, <2>3 DEF Basic, Typed, LocksHeld, HasJob, Writing
  <2>6. Keyed'
    BY <2>2 DEF Basic, Keyed
  <2>. QED
    BY <2>4, <2>5, <2>6 DEF Basic
<1>10. ASSUME NEW r \in Requests, Commit(r) PROVE Basic'
  <2>1. PICK s \in {Done("created", r), Done("error", Nobody)} : Ends(r, s)
    BY <1>10 DEF Commit
  <2>2. s \in RequestState /\ s.pc = "done"
    BY <2>1, DoneTyped DEF Replies, Jobs
  <2>3. /\ record' \in [Keys -> Requests \cup {Nobody}]
        /\ domain' \in [Domains -> DomainStatus]
        /\ tasks' \in [Jobs -> SUBSET TaskRow]
    BY <1>10, <1>a, TasksTyped DEF Commit, Typed, DomainStatus
  <2>. QED
    BY <2>1, <2>2, <2>3, EndsBasic
<1>11. ASSUME NEW r \in Requests, Fail(r) PROVE Basic'
  <2>1. Done("error", Nobody) \in RequestState /\ Done("error", Nobody).pc = "done"
    BY DoneTyped DEF Replies
  <2>2. Ends(r, Done("error", Nobody)) /\ UNCHANGED <<record, domain, tasks>>
    BY <1>11 DEF Fail
  <2>. QED
    BY <1>a, <2>1, <2>2, EndsBasic DEF Typed
<1>12. ASSUME NEW d \in Domains, Deactivate(d) PROVE Basic'
  <2>1. \A r \in Requests : request'[r] \in RequestState /\ request'[r].pc = request[r].pc
    BY <1>12, <1>a, PayloadAssumption DEF Deactivate, Typed, RequestState
  <2>2. request' \in [Requests -> RequestState]
    BY <1>12, <2>1 DEF Deactivate
  <2>3. Typed'
    BY <1>12, <1>a, <2>2 DEF Deactivate, Typed, DomainStatus
  <2>4. LocksHeld'
    BY <1>12, <1>a, <2>1 DEF Deactivate, Basic, Typed, LocksHeld
  <2>5. Keyed'
    BY <2>1 DEF Basic, Keyed
  <2>. QED
    BY <2>3, <2>4, <2>5 DEF Basic
<1>13. CASE Rest \/ UNCHANGED vars
  BY <1>13 DEF Rest, vars, Basic, Typed, LocksHeld, Keyed
<1>. QED
  BY <1>1, <1>2, <1>3, <1>4, <1>5, <1>6, <1>7, <1>8, <1>9, <1>10, <1>11, <1>12, <1>13
  DEF Next, CreateJob

LEMMA BasicInvariant == Spec => []Basic
  BY BasicInit, BasicStep, PTL DEF Spec

\* Every variable keeps to its type, and no answered request has left a lock
\* behind: create_job's transaction ends on every path.
THEOREM TypeCorrect == Spec => []SubmissionTypeOK
  BY BasicInvariant, BasicTyped, PTL

-----------------------------------------------------------------------------
\* Whoever has inserted a job under a key has the key's lock, and no record of it
\* is committed.
KeyHeld ==
    \A r \in Requests : request[r].pc \in HasJob /\ KeyOf[r] # NoKey =>
      recordLock[KeyOf[r]] = r /\ record[KeyOf[r]] = Nobody

\* A job stored under a key is the one of the key's record, and the reverse.
Recorded ==
    /\ \A j \in Jobs : tasks[j] # {} /\ KeyOf[j] # NoKey => record[KeyOf[j]] = j
    /\ \A k \in Keys : record[k] # Nobody => tasks[record[k]] = TasksOf(record[k])

\* A request looks at a record only if there is one.
Looked == \A r \in Requests : request[r].pc = "lookup" => record[KeyOf[r]] # Nobody

\* What is answered with a job is answered with one that is stored.
Answered(s, r) == s.reply \in {"created", "replayed"} =>
                    /\ s.job \in Jobs
                    /\ tasks[s.job] = TasksOf(s.job)
                    /\ TasksOf(s.job) = TasksOf(r)

Stored == KeyHeld /\ Recorded /\ Looked /\ \A r \in Requests : Answered(request[r], r)

\* Only the request changes, and keeps its reply or gets one that is answered.
LEMMA OnlyRequestStored ==
    ASSUME Basic, Stored, NEW r \in Requests, NEW s \in RequestState, Goes(r, s),
           UNCHANGED <<record, recordLock, tasks>>,
           s.pc \in HasJob /\ KeyOf[r] # NoKey => request[r].pc \in HasJob,
           s.pc = "lookup" => record[KeyOf[r]] # Nobody,
           Answered(s, r)
    PROVE  Stored'
<1>1. /\ request'[r] = s
      /\ \A q \in Requests \ {r} : request'[q] = request[q]
  BY StateReplaced DEF Basic
<1>2. KeyHeld'
  BY <1>1 DEF Stored, KeyHeld
<1>3. Recorded'
  BY DEF Stored, Recorded, TasksOf
<1>4. Looked'
  BY <1>1 DEF Stored, Looked
<1>5. \A q \in Requests : Answered(request[q], q)'
  BY <1>1 DEF Stored, Answered, TasksOf
<1>. QED
  BY <1>2, <1>3, <1>4, <1>5 DEF Stored

\* A transaction is rolled back, or commits what it has inserted.
LEMMA EndsStored ==
    ASSUME Basic, Stored, NEW r \in Requests, NEW s \in RequestState, Ends(r, s),
           s.pc = "done",
           \/ UNCHANGED <<record, tasks>>
           \/ /\ request[r].pc = "commit"
              /\ record' = [k \in Keys |-> IF recordLock[k] = r THEN r ELSE record[k]]
              /\ tasks' = [tasks EXCEPT ![r] = TasksOf(r)],
           s.reply \in {"created", "replayed"} => s.job = r /\ request[r].pc = "commit"
                                                  /\ tasks'[r] = TasksOf(r)
    PROVE  Stored'
<1>1. /\ request'[r] = s
      /\ \A q \in Requests \ {r} : request'[q] = request[q]
  BY StateReplaced DEF Basic, Ends
<1>2. Typed /\ KeyHeld /\ Recorded /\ Looked
  BY DEF Basic, Stored
<1>3. \A k \in Keys : recordLock[k] # r => recordLock'[k] = recordLock[k]
  BY <1>2, LocksFreed DEF Ends, Typed
<1>4. \A k \in Keys : recordLock[k] # r => record'[k] = record[k]
  BY <1>2 DEF Typed
<1>5. \A k \in Keys : record[k] # Nobody => record'[k] = record[k]
  BY <1>2, NobodyIsNoRequest, KeysAssumption DEF KeyHeld, Typed, Basic, LocksHeld, HasJob
<1>6. \A j \in Jobs : tasks'[j] = tasks[j] \/ tasks'[j] = TasksOf(j)
  BY <1>2 DEF Typed
<1>7. \A j \in Jobs : tasks[j] = TasksOf(j) => tasks'[j] = TasksOf(j)
  BY <1>6
<1>8. KeyHeld'
  BY <1>1, <1>2, <1>3, <1>4, KeysAssumption DEF KeyHeld, HasJob
<1>9. Recorded'
  <2>1. ASSUME NEW j \in Jobs, tasks'[j] # {}, KeyOf[j] # NoKey PROVE record'[KeyOf[j]] = j
    <3>1. KeyOf[j] \in Keys /\ j \in Requests
      BY <2>1, KeysAssumption DEF Jobs
    <3>2. CASE tasks[j] # {}
      BY <1>2, <1>5, <2>1, <3>1, <3>2, NobodyIsNoRequest DEF Recorded
    <3>3. CASE tasks[j] = {}
      <4>1. j = r /\ request[r].pc = "commit" /\ record'[KeyOf[j]] =
              IF recordLock[KeyOf[j]] = r THEN r ELSE record[KeyOf[j]]
        BY <1>2, <2>1, <3>1, <3>3 DEF Typed
      <4>. QED
        BY <1>2, <2>1, <3>1, <4>1 DEF KeyHeld, HasJob
    <3>. QED
      BY <3>2, <3>3
  <2>2. ASSUME NEW k \in Keys, record'[k] # Nobody
        PROVE  tasks'[record'[k]] = TasksOf(record'[k])
    <3>1. CASE record'[k] = record[k]
      BY <1>2, <1>7, <2>2, <3>1 DEF Recorded, Typed, Jobs
    <3>2. CASE record'[k] # record[k]
      BY <1>2, <3>2 DEF Typed, Jobs
    <3>. QED
      BY <3>1, <3>2
  <2>. QED
    BY <2>1, <2>2 DEF Recorded, TasksOf
<1>10. Looked'
  BY <1>1, <1>2, <1>5, KeysAssumption DEF Looked, Basic, Keyed
<1>11. \A q \in Requests : Answered(request[q], q)'
  <2>1. Answered(s, r)'
    BY <1>1 DEF Answered, TasksOf, Jobs
  <2>2. ASSUME NEW q \in Requests \ {r} PROVE Answered(request[q], q)'
    <3>1. Answered(request[q], q) /\ request'[q] = request[q]
      BY <1>1 DEF Stored
    <3>. QED
      BY <1>7, <3>1 DEF Answered, TasksOf, Jobs
  <2>. QED
    BY <1>1, <2>1, <2>2
<1>. QED
  BY <1>8, <1>9, <1>10, <1>11 DEF Stored

LEMMA StoredInit == Init => Stored
  BY NobodyIsNoRequest, KeysAssumption
  DEF Init, Stored, KeyHeld, Recorded, Looked, Answered, New, Bare, HasJob

\* One step per action, for a request r or a domain d.
LEMMA StoredStep == Basic /\ Stored /\ [Next]_vars => Stored'
<1> SUFFICES ASSUME Basic, Stored, [Next]_vars PROVE Stored'
  OBVIOUS
<1>a. Typed /\ Keyed /\ Looked /\ \A r \in Requests : Answered(request[r], r)
  BY DEF Basic, Stored
\* A request that moves on keeps its reply.
<1>b. ASSUME NEW r \in Requests, NEW s \in RequestState, Goes(r, s),
             s.reply = request[r].reply, s.job = request[r].job,
             UNCHANGED <<record, recordLock, tasks>>,
             s.pc \in HasJob /\ KeyOf[r] # NoKey => request[r].pc \in HasJob,
             s.pc = "lookup" => record[KeyOf[r]] # Nobody
      PROVE  Stored'
  <2>1. Answered(s, r)
    BY <1>a, <1>b DEF Answered
  <2>. QED
    BY <1>b, <2>1, OnlyRequestStored
<1>1. ASSUME NEW r \in Requests, Refuse(r) PROVE Stored'
  <2>1. /\ Done("unavailable", Nobody) \in RequestState
        /\ Done("unavailable", Nobody).pc = "done"
        /\ Answered(Done("unavailable", Nobody), r)
    BY DoneTyped DEF Replies, Answered
  <2>. QED
    BY <1>1, <2>1, OnlyRequestStored DEF Refuse, HasJob
<1>2. ASSUME NEW r \in Requests, Accept(r) PROVE Stored'
  <2> DEFINE pc == IF KeyOf[r] = NoKey THEN "domains" ELSE "record"
  <2>1. pc \in PC /\ pc # "lookup" /\ (pc \in HasJob => KeyOf[r] = NoKey)
    BY DEF PC, HasJob
  <2> HIDE DEF pc
  <2>2. Goes(r, To(r, pc)) /\ UNCHANGED <<record, recordLock, tasks>>
    BY <1>2 DEF Accept, pc
  <2>. QED
    BY <1>a, <1>b, <2>1, <2>2, MovedTyped
<1>3. ASSUME NEW r \in Requests, InsertRecord(r) PROVE Stored'
  <2>1. KeyOf[r] \in Keys /\ recordLock[KeyOf[r]] = Nobody
    BY <1>3, <1>a DEF InsertRecord, Keyed
  <2>2. CASE record[KeyOf[r]] = Nobody
    <3>1. To(r, "domains") \in RequestState
      BY <1>a, MovedTyped DEF PC
    <3>2. /\ request'[r] = To(r, "domains")
          /\ \A q \in Requests \ {r} : request'[q] = request[q]
      BY <1>3, <1>a, <2>2, <3>1, StateReplaced DEF InsertRecord
    <3>3. /\ recordLock' = [recordLock EXCEPT ![KeyOf[r]] = r]
          /\ UNCHANGED <<record, tasks>>
      BY <1>3, <2>2 DEF InsertRecord
    <3>4. /\ request'[r].pc = "domains"
          /\ request'[r].reply = request[r].reply
          /\ request'[r].job = request[r].job
      BY <1>a, <3>2, MovedTyped DEF PC
    <3>5. KeyHeld'
      BY <1>a, <2>1, <2>2, <3>2, <3>3, NobodyIsNoRequest DEF Stored, KeyHeld, Typed
    <3>6. Recorded'
      BY <3>3 DEF Stored, Recorded, TasksOf
    <3>7. Looked'
      BY <1>a, <3>2, <3>3, <3>4 DEF Looked
    <3>8. \A q \in Requests : Answered(request[q], q)'
      BY <1>a, <3>2, <3>3, <3>4 DEF Answered, TasksOf
    <3>. QED
      BY <3>5, <3>6, <3>7, <3>8 DEF Stored
  <2>3. CASE record[KeyOf[r]] # Nobody
    <3>1. Goes(r, To(r, "lookup")) /\ UNCHANGED <<record, recordLock, tasks>>
      BY <1>3, <2>3 DEF InsertRecord
    <3>. QED
      BY <1>a, <1>b, <2>3, <3>1, MovedTyped DEF PC, HasJob
  <2>. QED
    BY <2>2, <2>3
<1>4. ASSUME NEW r \in Requests, Lookup(r) PROVE Stored'
  <2> DEFINE other == record[KeyOf[r]]
  <2>1. other \in Jobs /\ tasks[other] = TasksOf(other)
    BY <1>4, <1>a DEF Lookup, Keyed, Looked, Typed, Jobs, Stored, Recorded
  <2> HIDE DEF other
  <2>2. CASE HashOf[r] = HashOf[other]
    <3>1. Goes(r, Done("replayed", other))
      BY <1>4, <2>2 DEF Lookup, other
    <3>2. ValidOf[r] = ValidOf[other] /\ InvalidOf[r] = InvalidOf[other]
      BY <2>1, <2>2, HashAssumption DEF Jobs
    <3>3. TasksOf(other) = TasksOf(r)
      BY <3>2 DEF TasksOf
    <3>4. /\ Done("replayed", other) \in RequestState
          /\ Done("replayed", other).pc = "done"
          /\ Done("replayed", other).job = other
      BY <2>1, DoneTyped DEF Replies
    <3>5. Answered(Done("replayed", other), r)
      BY <2>1, <3>3, <3>4 DEF Answered
    <3>. QED
      BY <1>4, <3>1, <3>4, <3>5, OnlyRequestStored DEF Lookup, HasJob
  <2>3. CASE HashOf[r] # HashOf[other]
    <3>1. Goes(r, Done("conflict", Nobody))
      BY <1>4, <2>3 DEF Lookup, other
    <3>2. /\ Done("conflict", Nobody) \in RequestState
          /\ Done("conflict", Nobody).pc = "done"
          /\ Answered(Done("conflict", Nobody), r)
      BY DoneTyped DEF Replies, Answered
    <3>. QED
      BY <1>4, <3>1, <3>2, OnlyRequestStored DEF Lookup, HasJob
  <2>. QED
    BY <2>2, <2>3
<1>5. ASSUME NEW r \in Requests, SelectDomains(r) PROVE Stored'
  <2>1. PICK q \in Orders({d \in Names(r) : domain[d] = "absent"}) :
          Goes(r, [To(r, "insert") EXCEPT
                     !.missing = q,
                     !.inactive = {d \in ValidOf[r] : domain[d] = "inactive"}])
    BY <1>5 DEF SelectDomains
  <2> DEFINE s == [To(r, "insert") EXCEPT
                     !.missing = q,
                     !.inactive = {d \in ValidOf[r] : domain[d] = "inactive"}]
  <2>2. /\ {d \in Names(r) : domain[d] = "absent"} \in SUBSET Domains
        /\ {d \in ValidOf[r] : domain[d] = "inactive"} \in SUBSET Domains
    BY PayloadAssumption DEF Names
  <2>3. q \in Seq(Domains)
    BY <2>2, OrdersOfDomains
  <2>4. /\ To(r, "insert") \in RequestState
        /\ To(r, "insert").pc = "insert"
        /\ To(r, "insert").reply = request[r].reply
        /\ To(r, "insert").job = request[r].job
    BY <1>a, MovedTyped DEF PC
  <2>5. /\ s \in RequestState
        /\ s.pc = "insert"
        /\ s.reply = request[r].reply
        /\ s.job = request[r].job
    BY <2>2, <2>3, <2>4 DEF RequestState
  <2>6. Goes(r, s) /\ request[r].pc \in HasJob /\ UNCHANGED <<record, recordLock, tasks>>
    BY <1>5, <2>1 DEF SelectDomains, HasJob
  <2> HIDE DEF s
  <2>. QED
    BY <1>b, <2>5, <2>6
<1>6. ASSUME NEW r \in Requests, InsertDomain(r) PROVE Stored'
  <2>1. PICK d \in Names(r) :
          Inserting(r, d) /\ Goes(r, [request[r] EXCEPT !.missing = Tail(@)])
    BY <1>6 DEF InsertDomain
  <2> DEFINE s == [request[r] EXCEPT !.missing = Tail(@)]
  <2>2. request[r] \in RequestState /\ request[r].missing # <<>> /\ request[r].pc = "insert"
    BY <1>a, <2>1 DEF Inserting, Typed
  <2>3. request[r].missing \in Seq(Domains) /\ Tail(request[r].missing) \in Seq(Domains)
    BY <2>2 DEF RequestState
  <2>4. /\ s \in RequestState
        /\ s.pc = "insert"
        /\ s.reply = request[r].reply
        /\ s.job = request[r].job
    BY <2>2, <2>3 DEF RequestState
  <2>5. Goes(r, s) /\ request[r].pc \in HasJob /\ UNCHANGED <<record, recordLock, tasks>>
    BY <1>6, <2>1, <2>2 DEF InsertDomain, HasJob
  <2> HIDE DEF s
  <2>. QED
    BY <1>b, <2>4, <2>5
<1>7. ASSUME NEW r \in Requests, InsertDomainFails(r) \/ Fail(r) PROVE Stored'
  <2>1. /\ Done("error", Nobody) \in RequestState
        /\ Done("error", Nobody).pc = "done"
        /\ Done("error", Nobody).reply = "error"
    BY DoneTyped DEF Replies
  <2>2. Ends(r, Done("error", Nobody)) /\ UNCHANGED <<record, tasks>>
    BY <1>7 DEF InsertDomainFails, Fail
  <2>. QED
    BY <2>1, <2>2, EndsStored
<1>8. ASSUME NEW r \in Requests, InsertedAll(r) PROVE Stored'
  <2>1. Goes(r, To(r, "reactivate")) /\ request[r].pc \in HasJob
        /\ UNCHANGED <<record, recordLock, tasks>>
    BY <1>8 DEF InsertedAll, HasJob
  <2>. QED
    BY <1>a, <1>b, <2>1, MovedTyped DEF PC
<1>9. ASSUME NEW r \in Requests, Reactivate(r) PROVE Stored'
  <2>1. Goes(r, To(r, "commit")) /\ request[r].pc \in HasJob
        /\ UNCHANGED <<record, recordLock, tasks>>
    BY <1>9 DEF Reactivate, HasJob
  <2>. QED
    BY <1>a, <1>b, <2>1, MovedTyped DEF PC
<1>10. ASSUME NEW r \in Requests, Commit(r) PROVE Stored'
  <2>1. PICK s \in {Done("created", r), Done("error", Nobody)} : Ends(r, s)
    BY <1>10 DEF Commit
  <2>2. /\ s \in RequestState
        /\ s.pc = "done"
        /\ s.reply \in {"created", "replayed"} => s.job = r
    BY <2>1, DoneTyped DEF Replies, Jobs
  <2>3. /\ request[r].pc = "commit"
        /\ record' = [k \in Keys |-> IF recordLock[k] = r THEN r ELSE record[k]]
        /\ tasks' = [tasks EXCEPT ![r] = TasksOf(r)]
    BY <1>10 DEF Commit
  <2>4. tasks'[r] = TasksOf(r)
    BY <1>a, <2>3 DEF Typed, Jobs
  <2>. QED
    BY <2>1, <2>2, <2>3, <2>4, EndsStored
<1>11. ASSUME NEW d \in Domains, Deactivate(d) PROVE Stored'
  <2>1. \A r \in Requests : /\ request'[r].pc = request[r].pc
                            /\ request'[r].reply = request[r].reply
                            /\ request'[r].job = request[r].job
    BY <1>11, <1>a DEF Deactivate, Typed, RequestState
  <2>2. UNCHANGED <<record, recordLock, tasks>>
    BY <1>11 DEF Deactivate
  <2>3. KeyHeld'
    BY <2>1, <2>2 DEF Stored, KeyHeld
  <2>4. Recorded'
    BY <2>2 DEF Stored, Recorded, TasksOf
  <2>5. Looked'
    BY <2>1, <2>2 DEF Stored, Looked
  <2>6. \A r \in Requests : Answered(request[r], r)'
    BY <2>1, <2>2 DEF Stored, Answered, TasksOf
  <2>. QED
    BY <2>3, <2>4, <2>5, <2>6 DEF Stored
<1>12. CASE Rest \/ UNCHANGED vars
  BY <1>12 DEF Rest, vars, Stored, KeyHeld, Recorded, Looked, Answered, TasksOf
<1>. QED
  BY <1>1, <1>2, <1>3, <1>4, <1>5, <1>6, <1>7, <1>8, <1>9, <1>10, <1>11, <1>12
  DEF Next, CreateJob

LEMMA StoredInvariant == Spec => [](Basic /\ Stored)
  BY BasicInit, BasicStep, StoredInit, StoredStep, PTL DEF Spec

\* However requests with one key overlap, fail and are repeated, one job is made:
\* the record's unique key admits one transaction, and its job is committed with it.
THEOREM KeyMakesOneJob == Spec => []OneJobPerKey
<1>1. Basic /\ Stored => OneJobPerKey
  BY KeysAssumption DEF Stored, Recorded, OneJobPerKey, Jobs
<1>. QED
  BY <1>1, StoredInvariant, PTL

\* A job a client is told of is stored with the tasks of that client's payload.
THEOREM AnswerIsStored == Spec => []AnsweredJobIsStored
<1>1. Basic /\ Stored => AnsweredJobIsStored
  BY DEF Stored, Answered, AnsweredJobIsStored
<1>. QED
  BY <1>1, StoredInvariant, PTL

-----------------------------------------------------------------------------
\* A domain that r need not touch any more.
Ready(r, d) == domainLock[d] = r \/ domain[d] = "active" \/ d \in request[r].raced
Missing(r, d) == \E i \in 1 .. Len(request[r].missing) : request[r].missing[i] = d

\* What a transaction still owes to the domains of its job.
DomainsFollowed ==
    \A r \in Requests : \A d \in ValidOf[r] :
      /\ request[r].pc = "insert" => \/ Missing(r, d) \/ Ready(r, d)
                                     \/ d \in request[r].inactive
      /\ request[r].pc = "reactivate" => Ready(r, d) \/ d \in request[r].inactive
      /\ request[r].pc = "commit" => Ready(r, d)

\* A domain that is ready for q is so after a step of another request, or of a worker.
LEMMA ReadyStays ==
    ASSUME Basic, NEW q \in Requests, NEW d \in ValidOf[q], Ready(q, d),
           request[q].pc \in Writing,
           \/ /\ \E r \in Requests \ {q} : CreateJob(r) \/ Refuse(r) \/ Fail(r)
              /\ request'[q] = request[q]
           \/ \E e \in Domains : Deactivate(e)
    PROVE  Ready(q, d)'
<1>a. Typed /\ d \in Domains
  BY PayloadAssumption DEF Basic
<1>1. ASSUME NEW r \in Requests \ {q}, CreateJob(r) \/ Refuse(r) \/ Fail(r),
             request'[q] = request[q]
      PROVE  Ready(q, d)'
  <2>1. domainLock[d] = q => domainLock'[d] = q
    <3>1. ASSUME NEW s, Ends(r, s), domainLock[d] = q PROVE domainLock'[d] = q
      BY <1>a, <3>1, LocksFreed DEF Ends, Typed
    <3>. QED
      BY <1>a, <1>1, <3>1, NobodyIsNoRequest
      DEF CreateJob, Accept, InsertRecord, Lookup, SelectDomains, InsertDomain,
          InsertDomainFails, InsertedAll, Reactivate, Commit, Refuse, Fail, Inserting, Typed
  <2>2. domain[d] = "active" => domain'[d] = "active"
    BY <1>a, <1>1
    DEF CreateJob, Accept, InsertRecord, Lookup, SelectDomains, InsertDomain,
        InsertDomainFails, InsertedAll, Reactivate, Commit, Refuse, Fail, Typed
  <2>. QED
    BY <1>1, <2>1, <2>2 DEF Ready
<1>2. ASSUME NEW e \in Domains, Deactivate(e) PROVE Ready(q, d)'
  <2>1. /\ domainLock' = domainLock
        /\ domain' = [domain EXCEPT ![e] = "inactive"]
    BY <1>2 DEF Deactivate
  <2>2. request'[q].raced = request[q].raced \cup ({e} \cap ValidOf[q])
    BY <1>2, <1>a DEF Deactivate, Typed, RequestState, Writing
  <2>. QED
    BY <1>a, <2>1, <2>2 DEF Ready, Typed
<1>. QED
  BY <1>1, <1>2

LEMMA FollowedInit == Init => DomainsFollowed
  BY DEF Init, DomainsFollowed, New, Bare

\* An action of one request is none of another.
LEMMA OthersWait ==
    ASSUME Typed, NEW r \in Requests, NEW q \in Requests \ {r},
           CreateJob(r) \/ Refuse(r) \/ Fail(r)
    PROVE  request'[q] = request[q]
  BY DEF Typed, CreateJob, Accept, InsertRecord, Lookup, SelectDomains, InsertDomain,
         InsertDomainFails, InsertedAll, Reactivate, Commit, Refuse, Fail, Ends, Goes

\* What Goes, Ends and the rest leave of r itself.
LEMMA OwnStep ==
    ASSUME Basic, DomainsFollowed, NEW r \in Requests, NEW d \in ValidOf[r],
           CreateJob(r) \/ Refuse(r) \/ Fail(r)
    PROVE  /\ request'[r].pc = "insert" => \/ Missing(r, d)' \/ Ready(r, d)'
                                           \/ d \in request'[r].inactive
           /\ request'[r].pc = "reactivate" => Ready(r, d)' \/ d \in request'[r].inactive
           /\ request'[r].pc = "commit" => Ready(r, d)'
<1> DEFINE Goal == /\ request'[r].pc = "insert" => \/ Missing(r, d)' \/ Ready(r, d)'
                                                   \/ d \in request'[r].inactive
                   /\ request'[r].pc = "reactivate" =>
                        Ready(r, d)' \/ d \in request'[r].inactive
                   /\ request'[r].pc = "commit" => Ready(r, d)'
<1>a. Typed /\ d \in Domains /\ request[r] \in RequestState /\ d \in Names(r)
  BY PayloadAssumption DEF Basic, Typed, Names
<1>1. ASSUME request'[r].pc \notin Writing PROVE Goal
  BY <1>1 DEF Writing
<1>2. CASE SelectDomains(r)
  <2>1. PICK q \in Orders({e \in Names(r) : domain[e] = "absent"}) :
          Goes(r, [To(r, "insert") EXCEPT
                     !.missing = q,
                     !.inactive = {e \in ValidOf[r] : domain[e] = "inactive"}])
    BY <1>2 DEF SelectDomains
  <2> DEFINE s == [To(r, "insert") EXCEPT
                     !.missing = q,
                     !.inactive = {e \in ValidOf[r] : domain[e] = "inactive"}]
  <2>2. /\ {e \in Names(r) : domain[e] = "absent"} \in SUBSET Domains
        /\ {e \in ValidOf[r] : domain[e] = "inactive"} \in SUBSET Domains
    BY PayloadAssumption DEF Names
  <2>3. /\ q \in Seq(Domains)
        /\ domain[d] = "absent" => \E i \in 1 .. Len(q) : q[i] = d
    BY <1>a, <2>2, OrdersOfDomains
  <2>4. To(r, "insert") \in RequestState /\ To(r, "insert").pc = "insert"
    BY <1>a, MovedTyped DEF PC
  <2>5. /\ s \in RequestState
        /\ s.pc = "insert"
        /\ s.missing = q
        /\ s.inactive = {e \in ValidOf[r] : domain[e] = "inactive"}
    BY <2>2, <2>3, <2>4 DEF RequestState
  <2>6. Goes(r, s)
    BY <2>1
  <2> HIDE DEF s
  <2>7. request'[r] = s /\ domain' = domain
    BY <1>a, <1>2, <2>5, <2>6, StateReplaced DEF SelectDomains
  <2>8. domain[d] \in {"absent", "active", "inactive"}
    BY <1>a DEF Typed, DomainStatus
  <2>. QED
    BY <2>3, <2>5, <2>7, <2>8 DEF Missing, Ready
<1>3. CASE InsertDomain(r)
  <2>1. PICK e \in Names(r) :
          /\ Inserting(r, e)
          /\ domainLock' = [domainLock EXCEPT ![e] = r]
          /\ Goes(r, [request[r] EXCEPT !.missing = Tail(@)])
          /\ domain' = domain
    BY <1>3 DEF InsertDomain
  <2> DEFINE s == [request[r] EXCEPT !.missing = Tail(@)]
  <2>2. request[r].missing # <<>> /\ request[r].pc = "insert" /\ e = Head(request[r].missing)
    BY <2>1 DEF Inserting
  <2>3. request[r].missing \in Seq(Domains) /\ Tail(request[r].missing) \in Seq(Domains)
    BY <1>a, <2>2 DEF RequestState
  <2>4. /\ s \in RequestState
        /\ s.pc = "insert"
        /\ s.missing = Tail(request[r].missing)
        /\ s.raced = request[r].raced
        /\ s.inactive = request[r].inactive
    BY <1>a, <2>2, <2>3 DEF RequestState
  <2>5. Goes(r, s)
    BY <2>1
  <2> HIDE DEF s
  <2>6. request'[r] = s
    BY <1>a, <2>4, <2>5, StateReplaced
  <2>7. Missing(r, d) \/ Ready(r, d) \/ d \in request[r].inactive
    BY <2>2 DEF DomainsFollowed
  <2>8. CASE Ready(r, d)
    <3>1. domainLock[d] = r => domainLock'[d] = r
      BY <1>a, <2>1 DEF Typed
    <3>. QED
      BY <2>1, <2>4, <2>6, <2>8, <3>1 DEF Ready
  <2>9. CASE Missing(r, d)
    <3>1. PICK i \in 1 .. Len(request[r].missing) : request[r].missing[i] = d
      BY <2>9 DEF Missing
    <3>2. CASE i = 1
      BY <1>a, <2>1, <2>2, <2>3, <2>4, <2>6, <3>1, <3>2 DEF Ready, Typed
    <3>3. CASE i # 1
      <4>1. i - 1 \in 1 .. Len(Tail(request[r].missing))
            /\ Tail(request[r].missing)[i - 1] = d
        BY <2>2, <2>3, <3>1, <3>3
      <4>. QED
        BY <2>4, <2>6, <4>1 DEF Missing
    <3>. QED
      BY <3>2, <3>3
  <2>. QED
    BY <2>4, <2>6, <2>7, <2>8, <2>9
<1>4. CASE InsertedAll(r)
  <2>1. request'[r] = To(r, "reactivate")
    BY <1>a, <1>4, MovedTyped, StateReplaced DEF InsertedAll, PC
  <2>2. /\ request'[r].pc = "reactivate"
        /\ request'[r].inactive = request[r].inactive
        /\ request'[r].raced = request[r].raced
    BY <1>a, <2>1, MovedTyped DEF PC
  <2>3. request[r].pc = "insert" /\ request[r].missing = <<>>
        /\ UNCHANGED <<domain, domainLock>>
    BY <1>4 DEF InsertedAll
  <2>. QED
    BY <2>2, <2>3 DEF DomainsFollowed, Missing, Ready
<1>5. CASE Reactivate(r)
  <2>1. request'[r] = To(r, "commit")
    BY <1>a, <1>5, MovedTyped, StateReplaced DEF Reactivate, PC
  <2>2. request'[r].pc = "commit" /\ request'[r].raced = request[r].raced
    BY <1>a, <2>1, MovedTyped DEF PC
  <2>3. /\ request[r].pc = "reactivate"
        /\ domainLock'[d] = IF d \in request[r].inactive THEN r ELSE domainLock[d]
        /\ domain' = domain
    BY <1>a, <1>5 DEF Reactivate
  <2>. QED
    BY <2>2, <2>3 DEF DomainsFollowed, Ready
<1>6. CASE ~(SelectDomains(r) \/ InsertDomain(r) \/ InsertedAll(r) \/ Reactivate(r))
  <2>1. CASE InsertDomainFails(r) \/ Commit(r) \/ Fail(r) \/ Refuse(r) \/ Lookup(r)
    <3>1. PICK s : Goes(r, s) /\ \E reply, j : s = Done(reply, j)
      BY <2>1 DEF InsertDomainFails, Commit, Fail, Refuse, Lookup, Ends
    <3>2. request'[r].pc = "done"
      BY <1>a, <3>1 DEF Goes, Typed, Done, Bare
    <3>. QED
      BY <1>1, <3>2 DEF Writing
  <2>2. CASE Accept(r) \/ InsertRecord(r)
    <3>1. PICK pc \in PC \ Writing : Goes(r, To(r, pc))
      BY <2>2 DEF Accept, InsertRecord, PC, Writing
    <3>2. request'[r].pc = pc
      BY <1>a, <3>1, MovedTyped, StateReplaced
    <3>. QED
      BY <1>1, <3>2
  <2>. QED
    BY <1>6, <2>1, <2>2 DEF CreateJob
<1>. QED
  BY <1>2, <1>3, <1>4, <1>5, <1>6

LEMMA FollowedStep == Basic /\ DomainsFollowed /\ [Next]_vars => DomainsFollowed'
<1> SUFFICES ASSUME Basic, DomainsFollowed, [Next]_vars PROVE DomainsFollowed'
  OBVIOUS
<1>a. Typed
  BY DEF Basic
<1>1. ASSUME NEW r \in Requests, CreateJob(r) \/ Refuse(r) \/ Fail(r)
      PROVE  DomainsFollowed'
  <2>1. ASSUME NEW q \in Requests \ {r}, NEW d \in ValidOf[q]
        PROVE  /\ request'[q].pc = "insert" => \/ Missing(q, d)' \/ Ready(q, d)'
                                               \/ d \in request'[q].inactive
               /\ request'[q].pc = "reactivate" => Ready(q, d)' \/ d \in request'[q].inactive
               /\ request'[q].pc = "commit" => Ready(q, d)'
    <3>1. request'[q] = request[q]
      BY <1>a, <1>1, <2>1, OthersWait
    <3>2. Missing(q, d) => Missing(q, d)'
      BY <3>1 DEF Missing
    <3>3. request[q].pc \in Writing /\ Ready(q, d) => Ready(q, d)'
      BY <1>1, <2>1, <3>1, ReadyStays
    <3>. QED
      BY <3>1, <3>2, <3>3 DEF DomainsFollowed, Writing
  <2>. QED
    BY <1>1, <2>1, OwnStep DEF DomainsFollowed
<1>2. ASSUME NEW e \in Domains, Deactivate(e) PROVE DomainsFollowed'
  <2> SUFFICES ASSUME NEW q \in Requests, NEW d \in ValidOf[q]
               PROVE  /\ request'[q].pc = "insert" => \/ Missing(q, d)' \/ Ready(q, d)'
                                                      \/ d \in request'[q].inactive
                      /\ request'[q].pc = "reactivate" =>
                           Ready(q, d)' \/ d \in request'[q].inactive
                      /\ request'[q].pc = "commit" => Ready(q, d)'
    BY DEF DomainsFollowed
  <2>1. /\ request'[q].pc = request[q].pc
        /\ request'[q].missing = request[q].missing
        /\ request'[q].inactive = request[q].inactive
    BY <1>2, <1>a DEF Deactivate, Typed, RequestState
  <2>2. Missing(q, d) => Missing(q, d)'
    BY <2>1 DEF Missing
  <2>3. request[q].pc \in Writing /\ Ready(q, d) => Ready(q, d)'
    BY <1>2, ReadyStays
  <2>. QED
    BY <2>1, <2>2, <2>3 DEF DomainsFollowed, Writing
<1>3. CASE Rest \/ UNCHANGED vars
  BY <1>3 DEF Rest, vars, DomainsFollowed, Missing, Ready
<1>. QED
  BY <1>1, <1>2, <1>3 DEF Next

\* When a job is stored its valid domains are active, whichever of them the request
\* found missing or inactive, and whatever other requests did in between; only a
\* worker's deactivation after the SELECT goes unnoticed.
THEOREM JobIsActive == Spec => StoredJobIsActive
<1> DEFINE Step == \A r \in Requests : tasks[r] = {} /\ tasks'[r] # {} =>
                     \A d \in ValidOf[r] : domain'[d] = "active" \/ d \in request[r].raced
<1>1. Basic /\ DomainsFollowed /\ [Next]_vars => [Step]_vars
  <2> SUFFICES ASSUME Basic, DomainsFollowed, Next,
                      NEW r \in Requests, tasks[r] = {}, tasks'[r] # {},
                      NEW d \in ValidOf[r]
               PROVE  domain'[d] = "active" \/ d \in request[r].raced
    OBVIOUS
  <2>1. Typed /\ d \in Domains
    BY PayloadAssumption DEF Basic
  <2>2. PICK q \in Requests : Commit(q)
    BY DEF Next, CreateJob, Accept, InsertRecord, Lookup, SelectDomains, InsertDomain,
           InsertDomainFails, InsertedAll, Reactivate, Refuse, Fail, Deactivate, Rest, vars
  <2>3. q = r
    BY <2>1, <2>2 DEF Commit, Typed, Jobs
  <2>4. Ready(r, d)
    BY <2>2, <2>3 DEF Commit, DomainsFollowed
  <2>. QED
    BY <2>1, <2>2, <2>3, <2>4 DEF Commit, Ready
<1>2. Spec => [](Basic /\ DomainsFollowed)
  BY BasicInit, BasicStep, FollowedInit, FollowedStep, PTL DEF Spec
<1>. QED
  BY <1>1, <1>2, PTL DEF Spec, StoredJobIsActive
=============================================================================
