-------------------------- MODULE RefreshScheduler --------------------------
(***************************************************************************)
(* The refresh schedulers of all instances (_tick): each looks for active  *)
(* domains whose detail is due and creates a REFRESH task for those that   *)
(* have none open.  The SELECTs and the INSERTs of a tick are one          *)
(* transaction under READ COMMITTED, and no unique key stands behind them. *)
(***************************************************************************)
EXTENDS Naturals, FiniteSets

CONSTANTS
    Schedulers,    \* one for each instance
    Domains,
    Concurrency,   \* settings.worker_concurrency
    MaxReopens     \* bound: terminal refresh tasks of a domain opened again

ASSUME FiniteSystem == IsFiniteSet(Schedulers) /\ IsFiniteSet(Domains)
ASSUME ConcurrencyIsPositive == Concurrency \in Nat \ {0}
ASSUME ReopensBounded == MaxReopens \in Nat

VARIABLES
    active,    \* Domain.is_active
    due,       \* due[d]: d has a detail, and its next_refresh_at <= now
    behind,    \* behind[d]: the domains with an earlier next_refresh_at than d
    open,      \* open[d]: PENDING and PROCESSING REFRESH tasks of d, committed
    stranded,  \* stranded[d]: those of them that nobody will ever end
    reopened,  \* history: how many terminal ones were set back to PENDING
    tick       \* tick[s]: the transaction of the scheduler

rows == <<active, due, behind, open, stranded, reopened>>
vars == <<rows, tick>>

-----------------------------------------------------------------------------
\* todo: the domain_ids it has still to look at; made: those it has added.
NoTick == [running |-> FALSE, todo |-> {}, made |-> {}]

\* A service that has run before: its domains are processed, and its tasks ended.
Init ==
    /\ active = [d \in Domains |-> TRUE]
    /\ due = [d \in Domains |-> FALSE]
    /\ behind = [d \in Domains |-> {}]
    /\ open = [d \in Domains |-> 0]
    /\ stranded = [d \in Domains |-> 0]
    /\ reopened = [d \in Domains |-> 0]
    /\ tick = [s \in Schedulers |-> NoTick]

-----------------------------------------------------------------------------
Candidates == {d \in Domains : active[d] /\ due[d]}

\* Mistake: ORDER BY next_refresh_at DESC.
SelectedLatest(n) ==
    {d \in Candidates : Cardinality({e \in Candidates : d \in behind[e]}) < n}

\* ORDER BY next_refresh_at LIMIT n.
Selected(n) == {d \in Candidates : Cardinality(behind[d] \cap Candidates) < n}

\* Capacity for n tasks is left in the queue of the instance, none if n is 0:
\* then, and if nothing is due, the tick ends at once.
Discover(s) ==
    /\ ~tick[s].running
    /\ \E n \in 0 .. Concurrency :
         /\ Selected(n) # {}
         /\ tick' = [tick EXCEPT ![s] =
                       [running |-> TRUE, todo |-> Selected(n), made |-> {}]]
    /\ UNCHANGED rows

\* Mistake: no look at the tasks there are.
LookedUpNot(s, d) ==
    [running |-> TRUE, todo |-> tick[s].todo \ {d}, made |-> tick[s].made \cup {d}]

\* Mistake: the exception ends the tick without a rollback.
LookedUpNoRollback(s, d) ==
    CASE open[d] = 0 -> LookedUpNot(s, d)
      [] open[d] = 1 -> [tick[s] EXCEPT !.todo = @ \ {d}]
      [] open[d] > 1 -> [tick[s] EXCEPT !.running = FALSE]

\* get_pending_refresh_task_for_domain: the domain is skipped if it has an open
\* task, and scalar_one_or_none raises if it has several: then the tick is
\* rolled back.
LookedUp(s, d) ==
    CASE open[d] = 0 -> [running |-> TRUE, todo |-> tick[s].todo \ {d},
                         made |-> tick[s].made \cup {d}]
      [] open[d] = 1 -> [running |-> TRUE, todo |-> tick[s].todo \ {d},
                         made |-> tick[s].made]
      [] open[d] > 1 -> NoTick

\* A tick is all or nothing: the order of its SELECTs is left open.
Lookup(s) ==
    \E d \in tick[s].todo :
      /\ tick' = [tick EXCEPT ![s] = LookedUp(s, d)]
      /\ UNCHANGED rows

Commit(s) ==
    /\ tick[s].running
    /\ tick[s].todo = {}
    /\ open' = [d \in Domains |-> IF d \in tick[s].made THEN open[d] + 1 ELSE open[d]]
    /\ tick' = [tick EXCEPT ![s] = NoTick]
    /\ UNCHANGED <<active, due, behind, stranded, reopened>>

\* The database fails, or the scheduler is stopped, or its instance dies.
Fail(s) ==
    /\ tick[s].running
    /\ tick' = [tick EXCEPT ![s] = NoTick]
    /\ UNCHANGED rows

-----------------------------------------------------------------------------
\* The order of those that are due, without d.
Forget(d) == [e \in Domains |-> IF e = d THEN {} ELSE behind[e] \ {d}]

\* next_refresh_at passes.
BecomesDue(d) ==
    /\ ~due[d]
    /\ due' = [due EXCEPT ![d] = TRUE]
    /\ behind' = [behind EXCEPT ![d] = {e \in Domains : due[e]}]
    /\ UNCHANGED <<active, open, stranded, reopened, tick>>

\* A result of d is stored, which moves its next_refresh_at on.
Stores(d) == /\ due' = [due EXCEPT ![d] = FALSE]
             /\ behind' = Forget(d)
             /\ UNCHANGED active

\* deactivate_domain
Deactivates(d) == /\ active' = [active EXCEPT ![d] = FALSE]
                  /\ UNCHANGED <<due, behind>>

\* A worker ends a REFRESH task of d: with a result, by deactivating the domain,
\* or with neither.
EndTask(d) ==
    /\ open[d] > stranded[d]
    /\ open' = [open EXCEPT ![d] = @ - 1]
    /\ Stores(d) \/ Deactivates(d) \/ UNCHANGED <<active, due, behind>>
    /\ UNCHANGED <<stranded, reopened, tick>>

\* A worker ends a USER_REQUEST task of d, or a task that another has ended.
EndOther(d) ==
    /\ Stores(d) \/ Deactivates(d)
    /\ UNCHANGED <<open, stranded, reopened, tick>>

\* A REFRESH task is left PROCESSING without a lease, as TaskPipeline shows: the
\* recovery loop does not find it.
Strand(d) ==
    /\ open[d] > stranded[d]
    /\ stranded' = [stranded EXCEPT ![d] = @ + 1]
    /\ UNCHANGED <<active, due, behind, open, reopened, tick>>

\* A worker that selected a REFRESH task before another ended it reschedules it.
Reopen(d) ==
    /\ reopened[d] < MaxReopens
    /\ reopened' = [reopened EXCEPT ![d] = @ + 1]
    /\ open' = [open EXCEPT ![d] = @ + 1]
    /\ UNCHANGED <<active, due, behind, stranded, tick>>

\* A job is submitted for an inactive domain: its detail is deleted, and is not
\* due before a task of the job has stored another.
Reactivate(d) ==
    /\ ~active[d]
    /\ active' = [active EXCEPT ![d] = TRUE]
    /\ due' = [due EXCEPT ![d] = FALSE]
    /\ behind' = Forget(d)
    /\ UNCHANGED <<open, stranded, reopened, tick>>

-----------------------------------------------------------------------------
Tick(s) == Discover(s) \/ Lookup(s) \/ Commit(s)

Next == \/ \E s \in Schedulers : Tick(s) \/ Fail(s)
        \/ \E d \in Domains : \/ BecomesDue(d) \/ EndTask(d) \/ EndOther(d) \/ Strand(d)
                              \/ Reopen(d) \/ Reactivate(d)

Spec == Init /\ [][Next]_vars

\* A scheduler goes on, on some tick with capacity. From some time on its database
\* is there, and what ends a tick early is LookedUp, which looks like Fail from
\* outside. The tasks that are not stranded end one day.
FairSpec == /\ Spec
            /\ \A s \in Schedulers :
                 WF_vars(Tick(s)) /\ <>[][Fail(s) => Lookup(s)]_vars
            /\ \A d \in Domains : WF_vars(EndTask(d))

-----------------------------------------------------------------------------
\* Every variable keeps to its type; nothing is left of a tick that has ended, and
\* stranded tasks are open ones.
SchedulerTypeOK ==
    /\ active \in [Domains -> BOOLEAN]
    /\ due \in [Domains -> BOOLEAN]
    /\ behind \in [Domains -> SUBSET Domains]
    /\ open \in [Domains -> Nat]
    /\ stranded \in [Domains -> Nat]
    /\ reopened \in [Domains -> Nat]
    /\ tick \in [Schedulers -> [running : BOOLEAN, todo : SUBSET Domains,
                                made : SUBSET Domains]]
    /\ \A s \in Schedulers : tick[s].running \/ tick[s] = NoTick
    /\ \A d \in Domains : stranded[d] <= open[d]

\* Lookup and insert are not atomic, yet however the ticks interleave, fail and
\* repeat, a domain never has more open refresh tasks than there are schedulers,
\* plus those that stale workers opened again. One scheduler makes no duplicates.
DuplicatesBounded ==
    \A d \in Domains : open[d] <= Cardinality(Schedulers) + reopened[d]

\* d comes first among the candidates.
Oldest(d) == d \in Candidates /\ behind[d] \cap Candidates = {}

\* The domain that has been due for longest gets its refresh task, unless another
\* one has two stranded tasks: they make get_pending_refresh_task_for_domain raise
\* in every tick that selects both. Nothing else keeps the oldest waiting: not
\* duplicates that end one day, not a single stranded task, not domains that fail
\* every time and stay candidates, and not short batches.
OldestIsServedUnlessStranded ==
    \A d \in Domains :
      Oldest(d) ~> \/ open[d] > 0 \/ d \notin Candidates
                   \/ \E e \in Domains \ {d} : stranded[e] > 1
=============================================================================
