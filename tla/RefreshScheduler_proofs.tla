----------------------- MODULE RefreshScheduler_proofs -----------------------
(***************************************************************************)
(* Proofs about RefreshScheduler, for any number of schedulers, domains,   *)
(* reopened tasks and failures.                                            *)
(***************************************************************************)
EXTENDS RefreshScheduler, FiniteSetTheorems, TLAPS

\* What is selected is a set of domains.
LEMMA SelectedDomains == \A n : Selected(n) \subseteq Domains
  BY DEF Selected, Candidates

TickType == [running : BOOLEAN, todo : SUBSET Domains, made : SUBSET Domains]

\* One tick is replaced by another.
LEMMA TickReplaced ==
    ASSUME SchedulerTypeOK, NEW s \in Schedulers, NEW t \in TickType, t.running \/ t = NoTick,
           tick' = [tick EXCEPT ![s] = t]
    PROVE  /\ tick' \in [Schedulers -> TickType]
           /\ \A q \in Schedulers : tick'[q].running \/ tick'[q] = NoTick
  BY DEF SchedulerTypeOK, TickType

\* What a lookup of d makes of the tick.
LEMMA LookupTick ==
    ASSUME SchedulerTypeOK, NEW s \in Schedulers, Lookup(s)
    PROVE  \E d \in Domains, t \in TickType :
             /\ tick' = [tick EXCEPT ![s] = t]
             /\ t.running \/ t = NoTick
             /\ t.made \subseteq tick[s].made \cup IF open[d] = 0 THEN {d} ELSE {}
<1>1. PICK d \in tick[s].todo : tick' = [tick EXCEPT ![s] = LookedUp(s, d)]
  BY DEF Lookup
<1>2. tick[s] \in TickType /\ (tick[s].running \/ tick[s] = NoTick)
  BY DEF SchedulerTypeOK, TickType
<1>3. d \in Domains /\ open[d] \in Nat
  BY <1>1, <1>2 DEF TickType, SchedulerTypeOK
<1> DEFINE t == LookedUp(s, d)
<1>4. /\ t \in TickType
      /\ t.running \/ t = NoTick
      /\ t.made \subseteq tick[s].made \cup IF open[d] = 0 THEN {d} ELSE {}
  <2>1. CASE open[d] = 0
    BY <1>2, <1>3, <2>1 DEF LookedUp, TickType
  <2>2. CASE open[d] = 1
    BY <1>2, <1>3, <2>2 DEF LookedUp, TickType
  <2>3. CASE open[d] > 1
    BY <1>2, <1>3, <2>3 DEF LookedUp, TickType, NoTick
  <2>. QED
    BY <1>3, <2>1, <2>2, <2>3
<1> HIDE DEF t
<1> USE <1>3, <1>4
<1> WITNESS d \in Domains, t \in TickType
<1>. QED
  BY <1>1 DEF t

LEMMA TypeInit == Init => SchedulerTypeOK
<1> SUFFICES ASSUME Init PROVE SchedulerTypeOK
  OBVIOUS
<1>. QED
  BY DEF Init, SchedulerTypeOK, NoTick

\* What the end of a task does to its domain.
LEMMA OutcomeTyped ==
    ASSUME SchedulerTypeOK, NEW d \in Domains,
           Stores(d) \/ Deactivates(d) \/ UNCHANGED <<active, due, behind>>
    PROVE  /\ active' \in [Domains -> BOOLEAN] /\ due' \in [Domains -> BOOLEAN]
           /\ behind' \in [Domains -> SUBSET Domains]
<1>1. CASE Stores(d)
  BY <1>1 DEF Stores, Forget, SchedulerTypeOK
<1>2. CASE Deactivates(d)
  BY <1>2 DEF Deactivates, SchedulerTypeOK
<1>3. CASE UNCHANGED <<active, due, behind>>
  BY <1>3 DEF SchedulerTypeOK
<1>. QED
  BY <1>1, <1>2, <1>3

\* One step per action, for a scheduler s or a domain d.
LEMMA TypeStep == SchedulerTypeOK /\ [Next]_vars => SchedulerTypeOK'
<1> SUFFICES ASSUME SchedulerTypeOK, [Next]_vars PROVE SchedulerTypeOK'
  OBVIOUS
<1> USE DEF SchedulerTypeOK
<1>1. ASSUME NEW s \in Schedulers, Discover(s) PROVE SchedulerTypeOK'
  <2>1. PICK n \in 0 .. Concurrency :
          tick' = [tick EXCEPT ![s] =
                     [running |-> TRUE, todo |-> Selected(n), made |-> {}]]
    BY <1>1 DEF Discover
  <2>2. Selected(n) \subseteq Domains
    BY SelectedDomains
  <2>. QED
    BY <1>1, <2>1, <2>2 DEF Discover, rows
<1>2. ASSUME NEW s \in Schedulers, Lookup(s) PROVE SchedulerTypeOK'
  <2>1. PICK d \in Domains, t \in TickType :
          tick' = [tick EXCEPT ![s] = t] /\ (t.running \/ t = NoTick)
    BY <1>2, LookupTick
  <2>2. /\ tick' \in [Schedulers -> TickType]
        /\ \A q \in Schedulers : tick'[q].running \/ tick'[q] = NoTick
    BY <2>1, TickReplaced
  <2>. QED
    BY <1>2, <2>2 DEF Lookup, rows, TickType
<1>3. ASSUME NEW s \in Schedulers, Commit(s) PROVE SchedulerTypeOK'
  <2>1. NoTick \in TickType /\ tick' = [tick EXCEPT ![s] = NoTick]
    BY <1>3 DEF Commit, NoTick, TickType
  <2>2. /\ tick' \in [Schedulers -> TickType]
        /\ \A q \in Schedulers : tick'[q].running \/ tick'[q] = NoTick
    BY <2>1, TickReplaced
  <2>3. open' \in [Domains -> Nat] /\ \A d \in Domains : stranded'[d] <= open'[d]
    BY <1>3 DEF Commit
  <2>. QED
    BY <1>3, <2>2, <2>3 DEF Commit, TickType
<1>4. ASSUME NEW s \in Schedulers, Fail(s) PROVE SchedulerTypeOK'
  BY <1>4 DEF Fail, rows, NoTick
<1>5. ASSUME NEW d \in Domains, BecomesDue(d) PROVE SchedulerTypeOK'
  BY <1>5 DEF BecomesDue
<1>6. ASSUME NEW d \in Domains, EndTask(d) PROVE SchedulerTypeOK'
  <2>1. open' \in [Domains -> Nat] /\ \A e \in Domains : stranded'[e] <= open'[e]
    BY <1>6 DEF EndTask
  <2>2. /\ active' \in [Domains -> BOOLEAN] /\ due' \in [Domains -> BOOLEAN]
        /\ behind' \in [Domains -> SUBSET Domains]
    BY <1>6, OutcomeTyped DEF EndTask
  <2>. QED
    BY <1>6, <2>1, <2>2 DEF EndTask
<1>7. ASSUME NEW d \in Domains, Reopen(d) PROVE SchedulerTypeOK'
  BY <1>7 DEF Reopen
<1>8. ASSUME NEW d \in Domains, Reactivate(d) PROVE SchedulerTypeOK'
  BY <1>8 DEF Reactivate, Forget
<1>9. ASSUME NEW d \in Domains, EndOther(d) PROVE SchedulerTypeOK'
  <2>1. /\ active' \in [Domains -> BOOLEAN] /\ due' \in [Domains -> BOOLEAN]
        /\ behind' \in [Domains -> SUBSET Domains]
    BY <1>9, OutcomeTyped DEF EndOther
  <2>. QED
    BY <1>9, <2>1 DEF EndOther
<1>10. ASSUME NEW d \in Domains, Strand(d) PROVE SchedulerTypeOK'
  <2>1. stranded' \in [Domains -> Nat] /\ \A e \in Domains : stranded'[e] <= open'[e]
    BY <1>10 DEF Strand
  <2>. QED
    BY <1>10, <2>1 DEF Strand
<1>11. CASE UNCHANGED vars
  BY <1>11 DEF vars, rows
<1>. QED
  BY <1>1, <1>2, <1>3, <1>4, <1>5, <1>6, <1>7, <1>8, <1>9, <1>10, <1>11 DEF Next, Tick

\* Every variable of the schedulers keeps to its type, a tick that has been rolled
\* back or committed leaves nothing behind, and only open tasks are stranded.
THEOREM TypeCorrect == Spec => []SchedulerTypeOK
  BY TypeInit, TypeStep, PTL DEF Spec

-----------------------------------------------------------------------------
(***************************************************************************)
(* The bound on duplicates is not inductive: ticks that have looked and    *)
(* not yet committed count as well.  A tick adds d to them only when d has *)
(* no open task, when there are at most as many as there are schedulers.   *)
(***************************************************************************)
Makers(d) == {s \in Schedulers : d \in tick[s].made}

MadeBounded ==
    \A d \in Domains : open[d] + Cardinality(Makers(d)) <= Cardinality(Schedulers) + reopened[d]

LEMMA MakersFinite ==
    ASSUME NEW d
    PROVE  /\ IsFiniteSet(Makers(d)) /\ Cardinality(Makers(d)) \in Nat
           /\ Cardinality(Schedulers) \in Nat
           /\ Cardinality(Makers(d)) <= Cardinality(Schedulers)
  BY FiniteSystem, FS_Subset, FS_CardinalityType DEF Makers

\* A tick that ends takes itself out of the makers of all it has made.
LEMMA MakersOfEnded ==
    ASSUME NEW s \in Schedulers, NEW d \in Domains, SchedulerTypeOK,
           tick' = [tick EXCEPT ![s] = NoTick]
    PROVE  /\ d \in tick[s].made => Cardinality(Makers(d)') = Cardinality(Makers(d)) - 1
           /\ d \notin tick[s].made => Makers(d)' = Makers(d)
           /\ Cardinality(Makers(d)') \in Nat
           /\ Cardinality(Makers(d)') <= Cardinality(Makers(d))
<1>1. Makers(d)' = Makers(d) \ {s}
  BY DEF Makers, SchedulerTypeOK, NoTick
<1>2. IsFiniteSet(Makers(d)) /\ Cardinality(Makers(d)) \in Nat
  BY MakersFinite
<1>3. d \in tick[s].made <=> s \in Makers(d)
  BY DEF Makers
<1>4. CASE s \in Makers(d)
  <2>1. Cardinality(Makers(d) \ {s}) = Cardinality(Makers(d)) - 1
        /\ IsFiniteSet(Makers(d) \ {s})
    BY <1>2, <1>4, FS_RemoveElement
  <2>2. Cardinality(Makers(d) \ {s}) \in Nat
    BY <2>1, FS_CardinalityType
  <2>. QED
    BY <1>1, <1>2, <1>3, <1>4, <2>1, <2>2
<1>5. CASE s \notin Makers(d)
  <2>1. Makers(d)' = Makers(d)
    BY <1>1, <1>5
  <2>. QED
    BY <1>2, <1>3, <1>5, <2>1
<1>. QED
  BY <1>4, <1>5

LEMMA MadeInit == Init => MadeBounded
<1> SUFFICES ASSUME Init, NEW d \in Domains
             PROVE  open[d] + Cardinality(Makers(d)) <= Cardinality(Schedulers) + reopened[d]
  BY DEF MadeBounded
<1>1. open[d] = 0 /\ reopened[d] = 0
  BY DEF Init
<1>. QED
  BY <1>1, MakersFinite

\* A step that leaves the makers alone and lets no count of open tasks grow but
\* by a reopening.
LEMMA MadeKept ==
    ASSUME SchedulerTypeOK, SchedulerTypeOK', MadeBounded, UNCHANGED tick,
           \A e \in Domains : open'[e] - reopened'[e] <= open[e] - reopened[e]
    PROVE  MadeBounded'
<1> SUFFICES ASSUME NEW e \in Domains
             PROVE  open'[e] + Cardinality(Makers(e)') <= Cardinality(Schedulers) + reopened'[e]
  BY DEF MadeBounded
<1>1. Makers(e)' = Makers(e)
  BY DEF Makers
<1>2. /\ open[e] \in Nat /\ open'[e] \in Nat /\ reopened[e] \in Nat /\ reopened'[e] \in Nat
  BY DEF SchedulerTypeOK
<1>3. open[e] + Cardinality(Makers(e)) <= Cardinality(Schedulers) + reopened[e]
  BY DEF MadeBounded
<1>. QED
  BY <1>1, <1>2, <1>3, MakersFinite

LEMMA MadeStep == SchedulerTypeOK /\ SchedulerTypeOK' /\ MadeBounded /\ [Next]_vars => MadeBounded'
<1> SUFFICES ASSUME SchedulerTypeOK, SchedulerTypeOK', MadeBounded, [Next]_vars PROVE MadeBounded'
  OBVIOUS
<1>0. \A e \in Domains : /\ open[e] \in Nat /\ reopened[e] \in Nat
                         /\ open'[e] \in Nat /\ reopened'[e] \in Nat
  BY DEF SchedulerTypeOK
<1>1. ASSUME NEW s \in Schedulers, Discover(s) PROVE MadeBounded'
  <2>1. \A e : Makers(e)' \subseteq Makers(e)
    BY <1>1 DEF Discover, Makers, SchedulerTypeOK
  <2>2. \A e : Cardinality(Makers(e)') <= Cardinality(Makers(e))
               /\ Cardinality(Makers(e)') \in Nat /\ Cardinality(Makers(e)) \in Nat
    BY <2>1, MakersFinite, FS_Subset, FS_CardinalityType
  <2>. QED
    BY <1>0, <1>1, <2>2, MakersFinite DEF MadeBounded, Discover, rows
<1>2. ASSUME NEW s \in Schedulers, Lookup(s) PROVE MadeBounded'
  <2>1. PICK d \in Domains, t \in TickType :
          /\ tick' = [tick EXCEPT ![s] = t]
          /\ t.made \subseteq tick[s].made \cup IF open[d] = 0 THEN {d} ELSE {}
    BY <1>2, LookupTick
  <2>2. UNCHANGED <<open, reopened>>
    BY <1>2 DEF Lookup, rows
  <2> SUFFICES ASSUME NEW e \in Domains
               PROVE  open[e] + Cardinality(Makers(e)') <= Cardinality(Schedulers) + reopened[e]
    BY <2>2 DEF MadeBounded
  <2>4. CASE e = d /\ open[d] = 0
    <3>1. /\ Makers(e)' \subseteq Schedulers
          /\ IsFiniteSet(Schedulers)
      BY FiniteSystem DEF Makers
    <3>2. Cardinality(Makers(e)') <= Cardinality(Schedulers)
          /\ Cardinality(Makers(e)') \in Nat /\ Cardinality(Schedulers) \in Nat
      BY <3>1, FS_Subset, FS_CardinalityType
    <3>. QED
      BY <1>0, <2>4, <3>2
  <2>5. CASE ~(e = d /\ open[d] = 0)
    <3>1. \A q \in Schedulers : e \in tick'[q].made => e \in tick[q].made
      BY <2>1, <2>5 DEF SchedulerTypeOK
    <3>2. Makers(e)' \subseteq Makers(e)
      BY <3>1 DEF Makers
    <3>3. Cardinality(Makers(e)') <= Cardinality(Makers(e))
          /\ Cardinality(Makers(e)') \in Nat /\ Cardinality(Makers(e)) \in Nat
      BY <3>2, MakersFinite, FS_Subset, FS_CardinalityType
    <3>. QED
      BY <1>0, <3>3, MakersFinite DEF MadeBounded
  <2>. QED
    BY <2>4, <2>5
<1>3. ASSUME NEW s \in Schedulers, Commit(s) PROVE MadeBounded'
  <2> SUFFICES ASSUME NEW e \in Domains
               PROVE  open'[e] + Cardinality(Makers(e)') <= Cardinality(Schedulers) + reopened'[e]
    BY DEF MadeBounded
  <2>1. tick' = [tick EXCEPT ![s] = NoTick]
    BY <1>3 DEF Commit
  <2>2. /\ open'[e] = IF e \in tick[s].made THEN open[e] + 1 ELSE open[e]
        /\ reopened'[e] = reopened[e]
    BY <1>3 DEF Commit, SchedulerTypeOK
  <2>3. open[e] + Cardinality(Makers(e)) <= Cardinality(Schedulers) + reopened[e]
    BY DEF MadeBounded
  <2>4. /\ e \in tick[s].made => Cardinality(Makers(e)') = Cardinality(Makers(e)) - 1
        /\ e \notin tick[s].made => Makers(e)' = Makers(e)
    BY <2>1, MakersOfEnded
  <2>5. Cardinality(Makers(e)) \in Nat /\ Cardinality(Schedulers) \in Nat
    BY MakersFinite
  <2>6. CASE e \in tick[s].made
    BY <1>0, <2>2, <2>3, <2>4, <2>5, <2>6
  <2>7. CASE e \notin tick[s].made
    BY <1>0, <2>2, <2>3, <2>4, <2>5, <2>7
  <2>. QED
    BY <2>6, <2>7
<1>4. ASSUME NEW s \in Schedulers, Fail(s) PROVE MadeBounded'
  <2> SUFFICES ASSUME NEW e \in Domains
               PROVE  open[e] + Cardinality(Makers(e)') <= Cardinality(Schedulers) + reopened[e]
    BY <1>4 DEF MadeBounded, Fail, rows
  <2>1. tick' = [tick EXCEPT ![s] = NoTick]
    BY <1>4 DEF Fail
  <2>2. open[e] + Cardinality(Makers(e)) <= Cardinality(Schedulers) + reopened[e]
    BY DEF MadeBounded
  <2>3. Cardinality(Makers(e)') <= Cardinality(Makers(e)) /\ Cardinality(Makers(e)') \in Nat
    BY <2>1, MakersOfEnded
  <2>. QED
    BY <1>0, <2>2, <2>3, MakersFinite
<1>5. ASSUME NEW d \in Domains, BecomesDue(d) PROVE MadeBounded'
  BY <1>0, <1>5, MadeKept DEF BecomesDue
<1>6. ASSUME NEW d \in Domains, EndTask(d) PROVE MadeBounded'
  <2>1. \A e \in Domains : open'[e] <= open[e] /\ reopened'[e] = reopened[e]
    BY <1>0, <1>6 DEF EndTask, SchedulerTypeOK
  <2>. QED
    BY <1>0, <1>6, <2>1, MadeKept DEF EndTask
<1>7. ASSUME NEW d \in Domains, Reopen(d) PROVE MadeBounded'
  <2>1. \A e \in Domains : open'[e] - reopened'[e] = open[e] - reopened[e]
    BY <1>0, <1>7 DEF Reopen, SchedulerTypeOK
  <2>. QED
    BY <1>0, <1>7, <2>1, MadeKept DEF Reopen
<1>8. ASSUME NEW d \in Domains, Reactivate(d) PROVE MadeBounded'
  BY <1>0, <1>8, MadeKept DEF Reactivate
<1>9. ASSUME NEW d \in Domains, EndOther(d) \/ Strand(d) PROVE MadeBounded'
  BY <1>0, <1>9, MadeKept DEF EndOther, Strand
<1>10. CASE UNCHANGED vars
  BY <1>0, <1>10, MadeKept DEF vars, rows
<1>. QED
  BY <1>1, <1>2, <1>3, <1>4, <1>5, <1>6, <1>7, <1>8, <1>9, <1>10 DEF Next, Tick

\* However ticks interleave, fail and repeat, a domain has at most as many open
\* refresh tasks as there are schedulers, and one more for each reopening.
THEOREM RefreshBounded == Spec => []DuplicatesBounded
<1>1. SchedulerTypeOK /\ MadeBounded => DuplicatesBounded
  <2> SUFFICES ASSUME SchedulerTypeOK, MadeBounded, NEW d \in Domains
               PROVE  open[d] <= Cardinality(Schedulers) + reopened[d]
    BY DEF DuplicatesBounded
  <2>1. open[d] \in Nat /\ reopened[d] \in Nat
    BY DEF SchedulerTypeOK
  <2>2. open[d] + Cardinality(Makers(d)) <= Cardinality(Schedulers) + reopened[d]
    BY DEF MadeBounded
  <2>. QED
    BY <2>1, <2>2, MakersFinite
<1>. QED
  BY <1>1, MadeInit, MadeStep, TypeCorrect, PTL DEF Spec
=============================================================================
