------------------------- MODULE DomainLock_proofs -------------------------
(***************************************************************************)
(* Theorems about DomainLock, for any workers, domains and tokens.         *)
(***************************************************************************)
EXTENDS DomainLock, TLAPS

\* No token is in two places: not with two workers, not under two keys, and
\* under a key only if its worker is inside the lock of that very domain.
TokensApart ==
    /\ \A w \in Workers : holds[w] = NoDomain <=> token[w] = NoToken
    /\ \A v, w \in Workers : token[v] # NoToken /\ token[v] = token[w] => v = w
    /\ \A d, e \in Domains : key[d] # NoToken /\ key[d] = key[e] => d = e
    /\ \A w \in Workers, d \in Domains :
          key[d] # NoToken /\ key[d] = token[w] => holds[w] = d

\* The inductive invariant: HeldUntilLapsed alone does not survive a Release,
\* which must know that the token it compares is no one else's.
LockInv == LockTypeOK /\ TokensApart /\ HeldUntilLapsed

LEMMA InitLockInv == Init => LockInv
BY NoDomainAssumption, NoTokenAssumption
   DEF Init, LockInv, LockTypeOK, TokensApart, HeldUntilLapsed

LEMMA StepTypeOK == LockTypeOK /\ [Next]_vars => LockTypeOK'
<1> SUFFICES ASSUME LockTypeOK, [Next]_vars PROVE LockTypeOK'
  OBVIOUS
<1> USE NoDomainAssumption, NoTokenAssumption DEF LockTypeOK
<1>1. ASSUME NEW w \in Workers, NEW d \in Domains, Acquire(w, d) PROVE LockTypeOK'
  BY <1>1 DEF Acquire, Fresh
<1>2. ASSUME NEW w \in Workers, NEW d \in Domains, AcquireReplyLost(w, d) PROVE LockTypeOK'
  BY <1>2 DEF AcquireReplyLost, Fresh
<1>3. ASSUME NEW w \in Workers, Release(w) PROVE LockTypeOK'
  BY <1>3 DEF Release, Leave
<1>4. ASSUME NEW w \in Workers, Abandon(w) PROVE LockTypeOK'
  BY <1>4 DEF Abandon, Leave
<1>5. ASSUME NEW d \in Domains, Expire(d) PROVE LockTypeOK'
  BY <1>5 DEF Expire
<1>6. CASE UNCHANGED vars
  BY <1>6 DEF vars
<1>7. QED
  BY <1>1, <1>2, <1>3, <1>4, <1>5, <1>6 DEF Next

LEMMA StepLockInv == LockInv /\ [Next]_vars => LockInv'
<1> SUFFICES ASSUME LockInv, [Next]_vars PROVE LockInv'
  OBVIOUS
<1> USE NoDomainAssumption, NoTokenAssumption DEF LockInv
<1>0. LockTypeOK'
  BY StepTypeOK
<1>1. ASSUME NEW w \in Workers, NEW d \in Domains, Acquire(w, d)
      PROVE  TokensApart' /\ HeldUntilLapsed'
  <2>1. PICK k \in Fresh : /\ key' = [key EXCEPT ![d] = k]
                           /\ token' = [token EXCEPT ![w] = k]
    BY <1>1 DEF Acquire
  <2>2. /\ k \in Tokens /\ k # NoToken
        /\ \A e \in Domains : key[e] # k
        /\ \A v \in Workers : token[v] # k
    BY <2>1 DEF Fresh
  <2>3. TokensApart'
    BY <1>1, <2>1, <2>2 DEF Acquire, TokensApart, LockTypeOK
  <2>4. HeldUntilLapsed'
    BY <1>1, <2>1, <2>2 DEF Acquire, TokensApart, HeldUntilLapsed, LockTypeOK
  <2>5. QED
    BY <2>3, <2>4
<1>2. ASSUME NEW w \in Workers, NEW d \in Domains, AcquireReplyLost(w, d)
      PROVE  TokensApart' /\ HeldUntilLapsed'
  <2>1. PICK k \in Fresh : key' = [key EXCEPT ![d] = k]
    BY <1>2 DEF AcquireReplyLost
  <2>2. /\ k \in Tokens /\ k # NoToken
        /\ \A e \in Domains : key[e] # k
        /\ \A v \in Workers : token[v] # k
    BY <2>1 DEF Fresh
  <2>3. TokensApart'
    BY <1>2, <2>1, <2>2 DEF AcquireReplyLost, TokensApart, LockTypeOK
  <2>4. HeldUntilLapsed'
    BY <1>2, <2>1, <2>2 DEF AcquireReplyLost, TokensApart, HeldUntilLapsed, LockTypeOK
  <2>5. QED
    BY <2>3, <2>4
<1>3. ASSUME NEW w \in Workers, Release(w) PROVE TokensApart' /\ HeldUntilLapsed'
  <2>1. TokensApart'
    BY <1>3 DEF Release, Leave, TokensApart, LockTypeOK
  <2>2. HeldUntilLapsed'
    BY <1>3 DEF Release, Leave, TokensApart, HeldUntilLapsed, LockTypeOK
  <2>3. QED
    BY <2>1, <2>2
<1>4. ASSUME NEW w \in Workers, Abandon(w) PROVE TokensApart' /\ HeldUntilLapsed'
  BY <1>4, ZenonT(60) DEF Abandon, Leave, TokensApart, HeldUntilLapsed, LockTypeOK
<1>5. ASSUME NEW d \in Domains, Expire(d) PROVE TokensApart' /\ HeldUntilLapsed'
  BY <1>5, ZenonT(60) DEF Expire, TokensApart, HeldUntilLapsed, LockTypeOK
<1>6. CASE UNCHANGED vars
  BY <1>6 DEF vars, TokensApart, HeldUntilLapsed, LockTypeOK
<1>7. QED
  BY <1>0, <1>1, <1>2, <1>3, <1>4, <1>5, <1>6 DEF Next

LEMMA LockInvariant == Spec => []LockInv
BY InitLockInv, StepLockInv, PTL DEF Spec

\* Every variable of the lock keeps its type, whatever domain_lock.py does with
\* keys and tokens.
THEOREM TypeCorrect == Spec => []LockTypeOK
BY LockInvariant, PTL DEF LockInv

\* The compare-and-delete of release never deletes another worker's key: a
\* worker inside the lock has its key until the time to live runs out.
THEOREM ReleaseSafe == Spec => []HeldUntilLapsed
BY LockInvariant, PTL DEF LockInv

\* SET NX and the fresh token keep two workers that have not outlived their
\* keys from being inside the lock of one domain.
THEOREM ExclusionUntilLapse == Spec => []ExclusiveUntilLapsed
<1>1. LockInv => ExclusiveUntilLapsed
  BY DEF LockInv, LockTypeOK, TokensApart, HeldUntilLapsed, ExclusiveUntilLapsed
<1>2. QED
  BY LockInvariant, <1>1, PTL

-----------------------------------------------------------------------------
(***************************************************************************)
(* DomainLock implements DomainMutex.                                      *)
(***************************************************************************)

\* The three cases of Owner; in the second the CHOOSE has one candidate.
OwnerCases ==
    \A d \in Domains :
      /\ key[d] = NoToken => Owner(d) = "nobody"
      /\ \A w \in Workers : key[d] # NoToken /\ Owns(w, d) => Owner(d) = w
      /\ key[d] # NoToken /\ (\A w \in Workers : ~Owns(w, d)) => Owner(d) = "stranded"

LEMMA OwnerIs == LockInv => OwnerCases
<1> SUFFICES ASSUME LockInv, NEW d \in Domains
             PROVE  /\ key[d] = NoToken => Owner(d) = "nobody"
                    /\ \A w \in Workers : key[d] # NoToken /\ Owns(w, d) => Owner(d) = w
                    /\ key[d] # NoToken /\ (\A w \in Workers : ~Owns(w, d))
                         => Owner(d) = "stranded"
  BY DEF OwnerCases
<1>1. ASSUME NEW w \in Workers, key[d] # NoToken, Owns(w, d) PROVE Owner(d) = w
  <2>1. ASSUME NEW v \in Workers, Owns(v, d) PROVE v = w
    <3>1. token[v] # NoToken /\ token[v] = token[w]
      BY <1>1, <2>1 DEF Owns
    <3>2. QED
      BY <3>1 DEF LockInv, TokensApart
  <2>2. (CHOOSE v \in Workers : Owns(v, d)) = w
    BY <1>1, <2>1
  <2>3. QED
    BY <1>1, <2>2 DEF Owner
<1>2. QED
  BY <1>1 DEF Owner

LEMMA InitMutex == Init => Mutex!Init
BY DEF Init, Mutex!Init, Owner

LEMMA StepMutex ==
    LockInv /\ LockInv' /\ [Next]_vars => [Mutex!Next]_[d \in Domains |-> Owner(d)]
<1> SUFFICES ASSUME LockInv, LockInv', [Next]_vars
             PROVE  [Mutex!Next]_[d \in Domains |-> Owner(d)]
  OBVIOUS
<1> DEFINE owner == [d \in Domains |-> Owner(d)]
<1>1. OwnerCases /\ OwnerCases'
  BY OwnerIs, PTL
<1> USE NoDomainAssumption, NoTokenAssumption
\* What one domain sees of a step: nothing, unless its own key or owner moved.
<1>2. ASSUME NEW e \in Domains, key'[e] = key[e],
             \A w \in Workers : Owns(w, e)' <=> Owns(w, e)
      PROVE  Owner(e)' = Owner(e)
  BY <1>1, <1>2 DEF OwnerCases
<1>3. ASSUME NEW w \in Workers, NEW d \in Domains, Acquire(w, d) PROVE Mutex!Take(w, d)
  <2>1. PICK k \in Fresh : /\ key' = [key EXCEPT ![d] = k]
                           /\ token' = [token EXCEPT ![w] = k]
    BY <1>3 DEF Acquire
  <2>2. k # NoToken
    BY <2>1 DEF Fresh
  <2>3. Owner(d) = "nobody"
    BY <1>1, <1>3 DEF Acquire, OwnerCases
  <2>4. Owner(d)' = w
    <3>1. key'[d] = k /\ Owns(w, d)'
      BY <1>3, <2>1 DEF Acquire, Owns, LockInv, LockTypeOK
    <3>2. QED
      BY <1>1, <2>2, <3>1 DEF OwnerCases
  <2>5. ASSUME NEW e \in Domains, e # d PROVE Owner(e)' = Owner(e)
    <3>1. key'[e] = key[e]
      BY <2>1, <2>5 DEF LockInv, LockTypeOK
    <3>2. \A v \in Workers : Owns(v, e)' <=> Owns(v, e)
      BY <1>3, <2>1, <2>5, <3>1 DEF Acquire, Owns, LockInv, LockTypeOK
    <3>3. QED
      BY <1>2, <3>1, <3>2
  <2>6. \A e \in Domains : Owner(e) # w
    BY <1>1, <1>3, OwnerAssumption DEF OwnerCases, Acquire, Owns
  <2>7. QED
    BY <2>3, <2>4, <2>5, <2>6 DEF Mutex!Take
<1>4. ASSUME NEW w \in Workers, NEW d \in Domains, AcquireReplyLost(w, d)
      PROVE  Mutex!Strand(d)
  <2>1. PICK k \in Fresh : key' = [key EXCEPT ![d] = k]
    BY <1>4 DEF AcquireReplyLost
  <2>2. k # NoToken /\ \A v \in Workers : token[v] # k
    BY <2>1 DEF Fresh
  <2>3. Owner(d)' = "stranded"
    <3>1. key'[d] = k /\ \A v \in Workers : ~Owns(v, d)'
      BY <1>4, <2>1, <2>2 DEF AcquireReplyLost, Owns, LockInv, LockTypeOK
    <3>2. QED
      BY <1>1, <2>2, <3>1 DEF OwnerCases
  <2>4. ASSUME NEW e \in Domains, e # d PROVE Owner(e)' = Owner(e)
    <3>1. key'[e] = key[e]
      BY <2>1, <2>4 DEF LockInv, LockTypeOK
    <3>2. \A v \in Workers : Owns(v, e)' <=> Owns(v, e)
      BY <1>4, <3>1 DEF AcquireReplyLost, Owns
    <3>3. QED
      BY <1>2, <3>1, <3>2
  <2>5. QED
    BY <2>3, <2>4 DEF Mutex!Strand
<1>5. ASSUME NEW w \in Workers, Leave(w), NEW e \in Domains, e # holds[w],
             key'[e] = key[e]
      PROVE  Owner(e)' = Owner(e)
  <2>1. \A v \in Workers : Owns(v, e)' <=> Owns(v, e)
    BY <1>5 DEF Leave, Owns, LockInv, LockTypeOK
  <2>2. QED
    BY <1>2, <1>5, <2>1
<1>6. ASSUME NEW w \in Workers, Release(w)
      PROVE  Mutex!Free(holds[w]) \/ UNCHANGED owner
  <2>0. PICK d \in Domains : d = holds[w]
    BY <1>6 DEF Release, Leave, LockInv, LockTypeOK
  <2>1. d = holds[w] /\ Leave(w)
    BY <1>6, <2>0 DEF Release
  <2>2. \A e \in Domains : e # d => Owner(e)' = Owner(e)
    BY <1>5, <1>6, <2>1 DEF Release, LockInv, LockTypeOK
  <2>3. CASE key[d] = token[w]
    <3>1. Owner(d) = w
      BY <1>1, <2>1, <2>3 DEF OwnerCases, Owns, LockInv, TokensApart, Leave
    <3>2. Owner(d)' = "nobody"
      BY <1>1, <1>6, <2>1, <2>3 DEF OwnerCases, Release, LockInv, LockTypeOK
    <3>3. Mutex!Free(d)
      BY <2>1, <2>2, <3>1, <3>2, OwnerAssumption DEF Mutex!Free
    <3>4. QED
      BY <2>1, <3>3
  <2>4. CASE key[d] # token[w]
    <3>1. key'[d] = key[d]
      BY <1>6, <2>1, <2>4 DEF Release, LockInv, LockTypeOK
    <3>2. \A v \in Workers : Owns(v, d)' <=> Owns(v, d)
      BY <2>1, <2>4, <3>1 DEF Leave, Owns, LockInv, LockTypeOK
    <3>3. Owner(d)' = Owner(d)
      BY <1>2, <2>1, <3>1, <3>2
    <3>4. QED
      BY <2>2, <3>3
  <2>5. QED
    BY <2>3, <2>4
<1>7. ASSUME NEW w \in Workers, Abandon(w)
      PROVE  Mutex!Strand(holds[w]) \/ UNCHANGED owner
  <2>0. PICK d \in Domains : d = holds[w]
    BY <1>7 DEF Abandon, Leave, LockInv, LockTypeOK
  <2>1. d = holds[w] /\ Leave(w) /\ key' = key
    BY <1>7, <2>0 DEF Abandon
  <2>2. \A e \in Domains : e # d => Owner(e)' = Owner(e)
    BY <1>5, <2>1
  <2>3. CASE Owns(w, d)
    <3>1. key[d] # NoToken
      BY <2>1, <2>3 DEF Owns, LockInv, TokensApart
    <3>2. \A v \in Workers : ~Owns(v, d)'
      BY <2>1, <2>3, <3>1 DEF Leave, Owns, LockInv, LockTypeOK, TokensApart
    <3>3. Owner(d)' = "stranded"
      BY <1>1, <2>1, <3>1, <3>2 DEF OwnerCases
    <3>4. QED
      BY <2>1, <2>2, <3>3 DEF Mutex!Strand
  <2>4. CASE ~Owns(w, d)
    <3>1. \A v \in Workers : Owns(v, d)' <=> Owns(v, d)
      BY <2>1, <2>4 DEF Leave, Owns, LockInv, LockTypeOK
    <3>2. Owner(d)' = Owner(d)
      BY <1>2, <2>1, <3>1
    <3>3. QED
      BY <2>2, <3>2
  <2>5. QED
    BY <2>3, <2>4
<1>8. ASSUME NEW d \in Domains, Expire(d) PROVE Mutex!Free(d)
  <2>1. Owner(d) # "nobody"
    <3>1. CASE \E w \in Workers : Owns(w, d)
      BY <1>1, <1>8, <3>1, OwnerAssumption DEF OwnerCases, Expire
    <3>2. CASE \A w \in Workers : ~Owns(w, d)
      BY <1>1, <1>8, <3>2 DEF OwnerCases, Expire
    <3>3. QED
      BY <3>1, <3>2
  <2>2. Owner(d)' = "nobody"
    BY <1>1, <1>8 DEF OwnerCases, Expire, LockInv, LockTypeOK
  <2>3. ASSUME NEW e \in Domains, e # d PROVE Owner(e)' = Owner(e)
    <3>1. key'[e] = key[e]
      BY <1>8, <2>3 DEF Expire, LockInv, LockTypeOK
    <3>2. \A v \in Workers : Owns(v, e)' <=> Owns(v, e)
      BY <1>8, <3>1 DEF Expire, Owns
    <3>3. QED
      BY <1>2, <3>1, <3>2
  <2>4. QED
    BY <2>1, <2>2, <2>3 DEF Mutex!Free
<1>9. CASE UNCHANGED vars
  BY <1>2, <1>9 DEF vars, Owns
<1>10. ASSUME NEW w \in Workers, Leave(w) PROVE holds[w] \in Domains
  BY <1>10 DEF Leave, LockInv, LockTypeOK
<1>11. QED
  BY <1>3, <1>4, <1>6, <1>7, <1>8, <1>9, <1>10 DEF Next, Release, Abandon, Mutex!Next

\* The Redis lock is the mutex of DomainMutex: a domain passes from one worker
\* to another only by way of being free.
THEOREM LockImplementsMutex == Spec => ImplementsMutex
<1>1. LockInv /\ LockInv' /\ [Next]_vars => [Mutex!Next]_[d \in Domains |-> Owner(d)]
  BY StepMutex
<1>2. QED
  BY LockInvariant, InitMutex, <1>1, PTL DEF Spec, ImplementsMutex, Mutex!Spec
=============================================================================
