----------------------------- MODULE DomainLock -----------------------------
(***************************************************************************)
(* The distributed lock under which a worker processes a domain            *)
(* (domain_lock.py): SET NX PX with a fresh token to acquire, a script     *)
(* that compares the token and deletes to release, and the time to live    *)
(* that frees a key nobody deletes.  The holder does not watch that time:  *)
(* it may go on processing after its key is gone.                          *)
(***************************************************************************)
CONSTANTS
    Workers,     \* worker coroutines of all instances, each with one task
    Domains,     \* normalized domains, one Redis key each
    NoDomain,    \* a worker outside DomainLock.acquire
    Tokens,      \* what uuid4 draws
    NoToken      \* no key

ASSUME NoDomainAssumption == NoDomain \notin Domains
ASSUME NoTokenAssumption == NoToken \notin Tokens
\* A worker is not one of the two owners that are no worker.
ASSUME OwnerAssumption == {"nobody", "stranded"} \cap Workers = {}

VARIABLES
    key,     \* key[d]: the token stored under lock:domain:d
    holds,   \* holds[w]: the domain w believes it has locked
    token,   \* token[w]: the token w will release with
    lapsed   \* history: the key of w has run out while w was processing

vars == <<key, holds, token, lapsed>>

Init ==
    /\ key = [d \in Domains |-> NoToken]
    /\ holds = [w \in Workers |-> NoDomain]
    /\ token = [w \in Workers |-> NoToken]
    /\ lapsed = [w \in Workers |-> FALSE]

\* uuid4 repeats no token that Redis or a worker still has. A token that neither
\* has any more could be any other: the set of tokens need not be infinite.
Fresh == {k \in Tokens : /\ \A d \in Domains : key[d] # k
                         /\ \A w \in Workers : token[w] # k}

-----------------------------------------------------------------------------
\* Mistake: SET without NX.
AcquireAlways(w, d) ==
    /\ holds[w] = NoDomain
    /\ \E k \in Fresh : /\ key' = [key EXCEPT ![d] = k]
                       /\ token' = [token EXCEPT ![w] = k]
    /\ holds' = [holds EXCEPT ![w] = d]
    /\ UNCHANGED lapsed

\* SET NX finds no key and the reply arrives. (A SET that finds a key, or that
\* never reaches Redis, changes nothing: the context is entered not acquired.)
Acquire(w, d) ==
    /\ holds[w] = NoDomain
    /\ key[d] = NoToken
    /\ \E k \in Fresh : /\ key' = [key EXCEPT ![d] = k]
                       /\ token' = [token EXCEPT ![w] = k]
    /\ holds' = [holds EXCEPT ![w] = d]
    /\ UNCHANGED lapsed

\* SET NX finds no key but its reply is lost: the exception leaves acquired
\* False, so nothing will release this key.
AcquireReplyLost(w, d) ==
    /\ holds[w] = NoDomain
    /\ key[d] = NoToken
    /\ \E k \in Fresh : key' = [key EXCEPT ![d] = k]
    /\ UNCHANGED <<holds, token, lapsed>>

\* w leaves the acquire context: its token is a local variable of acquire.
Leave(w) ==
    /\ holds[w] # NoDomain
    /\ holds' = [holds EXCEPT ![w] = NoDomain]
    /\ token' = [token EXCEPT ![w] = NoToken]
    /\ lapsed' = [lapsed EXCEPT ![w] = FALSE]

\* Mistakes: DEL without the comparison; a key overwritten, not deleted.
ReleaseBlindly(w) ==
    /\ Leave(w)
    /\ key' = [key EXCEPT ![holds[w]] = NoToken]
ReleaseByDomain(w) ==
    /\ Leave(w)
    /\ key' = [key EXCEPT ![holds[w]] = IF @ = token[w] THEN NoDomain ELSE @]

\* The finally clause of acquire: compare and delete.
Release(w) ==
    /\ Leave(w)
    /\ key' = [key EXCEPT ![holds[w]] = IF @ = token[w] THEN NoToken ELSE @]

\* The script does not reach Redis and release swallows the exception, or the
\* process of w dies: w is out, its key stays.
Abandon(w) == Leave(w) /\ UNCHANGED key

\* The time to live of the key runs out, whatever its holder is doing.
Expire(d) ==
    /\ key[d] # NoToken
    /\ key' = [key EXCEPT ![d] = NoToken]
    /\ lapsed' = [w \in Workers |->
                    lapsed[w] \/ (holds[w] = d /\ token[w] = key[d])]
    /\ UNCHANGED <<holds, token>>

Next == \/ \E w \in Workers, d \in Domains : Acquire(w, d) \/ AcquireReplyLost(w, d)
        \/ \E w \in Workers : Release(w) \/ Abandon(w)
        \/ \E d \in Domains : Expire(d)

Spec == Init /\ [][Next]_vars

-----------------------------------------------------------------------------
\* Every variable keeps to its type.
LockTypeOK ==
    /\ key \in [Domains -> Tokens \cup {NoToken}]
    /\ holds \in [Workers -> Domains \cup {NoDomain}]
    /\ token \in [Workers -> Tokens \cup {NoToken}]
    /\ lapsed \in [Workers -> BOOLEAN]

\* A worker loses its key to the time to live only: no release, late or
\* repeated, by a worker whose own key has run out deletes another's key.
HeldUntilLapsed ==
    \A w \in Workers :
      holds[w] # NoDomain /\ ~lapsed[w] => key[holds[w]] = token[w]

\* Of the workers inside the lock of a domain at most one has not outlived its
\* key.
ExclusiveUntilLapsed ==
    \A v, w \in Workers :
      /\ holds[v] # NoDomain /\ holds[v] = holds[w]
      /\ ~lapsed[v] /\ ~lapsed[w]
      => v = w

\* Locks on a domain are those of DomainMutex: its owner is the worker inside
\* whose token is still the key's.
Owns(w, d) == holds[w] = d /\ key[d] = token[w]

Owner(d) == IF key[d] = NoToken THEN "nobody"
            ELSE IF \E w \in Workers : Owns(w, d) THEN CHOOSE w \in Workers : Owns(w, d)
            ELSE "stranded"

Mutex == INSTANCE DomainMutex WITH Nobody <- "nobody", Stranded <- "stranded",
                                   owner <- [d \in Domains |-> Owner(d)]

ImplementsMutex == Mutex!Spec

=============================================================================
