----------------------------- MODULE DomainMutex -----------------------------
(***************************************************************************)
(* What the Redis domain lock promises, without tokens, keys or replies: a *)
(* domain is with nobody, with one worker, or stranded (locked by a token  *)
(* that no worker still holds).  It never passes from one worker to        *)
(* another without having been free.                                       *)
(***************************************************************************)
CONSTANTS Workers, Domains, Nobody, Stranded

VARIABLE owner  \* owner[d]

Init == owner = [d \in Domains |-> Nobody]

Take(w, d) == /\ owner[d] = Nobody
              /\ \A e \in Domains : owner[e] # w
              /\ owner' = [owner EXCEPT ![d] = w]

\* The lock is taken for a worker that never learns of it, or is left behind
\* by the worker that had it.
Strand(d) == owner' = [owner EXCEPT ![d] = Stranded]

\* By its owner, or by the time to live.
Free(d) == /\ owner[d] # Nobody
           /\ owner' = [owner EXCEPT ![d] = Nobody]

Next == \E d \in Domains : \/ \E w \in Workers : Take(w, d)
                           \/ Strand(d)
                           \/ Free(d)

Spec == Init /\ [][Next]_owner
=============================================================================
