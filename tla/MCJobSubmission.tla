--------------------------- MODULE MCJobSubmission ---------------------------
EXTENDS JobSubmission
CONSTANTS p1, p2, p3, r1, r2, r3, r4, k1, d1, d2, d3

\* r2 repeats r1; r3 uses the key for something else, d3 being no valid name; r4
\* has no key and wants the same domains, one of them twice.
OfKey1 == [r \in Requests |-> IF r = r4 THEN NoKey ELSE k1]
Valid == [r \in Requests |-> IF r = r3 THEN {d1} ELSE {d1, d2}]
Invalid == [r \in Requests |-> IF r = r3 THEN {d3} ELSE {}]
Hash == [r \in Requests |-> IF r = r3 THEN p2 ELSE IF r = r4 THEN p3 ELSE p1]
=============================================================================
