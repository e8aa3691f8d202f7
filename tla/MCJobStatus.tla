----------------------------- MODULE MCJobStatus -----------------------------
EXTENDS JobStatus
CONSTANTS w1, w2

\* create_job takes one time for all tasks of a job.
AtOnce == [t \in Tasks |-> 0]
Symmetry == Permutations(Workers)
=============================================================================
