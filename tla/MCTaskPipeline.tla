--------------------------- MODULE MCTaskPipeline ---------------------------
EXTENDS TaskPipeline, TLC
CONSTANTS i1, i2, w1, w2, t1, t2, j1, d1

OneHost == [w \in Workers |-> i1]
TwoHosts == [w \in Workers |-> IF w = w1 THEN i1 ELSE i2]
OneJob == [t \in Tasks |-> j1]
NoJobs == [t \in Tasks |-> NoJob]
OneDomain == [t \in Tasks |-> d1]

\* Workers of one instance are alike, and so are the tasks of a job.
Alike == Permutations(Workers) \cup Permutations(Tasks)

\* Two instances are alike together with their workers.
Swapped == {p \in Permutations(Instances \cup Workers) :
              \A w \in Workers : p[w] \in Workers /\ p[Host[w]] = Host[p[w]]}
=============================================================================
