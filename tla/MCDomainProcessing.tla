------------------------- MODULE MCDomainProcessing -------------------------
EXTENDS DomainProcessing, TLC

\* Nothing tells workers, tokens or tasks apart.
Alike == Permutations(Workers) \cup Permutations(Tokens) \cup Permutations(Tasks)
=============================================================================
