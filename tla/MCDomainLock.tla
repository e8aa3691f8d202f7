---------------------------- MODULE MCDomainLock ----------------------------
EXTENDS DomainLock
CONSTANTS w1, w2, w3, d1, d2
=============================================================================
