----------------------------- MODULE MCGateway -----------------------------
EXTENDS Gateway

\* Every answer takes one unit of the byte bound.
UnitSize(k) == 1

\* Clients are interchangeable.
Permuted == Permutations(Clients)
=============================================================================
