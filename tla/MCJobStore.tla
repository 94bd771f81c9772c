----------------------------- MODULE MCJobStore -----------------------------
EXTENDS JobStore, TLC

\* Requests and job threads are interchangeable.
Symmetry == Permutations(Clients)
=============================================================================
