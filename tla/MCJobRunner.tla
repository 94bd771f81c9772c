---------------------------- MODULE MCJobRunner ----------------------------
EXTENDS JobRunner, TLC

\* Jobs, clients and stop calls are interchangeable, dry jobs aside.
Symmetry == Permutations(Jobs \ DryJobs) \cup Permutations(Clients) \cup Permutations(Stoppers)
=============================================================================
