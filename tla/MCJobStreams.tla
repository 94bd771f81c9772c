---------------------------- MODULE MCJobStreams ----------------------------
EXTENDS JobStreams, TLC

\* The dry jobs are interchangeable.
Symmetry == Permutations(DryJobs)
=============================================================================
