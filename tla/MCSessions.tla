----------------------------- MODULE MCSessions -----------------------------
EXTENDS Sessions, TLC

\* The processes are interchangeable.
ProcSymmetry == Permutations(Procs)

=============================================================================
