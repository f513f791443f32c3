------------------------------ MODULE MCTenancy ------------------------------
EXTENDS Tenancy, TLC

\* Users, with the organizations named after them, and requests are interchangeable.
MCSymmetry == Permutations(Users) \cup Permutations(Requests)

=============================================================================
