--------------------------- MODULE MCLoadBalancer ---------------------------
EXTENDS LoadBalancer, TLC

\* The two ports are interchangeable.
PortSymmetry == Permutations(Ports)
=============================================================================
