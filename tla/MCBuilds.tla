------------------------------ MODULE MCBuilds ------------------------------
EXTENDS Builds
=============================================================================
