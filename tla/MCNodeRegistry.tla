--------------------------- MODULE MCNodeRegistry ---------------------------
EXTENDS NodeRegistry
=============================================================================
