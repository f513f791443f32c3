------------------------- MODULE MCServiceInstances -------------------------
EXTENDS ServiceInstances

\* Two containers of one application.
MCAppOf == [c \in Containers |-> CHOOSE a \in Applications : TRUE]
=============================================================================
