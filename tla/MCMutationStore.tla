-------------------------- MODULE MCMutationStore --------------------------
EXTENDS MutationStore

CONSTANTS a, b, c, x, y

MCInitialRows == {<< >>, <<[id |-> a, val |-> x], [id |-> b, val |-> y], [id |-> c, val |-> x]>>}
=============================================================================
