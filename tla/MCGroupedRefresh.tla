-------------------------- MODULE MCGroupedRefresh --------------------------
EXTENDS GroupedRefresh

CONSTANTS r1, r2, r3, qa, qb

Nothing == <<"no rows", 0>>

=============================================================================
