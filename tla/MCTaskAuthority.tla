-------------------------- MODULE MCTaskAuthority ---------------------------
\* Two processes over one run.
EXTENDS TaskAuthority

CONSTANTS p1, p2

=============================================================================
