--------------------------- MODULE MCTaskAttempts ---------------------------
(* Model values, and policies for TLC.                                    *)
EXTENDS TaskAttempts

CONSTANTS c1, c2

Undeclared == [declared |-> FALSE, max |-> 1, escalate |-> 1]

Declared(max, escalate) == [declared |-> TRUE, max |-> max, escalate |-> escalate]

\* No policy, one that escalates early, and one that escalates when exhausted.
MCPolicies == {Undeclared, Declared(2, 1), Declared(2, 2)}

=============================================================================
