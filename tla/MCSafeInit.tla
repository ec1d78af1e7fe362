----------------------------- MODULE MCSafeInit -----------------------------
(* Three canonical files, of which the first and the last may exist.      *)
EXTENDS SafeInit

MCUpdatable == {1, 3}

=============================================================================
