---------------------------- MODULE MCActivation ----------------------------
EXTENDS Activation, TLC

CONSTANTS p1, p2, p3, p4, a, b

Issues(kind, r) == [kind |-> kind, release |-> r, bound |-> TRUE, safe |-> FALSE]

Unbound(kind, r) == [Issues(kind, r) EXCEPT !.bound = FALSE]

Safely(kind, r) == [Issues(kind, r) EXCEPT !.safe = TRUE]

\* Two releases are activated beside the launch of one of them.
MCUpgrade == p1 :> Issues("activate", a) @@ p2 :> Issues("activate", b) @@ p3 :> Issues("launch", a)

\* A release is activated beside a rollback and a purge.
MCPurge == p1 :> Issues("activate", a) @@ p2 :> Issues("rollback", b) @@ p3 :> Issues("purge", a)

\* A release is launched beside an unbound rollback and an uninstallation.
MCUninstall == p1 :> Issues("launch", a) @@ p2 :> Unbound("rollback", b) @@ p3 :> Issues("uninstall", b)

\* A release is activated until it succeeds.
MCRetry == p1 :> Issues("activate", a) @@ p2 :> Issues("launch", a) @@ p3 :> Safely("activate", a)

\* A release is launched until it succeeds, beside a rollback to it.
MCRelaunch == p1 :> Issues("activate", a) @@ p2 :> Issues("rollback", a) @@ p3 :> Safely("launch", a)

MCCommands == {MCUpgrade, MCPurge, MCUninstall, MCRetry, MCRelaunch}

\* Four commands on one release, one of which may die.
MCOwners ==
  {p1 :> Issues("activate", a) @@ p2 :> Safely("activate", a)
   @@ p3 :> Safely("activate", a) @@ p4 :> Safely("activate", a)}
=============================================================================
