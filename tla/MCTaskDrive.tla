----------------------------- MODULE MCTaskDrive -----------------------------
EXTENDS TaskDrive, TLC

CONSTANTS p1, p2, p3, p4, p5, r1, r2

Does(kind, r) == [kind |-> kind, run |-> r]

\* A run is started, resumed, cancelled and reviewed while another one wants to start.
MCEveryCommand ==
  p1 :> Does("start", r1) @@ p2 :> Does("resume", r1) @@ p3 :> Does("cancel", r1)
  @@ p4 :> Does("start", r2) @@ p5 :> Does("review", r1)

\* A run is started, resumed twice and cancelled while another one wants to start.
MCRivals ==
  p1 :> Does("start", r1) @@ p2 :> Does("resume", r1) @@ p3 :> Does("cancel", r1)
  @@ p4 :> Does("start", r2) @@ p5 :> Does("resume", r1)

\* A run is started, resumed and reviewed.
MCReviewed == p1 :> Does("start", r1) @@ p2 :> Does("resume", r1) @@ p3 :> Does("review", r1)
=============================================================================
