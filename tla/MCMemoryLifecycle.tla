-------------------------- MODULE MCMemoryLifecycle --------------------------
(* Scenes for TLC: three callers over three objects.                      *)
EXTENDS MemoryLifecycle

CONSTANTS p1, p2, p3

A(kind, object, other, quota) == [kind |-> kind, object |-> object, other |-> other, quota |-> quota]

Registration == A("register", 3, 1, 0)
Hold(object) == A("hold", object, 1, 0)
Reference == A("refer", 3, 2, 0)
Collection(quota) == A("collect", 1, 1, quota)
Invalidation == A("invalidate", 2, 1, 0)
Forget(object) == A("forget", object, 1, 0)
Promotion == A("promote", 1, 1, 0)

Played(a, b, c) == (p1 :> a) @@ (p2 :> b) @@ (p3 :> c)

Scene(calls, stored, roots, expired, flaky) ==
  [call |-> calls, stored |-> stored, roots |-> roots, expired |-> expired, keyed |-> {1, 3}, flaky |-> flaky]

\* A collection, a forget and every other call; two forgets of one object whose
\* key may fail to be destroyed; two registrations of one object, and its forget.
MCScenes ==
  {Scene(Played(Collection(quota), Forget(1), third), {1, 2}, roots, expired, TRUE) :
     quota \in {0, 1}, roots \in {{}, {3}}, expired \in {{}, {1}},
     third \in {Registration, Hold(1), Hold(2), Invalidation, Collection(1), Forget(2)}}
  \cup {Scene(Played(Collection(0), Reference, third), {1, 2, 3}, {3}, {1, 2}, FALSE) :
          third \in {Invalidation, Forget(2), Hold(1)}}
  \cup {Scene(Played(Forget(1), Forget(1), third), {1, 2}, {}, {}, TRUE) :
          third \in {Collection(1), Hold(1), Forget(1)}}
  \cup {Scene(Played(Registration, Registration, third), {1, 2}, {}, {}, TRUE) :
          third \in {Forget(3), Collection(0)}}
  \cup {Scene(Played(Promotion, Promotion, Registration), {}, {}, {}, FALSE)}

\* Two forgets of one object, and nothing else of note.
MCForgets == {Scene(Played(Forget(1), Forget(1), Hold(2)), {1, 2}, {}, {}, TRUE)}
=============================================================================
