--------------------------- MODULE MCSharedPlaces ---------------------------
(***************************************************************************)
(* What is shared outside the runtime store's records, for TLC: the lease  *)
(* and the claim on work, the canonical files of a workspace, and an       *)
(* install root.  A behaviour plays one of the three parts; the others     *)
(* stay in one of their initial states.                                    *)
(***************************************************************************)
EXTENDS WorkClaims, MCSafeInit, MCActivation

CONSTANTS s1, s2, s3, r1, r2, r3, m1, m2

VARIABLE part

\* Two runs share a machine, a third one works on another.
MCOwner == s1 :> r1 @@ s2 :> r2 @@ s3 :> r3
MCMachine == s1 :> m1 @@ s2 :> m1 @@ s3 :> m2

PlacesInit ==
  /\ part \in {"claims", "canonical", "installed"}
  /\ ClaimsInit
  /\ FilesInit
  /\ Init
  /\ part # "canonical" => file = [t \in Targets |-> "absent"]
  /\ part # "installed" => command = MCUpgrade /\ verified = NoRecord

ClaimsStep == part = "claims" /\ ClaimsNext /\ UNCHANGED <<part, fileVars, vars>>

CanonicalStep == part = "canonical" /\ FilesNext /\ UNCHANGED <<part, claimVars, vars>>

InstalledStep == part = "installed" /\ Next /\ UNCHANGED <<part, claimVars, fileVars>>

PlacesSpec ==
  PlacesInit /\ [][ClaimsStep \/ CanonicalStep \/ InstalledStep]_<<part, claimVars, fileVars, vars>>
=============================================================================
