----------------------------- MODULE XdsTracking -----------------------------
(***************************************************************************)
(* What the xDS client promises of the versions it declares: a version is  *)
(* declared to the server only at a moment when it is the one in force,    *)
(* and a resource may be forgotten at any time. Versions are natural       *)
(* numbers, 0 for a resource that is absent.                               *)
(***************************************************************************)
CONSTANT Resources
VARIABLES declared, inForce

TrackingInit ==
    /\ declared = [r \in Resources |-> 0]
    /\ inForce = [r \in Resources |-> 0]

\* The configuration in force changes, whatever was declared.
Change == inForce' # inForce /\ declared' = declared

\* Some versions are declared, as they are in force.
Declare ==
    /\ inForce' = inForce
    /\ DOMAIN declared' = Resources
    /\ \A r \in Resources : declared'[r] \in {declared[r], inForce[r]}

\* Some resources are forgotten.
Forget ==
    /\ inForce' = inForce
    /\ DOMAIN declared' = Resources
    /\ \A r \in Resources : declared'[r] \in {declared[r], 0}

TrackingNext == Change \/ Declare \/ Forget

TrackingSpec == TrackingInit /\ [][TrackingNext]_<<declared, inForce>>
=============================================================================
