------------------------ MODULE SnapshotPublication -------------------------
(***************************************************************************)
(* What discovery promises those who read a subnet's Services: "A failed   *)
(* namespace list, timeout, RBAC denial, malformed observed address, or    *)
(* persistence failure never publishes a partial snapshot. The last        *)
(* successful Service associations remain available ... and the source     *)
(* status becomes degraded" (README.md:306).                               *)
(*                                                                         *)
(* The set of active Services jumps from one complete listing to another;  *)
(* a failure changes the status alone.  Module Discovery implements this.  *)
(***************************************************************************)
CONSTANT Uids   \* Kubernetes Service UIDs

VARIABLES
    listed,     \* the complete listings obtained so far
    active,     \* the Services the API shows
    state       \* "absent" (no source row), "pending", "healthy" or "degraded"

vars == <<listed, active, state>>

Init == listed = {} /\ active = {} /\ state = "absent"

List(services) ==
    /\ listed' = listed \cup {services}
    /\ UNCHANGED <<active, state>>

Publish(services) ==
    /\ services \in listed
    /\ active' = services
    /\ state' = "healthy"
    /\ UNCHANGED listed

Degrade ==
    /\ state' = "degraded"
    /\ UNCHANGED <<listed, active>>

\* The bound site is deleted, and with it the source and its Services.
Forget ==
    /\ active' = {}
    /\ state' = "absent"
    /\ UNCHANGED listed

Next ==
    \/ \E services \in SUBSET Uids : List(services) \/ Publish(services)
    \/ Degrade
    \/ Forget

Spec == Init /\ [][Next]_vars
=============================================================================
