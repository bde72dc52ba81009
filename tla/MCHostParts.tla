---------------------------- MODULE MCHostParts ----------------------------
(***************************************************************************)
(* Three mechanisms of the Host thread that share no state, in one run:    *)
(* host maintenance, host restriction and an input connection.  The first  *)
(* state picks a part; a behaviour moves that part and leaves the others   *)
(* as they start.                                                          *)
(***************************************************************************)
EXTENDS HostMaintenance, HostRestriction, InputConnection

VARIABLE part

Init ==
    /\ part \in {"maintenance", "restriction", "input"}
    /\ MaintenanceInit /\ RestrictionInit /\ InputInit

Next ==
    \/ part = "maintenance" /\ MaintenanceNext /\ UNCHANGED <<part, restriction, input>>
    \/ part = "restriction" /\ RestrictionNext /\ UNCHANGED <<part, maintenance, input>>
    \/ part = "input" /\ InputNext /\ UNCHANGED <<part, maintenance, restriction>>

Spec == Init /\ [][Next]_<<part, maintenance, restriction, input>>

=============================================================================
