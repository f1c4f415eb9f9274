---------------------------- MODULE MCDashboard -----------------------------
(* Dashboard for TLC: what is active anywhere, and all that the kitchen had. *)
EXTENDS Dashboard

CONSTANT kitchen

MCFilters == {[status |-> "ACTIVE", roomId |-> Null],
              [status |-> "ALL", roomId |-> kitchen]}
=============================================================================
