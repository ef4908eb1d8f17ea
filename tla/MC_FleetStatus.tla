--------------------------- MODULE MC_FleetStatus ---------------------------
(* A worker shared by two executions, the twin, an operator, two instances. *)
EXTENDS FleetStatus

RunsOf == [r1 |-> "worker", r2 |-> "worker", r3 |-> "twin"]

(* What may meet without breaking the properties.                          *)
Shared == {{"redeploy"}, {"malfunction", "redeploy"}, {"crash"},
           {"races", "malfunction"}, {"races", "crash"}}

=============================================================================
