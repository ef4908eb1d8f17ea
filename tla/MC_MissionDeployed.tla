------------------------- MODULE MC_MissionDeployed -------------------------
(* Two instances, and which hazards may meet.                              *)
EXTENDS MissionDeployed

Last == {2}

(* Where the promises hold: repeated events, a purchase a human authorises *)
(* together with failing agents, and an instance that dies or an event that *)
(* is lost, after which only safety is left.                               *)
Delivery == {{"duplicate"}, {"duplicate", "governed"}, {"agent_failure", "governed"},
             {"crash", "governed"}, {"agent_failure", "governed", "lost_publish"}}

(* An event repeated while the recovery of its task is under way.          *)
Repeated == {{"agent_failure", "duplicate"}}

=============================================================================
