--------------------------- MODULE MissionStates ---------------------------
(***************************************************************************)
(* The vocabulary shared by every model of Autonomous Mission Control:     *)
(* the mission and task statuses of domain/enums.py and the transition     *)
(* table of domain/state_machine.py that every status change goes through. *)
(***************************************************************************)
EXTENDS Naturals

MissionStatus == {"CREATED", "PLANNING", "EXECUTING", "AT_RISK", "RECOVERING",
                  "WAITING_APPROVAL", "COMPLETED", "FAILED", "ABORTED"}

TerminalMission == {"COMPLETED", "FAILED", "ABORTED"}

TaskStatus == {"PENDING", "RUNNING", "WAITING", "COMPLETED", "FAILED", "BLOCKED"}

ApprovalStatus == {"PENDING", "APPROVED", "REJECTED", "EXPIRED"}

(* Every live status may end in FAILED or ABORTED; the rest is per status. *)
Successors(status) ==
  CASE status = "CREATED"          -> {"PLANNING", "EXECUTING"}
    [] status = "PLANNING"         -> {"EXECUTING"}
    [] status = "EXECUTING"        -> {"EXECUTING", "AT_RISK", "WAITING_APPROVAL", "COMPLETED"}
    [] status = "AT_RISK"          -> {"RECOVERING", "EXECUTING"}
    [] status = "RECOVERING"       -> {"EXECUTING", "WAITING_APPROVAL", "RECOVERING", "AT_RISK"}
    [] status = "WAITING_APPROVAL" -> {"EXECUTING", "RECOVERING", "AT_RISK"}
    [] OTHER                       -> {}

(* Mutant: a terminal status may be left. *)
CanAlwaysEnd(current, target) == target \in Successors(current) \cup {"FAILED", "ABORTED"}

(* can_transition: assert_transition raises InvalidState when this is FALSE. *)
CanTransition(current, target) ==
  /\ current \notin TerminalMission
  /\ target \in Successors(current) \cup {"FAILED", "ABORTED"}

(* Mutant: the claim does not check what it claims. *)
ClaimableAgain == {"PENDING", "FAILED", "COMPLETED"}

(* claim_task takes a task from one of these statuses to RUNNING. *)
Claimable == {"PENDING", "FAILED"}

=============================================================================
