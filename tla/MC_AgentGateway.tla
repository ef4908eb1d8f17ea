--------------------------- MODULE MC_AgentGateway ---------------------------
(***************************************************************************)
(* AgentGateway on amounts at and beside the two limits of the policy:     *)
(* Small is on the autonomous limit, Large on the ceiling, Huge above it.  *)
(***************************************************************************)
EXTENDS AgentGateway

CONSTANTS Small, Large, Huge, Buyer, Planner, C1, C2, C3, O1, O2

TwoCalls   == {C1, C2}
ThreeCalls == {C1, C2, C3}
Governable == {Small, Large}
AllKeys    == {Small, Large, Huge}
JustLarge  == {Large}
Fleet      == {Buyer, Planner}
JustBuyer  == {Buyer}
OneDesk    == {O1}
TwoDesks   == {O1, O2}

Price == [k \in Keys |-> CASE k = Small -> 5 [] k = Large -> 25 [] OTHER -> 26]

=============================================================================
