----------------------------- MODULE MC_Sourcing -----------------------------
(* The suppliers of mock_enterprise/state.py, in hundreds of units.        *)
EXTENDS Sourcing

Simulated ==
  [s \in {"SUP-A", "SUP-B", "SUP-C"} |->
     CASE s = "SUP-A" -> [price |-> 4, lead |-> 24, capacity |-> 15, risk |-> "LOW"]
       [] s = "SUP-B" -> [price |-> 15, lead |-> 36, capacity |-> 12, risk |-> "MEDIUM"]
       [] s = "SUP-C" -> [price |-> 11, lead |-> 60, capacity |-> 20, risk |-> "LOW"]]

(* The mission of the demo; a smaller one with time for SUP-C; and one    *)
(* that is too much for SUP-A and too urgent for SUP-C.                    *)
Missions == {[units |-> 12, deadline |-> 48], [units |-> 11, deadline |-> 72],
             [units |-> 16, deadline |-> 48]}

=============================================================================
