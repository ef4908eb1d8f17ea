-------------------------- MODULE MC_MissionEngine --------------------------
(***************************************************************************)
(* MissionEngine on the chains TLC explores.  The template has four tasks: *)
(* supply analysis, risk assessment, purchase plan, purchase.  Three keep  *)
(* every role apart (a planner, a task in the middle, the buyer); two keep *)
(* the planner and the buyer and leave room for more operator requests.    *)
(***************************************************************************)
EXTENDS MissionEngine

CONSTANTS SupA, SupB, None

First     == {1}
Second    == {2}
Third     == {3}
Suppliers == {SupA, SupB}
OnlyB     == {SupB}

=============================================================================
