----------------------------- MODULE Purchasing -----------------------------
(***************************************************************************)
(* What the gateway promises about consequential actions, with no pipeline *)
(* and no records: an action is done at most once; within the autonomous   *)
(* limit nobody is asked; up to the ceiling a human grants it first, and a *)
(* human's word is final; beyond the ceiling it is never done.             *)
(***************************************************************************)

CONSTANTS Keys, Authors, Autonomous, Governed

VARIABLES
  orders,   \* what was bought: the action's key, and by whom
  granted,  \* the actions a human authorised
  refused   \* the actions a human refused

vars == <<orders, granted, refused>>

Init == orders = {} /\ granted = {} /\ refused = {}

Bought(k) == \E o \in orders : o.key = k

Grant(k) ==
  /\ k \in Governed \ (granted \cup refused)
  /\ granted' = granted \cup {k}
  /\ UNCHANGED <<orders, refused>>

Refuse(k) ==
  /\ k \in Governed \ (granted \cup refused)
  /\ refused' = refused \cup {k}
  /\ UNCHANGED <<orders, granted>>

Buy(k, by) ==
  /\ k \in Autonomous \cup granted
  /\ ~Bought(k)
  /\ orders' = orders \cup {[key |-> k, by |-> by]}
  /\ UNCHANGED <<granted, refused>>

Next == \E k \in Keys : Grant(k) \/ Refuse(k) \/ \E by \in Authors : Buy(k, by)

Spec == Init /\ [][Next]_vars

=============================================================================
