----------------------------- MODULE FailureTwin -----------------------------
(***************************************************************************)
(* How the Failure Twin plans: from the failure, the suppliers the         *)
(* enterprise lists and what the mission needs, one plan.  The fallback    *)
(* works the plan out; a model's answer is taken as it parses.             *)
(***************************************************************************)
EXTENDS PolicyEngine

CONSTANT
  Catalogue   \* of each supplier: its price, lead (time), capacity and risk

Suppliers == DOMAIN Catalogue

ASSUME CatalogueAssumption ==
  \A s \in Suppliers :
    Catalogue[s] \in [price : Nat, lead : Nat, capacity : Nat, risk : Risks]

None == "none"

FailureClasses == {"TRANSIENT", "PERMANENT", "DEPENDENCY", "AUTHORIZATION",
                   "SECURITY", "AGENT", "TIMEOUT", "UNKNOWN"}
RetryAllowed == {"TRANSIENT", "TIMEOUT"}
SafeHoldClasses == {"AUTHORIZATION", "SECURITY"}
Strategies == {"RETRY", "USE_ALTERNATIVE_SUPPLIER", "WAIT_AND_REASSESS",
               "ESCALATE", "ABORT"}

(* What the mission needs                                                  *)
Need == [units : Nat, deadline : Nat]

(* supplier and priced are selected_parameters: the supplier to switch to, *)
(* and whether its unit price is there too.                                *)
Plan == [strategy : Strategies, supplier : Suppliers \cup {None}, priced : BOOLEAN,
         impact : Risks, approval : BOOLEAN]

(* GET /suppliers                                                          *)
Listed(failing, excluded, need) ==
  {s \in Suppliers \ failing :
     s # excluded /\ Catalogue[s].capacity >= need.units}

(* Mutant: an alternative may arrive late.                                 *)
PermittedByCapacity(s, need) == Catalogue[s].capacity >= need.units

Permitted(s, need) ==
  /\ Catalogue[s].lead <= need.deadline
  /\ Catalogue[s].capacity >= need.units

Rank(risk) == CASE risk = "LOW" -> 0 [] risk = "MEDIUM" -> 1
                [] risk = "HIGH" -> 2 [] risk = "CRITICAL" -> 3

Preferred(s, t) ==
  \/ Rank(Catalogue[s].risk) < Rank(Catalogue[t].risk)
  \/ /\ Rank(Catalogue[s].risk) = Rank(Catalogue[t].risk)
     /\ Catalogue[s].lead <= Catalogue[t].lead

(* Mutant: the alternative with the shortest lead time, whatever its risk. *)
Fastest(S) == CHOOSE s \in S : \A t \in S : Catalogue[s].lead <= Catalogue[t].lead

Best(S) == CHOOSE s \in S : \A t \in S : Preferred(s, t)

Escalate ==
  [strategy |-> "ESCALATE", supplier |-> None, priced |-> FALSE,
   impact |-> "HIGH", approval |-> TRUE]

Abort == [Escalate EXCEPT !.strategy = "ABORT", !.impact = "CRITICAL", !.approval = FALSE]

Retry == [Escalate EXCEPT !.strategy = "RETRY", !.approval = FALSE]

SwitchTo(s) ==
  [strategy |-> "USE_ALTERNATIVE_SUPPLIER", supplier |-> s, priced |-> TRUE,
   impact |-> "MEDIUM", approval |-> FALSE]

RetryPermitted(class, attempt) == class \in RetryAllowed /\ attempt < 3

(* _fallback.  repeated: a previous recovery with this diagnosis had been  *)
(* put to the operator.  Waiting is an option it lists, and never selects. *)
FallbackPlan(class, attempt, repeated, candidates, need) ==
  LET permitted == {s \in candidates : Permitted(s, need)}
  IN  IF class \in SafeHoldClasses THEN Escalate
      ELSE IF repeated THEN Abort
      ELSE IF permitted # {} THEN SwitchTo(Best(permitted))
      ELSE IF RetryPermitted(class, attempt) THEN Retry
      ELSE Escalate

(* parse_recovery_plan: nothing relates what a model selects to what is    *)
(* permitted.  Two of the risks are enough, the policy tells no more apart. *)
ModelPlans ==
  {p \in Plan : /\ p.impact \in {"MEDIUM", "HIGH"}
                /\ p.strategy # "USE_ALTERNATIVE_SUPPLIER" =>
                     p.supplier = None /\ ~p.priced}

=============================================================================
