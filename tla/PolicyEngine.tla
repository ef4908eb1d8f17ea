---------------------------- MODULE PolicyEngine ----------------------------
(***************************************************************************)
(* PolicyEngine.evaluate: RULES asked in their order, the first verdict    *)
(* taken.  Amounts are in the unit of the two thresholds.                  *)
(***************************************************************************)
EXTENDS Integers

CONSTANTS
  AutonomousMax,  \* policy_purchase_autonomous_max
  ApprovalMax     \* policy_purchase_approval_max

ASSUME PolicyAssumption ==
  AutonomousMax \in Nat /\ ApprovalMax \in Nat /\ AutonomousMax <= ApprovalMax

Forbidden == {"employee.read", "payroll.write", "customer.export", "secret.read",
              "iam.write"}

ReadOnly == {"supplier.read", "supplier.status", "supplier.capacity",
             "supplier.alternatives", "supplier.compare", "production.read",
             "risk.assess", "risk.compare", "risk.recommend",
             "purchase.recommend", "recovery.diagnose", "recovery.plan"}

Authorities == {"AUTONOMOUS", "SUPERVISED", "HUMAN_APPROVAL", "BLOCKED"}
Risks == {"LOW", "MEDIUM", "HIGH", "CRITICAL"}

(* amount = None                                                           *)
NoAmount == -1

Request == [identified : BOOLEAN, authority : Authorities, capability : STRING,
            amount : Nat \cup {NoAmount}, risk : Risks]

(* rule_purchase_thresholds                                                *)
PurchaseVerdict(amount) ==
  IF amount = NoAmount THEN "DENY"
  ELSE IF amount <= AutonomousMax THEN "ALLOW"
  ELSE IF amount <= ApprovalMax THEN "APPROVAL_REQUIRED"
  ELSE "DENY"

RecoveryVerdict(risk) ==
  IF risk \in {"HIGH", "CRITICAL"} THEN "APPROVAL_REQUIRED" ELSE "ALLOW"

Evaluate(req) ==
  IF ~req.identified THEN "DENY"
  ELSE IF req.capability \in Forbidden THEN "DENY"
  ELSE IF req.authority = "BLOCKED" THEN "DENY"
  ELSE IF req.capability \in ReadOnly THEN "ALLOW"
  ELSE IF req.capability = "purchase.execute" THEN PurchaseVerdict(req.amount)
  ELSE IF req.capability = "recovery.abort" THEN "ALLOW"
  ELSE IF req.capability = "recovery.apply" THEN RecoveryVerdict(req.risk)
  ELSE IF req.authority = "HUMAN_APPROVAL" THEN "APPROVAL_REQUIRED"
  ELSE "DENY"

Strictness(decision) ==
  CASE decision = "ALLOW" -> 0
    [] decision = "APPROVAL_REQUIRED" -> 1
    [] decision = "DENY" -> 2

=============================================================================
