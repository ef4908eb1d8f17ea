--------------------------- MODULE SourcingProofs ---------------------------
(***************************************************************************)
(* Proofs about Sourcing, for every catalogue of suppliers, every need, any *)
(* number of attempts and crashes, and whatever suppliers, operators and   *)
(* enterprise do.                                                          *)
(***************************************************************************)
EXTENDS Sourcing, WellFoundedInduction, TLAPS

(***************************************************************************)
(* The policy's rules, as a function (PolicyEngine)                        *)
(***************************************************************************)

(* A purchase never gets easier to authorise by costing more, whoever asks *)
(* and wherever the two thresholds are (rule_purchase_thresholds and the   *)
(* rules that come before it).                                             *)
THEOREM CostlierIsStricter ==
  ASSUME NEW req \in Request, NEW a \in Nat, NEW b \in Nat, a <= b
  PROVE  Strictness(Evaluate([req EXCEPT !.amount = a]))
           <= Strictness(Evaluate([req EXCEPT !.amount = b]))
<1> DEFINE cheap == [req EXCEPT !.amount = a]
           dear  == [req EXCEPT !.amount = b]
<1>1. Strictness(PurchaseVerdict(a)) <= Strictness(PurchaseVerdict(b))
  BY PolicyAssumption DEF PurchaseVerdict, Strictness, NoAmount
<1>2. /\ cheap.identified = dear.identified
      /\ cheap.authority = dear.authority
      /\ cheap.capability = dear.capability
      /\ cheap.risk = dear.risk
      /\ cheap.amount = a /\ dear.amount = b
  BY DEF Request
<1> SUFFICES Strictness(Evaluate(cheap)) <= Strictness(Evaluate(dear))
  OBVIOUS
<1> HIDE DEF cheap, dear
<1>3. CASE Evaluate(cheap) = PurchaseVerdict(a) /\ Evaluate(dear) = PurchaseVerdict(b)
  BY <1>1, <1>3
<1>4. CASE /\ Evaluate(cheap) = Evaluate(dear)
           /\ Evaluate(cheap) \in {"ALLOW", "APPROVAL_REQUIRED", "DENY"}
  BY <1>4 DEF Strictness
<1>5. \/ Evaluate(cheap) = PurchaseVerdict(a) /\ Evaluate(dear) = PurchaseVerdict(b)
      \/ /\ Evaluate(cheap) = Evaluate(dear)
         /\ Evaluate(cheap) \in {"ALLOW", "APPROVAL_REQUIRED", "DENY"}
  BY <1>2 DEF Evaluate, RecoveryVerdict
<1> QED BY <1>3, <1>4, <1>5

(* Nothing is done on an agent's own authority but what the autonomy       *)
(* boundary lists: reads and advice, a purchase whose amount is known and  *)
(* within the autonomous maximum, a controlled abort, a recovery whose risk *)
(* is neither HIGH nor CRITICAL; and nothing at all for an agent that is   *)
(* BLOCKED or unidentified (describe() states this boundary to the UI).    *)
THEOREM AutonomyIsBounded ==
  ASSUME NEW req \in Request, Evaluate(req) = "ALLOW"
  PROVE  /\ req.identified /\ req.authority # "BLOCKED"
         /\ req.capability \notin Forbidden
         /\ \/ req.capability \in ReadOnly \cup {"recovery.abort"}
            \/ /\ req.capability = "purchase.execute"
               /\ req.amount \in 0 .. AutonomousMax
            \/ /\ req.capability = "recovery.apply"
               /\ req.risk \notin {"HIGH", "CRITICAL"}
<1>1. PurchaseVerdict(req.amount) = "ALLOW" => req.amount \in 0 .. AutonomousMax
  BY PolicyAssumption DEF PurchaseVerdict, NoAmount, Request
<1> QED BY <1>1 DEF Evaluate, RecoveryVerdict

(***************************************************************************)
(* The supplier the fallback prefers is one of those it was given, and     *)
(* preferred to each of them                                               *)
(***************************************************************************)

LEMMA Smallest ==
  ASSUME NEW S \in SUBSET Nat, S # {}
  PROVE  \E m \in S : \A n \in S : m <= n
<1>1. PICK m \in S : \A n \in S : <<n, m>> \notin OpToRel(<, Nat)
  BY NatLessThanWellFounded, WFMin
<1>2. \A n \in S : ~(n < m)
  BY <1>1 DEF OpToRel
<1>. QED BY <1>2

LEMMA RankIsNat == ASSUME NEW risk \in Risks PROVE Rank(risk) \in Nat
BY DEF Risks, Rank

LEMMA BestIsOne ==
  ASSUME NEW S \in SUBSET Suppliers, S # {}
  PROVE  Best(S) \in S /\ \A t \in S : Preferred(Best(S), t)
<1> DEFINE rank(s) == Rank(Catalogue[s].risk)
           lead(s) == Catalogue[s].lead
           ranks == {rank(s) : s \in S}
<1>1. \A s \in S : rank(s) \in Nat /\ lead(s) \in Nat
  BY CatalogueAssumption, RankIsNat
<1>2. PICK r \in ranks : \A n \in ranks : r <= n
  <2>1. ranks \in SUBSET Nat /\ ranks # {} BY <1>1
  <2> HIDE DEF ranks
  <2>. QED BY <2>1, Smallest
<1> DEFINE safest == {s \in S : rank(s) = r}
           leads == {lead(s) : s \in safest}
<1>3. PICK l \in leads : \A n \in leads : l <= n
  <2>1. leads \in SUBSET Nat /\ leads # {} BY <1>1, <1>2
  <2> HIDE DEF leads
  <2>. QED BY <2>1, Smallest
<1>4. PICK s \in S : rank(s) = r /\ lead(s) = l BY <1>3
<1>5. \A t \in S : Preferred(s, t)
  <2>1. SUFFICES ASSUME NEW t \in S PROVE Preferred(s, t) OBVIOUS
  <2>2. r <= rank(t) /\ r \in Nat /\ rank(t) \in Nat BY <1>1, <1>2
  <2>3. rank(t) = r => l <= lead(t) BY <1>3
  <2>. QED BY <1>4, <2>2, <2>3 DEF Preferred
<1>. QED BY <1>5 DEF Best

(***************************************************************************)
(* Types                                                                   *)
(***************************************************************************)

LEMMA ConstantPlans == Escalate \in Plan /\ Abort \in Plan /\ Retry \in Plan
<1>1. Escalate \in Plan BY DEF Escalate, Plan, Strategies, Risks
<1>. QED BY <1>1 DEF Abort, Retry, Plan, Strategies, Risks

LEMMA FallbackIsPlan ==
  ASSUME NEW class, NEW n, NEW repeated, NEW candidates \in SUBSET Suppliers, NEW m
  PROVE  FallbackPlan(class, n, repeated, candidates, m) \in Plan
<1> DEFINE permitted == {s \in candidates : Permitted(s, m)}
<1>1. permitted # {} => SwitchTo(Best(permitted)) \in Plan
  <2>1. permitted \in SUBSET Suppliers OBVIOUS
  <2> HIDE DEF permitted
  <2>. QED BY <2>1, BestIsOne DEF SwitchTo, Plan, Strategies, Risks
<1>. QED BY <1>1, ConstantPlans DEF FallbackPlan

LEMMA PriceIsNat ==
  ASSUME TypeOK, NEW s \in Suppliers
  PROVE  Price(s) \in Nat
<1>1. need.units \in Nat BY SourcingAssumption DEF TypeOK, Need
<1>2. Catalogue[s].price \in Nat BY CatalogueAssumption
<1>3. \A x \in Nat, y \in Nat : x * y \in Nat OBVIOUS
<1>. QED BY <1>1, <1>2, <1>3 DEF Price

LEMMA OfferIsPurchase ==
  ASSUME TypeOK
  PROVE  Offer \in Purchase
<1>1. Supplier \in Suppliers /\ context.amount \in Nat \cup {NoAmount}
  BY DEF TypeOK, Context, Supplier
<1>. QED BY <1>1, PriceIsNat DEF Offer, Purchase

LEMMA TypeInit == Init => TypeOK
<1> SUFFICES ASSUME Init PROVE TypeOK OBVIOUS
<1>1. context \in Context BY SourcingAssumption DEF Init, Context
<1>2. NoFailure \in Diagnosis BY SourcingAssumption DEF Diagnosis, NoFailure, Causes
<1>. QED BY <1>1, <1>2, ConstantPlans, SourcingAssumption
         DEF Init, TypeOK, Steps, Working

(* The engine's way of completing a task and of failing one.               *)
LEMMA SucceedKeeps ==
  ASSUME TypeOK, NEW c \in Context, stage \in 1 .. 4, Succeed(c)
  PROVE  TypeOK'
<1>1. stage' \in 1 .. 5 /\ attempt' \in 1 .. MaxAttempts
  BY SourcingAssumption DEF Succeed
<1>. QED BY <1>1 DEF Succeed, TypeOK, world, money, deaths, Steps, Working

LEMMA FailKeeps ==
  ASSUME TypeOK, NEW cause \in Causes, Fail(cause)
  PROVE  TypeOK'
<1>1. Supplier \in Suppliers BY DEF TypeOK, Context, Supplier
<1>2. failure' \in Diagnosis BY <1>1 DEF Fail, Diagnosis
<1>3. troubled' \subseteq Suppliers BY <1>1 DEF Fail, TypeOK
<1>. QED BY <1>2, <1>3 DEF Fail, TypeOK, world, money, deaths, Steps, Working

(* The steps that end in a failure, for one of six reasons                 *)
Failing ==
  \/ Refused \/ Outage \/ NotQuoted \/ PurchaseDenied \/ PurchaseRefused
  \/ (SupplyAnalysis /\ pc' = "diagnose") \/ (PurchasePlan /\ pc' = "diagnose")

LEMMA FailingFails == Failing => pc = "task" /\ \E cause \in Causes : Fail(cause)
BY DEF Failing, Refused, Outage, NotQuoted, PurchaseDenied, PurchaseRefused,
       SupplyAnalysis, PurchasePlan, Succeed, Causes, Runs

(* The steps that end in a success, and the facts they leave               *)
Succeeding ==
  \/ RiskAssessment \/ Confirm
  \/ (SupplyAnalysis /\ pc' = "saved") \/ (PurchasePlan /\ pc' = "saved")

LEMMA SucceedingSucceeds ==
  ASSUME TypeOK, Succeeding
  PROVE  \/ /\ pc = "task" /\ stage \in 1 .. 2 /\ Succeed(context)
            /\ stage = 1 => Catalogue[Supplier].capacity >= need.units
         \/ /\ pc = "task" /\ stage = 3
            /\ Succeed([context EXCEPT !.amount = Price(Supplier)])
         \/ pc = "ordered" /\ Succeed(context)
<1>1. CASE SupplyAnalysis /\ pc' = "saved"
  <2>1. Supplier \in Suppliers /\ need.units \in Nat
    BY SourcingAssumption DEF TypeOK, Context, Supplier, Need
  <2>2. Catalogue[Supplier].capacity \in Nat BY <2>1, CatalogueAssumption
  <2>. QED BY <1>1, <2>1, <2>2 DEF SupplyAnalysis, Fail, Runs
<1>2. CASE PurchasePlan /\ pc' = "saved" BY <1>2 DEF PurchasePlan, Fail, Runs
<1>3. CASE RiskAssessment BY <1>3 DEF RiskAssessment, Runs
<1>4. CASE Confirm BY <1>4 DEF Confirm
<1>. QED BY <1>1, <1>2, <1>3, <1>4 DEF Succeeding

(* The engine's other steps with a task                                    *)
Proceeding ==
  AskForPurchase \/ Replay \/ Order \/ Remember \/ Advance \/ Complete

Recovering ==
  Diagnose \/ OtherPlan \/ Govern \/ Note \/ Hold \/ Apply \/ Reset \/ Record

LEMMA EngineSteps == Engine => Failing \/ Succeeding \/ Proceeding \/ Recovering
BY DEF Engine, Failing, Succeeding, Proceeding, Recovering, SupplyAnalysis,
       PurchasePlan, Succeed, Fail

(* The purchase is the last task                                           *)
Staged == pc \in {"placed", "ordered"} => stage = 4

LEMMA TypeProceeding ==
  ASSUME TypeOK, Proceeding
  PROVE  TypeOK'
<1>1. CASE AskForPurchase
  BY <1>1 DEF AskForPurchase, TypeOK, Steps, Waiting, world, money, deaths
<1>2. CASE Replay
  BY <1>2 DEF Replay, TypeOK, Steps, Working, world, money, deaths
<1>3. CASE Order
  <2>1. orders' \in Seq(Purchase) BY <1>3, OfferIsPurchase DEF Order, TypeOK
  <2>. QED BY <1>3, <2>1 DEF Order, TypeOK, Steps, Working, world, deaths
<1>4. CASE Remember
  <2>1. remembered' \subseteq Purchase BY <1>4, OfferIsPurchase DEF Remember, TypeOK
  <2>. QED BY <1>4, <2>1 DEF Remember, TypeOK, Steps, Working, world, deaths
<1>5. CASE Advance
  BY <1>5 DEF Advance, TypeOK, Steps, Working, world, money, deaths
<1>6. CASE Complete
  BY <1>6 DEF Complete, TypeOK, Steps, Ended, world, money, deaths
<1>. QED BY <1>1, <1>2, <1>3, <1>4, <1>5, <1>6 DEF Proceeding

(* A plan of a recovery is well formed, whoever made it.                   *)
LEMMA PlannedIsPlan ==
  ASSUME TypeOK, Diagnose \/ OtherPlan
  PROVE  plan' \in Plan
<1>1. CASE Diagnose
  <2>1. \A c \in {Listed(failing, failure.component, need), {}} : c \in SUBSET Suppliers
    BY DEF Listed
  <2>. QED BY <1>1, <2>1, FallbackIsPlan DEF Diagnose, Planned
<1>2. CASE OtherPlan
  <2>1. OtherPlans \subseteq Plan BY ConstantPlans DEF OtherPlans, ModelPlans
  <2>. QED BY <1>2, <2>1 DEF OtherPlan, Planned
<1>. QED BY <1>1, <1>2

LEMMA TypeRecovering ==
  ASSUME TypeOK, Recovering
  PROVE  TypeOK'
<1>1. CASE Diagnose \/ OtherPlan
  <2>1. plan' \in Plan BY <1>1, PlannedIsPlan
  <2>2. failure' \in Diagnosis BY <1>1 DEF Diagnose, OtherPlan, TypeOK, Diagnosis, Causes
  <2>. QED BY <1>1, <2>1, <2>2
           DEF Diagnose, OtherPlan, Planned, TypeOK, Steps, Working, world, money, deaths
<1>2. CASE Govern
  BY <1>2 DEF Govern, TypeOK, Steps, Working, world, money, deaths
<1>3. CASE Note \/ Hold
  BY <1>3 DEF Note, Hold, TypeOK, Steps, Working, Waiting, world, money, deaths
<1>4. CASE Apply
  <2>1. plan.strategy = "USE_ALTERNATIVE_SUPPLIER" /\ ~Hopeless => Switched \in Context
    <3>1. SUFFICES ASSUME plan.supplier # None PROVE Switched \in Context BY DEF Hopeless
    <3>2. plan.supplier \in Suppliers BY <3>1 DEF TypeOK, Plan
    <3>. QED BY <3>2, PriceIsNat DEF Switched, TypeOK, Context
  <2>. QED BY <1>4, <2>1 DEF Apply, TypeOK, Steps, Working, Ended, world, money, deaths
<1>5. CASE Reset
  <2>1. attempt' \in 1 .. MaxAttempts
    BY <1>5, SourcingAssumption DEF Reset, OutOfAttempts, NextAttempt, TypeOK
  <2>2. failure' \in Diagnosis
    BY <1>5, SourcingAssumption DEF Reset, Diagnosis, NoFailure, Causes
  <2>. QED BY <1>5, <2>1, <2>2, ConstantPlans
           DEF Reset, TypeOK, Steps, Working, Ended, world, money, deaths
<1>6. CASE Record
  BY <1>6 DEF Record, TypeOK, Steps, Working, world, money, deaths
<1>. QED BY <1>1, <1>2, <1>3, <1>4, <1>5, <1>6 DEF Recovering

LEMMA TypeOthers ==
  ASSUME TypeOK, Environment
  PROVE  TypeOK'
<1>1. NoFailure \in Diagnosis BY SourcingAssumption DEF Diagnosis, NoFailure, Causes
<1>2. CASE Approve
  BY <1>2, OfferIsPurchase DEF Approve, TypeOK, Steps, Working, world, deaths
<1>3. CASE Reject BY <1>3 DEF Reject, TypeOK, Steps, Ended, world, money, deaths
<1>4. CASE Crash
  <2>1. crashes' \in 0 .. MaxCrashes /\ lapses' \in 0 .. crashes'
    BY <1>4, SourcingAssumption DEF Crash, TypeOK
  <2>. QED BY <1>1, <1>4, <2>1, ConstantPlans DEF Crash, TypeOK, Steps, world, money
<1>5. CASE Resume
  BY <1>1, <1>5, ConstantPlans DEF Resume, TypeOK, Steps, Working, world, money, deaths
<1>6. CASE Operated
  <2>1. /\ failing' \subseteq Fallible /\ suspended' \subseteq Suspendable
        /\ troubled' \subseteq Suppliers
    BY <1>6, SourcingAssumption
    DEF Operated, SupplierFails, SupplierRestored, Suspend, Readmit, TypeOK
  <2>2. UNCHANGED mission
    BY <1>6 DEF Operated, SupplierFails, SupplierRestored, Suspend, Readmit
  <2>. QED BY <2>1, <2>2 DEF TypeOK, mission, money, deaths
<1>. QED BY <1>2, <1>3, <1>4, <1>5, <1>6 DEF Environment

LEMMA TypeNext == TypeOK /\ Staged /\ [Next]_vars => TypeOK'
<1> SUFFICES ASSUME TypeOK, Staged, [Next]_vars PROVE TypeOK' OBVIOUS
<1>1. CASE UNCHANGED vars BY <1>1 DEF vars, mission, world, money, deaths, TypeOK
<1>2. CASE Failing BY <1>2, FailingFails, FailKeeps
<1>3. CASE Succeeding
  <2>1. context \in Context /\ [context EXCEPT !.amount = Price(Supplier)] \in Context
    BY PriceIsNat DEF TypeOK, Context, Supplier
  <2>2. \E c \in Context : stage \in 1 .. 4 /\ Succeed(c)
    BY <1>3, <2>1, SucceedingSucceeds DEF Staged
  <2>. QED BY <2>2, SucceedKeeps
<1>. QED BY <1>1, <1>2, <1>3, EngineSteps, TypeProceeding, TypeRecovering, TypeOthers
         DEF Next

LEMMA StagedNext == Staged /\ [Next]_vars => Staged'
<1> SUFFICES ASSUME Staged, [Next]_vars, pc' \in {"placed", "ordered"} PROVE stage' = 4
  BY DEF Staged
<1>1. CASE UNCHANGED vars BY <1>1 DEF vars, mission, Staged
<1>2. CASE Failing BY <1>2, FailingFails DEF Fail
<1>3. CASE Succeeding
  BY <1>3 DEF Succeeding, RiskAssessment, Confirm, Succeed
<1>4. CASE Proceeding
  BY <1>4 DEF Proceeding, AskForPurchase, Replay, Order, Remember, Advance, Complete,
              Runs, Staged
<1>5. CASE Recovering
  BY <1>5 DEF Recovering, Diagnose, OtherPlan, Planned, Govern, Note, Hold, Apply, Reset,
              Record
<1>6. CASE Environment
  BY <1>6 DEF Environment, Approve, Reject, Crash, Resume, Operated, SupplierFails,
              SupplierRestored, Suspend, Readmit, mission, Staged
<1>. QED BY <1>1, <1>2, <1>3, <1>4, <1>5, <1>6, EngineSteps DEF Next

(* Facts, plans and purchases are well formed, and no task has more        *)
(* attempts than it may.                                                   *)
THEOREM SourcingTypes == Spec => []TypeOK
<1>1. Init => TypeOK /\ Staged BY TypeInit DEF Init, Staged
<1>2. (TypeOK /\ Staged) /\ [Next]_vars => (TypeOK /\ Staged)' BY TypeNext, StagedNext
<1>. QED BY <1>1, <1>2, PTL DEF Spec

(***************************************************************************)
(* The facts of the mission agree, whatever is planned and resumed         *)
(***************************************************************************)

Deterministic == Mode = "deterministic"

(* What the fallback chooses is permitted, and so far nothing permitted    *)
(* would have been preferred but what has been in trouble.                 *)
Chosen(s) ==
  /\ Permitted(s, need)
  /\ \A t \in Suppliers \ troubled : Permitted(t, need) => Preferred(s, t)

Allowed(s) == s = Primary \/ Chosen(s)

Fits(s) == Catalogue[s].capacity >= need.units

Agrees(c) == c.amount \in {NoAmount, Price(c.supplier)} /\ Allowed(c.supplier)

(* A switch is to a supplier that was chosen, with its price.              *)
Decent(p) ==
  p.strategy = "USE_ALTERNATIVE_SUPPLIER" =>
    p.priced /\ p.supplier \in Suppliers /\ Chosen(p.supplier)

(* Where the facts may be ahead of the last checkpoint                     *)
Ahead == {"saved", "reset", "reset_done", "reassess", "failed", "gone"}

FactsInv ==
  /\ Agrees(context) /\ Agrees(checkpoint) /\ Decent(plan)
  /\ pc \notin Ahead => checkpoint = context
  /\ stage >= 2 => Fits(context.supplier) /\ Fits(checkpoint.supplier)
  /\ \A o \in Ordered :
       o.amount = Price(o.supplier) /\ Allowed(o.supplier) /\ Fits(o.supplier)

(* A supplier that is down, or whose failure is being planned, is in trouble. *)
TroubleInv ==
  failing \subseteq troubled /\ (pc = "diagnose" => failure.component \in troubled)

LEMMA ConstantsAreDecent == Decent(Escalate) /\ Decent(Abort) /\ Decent(Retry)
BY DEF Decent, Escalate, Abort, Retry

(* What a step may do to the facts, the plan, the orders and the troubles  *)
LEMMA FactsSteps ==
  ASSUME TypeOK, [Next]_vars
  PROVE  /\ need' = need /\ troubled \subseteq troubled'
         /\ \/ /\ context' = context
               /\ \/ checkpoint' = context
                  \/ checkpoint' = checkpoint /\ (pc' \in Ahead \/ (pc \notin Ahead))
            \/ pc = "task" /\ pc' = "saved" /\ checkpoint' = checkpoint
               /\ context' = [context EXCEPT !.amount = Price(Supplier)]
            \/ /\ Apply /\ ~Hopeless /\ plan.strategy = "USE_ALTERNATIVE_SUPPLIER"
               /\ pc' \in Ahead
            \/ context' = checkpoint /\ checkpoint' = checkpoint
<1> USE DEF Ahead
<1>1. CASE Failing BY <1>1, FailingFails DEF Fail
<1>2. CASE Succeeding BY <1>2, SucceedingSucceeds DEF Succeed
<1>3. CASE Proceeding
  BY <1>3 DEF Proceeding, AskForPurchase, Replay, Order, Remember, Advance, Complete,
              Runs
<1>4. CASE Diagnose \/ OtherPlan \/ Govern \/ Note \/ Hold \/ Reset \/ Record
  BY <1>4 DEF Diagnose, OtherPlan, Planned, Govern, Note, Hold, Reset, Record
<1>5. CASE Apply BY <1>5 DEF Apply
<1>6. CASE Approve \/ Reject \/ Crash \/ Resume
  BY <1>6 DEF Approve, Reject, Crash, Resume
<1>7. CASE Operated
  BY <1>7 DEF Operated, SupplierFails, SupplierRestored, Suspend, Readmit, mission
<1>8. CASE UNCHANGED vars BY <1>8 DEF vars, mission
<1>. QED BY <1>1, <1>2, <1>3, <1>4, <1>5, <1>6, <1>7, <1>8, EngineSteps
         DEF Next, Recovering, Environment

(* Who plans, who orders, who finishes a task                              *)
LEMMA PlanSteps ==
  ASSUME TypeOK, [Next]_vars
  PROVE  /\ plan' \in {plan, Escalate} \/ Diagnose \/ OtherPlan
         /\ orders' = orders \/ Order
         /\ stage' = stage \/ Succeeding
<1>1. CASE Failing BY <1>1, FailingFails DEF Fail, money
<1>2. CASE Succeeding BY <1>2, SucceedingSucceeds DEF Succeed, money
<1>3. CASE Proceeding
  BY <1>3 DEF Proceeding, AskForPurchase, Replay, Order, Remember, Advance, Complete,
              money
<1>4. CASE Recovering
  BY <1>4 DEF Recovering, Diagnose, OtherPlan, Planned, Govern, Note, Hold, Apply, Reset,
              Record, money
<1>5. CASE Approve \/ Reject \/ Crash \/ Resume
  BY <1>5 DEF Approve, Reject, Crash, Resume, money
<1>6. CASE Operated
  BY <1>6 DEF Operated, SupplierFails, SupplierRestored, Suspend, Readmit, mission, money
<1>7. CASE UNCHANGED vars BY <1>7 DEF vars, mission, money
<1>. QED BY <1>1, <1>2, <1>3, <1>4, <1>5, <1>6, <1>7, EngineSteps DEF Next, Environment

LEMMA AppendedIsOrdered ==
  ASSUME NEW S, NEW q \in Seq(S), NEW o \in S
  PROVE  {Append(q, o)[i] : i \in DOMAIN Append(q, o)} = {q[i] : i \in DOMAIN q} \cup {o}
<1> DEFINE p == Append(q, o)
<1>1. /\ DOMAIN q = 1 .. Len(q) /\ DOMAIN p = 1 .. Len(q) + 1 /\ Len(q) \in Nat
      /\ \A i \in 1 .. Len(q) : p[i] = q[i]
      /\ p[Len(q) + 1] = o
  OBVIOUS
<1> HIDE DEF p
<1>2. 1 .. Len(q) + 1 = (1 .. Len(q)) \cup {Len(q) + 1} BY <1>1
<1>3. {p[i] : i \in DOMAIN p} = {q[i] : i \in DOMAIN q} \cup {o}
  BY <1>1, <1>2
<1>. QED BY <1>3 DEF p

LEMMA FactsInit == Init => FactsInv /\ TroubleInv
<1> SUFFICES ASSUME Init PROVE FactsInv /\ TroubleInv OBVIOUS
<1>1. Ordered = {} BY DEF Init, Ordered
<1>. QED BY <1>1, ConstantsAreDecent DEF Init, FactsInv, TroubleInv, Agrees, Allowed, Ahead

LEMMA TroubleNext ==
  ASSUME TypeOK, TroubleInv, [Next]_vars
  PROVE  TroubleInv'
<1>0. Supplier \in Suppliers BY DEF TypeOK, Context, Supplier
<1>1. CASE Failing BY <1>0, <1>1, FailingFails DEF Fail, TroubleInv, world
<1>2. CASE Succeeding BY <1>2, SucceedingSucceeds DEF Succeed, TroubleInv, world
<1>3. CASE Proceeding
  BY <1>3 DEF Proceeding, AskForPurchase, Replay, Order, Remember, Advance, Complete,
              TroubleInv, world
<1>4. CASE Recovering
  BY <1>4 DEF Recovering, Diagnose, OtherPlan, Planned, Govern, Note, Hold, Apply, Reset,
              Record, TroubleInv, world
<1>5. CASE Approve \/ Reject \/ Crash \/ Resume
  BY <1>5 DEF Approve, Reject, Crash, Resume, TroubleInv, world
<1>6. CASE Operated
  BY <1>6 DEF Operated, SupplierFails, SupplierRestored, Suspend, Readmit, mission,
              TroubleInv
<1>7. CASE UNCHANGED vars BY <1>7 DEF vars, mission, world, TroubleInv
<1>. QED BY <1>1, <1>2, <1>3, <1>4, <1>5, <1>6, <1>7, EngineSteps DEF Next, Environment

LEMMA ChosenStays ==
  ASSUME need' = need, troubled \subseteq troubled'
  PROVE  \A s : (Chosen(s) => Chosen(s)') /\ (Allowed(s) => Allowed(s)')
BY DEF Chosen, Allowed

(* The fallback chooses from what is listed; whoever is not listed is down, *)
(* or is the component that failed, or is too small.                       *)
LEMMA FallbackIsDecent ==
  ASSUME TypeOK, TroubleInv, pc = "diagnose", NEW class, NEW n, NEW repeated,
         NEW candidates \in {Listed(failing, failure.component, need), {}}
  PROVE  Decent(FallbackPlan(class, n, repeated, candidates, need))
<1> DEFINE permitted == {s \in candidates : Permitted(s, need)}
<1>1. permitted # {} => Decent(SwitchTo(Best(permitted)))
  <2> SUFFICES ASSUME permitted # {} PROVE Decent(SwitchTo(Best(permitted))) OBVIOUS
  <2>1. permitted \in SUBSET Suppliers BY DEF Listed
  <2>2. Best(permitted) \in permitted /\ \A t \in permitted : Preferred(Best(permitted), t)
    <3> HIDE DEF permitted
    <3>. QED BY <2>1, BestIsOne
  <2>3. \A t \in Suppliers \ troubled : Permitted(t, need) => t \in permitted
    BY DEF Listed, Permitted, TroubleInv
  <2>4. Best(permitted) \in Suppliers /\ Chosen(Best(permitted))
    BY <2>1, <2>2, <2>3 DEF Chosen
  <2> HIDE DEF permitted
  <2>. QED BY <2>4 DEF SwitchTo, Decent
<1>. QED BY <1>1, ConstantsAreDecent DEF FallbackPlan

LEMMA FactsNext ==
  ASSUME Deterministic, TypeOK, Staged, FactsInv, TroubleInv, [Next]_vars
  PROVE  FactsInv'
<1>1. need' = need /\ troubled \subseteq troubled' BY FactsSteps
<1>2. \A s : (Chosen(s) => Chosen(s)') /\ (Allowed(s) => Allowed(s)') BY <1>1, ChosenStays
<1>3. /\ \A c : Agrees(c) => c.amount \in {NoAmount, Price(c.supplier)'} /\ Allowed(c.supplier)'
      /\ \A s : Fits(s)' <=> Fits(s)
  BY <1>1, <1>2 DEF Agrees, Price, Fits
<1>4. /\ Agrees(context)' /\ Agrees(checkpoint)'
      /\ pc' \notin Ahead => checkpoint' = context'
      /\ Fits(context.supplier) /\ Fits(checkpoint.supplier)
           => Fits(context.supplier)' /\ Fits(checkpoint.supplier)'
  <2>1. CASE context' = context /\ checkpoint' = context
    BY <1>3, <2>1 DEF FactsInv, Agrees
  <2>2. CASE /\ context' = context /\ checkpoint' = checkpoint
             /\ pc' \in Ahead \/ pc \notin Ahead
    BY <1>3, <2>2 DEF FactsInv, Agrees
  <2>3. CASE /\ pc' = "saved" /\ checkpoint' = checkpoint
             /\ context' = [context EXCEPT !.amount = Price(Supplier)]
    <3>1. /\ context'.amount = Price(context.supplier)
          /\ context'.supplier = context.supplier
      BY <2>3 DEF Supplier, TypeOK, Context
    <3>. QED BY <1>1, <1>3, <2>3, <3>1 DEF FactsInv, Agrees, Price, Ahead
  <2>4. CASE /\ Apply /\ ~Hopeless /\ plan.strategy = "USE_ALTERNATIVE_SUPPLIER"
             /\ pc' \in Ahead
    <3>1. context' = Switched /\ checkpoint' = checkpoint BY <2>4 DEF Apply
    <3>2. plan.priced /\ Chosen(plan.supplier) BY <2>4 DEF FactsInv, Decent
    <3>3. context'.amount = Price(plan.supplier) /\ context'.supplier = plan.supplier
      BY <3>1, <3>2 DEF Switched
    <3>4. Fits(plan.supplier) BY <3>2 DEF Chosen, Permitted, Fits
    <3>5. Agrees(context)' BY <1>1, <1>2, <3>2, <3>3 DEF Agrees, Allowed, Price
    <3>. QED BY <1>3, <2>4, <3>1, <3>3, <3>4, <3>5 DEF FactsInv, Agrees
  <2>5. CASE context' = checkpoint /\ checkpoint' = checkpoint
    BY <1>3, <2>5 DEF FactsInv, Agrees
  <2>. QED BY <2>1, <2>2, <2>3, <2>4, <2>5, FactsSteps
<1>5. Decent(plan)'
  <2>1. CASE plan' \in {plan, Escalate}
    BY <1>2, <2>1, ConstantsAreDecent DEF FactsInv, Decent, Escalate
  <2>2. CASE Diagnose
    <3>1. PICK c \in {Listed(failing, failure.component, need), {}} :
            plan' = FallbackPlan(ClassOf(failure.cause), attempt, Repeated, c, need)
      BY <2>2 DEF Diagnose, Planned
    <3>2. Decent(plan') BY <2>2, <3>1, FallbackIsDecent DEF Diagnose
    <3>. QED BY <1>2, <3>2 DEF Decent
  <2>3. CASE OtherPlan
    <3>1. plan' = Escalate BY <2>3 DEF Deterministic, OtherPlan, OtherPlans, Planned
    <3>. QED BY <3>1 DEF Decent, Escalate
  <2>. QED BY <2>1, <2>2, <2>3, PlanSteps
<1>6. stage' >= 2 => Fits(context.supplier)' /\ Fits(checkpoint.supplier)'
  <2>1. CASE stage >= 2 BY <1>4, <2>1 DEF FactsInv
  <2>2. CASE ~(stage >= 2) /\ Succeeding
    <3>1. stage = 1 BY <2>2 DEF TypeOK
    <3>2. pc = "task" /\ Succeed(context) /\ Fits(Supplier)
      BY <2>2, <3>1, SucceedingSucceeds DEF Staged, Fits
    <3>3. checkpoint = context /\ context' = context /\ checkpoint' = checkpoint
      BY <3>2 DEF FactsInv, Ahead, Succeed
    <3>. QED BY <1>3, <3>2, <3>3 DEF Supplier
  <2>. QED BY <2>1, <2>2, PlanSteps
<1>7. \A o \in Ordered' :
        o.amount = Price(o.supplier)' /\ Allowed(o.supplier)' /\ Fits(o.supplier)'
  <2>1. \A o \in Ordered :
          o.amount = Price(o.supplier)' /\ Allowed(o.supplier)' /\ Fits(o.supplier)'
    BY <1>1, <1>2, <1>3 DEF FactsInv, Price
  <2>2. CASE orders' = orders BY <2>1, <2>2 DEF Ordered
  <2>3. CASE Order
    <3>0. PICK p \in Purchase : p = Offer BY OfferIsPurchase
    <3>1. Ordered' = Ordered \cup {p}
      <4>1. orders \in Seq(Purchase) /\ orders' = Append(orders, p)
        BY <2>3, <3>0 DEF Order, TypeOK
      <4>. QED BY <4>1, AppendedIsOrdered DEF Ordered
    <3>2. p.supplier = context.supplier /\ p.amount = Price(context.supplier)
      BY <3>0 DEF FactsInv, Agrees, Offer, Supplier
    <3>3. Fits(p.supplier) /\ Allowed(p.supplier)
      BY <2>3, <3>2 DEF Order, Runs, FactsInv, Agrees
    <3>4. p.amount = Price(p.supplier)' /\ Allowed(p.supplier)' /\ Fits(p.supplier)'
      BY <1>1, <1>2, <1>3, <3>2, <3>3 DEF Price
    <3>. QED BY <2>1, <3>1, <3>4
  <2>. QED BY <2>2, <2>3, PlanSteps
<1>. QED BY <1>4, <1>5, <1>6, <1>7 DEF FactsInv

Grounds == TypeOK /\ Staged /\ FactsInv /\ TroubleInv

LEMMA GroundsHold == Deterministic => (Spec => []Grounds)
<1> SUFFICES ASSUME Deterministic PROVE Spec => []Grounds OBVIOUS
<1>1. Init => Grounds BY TypeInit, FactsInit DEF Init, Staged, Grounds
<1>2. Grounds /\ [Next]_vars => Grounds'
  BY TypeNext, StagedNext, FactsNext, TroubleNext DEF Grounds
<1>. QED BY <1>1, <1>2, PTL DEF Spec

(* The amount of an order is the price of its supplier: switched, approved, *)
(* or run again after a death of the runtime with the facts of whichever   *)
(* checkpoint came last, purchase_amount never describes another           *)
(* supplier's offer.                                                       *)
THEOREM AmountsMatch == Deterministic => (Spec => []PaysThePrice)
<1> SUFFICES ASSUME Deterministic PROVE Spec => []PaysThePrice OBVIOUS
<1>1. Grounds => PaysThePrice BY DEF Grounds, FactsInv, PaysThePrice
<1>. QED BY <1>1, GroundsHold, PTL

(* No order is too large for its supplier; no recovery buys from a supplier *)
(* the mission's needs rule out, or while another that has never been in   *)
(* trouble would have been preferred.                                      *)
THEOREM ChoosesTheBest == Deterministic => (Spec => []BestPermitted)
<1> SUFFICES ASSUME Deterministic PROVE Spec => []BestPermitted OBVIOUS
<1>1. Grounds => BestPermitted
  BY DEF Grounds, FactsInv, BestPermitted, Allowed, Chosen, Permitted, Fits
<1>. QED BY <1>1, GroundsHold, PTL

(***************************************************************************)
(* One purchase                                                            *)
(***************************************************************************)

OfferOf(c) ==
  [supplier |-> c.supplier,
   amount |-> IF c.amount = NoAmount THEN Price(c.supplier) ELSE c.amount]

(* What the mission would buy if it were resumed now is bought for good.   *)
Bought == OfferOf(checkpoint) \in remembered

(* The plan is saved as done, and the amount it worked out is in no        *)
(* checkpoint yet; and that amount is lost.                                *)
Fresh == pc = "saved" /\ stage = 4
Unpriced == stage >= 4 /\ checkpoint.amount = NoAmount /\ ~Fresh

(* Once it is bought, and the amount is known, the mission cannot leave it: *)
(* whatever befalls the task before it is recorded as done, only the       *)
(* operator can bring it back, and to the same offer.                      *)
Committed ==
  stage = 4 /\ Bought /\ ~Unpriced =>
    /\ checkpoint = context
    /\ pc = "diagnose" => ClassOf(failure.cause) = "AUTHORIZATION"
    /\ pc \in {"govern", "asking", "hold", "recovery", "apply"} =>
         plan.strategy = "ESCALATE"

OneIf(b) == IF b THEN 1 ELSE 0

(* An order that is neither remembered nor about to be has cost a lapse; so *)
(* has a lost amount, for which the task may leave even what is bought.    *)
Counted ==
  Len(orders) + OneIf(Unpriced) <= lapses + OneIf(pc = "placed" \/ Bought)

Delivered ==
  stage = 5 =>
    /\ pc \in {"saved", "task", "completed", "gone"}
    /\ Bought /\ checkpoint = context

BuyInv ==
  /\ Counted /\ Committed /\ Delivered
  /\ stage < 4 \/ Fresh => orders = <<>> /\ remembered = {}
  /\ remembered \subseteq Ordered
  /\ stage >= 4 /\ (context # checkpoint \/ Fresh) => context.amount # NoAmount
  /\ pc = "placed" => Offer \in Ordered
  /\ pc = "ordered" => Bought
  /\ pc = "completed" => stage = 5

LEMMA OfferIsOfContext == Offer = OfferOf(context)
BY DEF Offer, OfferOf, Supplier

LEMMA BuyInit == Init => BuyInv
<1> SUFFICES ASSUME Init PROVE BuyInv OBVIOUS
<1>1. /\ stage = 1 /\ pc = "task" /\ orders = <<>> /\ Len(orders) = 0 /\ remembered = {}
      /\ lapses = 0
  BY DEF Init
<1>2. Ordered = {} BY <1>1 DEF Ordered
<1>. QED BY <1>1, <1>2 DEF BuyInv, Counted, OneIf, Committed, Delivered, Fresh, Unpriced

(* Counting, and what leaves it alone                                      *)
LEMMA Numbers ==
  ASSUME TypeOK
  PROVE  /\ Len(orders) \in Nat /\ lapses \in Nat /\ stage \in 1 .. 5
         /\ \A b : OneIf(b) \in {0, 1} /\ (OneIf(b) = 1 <=> b)
BY SourcingAssumption DEF TypeOK, OneIf

(* A step of the recovery, or of a task that fails or waits: the purchase  *)
(* and the facts stay.                                                     *)
LEMMA BuyStill ==
  ASSUME TypeOK, BuyInv, need' = need,
         UNCHANGED <<stage, context, orders, remembered, lapses>>,
         checkpoint = context \/ (pc # "saved" /\ checkpoint' = checkpoint),
         checkpoint' \in {checkpoint, context},
         pc # "placed" \/ pc' = "placed",
         pc' # "saved" \/ pc = "saved",
         pc' = "placed" => pc = "placed",
         pc' = "ordered" => pc = "ordered" \/ Bought,
         pc' = "completed" => stage = 5,
         stage = 5 => pc' \in {"saved", "task", "completed", "gone"},
         stage = 4 /\ Bought /\ ~Unpriced =>
           /\ pc' = "diagnose" => ClassOf(failure'.cause) = "AUTHORIZATION"
           /\ pc' \in {"govern", "asking", "hold", "recovery", "apply"} =>
                plan'.strategy = "ESCALATE"
  PROVE  BuyInv'
<1>1. checkpoint' = checkpoint OBVIOUS
<1>2. \A c : OfferOf(c)' = OfferOf(c') BY DEF OfferOf, Price
<1>3. Ordered' = Ordered /\ (Bought' <=> Bought) /\ Offer' = Offer
  BY <1>1 DEF Ordered, Bought, OfferOf, Offer, Supplier, Price
<1>4. Fresh' => Fresh BY DEF Fresh
<1>5. Unpriced' <=> Unpriced
  BY <1>1 DEF Unpriced, Fresh, BuyInv
<1>6. Counted' BY <1>3, <1>5 DEF BuyInv, Counted
<1>7. Committed' BY <1>1, <1>3, <1>5 DEF BuyInv, Committed, ClassOf
<1>8. Delivered' BY <1>1, <1>3 DEF BuyInv, Delivered
<1>. QED BY <1>1, <1>3, <1>4, <1>6, <1>7, <1>8 DEF BuyInv

(* The same with the facts as the last checkpoint has them                 *)
LEMMA BuyTogether ==
  ASSUME TypeOK, FactsInv, pc \notin Ahead
  PROVE  checkpoint = context /\ Offer = OfferOf(checkpoint) /\ pc # "saved"
BY OfferIsOfContext DEF FactsInv, Ahead

LEMMA BuyFailing ==
  ASSUME TypeOK, FactsInv, BuyInv, Failing
  PROVE  BuyInv'
<1>1. PICK cause \in Causes : pc = "task" /\ Fail(cause) BY FailingFails
<1>2. checkpoint = context /\ Offer = OfferOf(checkpoint) BY <1>1, BuyTogether DEF Ahead
<1>3. stage \in 1 .. 4
  BY DEF Failing, Refused, Outage, NotQuoted, PurchaseDenied, PurchaseRefused,
         SupplyAnalysis, PurchasePlan, Runs
<1>4. stage = 4 /\ Bought /\ ~Unpriced => ClassOf(failure'.cause) = "AUTHORIZATION"
  <2> SUFFICES ASSUME stage = 4, Bought, ~Unpriced
               PROVE  ClassOf(failure'.cause) = "AUTHORIZATION"
    OBVIOUS
  <2>1. ~Outage /\ ~SupplyAnalysis /\ ~PurchasePlan
    BY DEF Outage, SupplyAnalysis, PurchasePlan, Runs
  <2>2. ~NotQuoted BY <1>1, <1>2 DEF NotQuoted, Unpriced, Fresh
  <2>3. ~PurchaseRefused BY <1>2 DEF PurchaseRefused, Known, Bought
  <2>4. Refused \/ PurchaseDenied BY <2>1, <2>2, <2>3 DEF Failing
  <2>. QED BY <2>4 DEF Refused, PurchaseDenied, Fail, ClassOf
<1>. QED BY <1>1, <1>2, <1>3, <1>4, BuyStill DEF Fail, money, deaths

(* Before the plan is done nothing is bought.                              *)
LEMMA BuyNothing ==
  ASSUME TypeOK, UNCHANGED <<orders, remembered, deaths>>,
         orders = <<>>, remembered = {}, stage' \in 1 .. 4,
         stage' = 4 => pc' = "saved" /\ context'.amount # NoAmount,
         pc' \notin {"placed", "ordered", "completed"}
  PROVE  BuyInv'
<1>1. Len(orders') = 0 /\ Ordered' = {} BY DEF Ordered
<1>2. ~Bought' /\ ~Unpriced' BY DEF Bought, Unpriced, Fresh
<1>3. lapses' \in Nat BY SourcingAssumption DEF TypeOK, deaths
<1>4. Counted'
  <2>1. OneIf(Unpriced)' = 0 BY <1>2 DEF OneIf
  <2>2. OneIf(pc = "placed" \/ Bought)' \in {0, 1} BY DEF OneIf
  <2>. QED BY <1>1, <1>3, <2>1, <2>2 DEF Counted
<1>5. stage' # 5 /\ (stage' >= 4 => stage' = 4) OBVIOUS
<1>6. Committed' /\ Delivered' BY <1>2, <1>5 DEF Committed, Delivered
<1>. QED BY <1>1, <1>4, <1>5, <1>6 DEF BuyInv, Fresh

LEMMA BuySucceeding ==
  ASSUME TypeOK, Staged, FactsInv, BuyInv, Succeeding, need' = need
  PROVE  BuyInv'
<1>1. CASE /\ pc = "task" /\ stage \in 1 .. 2 /\ Succeed(context)
  BY <1>1, BuyNothing DEF Succeed, BuyInv, money, deaths
<1>2. CASE /\ pc = "task" /\ stage = 3
           /\ Succeed([context EXCEPT !.amount = Price(Supplier)])
  <2>1. Price(Supplier) \in Nat BY PriceIsNat DEF TypeOK, Context, Supplier
  <2>2. context'.amount # NoAmount
    BY <1>2, <2>1 DEF Succeed, TypeOK, Context, NoAmount
  <2>. QED BY <1>2, <2>2, BuyNothing DEF Succeed, BuyInv, money, deaths
<1>3. CASE pc = "ordered" /\ Succeed(context)
  <2>1. /\ checkpoint = context /\ stage = 4 /\ stage' = 5 /\ pc' = "saved"
        /\ UNCHANGED <<context, checkpoint, orders, remembered, lapses>>
    BY <1>3, BuyTogether DEF Succeed, Staged, Ahead, money, deaths
  <2>2. /\ Bought /\ Bought' /\ (Unpriced' <=> Unpriced) /\ Ordered' = Ordered
        /\ ~Fresh'
    BY <1>3, <2>1 DEF BuyInv, Bought, OfferOf, Price, Unpriced, Fresh, Ordered
  <2>3. Counted' BY <1>3, <2>1, <2>2, Numbers DEF BuyInv, Counted, OneIf
  <2>. QED BY <1>3, <2>1, <2>2, <2>3 DEF BuyInv, Committed, Delivered
<1>. QED BY <1>1, <1>2, <1>3, SucceedingSucceeds

LEMMA BuyOrder ==
  ASSUME TypeOK, FactsInv, BuyInv, Order
  PROVE  BuyInv'
<1>1. /\ pc = "task" /\ pc' = "placed" /\ stage = 4 /\ checkpoint = context
      /\ Offer = OfferOf(checkpoint) /\ orders' = Append(orders, Offer)
      /\ UNCHANGED <<need, stage, context, checkpoint, remembered, lapses>>
  BY BuyTogether DEF Order, Runs, Ahead, deaths
<1>2. Ordered' = Ordered \cup {Offer}
  <2>1. orders \in Seq(Purchase) /\ Offer \in Purchase BY OfferIsPurchase DEF TypeOK
  <2>. QED BY <1>1, <2>1, AppendedIsOrdered DEF Ordered
<1>3. Len(orders') = Len(orders) + 1 BY <1>1, OfferIsPurchase DEF TypeOK
<1>4. ~Bought /\ ~Bought' /\ (Unpriced' <=> Unpriced) /\ Offer' = Offer /\ ~Fresh'
  BY <1>1 DEF Order, Known, Bought, OfferOf, Price, Unpriced, Fresh, Offer, Supplier
<1>5. Counted' BY <1>1, <1>3, <1>4, Numbers DEF BuyInv, Counted, OneIf
<1>. QED BY <1>1, <1>2, <1>4, <1>5 DEF BuyInv, Committed, Delivered

LEMMA BuyRemember ==
  ASSUME TypeOK, Staged, FactsInv, BuyInv, Remember
  PROVE  BuyInv'
<1>1. /\ pc = "placed" /\ pc' = "ordered" /\ stage = 4 /\ checkpoint = context
      /\ Offer = OfferOf(checkpoint) /\ remembered' = remembered \cup {Offer}
      /\ UNCHANGED <<need, stage, context, checkpoint, orders, lapses>>
  BY BuyTogether DEF Remember, Ahead, Staged, deaths
<1>2. /\ Bought' /\ (Unpriced' <=> Unpriced) /\ Ordered' = Ordered /\ ~Fresh'
  BY <1>1 DEF Bought, OfferOf, Price, Unpriced, Fresh, Ordered
<1>3. Counted' BY <1>1, <1>2 DEF BuyInv, Counted, OneIf
<1>. QED BY <1>1, <1>2, <1>3 DEF BuyInv, Committed, Delivered

(* The next checkpoint: of a task that is done, and of one put back to     *)
(* PENDING, which may have another supplier than the last one.             *)
LEMMA BuyAdvance ==
  ASSUME TypeOK, BuyInv, Advance
  PROVE  BuyInv'
<1>1. /\ pc = "saved" /\ pc' = "task" /\ checkpoint' = context
      /\ UNCHANGED <<need, stage, context, orders, remembered, deaths, lapses>>
  BY DEF Advance, money, deaths
<1>2. CASE stage < 4 BY <1>1, <1>2, BuyNothing, Numbers DEF BuyInv
<1>3. CASE stage = 4
  <2>1. orders = <<>> /\ remembered = {} /\ context.amount # NoAmount
    BY <1>1, <1>3 DEF BuyInv, Fresh
  <2>2. Len(orders') = 0 /\ Ordered' = {} BY <1>1, <2>1 DEF Ordered
  <2>3. ~Bought' /\ ~Unpriced' /\ ~Fresh' BY <1>1, <2>1 DEF Bought, Unpriced, Fresh
  <2>. QED BY <1>1, <1>3, <2>1, <2>2, <2>3, Numbers
           DEF BuyInv, Counted, OneIf, Committed, Delivered
<1>4. CASE stage = 5
  <2>1. checkpoint = context BY <1>4 DEF BuyInv, Delivered
  <2>. QED BY <1>1, <1>4, <2>1, BuyStill
<1>. QED BY <1>2, <1>3, <1>4, Numbers

LEMMA BuyRecord ==
  ASSUME TypeOK, BuyInv, Record
  PROVE  BuyInv'
<1>1. /\ pc = "reset_done" /\ pc' = "task" /\ checkpoint' = context
      /\ UNCHANGED <<need, stage, context, orders, remembered, deaths, lapses>>
  BY DEF Record, money, deaths
<1>2. CASE checkpoint = context BY <1>1, <1>2, BuyStill
<1>3. CASE checkpoint # context /\ stage < 4
  <2>1. orders = <<>> /\ remembered = {} BY <1>3 DEF BuyInv
  <2>2. stage' \in 1 .. 3 BY <1>1, <1>3, Numbers
  <2>. QED BY <1>1, <2>1, <2>2, BuyNothing
<1>4. CASE checkpoint # context /\ stage >= 4
  <2>1. stage = 4 /\ context.amount # NoAmount
    BY <1>1, <1>4, Numbers DEF BuyInv, Delivered
  <2>2. ~(Bought /\ ~Unpriced) BY <1>4, <2>1 DEF BuyInv, Committed
  <2>3. ~Unpriced' /\ ~Fresh' /\ Ordered' = Ordered
    BY <1>1, <2>1 DEF Unpriced, Fresh, Ordered
  <2>4. Len(orders) <= lapses
    BY <1>1, <2>2, Numbers DEF BuyInv, Counted, OneIf
  <2>5. Counted' BY <1>1, <2>3, <2>4, Numbers DEF Counted, OneIf
  <2>. QED BY <1>1, <2>1, <2>3, <2>5 DEF BuyInv, Committed, Delivered
<1>. QED BY <1>2, <1>3, <1>4, Numbers

LEMMA BuyProceeding ==
  ASSUME TypeOK, Staged, FactsInv, BuyInv, Proceeding, need' = need
  PROVE  BuyInv'
<1>1. CASE AskForPurchase
  <2>1. pc = "task" /\ stage = 4 /\ checkpoint = context
    BY <1>1, BuyTogether DEF AskForPurchase, Runs, Ahead
  <2>. QED BY <1>1, <2>1, BuyStill DEF AskForPurchase, money, deaths
<1>2. CASE Replay
  <2>1. pc = "task" /\ stage = 4 /\ checkpoint = context /\ Bought
    BY <1>2, BuyTogether DEF Replay, Runs, Ahead, Known, Bought
  <2>. QED BY <1>2, <2>1, BuyStill DEF Replay, money, deaths
<1>3. CASE Complete
  <2>1. pc = "task" /\ stage = 5 /\ checkpoint = context
    BY <1>3, BuyTogether DEF Complete, Ahead
  <2>. QED BY <1>3, <2>1, BuyStill DEF Complete, money, deaths
<1>. QED BY <1>1, <1>2, <1>3, BuyOrder, BuyRemember, BuyAdvance DEF Proceeding

LEMMA BuyApply ==
  ASSUME TypeOK, FactsInv, BuyInv, Apply, need' = need
  PROVE  BuyInv'
<1>1. /\ pc = "apply" /\ pc' \in {"failed", "reassess", "reset"} /\ checkpoint = context
      /\ UNCHANGED <<stage, checkpoint, orders, remembered, lapses>>
  BY BuyTogether DEF Apply, Ahead, money, deaths
<1>2. stage # 5 BY <1>1 DEF BuyInv, Delivered
<1>3. CASE context' = context BY <1>1, <1>2, <1>3, BuyStill
<1>4. CASE context' # context
  <2>1. /\ plan.strategy = "USE_ALTERNATIVE_SUPPLIER" /\ context' = Switched
    BY <1>4 DEF Apply
  <2>2. context'.amount # NoAmount
    <3>1. plan.priced /\ plan.supplier \in Suppliers BY <2>1 DEF FactsInv, Decent
    <3>2. Price(plan.supplier) \in Nat BY <3>1, PriceIsNat
    <3>. QED BY <2>1, <3>1, <3>2 DEF Switched, NoAmount
  <2>3. ~(stage = 4 /\ Bought /\ ~Unpriced) BY <1>1, <2>1 DEF BuyInv, Committed
  <2>4. /\ (Bought' <=> Bought) /\ (Unpriced' <=> Unpriced) /\ ~Fresh /\ ~Fresh'
        /\ Ordered' = Ordered
    BY <1>1 DEF Bought, OfferOf, Price, Unpriced, Fresh, Ordered
  <2>5. Counted' BY <1>1, <2>4, Numbers DEF BuyInv, Counted, OneIf
  <2>. QED BY <1>1, <1>2, <2>2, <2>3, <2>4, <2>5 DEF BuyInv, Committed, Delivered
<1>. QED BY <1>3, <1>4

LEMMA BuyRecovering ==
  ASSUME Deterministic, TypeOK, FactsInv, BuyInv, Recovering, need' = need
  PROVE  BuyInv'
<1>1. CASE Diagnose
  <2>1. pc = "diagnose" /\ pc' = "govern" /\ checkpoint = context /\ stage # 5
    BY <1>1, BuyTogether DEF Diagnose, Planned, Ahead, BuyInv, Delivered
  <2>2. stage = 4 /\ Bought /\ ~Unpriced => plan'.strategy = "ESCALATE"
    <3>1. SUFFICES ASSUME stage = 4, Bought, ~Unpriced PROVE plan'.strategy = "ESCALATE"
      OBVIOUS
    <3>2. ClassOf(failure.cause) \in SafeHoldClasses
      BY <2>1, <3>1 DEF BuyInv, Committed, SafeHoldClasses
    <3>3. plan' = Escalate BY <1>1, <3>2 DEF Diagnose, Planned, FallbackPlan
    <3>. QED BY <3>3 DEF Escalate
  <2>. QED BY <1>1, <2>1, <2>2, BuyStill DEF Diagnose, Planned, money, deaths
<1>2. CASE OtherPlan
  <2>1. pc = "diagnose" /\ pc' = "govern" /\ checkpoint = context /\ stage # 5
    BY <1>2, BuyTogether DEF OtherPlan, Planned, Ahead, BuyInv, Delivered
  <2>2. plan' = Escalate BY <1>2 DEF Deterministic, OtherPlan, OtherPlans, Planned
  <2>3. plan'.strategy = "ESCALATE" BY <2>2 DEF Escalate
  <2>. QED BY <1>2, <2>1, <2>3, BuyStill DEF OtherPlan, Planned, money, deaths
<1>3. CASE Govern \/ Note \/ Hold
  <2>1. /\ pc \in {"govern", "asking", "hold"} /\ checkpoint = context /\ stage # 5
        /\ pc' \in {"apply", "asking", "hold", "recovery"}
    BY <1>3, BuyTogether DEF Govern, Note, Hold, Ahead, BuyInv, Delivered
  <2>. QED BY <1>3, <2>1, BuyStill DEF Govern, Note, Hold, money, deaths, BuyInv, Committed
<1>4. CASE Reset
  <2>1. pc = "reset" /\ pc' \in {"failed", "reset_done"} /\ stage # 5
    BY <1>4 DEF Reset, BuyInv, Delivered
  <2>. QED BY <1>4, <2>1, BuyStill DEF Reset, money, deaths
<1>. QED BY <1>1, <1>2, <1>3, <1>4, BuyApply, BuyRecord DEF Recovering

LEMMA BuyCrash ==
  ASSUME TypeOK, Staged, FactsInv, BuyInv, Crash
  PROVE  BuyInv'
<1>1. /\ pc' = "gone"
      /\ UNCHANGED <<need, stage, context, checkpoint, orders, remembered>>
  BY DEF Crash, money
<1>2. CASE ~Torn
  BY <1>1, <1>2, BuyStill DEF Crash, Torn, BuyInv, Delivered
<1>3. CASE Torn
  <2>1. lapses' = lapses + 1 /\ stage # 5
    BY <1>3 DEF Crash, Torn, Staged, BuyInv, Delivered
  <2>2. (Bought' <=> Bought) /\ ~Fresh' /\ Ordered' = Ordered
    BY <1>1 DEF Bought, OfferOf, Price, Fresh, Ordered
  <2>3. CASE pc = "placed"
    <3>1. stage = 4 /\ checkpoint = context
      BY <2>3, BuyTogether DEF Staged, Ahead
    <3>2. Unpriced' <=> Unpriced BY <1>1, <2>3 DEF Unpriced, Fresh
    <3>3. Counted' BY <1>1, <2>1, <2>2, <2>3, <3>2, Numbers DEF BuyInv, Counted, OneIf
    <3>. QED BY <1>1, <2>1, <2>2, <2>3, <3>1, <3>3
             DEF BuyInv, Committed, Delivered, Fresh
  <2>4. CASE pc = "saved"
    <3>1. orders = <<>> /\ remembered = {} BY <2>1, <2>4, Numbers DEF BuyInv, Fresh
    <3>2. Len(orders') = 0 /\ ~Bought' BY <1>1, <2>2, <3>1 DEF Bought
    <3>3. Counted' BY <2>1, <3>2, Numbers DEF Counted, OneIf
    <3>. QED BY <1>1, <2>1, <2>2, <2>4, <3>1, <3>2, <3>3
             DEF BuyInv, Committed, Delivered, Fresh
  <2>. QED BY <1>3, <2>3, <2>4 DEF Torn
<1>. QED BY <1>2, <1>3

LEMMA BuyOthers ==
  ASSUME TypeOK, Staged, FactsInv, BuyInv, Environment \/ UNCHANGED vars, need' = need
  PROVE  BuyInv'
<1>1. CASE Approve
  <2>1. /\ pc \in {"recovery", "purchase"} /\ pc' \in {"task", "reset", "apply"}
        /\ checkpoint = context /\ stage # 5
    BY <1>1, BuyTogether DEF Approve, Waiting, Ahead, BuyInv, Delivered
  <2>2. stage = 4 /\ Bought /\ ~Unpriced => pc' # "apply"
    BY <1>1, <2>1 DEF Approve, BuyInv, Committed
  <2>. QED BY <1>1, <2>1, <2>2, BuyStill DEF Approve, deaths
<1>2. CASE Reject
  <2>1. pc \in {"recovery", "purchase"} /\ stage # 5
    BY <1>2 DEF Reject, Waiting, BuyInv, Delivered
  <2>. QED BY <1>2, <2>1, BuyStill DEF Reject, money, deaths
<1>3. CASE Resume
  <2>1. /\ pc \in {"gone", "reassess"} /\ context' = checkpoint /\ pc' = "task"
        /\ UNCHANGED <<checkpoint, stage, orders, remembered, lapses>>
    BY <1>3 DEF Resume, money, deaths
  <2>2. /\ (Bought' <=> Bought) /\ (Unpriced' <=> Unpriced) /\ ~Fresh /\ ~Fresh'
        /\ Ordered' = Ordered
    BY <2>1 DEF Bought, OfferOf, Price, Unpriced, Fresh, Ordered
  <2>3. Counted' BY <2>1, <2>2, Numbers DEF BuyInv, Counted, OneIf
  <2>. QED BY <2>1, <2>2, <2>3 DEF BuyInv, Committed, Delivered
<1>4. CASE Operated \/ UNCHANGED vars
  <2>1. UNCHANGED mission
    BY <1>4 DEF Operated, SupplierFails, SupplierRestored, Suspend, Readmit, vars
  <2>. QED BY <2>1 DEF mission, money, deaths, BuyInv, Counted, Committed, Delivered, Bought,
                       OfferOf, Price, Unpriced, Fresh, Ordered, Offer, Supplier, ClassOf
<1>. QED BY <1>1, <1>2, <1>3, <1>4, BuyCrash DEF Environment

(* One order, and one more at most for every death of the runtime between  *)
(* an order and its record, or between a task and its checkpoint; and a    *)
(* completed mission has bought what its facts name.                       *)
THEOREM OnePurchase == Deterministic => (Spec => []BuysOnce)
<1> SUFFICES ASSUME Deterministic PROVE Spec => []BuysOnce OBVIOUS
<1>1. Init => BuyInv BY BuyInit
<1>2. Grounds /\ BuyInv /\ [Next]_vars => BuyInv'
  BY BuyFailing, BuySucceeding, BuyProceeding, BuyRecovering, BuyOthers, EngineSteps,
     FactsSteps DEF Next, Grounds
<1>3. Grounds /\ BuyInv => BuysOnce
  <2>1. SUFFICES ASSUME Grounds, BuyInv PROVE BuysOnce OBVIOUS
  <2>2. Len(orders) <= 1 + lapses BY <2>1, Numbers DEF BuyInv, Counted, Grounds
  <2>3. pc = "completed" => Offer \in Ordered
    BY <2>1, OfferIsOfContext DEF BuyInv, Delivered, Bought
  <2>. QED BY <2>2, <2>3 DEF BuysOnce
<1>. QED BY <1>1, <1>2, <1>3, GroundsHold, PTL DEF Spec

(***************************************************************************)
(* One question                                                            *)
(***************************************************************************)

(* What has been asked about is given up, by the fallback.                 *)
GivesUp ==
  /\ pc = "govern" /\ failure \in asked /\ ClassOf(failure.cause) # "AUTHORIZATION"
  /\ failure.cause # "other"
  => plan.strategy = "ABORT"

(* Plans are made in one place, and put to the operator in one.            *)
LEMMA WhoGoverns ==
  ASSUME TypeOK, Next, pc' \in {"govern", "asking"}, pc' # pc
  PROVE  (pc' = "govern" /\ (Diagnose \/ OtherPlan)) \/ (pc' = "asking" /\ Govern)
<1>1. ~Failing BY FailingFails DEF Fail
<1>2. ~Succeeding BY SucceedingSucceeds DEF Succeed
<1>3. ~Proceeding
  BY DEF Proceeding, AskForPurchase, Replay, Order, Remember, Advance, Complete
<1>4. CASE Recovering
  BY <1>4 DEF Recovering, Diagnose, OtherPlan, Planned, Govern, Note, Hold, Apply, Reset,
              Record
<1>5. ~Environment
  BY DEF Environment, Approve, Reject, Crash, Resume, Operated, SupplierFails,
         SupplierRestored, Suspend, Readmit, mission
<1>. QED BY <1>1, <1>2, <1>3, <1>4, <1>5, EngineSteps DEF Next

LEMMA GivesUpNext == TypeOK /\ GivesUp /\ [Next]_vars => GivesUp'
<1> SUFFICES ASSUME TypeOK, GivesUp, [Next]_vars, pc' = "govern" PROVE GivesUp'
  BY DEF GivesUp
<1>1. CASE Diagnose
  <2>1. failure' = failure /\ asked' = asked BY <1>1 DEF Diagnose, Planned
  <2>2. ClassOf(failure.cause) = "AUTHORIZATION" \/ ClassOf(failure.cause) \notin SafeHoldClasses
    BY DEF ClassOf, SafeHoldClasses
  <2>3. ClassOf(failure.cause) \notin SafeHoldClasses /\ Repeated => plan' = Abort
    BY <1>1 DEF Diagnose, Planned, FallbackPlan
  <2>. QED BY <2>1, <2>2, <2>3 DEF GivesUp, Repeated, Abort, Escalate, ClassOf
<1>2. CASE OtherPlan
  <2>1. failure'.cause = "other" BY <1>2 DEF OtherPlan
  <2>. QED BY <2>1 DEF GivesUp
<1>3. CASE pc = "govern"
  <2>1. UNCHANGED <<pc, failure, asked, plan>>
    <3>1. CASE UNCHANGED vars BY <3>1 DEF vars, mission
    <3>2. CASE Operated
      BY <3>2 DEF Operated, SupplierFails, SupplierRestored, Suspend, Readmit, mission
    <3>3. ~Failing BY <1>3, FailingFails
    <3>4. ~Succeeding BY <1>3, SucceedingSucceeds
    <3>5. ~Proceeding
      BY <1>3 DEF Proceeding, AskForPurchase, Replay, Order, Remember, Advance, Complete,
                  Runs
    <3>6. ~Recovering
      BY <1>3 DEF Recovering, Diagnose, OtherPlan, Govern, Note, Hold, Apply, Reset, Record
    <3>7. ~(Approve \/ Reject \/ Crash \/ Resume)
      BY <1>3 DEF Approve, Reject, Crash, Resume, Waiting
    <3>. QED BY <3>1, <3>2, <3>3, <3>4, <3>5, <3>6, <3>7, EngineSteps DEF Next, Environment
  <2>. QED BY <2>1 DEF GivesUp, ClassOf
<1>4. CASE pc # "govern"
  <2>1. Next BY <1>4 DEF vars, mission
  <2>2. Diagnose \/ OtherPlan BY <1>4, <2>1, WhoGoverns
  <2>. QED BY <1>1, <1>2, <2>2
<1>. QED BY <1>3, <1>4

(* The operator is not asked again about a dependency once a question with *)
(* its diagnosis is on record, whatever fails, crashes and resumes between. *)
(* This is about the plans of the fallback: it always asks about a failure *)
(* of authority, and a plan in a model's own words may repeat itself.      *)
THEOREM NoSecondQuestion == Spec => AsksOnce
<1>1. Init => GivesUp BY DEF Init, GivesUp
<1>2. TypeOK /\ GivesUp /\ [Next]_vars =>
        [Question => failure \notin asked \/ ClassOf(failure.cause) = "AUTHORIZATION"
                       \/ failure.cause = "other"]_vars
  <2>1. SUFFICES ASSUME TypeOK, GivesUp, Next, pc # "asking", pc' = "asking"
                 PROVE  \/ failure \notin asked \/ ClassOf(failure.cause) = "AUTHORIZATION"
                        \/ failure.cause = "other"
    BY DEF Question
  <2>2. Govern BY <2>1, WhoGoverns
  <2>3. Evaluate(RecoveryRequest) # "ALLOW" /\ pc = "govern" BY <2>1, <2>2 DEF Govern
  <2>4. plan.strategy # "ABORT"
    BY <2>3 DEF RecoveryRequest, Evaluate, Forbidden, ReadOnly
  <2>. QED BY <2>1, <2>3, <2>4 DEF GivesUp
<1>. QED BY <1>1, <1>2, GivesUpNext, SourcingTypes, PTL DEF Spec, AsksOnce

=============================================================================
