------------------------------- MODULE Sourcing -------------------------------
(***************************************************************************)
(* What one mission buys: the four tasks of PROTECT_PRODUCTION as the       *)
(* agents work them out, the simulated suppliers, which fail and recover   *)
(* whenever their operator says so, the plans of the Failure Twin, and the *)
(* facts of the mission (MissionContext), which the agents read, the engine *)
(* and the recovery write, and a resume takes back from the checkpoint.    *)
(*                                                                         *)
(* MissionEngine is about who may do what when; here a task runs once at a *)
(* time, and what counts is the data: which supplier, which amount.  The   *)
(* runtime may die between any two of the writes that tell these apart.    *)
(***************************************************************************)
EXTENDS FailureTwin, Sequences

CONSTANTS
  Primary,      \* primary_supplier
  Needs,        \* the volumes and deadlines a mission is created with
  Mode,         \* ACC_AGENT_MODE of the Failure Twin
  Fallible,     \* the suppliers that may be down
  Suspendable,  \* the agents the operator may suspend
  MaxAttempts,  \* Task.max_attempts
  MaxCrashes    \* bound on the deaths of the runtime

AgentOf == <<"supply-agent", "risk-agent", "procurement-agent", "procurement-agent">>
Agents == {"supply-agent", "risk-agent", "procurement-agent"}

ASSUME SourcingAssumption ==
  /\ Primary \in Suppliers /\ None \notin Suppliers
  /\ Needs \subseteq Need /\ Fallible \subseteq Suppliers /\ Suspendable \subseteq Agents
  /\ Mode \in {"deterministic", "hybrid"}
  /\ MaxAttempts \in Nat \ {0} /\ MaxCrashes \in Nat

VARIABLES
  need,         \* of this mission
  failing,      \* the suppliers that are down
  suspended,    \* the agents the operator has suspended
  stage,        \* the task at hand: 1 .. 4, and 5 when all are COMPLETED
  attempt,      \* its attempt
  context,      \* mission.context: the supplier (selected, or primary) and the amount
  checkpoint,   \* the context_snapshot of the last checkpoint
  pc,           \* how far the engine is with the task
  failure,      \* while the task recovers, what it failed of
  plan,         \* and the plan being decided on or applied
  asked,        \* diagnoses of the recoveries that record their approval_id
  granted,      \* the purchases the operator has approved
  remembered,   \* keys of the idempotency store
  orders,       \* the purchases the enterprise has recorded
  crashes,
  lapses,       \* history: deaths between two writes that belong together (Torn)
  troubled      \* history: the suppliers that were ever down, or failed a task

world == <<failing, suspended>>
money == <<granted, remembered, orders>>
deaths == <<crashes, lapses>>
mission == <<need, stage, attempt, context, checkpoint, pc, failure, plan,
             asked, money, deaths>>
vars == <<mission, world, troubled>>

Context == [supplier : Suppliers, amount : Nat \cup {NoAmount}]

(* A diagnosis: the component, and what the agent or the engine says of it; *)
(* "other" stands for words the fallback never uses.                       *)
Causes == {"unreachable", "short", "no_price", "no_amount", "refused", "outage",
           "denied", "suspended", "other"}
Diagnosis == [component : Suppliers, cause : Causes]
NoFailure == [component |-> Primary, cause |-> "other"]

ClassOf(cause) ==
  IF cause \in {"denied", "suspended"} THEN "AUTHORIZATION" ELSE "DEPENDENCY"

(* "task": the agent of the task is to be run; "placed": the enterprise has *)
(* the order; "ordered": and idempotency its key; "saved": the task is     *)
(* saved as COMPLETED; "diagnose", "govern", "apply": recover; "asking": an *)
(* approval is requested; "hold": and recorded; "reset": _apply_directive; *)
(* "reset_done": its checkpoint is still to come; "recovery", "purchase":  *)
(* WAITING_APPROVAL; "reassess": AT_RISK until someone resumes; "gone":    *)
(* the runtime died.                                                       *)
Working == {"task", "placed", "ordered", "saved", "diagnose", "govern", "asking",
            "hold", "apply", "reset", "reset_done"}
Waiting == {"recovery", "purchase"}
Ended == {"completed", "failed"}
Steps == Working \cup Waiting \cup Ended \cup {"reassess", "gone"}

Supplier == context.supplier
Price(s) == Catalogue[s].price * need.units

Init ==
  /\ need \in Needs
  /\ failing = {} /\ suspended = {}
  /\ stage = 1 /\ attempt = 1
  /\ context = [supplier |-> Primary, amount |-> NoAmount]
  /\ checkpoint = context
  /\ pc = "task"
  /\ failure = NoFailure /\ plan = Escalate
  /\ asked = {} /\ granted = {} /\ remembered = {} /\ orders = <<>>
  /\ crashes = 0 /\ lapses = 0 /\ troubled = {}

(***************************************************************************)
(* Running a task                                                          *)
(***************************************************************************)

Runs(n) == pc = "task" /\ stage = n /\ AgentOf[n] \notin suspended

(* _absorb_result and save_task with COMPLETED                             *)
Succeed(c) ==
  /\ pc' = "saved"
  /\ context' = c
  /\ stage' = stage + 1 /\ attempt' = 1
  /\ UNCHANGED <<need, world, checkpoint, failure, plan, asked, money, deaths,
                 troubled>>

(* save_mission and the checkpoint that every type of task has             *)
Advance ==
  /\ pc = "saved"
  /\ pc' = "task" /\ checkpoint' = context
  /\ UNCHANGED <<need, world, stage, attempt, context, failure, plan, asked,
                 money, deaths, troubled>>

(* _on_task_failure, up to the Failure Twin                                *)
Fail(cause) ==
  /\ failure' = [component |-> Supplier, cause |-> cause]
  /\ troubled' = troubled \cup {Supplier}
  /\ checkpoint' = context
  /\ pc' = "diagnose"
  /\ UNCHANGED <<need, world, stage, attempt, context, plan, asked, money, deaths>>

Refused ==
  /\ pc = "task" /\ stage \in 1 .. 4 /\ AgentOf[stage] \in suspended
  /\ Fail("suspended")

(* The enterprise or its breaker does not answer, whatever the supplier.   *)
Outage == \E n \in 1 .. 3 : Runs(n) /\ Fail("outage")

SupplyAnalysis ==
  /\ Runs(1)
  /\ IF Supplier \in failing THEN Fail("unreachable")
     ELSE IF Catalogue[Supplier].capacity < need.units THEN Fail("short")
     ELSE Succeed(context)

(* Its verdict, ACCEPT or REJECT, is a finding the engine does not act on. *)
RiskAssessment == Runs(2) /\ Succeed(context)

PurchasePlan ==
  /\ Runs(3)
  /\ IF Supplier \in failing THEN Fail("no_price")
     ELSE Succeed([context EXCEPT !.amount = Price(Supplier)])

Offer == [supplier |-> Supplier,
          amount |-> IF context.amount = NoAmount THEN Price(Supplier)
                     ELSE context.amount]

Purchase == [supplier : Suppliers, amount : Nat]

Verdict(offer) ==
  Evaluate([identified |-> TRUE, authority |-> "SUPERVISED", risk |-> "HIGH",
            capability |-> "purchase.execute", amount |-> offer.amount])

Authorised(offer) ==
  \/ Verdict(offer) = "ALLOW"
  \/ Verdict(offer) = "APPROVAL_REQUIRED" /\ offer \in granted

(* Mutant: idempotency is not looked up.                                   *)
NeverKnown(offer) == FALSE

Known(offer) == offer \in remembered

(* _execute looks the price up if the facts have no amount.                *)
Quoted == context.amount # NoAmount \/ Supplier \notin failing

NotQuoted == Runs(4) /\ context.amount = NoAmount /\ Fail("no_amount")

(* and then, through the gateway: denied, asked for, replayed or ordered.  *)
PurchaseDenied == Runs(4) /\ Quoted /\ Verdict(Offer) = "DENY" /\ Fail("denied")

AskForPurchase ==
  /\ Runs(4) /\ Quoted
  /\ Verdict(Offer) = "APPROVAL_REQUIRED" /\ Offer \notin granted
  /\ pc' = "purchase" /\ checkpoint' = context
  /\ UNCHANGED <<need, world, stage, attempt, context, failure, plan, asked, money,
                 deaths, troubled>>

Replay ==
  /\ Runs(4) /\ Quoted /\ Authorised(Offer) /\ Known(Offer)
  /\ pc' = "ordered"
  /\ UNCHANGED <<need, world, stage, attempt, context, checkpoint, failure, plan,
                 asked, money, deaths, troubled>>

Order ==
  /\ Runs(4) /\ Authorised(Offer) /\ ~Known(Offer) /\ Supplier \notin failing
  /\ pc' = "placed"
  /\ orders' = Append(orders, Offer)
  /\ UNCHANGED <<need, world, stage, attempt, context, checkpoint, failure, plan,
                 asked, granted, remembered, deaths, troubled>>

Remember ==
  /\ pc = "placed"
  /\ pc' = "ordered"
  /\ remembered' = remembered \cup {Offer}
  /\ UNCHANGED <<need, world, stage, attempt, context, checkpoint, failure, plan,
                 asked, granted, orders, deaths, troubled>>

(* The supplier is down, or the procurement system.                        *)
PurchaseRefused ==
  /\ Runs(4) /\ Quoted /\ Authorised(Offer) /\ ~Known(Offer)
  /\ Fail("refused")

Confirm == pc = "ordered" /\ Succeed(context)

(* advance on the last TASK_COMPLETED: _complete                           *)
Complete ==
  /\ pc = "task" /\ stage = 5
  /\ pc' = "completed" /\ checkpoint' = context
  /\ UNCHANGED <<need, world, stage, attempt, context, failure, plan, asked, money,
                 deaths, troubled>>

(***************************************************************************)
(* Recovery                                                                *)
(***************************************************************************)

(* Mutant: recoveries are listed without their diagnosis, as they once were. *)
Forgotten == FALSE

Repeated == failure \in asked

Planned(p) ==
  /\ plan' = p /\ pc' = "govern"
  /\ UNCHANGED <<need, world, stage, attempt, context, checkpoint, asked, money,
                 deaths, troubled>>

(* The listing may go unanswered, and then there is no alternative.        *)
Diagnose ==
  /\ pc = "diagnose"
  /\ \E candidates \in {Listed(failing, failure.component, need), {}} :
       Planned(FallbackPlan(ClassOf(failure.cause), attempt, Repeated, candidates, need))
  /\ UNCHANGED failure

(* plan_recovery replaces the plan of a twin that failed; a model has its  *)
(* own words for a diagnosis.                                              *)
OtherPlans == {Escalate} \cup (IF Mode = "hybrid" THEN ModelPlans ELSE {})

OtherPlan ==
  /\ pc = "diagnose"
  /\ \E p \in OtherPlans : Planned(p)
  /\ failure' = [failure EXCEPT !.cause = "other"]

RecoveryRequest ==
  [identified |-> TRUE, authority |-> "SUPERVISED", amount |-> NoAmount,
   capability |-> IF plan.strategy = "ABORT" THEN "recovery.abort" ELSE "recovery.apply",
   risk |-> IF plan.approval THEN "HIGH" ELSE plan.impact]

(* The Failure Twin's own authority is SUPERVISED: it is never denied.     *)
Govern ==
  /\ pc = "govern"
  /\ pc' = IF Evaluate(RecoveryRequest) = "ALLOW" THEN "apply" ELSE "asking"
  /\ UNCHANGED <<need, world, stage, attempt, context, checkpoint, failure, plan,
                 asked, money, deaths, troubled>>

(* The recovery is saved with the approval it waits for, which makes its   *)
(* diagnosis one that was put to the operator (was_approved).              *)
Note ==
  /\ pc = "asking"
  /\ pc' = "hold" /\ asked' = asked \cup {failure}
  /\ UNCHANGED <<need, world, stage, attempt, context, checkpoint, failure, plan,
                 money, deaths, troubled>>

(* _apply_directive WAIT_APPROVAL                                          *)
Hold ==
  /\ pc = "hold"
  /\ pc' = "recovery" /\ checkpoint' = context
  /\ UNCHANGED <<need, world, stage, attempt, context, failure, plan, asked, money,
                 deaths, troubled>>

(* Mutant: the supplier is switched and its amount is not.                 *)
SwitchedAtOldAmount == [supplier |-> plan.supplier, amount |-> context.amount]

(* _apply: the new supplier, and its amount if the plan has its price      *)
Switched ==
  [supplier |-> plan.supplier,
   amount |-> IF plan.priced THEN Price(plan.supplier) ELSE context.amount]

(* A plan without a supplier, or an escalation nobody was asked about      *)
Hopeless ==
  \/ plan.strategy \in {"ABORT", "ESCALATE"}
  \/ plan.strategy = "USE_ALTERNATIVE_SUPPLIER" /\ plan.supplier = None

Apply ==
  /\ pc = "apply"
  /\ pc' = IF Hopeless THEN "failed"
           ELSE IF plan.strategy = "WAIT_AND_REASSESS" THEN "reassess"
           ELSE "reset"
  /\ context' = IF plan.strategy = "USE_ALTERNATIVE_SUPPLIER" /\ ~Hopeless
                THEN Switched ELSE context
  /\ UNCHANGED <<need, world, stage, attempt, checkpoint, failure, plan, asked,
                 money, deaths, troubled>>

OutOfAttempts == attempt >= MaxAttempts

(* Mutant: a retry is not counted.                                         *)
SameAttempt == attempt

NextAttempt == attempt + 1

(* _apply_directive RETRY_TASK                                             *)
Reset ==
  /\ pc = "reset"
  /\ IF OutOfAttempts
     THEN pc' = "failed" /\ UNCHANGED attempt
     ELSE pc' = "reset_done" /\ attempt' = NextAttempt
  /\ failure' = NoFailure /\ plan' = Escalate
  /\ UNCHANGED <<need, world, stage, context, checkpoint, asked, money, deaths,
                 troubled>>

Record ==
  /\ pc = "reset_done"
  /\ pc' = "task" /\ checkpoint' = context
  /\ UNCHANGED <<need, world, stage, attempt, context, failure, plan, asked, money,
                 deaths, troubled>>

(***************************************************************************)
(* The operator, the suppliers and the runtime                             *)
(***************************************************************************)

(* on_approval: a purchase is tried again, an escalation retries its task, *)
(* any other plan is applied.                                              *)
Approve ==
  /\ pc \in Waiting
  /\ pc' = IF pc = "purchase" THEN "task"
           ELSE IF plan.strategy = "ESCALATE" THEN "reset"
           ELSE "apply"
  /\ granted' = IF pc = "purchase" THEN granted \cup {Offer} ELSE granted
  /\ checkpoint' = context
  /\ UNCHANGED <<need, world, stage, attempt, context, failure, plan, asked,
                 remembered, orders, deaths, troubled>>

(* REJECTED by the operator, or EXPIRED                                    *)
Reject ==
  /\ pc \in Waiting
  /\ pc' = "failed"
  /\ UNCHANGED <<need, world, stage, attempt, context, checkpoint, failure, plan,
                 asked, money, deaths, troubled>>

SupplierFails(s) ==
  /\ failing' = failing \cup {s} /\ troubled' = troubled \cup {s}
  /\ UNCHANGED <<mission, suspended>>

SupplierRestored(s) ==
  failing' = failing \ {s} /\ UNCHANGED <<mission, suspended, troubled>>

Suspend(a) ==
  suspended' = suspended \cup {a} /\ UNCHANGED <<mission, failing, troubled>>

Readmit(a) ==
  suspended' = suspended \ {a} /\ UNCHANGED <<mission, failing, troubled>>

(* An order that is placed and not remembered, or a task saved as done     *)
(* whose result is in no checkpoint                                        *)
Torn == pc = "placed" \/ (pc = "saved" /\ checkpoint # context)

Crash ==
  /\ pc \in Working /\ crashes < MaxCrashes
  /\ pc' = "gone" /\ crashes' = crashes + 1
  /\ lapses' = IF Torn THEN lapses + 1 ELSE lapses
  /\ failure' = NoFailure /\ plan' = Escalate
  /\ UNCHANGED <<need, world, stage, attempt, context, checkpoint, asked, money,
                 troubled>>

(* resume: the facts come back from the last checkpoint, and the task runs *)
(* again: RUNNING it is put back to PENDING, and FAILED it can be claimed  *)
(* as it is, its recovery given up and its attempt unchanged.              *)
Resume ==
  /\ pc \in {"gone", "reassess"}
  /\ context' = checkpoint
  /\ pc' = "task"
  /\ failure' = NoFailure /\ plan' = Escalate
  /\ UNCHANGED <<need, world, stage, attempt, checkpoint, asked, money, deaths,
                 troubled>>

(* Nothing that happens after the mission has ended is of interest to it.  *)
Operated ==
  /\ pc \notin Ended
  /\ \/ \E s \in Fallible : SupplierFails(s) \/ SupplierRestored(s)
     \/ \E a \in Suspendable : Suspend(a) \/ Readmit(a)

Engine ==
  \/ Refused \/ Outage \/ SupplyAnalysis \/ RiskAssessment \/ PurchasePlan
  \/ NotQuoted \/ PurchaseDenied \/ AskForPurchase \/ Replay \/ Order
  \/ PurchaseRefused \/ Remember \/ Confirm \/ Advance \/ Complete
  \/ Diagnose \/ OtherPlan \/ Govern \/ Note \/ Hold \/ Apply \/ Reset \/ Record

Environment == Approve \/ Reject \/ Crash \/ Resume \/ Operated

Next == Engine \/ Environment

Spec == Init /\ [][Next]_vars

(* The bus delivers, and no agent or tool is waited for beyond its timeout: *)
(* a step of the engine that is due is taken.                              *)
FairSpec == Spec /\ WF_vars(Engine)

(***************************************************************************)
(* Properties                                                              *)
(***************************************************************************)

TypeOK ==
  /\ need \in Needs
  /\ failing \subseteq Fallible /\ suspended \subseteq Suspendable
  /\ stage \in 1 .. 5 /\ attempt \in 1 .. MaxAttempts
  /\ context \in Context /\ checkpoint \in Context
  /\ pc \in Steps
  /\ failure \in Diagnosis /\ plan \in Plan
  /\ asked \subseteq Diagnosis
  /\ granted \subseteq Purchase /\ remembered \subseteq Purchase
  /\ orders \in Seq(Purchase)
  /\ crashes \in 0 .. MaxCrashes /\ lapses \in 0 .. crashes
  /\ troubled \subseteq Suppliers

Ordered == {orders[i] : i \in DOMAIN orders}

(* What is paid is the price of the supplier it is paid to, whatever was   *)
(* planned, switched, resumed or approved in between: purchase_amount is   *)
(* written by the plan task and by the switch, and read much later.        *)
PaysThePrice ==
  \A o \in Ordered : o.amount = Price(o.supplier)

(* A mission buys once, however often its runtime dies and its tasks run   *)
(* again: any further order is down to a death between two writes that     *)
(* belong together, one order each; and a mission that reports COMPLETED   *)
(* has bought what its facts name, from the supplier they name.            *)
BuysOnce ==
  /\ Len(orders) <= 1 + lapses
  /\ pc = "completed" => Offer \in Ordered

(* The README promises the best permitted option.  An order is never too   *)
(* large for its supplier; a supplier that a recovery chose delivers in    *)
(* time, and any other that would have been preferred was down at some     *)
(* time, or failed a task, however listings and suppliers changed meanwhile. *)
BestPermitted ==
  \A s \in {o.supplier : o \in Ordered} :
    /\ Catalogue[s].capacity >= need.units
    /\ s # Primary =>
         /\ Catalogue[s].lead <= need.deadline
         /\ \A t \in Suppliers \ troubled : Permitted(t, need) => Preferred(s, t)

(* A dependency is put to the operator once: if it fails the same way after *)
(* the question was recorded, the fallback gives the mission up (ADR-026). *)
(* Failures of authority are always escalated, and "other" is a diagnosis  *)
(* that is not the fallback's.                                             *)
Question == pc # "asking" /\ pc' = "asking"

AsksOnce ==
  [][Question => failure \notin asked \/ ClassOf(failure.cause) = "AUTHORIZATION"
                 \/ failure.cause = "other"]_vars

(* Suppliers may fail and recover for ever, recoveries switch between      *)
(* them and the operator may approve everything: a mission still comes to  *)
(* rest, ended, or waiting for somebody, or with its runtime gone.         *)
Settles == <>[](pc \notin Working)

=============================================================================
