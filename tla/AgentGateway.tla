---------------------------- MODULE AgentGateway ----------------------------
(***************************************************************************)
(* The Agent Gateway executing purchase.execute, the one consequential     *)
(* capability: identity, capability, policy, approval, idempotency, tool,  *)
(* armor, record, audit; with the approval service and the enterprise      *)
(* system it calls.                                                        *)
(*                                                                         *)
(* A call is one execution of AgentGateway.execute.  Its steps are the     *)
(* code between two store accesses.  With the in-memory store a coroutine  *)
(* suspends only where it awaits the enterprise system or the remote       *)
(* armor; the deployed store suspends at every access, and several         *)
(* instances share it.  OneProcess tells the two apart: see Turn.          *)
(***************************************************************************)
EXTENDS MissionStates, Sequences

CONSTANTS
  Calls,          \* executions of the gateway
  Keys,           \* what build_action_key tells apart: mission, supplier, units, amount
  Agents, Holders,   \* the fleet, and the agents that hold purchase.execute
  Operators,      \* sessions that decide approvals, the expiry sweep's included
  Amount,         \* the amount of an action
  AutonomousMax, ApprovalMax,  \* settings.policy_purchase_*_max
  OneProcess,     \* in-memory store in one process, or the deployed store
  Concurrent,     \* a purchase call may start while another one is under way
  Faults

(* "lost_answer": the call to the enterprise raises after the request left *)
(*                (timeout, or the agent's own timeout cancels it);        *)
(* "crash":       the process dies between two store accesses;             *)
(* "flagged":     Model Armor blocks the answer of the enterprise;         *)
(* "expiry":      approvals outlive their TTL;                             *)
(* "suspension":  operators suspend and reinstate agents.                  *)
GatewayFaults == {"lost_answer", "crash", "flagged", "expiry", "suspension"}

ASSUME GatewayAssumption ==
  /\ Holders \subseteq Agents
  /\ Amount \in [Keys -> Nat] /\ AutonomousMax \in Nat /\ ApprovalMax \in Nat
  /\ AutonomousMax <= ApprovalMax
  /\ OneProcess \in BOOLEAN /\ Concurrent \in BOOLEAN /\ Faults \subseteq GatewayFaults

VARIABLES
  pc,         \* the step a call is at
  request,    \* its key and agent
  asked,      \* the approval it refers to, 0 for None
  answer,     \* the ToolActionResult it returned
  approvals,  \* the approvals, in the order requested
  endorsed,   \* history: the actions of which a human has saved an approval
  session,    \* per operator, the approval and verdict decide() is about to save
  ledger,     \* keys with an idempotency record
  orders,     \* purchase orders of the enterprise system, by key and call
  audited,    \* calls with an audit record
  suspended   \* agents not executable

callVars == <<pc, request, asked, answer, audited>>
vars == <<callVars, approvals, endorsed, session, ledger, orders, suspended>>

Request  == [key : Keys, agent : Agents]
Approval == [key : Keys, status : ApprovalStatus]
Verdicts == {"APPROVED", "REJECTED"} \cup (IF "expiry" \in Faults THEN {"EXPIRED"} ELSE {})
Session  == [approval : Nat \ {0}, verdict : Verdicts]
Closed   == [approval |-> 0, verdict |-> "NONE"]

(* Running: between two store accesses.  Waiting: suspended on the         *)
(* enterprise system, or on the armor that reads its answer.  Ended: the   *)
(* caller is gone; "abandoned" is a request still under way without it.    *)
Ended    == {"done", "abandoned"}
Waiting  == {"tool", "answer"}
Running  == {"identity", "policy", "approval", "request", "lookup", "remember", "audit"}
Steps    == {"idle"} \cup Running \cup Waiting \cup Ended

Refusals == {"DENIED", "REJECTED", "FAILED", "RAISED"}
Answers  == {"NONE", "APPROVAL_REQUIRED", "SUCCESS", "REPLAYED"} \cup Refusals

(***************************************************************************)
(* Scheduling                                                              *)
(***************************************************************************)

(* A step of c may be taken at any time in the deployed configuration.  In *)
(* one process it is taken when nobody else is between two suspension      *)
(* points: the store's calls do not yield to the event loop.               *)
Turn(c) ==
  OneProcess => /\ \A d \in Calls \ {c} : pc[d] \notin Running
                /\ \A o \in Operators : session[o] = Closed

LoopIsFree ==
  OneProcess => /\ \A c \in Calls : pc[c] \notin Running
                /\ \A o \in Operators : session[o] = Closed

At(c, step)   == pc[c] = step /\ Turn(c)
Goto(c, step) == pc' = [pc EXCEPT ![c] = step] /\ UNCHANGED <<request, asked, answer, audited>>

(* The call returns; the answers that are audited leave a record.          *)
Return(c, result, approval) ==
  /\ pc' = [pc EXCEPT ![c] = "done"]
  /\ answer' = [answer EXCEPT ![c] = result]
  /\ asked' = [asked EXCEPT ![c] = approval]
  /\ UNCHANGED request

Unaudited(c) == audited' = audited
Audited(c) == audited' = audited \cup {c}

(***************************************************************************)
(* The pipeline                                                            *)
(***************************************************************************)

Init ==
  /\ pc = [c \in Calls |-> "idle"]
  /\ request \in [Calls -> Request]
  /\ asked = [c \in Calls |-> 0]
  /\ answer = [c \in Calls |-> "NONE"]
  /\ approvals = <<>> /\ endorsed = {} /\ session = [o \in Operators |-> Closed]
  /\ ledger = {} /\ orders = {} /\ audited = {} /\ suspended = {}

KeyOf(c) == request[c].key

Start(c) ==
  /\ At(c, "idle")
  /\ ~Concurrent => \A d \in Calls : pc[d] \in {"idle"} \cup Ended
  /\ Goto(c, "identity")
  /\ UNCHANGED <<approvals, endorsed, session, ledger, orders, suspended>>

(* Identity and capability.  Both refusals raise; only the second leaves   *)
(* an audit record.                                                        *)
Identify(c) ==
  LET agent == request[c].agent IN
  /\ At(c, "identity")
  /\ \/ agent \in suspended /\ Return(c, "DENIED", 0) /\ Unaudited(c)
     \/ agent \notin suspended \cup Holders /\ Return(c, "DENIED", 0) /\ Audited(c)
     \/ agent \in Holders \ suspended /\ Goto(c, "policy")
  /\ UNCHANGED <<approvals, endorsed, session, ledger, orders, suspended>>

(* Mutant: the autonomous limit is read from the ceiling.                  *)
DecisionByCeiling(k) ==
  IF Amount[k] <= ApprovalMax THEN "ALLOW" ELSE "DENY"

(* rule_purchase_thresholds: both limits belong to the permissive side.    *)
Decision(k) ==
  IF Amount[k] <= AutonomousMax THEN "ALLOW"
  ELSE IF Amount[k] <= ApprovalMax THEN "APPROVAL_REQUIRED" ELSE "DENY"

EvaluatePolicy(c) ==
  LET decision == Decision(KeyOf(c)) IN
  /\ At(c, "policy")
  /\ \/ decision = "DENY" /\ Return(c, "DENIED", 0) /\ Audited(c)
     \/ decision = "ALLOW" /\ Goto(c, "lookup")
     \/ decision = "APPROVAL_REQUIRED" /\ Goto(c, "approval")
  /\ UNCHANGED <<approvals, endorsed, session, ledger, orders, suspended>>

(* Mutant: only an approval that was granted is found.                     *)
MatchesIfGranted(i, k) == approvals[i].key = k /\ approvals[i].status = "APPROVED"

(* Mutant: the key tells neither suppliers nor amounts apart.              *)
MatchesMission(i, k) == TRUE

Matches(i, k) == approvals[i].key = k

(* find_granted returns the first approval of the action's key, whatever   *)
(* its status: the in-memory store lists the newest first, the deployed    *)
(* one the oldest.                                                         *)
Covers(i, k) ==
  /\ Matches(i, k)
  /\ \A j \in DOMAIN approvals : Matches(j, k) => IF OneProcess THEN j <= i ELSE i <= j

Refused(i) == approvals[i].status = "REJECTED"

(* The approval step, when find_granted finds one; the answer of a request *)
(* still undecided, or expired, is not audited.                            *)
CheckApproval(c) ==
  /\ At(c, "approval")
  /\ \E i \in DOMAIN approvals :
       /\ Covers(i, KeyOf(c))
       /\ \/ /\ approvals[i].status = "APPROVED"
             /\ pc' = [pc EXCEPT ![c] = "lookup"]
             /\ asked' = [asked EXCEPT ![c] = i]
             /\ UNCHANGED <<request, answer, audited>>
          \/ /\ Refused(i)
             /\ Return(c, "REJECTED", i) /\ Audited(c)
          \/ /\ approvals[i].status # "APPROVED" /\ ~Refused(i)
             /\ Return(c, "APPROVAL_REQUIRED", i) /\ Unaudited(c)
  /\ UNCHANGED <<approvals, endorsed, session, ledger, orders, suspended>>

NothingCovers(c) ==
  /\ At(c, "approval")
  /\ \A i \in DOMAIN approvals : ~Matches(i, KeyOf(c))
  /\ Goto(c, "request")
  /\ UNCHANGED <<approvals, endorsed, session, ledger, orders, suspended>>

RequestApproval(c) ==
  /\ At(c, "request")
  /\ approvals' = Append(approvals, [key |-> KeyOf(c), status |-> "PENDING"])
  /\ Return(c, "APPROVAL_REQUIRED", Len(approvals) + 1) /\ Audited(c)
  /\ UNCHANGED <<endorsed, session, ledger, orders, suspended>>

Lookup(c) ==
  /\ At(c, "lookup")
  /\ \/ KeyOf(c) \in ledger /\ Return(c, "REPLAYED", asked[c]) /\ Audited(c)
     \/ KeyOf(c) \notin ledger /\ Goto(c, "tool")
  /\ UNCHANGED <<approvals, endorsed, session, ledger, orders, suspended>>

(* The enterprise system places the order of a request it has received,    *)
(* even if nobody waits for its answer any more.                           *)
PlaceOrder(c) ==
  /\ \/ pc[c] = "tool" /\ Goto(c, "answer")
     \/ pc[c] = "abandoned" /\ Goto(c, "done")
  /\ orders' = orders \cup {[key |-> KeyOf(c), by |-> c]}
  /\ UNCHANGED <<approvals, endorsed, session, ledger, suspended>>

(* Mutant: the result of a failed call is remembered like any other.       *)
RecordFailure(c) == ledger' = ledger \cup {KeyOf(c)}

(* A failed call leaves no idempotency record: the next one tries again.   *)
KeepLedger(c) == ledger' = ledger

(* The enterprise system refuses, or the open circuit breaker does.        *)
RefuseOrder(c) ==
  /\ At(c, "tool")
  /\ Return(c, "FAILED", asked[c]) /\ Audited(c)
  /\ KeepLedger(c)
  /\ UNCHANGED <<approvals, endorsed, session, orders, suspended>>

(* The await of the enterprise system ends in an exception: a transport    *)
(* error, on which call() returns None or raises, or the cancellation by   *)
(* the agent's timeout.  execute handles neither.                          *)
LoseAnswer(c) ==
  /\ "lost_answer" \in Faults /\ pc[c] \in Waiting /\ Turn(c)
  /\ pc' = [pc EXCEPT ![c] = IF @ = "tool" THEN "abandoned" ELSE "done"]
  /\ answer' = [answer EXCEPT ![c] = "RAISED"]
  /\ UNCHANGED <<request, asked, audited, approvals, endorsed, session, ledger, orders, suspended>>

(* The process of a deployed call dies between two of its store accesses.  *)
Crash(c) ==
  /\ "crash" \in Faults /\ ~OneProcess /\ pc[c] \in Running
  /\ Return(c, "RAISED", asked[c]) /\ Unaudited(c)
  /\ UNCHANGED <<approvals, endorsed, session, ledger, orders, suspended>>

PassAnswer(c) ==
  /\ At(c, "answer") /\ Goto(c, "remember")
  /\ UNCHANGED <<approvals, endorsed, session, ledger, orders, suspended>>

(* _blocked_by_armor: audited, and returned before it is remembered.       *)
SanitiseAnswer(c) ==
  /\ "flagged" \in Faults /\ At(c, "answer")
  /\ Return(c, "SUCCESS", asked[c]) /\ Audited(c)
  /\ UNCHANGED <<approvals, endorsed, session, ledger, orders, suspended>>

(* Mutant: the record is kept under the key of the attempt, as before      *)
(* ADR-061.                                                                *)
RecordPerAttempt(c) == ledger' = ledger \cup {<<KeyOf(c), c>>}

RecordResult(c) == ledger' = ledger \cup {KeyOf(c)}

Remember(c) ==
  /\ At(c, "remember") /\ Goto(c, "audit")
  /\ RecordResult(c)
  /\ UNCHANGED <<approvals, endorsed, session, orders, suspended>>

Audit(c) ==
  /\ At(c, "audit")
  /\ Return(c, "SUCCESS", asked[c]) /\ Audited(c)
  /\ UNCHANGED <<approvals, endorsed, session, ledger, orders, suspended>>

(***************************************************************************)
(* Operators                                                               *)
(***************************************************************************)

Undecided(i) == approvals[i].status = "PENDING"

(* decide and expire_stale read the approval and check that it is PENDING. *)
OpenApproval(o, i, verdict) ==
  /\ LoopIsFree /\ session[o] = Closed
  /\ i \in DOMAIN approvals /\ Undecided(i)
  /\ session' = [session EXCEPT ![o] = [approval |-> i, verdict |-> verdict]]
  /\ UNCHANGED <<callVars, approvals, endorsed, ledger, orders, suspended>>

(* They then save it with its new status.                                  *)
SaveApproval(o) ==
  /\ session[o] # Closed
  /\ approvals' = [approvals EXCEPT ![session[o].approval].status = session[o].verdict]
  /\ endorsed' = endorsed \cup IF session[o].verdict = "APPROVED"
                                THEN {approvals[session[o].approval].key} ELSE {}
  /\ session' = [session EXCEPT ![o] = Closed]
  /\ UNCHANGED <<callVars, ledger, orders, suspended>>

Suspend(a) ==
  /\ "suspension" \in Faults /\ LoopIsFree /\ a \notin suspended
  /\ suspended' = suspended \cup {a}
  /\ UNCHANGED <<callVars, approvals, endorsed, session, ledger, orders>>

Reinstate(a) ==
  /\ LoopIsFree /\ a \in suspended /\ suspended' = suspended \ {a}
  /\ UNCHANGED <<callVars, approvals, endorsed, session, ledger, orders>>

(***************************************************************************)
(* Specification                                                           *)
(***************************************************************************)

Decide(c)  == Identify(c) \/ EvaluatePolicy(c) \/ CheckApproval(c) \/ NothingCovers(c)
                \/ RequestApproval(c) \/ Lookup(c)
Conclude(c) == PassAnswer(c) \/ SanitiseAnswer(c) \/ Remember(c) \/ Audit(c)
Enterprise(c) == PlaceOrder(c) \/ RefuseOrder(c) \/ LoseAnswer(c) \/ Crash(c)

Next ==
  \/ \E c \in Calls : Start(c) \/ Decide(c) \/ Enterprise(c) \/ Conclude(c)
  \/ \E o \in Operators :
       \/ \E i \in DOMAIN approvals, verdict \in Verdicts : OpenApproval(o, i, verdict)
       \/ SaveApproval(o)
  \/ \E a \in Agents : Suspend(a) \/ Reinstate(a)

Spec == Init /\ [][Next]_vars

(***************************************************************************)
(* Properties                                                              *)
(***************************************************************************)

OrdersOf(k) == {o \in orders : o.key = k}

(* The records are well formed, and what refers to an approval refers to   *)
(* one that was requested.                                                 *)
TypeOK ==
  /\ pc \in [Calls -> Steps] /\ request \in [Calls -> Request]
  /\ answer \in [Calls -> Answers] /\ asked \in [Calls -> 0 .. Len(approvals)]
  /\ approvals \in Seq(Approval) /\ endorsed \subseteq Keys
  /\ session \in [Operators -> Session \cup {Closed}]
  /\ \A o \in Operators : session[o].approval \in 0 .. Len(approvals)
  /\ ledger \subseteq Keys /\ orders \subseteq [key : Keys, by : Calls]
  /\ audited \subseteq Calls /\ suspended \subseteq Agents

(* "A resumable agent never orders twice" (README.md): one purchase order  *)
(* for one action, however often and by whichever task it is attempted.    *)
AtMostOnce == \A o, p \in orders : o.key = p.key => o = p

(* Nothing is bought beyond the ceiling, and what is beyond the autonomous *)
(* limit only once a human approved it; whatever a human refused is not    *)
(* bought, before or after.                                                *)
OrdersAreAuthorised ==
  \A o \in orders :
    /\ Amount[o.key] <= ApprovalMax
    /\ Amount[o.key] > AutonomousMax =>
         \E i \in DOMAIN approvals : approvals[i].key = o.key /\ approvals[i].status = "APPROVED"
    /\ \A i \in DOMAIN approvals : approvals[i].key = o.key => approvals[i].status # "REJECTED"

(* A human is asked once about an action, however many calls attempt it.   *)
OneQuestion ==
  \A i, j \in DOMAIN approvals : approvals[i].key = approvals[j].key => i = j

(* SUCCESS is the truth: the enterprise system has the order, even if the  *)
(* answer is another call's, replayed.                                     *)
SuccessMeansOrdered ==
  \A c \in Calls : answer[c] \in {"SUCCESS", "REPLAYED"} => OrdersOf(KeyOf(c)) # {}

(* No order without an audit record once its call has returned.            *)
OrdersAreAudited == \A o \in orders : pc[o.by] = "done" => o.by \in audited

(* Whoever overlaps, decides or dies, over one store or several instances: *)
(* nothing is bought beyond the ceiling, and what is beyond the autonomous *)
(* limit only if a human has approved that very action.  Which of two      *)
(* decisions taken at the same time is kept does not matter for this.      *)
OrdersWereEndorsed ==
  \A o \in orders : /\ Amount[o.key] <= ApprovalMax
                    /\ Amount[o.key] > AutonomousMax => o.key \in endorsed

WithStatus(status) ==
  {k \in Keys : \E i \in DOMAIN approvals :
                  approvals[i].key = k /\ approvals[i].status = status}

Purchases == INSTANCE Purchasing WITH
  Authors    <- Calls,
  Autonomous <- {k \in Keys : Amount[k] <= AutonomousMax},
  Governed   <- {k \in Keys : AutonomousMax < Amount[k] /\ Amount[k] <= ApprovalMax},
  granted    <- WithStatus("APPROVED"),
  refused    <- WithStatus("REJECTED")

(* The pipeline implements what the gateway promises.                      *)
KeepsPurchases == Purchases!Spec

=============================================================================
