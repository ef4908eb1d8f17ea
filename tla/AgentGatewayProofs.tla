------------------------- MODULE AgentGatewayProofs -------------------------
(***************************************************************************)
(* Theorems about AgentGateway, for every set of calls, actions, agents    *)
(* and operators, every price list and every pair of limits.               *)
(***************************************************************************)
EXTENDS AgentGateway, SequenceTheorems, TLAPS

(***************************************************************************)
(* Type correctness                                                        *)
(***************************************************************************)

(* Steps of a call that leave the approvals alone.                         *)
CallStep(c) ==
  \/ Start(c) \/ Identify(c) \/ EvaluatePolicy(c) \/ CheckApproval(c) \/ NothingCovers(c)
  \/ Lookup(c) \/ PlaceOrder(c) \/ RefuseOrder(c) \/ LoseAnswer(c) \/ Crash(c)
  \/ PassAnswer(c) \/ SanitiseAnswer(c) \/ Remember(c) \/ Audit(c)

(* The steps of the system, one by one.                                    *)
LEMMA NextSteps ==
  ASSUME Next
  PROVE  \/ \E c \in Calls : CallStep(c) \/ RequestApproval(c)
         \/ \E o \in Operators, i \in DOMAIN approvals, v \in Verdicts : OpenApproval(o, i, v)
         \/ \E o \in Operators : SaveApproval(o)
         \/ \E a \in Agents : Suspend(a) \/ Reinstate(a)
BY DEF Next, Decide, Enterprise, Conclude, CallStep

LEMMA CallStepType ==
  ASSUME TypeOK, NEW c \in Calls, CallStep(c)
  PROVE  TypeOK'
<1> USE DEF TypeOK, Steps, Running, Waiting, Ended, Answers, Refusals
<1>0. /\ Len(approvals) \in Nat /\ DOMAIN approvals = 1 .. Len(approvals)
      /\ KeyOf(c) \in Keys
  BY LenProperties DEF KeyOf, Request
<1>1. UNCHANGED <<approvals, endorsed, session, request>>
  BY DEF CallStep, Start, Identify, EvaluatePolicy, CheckApproval, NothingCovers, Lookup,
     PlaceOrder, RefuseOrder, LoseAnswer, Crash, PassAnswer, SanitiseAnswer, Remember, Audit,
     Goto, Return
<1>2. pc' \in [Calls -> Steps]
  BY DEF CallStep, Start, Identify, EvaluatePolicy, CheckApproval, NothingCovers, Lookup,
     PlaceOrder, RefuseOrder, LoseAnswer, Crash, PassAnswer, SanitiseAnswer, Remember, Audit,
     Goto, Return
<1>5. answer' \in [Calls -> Answers]
  BY DEF CallStep, Start, Identify, EvaluatePolicy, CheckApproval, NothingCovers, Lookup,
     PlaceOrder, RefuseOrder, LoseAnswer, Crash, PassAnswer, SanitiseAnswer, Remember, Audit,
     Goto, Return
<1>6. \E a \in {0, asked[c]} \cup DOMAIN approvals : asked' \in {asked, [asked EXCEPT ![c] = a]}
  BY DEF CallStep, Start, Identify, EvaluatePolicy, CheckApproval, NothingCovers, Lookup,
     PlaceOrder, RefuseOrder, LoseAnswer, Crash, PassAnswer, SanitiseAnswer, Remember, Audit,
     Goto, Return
<1>7. asked' \in [Calls -> 0 .. Len(approvals)]
  <2>1. PICK a \in {0, asked[c]} \cup DOMAIN approvals :
          asked' \in {asked, [asked EXCEPT ![c] = a]}
    BY <1>6
  <2>2. a \in 0 .. Len(approvals)
    BY <1>0
  <2>3. QED
    BY <2>1, <2>2
<1>3. /\ ledger' \subseteq Keys /\ orders' \subseteq [key : Keys, by : Calls]
      /\ audited' \subseteq Calls /\ suspended' \subseteq Agents
  BY <1>0 DEF CallStep, Start, Identify, EvaluatePolicy, CheckApproval, NothingCovers, Lookup,
     PlaceOrder, RefuseOrder, LoseAnswer, Crash, PassAnswer, SanitiseAnswer, Remember, Audit,
     Goto, Return, Audited, Unaudited, KeepLedger, RecordResult
<1>4. QED
  BY <1>1, <1>2, <1>3, <1>5, <1>7

LEMMA RequestType ==
  ASSUME TypeOK, NEW c \in Calls, RequestApproval(c)
  PROVE  TypeOK'
<1> USE DEF TypeOK
<1> DEFINE a == [key |-> KeyOf(c), status |-> "PENDING"]
<1>1. a \in Approval
  BY DEF KeyOf, Request, Approval, ApprovalStatus
<1>2. approvals' = Append(approvals, a)
  BY DEF RequestApproval
<1>3. Len(approvals) \in Nat /\ approvals' \in Seq(Approval) /\ Len(approvals') = Len(approvals) + 1
  BY <1>1, <1>2, LenProperties, AppendProperties
<1>4. /\ pc' = [pc EXCEPT ![c] = "done"]
      /\ answer' = [answer EXCEPT ![c] = "APPROVAL_REQUIRED"]
      /\ asked' = [asked EXCEPT ![c] = Len(approvals) + 1]
      /\ audited' = audited \cup {c}
      /\ UNCHANGED <<request, endorsed, session, ledger, orders, suspended>>
  BY DEF RequestApproval, Return, Audited
<1>5. pc' \in [Calls -> Steps] /\ answer' \in [Calls -> Answers] /\ audited' \subseteq Calls
  BY <1>4 DEF Steps, Ended, Answers
<1>6. asked' \in [Calls -> 0 .. Len(approvals')]
  BY <1>3, <1>4
<1>7. \A o \in Operators : session'[o].approval \in 0 .. Len(approvals')
  BY <1>3, <1>4
<1>8. QED
  BY <1>3, <1>4, <1>5, <1>6, <1>7

LEMMA SaveType ==
  ASSUME TypeOK, NEW o \in Operators, SaveApproval(o)
  PROVE  /\ TypeOK'
         /\ session[o].approval \in DOMAIN approvals /\ session[o].verdict \in Verdicts
         /\ DOMAIN approvals' = DOMAIN approvals
         /\ \A i \in DOMAIN approvals :
              approvals'[i] = IF i = session[o].approval
                                THEN [approvals[i] EXCEPT !.status = session[o].verdict]
                                ELSE approvals[i]
<1> USE DEF TypeOK
<1> DEFINE n == session[o].approval
           v == session[o].verdict
<1>1. session[o] \in Session /\ n \in 0 .. Len(approvals)
  BY DEF SaveApproval
<1>2. n \in 1 .. Len(approvals) /\ v \in Verdicts /\ v \in ApprovalStatus
  BY <1>1, LenProperties DEF Session, Verdicts, ApprovalStatus
<1>3. DOMAIN approvals = 1 .. Len(approvals) /\ \A i \in DOMAIN approvals : approvals[i] \in Approval
  BY LenProperties, ElementOfSeq
<1>4. approvals' = [approvals EXCEPT ![n].status = v]
  BY DEF SaveApproval
<1>5. [approvals[n] EXCEPT !.status = v] \in Approval
  BY <1>2, <1>3 DEF Approval
<1>6. approvals' = [approvals EXCEPT ![n] = [approvals[n] EXCEPT !.status = v]]
  BY <1>4
<1>7. approvals' \in Seq(Approval) /\ Len(approvals') = Len(approvals)
  BY <1>2, <1>5, <1>6, ExceptSeq
<1>8. session' \in [Operators -> Session \cup {Closed}]
      /\ \A p \in Operators : session'[p].approval \in 0 .. Len(approvals)
  BY LenProperties DEF SaveApproval, Closed
<1>9. endorsed' \subseteq Keys
  BY <1>2, <1>3 DEF SaveApproval, Approval
<1>10. QED
  BY <1>2, <1>3, <1>6, <1>7, <1>8, <1>9 DEF SaveApproval, callVars

LEMMA OperatorType ==
  ASSUME TypeOK,
         \/ \E o \in Operators, i \in DOMAIN approvals, v \in Verdicts : OpenApproval(o, i, v)
         \/ \E a \in Agents : Suspend(a) \/ Reinstate(a)
  PROVE  TypeOK'
<1> USE DEF TypeOK
<1>1. CASE \E o \in Operators, i \in DOMAIN approvals, v \in Verdicts : OpenApproval(o, i, v)
  <2>1. PICK o \in Operators, i \in DOMAIN approvals, v \in Verdicts : OpenApproval(o, i, v)
    BY <1>1
  <2>2. i \in 1 .. Len(approvals) /\ Len(approvals) \in Nat
    BY LenProperties
  <2>3. session' = [session EXCEPT ![o] = [approval |-> i, verdict |-> v]]
    BY <2>1 DEF OpenApproval
  <2>4. [approval |-> i, verdict |-> v] \in Session
    BY <2>2 DEF Session
  <2>5. session' \in [Operators -> Session \cup {Closed}]
        /\ \A p \in Operators : session'[p].approval \in 0 .. Len(approvals)
    BY <2>2, <2>3, <2>4
  <2>6. QED
    BY <2>1, <2>5 DEF OpenApproval, callVars
<1>2. CASE \E a \in Agents : Suspend(a) \/ Reinstate(a)
  BY <1>2 DEF Suspend, Reinstate, callVars
<1>3. QED
  BY <1>1, <1>2

(* Every behaviour keeps the records of the gateway well formed.           *)
THEOREM GatewayTypes == Spec => []TypeOK
<1>1. Init => TypeOK
  BY EmptySeq DEF Init, TypeOK, Steps, Answers, Closed
<1>2. TypeOK /\ [Next]_vars => TypeOK'
  <2>1. CASE Next /\ TypeOK
    BY <2>1, NextSteps, CallStepType, RequestType, SaveType, OperatorType
  <2>2. CASE UNCHANGED vars
    BY <2>2 DEF TypeOK, vars, callVars
  <2>3. QED
    BY <2>1, <2>2
<1>3. QED
  BY <1>1, <1>2, PTL DEF Spec

(***************************************************************************)
(* At most one order                                                       *)
(***************************************************************************)

(* Purchase calls follow each other, every one of them to its end, and     *)
(* every answer of the enterprise system is recorded.                      *)
InTurn == ~Concurrent /\ Faults \subseteq {"expiry", "suspension"}

UnderWay(c) == pc[c] \in Running \cup Waiting

OneAtATime == \A c, d \in Calls : UnderWay(c) /\ UnderWay(d) => c = d

NoneAbandoned == \A c \in Calls : pc[c] # "abandoned"

(* Who is about to order has found no record of the order.                 *)
ToolIsFresh == \A c \in Calls : pc[c] = "tool" => KeyOf(c) \notin ledger

(* An order is recorded, or its call is about to record it.                *)
OrdersAreRecorded ==
  \A o \in orders :
    /\ o.by \in Calls /\ o.key = KeyOf(o.by)
    /\ \/ pc[o.by] \in {"answer", "remember"}
       \/ pc[o.by] \in {"audit", "done"} /\ o.key \in ledger

TurnInv == OneAtATime /\ NoneAbandoned /\ ToolIsFresh /\ OrdersAreRecorded /\ AtMostOnce

(* What a step of a call in turn does to its own position.                 *)
LEMMA TurnPosition ==
  ASSUME TypeOK, InTurn, TurnInv, NEW c \in Calls, CallStep(c) \/ RequestApproval(c)
  PROVE  /\ request' = request
         /\ \A d \in Calls \ {c} : pc'[d] = pc[d]
         /\ pc'[c] # "abandoned"
         /\ UnderWay(c) \/ \A d \in Calls : ~UnderWay(d)
<1>1. pc[c] # "abandoned"
  BY DEF TurnInv, NoneAbandoned
<1>2. CASE RequestApproval(c)
  BY <1>2 DEF TypeOK, RequestApproval, Return, At, UnderWay, Running
<1>3. CASE Start(c)
  BY <1>3 DEF TypeOK, Start, Goto, At, InTurn, UnderWay, Running, Waiting, Ended
<1>4. CASE CallStep(c) /\ ~Start(c)
  <2>1. request' = request /\ (\A d \in Calls \ {c} : pc'[d] = pc[d]) /\ pc'[c] # "abandoned"
    BY <1>1, <1>4 DEF TypeOK, InTurn, CallStep, Start, Identify, EvaluatePolicy, CheckApproval, NothingCovers, Lookup,
     PlaceOrder, RefuseOrder, LoseAnswer, Crash, PassAnswer, SanitiseAnswer, Remember, Audit,
     Goto, Return, At
  <2>2. UnderWay(c)
    BY <1>1, <1>4 DEF InTurn, UnderWay, Running, Waiting, CallStep, Start, Identify, EvaluatePolicy, CheckApproval, NothingCovers, Lookup,
     PlaceOrder, RefuseOrder, LoseAnswer, Crash, PassAnswer, SanitiseAnswer, Remember, Audit,
     Goto, Return, At
  <2>3. QED
    BY <2>1, <2>2
<1>5. QED
  BY <1>2, <1>3, <1>4

(* The only step that orders, and the only one that records.               *)
LEMMA TurnRecords ==
  ASSUME TypeOK, InTurn, TurnInv, NEW c \in Calls, CallStep(c) \/ RequestApproval(c)
  PROVE  /\ orders' = orders \/ PlaceOrder(c)
         /\ ledger' = ledger \/ Remember(c)
         /\ pc'[c] = "tool" => Lookup(c) /\ KeyOf(c) \notin ledger
         /\ pc[c] \in {"answer", "remember"} => pc'[c] = "remember" \/ Remember(c)
         /\ pc[c] \in {"audit", "done"} => pc'[c] \in {"audit", "done"}
<1>1. pc[c] # "abandoned"
  BY DEF TurnInv, NoneAbandoned
<1>2. orders' = orders \/ PlaceOrder(c)
  BY DEF CallStep, RequestApproval, Start, Identify, EvaluatePolicy, CheckApproval, NothingCovers, Lookup,
     PlaceOrder, RefuseOrder, LoseAnswer, Crash, PassAnswer, SanitiseAnswer, Remember, Audit,
     Goto, Return, At
<1>3. ledger' = ledger \/ Remember(c)
  BY DEF CallStep, RequestApproval, KeepLedger, Start, Identify, EvaluatePolicy, CheckApproval, NothingCovers, Lookup,
     PlaceOrder, RefuseOrder, LoseAnswer, Crash, PassAnswer, SanitiseAnswer, Remember, Audit,
     Goto, Return, At
<1>4. pc'[c] = "tool" => Lookup(c) /\ KeyOf(c) \notin ledger
  BY <1>1 DEF TypeOK, InTurn, CallStep, RequestApproval, Start, Identify, EvaluatePolicy, CheckApproval, NothingCovers, Lookup,
     PlaceOrder, RefuseOrder, LoseAnswer, Crash, PassAnswer, SanitiseAnswer, Remember, Audit,
     Goto, Return, At
<1>5. pc[c] \in {"answer", "remember"} => pc'[c] = "remember" \/ Remember(c)
  BY DEF TypeOK, InTurn, Running, CallStep, RequestApproval, Start, Identify, EvaluatePolicy, CheckApproval, NothingCovers, Lookup,
     PlaceOrder, RefuseOrder, LoseAnswer, Crash, PassAnswer, SanitiseAnswer, Remember, Audit,
     Goto, Return, At
<1>6. pc[c] \in {"audit", "done"} => pc'[c] \in {"audit", "done"}
  BY DEF TypeOK, InTurn, CallStep, RequestApproval, Start, Identify, EvaluatePolicy, CheckApproval, NothingCovers, Lookup,
     PlaceOrder, RefuseOrder, LoseAnswer, Crash, PassAnswer, SanitiseAnswer, Remember, Audit,
     Goto, Return, At
<1>7. QED
  BY <1>2, <1>3, <1>4, <1>5, <1>6

(* An order is placed only if there is none for its action.                *)
LEMMA OrderIsNew ==
  ASSUME TypeOK, TurnInv, NEW c \in Calls, PlaceOrder(c)
  PROVE  \A o \in orders : o.key # KeyOf(c)
<1> SUFFICES ASSUME NEW o \in orders, o.key = KeyOf(c)
             PROVE  FALSE
  OBVIOUS
<1>1. pc[c] = "tool" /\ KeyOf(c) \notin ledger
  BY DEF PlaceOrder, TurnInv, NoneAbandoned, ToolIsFresh
<1>2. o.by \in Calls /\ pc[o.by] \in {"answer", "remember"}
  BY <1>1 DEF TurnInv, OrdersAreRecorded
<1>3. UnderWay(c) /\ UnderWay(o.by)
  BY <1>1, <1>2 DEF UnderWay, Running, Waiting
<1>4. QED
  BY <1>1, <1>2, <1>3 DEF TurnInv, OneAtATime

LEMMA TurnCallStep ==
  ASSUME TypeOK, InTurn, TurnInv, NEW c \in Calls, CallStep(c) \/ RequestApproval(c)
  PROVE  TurnInv'
<1>0. /\ request' = request
      /\ \A d \in Calls \ {c} : pc'[d] = pc[d]
      /\ pc'[c] # "abandoned"
      /\ UnderWay(c) \/ \A d \in Calls : ~UnderWay(d)
  BY TurnPosition
<1>1. OneAtATime'
  BY <1>0 DEF TurnInv, OneAtATime, UnderWay
<1>2. NoneAbandoned'
  BY <1>0 DEF TurnInv, NoneAbandoned
<1>3. ToolIsFresh'
  <2> SUFFICES ASSUME NEW d \in Calls, pc'[d] = "tool"
               PROVE  KeyOf(d) \notin ledger'
    BY <1>0 DEF ToolIsFresh, KeyOf
  <2>1. CASE d = c
    BY <2>1, TurnRecords DEF Lookup
  <2>2. CASE d # c
    <3>1. pc[d] = "tool" /\ KeyOf(d) \notin ledger
      BY <1>0, <2>2 DEF TurnInv, ToolIsFresh
    <3>2. ~UnderWay(c)
      BY <2>2, <3>1 DEF TurnInv, OneAtATime, UnderWay, Waiting
    <3>3. ~Remember(c)
      BY <3>2 DEF Remember, At, UnderWay, Running
    <3>4. QED
      BY <3>1, <3>3, TurnRecords
  <2>3. QED
    BY <2>1, <2>2
<1>4. OrdersAreRecorded'
  <2> SUFFICES ASSUME NEW o \in orders'
               PROVE  /\ o.by \in Calls /\ o.key = KeyOf(o.by)
                      /\ \/ pc'[o.by] \in {"answer", "remember"}
                         \/ pc'[o.by] \in {"audit", "done"} /\ o.key \in ledger'
    BY <1>0 DEF OrdersAreRecorded, KeyOf
  <2>1. CASE o \notin orders
    <3>1. PlaceOrder(c) /\ o = [key |-> KeyOf(c), by |-> c] /\ pc[c] = "tool"
      BY <2>1, TurnRecords DEF PlaceOrder, TurnInv, NoneAbandoned
    <3>2. pc'[c] = "answer"
      BY <3>1 DEF PlaceOrder, Goto, TypeOK
    <3>3. QED
      BY <3>1, <3>2
  <2>2. CASE o \in orders
    <3>1. /\ o.by \in Calls /\ o.key = KeyOf(o.by)
          /\ \/ pc[o.by] \in {"answer", "remember"}
             \/ pc[o.by] \in {"audit", "done"} /\ o.key \in ledger
      BY <2>2 DEF TurnInv, OrdersAreRecorded
    <3>2. ledger \subseteq ledger'
      BY TurnRecords DEF Remember, RecordResult
    <3>3. CASE o.by # c
      BY <1>0, <3>1, <3>2, <3>3
    <3>4. CASE o.by = c /\ Remember(c)
      BY <3>1, <3>4 DEF Remember, RecordResult, Goto, TypeOK
    <3>5. CASE o.by = c /\ ~Remember(c)
      BY <3>1, <3>2, <3>5, TurnRecords
    <3>6. QED
      BY <3>3, <3>4, <3>5
  <2>3. QED
    BY <2>1, <2>2
<1>5. AtMostOnce'
  <2>1. CASE orders' = orders
    BY <2>1 DEF TurnInv, AtMostOnce
  <2>2. CASE PlaceOrder(c)
    <3>1. \A o \in orders : o.key # KeyOf(c)
      BY <2>2, OrderIsNew
    <3>2. orders' = orders \cup {[key |-> KeyOf(c), by |-> c]}
      BY <2>2 DEF PlaceOrder
    <3>3. QED
      BY <3>1, <3>2 DEF TurnInv, AtMostOnce
  <2>3. QED
    BY <2>1, <2>2, TurnRecords
<1>6. QED
  BY <1>1, <1>2, <1>3, <1>4, <1>5 DEF TurnInv

LEMMA TurnInvariant == InTurn => (Spec => []TurnInv)
<1> SUFFICES ASSUME InTurn
             PROVE  Spec => []TurnInv
  OBVIOUS
<1>1. Init => TurnInv
  BY DEF Init, TurnInv, OneAtATime, NoneAbandoned, ToolIsFresh, OrdersAreRecorded, AtMostOnce,
     UnderWay, Running, Waiting
<1>2. TypeOK /\ TurnInv /\ [Next]_vars => TurnInv'
  <2> SUFFICES ASSUME TypeOK, TurnInv, [Next]_vars
               PROVE  TurnInv'
    OBVIOUS
  <2>1. CASE \E c \in Calls : CallStep(c) \/ RequestApproval(c)
    BY <2>1, TurnCallStep
  <2>2. CASE UNCHANGED <<callVars, ledger, orders>>
    BY <2>2 DEF callVars, TurnInv, OneAtATime, NoneAbandoned, ToolIsFresh, OrdersAreRecorded,
       AtMostOnce, UnderWay, KeyOf
  <2>3. QED
    BY <2>1, <2>2, NextSteps DEF OpenApproval, SaveApproval, Suspend, Reinstate, vars
<1>3. QED
  BY <1>1, <1>2, GatewayTypes, PTL DEF Spec

(* Where purchase calls follow each other and every answer of the          *)
(* enterprise system comes back, is clean and gets recorded, an action is  *)
(* ordered at most once, in one process and in the deployed configuration. *)
THEOREM AtMostOneOrder == InTurn => (Spec => []AtMostOnce)
<1>1. TurnInv => AtMostOnce
  BY DEF TurnInv
<1>2. QED
  BY <1>1, TurnInvariant, PTL

(***************************************************************************)
(* Approvals in one process                                                *)
(***************************************************************************)

Autonomous(k) == Amount[k] <= AutonomousMax
Governed(k)   == AutonomousMax < Amount[k] /\ Amount[k] <= ApprovalMax

(* The event loop is held by at most one coroutine.                        *)
LoopIsHeldOnce ==
  /\ \A c, d \in Calls : pc[c] \in Running /\ pc[d] \in Running => c = d
  /\ \A o, p \in Operators : session[o] # Closed /\ session[p] # Closed => o = p
  /\ \A c \in Calls, o \in Operators : pc[c] \in Running => session[o] = Closed

(* What an operator is about to save is still undecided.                   *)
SessionsAreFresh ==
  \A o \in Operators : session[o] # Closed => approvals[session[o].approval].status = "PENDING"

(* Who is about to ask has no earlier question to refer to.                *)
QuestionsAreNew ==
  \A c \in Calls : pc[c] = "request" =>
    \A i \in DOMAIN approvals : approvals[i].key # KeyOf(c)

(* Only what the policy governs is asked about.                            *)
GovernedIsAsked ==
  /\ \A c \in Calls : pc[c] \in {"approval", "request"} => Governed(KeyOf(c))
  /\ \A i \in DOMAIN approvals : Governed(approvals[i].key)

Granted(k) ==
  \E i \in DOMAIN approvals : approvals[i].key = k /\ approvals[i].status = "APPROVED"

(* Who may go on to order has the authority to.                            *)
OrderingIsAuthorised ==
  \A c \in Calls : pc[c] \in {"lookup", "tool", "abandoned"} =>
    Autonomous(KeyOf(c)) \/ Granted(KeyOf(c))

OrdersHaveAuthority == \A o \in orders : Autonomous(o.key) \/ Granted(o.key)

ProcessInv ==
  /\ LoopIsHeldOnce /\ SessionsAreFresh /\ QuestionsAreNew /\ GovernedIsAsked
  /\ OneQuestion /\ OrderingIsAuthorised /\ OrdersHaveAuthority

(* A call's step: who holds the loop, and what its new position means.     *)
LEMMA ProcessPosition ==
  ASSUME TypeOK, OneProcess, ProcessInv, NEW c \in Calls, CallStep(c)
  PROVE  /\ UNCHANGED <<request, approvals, session>>
         /\ \A d \in Calls \ {c} : pc'[d] = pc[d]
         /\ pc'[c] \in Running => Turn(c)
         /\ pc'[c] = "request" => NothingCovers(c)
         /\ pc'[c] = "approval" => EvaluatePolicy(c) /\ Decision(KeyOf(c)) = "APPROVAL_REQUIRED"
         /\ pc'[c] = "lookup" => \/ EvaluatePolicy(c) /\ Decision(KeyOf(c)) = "ALLOW"
                                 \/ CheckApproval(c)
         /\ pc'[c] \in {"tool", "abandoned"} => pc[c] \in {"lookup", "tool"}
         /\ orders' = orders \/ PlaceOrder(c)
<1>1. UNCHANGED <<request, approvals, session>>
  BY DEF CallStep, Start, Identify, EvaluatePolicy, CheckApproval, NothingCovers, Lookup,
     PlaceOrder, RefuseOrder, LoseAnswer, Crash, PassAnswer, SanitiseAnswer, Remember, Audit,
     Goto, Return, At
<1>2. \A d \in Calls \ {c} : pc'[d] = pc[d]
  BY DEF TypeOK, CallStep, Start, Identify, EvaluatePolicy, CheckApproval, NothingCovers, Lookup,
     PlaceOrder, RefuseOrder, LoseAnswer, Crash, PassAnswer, SanitiseAnswer, Remember, Audit,
     Goto, Return, At
<1>3. pc'[c] \in Running => Turn(c)
  BY DEF TypeOK, Running, CallStep, Start, Identify, EvaluatePolicy, CheckApproval, NothingCovers, Lookup,
     PlaceOrder, RefuseOrder, LoseAnswer, Crash, PassAnswer, SanitiseAnswer, Remember, Audit,
     Goto, Return, At
<1>4. pc'[c] = "request" => NothingCovers(c)
  BY DEF TypeOK, CallStep, Start, Identify, EvaluatePolicy, CheckApproval, NothingCovers, Lookup,
     PlaceOrder, RefuseOrder, LoseAnswer, Crash, PassAnswer, SanitiseAnswer, Remember, Audit,
     Goto, Return, At
<1>5. pc'[c] = "approval" => EvaluatePolicy(c) /\ Decision(KeyOf(c)) = "APPROVAL_REQUIRED"
  BY DEF TypeOK, CallStep, Start, Identify, EvaluatePolicy, CheckApproval, NothingCovers, Lookup,
     PlaceOrder, RefuseOrder, LoseAnswer, Crash, PassAnswer, SanitiseAnswer, Remember, Audit,
     Goto, Return, At
<1>6. pc'[c] = "lookup" => \/ EvaluatePolicy(c) /\ Decision(KeyOf(c)) = "ALLOW"
                           \/ CheckApproval(c)
  BY DEF TypeOK, CallStep, Start, Identify, EvaluatePolicy, CheckApproval, NothingCovers, Lookup,
     PlaceOrder, RefuseOrder, LoseAnswer, Crash, PassAnswer, SanitiseAnswer, Remember, Audit,
     Goto, Return, At
<1>7. pc'[c] \in {"tool", "abandoned"} => pc[c] \in {"lookup", "tool"}
  BY DEF TypeOK, CallStep, Start, Identify, EvaluatePolicy, CheckApproval, NothingCovers, Lookup,
     PlaceOrder, RefuseOrder, LoseAnswer, Crash, PassAnswer, SanitiseAnswer, Remember, Audit,
     Goto, Return, At
<1>8. orders' = orders \/ PlaceOrder(c)
  BY DEF CallStep, Start, Identify, EvaluatePolicy, CheckApproval, NothingCovers, Lookup,
     PlaceOrder, RefuseOrder, LoseAnswer, Crash, PassAnswer, SanitiseAnswer, Remember, Audit,
     Goto, Return, At, KeepLedger
<1>9. QED
  BY <1>1, <1>2, <1>3, <1>4, <1>5, <1>6, <1>7, <1>8

(* The three outcomes of the policy tell the amounts apart.                *)
LEMMA DecisionMeaning ==
  ASSUME NEW k \in Keys
  PROVE  /\ Decision(k) = "ALLOW" => Autonomous(k)
         /\ Decision(k) = "APPROVAL_REQUIRED" => Governed(k)
BY GatewayAssumption DEF Decision, Autonomous, Governed

LEMMA ProcessCallStep ==
  ASSUME TypeOK, OneProcess, ProcessInv, NEW c \in Calls, CallStep(c)
  PROVE  ProcessInv'
<1>0. /\ UNCHANGED <<request, approvals, session>>
      /\ \A d \in Calls \ {c} : pc'[d] = pc[d]
  BY ProcessPosition
<1>k. KeyOf(c) \in Keys
  BY DEF TypeOK, KeyOf, Request
<1>1. LoopIsHeldOnce'
  BY <1>0, ProcessPosition DEF ProcessInv, LoopIsHeldOnce, Turn
<1>2. SessionsAreFresh' /\ OneQuestion'
  BY <1>0 DEF ProcessInv, SessionsAreFresh, OneQuestion
<1>3. QuestionsAreNew'
  BY <1>0, ProcessPosition DEF ProcessInv, QuestionsAreNew, NothingCovers, Matches, KeyOf
<1>4. GovernedIsAsked'
  <2>1. pc'[c] \in {"approval", "request"} => Governed(KeyOf(c))
    BY <1>k, ProcessPosition, DecisionMeaning DEF ProcessInv, GovernedIsAsked, NothingCovers, At
  <2>2. QED
    BY <1>0, <2>1 DEF ProcessInv, GovernedIsAsked, KeyOf, Governed
<1>5. OrderingIsAuthorised'
  <2>1. pc'[c] = "lookup" => Autonomous(KeyOf(c)) \/ Granted(KeyOf(c))
    <3>1. CASE CheckApproval(c) /\ pc'[c] = "lookup"
      <4>1. PICK i \in DOMAIN approvals : Matches(i, KeyOf(c)) /\ approvals[i].status = "APPROVED"
        BY <3>1 DEF CheckApproval, Covers, Return, TypeOK
      <4>2. QED
        BY <4>1 DEF Granted, Matches
    <3>2. QED
      BY <1>k, <3>1, ProcessPosition, DecisionMeaning
  <2>2. pc'[c] \in {"lookup", "tool", "abandoned"} => Autonomous(KeyOf(c)) \/ Granted(KeyOf(c))
    BY <2>1, ProcessPosition DEF ProcessInv, OrderingIsAuthorised
  <2>3. QED
    BY <1>0, <2>2 DEF ProcessInv, OrderingIsAuthorised, KeyOf, Granted, Autonomous
<1>6. OrdersHaveAuthority'
  <2>1. \A o \in orders' : Autonomous(o.key) \/ Granted(o.key)
    <3>1. CASE PlaceOrder(c)
      <4>1. Autonomous(KeyOf(c)) \/ Granted(KeyOf(c))
        BY <3>1 DEF PlaceOrder, ProcessInv, OrderingIsAuthorised
      <4>2. QED
        BY <3>1, <4>1 DEF PlaceOrder, ProcessInv, OrdersHaveAuthority
    <3>2. QED
      BY <3>1, ProcessPosition DEF ProcessInv, OrdersHaveAuthority
  <2>2. QED
    BY <1>0, <2>1 DEF OrdersHaveAuthority, Granted, Autonomous
<1>7. QED
  BY <1>1, <1>2, <1>3, <1>4, <1>5, <1>6 DEF ProcessInv

(* What a request for approval does to the approvals.                      *)
LEMMA RequestEffect ==
  ASSUME TypeOK, NEW c \in Calls, RequestApproval(c)
  PROVE  /\ DOMAIN approvals' = DOMAIN approvals \cup {Len(approvals) + 1}
         /\ Len(approvals) + 1 \notin DOMAIN approvals
         /\ \A i \in DOMAIN approvals : approvals'[i] = approvals[i]
         /\ approvals'[Len(approvals) + 1] = [key |-> KeyOf(c), status |-> "PENDING"]
         /\ UNCHANGED <<request, session, ledger, orders>>
         /\ pc[c] = "request" /\ Turn(c) /\ pc' = [pc EXCEPT ![c] = "done"]
<1> DEFINE a == [key |-> KeyOf(c), status |-> "PENDING"]
<1>1. a \in Approval
  BY DEF TypeOK, KeyOf, Request, Approval, ApprovalStatus
<1>2. approvals \in Seq(Approval) /\ approvals' = Append(approvals, a)
  BY DEF TypeOK, RequestApproval
<1> HIDE DEF a
<1>3. /\ approvals' \in Seq(Approval) /\ Len(approvals') = Len(approvals) + 1
      /\ approvals'[Len(approvals) + 1] = a
      /\ \A i \in 1 .. Len(approvals) : approvals'[i] = approvals[i]
  BY <1>1, <1>2, AppendProperties
<1>4. /\ Len(approvals) \in Nat /\ DOMAIN approvals = 1 .. Len(approvals)
      /\ DOMAIN approvals' = 1 .. Len(approvals) + 1
  BY <1>2, <1>3, LenProperties
<1>5. UNCHANGED <<request, session, ledger, orders>> /\ pc[c] = "request" /\ Turn(c)
      /\ pc' = [pc EXCEPT ![c] = "done"]
  BY DEF RequestApproval, Return, At
<1>6. QED
  BY <1>3, <1>4, <1>5 DEF a

LEMMA ProcessRequest ==
  ASSUME TypeOK, OneProcess, ProcessInv, NEW c \in Calls, RequestApproval(c)
  PROVE  ProcessInv'
<1> DEFINE n == Len(approvals) + 1
<1>0. /\ DOMAIN approvals' = DOMAIN approvals \cup {n} /\ n \notin DOMAIN approvals
      /\ \A i \in DOMAIN approvals : approvals'[i] = approvals[i]
      /\ approvals'[n] = [key |-> KeyOf(c), status |-> "PENDING"]
      /\ UNCHANGED <<request, session, orders>>
      /\ pc[c] = "request" /\ pc' = [pc EXCEPT ![c] = "done"]
  BY RequestEffect
<1> HIDE DEF n
<1>p. \A d \in Calls : pc'[d] = IF d = c THEN "done" ELSE pc[d]
  BY <1>0 DEF TypeOK
<1>g. \A k : Granted(k) => Granted(k)'
  BY <1>0 DEF Granted
<1>1. LoopIsHeldOnce'
  BY <1>0, <1>p DEF ProcessInv, LoopIsHeldOnce, Running
<1>2. SessionsAreFresh'
  BY <1>0 DEF ProcessInv, LoopIsHeldOnce, SessionsAreFresh, Running
<1>3. QuestionsAreNew'
  BY <1>0, <1>p DEF ProcessInv, LoopIsHeldOnce, QuestionsAreNew, Running
<1>4. GovernedIsAsked'
  BY <1>0, <1>p DEF ProcessInv, GovernedIsAsked, KeyOf, Governed
<1>5. OneQuestion'
  BY <1>0 DEF ProcessInv, OneQuestion, QuestionsAreNew
<1>6. OrderingIsAuthorised' /\ OrdersHaveAuthority'
  BY <1>0, <1>p, <1>g DEF ProcessInv, OrderingIsAuthorised, OrdersHaveAuthority, KeyOf, Autonomous
<1>7. QED
  BY <1>1, <1>2, <1>3, <1>4, <1>5, <1>6 DEF ProcessInv

LEMMA ProcessOpen ==
  ASSUME TypeOK, OneProcess, ProcessInv,
         NEW o \in Operators, NEW i \in DOMAIN approvals, NEW v \in Verdicts, OpenApproval(o, i, v)
  PROVE  ProcessInv'
<1> DEFINE s == [approval |-> i, verdict |-> v]
<1>1. /\ session' = [session EXCEPT ![o] = s] /\ approvals[i].status = "PENDING"
      /\ UNCHANGED <<pc, request, approvals, orders>>
      /\ \A c \in Calls : pc[c] \notin Running
      /\ \A p \in Operators : session[p] = Closed
  BY DEF OpenApproval, Undecided, LoopIsFree, callVars
<1>2. \A p \in Operators : session'[p] = IF p = o THEN s ELSE Closed
  BY <1>1 DEF TypeOK
<1>3. LoopIsHeldOnce' /\ SessionsAreFresh'
  BY <1>1, <1>2 DEF LoopIsHeldOnce, SessionsAreFresh
<1>4. QED
  BY <1>1, <1>3 DEF ProcessInv, QuestionsAreNew, GovernedIsAsked, OneQuestion,
     OrderingIsAuthorised, OrdersHaveAuthority, KeyOf, Granted, Governed, Autonomous

(* Saving changes one approval, which was undecided.                       *)
LEMMA SaveEffect ==
  ASSUME TypeOK, ProcessInv, NEW o \in Operators, SaveApproval(o)
  PROVE  /\ DOMAIN approvals' = DOMAIN approvals
         /\ session[o].approval \in DOMAIN approvals
         /\ approvals[session[o].approval].status = "PENDING"
         /\ approvals'[session[o].approval].status = session[o].verdict
         /\ \A i \in DOMAIN approvals : approvals'[i].key = approvals[i].key
         /\ \A i \in DOMAIN approvals : i # session[o].approval => approvals'[i] = approvals[i]
<1>1. \A i \in DOMAIN approvals : approvals[i] \in Approval
  BY LenProperties, ElementOfSeq DEF TypeOK
<1>2. approvals[session[o].approval].status = "PENDING"
  BY DEF ProcessInv, SessionsAreFresh, SaveApproval
<1>3. QED
  BY <1>1, <1>2, SaveType DEF Approval

LEMMA ProcessSave ==
  ASSUME TypeOK, OneProcess, ProcessInv, NEW o \in Operators, SaveApproval(o)
  PROVE  ProcessInv'
<1>0. /\ session' = [session EXCEPT ![o] = Closed] /\ session[o] # Closed
      /\ UNCHANGED <<pc, request, orders>>
  BY DEF SaveApproval, callVars
<1>1. \A p \in Operators : session'[p] = Closed
  BY <1>0 DEF TypeOK, ProcessInv, LoopIsHeldOnce
<1>2. LoopIsHeldOnce' /\ SessionsAreFresh'
  BY <1>1, <1>0 DEF ProcessInv, LoopIsHeldOnce, SessionsAreFresh
<1>g. \A k : Granted(k) => Granted(k)'
  BY SaveEffect DEF Granted
<1>3. QuestionsAreNew' /\ GovernedIsAsked' /\ OneQuestion'
  BY <1>0, SaveEffect DEF ProcessInv, QuestionsAreNew, GovernedIsAsked, OneQuestion, KeyOf, Governed
<1>4. OrderingIsAuthorised' /\ OrdersHaveAuthority'
  BY <1>0, <1>g DEF ProcessInv, OrderingIsAuthorised, OrdersHaveAuthority, KeyOf, Autonomous
<1>5. QED
  BY <1>2, <1>3, <1>4 DEF ProcessInv

LEMMA ProcessInvariant == OneProcess => (Spec => []ProcessInv)
<1> SUFFICES ASSUME OneProcess
             PROVE  Spec => []ProcessInv
  OBVIOUS
<1>1. Init => ProcessInv
  BY DEF Init, ProcessInv, LoopIsHeldOnce, SessionsAreFresh, QuestionsAreNew, GovernedIsAsked,
     OneQuestion, OrderingIsAuthorised, OrdersHaveAuthority, Running
<1>2. TypeOK /\ ProcessInv /\ [Next]_vars => ProcessInv'
  <2> SUFFICES ASSUME TypeOK, ProcessInv, [Next]_vars
               PROVE  ProcessInv'
    OBVIOUS
  <2>1. CASE UNCHANGED <<callVars, session, approvals, orders>>
    BY <2>1 DEF callVars, ProcessInv, LoopIsHeldOnce, SessionsAreFresh, QuestionsAreNew,
       GovernedIsAsked, OneQuestion, OrderingIsAuthorised, OrdersHaveAuthority, KeyOf, Granted,
       Governed, Autonomous
  <2>2. CASE Next
    BY <2>1, <2>2, NextSteps, ProcessCallStep, ProcessRequest, ProcessOpen, ProcessSave
       DEF Suspend, Reinstate
  <2>3. QED
    BY <2>1, <2>2 DEF vars
<1>3. QED
  BY <1>1, <1>2, GatewayTypes, PTL DEF Spec

(* In one process, whatever the agents attempt at once, whatever is lost,  *)
(* blocked, expired or suspended: nothing is bought beyond the ceiling,    *)
(* nothing beyond the autonomous limit without a human's approval, and     *)
(* nothing a human refused.                                                *)
THEOREM OrdersAuthorised == OneProcess => (Spec => []OrdersAreAuthorised)
<1>1. ProcessInv /\ TypeOK => OrdersAreAuthorised
  <2> SUFFICES ASSUME ProcessInv, TypeOK, NEW o \in orders
               PROVE  /\ Amount[o.key] <= ApprovalMax
                      /\ Amount[o.key] > AutonomousMax => Granted(o.key)
                      /\ \A i \in DOMAIN approvals :
                           approvals[i].key = o.key => approvals[i].status # "REJECTED"
    BY DEF OrdersAreAuthorised, Granted
  <2>1. o.key \in Keys /\ Amount[o.key] \in Nat /\ AutonomousMax \in Nat /\ ApprovalMax \in Nat
    BY GatewayAssumption DEF TypeOK
  <2>2. Autonomous(o.key) \/ Granted(o.key)
    BY DEF ProcessInv, OrdersHaveAuthority
  <2>3. CASE Granted(o.key)
    <3>1. PICK i \in DOMAIN approvals : approvals[i].key = o.key /\ approvals[i].status = "APPROVED"
      BY <2>3 DEF Granted
    <3>2. Governed(o.key)
      BY <3>1 DEF ProcessInv, GovernedIsAsked
    <3>3. \A j \in DOMAIN approvals : approvals[j].key = o.key => j = i
      BY <3>1 DEF ProcessInv, OneQuestion
    <3>4. QED
      BY <2>3, <3>1, <3>2, <3>3 DEF Governed
  <2>4. CASE Autonomous(o.key)
    BY <2>1, <2>4, GatewayAssumption DEF Autonomous, Governed, ProcessInv, GovernedIsAsked
  <2>5. QED
    BY <2>2, <2>3, <2>4
<1>2. QED
  BY <1>1, ProcessInvariant, GatewayTypes, PTL

(* In one process a human is asked once about an action.                   *)
THEOREM AskedOnce == OneProcess => (Spec => []OneQuestion)
<1>1. ProcessInv => OneQuestion
  BY DEF ProcessInv
<1>2. QED
  BY <1>1, ProcessInvariant, PTL

(***************************************************************************)
(* The gateway implements Purchasing                                       *)
(***************************************************************************)

LEMMA PurchasingInit == Init => Purchases!Init
BY DEF Init, Purchases!Init, WithStatus

(* A step that leaves approvals and orders alone is a stutter.             *)
LEMMA PurchasingStutter == UNCHANGED <<approvals, orders>> => UNCHANGED Purchases!vars
BY DEF Purchases!vars, WithStatus

(* Placing an order is buying, with the authority and for the first time.  *)
LEMMA PurchasingBuy ==
  ASSUME TypeOK, OneProcess, InTurn, TurnInv, ProcessInv, NEW c \in Calls, PlaceOrder(c)
  PROVE  Purchases!Buy(KeyOf(c), c)
<1>1. /\ orders' = orders \cup {[key |-> KeyOf(c), by |-> c]}
      /\ UNCHANGED approvals
      /\ KeyOf(c) \in Keys
  BY DEF PlaceOrder, TypeOK, KeyOf, Request
<1>2. \A o \in orders : o.key # KeyOf(c)
  BY OrderIsNew
<1>3. Autonomous(KeyOf(c)) \/ Granted(KeyOf(c))
  BY DEF PlaceOrder, ProcessInv, OrderingIsAuthorised
<1>4. WithStatus("APPROVED")' = WithStatus("APPROVED") /\ WithStatus("REJECTED")' = WithStatus("REJECTED")
  BY <1>1 DEF WithStatus
<1>5. QED
  BY <1>1, <1>2, <1>3, <1>4 DEF Purchases!Buy, Purchases!Bought, Autonomous, Granted, WithStatus

(* A request for approval is invisible: it decides nothing.                *)
LEMMA PurchasingRequest ==
  ASSUME TypeOK, NEW c \in Calls, RequestApproval(c)
  PROVE  UNCHANGED Purchases!vars
<1> DEFINE n == Len(approvals) + 1
<1>0. /\ DOMAIN approvals' = DOMAIN approvals \cup {n}
      /\ \A i \in DOMAIN approvals : approvals'[i] = approvals[i]
      /\ approvals'[n] = [key |-> KeyOf(c), status |-> "PENDING"]
      /\ UNCHANGED orders
  BY RequestEffect
<1> HIDE DEF n
<1>1. /\ WithStatus("APPROVED")' = WithStatus("APPROVED")
      /\ WithStatus("REJECTED")' = WithStatus("REJECTED")
  BY <1>0 DEF WithStatus
<1>2. QED
  BY <1>0, <1>1 DEF Purchases!vars

(* A decision saved is the human's word, or an expiry, which is not.       *)
LEMMA PurchasingSave ==
  ASSUME TypeOK, OneProcess, ProcessInv, NEW o \in Operators, SaveApproval(o)
  PROVE  \/ \E k \in Keys : Purchases!Grant(k) \/ Purchases!Refuse(k)
         \/ UNCHANGED Purchases!vars
<1> DEFINE n == session[o].approval
           v == session[o].verdict
           k == approvals[n].key
<1>1. /\ DOMAIN approvals' = DOMAIN approvals /\ n \in DOMAIN approvals
      /\ approvals[n].status = "PENDING" /\ approvals'[n].status = v
      /\ \A i \in DOMAIN approvals : approvals'[i].key = approvals[i].key
      /\ \A i \in DOMAIN approvals : i # n => approvals'[i] = approvals[i]
  BY SaveEffect
<1>2. v \in Verdicts /\ v \in {"APPROVED", "REJECTED", "EXPIRED"}
  BY SaveType DEF Verdicts
<1>3. k \in Keys /\ Governed(k)
  <2>1. approvals[n] \in Approval
    BY <1>1, LenProperties, ElementOfSeq DEF TypeOK
  <2>2. QED
    BY <1>1, <2>1 DEF Approval, ProcessInv, GovernedIsAsked
<1>4. \A i \in DOMAIN approvals : approvals[i].key = k => i = n
  BY <1>1 DEF ProcessInv, OneQuestion
<1> HIDE DEF n, v, k
<1>5. k \notin WithStatus("APPROVED") \cup WithStatus("REJECTED")
  BY <1>1, <1>4 DEF WithStatus
<1>6. \A st \in {"APPROVED", "REJECTED"} :
        WithStatus(st)' = IF st = v THEN WithStatus(st) \cup {k} ELSE WithStatus(st)
  BY <1>1, <1>2, <1>3 DEF WithStatus, k
<1>7. UNCHANGED orders
  BY DEF SaveApproval
<1>8. CASE v = "APPROVED"
  BY <1>3, <1>5, <1>6, <1>7, <1>8 DEF Purchases!Grant, Governed
<1>9. CASE v = "REJECTED"
  BY <1>3, <1>5, <1>6, <1>7, <1>9 DEF Purchases!Refuse, Governed
<1>10. CASE v = "EXPIRED"
  BY <1>6, <1>7, <1>10 DEF Purchases!vars
<1>11. QED
  BY <1>2, <1>8, <1>9, <1>10

(* In one process, with purchase calls in turn and every answer recorded,  *)
(* the pipeline with its approvals and its idempotency records implements  *)
(* the abstract purchasing.                                                *)
THEOREM ImplementsPurchasing == OneProcess /\ InTurn => (Spec => KeepsPurchases)
<1> SUFFICES ASSUME OneProcess, InTurn
             PROVE  Spec => KeepsPurchases
  OBVIOUS
<1>1. TypeOK /\ TurnInv /\ ProcessInv /\ [Next]_vars => [Purchases!Next]_(Purchases!vars)
  <2> SUFFICES ASSUME TypeOK, TurnInv, ProcessInv, [Next]_vars
               PROVE  Purchases!Next \/ UNCHANGED Purchases!vars
    OBVIOUS
  <2>1. ASSUME NEW c \in Calls, PlaceOrder(c)
        PROVE  Purchases!Next
    <3>1. KeyOf(c) \in Keys
      BY DEF TypeOK, KeyOf, Request
    <3>2. QED
      BY <2>1, <3>1, PurchasingBuy DEF Purchases!Next
  <2>2. ASSUME NEW c \in Calls, CallStep(c), ~PlaceOrder(c)
        PROVE  UNCHANGED <<approvals, orders>>
    BY <2>2 DEF CallStep, Start, Identify, EvaluatePolicy, CheckApproval, NothingCovers, Lookup,
       RefuseOrder, LoseAnswer, Crash, PassAnswer, SanitiseAnswer, Remember, Audit
  <2>3. ASSUME NEW o \in Operators, SaveApproval(o)
        PROVE  Purchases!Next \/ UNCHANGED Purchases!vars
    BY <2>3, PurchasingSave DEF Purchases!Next
  <2>4. CASE UNCHANGED <<approvals, orders>>
    BY <2>4, PurchasingStutter
  <2>5. CASE Next
    BY <2>1, <2>2, <2>3, <2>4, <2>5, NextSteps, PurchasingRequest
       DEF OpenApproval, Suspend, Reinstate
  <2>6. QED
    BY <2>4, <2>5 DEF vars
<1>2. Spec => []TurnInv
  BY TurnInvariant
<1>3. QED
  BY <1>1, <1>2, PurchasingInit, ProcessInvariant, GatewayTypes, PTL
     DEF Spec, KeepsPurchases, Purchases!Spec

(***************************************************************************)
(* Success, and the audit trail                                            *)
(***************************************************************************)

HasOrder(k) == \E o \in orders : o.key = k

(* Whoever is past the tool has an order, and so has every record.         *)
SuccessInv ==
  /\ \A c \in Calls : pc[c] \in {"answer", "remember", "audit"} => HasOrder(KeyOf(c))
  /\ \A k \in ledger : HasOrder(k)
  /\ \A c \in Calls : answer[c] \in {"SUCCESS", "REPLAYED"} => HasOrder(KeyOf(c))

(* The call of an order is on its way to its audit record, or has one.     *)
AuditInv ==
  /\ NoneAbandoned
  /\ \A o \in orders : o.by \in Calls /\ (pc[o.by] \in {"answer", "remember", "audit"} \/ o.by \in audited)

Answering == Faults \subseteq {"flagged", "expiry", "suspension"}

(* What a step does to the call that takes it, as far as orders go.        *)
LEMMA CallEffect ==
  ASSUME TypeOK, SuccessInv, NEW c \in Calls, CallStep(c) \/ RequestApproval(c)
  PROVE  /\ request' = request /\ audited \subseteq audited'
         /\ \A d \in Calls \ {c} : pc'[d] = pc[d] /\ answer'[d] = answer[d]
         /\ orders' = orders \/ PlaceOrder(c)
         /\ ledger' = ledger \/ Remember(c)
         /\ pc'[c] \in {"answer", "remember", "audit"} =>
              PlaceOrder(c) \/ pc[c] \in {"answer", "remember", "audit"}
         /\ answer'[c] \in {"SUCCESS", "REPLAYED"} =>
              \/ answer[c] \in {"SUCCESS", "REPLAYED"}
              \/ pc[c] \in {"answer", "audit"} \/ KeyOf(c) \in ledger
<1> USE DEF TypeOK
<1>1. CASE Start(c) \/ NothingCovers(c) \/ PassAnswer(c)
  BY <1>1 DEF Start, NothingCovers, PassAnswer, At, Goto
<1>2. CASE Identify(c)
  BY <1>2 DEF Identify, At, Goto, Return, Audited, Unaudited
<1>3. CASE EvaluatePolicy(c)
  BY <1>3 DEF EvaluatePolicy, At, Goto, Return, Audited
<1>4. CASE CheckApproval(c)
  BY <1>4 DEF CheckApproval, At, Return, Audited, Unaudited
<1>5. CASE Lookup(c) BY <1>5 DEF Lookup, At, Goto, Return, Audited
<1>6. CASE PlaceOrder(c) BY <1>6 DEF PlaceOrder, Goto
<1>7. CASE RefuseOrder(c) BY <1>7 DEF RefuseOrder, At, Return, Audited, KeepLedger
<1>8. CASE LoseAnswer(c) BY <1>8 DEF LoseAnswer
<1>9. CASE Crash(c) BY <1>9 DEF Crash, Return, Unaudited
<1>10. CASE SanitiseAnswer(c) BY <1>10 DEF SanitiseAnswer, At, Return, Audited
<1>11. CASE Remember(c) BY <1>11 DEF Remember, At, Goto
<1>12. CASE Audit(c) BY <1>12 DEF Audit, At, Return, Audited
<1>13. CASE RequestApproval(c) BY <1>13 DEF RequestApproval, Return, Audited
<1>. QED BY <1>1, <1>2, <1>3, <1>4, <1>5, <1>6, <1>7, <1>8, <1>9, <1>10, <1>11, <1>12, <1>13
         DEF CallStep

LEMMA SuccessCall ==
  ASSUME TypeOK, SuccessInv, NEW c \in Calls, CallStep(c) \/ RequestApproval(c)
  PROVE  SuccessInv'
<1>1. \A d \in Calls : KeyOf(d)' = KeyOf(d) BY CallEffect DEF KeyOf
<1>2. \A k : HasOrder(k) => HasOrder(k)'
  <2>1. orders \subseteq orders' BY CallEffect DEF PlaceOrder
  <2>. QED BY <2>1 DEF HasOrder
<1>3. PlaceOrder(c) => HasOrder(KeyOf(c))'
  <2>1. SUFFICES ASSUME PlaceOrder(c) PROVE HasOrder(KeyOf(c))' OBVIOUS
  <2>2. [key |-> KeyOf(c), by |-> c] \in orders' BY <2>1 DEF PlaceOrder
  <2>. QED BY <1>1, <2>2 DEF HasOrder
<1>4. ASSUME NEW d \in Calls, pc'[d] \in {"answer", "remember", "audit"}
      PROVE  HasOrder(KeyOf(d))'
  <2>1. (PlaceOrder(c) /\ d = c) \/ pc[d] \in {"answer", "remember", "audit"} BY <1>4, CallEffect
  <2>2. CASE PlaceOrder(c) /\ d = c BY <1>3, <2>2
  <2>3. CASE HasOrder(KeyOf(d)) BY <1>1, <1>2, <2>3 DEF HasOrder
  <2>. QED BY <2>1, <2>2, <2>3 DEF SuccessInv
<1>5. ASSUME NEW k \in ledger' PROVE HasOrder(k)'
  <2>1. CASE k \in ledger BY <1>2, <2>1 DEF SuccessInv
  <2>2. CASE Remember(c) /\ k = KeyOf(c)
    <3>1. pc[c] = "remember" BY <2>2 DEF Remember, At
    <3>. QED BY <1>2, <2>2, <3>1 DEF SuccessInv
  <2>3. CASE ledger' = ledger BY <1>5, <2>1, <2>3
  <2>. QED BY <1>5, <2>1, <2>2, <2>3, CallEffect DEF Remember, RecordResult
<1>6. ASSUME NEW d \in Calls, answer'[d] \in {"SUCCESS", "REPLAYED"}
      PROVE  HasOrder(KeyOf(d))'
  <2>1. HasOrder(KeyOf(d))
    <3>1. CASE d # c BY <1>6, <3>1, CallEffect DEF SuccessInv
    <3>2. CASE d = c BY <1>6, <3>2, CallEffect DEF SuccessInv
    <3>. QED BY <3>1, <3>2
  <2>. QED BY <1>1, <1>2, <2>1 DEF HasOrder
<1>. QED BY <1>4, <1>5, <1>6 DEF SuccessInv

(* Operators decide and suspend, and touch no call.                        *)
LEMMA OperatorEffect ==
  ASSUME \/ \E o \in Operators, i \in DOMAIN approvals, v \in Verdicts : OpenApproval(o, i, v)
         \/ \E o \in Operators : SaveApproval(o)
         \/ \E a \in Agents : Suspend(a) \/ Reinstate(a)
         \/ UNCHANGED vars
  PROVE  UNCHANGED <<pc, request, answer, audited, ledger, orders>>
BY DEF OpenApproval, SaveApproval, Suspend, Reinstate, vars, callVars

LEMMA SuccessInvariant == Spec => [](TypeOK /\ SuccessInv)
<1>1. Init => SuccessInv BY DEF Init, SuccessInv
<1>2. TypeOK /\ SuccessInv /\ [Next]_vars => SuccessInv'
  <2>1. SUFFICES ASSUME TypeOK, SuccessInv, [Next]_vars PROVE SuccessInv' OBVIOUS
  <2>2. CASE \E c \in Calls : CallStep(c) \/ RequestApproval(c) BY <2>1, <2>2, SuccessCall
  <2>3. CASE UNCHANGED <<pc, request, answer, audited, ledger, orders>>
    BY <2>1, <2>3 DEF SuccessInv, HasOrder, KeyOf
  <2>. QED BY <2>1, <2>2, <2>3, NextSteps, OperatorEffect
<1>. QED BY <1>1, <1>2, GatewayTypes, PTL DEF Spec

(* A SUCCESS, replayed or not, stands for an order the enterprise has, in  *)
(* both configurations and under every fault.                              *)
THEOREM SuccessIsTrue == Spec => []SuccessMeansOrdered
<1>1. SuccessInv => SuccessMeansOrdered
  BY DEF SuccessInv, SuccessMeansOrdered, HasOrder, OrdersOf
<1>. QED BY <1>1, SuccessInvariant, PTL

LEMMA AuditCall ==
  ASSUME Answering, TypeOK, SuccessInv, AuditInv, NEW c \in Calls,
         CallStep(c) \/ RequestApproval(c)
  PROVE  AuditInv'
<1>1. pc[c] \in {"answer", "remember", "audit"} =>
        pc'[c] \in {"answer", "remember", "audit"} \/ c \in audited'
  <2>1. SUFFICES ASSUME pc[c] \in {"answer", "remember", "audit"}
                 PROVE  pc'[c] \in {"answer", "remember", "audit"} \/ c \in audited'
    OBVIOUS
  <2>2. PassAnswer(c) \/ SanitiseAnswer(c) \/ Remember(c) \/ Audit(c)
    <3>1. ~(Start(c) \/ NothingCovers(c) \/ Identify(c) \/ EvaluatePolicy(c) \/ CheckApproval(c))
      BY <2>1 DEF Start, NothingCovers, Identify, EvaluatePolicy, CheckApproval, At
    <3>2. ~(Lookup(c) \/ PlaceOrder(c) \/ RefuseOrder(c) \/ RequestApproval(c))
      BY <2>1 DEF Lookup, PlaceOrder, RefuseOrder, RequestApproval, At
    <3>3. ~(LoseAnswer(c) \/ Crash(c)) BY DEF Answering, LoseAnswer, Crash
    <3>. QED BY <3>1, <3>2, <3>3 DEF CallStep
  <2>. QED BY <2>2 DEF PassAnswer, SanitiseAnswer, Remember, Audit, Goto, Return, Audited, TypeOK
<1>2. ASSUME NEW o \in orders' PROVE o.by \in Calls /\ (pc'[o.by] \in {"answer", "remember", "audit"} \/ o.by \in audited')
  <2>1. CASE o \in orders
    <3>1. CASE o.by = c BY <1>1, <2>1, <3>1, CallEffect DEF AuditInv
    <3>2. CASE o.by # c BY <2>1, <3>2, CallEffect DEF AuditInv
    <3>. QED BY <3>1, <3>2
  <2>2. CASE PlaceOrder(c) /\ o = [key |-> KeyOf(c), by |-> c]
    <3>1. pc[c] = "tool" BY <2>2 DEF PlaceOrder, AuditInv, NoneAbandoned
    <3>. QED BY <2>2, <3>1 DEF PlaceOrder, Goto, TypeOK
  <2>. QED BY <1>2, <2>1, <2>2, CallEffect DEF PlaceOrder
<1>3. NoneAbandoned'
  <2>1. pc'[c] # "abandoned"
    <3>1. CASE Start(c) \/ NothingCovers(c) \/ Identify(c) \/ EvaluatePolicy(c) \/ CheckApproval(c)
      BY <3>1 DEF Start, NothingCovers, Identify, EvaluatePolicy, CheckApproval, At, Goto,
                  Return, TypeOK
    <3>2. CASE Lookup(c) \/ PlaceOrder(c) \/ RefuseOrder(c) \/ RequestApproval(c)
      BY <3>2 DEF Lookup, PlaceOrder, RefuseOrder, RequestApproval, At, Goto, Return, TypeOK
    <3>3. CASE PassAnswer(c) \/ SanitiseAnswer(c) \/ Remember(c) \/ Audit(c)
      BY <3>3 DEF PassAnswer, SanitiseAnswer, Remember, Audit, At, Goto, Return, TypeOK
    <3>4. ~(LoseAnswer(c) \/ Crash(c)) BY DEF Answering, LoseAnswer, Crash
    <3>. QED BY <3>1, <3>2, <3>3, <3>4 DEF CallStep
  <2>. QED BY <2>1, CallEffect DEF AuditInv, NoneAbandoned
<1>. QED BY <1>2, <1>3 DEF AuditInv

(* No order without a trace, where every request is answered: flagged      *)
(* answers and expiries included, in both configurations.                  *)
THEOREM OrdersLeaveATrace == Answering => (Spec => []OrdersAreAudited)
<1> SUFFICES ASSUME Answering PROVE Spec => []OrdersAreAudited OBVIOUS
<1>1. Init => AuditInv BY DEF Init, AuditInv, NoneAbandoned
<1>2. TypeOK /\ SuccessInv /\ AuditInv /\ [Next]_vars => AuditInv'
  <2>1. SUFFICES ASSUME TypeOK, SuccessInv, AuditInv, [Next]_vars PROVE AuditInv' OBVIOUS
  <2>2. CASE \E c \in Calls : CallStep(c) \/ RequestApproval(c) BY <2>1, <2>2, AuditCall
  <2>3. CASE UNCHANGED <<pc, request, answer, audited, ledger, orders>>
    BY <2>1, <2>3 DEF AuditInv, NoneAbandoned
  <2>. QED BY <2>1, <2>2, <2>3, NextSteps, OperatorEffect
<1>3. AuditInv => OrdersAreAudited BY DEF AuditInv, OrdersAreAudited
<1>. QED BY <1>1, <1>2, <1>3, SuccessInvariant, PTL DEF Spec

(***************************************************************************)
(* Authority, wherever calls and deciders overlap                          *)
(***************************************************************************)

WithinCeiling(k) == Amount[k] <= ApprovalMax

Endorsed(k) == WithinCeiling(k) /\ (Amount[k] > AutonomousMax => k \in endorsed)

(* A decision saved over another one takes an approval out of APPROVED and *)
(* leaves the human's word in endorsed, which is what a call that has      *)
(* passed the approval step relies on.                                     *)
EndorsedInv ==
  /\ \A i \in DOMAIN approvals : approvals[i].status = "APPROVED" => approvals[i].key \in endorsed
  /\ \A c \in Calls : pc[c] \in {"approval", "request"} => WithinCeiling(KeyOf(c))
  /\ \A c \in Calls : pc[c] \in {"lookup", "tool", "abandoned"} => Endorsed(KeyOf(c))
  /\ \A o \in orders : Endorsed(o.key)

(* What a step of a call does to what it may do next.                      *)
LEMMA EndorsedPosition ==
  ASSUME TypeOK, EndorsedInv, NEW c \in Calls, CallStep(c) \/ RequestApproval(c)
  PROVE  /\ UNCHANGED <<request, endorsed>>
         /\ \A d \in Calls \ {c} : pc'[d] = pc[d]
         /\ pc'[c] \in {"approval", "request"} => WithinCeiling(KeyOf(c))
         /\ pc'[c] \in {"lookup", "tool", "abandoned"} => Endorsed(KeyOf(c))
         /\ \A o \in orders' \ orders : o.key = KeyOf(c) /\ Endorsed(KeyOf(c))
<1> USE DEF TypeOK
<1>1. CASE Start(c) \/ Identify(c)
  BY <1>1 DEF Start, Identify, At, Goto, Return
<1>2. CASE EvaluatePolicy(c)
  <2>1. Amount[KeyOf(c)] \in Nat
    BY GatewayAssumption DEF KeyOf, Request
  <2>2. QED
    BY <1>2, <2>1, GatewayAssumption
       DEF EvaluatePolicy, Decision, At, Goto, Return, WithinCeiling, Endorsed
<1>3. CASE CheckApproval(c)
  <2>1. pc[c] = "approval" /\ WithinCeiling(KeyOf(c))
    BY <1>3 DEF CheckApproval, At, EndorsedInv
  <2>2. PICK i \in DOMAIN approvals :
          /\ Covers(i, KeyOf(c))
          /\ \/ pc' = [pc EXCEPT ![c] = "lookup"] /\ approvals[i].status = "APPROVED"
             \/ pc' = [pc EXCEPT ![c] = "done"]
    BY <1>3 DEF CheckApproval, Return
  <2>3. approvals[i].key = KeyOf(c)
    BY <2>2 DEF Covers, Matches
  <2>4. approvals[i].status = "APPROVED" => Endorsed(KeyOf(c))
    BY <2>1, <2>3 DEF EndorsedInv, Endorsed
  <2>5. UNCHANGED <<request, endorsed, orders>>
    BY <1>3 DEF CheckApproval, Return
  <2>6. QED
    BY <2>2, <2>4, <2>5
<1>4. CASE NothingCovers(c) \/ RequestApproval(c)
  BY <1>4 DEF NothingCovers, RequestApproval, At, Goto, Return, EndorsedInv
<1>5. CASE Lookup(c)
  BY <1>5 DEF Lookup, At, Goto, Return, EndorsedInv
<1>6. CASE PlaceOrder(c)
  BY <1>6 DEF PlaceOrder, Goto, EndorsedInv
<1>7. CASE RefuseOrder(c) \/ Crash(c)
  BY <1>7 DEF RefuseOrder, Crash, At, Return
<1>8. CASE LoseAnswer(c)
  BY <1>8 DEF LoseAnswer, Waiting, EndorsedInv
<1>9. CASE PassAnswer(c) \/ SanitiseAnswer(c)
  BY <1>9 DEF PassAnswer, SanitiseAnswer, At, Goto, Return
<1>10. CASE Remember(c) \/ Audit(c)
  BY <1>10 DEF Remember, Audit, At, Goto, Return
<1>11. QED
  BY <1>1, <1>2, <1>3, <1>4, <1>5, <1>6, <1>7, <1>8, <1>9, <1>10 DEF CallStep

(* Only a request adds an approval, and it is PENDING.                     *)
LEMMA EndorsedCall ==
  ASSUME TypeOK, EndorsedInv, NEW c \in Calls, CallStep(c) \/ RequestApproval(c)
  PROVE  EndorsedInv'
<1>1. \A k : Endorsed(k)' = Endorsed(k) /\ WithinCeiling(k)' = WithinCeiling(k)
  BY EndorsedPosition DEF Endorsed, WithinCeiling
<1>2. \A d \in Calls : KeyOf(d)' = KeyOf(d)
  BY EndorsedPosition DEF KeyOf
<1>3. \A i \in DOMAIN approvals' :
        approvals'[i].status = "APPROVED" => approvals'[i].key \in endorsed'
  <2>1. CASE CallStep(c)
    <3>1. approvals' = approvals
      BY <2>1 DEF CallStep, Start, Identify, EvaluatePolicy, CheckApproval, NothingCovers, Lookup,
         PlaceOrder, RefuseOrder, LoseAnswer, Crash, PassAnswer, SanitiseAnswer, Remember, Audit
    <3>2. QED
      BY <3>1, EndorsedPosition DEF EndorsedInv
  <2>2. CASE RequestApproval(c)
    <3>1. /\ approvals' = Append(approvals, [key |-> KeyOf(c), status |-> "PENDING"])
          /\ approvals \in Seq(Approval) /\ KeyOf(c) \in Keys
      BY <2>2 DEF RequestApproval, TypeOK, KeyOf, Request
    <3>2. [key |-> KeyOf(c), status |-> "PENDING"] \in Approval
      BY <3>1 DEF Approval, ApprovalStatus
    <3>3. \A i \in DOMAIN approvals' :
            \/ i \in DOMAIN approvals /\ approvals'[i] = approvals[i]
            \/ approvals'[i].status = "PENDING"
      BY <3>1, <3>2, AppendProperties
    <3>4. QED
      BY <3>3, EndorsedPosition DEF EndorsedInv
  <2>3. QED
    BY <2>1, <2>2
<1>4. ASSUME NEW d \in Calls
      PROVE  /\ pc'[d] \in {"approval", "request"} => WithinCeiling(KeyOf(d))
             /\ pc'[d] \in {"lookup", "tool", "abandoned"} => Endorsed(KeyOf(d))
  BY EndorsedPosition DEF EndorsedInv
<1>5. \A o \in orders' : Endorsed(o.key)
  BY EndorsedPosition DEF EndorsedInv
<1>6. QED
  BY <1>1, <1>2, <1>3, <1>4, <1>5 DEF EndorsedInv

LEMMA EndorsedSave ==
  ASSUME TypeOK, EndorsedInv, NEW o \in Operators, SaveApproval(o)
  PROVE  EndorsedInv'
<1>1. /\ UNCHANGED <<pc, request, orders>> /\ endorsed \subseteq endorsed'
      /\ session[o].verdict = "APPROVED" => approvals[session[o].approval].key \in endorsed'
  BY DEF SaveApproval, callVars
<1>2. \A i \in DOMAIN approvals' :
        approvals'[i].status = "APPROVED" => approvals'[i].key \in endorsed'
  <2> SUFFICES ASSUME NEW i \in DOMAIN approvals', approvals'[i].status = "APPROVED"
               PROVE  approvals'[i].key \in endorsed'
    OBVIOUS
  <2>1. i \in DOMAIN approvals /\ approvals[i] \in Approval
    BY SaveType, LenProperties, ElementOfSeq DEF TypeOK
  <2>2. CASE i = session[o].approval
    BY <1>1, <2>1, <2>2, SaveType DEF Approval
  <2>3. CASE i # session[o].approval
    BY <1>1, <2>1, <2>3, SaveType DEF EndorsedInv
  <2>4. QED
    BY <2>2, <2>3
<1>3. \A k : Endorsed(k) => Endorsed(k)'
  BY <1>1 DEF Endorsed, WithinCeiling
<1>4. \A c \in Calls : KeyOf(c)' = KeyOf(c)
  BY <1>1 DEF KeyOf
<1>5. QED
  BY <1>1, <1>2, <1>3, <1>4 DEF EndorsedInv, WithinCeiling

(* Whatever overlaps, fails or dies, in both configurations: no order is   *)
(* beyond the ceiling, and none beyond the autonomous limit for which no   *)
(* human has approved that very action.                                    *)
THEOREM OrdersHadEndorsement == Spec => []OrdersWereEndorsed
<1>1. Init => EndorsedInv
  BY DEF Init, EndorsedInv
<1>2. TypeOK /\ EndorsedInv /\ [Next]_vars => EndorsedInv'
  <2> SUFFICES ASSUME TypeOK, EndorsedInv, [Next]_vars PROVE EndorsedInv'
    OBVIOUS
  <2>1. CASE UNCHANGED <<pc, request, approvals, endorsed, orders>>
    BY <2>1 DEF EndorsedInv, Endorsed, WithinCeiling, KeyOf
  <2>2. QED
    BY <2>1, EndorsedCall, EndorsedSave, NextSteps
       DEF OpenApproval, Suspend, Reinstate, vars, callVars
<1>3. EndorsedInv => OrdersWereEndorsed
  BY DEF EndorsedInv, Endorsed, WithinCeiling, OrdersWereEndorsed
<1>4. QED
  BY <1>1, <1>2, <1>3, GatewayTypes, PTL DEF Spec

=============================================================================
