------------------------- MODULE MissionTurnProofs -------------------------
(***************************************************************************)
(* A mission nobody resumes is driven by one thing at a time: an event, an *)
(* agent, the Failure Twin or a human.  The theorems of this module follow *)
(* from that, for every chain, offers, strategies and operator bounds; what *)
(* a resume adds is a second one, which MissionEngine's runs look into.    *)
(***************************************************************************)
EXTENDS MissionEngineProofs

(* Nobody resumes, and agents report what the gateway answered them.       *)
Unresumed == MaxResumes = 0 /\ "free_report" \notin Faults

(***************************************************************************)
(* The invariant                                                           *)
(***************************************************************************)

(* The approval the agent at work, or the mission, waits for.              *)
Current(a) == \/ pc = "agent" /\ job.asked = a
              \/ status = "WAITING_APPROVAL" /\ pending = a

(* Who has the turn.  A mission is also left alone, parked by the twin or  *)
(* by its suspension, or with a task claimed for an unknown agent.         *)
OneTurn ==
  \/ pc = "idle" /\ queue = <<>> /\ status \in {"CREATED", "AT_RISK", "RECOVERING"}
  \/ pc = "idle" /\ queue = <<>> /\ status \in TerminalMission
  \/ pc = "idle" /\ queue = <<>> /\ status = "EXECUTING" /\ stray # {}
  \/ /\ pc = "idle" /\ status = "EXECUTING"
     /\ Len(queue) = 1 /\ Head(queue).type # "APPROVAL_RECEIVED"
  \/ /\ pc = "agent" /\ status = "EXECUTING"
     /\ queue = <<>> \/ (job.asked # 0 /\ queue = <<Decided(job.asked)>>)
  \/ pc = "twin" /\ queue = <<>> /\ status = "RECOVERING"
  \/ /\ pc = "idle" /\ status = "WAITING_APPROVAL" /\ pending # 0
     /\ queue = <<>> \/ queue = <<Decided(pending)>>

(* An approval that is not granted is the one at hand, or has ended the    *)
(* mission; its decision, once taken, is the event to come.                *)
OneApproval ==
  \A a \in 1 .. Len(approvals) :
    /\ approvals[a].status # "APPROVED" => status = "FAILED" \/ Current(a)
    /\ approvals[a].status = "PENDING" => Current(a) /\ queue = <<>>
    /\ Current(a) /\ approvals[a].status \in {"APPROVED", "REJECTED"}
         => queue = <<Decided(a)>>

(* The agent was given the approval of its own purchase.                   *)
AskedForIt ==
  job.asked # 0 =>
    pc = "agent" /\ job.asked \in ForOffer(job.offer) /\ approvals[job.asked].task = job.task

(* Tasks that wait for their turn or are done, in the order of the chain.  *)
InOrder(ts) ==
  \A t \in Tasks : ts[t] # "PENDING" => \A d \in DependsOn(t) : ts[d] = "COMPLETED"

AtHand == IF pc # "idle" THEN {job.task}
          ELSE IF status = "WAITING_APPROVAL" THEN {approvals[pending].task} ELSE {}

Live == pc # "idle" \/ queue # <<>> \/ status \in {"CREATED", "WAITING_APPROVAL"}

OneTask ==
  /\ InOrder(taskStatus)
  /\ Live => \A t \in Tasks \ AtHand : taskStatus[t] \in {"PENDING", "COMPLETED"}
  /\ pc = "agent" => /\ taskStatus[job.task] \in {"RUNNING", "PENDING"}
                     /\ \A d \in DependsOn(job.task) : taskStatus[d] = "COMPLETED"
  /\ pc = "twin" => taskStatus[job.task] = "FAILED"
  /\ status = "WAITING_APPROVAL" => taskStatus[approvals[pending].task] \in {"WAITING", "FAILED"}

(* A claim without an execution is for an agent nobody knows, which only   *)
(* a plan to switch agents can have named.                                 *)
Claims ==
  /\ \A t \in Tasks : taskStatus[t] = "RUNNING" => (pc = "agent" /\ job.task = t) \/ t \in stray
  /\ "SWITCH_AGENT" \notin Strategies =>
       stray = {} /\ \A a \in 1 .. Len(approvals) : approvals[a].plan.agent = "none"

(* The only recovery in progress is the one the mission waits for, or one  *)
(* whose twin was refused, which has parked the mission.                   *)
OneRecovery ==
  \A a \in open :
    \/ /\ a \in 1 .. Len(approvals) /\ approvals[a].action = "recovery.apply"
       /\ status = "WAITING_APPROVAL" /\ pending = a
    \/ a = 0 /\ pc = "idle" /\ status = "RECOVERING"

TurnCore == OneTurn /\ OneApproval /\ AskedForIt /\ OneTask /\ Claims /\ OneRecovery

TurnInv == TypeOK /\ TurnCore

(* What is done stays done.                                                *)
Kept == \A t \in Tasks : taskStatus[t] = "COMPLETED" => taskStatus'[t] = "COMPLETED"

(***************************************************************************)
(* The queue, with one event at most                                       *)
(***************************************************************************)

LEMMA OneEvent ==
  ASSUME NEW e \in Event
  PROVE  /\ Append(<<>>, e) = <<e>> /\ Head(<<e>>) = e /\ Tail(<<e>>) = <<>>
         /\ Len(<<e>>) = 1 /\ <<e>> # <<>>
OBVIOUS

LEMMA LastEvent ==
  ASSUME TypeOK, Len(queue) = 1
  PROVE  Tail(queue) = <<>> /\ queue # <<>>
<1>1. queue \in Seq(Event) /\ queue # <<>>
  <2>1. queue \in Seq(Event)
    BY DEF TypeOK
  <2>2. Len(<<>>) = 0
    OBVIOUS
  <2>3. queue # <<>>
    BY <2>2
  <2>4. QED
    BY <2>1, <2>3
<1>2. Tail(queue) \in Seq(Event) /\ Len(Tail(queue)) = 0
  BY <1>1, HeadTailProperties
<1>3. QED
  BY <1>1, <1>2, EmptySeq

(***************************************************************************)
(* advance and the directives, in a mission whose tasks all wait or are    *)
(* done, but for the one at hand                                           *)
(***************************************************************************)

Settled(ts) == ts \in [Tasks -> {"PENDING", "COMPLETED"}] /\ InOrder(ts)

(* No approval is open, and no recovery.                                   *)
Unasked ==
  /\ \A a \in 1 .. Len(approvals) : approvals[a].status = "APPROVED"
  /\ open' = {} /\ UNCHANGED approvals

(* advance always finds something to do: the first task not done.          *)
LEMMA FirstRunnable ==
  ASSUME NEW ts, Settled(ts), Runnable(ts) = {}
  PROVE  AllCompleted(ts)
<1> SUFFICES ASSUME ~AllCompleted(ts) PROVE FALSE
  OBVIOUS
<1>1. PICK t \in Tasks : /\ ts[t] # "COMPLETED"
                        /\ \A d \in DependsOn(t) : ts[d] = "COMPLETED"
  BY FirstUnfinished
<1>2. ts[t] = "PENDING"
  BY <1>1 DEF Settled
<1>3. QED
  BY <1>1, <1>2 DEF Runnable, Claimable

LEMMA AdvanceTurn ==
  ASSUME TypeOK, Claims, NEW ts, Settled(ts), NEW log,
         Advance("EXECUTING", ts, log), queue' = <<>>, Unasked,
         "SWITCH_AGENT" \notin Strategies => stray' = {}
  PROVE  /\ TurnCore'
         /\ \A t \in Tasks : ts[t] = "COMPLETED" => taskStatus'[t] = "COMPLETED"
<1> USE DEF Unasked
<1>1. CASE NothingToRun("EXECUTING", ts, log)
  BY <1>1, FirstRunnable DEF NothingToRun, Advances, TerminalMission
<1>2. CASE Complete("EXECUTING", ts, log)
  <2>1. status' = "COMPLETED" /\ taskStatus' = ts /\ pc' = "idle" /\ job' = NoJob
    BY <1>2 DEF Complete, Moved, CanTransition, Successors, TerminalMission, Rest
  <2>2. OneTurn' /\ OneApproval'
    BY <2>1 DEF OneTurn, OneApproval, Current, TerminalMission
  <2>3. AskedForIt' /\ OneTask' /\ OneRecovery'
    BY <2>1 DEF AskedForIt, NoJob, OneTask, Settled, Live, OneRecovery, InOrder
  <2>4. Claims'
    BY <2>1 DEF Claims, Settled
  <2>5. QED
    BY <2>1, <2>2, <2>3, <2>4 DEF TurnCore
<1>3. CASE RunTask("EXECUTING", ts, log)
  <2>1. PICK t \in Runnable(ts) :
          /\ status' = "EXECUTING"
          /\ taskStatus' = [ts EXCEPT ![t] = "RUNNING"]
          /\ IF t \in stray'
               THEN Rest /\ UNCHANGED active
               ELSE /\ pc' = "agent"
                    /\ job' = [task |-> t, offer |-> offer', asked |-> 0]
                    /\ active' = t
    BY <1>3 DEF RunTask
  <2>2. /\ t \in Tasks /\ ts[t] = "PENDING"
        /\ \A d \in DependsOn(t) : ts[d] = "COMPLETED"
    BY DEF Runnable, Claimable, Settled
  <2>3. /\ taskStatus'[t] = "RUNNING" /\ \A u \in Tasks : u # t => taskStatus'[u] = ts[u]
        /\ \A u \in Tasks : \A d \in DependsOn(u) : d \in Tasks
    BY <2>1, <2>2, EngineAssumption DEF Settled, DependsOn, Tasks
  <2>4. InOrder(taskStatus)'
    BY <2>2, <2>3 DEF InOrder, Settled
  <2>5. \A d \in DependsOn(t) : taskStatus'[d] = "COMPLETED"
    BY <2>2, <2>3
  <2>6. CASE t \in stray'
    <3>1. pc' = "idle" /\ job' = NoJob
      BY <2>1, <2>6 DEF Rest
    <3>2. OneTurn' /\ OneApproval' /\ AskedForIt' /\ OneRecovery'
      BY <2>1, <2>6, <3>1 DEF OneTurn, OneApproval, Current, AskedForIt, NoJob, OneRecovery
    <3>3. OneTask'
      BY <2>1, <2>4, <3>1 DEF OneTask, Live
    <3>4. Claims'
      BY <2>3, <2>6 DEF Claims, Settled
    <3>5. QED
      BY <2>2, <2>3, <3>2, <3>3, <3>4 DEF TurnCore
  <2>7. CASE t \notin stray'
    <3>1. pc' = "agent" /\ job'.task = t /\ job'.asked = 0
      BY <2>1, <2>7
    <3>2. OneTurn' /\ OneApproval' /\ AskedForIt' /\ OneRecovery'
      BY <2>1, <3>1 DEF OneTurn, OneApproval, Current, AskedForIt, OneRecovery
    <3>3. OneTask'
      BY <2>1, <2>3, <2>4, <2>5, <3>1 DEF OneTask, AtHand, Settled
    <3>4. Claims'
      BY <2>3, <3>1 DEF Claims, Settled
    <3>5. QED
      BY <2>2, <2>3, <3>2, <3>3, <3>4 DEF TurnCore
  <2>8. QED
    BY <2>6, <2>7
<1>4. QED
  BY <1>1, <1>2, <1>3 DEF Advance

LEMMA ParkedTurn ==
  ASSUME Claims, InOrder(taskStatus), \A t \in Tasks : taskStatus[t] # "RUNNING",
         UNCHANGED <<taskStatus, approvals>>, Rest, queue' = <<>>,
         open' = {} \/ (open' = {0} /\ status' = "RECOVERING"),
         status' \in {"FAILED", "AT_RISK", "RECOVERING"},
         \A a \in 1 .. Len(approvals) :
           approvals[a].status # "PENDING" /\ (approvals[a].status # "APPROVED" => status' = "FAILED"),
         "SWITCH_AGENT" \notin Strategies => stray' = {}
  PROVE  TurnCore' /\ Kept
<1>1. pc' = "idle" /\ job' = NoJob
  BY DEF Rest
<1>2. OneTurn' /\ OneApproval'
  BY <1>1 DEF OneTurn, OneApproval, Current, TerminalMission
<1>3. AskedForIt' /\ OneTask' /\ Claims' /\ OneRecovery'
  BY <1>1 DEF AskedForIt, NoJob, OneTask, InOrder, Live, Claims, OneRecovery
<1>4. QED
  BY <1>2, <1>3 DEF TurnCore, Kept

LEMMA DirectiveTurn ==
  ASSUME TypeOK, Claims, NEW t \in Tasks, InOrder(taskStatus),
         \A u \in Tasks \ {t} : taskStatus[u] \in {"PENDING", "COMPLETED"},
         taskStatus[t] \in {"WAITING", "FAILED"},
         NEW directive, NEW log, ApplyDirective(directive, "RECOVERING", t, log),
         queue' = <<>>, Unasked, "SWITCH_AGENT" \notin Strategies => stray' = {}
  PROVE  TurnCore' /\ Kept
<1>1. CASE RetryTask("RECOVERING", t, log)
  <2> DEFINE ts == [taskStatus EXCEPT ![t] = "PENDING"]
  <2>1. Moved("RECOVERING", "EXECUTING") = "EXECUTING"
    BY DEF Moved, CanTransition, Successors, TerminalMission
  <2>2. /\ ts \in [Tasks -> {"PENDING", "COMPLETED"}]
        /\ \A u \in Tasks : u # t => ts[u] = taskStatus[u]
        /\ \A u \in Tasks : taskStatus[u] = "COMPLETED" => ts[u] = "COMPLETED"
        /\ ts[t] = "PENDING"
    BY DEF TypeOK
  <2>3. \A u \in Tasks : DependsOn(u) \subseteq Tasks
    BY EngineAssumption DEF DependsOn, Tasks
  <2> HIDE DEF ts
  <2>4. InOrder(ts)
    BY <2>2, <2>3 DEF InOrder
  <2>5. \E l : Advance("EXECUTING", ts, l)
    BY <1>1, <2>1 DEF RetryTask, ts
  <2>6. QED
    BY <2>2, <2>4, <2>5, AdvanceTurn DEF Settled, Kept
<1>2. CASE /\ UNCHANGED taskStatus /\ Rest
           /\ status' = Moved("RECOVERING", "FAILED") \/ status' = Moved("RECOVERING", "AT_RISK")
  <2>1. status' \in {"FAILED", "AT_RISK"}
    BY <1>2 DEF Moved, CanTransition, Successors, TerminalMission
  <2>2. \A u \in Tasks : taskStatus[u] # "RUNNING"
    OBVIOUS
  <2>3. QED
    BY <1>2, <2>1, <2>2, ParkedTurn DEF Unasked
<1>3. QED
  BY <1>1, <1>2 DEF ApplyDirective, Fail

(* A plan that switches agents is one the twin may propose.                *)
LEMMA PlanStrays ==
  ASSUME Claims, NEW plan, NEW t, ApplyPlan(plan, t),
         "SWITCH_AGENT" \notin Strategies => plan.agent = "none"
  PROVE  "SWITCH_AGENT" \notin Strategies => stray' = {}
BY DEF Claims, ApplyPlan

(* Steps that touch nothing the invariant is about.                        *)
LEMMA SameTurn ==
  ASSUME TurnInv,
         UNCHANGED <<status, pending, taskStatus, stray, approvals, open, queue, pc, job>>
  PROVE  TurnCore' /\ Kept
<1>1. OneTurn' /\ OneApproval'
  BY DEF TurnInv, TurnCore, OneTurn, OneApproval, Current
<1>2. AskedForIt' /\ OneRecovery'
  BY DEF TurnInv, TurnCore, AskedForIt, ForOffer, OneRecovery
<1>3. OneTask'
  BY DEF TurnInv, TurnCore, OneTask, InOrder, Live, AtHand
<1>4. Claims'
  BY DEF TurnInv, TurnCore, Claims
<1>5. QED
  BY <1>1, <1>2, <1>3, <1>4 DEF TurnCore, Kept

(***************************************************************************)
(* Operator requests                                                       *)
(***************************************************************************)

LEMMA WaitingFor ==
  ASSUME TypeOK, OneTurn, status = "WAITING_APPROVAL"
  PROVE  pc = "idle" /\ pending \in 1 .. Len(approvals) /\ approvals[pending] \in Approval
<1>1. pc = "idle" /\ pending # 0
  BY DEF OneTurn, TerminalMission
<1>2. approvals \in Seq(Approval) /\ pending \in 0 .. Len(approvals)
  BY DEF TypeOK, Requested
<1>3. pending \in 1 .. Len(approvals)
  BY <1>1, <1>2, LenProperties
<1>4. QED
  BY <1>1, <1>2, <1>3, ElementOfSeq

LEMMA OnlyCurrent ==
  ASSUME OneTurn, NEW a, NEW b, Current(a), Current(b)
  PROVE  a = b
BY DEF OneTurn, Current, TerminalMission

(* A decision concerns the approval at hand, and is the one event to come. *)
LEMMA DecisionTurn ==
  ASSUME TurnInv, NEW a \in 1 .. Len(approvals), approvals[a].status = "PENDING",
         NEW verdict \in ApprovalStatus \ {"PENDING"},
         approvals' = [approvals EXCEPT ![a].status = verdict],
         queue' = Append(queue, Decided(a)) \/ (verdict = "EXPIRED" /\ UNCHANGED queue),
         UNCHANGED <<missionVars, taskVars, open, workerVars>>
  PROVE  TurnCore' /\ Kept
<1>1. Current(a) /\ queue = <<>> /\ Decided(a) \in Event /\ a # 0
  BY EventType DEF TurnInv, TurnCore, OneApproval
<1>2. queue' = <<Decided(a)>> \/ (verdict = "EXPIRED" /\ queue' = <<>>)
  BY <1>1, OneEvent
<1>3. /\ Len(approvals') = Len(approvals)
      /\ \A b \in 1 .. Len(approvals) :
           /\ b # a => approvals'[b] = approvals[b]
           /\ approvals'[b].action = approvals[b].action
           /\ approvals'[b].task = approvals[b].task
           /\ approvals'[b].offer = approvals[b].offer
           /\ approvals'[b].plan = approvals[b].plan
      /\ approvals'[a].status = verdict
  <2>1. approvals[a] \in Approval /\ approvals \in Seq(Approval)
    BY ElementOfSeq DEF TurnInv, TypeOK
  <2>2. [approvals[a] EXCEPT !.status = verdict] \in Approval
    BY <2>1 DEF Approval
  <2>3. approvals' = [approvals EXCEPT ![a] = [approvals[a] EXCEPT !.status = verdict]]
    OBVIOUS
  <2>4. /\ Len(approvals') = Len(approvals)
        /\ \A b \in 1 .. Len(approvals) : b # a => approvals'[b] = approvals[b]
        /\ approvals'[a] = [approvals[a] EXCEPT !.status = verdict]
    BY <2>1, <2>2, <2>3, ExceptSeq
  <2>5. QED
    BY <2>1, <2>4 DEF Approval
<1>4. UNCHANGED <<status, pending, taskStatus, stray, open, pc, job>>
  BY DEF missionVars, taskVars, workerVars
<1>5. OneTurn'
  BY <1>1, <1>2, <1>4 DEF TurnInv, TurnCore, OneTurn, Current, TerminalMission
<1>6. \A b : Current(b)' <=> b = a
  BY <1>1, <1>4, OnlyCurrent DEF TurnInv, TurnCore, Current
<1>7. OneApproval'
  BY <1>1, <1>2, <1>3, <1>4, <1>6, OnlyCurrent DEF TurnInv, TurnCore, OneApproval
<1>8. AskedForIt'
  BY <1>3, <1>4 DEF TurnInv, TurnCore, AskedForIt, ForOffer
<1>9. OneTask'
  <2>1. AtHand' = AtHand
    BY <1>3, <1>4, WaitingFor DEF AtHand, TurnInv, TurnCore
  <2>2. Live' => Live
    BY <1>1, <1>4 DEF Live, Current
  <2>3. status = "WAITING_APPROVAL" => approvals'[pending].task = approvals[pending].task
    BY <1>3, WaitingFor DEF TurnInv, TurnCore
  <2>4. QED
    BY <1>4, <2>1, <2>2, <2>3 DEF TurnInv, TurnCore, OneTask, InOrder
<1>10. Claims' /\ OneRecovery'
  BY <1>3, <1>4 DEF TurnInv, TurnCore, Claims, OneRecovery
<1>11. QED
  BY <1>4, <1>5, <1>7, <1>8, <1>9, <1>10 DEF TurnCore, Kept

LEMMA OperatorTurn == Unresumed /\ TurnInv /\ Operator => TurnCore' /\ Kept
<1> SUFFICES ASSUME Unresumed, TurnInv, Operator PROVE TurnCore' /\ Kept
  OBVIOUS
<1> USE DEF TurnInv
<1>1. CASE Start
  <2>1. /\ pc = "idle" /\ queue = <<>> /\ status = "CREATED" /\ status' = "EXECUTING"
        /\ queue' = <<Signal("MISSION_STARTED")>>
        /\ UNCHANGED <<pending, taskStatus, stray, approvals, open, pc, job>>
    <3>1. pc = "idle" /\ queue = <<>>
      BY <1>1 DEF Start, TurnCore, OneTurn, TerminalMission
    <3>2. Append(<<>>, Signal("MISSION_STARTED")) = <<Signal("MISSION_STARTED")>>
      BY OneEvent, EventType
    <3>3. QED
      BY <1>1, <3>1, <3>2 DEF Start, taskVars, approvalVars, workerVars
  <2>2. Len(queue') = 1 /\ Head(queue').type = "MISSION_STARTED"
    BY <2>1 DEF Signal
  <2>3. \A a : Current(a)' <=> Current(a)
    BY <2>1 DEF Current
  <2>4. OneTurn' /\ OneApproval'
    BY <2>1, <2>2, <2>3 DEF OneTurn, TurnCore, OneApproval, Current
  <2>5. AskedForIt' /\ OneTask' /\ Claims' /\ OneRecovery'
    BY <2>1 DEF TurnCore, AskedForIt, ForOffer, OneTask, InOrder, Live, AtHand, Claims, OneRecovery
  <2>6. QED
    BY <2>1, <2>4, <2>5 DEF TurnCore, Kept
<1>2. ASSUME NEW a \in 1 .. Len(approvals), NEW verdict \in {"APPROVED", "REJECTED"},
             Decide(a, verdict)
      PROVE  TurnCore' /\ Kept
  BY <1>2, DecisionTurn DEF Decide, Announce, ApprovalStatus
<1>3. ASSUME NEW a \in 1 .. Len(approvals), DecideTooLate(a) PROVE TurnCore' /\ Kept
  BY <1>3, DecisionTurn DEF DecideTooLate, ApprovalStatus
<1>4. ASSUME NEW a \in 1 .. Len(approvals), ExpireStale(a) PROVE TurnCore' /\ Kept
  BY <1>4, DecisionTurn DEF ExpireStale, Announce, ApprovalStatus
<1>5. CASE Interrupt
  <2>1. /\ UNCHANGED <<status, pending, stray, approvals, open, queue, pc, job>>
        /\ active \in Tasks /\ taskStatus[active] = "RUNNING"
        /\ taskStatus' = [taskStatus EXCEPT ![active] = "PENDING"]
    BY <1>5 DEF Interrupt, missionVars, approvalVars, workerVars, TypeOK
  <2>2. /\ taskStatus'[active] = "PENDING"
        /\ \A u \in Tasks : u # active => taskStatus'[u] = taskStatus[u]
    BY <2>1 DEF TypeOK
  <2>3. \A u \in Tasks : DependsOn(u) \subseteq Tasks
    BY EngineAssumption DEF DependsOn, Tasks
  <2>4. InOrder(taskStatus)'
    BY <2>1, <2>2, <2>3 DEF InOrder, TurnCore, OneTask
  <2>5. /\ pc # "idle" => job.task \in Tasks
        /\ status = "WAITING_APPROVAL" => approvals[pending].task \in Tasks
    <3>1. pc # "idle" => job.task \in Tasks
      BY DEF TypeOK, WorkerOK, Job
    <3>2. status = "WAITING_APPROVAL" => approvals[pending].task \in Tasks
      BY WaitingFor DEF TurnCore, Approval
    <3>3. QED
      BY <3>1, <3>2
  <2>6. OneTask'
    <3>1. Live' = Live /\ AtHand' = AtHand
      BY <2>1 DEF Live, AtHand
    <3>2. Live => \A t \in Tasks \ AtHand : taskStatus'[t] \in {"PENDING", "COMPLETED"}
      BY <2>2 DEF TurnCore, OneTask
    <3>3. pc = "agent" => /\ taskStatus'[job.task] \in {"RUNNING", "PENDING"}
                          /\ \A d \in DependsOn(job.task) : taskStatus'[d] = "COMPLETED"
      BY <2>1, <2>2, <2>3, <2>5 DEF TurnCore, OneTask
    <3>4. pc = "twin" => taskStatus'[job.task] = "FAILED"
      BY <2>1, <2>2, <2>5 DEF TurnCore, OneTask
    <3>5. status = "WAITING_APPROVAL" =>
            taskStatus'[approvals[pending].task] \in {"WAITING", "FAILED"}
      BY <2>1, <2>2, <2>5 DEF TurnCore, OneTask
    <3>6. QED
      BY <2>1, <2>4, <3>1, <3>2, <3>3, <3>4, <3>5 DEF OneTask
  <2>7. OneTurn' /\ OneApproval' /\ AskedForIt' /\ OneRecovery'
    BY <2>1 DEF TurnCore, OneTurn, OneApproval, Current, AskedForIt, ForOffer, OneRecovery
  <2>8. Claims'
    BY <2>1, <2>2 DEF TurnCore, Claims
  <2>9. QED
    BY <2>1, <2>2, <2>6, <2>7, <2>8 DEF TurnCore, Kept
<1>6. ASSUME NEW c \in checkpoints.all, Resume(c) PROVE FALSE
  BY <1>6 DEF Resume, Unresumed, TypeOK
<1>7. CASE SuspendTwin \/ ReinstateTwin
  <2>1. UNCHANGED <<status, pending, taskStatus, stray, approvals, open, queue, pc, job>>
    BY <1>7 DEF SuspendTwin, ReinstateTwin, missionVars, taskVars, approvalVars, workerVars
  <2>2. QED
    BY <2>1, SameTurn
<1>8. QED
  BY <1>1, <1>2, <1>3, <1>4, <1>5, <1>6, <1>7 DEF Operator

(***************************************************************************)
(* The worker takes an event                                               *)
(***************************************************************************)

(* Where nothing is asked, everything asked before was granted.            *)
LEMMA NothingAsked ==
  ASSUME TurnInv, status \notin {"FAILED", "WAITING_APPROVAL"}, pc # "agent" \/ job.asked = 0,
         pc # "idle" \/ queue # <<>>
  PROVE  /\ \A a \in 1 .. Len(approvals) : approvals[a].status = "APPROVED"
         /\ open = {}
<1>1. \A a \in 1 .. Len(approvals) : ~Current(a)
  BY DEF Current
<1>2. pc = "idle" => status # "RECOVERING"
  BY DEF TurnInv, TurnCore, OneTurn, TerminalMission
<1>3. open = {}
  BY <1>2 DEF TurnInv, TurnCore, OneRecovery
<1>4. QED
  BY <1>1, <1>3 DEF TurnInv, TurnCore, OneApproval

(* A decision the worker takes is the one the mission waits for.           *)
LEMMA AwaitedDecision ==
  ASSUME TurnInv, NEW a \in 1 .. Len(approvals), OnApproval(a)
  PROVE  /\ status = "WAITING_APPROVAL" /\ pending = a /\ Tail(queue) = <<>>
         /\ approvals[a] \in Approval /\ approvals[a].status # "PENDING"
         /\ \A b \in 1 .. Len(approvals) : b # a => approvals[b].status = "APPROVED"
         /\ open \subseteq {a}
         /\ \A u \in Tasks : taskStatus[u] # "RUNNING"
         /\ \A u \in Tasks \ {approvals[a].task} : taskStatus[u] \in {"PENDING", "COMPLETED"}
         /\ taskStatus[approvals[a].task] \in {"WAITING", "FAILED"}
         /\ approvals[a].task \in Tasks
<1>1. pc = "idle" /\ queue # <<>> /\ Head(queue) = Decided(a)
  BY DEF OnApproval
<1>2. Decided(a).type = "APPROVAL_RECEIVED" /\ Decided(a).approval = a
  BY DEF Decided
<1>3. status = "WAITING_APPROVAL" /\ queue = <<Decided(pending)>>
  BY <1>1, <1>2 DEF TurnInv, TurnCore, OneTurn
<1>4. pending \in 1 .. Len(approvals) /\ approvals[pending] \in Approval
  BY <1>3, WaitingFor DEF TurnInv, TurnCore
<1>5. Decided(pending) \in Event
  BY <1>4, EventType
<1>6. Head(queue) = Decided(pending) /\ Tail(queue) = <<>>
  BY <1>3, <1>5, OneEvent
<1>7. pending = a
  BY <1>1, <1>2, <1>6 DEF Decided
<1>8. \A b \in 1 .. Len(approvals) : b # a => approvals[b].status = "APPROVED"
  BY <1>1, <1>3, <1>7 DEF TurnInv, TurnCore, OneApproval, Current
<1>9. approvals[a].status # "PENDING" /\ open \subseteq {a}
  BY <1>1, <1>3, <1>7 DEF TurnInv, TurnCore, OneApproval, OneRecovery
<1>10. approvals[a].task \in Tasks
  BY <1>4, <1>7 DEF Approval
<1>11. AtHand = {approvals[a].task} /\ Live
  BY <1>1, <1>3, <1>7 DEF AtHand, Live
<1>12. /\ \A u \in Tasks \ {approvals[a].task} : taskStatus[u] \in {"PENDING", "COMPLETED"}
       /\ taskStatus[approvals[a].task] \in {"WAITING", "FAILED"}
  BY <1>3, <1>7, <1>11 DEF TurnInv, TurnCore, OneTask
<1>13. QED
  BY <1>3, <1>4, <1>6, <1>7, <1>8, <1>9, <1>10, <1>12

LEMMA HandleTurn == TurnInv /\ Handle => TurnCore' /\ Kept
<1> SUFFICES ASSUME TurnInv, Handle PROVE TurnCore' /\ Kept
  OBVIOUS
<1>a. TypeOK /\ Claims /\ InOrder(taskStatus)
  BY DEF TurnInv, TurnCore, OneTask
<1>1. CASE HandleProgress
  <2>1. /\ pc = "idle" /\ status = "EXECUTING" /\ Len(queue) = 1
        /\ queue' = Tail(queue) /\ UNCHANGED <<stray, approvals, open>>
        /\ Advance(status, taskStatus, checkpoints)
    <3>1. pc = "idle" /\ queue # <<>> /\ Head(queue).type # "APPROVAL_RECEIVED"
      BY <1>1 DEF HandleProgress
    <3>2. ASSUME status = "WAITING_APPROVAL", queue = <<Decided(pending)>> PROVE FALSE
      <4>1. Decided(pending) \in Event
        BY <1>a, <3>2, WaitingFor, EventType DEF TurnInv, TurnCore
      <4>2. QED
        BY <3>1, <3>2, <4>1, OneEvent DEF Decided
    <3>3. QED
      BY <1>1, <3>1, <3>2 DEF HandleProgress, approvalVars, TurnInv, TurnCore, OneTurn
  <2>2. queue' = <<>> /\ queue # <<>>
    BY <1>a, <2>1, LastEvent
  <2>3. Unasked
    BY <2>1, <2>2, NothingAsked DEF Unasked
  <2>4. Settled(taskStatus)
    <3>1. Live /\ AtHand = {}
      BY <2>1, <2>2 DEF Live, AtHand
    <3>2. \A t \in Tasks : taskStatus[t] \in {"PENDING", "COMPLETED"}
      BY <3>1 DEF TurnInv, TurnCore, OneTask
    <3>3. QED
      BY <1>a, <3>2 DEF Settled, TypeOK
  <2>5. "SWITCH_AGENT" \notin Strategies => stray' = {}
    BY <1>a, <2>1 DEF Claims
  <2>6. QED
    BY <1>a, <2>1, <2>2, <2>3, <2>4, <2>5, AdvanceTurn DEF Kept
<1>2. ASSUME NEW a \in 1 .. Len(approvals), HandleRefusal(a) PROVE TurnCore' /\ Kept
  <2>1. /\ OnApproval(a) /\ queue' = Tail(queue) /\ open' = open \ {a}
        /\ status' = Moved(status, "FAILED") /\ UNCHANGED <<taskStatus, stray, approvals>> /\ Rest
    BY <1>2 DEF HandleRefusal, CloseRecovery, Fail, OnApproval
  <2>2. status' = "FAILED" /\ queue' = <<>> /\ open' = {}
    BY <2>1, AwaitedDecision DEF Moved, CanTransition, TerminalMission
  <2>3. \A b \in 1 .. Len(approvals) : approvals[b].status # "PENDING"
    BY <2>1, AwaitedDecision
  <2>4. \A u \in Tasks : taskStatus[u] # "RUNNING"
    BY <2>1, AwaitedDecision
  <2>5. "SWITCH_AGENT" \notin Strategies => stray' = {}
    BY <1>a, <2>1 DEF Claims
  <2>6. QED
    BY <1>a, <2>1, <2>2, <2>3, <2>4, <2>5, ParkedTurn
<1>3. ASSUME NEW a \in 1 .. Len(approvals), HandleRecoveryGrant(a) PROVE TurnCore' /\ Kept
  <2>1. OnApproval(a) /\ approvals[a].status = "APPROVED" /\ queue' = Tail(queue)
    BY <1>3 DEF HandleRecoveryGrant
  <2>2. CanTransition(status, "RECOVERING")
    BY <2>1, AwaitedDecision DEF CanTransition, Successors, TerminalMission
  <2>3. /\ open' = open \ {a} /\ UNCHANGED approvals
        /\ ApplyPlan(approvals[a].plan, approvals[a].task)
        /\ \E directive, log :
             ApplyDirective(directive, "RECOVERING", approvals[a].task, log)
    BY <1>3, <2>2 DEF HandleRecoveryGrant, CloseRecovery, OnApproval
  <2>4. Unasked /\ queue' = <<>>
    BY <2>1, <2>3, AwaitedDecision DEF Unasked
  <2>5. "SWITCH_AGENT" \notin Strategies => stray' = {}
    BY <1>a, <2>3, PlanStrays DEF Claims
  <2>6. QED
    BY <1>a, <2>1, <2>3, <2>4, <2>5, AwaitedDecision, DirectiveTurn
<1>4. ASSUME NEW a \in 1 .. Len(approvals), HandlePurchaseGrant(a) PROVE TurnCore' /\ Kept
  <2> DEFINE t == approvals[a].task
  <2>1. /\ OnApproval(a) /\ approvals[a].status = "APPROVED"
        /\ approvals[a].action = "purchase.execute"
        /\ taskStatus' = [taskStatus EXCEPT ![t] = "PENDING"]
        /\ status' = Moved(status, "EXECUTING")
        /\ queue' = IF CanTransition(status, "EXECUTING")
                      THEN Continue(Tail(queue)) ELSE Tail(queue)
        /\ UNCHANGED <<stray, approvals, open, pc, job>>
    BY <1>4 DEF HandlePurchaseGrant, OnApproval, workerVars
  <2>2. /\ status = "WAITING_APPROVAL" /\ pending = a /\ Tail(queue) = <<>>
        /\ t \in Tasks /\ taskStatus[t] \in {"WAITING", "FAILED"} /\ pc = "idle"
        /\ \A u \in Tasks \ {t} : taskStatus[u] \in {"PENDING", "COMPLETED"}
    BY <2>1, AwaitedDecision DEF OnApproval
  <2>3. status' = "EXECUTING" /\ queue' = <<Signal("MISSION_RESUMED")>>
    <3>1. CanTransition(status, "EXECUTING")
      BY <2>2 DEF CanTransition, Successors, TerminalMission
    <3>2. status' = "EXECUTING"
      BY <2>1, <3>1 DEF Moved
    <3>3. queue' = Append(<<>>, Signal("MISSION_RESUMED"))
      BY <2>1, <2>2, <3>1 DEF Continue
    <3>4. Append(<<>>, Signal("MISSION_RESUMED")) = <<Signal("MISSION_RESUMED")>>
      BY OneEvent, EventType
    <3>5. QED
      BY <3>2, <3>3, <3>4
  <2>4. Len(queue') = 1 /\ Head(queue').type = "MISSION_RESUMED"
    BY <2>3 DEF Signal
  <2>5. /\ \A b \in 1 .. Len(approvals) : approvals[b].status = "APPROVED"
        /\ open = {}
    BY <2>1, AwaitedDecision DEF TurnInv, TurnCore, OneRecovery
  <2>6. job' = NoJob
    BY <1>a, <2>1, <2>2 DEF TypeOK, WorkerOK
  <2>7. /\ taskStatus'[t] = "PENDING"
        /\ \A u \in Tasks : u # t => taskStatus'[u] = taskStatus[u]
        /\ \A u \in Tasks : DependsOn(u) \subseteq Tasks
    <3>1. \A u \in Tasks : DependsOn(u) \subseteq Tasks
      BY EngineAssumption DEF DependsOn, Tasks
    <3>2. QED
      BY <1>a, <2>1, <2>2, <3>1 DEF TypeOK
  <2> HIDE DEF t
  <2>8. InOrder(taskStatus)'
    BY <1>a, <2>2, <2>7 DEF InOrder
  <2>9. OneTurn' /\ OneApproval' /\ AskedForIt' /\ OneRecovery'
    BY <2>1, <2>2, <2>3, <2>4, <2>5, <2>6
       DEF OneTurn, OneApproval, Current, AskedForIt, NoJob, OneRecovery
  <2>10. OneTask'
    BY <2>1, <2>2, <2>3, <2>7, <2>8 DEF OneTask
  <2>11. Claims'
    BY <1>a, <2>1, <2>2, <2>7 DEF Claims
  <2>12. QED
    BY <2>2, <2>7, <2>9, <2>10, <2>11 DEF TurnCore, Kept
<1>5. QED
  BY <1>1, <1>2, <1>3, <1>4 DEF Handle

(***************************************************************************)
(* The agent                                                               *)
(***************************************************************************)

(* The agent is given an approval of its own: the first time a new one, and *)
(* then that one again.                                                    *)
LEMMA AskTurn == Unresumed /\ TurnInv /\ AgentAsks => TurnCore' /\ Kept
<1> SUFFICES ASSUME TurnInv, AgentAsks PROVE TurnCore' /\ Kept
  OBVIOUS
<1>a. /\ pc = "agent" /\ status = "EXECUTING" /\ job \in Job /\ job.task \in Tasks
      /\ approvals \in Seq(Approval) /\ Len(approvals) \in Nat
  BY LenProperties
     DEF AgentAsks, TurnInv, TurnCore, OneTurn, TerminalMission, TypeOK, WorkerOK, NoJob, Job
<1>b. UNCHANGED <<status, pending, taskStatus, stray, open, queue, pc>>
  BY DEF AgentAsks, missionVars, taskVars
<1>1. ASSUME ForOffer(job.offer) = {},
             approvals' = Append(approvals,
               [status |-> "PENDING", action |-> "purchase.execute", task |-> job.task,
                offer |-> job.offer, plan |-> NoPlan]),
             job' = [job EXCEPT !.asked = Len(approvals')]
      PROVE  TurnCore' /\ Kept
  <2> DEFINE n == Len(approvals) + 1
  <2>1. job.asked = 0
    BY <1>1 DEF TurnInv, TurnCore, AskedForIt
  <2>2. (\A a \in 1 .. Len(approvals) : approvals[a].status = "APPROVED") /\ queue = <<>>
    BY <1>a, <2>1, NothingAsked DEF TurnInv, TurnCore, OneTurn
  <2>3. /\ Len(approvals') = n /\ n \in Nat \ {0}
        /\ \A a \in 1 .. Len(approvals) : approvals'[a] = approvals[a]
        /\ approvals'[n].status = "PENDING" /\ approvals'[n].action = "purchase.execute"
        /\ approvals'[n].task = job.task /\ approvals'[n].offer = job.offer
        /\ approvals'[n].plan = NoPlan
    <3> DEFINE x == [status |-> "PENDING", action |-> "purchase.execute", task |-> job.task,
                     offer |-> job.offer, plan |-> NoPlan]
    <3>1. x \in Approval
      BY <1>a DEF Approval, ApprovalStatus, Job
    <3>2. /\ x.status = "PENDING" /\ x.action = "purchase.execute" /\ x.task = job.task
          /\ x.offer = job.offer /\ x.plan = NoPlan
      OBVIOUS
    <3> HIDE DEF x
    <3>3. approvals' = Append(approvals, x)
      BY <1>1 DEF x
    <3>4. QED
      BY <1>a, <3>1, <3>2, <3>3, AppendProperties
  <2>4. job'.asked = n /\ job'.task = job.task /\ job'.offer = job.offer
    BY <1>a, <1>1, <2>3 DEF Job
  <2>5. \A a \in 1 .. n : a = n \/ (a \in 1 .. Len(approvals) /\ a # n)
    BY <1>a
  <2> HIDE DEF n
  <2>6. \A a : Current(a)' <=> a = n
    BY <1>a, <1>b, <2>4 DEF Current
  <2>7. OneTurn'
    BY <1>a, <1>b, <2>2 DEF OneTurn
  <2>8. OneApproval'
    BY <1>b, <2>2, <2>3, <2>5, <2>6 DEF OneApproval
  <2>9. AskedForIt'
    BY <1>a, <1>b, <2>3, <2>4 DEF AskedForIt, ForOffer
  <2>10. OneTask'
    BY <1>a, <1>b, <2>4 DEF TurnInv, TurnCore, OneTask, InOrder, Live, AtHand
  <2>11. Claims'
    BY <1>a, <1>b, <2>3, <2>4, <2>5 DEF TurnInv, TurnCore, Claims, NoPlan
  <2>12. OneRecovery'
    BY <1>a, <1>b DEF TurnInv, TurnCore, OneRecovery
  <2>13. QED
    BY <1>b, <2>7, <2>8, <2>9, <2>10, <2>11, <2>12 DEF TurnCore, Kept
<1>2. ASSUME NEW a \in ForOffer(job.offer), job' = [job EXCEPT !.asked = a], UNCHANGED approvals
      PROVE  TurnCore' /\ Kept
  <2>1. a \in 1 .. Len(approvals) /\ approvals[a].status \in {"PENDING", "EXPIRED"}
    BY DEF AgentAsks, ForOffer
  <2>2. job.asked = a
    BY <1>a, <2>1 DEF TurnInv, TurnCore, OneApproval, Current
  <2>3. job' = job
    BY <1>a, <1>2, <2>2 DEF Job
  <2>4. UNCHANGED <<status, pending, taskStatus, stray, approvals, open, queue, pc, job>>
    BY <1>b, <1>2, <2>3
  <2>5. TurnCore' /\ Kept
    BY <2>4, SameTurn
  <2>6. QED
    BY <2>5
<1>3. QED
  BY <1>1, <1>2 DEF AgentAsks

(* The end of the agent's run, with its task saved as `result`.            *)
LEMMA TaskEndsTurn ==
  ASSUME TurnInv, pc = "agent", NEW result \in {"COMPLETED", "WAITING", "FAILED"},
         TaskEnds(result)
  PROVE  /\ job.task \in Tasks /\ status = "EXECUTING" /\ taskStatus'[job.task] = result
         /\ \A u \in Tasks : u # job.task =>
              taskStatus'[u] = taskStatus[u] /\ taskStatus[u] \in {"PENDING", "COMPLETED"}
         /\ InOrder(taskStatus)' /\ Kept
<1>1. job.task \in Tasks /\ taskStatus \in [Tasks -> TaskStatus] /\ status = "EXECUTING"
  BY DEF TurnInv, TurnCore, OneTurn, TerminalMission, TypeOK, WorkerOK, Job
<1>2. /\ taskStatus'[job.task] = result
      /\ \A u \in Tasks : u # job.task => taskStatus'[u] = taskStatus[u]
  BY <1>1 DEF TaskEnds
<1>3. \A u \in Tasks : u # job.task => taskStatus[u] \in {"PENDING", "COMPLETED"}
  BY DEF TurnInv, TurnCore, OneTask, Live, AtHand
<1>4. /\ taskStatus[job.task] \in {"RUNNING", "PENDING"}
      /\ \A d \in DependsOn(job.task) : taskStatus[d] = "COMPLETED"
      /\ InOrder(taskStatus)
  BY DEF TurnInv, TurnCore, OneTask
<1>5. \A u \in Tasks : DependsOn(u) \subseteq Tasks
  BY EngineAssumption DEF DependsOn, Tasks
<1>6. InOrder(taskStatus)'
  BY <1>1, <1>2, <1>4, <1>5 DEF InOrder
<1>7. QED
  BY <1>1, <1>2, <1>3, <1>4, <1>6 DEF Kept

LEMMA AgentTurn == Unresumed /\ TurnInv /\ AgentEnds => TurnCore' /\ Kept
<1> SUFFICES ASSUME Unresumed, TurnInv, AgentEnds PROVE TurnCore' /\ Kept
  OBVIOUS
<1>a. /\ pc = "agent" /\ status = "EXECUTING" /\ job \in Job /\ job.task \in Tasks
      /\ TypeOK /\ Claims
  BY DEF AgentEnds, AgentSucceeds, AgentNeedsApproval, AgentFails, TurnInv, TurnCore, OneTurn,
         TerminalMission, TypeOK, WorkerOK, NoJob, Job
<1>b. ~FreeReport
  BY DEF Unresumed, FreeReport
<1>1. CASE AgentSucceeds
  <2>1. /\ job.asked = 0 /\ TaskEnds("COMPLETED") /\ status' = "EXECUTING" /\ Rest
        /\ queue' = Append(queue, Signal("TASK_COMPLETED"))
        /\ UNCHANGED <<pending, stray, approvals, open>>
    BY <1>1, <1>a, <1>b DEF AgentSucceeds, approvalVars
  <2>2. /\ \A a \in 1 .. Len(approvals) : approvals[a].status = "APPROVED"
        /\ open = {} /\ queue = <<>>
    BY <1>a, <2>1, NothingAsked DEF TurnInv, TurnCore, OneTurn
  <2>3. Len(queue') = 1 /\ Head(queue').type = "TASK_COMPLETED"
    <3>1. queue' = <<Signal("TASK_COMPLETED")>>
      BY <2>1, <2>2, OneEvent, EventType
    <3>2. QED
      BY <3>1 DEF Signal
  <2>4. /\ taskStatus'[job.task] = "COMPLETED" /\ InOrder(taskStatus)' /\ Kept
        /\ \A u \in Tasks : taskStatus'[u] \in {"PENDING", "COMPLETED"}
    BY <1>a, <2>1, TaskEndsTurn
  <2>5. OneTurn' /\ OneApproval' /\ AskedForIt' /\ OneRecovery'
    BY <2>1, <2>2, <2>3
       DEF Rest, OneTurn, OneApproval, Current, AskedForIt, NoJob, OneRecovery
  <2>6. OneTask' /\ Claims'
    BY <1>a, <2>1, <2>4 DEF Rest, OneTask, Claims
  <2>7. QED
    BY <2>4, <2>5, <2>6 DEF TurnCore
<1>2. CASE AgentNeedsApproval
  <2>1. /\ pending' = job.asked /\ job.asked # 0 /\ TaskEnds("WAITING") /\ Rest
        /\ status' = "WAITING_APPROVAL" /\ UNCHANGED <<stray, approvals, open, queue>>
    BY <1>2, <1>a, <1>b DEF AgentNeedsApproval, approvalVars, Moved, CanTransition, Successors,
                            TerminalMission
  <2>2. /\ approvals[job.asked].task = job.task
        /\ queue = <<>> \/ queue = <<Decided(job.asked)>>
    BY <1>a, <2>1 DEF TurnInv, TurnCore, AskedForIt, OneTurn, OneRecovery
  <2>3. open = {}
    BY <1>a DEF TurnInv, TurnCore, OneRecovery
  <2>4. /\ taskStatus'[job.task] = "WAITING" /\ InOrder(taskStatus)' /\ Kept
        /\ \A u \in Tasks : u # job.task => taskStatus'[u] \in {"PENDING", "COMPLETED"}
    BY <1>a, <2>1, TaskEndsTurn
  <2>5. pc' = "idle" /\ job' = NoJob /\ job'.asked = 0
    BY <2>1 DEF Rest, NoJob
  <2>6. \A a : Current(a)' <=> Current(a)
    BY <1>a, <2>1, <2>5 DEF Current
  <2>7. OneTurn' /\ AskedForIt' /\ OneRecovery'
    BY <2>1, <2>2, <2>3, <2>5 DEF OneTurn, AskedForIt, OneRecovery
  <2>8. OneApproval'
    BY <1>a, <2>1, <2>6 DEF TurnInv, TurnCore, OneApproval
  <2>9. OneTask' /\ Claims'
    BY <1>a, <2>1, <2>2, <2>4, <2>5 DEF OneTask, AtHand, Claims
  <2>10. QED
    BY <2>4, <2>7, <2>8, <2>9 DEF TurnCore
<1>3. CASE AgentFails
  <2>1. /\ job.asked = 0 /\ TaskEnds("FAILED") /\ status' = "RECOVERING"
        /\ \/ pc' = "twin" /\ job' = [job EXCEPT !.asked = 0]
           \/ Rest
        /\ UNCHANGED <<pending, stray, approvals, open, queue>>
    BY <1>3, <1>a, <1>b DEF AgentFails, approvalVars, CanTransition, Successors, TerminalMission
  <2>2. /\ \A a \in 1 .. Len(approvals) : approvals[a].status = "APPROVED"
        /\ open = {} /\ queue = <<>>
    BY <1>a, <2>1, NothingAsked DEF TurnInv, TurnCore, OneTurn
  <2>3. /\ taskStatus'[job.task] = "FAILED" /\ InOrder(taskStatus)' /\ Kept
        /\ \A u \in Tasks : u # job.task => taskStatus'[u] \in {"PENDING", "COMPLETED"}
    BY <1>a, <2>1, TaskEndsTurn
  <2>4. job'.asked = 0 /\ (pc' = "idle" \/ (pc' = "twin" /\ job'.task = job.task))
    BY <1>a, <2>1 DEF Rest, NoJob, Job
  <2>5. OneTurn' /\ OneApproval' /\ AskedForIt' /\ OneRecovery'
    BY <2>1, <2>2, <2>4 DEF OneTurn, OneApproval, Current, AskedForIt, OneRecovery
  <2>6. OneTask'
    BY <1>a, <2>1, <2>2, <2>3, <2>4 DEF OneTask, AtHand, Live
  <2>7. Claims'
    BY <1>a, <2>1, <2>3 DEF Claims
  <2>8. QED
    BY <2>3, <2>5, <2>6, <2>7 DEF TurnCore
<1>4. QED
  BY <1>1, <1>2, <1>3 DEF AgentEnds

(***************************************************************************)
(* The Failure Twin                                                        *)
(***************************************************************************)

LEMMA TwinTurn == TurnInv /\ TwinEnds => TurnCore' /\ Kept
<1> SUFFICES ASSUME TurnInv, TwinEnds PROVE TurnCore' /\ Kept
  OBVIOUS
<1>a. /\ pc = "twin" /\ status = "RECOVERING" /\ queue = <<>> /\ job.task \in Tasks
      /\ TypeOK /\ Claims /\ InOrder(taskStatus) /\ taskStatus[job.task] = "FAILED"
      /\ \A u \in Tasks \ {job.task} : taskStatus[u] \in {"PENDING", "COMPLETED"}
      /\ job.asked = 0
  <2>1. pc = "twin" /\ TypeOK /\ Claims
    BY DEF TwinEnds, PlanRefused, PlanNeedsApproval, PlanAllowed, TurnInv, TurnCore
  <2>2. status = "RECOVERING" /\ queue = <<>>
    BY <2>1 DEF TurnInv, TurnCore, OneTurn
  <2>3. job.task \in Tasks
    BY <2>1 DEF TypeOK, WorkerOK, Job
  <2>4. job.asked = 0
    BY <2>1 DEF TurnInv, TurnCore, AskedForIt
  <2>5. /\ InOrder(taskStatus) /\ taskStatus[job.task] = "FAILED"
        /\ \A u \in Tasks \ {job.task} : taskStatus[u] \in {"PENDING", "COMPLETED"}
    BY <2>1 DEF TurnInv, TurnCore, OneTask, Live, AtHand
  <2>6. QED
    BY <2>1, <2>2, <2>3, <2>4, <2>5
<1>b. (\A a \in 1 .. Len(approvals) : approvals[a].status = "APPROVED") /\ open = {}
  BY <1>a, NothingAsked DEF TurnInv, TurnCore
<1>1. CASE PlanRefused
  <2>1. /\ Rest /\ status' = "RECOVERING" /\ queue' = <<>> /\ open' = {0}
        /\ UNCHANGED <<taskStatus, approvals, stray>>
    BY <1>1, <1>a, <1>b DEF PlanRefused, missionVars, taskVars
  <2>2. "SWITCH_AGENT" \notin Strategies => stray' = {}
    BY <1>a, <2>1 DEF Claims
  <2>3. \A u \in Tasks : taskStatus[u] # "RUNNING"
    BY <1>a
  <2>4. \A a \in 1 .. Len(approvals) :
          approvals[a].status # "PENDING" /\ (approvals[a].status # "APPROVED" => status' = "FAILED")
    BY <1>b
  <2>5. QED
    BY <1>a, <2>1, <2>2, <2>3, <2>4, ParkedTurn
<1>2. ASSUME NEW plan \in Plans, PlanNeedsApproval(plan) PROVE TurnCore' /\ Kept
  <2> DEFINE n == Len(approvals) + 1
             x == [status |-> "PENDING", action |-> "recovery.apply", task |-> job.task,
                   offer |-> NoOffer, plan |-> plan]
  <2>1. approvals \in Seq(Approval) /\ Len(approvals) \in Nat
    BY <1>a, LenProperties DEF TypeOK
  <2>2. x \in Approval
    BY <1>a, <1>2 DEF Approval, ApprovalStatus, Plans
  <2>3. /\ x.status = "PENDING" /\ x.action = "recovery.apply" /\ x.task = job.task
        /\ x.plan = plan
    OBVIOUS
  <2>4. "SWITCH_AGENT" \notin Strategies => plan.agent = "none"
    BY <1>2 DEF Plans, Plan
  <2> HIDE DEF x
  <2>5. approvals' = Append(approvals, x)
    BY <1>2 DEF PlanNeedsApproval, x
  <2>6. /\ Len(approvals') = n /\ n \in Nat \ {0}
        /\ \A a \in 1 .. Len(approvals) : approvals'[a] = approvals[a]
        /\ approvals'[n] = x
    BY <2>1, <2>2, <2>5, AppendProperties
  <2>7. \A a \in 1 .. n : a = n \/ (a \in 1 .. Len(approvals) /\ a # n)
    BY <2>1
  <2> HIDE DEF n
  <2>8. /\ open' = {n} /\ pending' = n /\ status' = "WAITING_APPROVAL" /\ queue' = <<>>
        /\ pc' = "idle" /\ job' = NoJob /\ job'.asked = 0 /\ UNCHANGED <<taskStatus, stray>>
    BY <1>a, <1>b, <1>2, <2>6
       DEF PlanNeedsApproval, Moved, CanTransition, Successors, TerminalMission, Rest, NoJob,
           taskVars
  <2>9. \A a : Current(a)' <=> a = n
    BY <2>8 DEF Current
  <2>10. OneTurn' /\ AskedForIt'
    BY <2>6, <2>8 DEF OneTurn, AskedForIt
  <2>11. OneApproval'
    BY <1>b, <2>3, <2>6, <2>7, <2>8, <2>9 DEF OneApproval
  <2>12. OneTask'
    BY <1>a, <2>3, <2>6, <2>8 DEF OneTask, InOrder, AtHand
  <2>13. Claims'
    BY <1>a, <2>3, <2>4, <2>6, <2>7, <2>8 DEF Claims
  <2>14. OneRecovery'
    BY <2>3, <2>6, <2>8 DEF OneRecovery
  <2>15. QED
    BY <2>8, <2>10, <2>11, <2>12, <2>13, <2>14 DEF TurnCore, Kept
<1>3. ASSUME NEW plan \in Plans, PlanAllowed(plan) PROVE TurnCore' /\ Kept
  <2>1. /\ ApplyPlan(plan, job.task) /\ queue' = <<>> /\ Unasked
        /\ ApplyDirective(Directive(plan), "RECOVERING", job.task, checkpoints)
    BY <1>a, <1>b, <1>3 DEF PlanAllowed, Unasked, approvalVars
  <2>2. "SWITCH_AGENT" \notin Strategies => plan.agent = "none"
    BY <1>3 DEF Plans, Plan
  <2>3. "SWITCH_AGENT" \notin Strategies => stray' = {}
    BY <1>a, <2>1, <2>2, PlanStrays
  <2>4. QED
    BY <1>a, <2>1, <2>3, DirectiveTurn
<1>4. QED
  BY <1>1, <1>2, <1>3 DEF TwinEnds

(***************************************************************************)
(* The theorems                                                            *)
(***************************************************************************)

LEMMA InitTurn == Init => TurnInv
<1> SUFFICES ASSUME Init PROVE TurnInv
  OBVIOUS
<1>1. TypeOK
  BY InitType
<1>2. /\ status = "CREATED" /\ pc = "idle" /\ queue = <<>> /\ job.asked = 0
      /\ Len(approvals) = 0 /\ open = {} /\ stray = {}
      /\ \A t \in Tasks : taskStatus[t] = "PENDING"
  BY DEF Init, NoJob
<1>3. OneTurn /\ OneApproval /\ AskedForIt /\ Claims /\ OneRecovery
  BY <1>2 DEF OneTurn, OneApproval, AskedForIt, Claims, OneRecovery
<1>4. OneTask
  BY <1>2 DEF OneTask, InOrder
<1>5. QED
  BY <1>1, <1>3, <1>4 DEF TurnInv, TurnCore

LEMMA StepTurn == Unresumed /\ TurnInv /\ [Next]_vars => TurnInv' /\ Kept
<1> SUFFICES ASSUME Unresumed, TurnInv, [Next]_vars PROVE TurnInv' /\ Kept
  OBVIOUS
<1>1. TypeOK'
  BY OperatorStepType, HandleStepType, AgentStepType, TwinStepType, StutterType DEF Next, TurnInv
<1>2. CASE Next
  BY <1>1, <1>2, OperatorTurn, HandleTurn, AskTurn, AgentTurn, TwinTurn DEF Next, TurnInv
<1>3. CASE UNCHANGED vars
  BY <1>1, <1>3, SameTurn DEF vars, missionVars, taskVars, approvalVars, workerVars, TurnInv
<1>4. QED
  BY <1>2, <1>3

(* A mission a human refused is in safe hold as soon as the engine has     *)
(* taken the refusal: on_approval finds it WAITING_APPROVAL, and no agent  *)
(* or twin is at work that could carry it any further.                     *)
THEOREM RefusalsAreFinal == Unresumed => (Spec => []SafeHold)
<1> SUFFICES ASSUME Unresumed PROVE Spec => []SafeHold
  OBVIOUS
<1>1. TurnInv => SafeHold
  <2> SUFFICES ASSUME TurnInv, Quiet, NEW a \in 1 .. Len(approvals),
                      approvals[a].status = "REJECTED"
               PROVE  status = "FAILED"
    BY DEF SafeHold
  <2>1. ASSUME Current(a) PROVE FALSE
    <3>1. queue = <<Decided(a)>> /\ queue = <<>>
      BY <2>1 DEF TurnInv, TurnCore, OneApproval, Quiet
    <3>2. QED
      BY <3>1
  <2>2. QED
    BY <2>1 DEF TurnInv, TurnCore, OneApproval
<1>2. QED
  BY <1>1, InitTurn, StepTurn, PTL DEF Spec

(* advance runs the chain of the mission template in order: a task that is *)
(* running, waiting, failed or done depends on completed ones only, also   *)
(* when recoveries and interruptions put it back to PENDING.               *)
THEOREM TasksInOrder == Unresumed => (Spec => []DependencyOrder)
<1> SUFFICES ASSUME Unresumed PROVE Spec => []DependencyOrder
  OBVIOUS
<1>1. TurnInv => DependencyOrder
  BY DEF TurnInv, TurnCore, OneTask, InOrder, DependencyOrder
<1>2. QED
  BY <1>1, InitTurn, StepTurn, PTL DEF Spec

(* What has been executed is not executed again: no recovery, decision or  *)
(* interruption takes a completed task out of COMPLETED.                   *)
THEOREM DoneIsDone == Unresumed => (Spec => CompletedStaysCompleted)
<1> SUFFICES ASSUME Unresumed PROVE Spec => CompletedStaysCompleted
  OBVIOUS
<1>1. TurnInv /\ [Next]_vars =>
        [\A t \in Tasks : taskStatus[t] = "COMPLETED" => taskStatus'[t] = "COMPLETED"]_vars
  BY StepTurn DEF Kept
<1>2. QED
  BY <1>1, InitTurn, StepTurn, PTL DEF Spec, CompletedStaysCompleted

(* A twin that is never suspended is never refused its plan.               *)
NoneRefused == twinUp /\ 0 \notin open

LEMMA StepRefused ==
  MaxSuspensions = 0 /\ TypeOK /\ NoneRefused /\ [Next]_vars => NoneRefused'
<1> SUFFICES ASSUME MaxSuspensions = 0, TypeOK, NoneRefused, [Next]_vars PROVE NoneRefused'
  OBVIOUS
<1>1. CASE Handle
  <2>1. ASSUME NEW a \in 1 .. Len(approvals),
               HandleRefusal(a) \/ HandleRecoveryGrant(a) \/ HandlePurchaseGrant(a)
        PROVE  twinUp' = twinUp /\ open' \subseteq open
    BY <2>1 DEF HandleRefusal, HandleRecoveryGrant, HandlePurchaseGrant, OnApproval,
                CloseRecovery, operatorVars
  <2>2. CASE HandleProgress
    BY <2>2 DEF HandleProgress, NoneRefused, operatorVars, approvalVars
  <2>3. QED
    BY <1>1, <2>1, <2>2 DEF Handle, NoneRefused
<1>2. CASE AgentAsks \/ AgentEnds
  BY <1>2 DEF AgentAsks, AgentEnds, AgentSucceeds, AgentNeedsApproval, AgentFails,
              NoneRefused, operatorVars, approvalVars
<1>3. CASE TwinEnds
  <2>1. CASE PlanRefused
    BY <2>1 DEF PlanRefused, NoneRefused
  <2>2. ASSUME NEW plan \in Plans, PlanNeedsApproval(plan) PROVE NoneRefused'
    <3>1. approvals \in Seq(Approval) /\ Len(approvals') = Len(approvals) + 1
      BY <2>2 DEF PlanNeedsApproval, TypeOK
    <3>2. QED
      BY <2>2, <3>1 DEF PlanNeedsApproval, NoneRefused, operatorVars
  <2>3. ASSUME NEW plan \in Plans, PlanAllowed(plan) PROVE NoneRefused'
    BY <2>3 DEF PlanAllowed, NoneRefused, operatorVars, approvalVars
  <2>4. QED
    BY <1>3, <2>1, <2>2, <2>3 DEF TwinEnds
<1>4. CASE Operator
  <2>1. ~SuspendTwin
    BY DEF SuspendTwin, TypeOK
  <2>2. QED
    BY <1>4, <2>1 DEF Operator, Start, Decide, DecideTooLate, ExpireStale, Interrupt, Resume,
                      ReinstateTwin, NoneRefused, operatorVars, approvalVars
<1>5. CASE UNCHANGED vars
  BY <1>5 DEF vars, approvalVars, operatorVars, NoneRefused
<1>6. QED
  BY <1>1, <1>2, <1>3, <1>4, <1>5 DEF Next

(* A RecoveryAttempt is IN_PROGRESS only while its plan waits for a human, *)
(* and on_approval closes it with whatever was decided: none survives the  *)
(* decision, or the mission.  The twin is not suspended: a plan the        *)
(* gateway refuses leaves its attempt IN_PROGRESS for good.                *)
THEOREM RecoveriesAreClosed ==
  MaxResumes = 0 /\ MaxSuspensions = 0 /\ Orderly => (Spec => []RecoveriesAccounted)
<1> SUFFICES ASSUME MaxResumes = 0, MaxSuspensions = 0, Orderly
             PROVE  Spec => []RecoveriesAccounted
  OBVIOUS
<1>a. Unresumed
  BY DEF Unresumed, Orderly
<1>1. TurnInv /\ WaitingInv /\ NoneRefused => RecoveriesAccounted
  BY DEF TurnInv, TurnCore, OneRecovery, WaitingInv, WaitingIsBacked, RecoveriesAccounted,
         TerminalMission, NoneRefused
<1>2. Init => NoneRefused
  BY DEF Init, NoneRefused
<1>3. TurnInv => TypeOK
  BY DEF TurnInv
<1>4. QED
  BY <1>1, <1>2, <1>3, <1>a, InitTurn, StepTurn, InitWaiting, StepWaiting, StepRefused,
     PTL DEF Spec

(***************************************************************************)
(* The promises of Autonomous Mission Control                              *)
(***************************************************************************)

(* The mission as MissionLifecycle sees it.                                *)
Phase   == IF status \in TerminalMission \cup {"CREATED"} THEN status ELSE "RUNNING"
Done    == {t \in Tasks : taskStatus[t] = "COMPLETED"}
Granted == {o \in Governed : \E a \in ForOffer(o) : approvals[a].status = "APPROVED"}
Asking  == PendingApprovals # {}

Promise == [Lifecycle!Next]_(Lifecycle!vars)

LEMMA Stutters == ASSUME UNCHANGED <<Phase, Done, Granted, Asking>> PROVE Promise
BY DEF Promise, Lifecycle!vars, Phase, Done, Granted, Asking

LEMMA Begins ==
  ASSUME Phase = "CREATED", Phase' = "RUNNING", UNCHANGED <<Done, Granted, Asking>>
  PROVE  Promise
<1>1. Lifecycle!Begin
  BY DEF Lifecycle!Begin, Phase, Done, Granted, Asking
<1>2. QED
  BY <1>1 DEF Promise, Lifecycle!Next

LEMMA Does ==
  ASSUME Phase = "RUNNING", Phase' = "RUNNING", UNCHANGED <<Granted, Asking>>,
         NEW t \in Tasks, t \notin Done, 1 .. (t - 1) \subseteq Done, Done' = Done \cup {t},
         t \in Buyers => Granted # {} \/ Offers # Governed
  PROVE  Promise
<1>1. Lifecycle!DoTask(t)
  BY DEF Lifecycle!DoTask, Lifecycle!MayBuy, Phase, Done, Granted, Asking
<1>2. Lifecycle!Chain = Tasks
  BY DEF Lifecycle!Chain, Tasks
<1>3. Lifecycle!Work
  BY <1>1, <1>2 DEF Lifecycle!Work
<1>4. QED
  BY <1>3 DEF Promise, Lifecycle!Next

LEMMA Finishes ==
  ASSUME Phase = "RUNNING", Phase' \in TerminalMission, Phase' = "COMPLETED" => Done = Tasks,
         UNCHANGED <<Done, Granted, Asking>>
  PROVE  Promise
<1>1. Lifecycle!Chain = Tasks /\ Lifecycle!Outcomes = TerminalMission
  BY DEF Lifecycle!Chain, Tasks, Lifecycle!Outcomes, TerminalMission
<1>2. \A outcome : outcome = Phase' => Lifecycle!Finish(outcome)
  BY <1>1 DEF Lifecycle!Finish, Phase, Done, Granted, Asking
<1>3. Lifecycle!Work
  BY <1>1, <1>2 DEF Lifecycle!Work
<1>4. QED
  BY <1>3 DEF Promise, Lifecycle!Next

LEMMA Asks ==
  ASSUME Phase = "RUNNING", Asking', UNCHANGED <<Phase, Done, Granted>>
  PROVE  Promise
<1>1. Lifecycle!Ask
  BY DEF Lifecycle!Ask, Phase, Done, Granted, Asking
<1>2. QED
  BY <1>1 DEF Promise, Lifecycle!Next, Lifecycle!Work

LEMMA Answers ==
  ASSUME Asking, UNCHANGED <<Phase, Done>>,
         Granted' = Granted \/ \E o \in Governed : Granted' = Granted \cup {o}
  PROVE  Promise
<1>1. Lifecycle!Answer
  BY DEF Lifecycle!Answer, Phase, Done, Granted, Asking
<1>2. QED
  BY <1>1 DEF Promise, Lifecycle!Next

(* Where no approval is touched, nothing is granted or asked.              *)
LEMMA SameApprovals == ASSUME UNCHANGED approvals PROVE UNCHANGED <<Granted, Asking>>
BY DEF Granted, Asking, ForOffer, PendingApprovals

(* What a finite chain in order has behind it: everything before.          *)
LEMMA AllBefore ==
  ASSUME InOrder(taskStatus), NEW t \in Tasks,
         \A d \in DependsOn(t) : taskStatus[d] = "COMPLETED"
  PROVE  1 .. (t - 1) \subseteq Done
<1> DEFINE S == {n \in Nat : n < t /\ n # 0 /\ (t - n) \notin Done}
<1>1. t \in Nat /\ t >= 1 /\ t <= NumTasks /\ NumTasks \in Nat
  BY EngineAssumption DEF Tasks
<1>2. ASSUME S # {} PROVE FALSE
  <2>1. PICK m \in S : \A n \in S : <<n, m>> \notin OpToRel(<, Nat)
    <3>1. S \in SUBSET Nat
      OBVIOUS
    <3> HIDE DEF S
    <3>2. QED
      BY <1>2, <3>1, NatLessThanWellFounded, WFMin
  <2>2. m \in Nat /\ m >= 1 /\ m < t
    OBVIOUS
  <2>3. CASE m = 1
    BY <1>1, <2>2, <2>3 DEF DependsOn, Done, Tasks
  <2>4. CASE m > 1
    <3>1. m - 1 \in Nat /\ m - 1 < m /\ m - 1 # 0 /\ m - 1 < t
      BY <2>2, <2>4, <1>1
    <3>2. m - 1 \notin S
      BY <2>1, <2>2, <3>1 DEF OpToRel
    <3>3. t - (m - 1) \in Done
      BY <3>1, <3>2
    <3>4. t - m \in DependsOn(t - (m - 1)) /\ t - m \in Tasks
      BY <1>1, <2>2, <2>4 DEF DependsOn, Tasks
    <3>5. taskStatus[t - m] = "COMPLETED"
      BY <3>3, <3>4 DEF Done, InOrder
    <3>6. QED
      BY <3>4, <3>5 DEF Done
  <2>5. QED
    BY <2>2, <2>3, <2>4
<1>3. ASSUME NEW u \in 1 .. (t - 1) PROVE u \in Done
  <2>1. t - u \in Nat /\ t - u < t /\ t - u # 0 /\ t - (t - u) = u
    BY <1>1
  <2>2. QED
    BY <1>2, <2>1
<1>4. QED
  BY <1>3

(* advance completes the mission, runs a task, or does nothing.            *)
LEMMA AdvancePromise ==
  ASSUME TypeOK, Phase = "RUNNING", NEW ts, ts \in [Tasks -> TaskStatus],
         {t \in Tasks : ts[t] = "COMPLETED"} = Done,
         NEW log, Advance("EXECUTING", ts, log), UNCHANGED approvals
  PROVE  Promise
<1>1. UNCHANGED <<Granted, Asking>>
  BY SameApprovals
<1>2. CASE NothingToRun("EXECUTING", ts, log)
  BY <1>1, <1>2, Stutters DEF NothingToRun, Phase, Done, TerminalMission
<1>3. CASE Complete("EXECUTING", ts, log)
  <2>1. status' = "COMPLETED" /\ taskStatus' = ts /\ AllCompleted(ts)
    BY <1>3 DEF Complete, Moved, CanTransition, Successors, TerminalMission
  <2>2. Phase' = "COMPLETED" /\ Done' = Done /\ Done = Tasks
    BY <2>1 DEF Phase, Done, TerminalMission, AllCompleted
  <2>3. QED
    BY <1>1, <2>2, Finishes DEF TerminalMission
<1>4. CASE RunTask("EXECUTING", ts, log)
  <2>1. PICK t \in Runnable(ts) : status' = "EXECUTING" /\ taskStatus' = [ts EXCEPT ![t] = "RUNNING"]
    BY <1>4 DEF RunTask
  <2>2. t \in Tasks /\ ts[t] # "COMPLETED"
    BY DEF Runnable, Claimable
  <2>3. taskStatus'[t] = "RUNNING" /\ \A u \in Tasks : u # t => taskStatus'[u] = ts[u]
    BY <2>1, <2>2
  <2>4. Done' = Done
    BY <2>2, <2>3 DEF Done
  <2>5. QED
    BY <1>1, <2>1, <2>4, Stutters DEF Phase, TerminalMission
<1>5. QED
  BY <1>2, <1>3, <1>4 DEF Advance

LEMMA DirectivePromise ==
  ASSUME TypeOK, Phase = "RUNNING", NEW t \in Tasks, taskStatus[t] # "COMPLETED",
         NEW directive, NEW log, ApplyDirective(directive, "RECOVERING", t, log),
         UNCHANGED approvals
  PROVE  Promise
<1>1. CASE RetryTask("RECOVERING", t, log)
  <2>1. PICK ts, l : ts = [taskStatus EXCEPT ![t] = "PENDING"] /\ Advance("EXECUTING", ts, l)
    BY <1>1 DEF RetryTask, Moved, CanTransition, Successors, TerminalMission
  <2>2. ts \in [Tasks -> TaskStatus] /\ {u \in Tasks : ts[u] = "COMPLETED"} = Done
    BY <2>1 DEF TypeOK, TaskStatus, Done
  <2>3. QED
    BY <2>1, <2>2, AdvancePromise
<1>2. CASE Fail("RECOVERING", log)
  <2>1. status' = "FAILED" /\ UNCHANGED taskStatus
    BY <1>2 DEF Fail, Moved, CanTransition, TerminalMission
  <2>2. Phase' = "FAILED" /\ UNCHANGED Done
    BY <2>1 DEF Phase, Done, TerminalMission
  <2>3. QED
    BY <2>2, SameApprovals, Finishes DEF TerminalMission
<1>3. CASE status' = Moved("RECOVERING", "AT_RISK") /\ UNCHANGED taskStatus
  <2>1. status' = "AT_RISK"
    BY <1>3 DEF Moved, CanTransition, Successors, TerminalMission
  <2>2. UNCHANGED <<Phase, Done>>
    BY <1>3, <2>1 DEF Phase, Done, TerminalMission
  <2>3. QED
    BY <2>2, SameApprovals, Stutters
<1>4. QED
  BY <1>1, <1>2, <1>3 DEF ApplyDirective

(* A task that is not done is put somewhere else than COMPLETED.           *)
LEMMA StillDone ==
  ASSUME TypeOK, NEW t \in Tasks, taskStatus[t] # "COMPLETED", NEW x, x # "COMPLETED",
         taskStatus' = [taskStatus EXCEPT ![t] = x]
  PROVE  Done' = Done
<1>1. taskStatus'[t] = x /\ \A u \in Tasks : u # t => taskStatus'[u] = taskStatus[u]
  BY DEF TypeOK
<1>2. QED
  BY <1>1 DEF Done

LEMMA HandlePromise == TurnInv /\ Handle => Promise
<1> SUFFICES ASSUME TurnInv, Handle PROVE Promise
  OBVIOUS
<1>a. TypeOK
  BY DEF TurnInv
<1>1. CASE HandleProgress
  <2>1. pc = "idle" /\ queue # <<>> /\ Head(queue).type # "APPROVAL_RECEIVED"
        /\ UNCHANGED approvals /\ Advance(status, taskStatus, checkpoints)
    BY <1>1 DEF HandleProgress, approvalVars
  <2>2. ASSUME status = "WAITING_APPROVAL", queue = <<Decided(pending)>> PROVE FALSE
    <3>1. Decided(pending) \in Event
      BY <1>a, <2>2, WaitingFor, EventType DEF TurnInv, TurnCore
    <3>2. QED
      BY <2>1, <2>2, <3>1, OneEvent DEF Decided
  <2>3. status = "EXECUTING"
    BY <2>1, <2>2 DEF TurnInv, TurnCore, OneTurn
  <2>4. QED
    BY <1>a, <2>1, <2>3, AdvancePromise DEF Phase, Done, TypeOK, TerminalMission
<1>2. ASSUME NEW a \in 1 .. Len(approvals), HandleRefusal(a) PROVE Promise
  <2>1. OnApproval(a) /\ status' = Moved(status, "FAILED") /\ UNCHANGED <<taskStatus, approvals>>
    BY <1>2 DEF HandleRefusal, Fail, OnApproval
  <2>2. status = "WAITING_APPROVAL" /\ status' = "FAILED"
    BY <2>1, AwaitedDecision DEF Moved, CanTransition, TerminalMission
  <2>3. Phase = "RUNNING" /\ Phase' = "FAILED" /\ UNCHANGED Done
    BY <2>1, <2>2 DEF Phase, Done, TerminalMission
  <2>4. QED
    BY <2>1, <2>3, SameApprovals, Finishes DEF TerminalMission
<1>3. ASSUME NEW a \in 1 .. Len(approvals), HandleRecoveryGrant(a) PROVE Promise
  <2>1. OnApproval(a) /\ UNCHANGED approvals
    BY <1>3 DEF HandleRecoveryGrant, OnApproval
  <2>2. CanTransition(status, "RECOVERING") /\ Phase = "RUNNING"
    BY <2>1, AwaitedDecision DEF CanTransition, Successors, TerminalMission, Phase
  <2>3. \E directive, log : ApplyDirective(directive, "RECOVERING", approvals[a].task, log)
    BY <1>3, <2>2 DEF HandleRecoveryGrant
  <2>4. approvals[a].task \in Tasks /\ taskStatus[approvals[a].task] # "COMPLETED"
    BY <2>1, AwaitedDecision
  <2>5. QED
    BY <1>a, <2>1, <2>2, <2>3, <2>4, DirectivePromise
<1>4. ASSUME NEW a \in 1 .. Len(approvals), HandlePurchaseGrant(a) PROVE Promise
  <2>1. /\ OnApproval(a) /\ UNCHANGED approvals /\ status' = Moved(status, "EXECUTING")
        /\ taskStatus' = [taskStatus EXCEPT ![approvals[a].task] = "PENDING"]
    BY <1>4 DEF HandlePurchaseGrant, OnApproval
  <2>2. status = "WAITING_APPROVAL" /\ status' = "EXECUTING"
        /\ approvals[a].task \in Tasks /\ taskStatus[approvals[a].task] # "COMPLETED"
    BY <2>1, AwaitedDecision DEF Moved, CanTransition, Successors, TerminalMission
  <2>3. Done' = Done
    BY <1>a, <2>1, <2>2, StillDone
  <2>4. QED
    BY <2>1, <2>2, <2>3, SameApprovals, Stutters DEF Phase, TerminalMission
<1>5. QED
  BY <1>1, <1>2, <1>3, <1>4 DEF Handle

(* A request is added: nothing is granted, and somebody is asked.          *)
LEMMA RequestAdded ==
  ASSUME TypeOK, NEW x \in Approval, x.status = "PENDING", approvals' = Append(approvals, x)
  PROVE  UNCHANGED Granted /\ Asking'
<1>1. PICK n : n = Len(approvals')
  OBVIOUS
<1>2. /\ n = Len(approvals) + 1 /\ Len(approvals) \in Nat /\ approvals'[n] = x
      /\ \A a \in 1 .. Len(approvals) : approvals'[a] = approvals[a]
  BY <1>1, AppendProperties, LenProperties DEF TypeOK
<1>3. \A a : a \in 1 .. n <=> a \in 1 .. Len(approvals) \/ a = n
  BY <1>2
<1>4. \A o : (\E a \in ForOffer(o)' : approvals'[a].status = "APPROVED") <=>
             (\E a \in ForOffer(o) : approvals[a].status = "APPROVED")
  BY <1>1, <1>2, <1>3 DEF ForOffer
<1>5. Asking'
  BY <1>1, <1>2, <1>3 DEF Asking, PendingApprovals
<1>6. QED
  BY <1>4, <1>5 DEF Granted

LEMMA AgentPromise == Unresumed /\ TurnInv /\ (AgentAsks \/ AgentEnds) => Promise
<1> SUFFICES ASSUME Unresumed, TurnInv, AgentAsks \/ AgentEnds PROVE Promise
  OBVIOUS
<1>a. /\ TypeOK /\ pc = "agent" /\ status = "EXECUTING" /\ Phase = "RUNNING"
      /\ job \in Job /\ job.task \in Tasks /\ job.offer \in Offers
      /\ taskStatus[job.task] # "COMPLETED" /\ InOrder(taskStatus)
      /\ \A d \in DependsOn(job.task) : taskStatus[d] = "COMPLETED"
  <2>1. TypeOK /\ pc = "agent"
    BY DEF AgentAsks, AgentEnds, AgentSucceeds, AgentNeedsApproval, AgentFails, TurnInv
  <2>2. job \in Job /\ job.task \in Tasks /\ job.offer \in Offers
    BY <2>1 DEF TypeOK, WorkerOK, Job
  <2>3. status = "EXECUTING" /\ Phase = "RUNNING"
    BY <2>1 DEF TurnInv, TurnCore, OneTurn, Phase, TerminalMission
  <2>4. QED
    BY <2>1, <2>2, <2>3 DEF TurnInv, TurnCore, OneTask
<1>b. ~FreeReport
  BY DEF Unresumed, FreeReport
<1>1. CASE AgentAsks
  <2>1. UNCHANGED <<Phase, Done>>
    BY <1>1 DEF AgentAsks, missionVars, taskVars, Phase, Done
  <2>2. CASE UNCHANGED approvals
    BY <2>1, <2>2, SameApprovals, Stutters
  <2>3. CASE approvals' # approvals
    <3>1. PICK x : /\ x = [status |-> "PENDING", action |-> "purchase.execute", task |-> job.task,
                           offer |-> job.offer, plan |-> NoPlan]
                   /\ approvals' = Append(approvals, x)
      BY <1>1, <2>3 DEF AgentAsks
    <3>2. x \in Approval /\ x.status = "PENDING"
      BY <1>a, <3>1 DEF Approval, ApprovalStatus
    <3>3. QED
      BY <1>a, <2>1, <3>1, <3>2, RequestAdded, Asks
  <2>4. QED
    BY <2>2, <2>3
<1>2. CASE AgentSucceeds
  <2>1. /\ TaskEnds("COMPLETED") /\ status' = "EXECUTING" /\ UNCHANGED approvals
        /\ job.task \in Buyers => Authorised(job.offer)
    BY <1>a, <1>b, <1>2 DEF AgentSucceeds, approvalVars
  <2>2. taskStatus' = [taskStatus EXCEPT ![job.task] = "COMPLETED"]
    BY <2>1 DEF TaskEnds
  <2>3. taskStatus'[job.task] = "COMPLETED"
        /\ \A u \in Tasks : u # job.task => taskStatus'[u] = taskStatus[u]
    BY <1>a, <2>2 DEF TypeOK
  <2>4. job.task \notin Done /\ Done' = Done \cup {job.task}
    BY <1>a, <2>3 DEF Done
  <2>5. 1 .. (job.task - 1) \subseteq Done
    BY <1>a, AllBefore
  <2>6. job.task \in Buyers => Granted # {} \/ Offers # Governed
    BY <1>a, <2>1 DEF Authorised, Granted
  <2>7. Phase' = "RUNNING"
    BY <2>1 DEF Phase, TerminalMission
  <2>8. QED
    BY <1>a, <2>1, <2>4, <2>5, <2>6, <2>7, SameApprovals, Does
<1>3. CASE AgentNeedsApproval \/ AgentFails
  <2>1. PICK result \in {"WAITING", "FAILED"} : TaskEnds(result)
    BY <1>3 DEF AgentNeedsApproval, AgentFails
  <2>2. UNCHANGED approvals /\ status' \in {"EXECUTING", "WAITING_APPROVAL", "RECOVERING"}
    BY <1>3, <1>a DEF AgentNeedsApproval, AgentFails, Moved, approvalVars
  <2>3. taskStatus' = [taskStatus EXCEPT ![job.task] = result]
    BY <2>1 DEF TaskEnds
  <2>4. Done' = Done
    BY <1>a, <2>3, StillDone
  <2>5. Phase' = Phase
    BY <1>a, <2>2 DEF Phase, TerminalMission
  <2>6. QED
    BY <2>2, <2>4, <2>5, SameApprovals, Stutters
<1>4. QED
  BY <1>1, <1>2, <1>3 DEF AgentEnds

LEMMA TwinPromise == TurnInv /\ TwinEnds => Promise
<1> SUFFICES ASSUME TurnInv, TwinEnds PROVE Promise
  OBVIOUS
<1>a. /\ TypeOK /\ pc = "twin" /\ status = "RECOVERING" /\ Phase = "RUNNING"
      /\ job.task \in Tasks /\ taskStatus[job.task] # "COMPLETED"
  <2>1. TypeOK /\ pc = "twin"
    BY DEF TwinEnds, PlanRefused, PlanNeedsApproval, PlanAllowed, TurnInv
  <2>2. job.task \in Tasks
    BY <2>1 DEF TypeOK, WorkerOK, Job
  <2>3. status = "RECOVERING" /\ Phase = "RUNNING"
    BY <2>1 DEF TurnInv, TurnCore, OneTurn, Phase, TerminalMission
  <2>4. QED
    BY <2>1, <2>2, <2>3 DEF TurnInv, TurnCore, OneTask
<1>1. CASE PlanRefused
  <2>1. UNCHANGED <<Phase, Done, approvals>>
    BY <1>1 DEF PlanRefused, missionVars, taskVars, approvalVars, Phase, Done
  <2>2. QED
    BY <2>1, SameApprovals, Stutters
<1>2. ASSUME NEW plan \in Plans, PlanNeedsApproval(plan) PROVE Promise
  <2>1. PICK x : /\ x = [status |-> "PENDING", action |-> "recovery.apply", task |-> job.task,
                         offer |-> NoOffer, plan |-> plan]
                 /\ approvals' = Append(approvals, x)
    BY <1>2 DEF PlanNeedsApproval
  <2>2. x \in Approval /\ x.status = "PENDING"
    BY <1>a, <1>2, <2>1 DEF Approval, ApprovalStatus, Plans
  <2>3. status' = "WAITING_APPROVAL" /\ UNCHANGED taskStatus
    BY <1>a, <1>2 DEF PlanNeedsApproval, Moved, CanTransition, Successors, TerminalMission, taskVars
  <2>4. UNCHANGED <<Phase, Done>>
    BY <1>a, <2>3 DEF Phase, Done, TerminalMission
  <2>5. QED
    BY <1>a, <2>1, <2>2, <2>4, RequestAdded, Asks
<1>3. ASSUME NEW plan \in Plans, PlanAllowed(plan) PROVE Promise
  BY <1>a, <1>3, DirectivePromise DEF PlanAllowed, approvalVars
<1>4. QED
  BY <1>1, <1>2, <1>3 DEF TwinEnds

(* A decision answers what is asked, and grants one offer at most.         *)
LEMMA DecisionPromise ==
  ASSUME TypeOK, NEW a \in 1 .. Len(approvals), approvals[a].status = "PENDING",
         NEW verdict \in ApprovalStatus \ {"PENDING"},
         approvals' = [approvals EXCEPT ![a].status = verdict], UNCHANGED <<status, taskStatus>>
  PROVE  Promise
<1>1. UNCHANGED <<Phase, Done>> /\ Asking
  BY DEF Phase, Done, Asking, PendingApprovals
<1>2. approvals \in Seq(Approval) /\ approvals[a] \in Approval
  BY ElementOfSeq DEF TypeOK
<1>3. PICK x : x = [approvals[a] EXCEPT !.status = verdict]
  OBVIOUS
<1>4. /\ x \in Approval /\ x.status = verdict /\ x.action = approvals[a].action
      /\ x.offer = approvals[a].offer
  BY <1>2, <1>3 DEF Approval
<1>5. /\ Len(approvals') = Len(approvals) /\ approvals'[a] = x
      /\ \A b \in 1 .. Len(approvals) : b # a => approvals'[b] = approvals[b]
  <2>1. approvals' = [approvals EXCEPT ![a] = x]
    BY <1>3
  <2>2. QED
    BY <1>2, <1>4, <2>1, ExceptSeq
<1>6. \A o : ForOffer(o)' = ForOffer(o)
  BY <1>4, <1>5 DEF ForOffer
<1>7. PICK o : o = approvals[a].offer
  OBVIOUS
<1>8. \A u : u \in Granted' <=> u \in Granted \/ (verdict = "APPROVED" /\ u = o /\ u \in Governed
                                                 /\ a \in ForOffer(o))
  BY <1>4, <1>5, <1>6, <1>7 DEF Granted, ForOffer
<1>9. CASE verdict = "APPROVED" /\ o \in Governed /\ a \in ForOffer(o)
  <2>1. Granted' = Granted \cup {o}
    BY <1>8, <1>9
  <2>2. QED
    BY <1>1, <1>9, <2>1, Answers
<1>10. CASE ~(verdict = "APPROVED" /\ o \in Governed /\ a \in ForOffer(o))
  <2>1. Granted' = Granted
    BY <1>8, <1>10
  <2>2. QED
    BY <1>1, <2>1, Answers
<1>11. QED
  BY <1>9, <1>10

LEMMA OperatorPromise == Unresumed /\ TurnInv /\ Operator => Promise
<1> SUFFICES ASSUME Unresumed, TurnInv, Operator PROVE Promise
  OBVIOUS
<1>a. TypeOK
  BY DEF TurnInv
<1>1. CASE Start
  <2>1. Phase = "CREATED" /\ Phase' = "RUNNING" /\ UNCHANGED <<Done, approvals>>
    BY <1>1 DEF Start, Phase, Done, TerminalMission, taskVars, approvalVars
  <2>2. QED
    BY <2>1, SameApprovals, Begins
<1>2. ASSUME NEW a \in 1 .. Len(approvals),
             \/ \E verdict \in {"APPROVED", "REJECTED"} : Decide(a, verdict)
             \/ DecideTooLate(a) \/ ExpireStale(a)
      PROVE  Promise
  <2>1. PICK verdict \in ApprovalStatus \ {"PENDING"} :
          /\ approvals[a].status = "PENDING"
          /\ approvals' = [approvals EXCEPT ![a].status = verdict]
          /\ UNCHANGED <<status, taskStatus>>
    BY <1>2 DEF Decide, DecideTooLate, ExpireStale, ApprovalStatus, missionVars, taskVars
  <2>2. QED
    BY <1>a, <2>1, DecisionPromise
<1>3. CASE Interrupt
  <2>1. /\ UNCHANGED <<status, approvals>> /\ active \in Tasks /\ taskStatus[active] = "RUNNING"
        /\ taskStatus' = [taskStatus EXCEPT ![active] = "PENDING"]
    BY <1>3, <1>a DEF Interrupt, missionVars, approvalVars, TypeOK
  <2>2. PICK t : t = active
    OBVIOUS
  <2>3. Done' = Done
    BY <1>a, <2>1, <2>2, StillDone
  <2>4. QED
    BY <2>1, <2>3, SameApprovals, Stutters DEF Phase
<1>4. ASSUME NEW c \in checkpoints.all, Resume(c) PROVE FALSE
  BY <1>4, <1>a DEF Resume, Unresumed, TypeOK
<1>5. CASE SuspendTwin \/ ReinstateTwin
  <2>1. UNCHANGED <<Phase, Done, approvals>>
    BY <1>5 DEF SuspendTwin, ReinstateTwin, missionVars, taskVars, approvalVars, Phase, Done
  <2>2. QED
    BY <2>1, SameApprovals, Stutters
<1>6. QED
  BY <1>1, <1>2, <1>3, <1>4, <1>5 DEF Operator

LEMMA StepPromise == Unresumed /\ TurnInv /\ [Next]_vars => Promise
<1> SUFFICES ASSUME Unresumed, TurnInv, [Next]_vars PROVE Promise
  OBVIOUS
<1>1. CASE UNCHANGED vars
  <2>1. UNCHANGED <<Phase, Done, approvals>>
    BY <1>1 DEF vars, missionVars, taskVars, approvalVars, Phase, Done
  <2>2. QED
    BY <2>1, SameApprovals, Stutters
<1>2. QED
  BY <1>1, HandlePromise, AgentPromise, TwinPromise, OperatorPromise DEF Next

LEMMA InitPromise == Init => Lifecycle!Init
<1> SUFFICES ASSUME Init PROVE Lifecycle!Init
  OBVIOUS
<1>1. /\ status = "CREATED" /\ approvals = <<>> /\ Len(approvals) = 0
      /\ \A t \in Tasks : taskStatus[t] = "PENDING"
  BY DEF Init
<1>2. QED
  BY <1>1 DEF Lifecycle!Init, ForOffer, PendingApprovals

(* The engine implements MissionLifecycle, every step being one of its     *)
(* steps or none: whatever agents and twin answer, and whatever is         *)
(* interrupted, suspended, decided late or swept, tasks are done in the    *)
(* order of the chain and for good, nothing beyond authority is bought     *)
(* without a grant, and a mission ends once, COMPLETED only with every task *)
(* done.  (The fair part of KeepsPromises is checked by its runs.)         *)
THEOREM EngineKeepsPromises ==
  Unresumed => (Spec => Lifecycle!Init /\ [][Lifecycle!Next]_(Lifecycle!vars))
<1> SUFFICES ASSUME Unresumed
             PROVE  Spec => Lifecycle!Init /\ [][Lifecycle!Next]_(Lifecycle!vars)
  OBVIOUS
<1>1. TurnInv /\ [Next]_vars => [Lifecycle!Next]_(Lifecycle!vars)
  BY StepPromise DEF Promise
<1>2. QED
  BY <1>1, InitPromise, InitTurn, StepTurn, PTL DEF Spec

=============================================================================
