--------------------------- MODULE MissionEngine ---------------------------
(***************************************************************************)
(* One mission driven by MissionEngine in a single API process: the        *)
(* in-memory store, the in-process event bus and its one worker.           *)
(*                                                                         *)
(* The store hands out the stored objects themselves and none of its calls *)
(* suspends, so a coroutine runs without interruption from one suspension  *)
(* point to the next.  The worker suspends in three places: waiting for an *)
(* event (pc = "idle"), awaiting an operational agent (pc = "agent") and   *)
(* awaiting the Failure Twin (pc = "twin").  Every action below is the     *)
(* code from one of these points to the next, or a whole operator request, *)
(* which can run only while the worker is suspended.                       *)
(***************************************************************************)
EXTENDS MissionStates, Sequences, FiniteSets

CONSTANTS
  NumTasks,       \* length of the task chain of the mission template
  Planners,       \* tasks whose result sets the supplier, price and amount
  Buyers,         \* tasks whose agent calls purchase.execute: the last, if any
  Offers,         \* what can be bought: a supplier with an amount
  FirstOffer,     \* the primary supplier's
  Governed,       \* offers whose amount requires a human approval
  NoOffer,        \* a plan without the supplier_id it needs
  MaxAttempts,    \* Task.max_attempts
  Strategies,     \* the recovery strategies the Failure Twin selects from
  Faults,         \* which of EnvironmentFaults may happen
  MaxInterrupts,  \* bound on operator interruptions
  MaxResumes,     \* bound on operator resumes
  MaxSuspensions  \* bound on suspensions of the Failure Twin

Tasks == 1 .. NumTasks

Switching == {"USE_ALTERNATIVE_SUPPLIER", "SWITCH_DATA_SOURCE"}

AllStrategies == Switching \cup
  {"RETRY", "SWITCH_AGENT", "WAIT_AND_REASSESS", "ESCALATE", "ABORT"}

(* "late_decision": the operator answers an approval past its TTL;         *)
(* "sweep": somebody calls expire_stale;                                   *)
(* "free_report": a language model reports what it likes about the task,   *)
(*                whatever the gateway answered;                           *)
(* "any_checkpoint": resume is called with a checkpoint_id of its choice.  *)
EnvironmentFaults ==
  {"late_decision", "sweep", "free_report", "any_checkpoint"}

ASSUME EngineAssumption ==
  /\ NumTasks \in Nat \ {0}
  /\ Planners \subseteq Tasks /\ Buyers \subseteq {NumTasks}
  /\ FirstOffer \in Offers /\ Governed \subseteq Offers /\ NoOffer \notin Offers
  /\ MaxAttempts \in Nat \ {0}
  /\ Strategies \subseteq AllStrategies /\ Faults \subseteq EnvironmentFaults
  /\ MaxInterrupts \in Nat /\ MaxResumes \in Nat /\ MaxSuspensions \in Nat

VARIABLES
  status,       \* Mission.status
  offer,        \* Mission.context: selected supplier, price and amount
  pending,      \* Mission.pending_approval_id, 0 for None
  active,       \* Mission.active_task_id, 0 for None
  taskStatus,   \* Task.status
  attempt,      \* Task.attempt
  stray,        \* tasks whose assigned_agent is in no registry
  approvals,    \* the approvals requested so far, in order
  open,         \* approvals whose RecoveryAttempt has no completed_at, and 0
                \* for an attempt that has neither
  checkpoints,  \* all checkpoints, and the last one
  queue,        \* EventService._queue, events without a handler left out
  pc, job,      \* where the worker is suspended, and on which task
  twinUp,       \* the Failure Twin is not SUSPENDED
  interrupts, resumes, suspensions

missionVars  == <<status, offer, pending, active, checkpoints>>
taskVars     == <<taskStatus, attempt, stray>>
approvalVars == <<approvals, open>>
workerVars   == <<pc, job>>
operatorVars == <<twinUp, interrupts, resumes, suspensions>>
vars == <<missionVars, taskVars, approvalVars, queue, workerVars, operatorVars>>

(***************************************************************************)
(* Data                                                                    *)
(***************************************************************************)

(* A RecoveryPlan, reduced to what _apply reads of it. *)
Plan == [strategy : Strategies, offer : Offers \cup {NoOffer},
         agent : {"none", "registered", "unregistered"}]

Plans == {p \in Plan : /\ p.strategy \notin Switching => p.offer = NoOffer
                       /\ p.strategy # "SWITCH_AGENT" => p.agent = "none"}

NoPlan == [strategy |-> "none", offer |-> NoOffer, agent |-> "none"]

Approval == [status : ApprovalStatus, action : {"purchase.execute", "recovery.apply"},
             task : Tasks, offer : Offers \cup {NoOffer}, plan : Plan \cup {NoPlan}]

(* What the suspended worker holds: the task it claimed, the offer its     *)
(* invocation was built from, the approval_id the agent was given (0: none).*)
Job == [task : Tasks, offer : Offers, asked : Nat]

NoJob == [task |-> 0, offer |-> NoOffer, asked |-> 0]

Checkpoint == [offer : Offers, pending : Nat]

Event == [type : {"MISSION_STARTED", "TASK_COMPLETED", "MISSION_RESUMED",
                  "APPROVAL_RECEIVED"},
          approval : Nat]

Signal(type) == [type |-> type, approval |-> 0]
Decided(a)   == [type |-> "APPROVAL_RECEIVED", approval |-> a]

PendingApprovals == {a \in 1 .. Len(approvals) : approvals[a].status = "PENDING"}

DependsOn(t) == IF t = 1 THEN {} ELSE {t - 1}

(* Mutant: the dependencies are not looked at. *)
RunnableInAnyOrder(tasks) == {t \in Tasks : tasks[t] \in Claimable}

Runnable(tasks) ==
  {t \in Tasks : /\ tasks[t] \in Claimable
                 /\ \A d \in DependsOn(t) : tasks[d] = "COMPLETED"}

(* Mutant: any completed task completes the mission. *)
AnyCompleted(tasks) == \E t \in Tasks : tasks[t] = "COMPLETED"

AllCompleted(tasks) == \A t \in Tasks : tasks[t] = "COMPLETED"

(* _set_status: a forbidden transition raises, and the mission stays put. *)
Moved(current, target) ==
  IF CanTransition(current, target) THEN target ELSE current

(* CheckpointService.create, for the context and the pending approval saved *)
Saved(log, o, p) ==
  LET c == [offer |-> o, pending |-> p]
  IN  [all |-> log.all \cup {c}, last |-> c]

Rest == pc' = "idle" /\ job' = NoJob

(***************************************************************************)
(* advance: the tail of every handler that moves the mission on.  st, ts   *)
(* and log are the status, tasks and checkpoints its caller left behind;   *)
(* the caller sets offer', pending', stray' and the rest.                  *)
(***************************************************************************)

Advances(st) == st \notin TerminalMission \cup {"WAITING_APPROVAL"}

NothingToRun(st, ts, log) ==
  /\ ~Advances(st) \/ (Runnable(ts) = {} /\ ~AllCompleted(ts))
  /\ status' = st /\ taskStatus' = ts /\ checkpoints' = log
  /\ UNCHANGED active
  /\ Rest

Complete(st, ts, log) ==
  /\ Advances(st) /\ AllCompleted(ts)
  /\ status' = Moved(st, "COMPLETED") /\ taskStatus' = ts
  /\ IF CanTransition(st, "COMPLETED")
       THEN checkpoints' = Saved(log, offer', pending') /\ active' = 0
       ELSE checkpoints' = log /\ UNCHANGED active
  /\ Rest

(* claim_task, then registry.get, which raises on an unknown agent with    *)
(* the task already claimed; otherwise the worker awaits the agent.        *)
RunTask(st, ts, log) ==
  \E t \in Runnable(ts) :
    /\ Advances(st) /\ \A u \in Runnable(ts) : t <= u
    /\ status' = st /\ checkpoints' = log
    /\ taskStatus' = [ts EXCEPT ![t] = "RUNNING"]
    /\ IF t \in stray'
         THEN Rest /\ UNCHANGED active
         ELSE /\ pc' = "agent"
              /\ job' = [task |-> t, offer |-> offer', asked |-> 0]
              /\ active' = t

Advance(st, ts, log) ==
  \/ NothingToRun(st, ts, log)
  \/ Complete(st, ts, log)
  \/ RunTask(st, ts, log)

(***************************************************************************)
(* Recovery: RecoveryEngine._apply turns a plan into a directive, and      *)
(* MissionEngine._apply_directive carries it out from status st.           *)
(***************************************************************************)

Directive(plan) ==
  CASE plan.strategy = "RETRY"             -> "RETRY_TASK"
    [] plan.strategy \in Switching         -> IF plan.offer = NoOffer THEN "FAIL" ELSE "RETRY_TASK"
    [] plan.strategy = "SWITCH_AGENT"      -> IF plan.agent = "none" THEN "FAIL" ELSE "RETRY_TASK"
    [] plan.strategy = "WAIT_AND_REASSESS" -> "WAIT"
    [] plan.strategy = "ESCALATE"          -> "WAIT_APPROVAL"
    [] OTHER                               -> "FAIL"

(* What _apply writes before the directive is carried out. *)
ApplyPlan(plan, t) ==
  /\ offer' = IF plan.offer = NoOffer THEN offer ELSE plan.offer
  /\ stray' = IF plan.agent = "unregistered" THEN stray \cup {t}
              ELSE IF plan.agent = "registered" THEN stray \ {t} ELSE stray

Fail(st, log) ==
  /\ status' = Moved(st, "FAILED")
  /\ checkpoints' = log
  /\ UNCHANGED <<taskStatus, active>>
  /\ Rest

(* Mutant: one attempt too many. *)
OutOfAttemptsLate(t) == attempt[t] > MaxAttempts

OutOfAttempts(t) == attempt[t] >= MaxAttempts

(* Mutant: the retry is not counted. *)
SameAttempt(t) == attempt[t]

NextAttempt(t) == attempt[t] + 1

RetryTask(st, t, log) ==
  /\ ~OutOfAttempts(t)
  /\ attempt' = [attempt EXCEPT ![t] = NextAttempt(t)]
  /\ Advance(Moved(st, "EXECUTING"), [taskStatus EXCEPT ![t] = "PENDING"],
             Saved(log, offer', pending'))

(* WAIT_APPROVAL arrives here without an approval_id: the structural guard *)
(* of _apply_directive fails the mission rather than freeze it.            *)
ApplyDirective(directive, st, t, log) ==
  \/ directive = "RETRY_TASK" /\ RetryTask(st, t, log)
  \/ /\ \/ directive \in {"FAIL", "WAIT_APPROVAL"}
        \/ directive = "RETRY_TASK" /\ OutOfAttempts(t)
     /\ Fail(st, log)
     /\ UNCHANGED attempt
  \/ /\ directive = "WAIT"
     /\ status' = Moved(st, "AT_RISK")
     /\ checkpoints' = log
     /\ UNCHANGED <<attempt, taskStatus, active>>
     /\ Rest

(***************************************************************************)
(* Operator requests                                                       *)
(***************************************************************************)

Start ==
  /\ status = "CREATED"
  /\ status' = "EXECUTING"
  /\ queue' = Append(queue, Signal("MISSION_STARTED"))
  /\ UNCHANGED <<offer, pending, active, checkpoints, taskVars, approvalVars,
                 workerVars, operatorVars>>

(* Mutant: the decision is saved and nobody is told. *)
KeepQuiet(a) == UNCHANGED queue

Announce(a) == queue' = Append(queue, Decided(a))

Decide(a, verdict) ==
  /\ approvals[a].status = "PENDING"
  /\ approvals' = [approvals EXCEPT ![a].status = verdict]
  /\ Announce(a)
  /\ UNCHANGED <<missionVars, taskVars, open, workerVars, operatorVars>>

(* decide() past expires_at: EXPIRED is saved, InvalidState is raised and  *)
(* no APPROVAL_RECEIVED is published.                                      *)
DecideTooLate(a) ==
  /\ "late_decision" \in Faults
  /\ approvals[a].status = "PENDING"
  /\ approvals' = [approvals EXCEPT ![a].status = "EXPIRED"]
  /\ UNCHANGED <<missionVars, taskVars, open, queue, workerVars, operatorVars>>

ExpireStale(a) ==
  /\ "sweep" \in Faults
  /\ approvals[a].status = "PENDING"
  /\ approvals' = [approvals EXCEPT ![a].status = "EXPIRED"]
  /\ Announce(a)
  /\ UNCHANGED <<missionVars, taskVars, open, workerVars, operatorVars>>

(* interrupt() with nothing RUNNING only writes to the timeline. *)
Interrupt ==
  /\ interrupts < MaxInterrupts
  /\ status \notin TerminalMission
  /\ active # 0 /\ taskStatus[active] = "RUNNING"
  /\ taskStatus' = [taskStatus EXCEPT ![active] = "PENDING"]
  /\ interrupts' = interrupts + 1
  /\ UNCHANGED <<missionVars, attempt, stray, approvalVars, queue, workerVars,
                 twinUp, resumes, suspensions>>

(* Mutant: the mission is set to EXECUTING without an event to drive it. *)
ContinueSilently(q) == q

(* MISSION_RESUMED: what makes the worker advance the mission again. *)
Continue(q) == Append(q, Signal("MISSION_RESUMED"))

StillWaiting(p) == p # 0 /\ approvals[p].status = "PENDING"

Resume(c) ==
  /\ resumes < MaxResumes
  /\ status \notin TerminalMission
  /\ c = checkpoints.last \/ "any_checkpoint" \in Faults
  /\ offer' = c.offer /\ pending' = c.pending
  /\ IF StillWaiting(c.pending)
       THEN UNCHANGED <<status, taskStatus>>
       ELSE /\ status' = Moved(status, "EXECUTING")
            /\ taskStatus' = [t \in Tasks |-> IF taskStatus[t] = "RUNNING"
                                              THEN "PENDING" ELSE taskStatus[t]]
  /\ queue' = Continue(queue)
  /\ resumes' = resumes + 1
  /\ UNCHANGED <<active, checkpoints, attempt, stray, approvalVars, workerVars,
                 twinUp, interrupts, suspensions>>

SuspendTwin ==
  /\ twinUp /\ suspensions < MaxSuspensions
  /\ twinUp' = FALSE /\ suspensions' = suspensions + 1
  /\ UNCHANGED <<missionVars, taskVars, approvalVars, queue, workerVars,
                 interrupts, resumes>>

ReinstateTwin ==
  /\ ~twinUp /\ twinUp' = TRUE
  /\ UNCHANGED <<missionVars, taskVars, approvalVars, queue, workerVars,
                 interrupts, resumes, suspensions>>

(***************************************************************************)
(* The worker takes an event: process_event                                *)
(***************************************************************************)

HandleProgress ==
  /\ pc = "idle" /\ queue # <<>>
  /\ Head(queue).type # "APPROVAL_RECEIVED"
  /\ queue' = Tail(queue)
  /\ UNCHANGED <<offer, pending, attempt, stray, approvalVars, operatorVars>>
  /\ Advance(status, taskStatus, checkpoints)

OnApproval(a) ==
  /\ pc = "idle" /\ queue # <<>> /\ Head(queue) = Decided(a)
  /\ pending' = 0
  /\ UNCHANGED <<approvals, operatorVars>>

(* Mutant: a decided recovery stays IN_PROGRESS. *)
LeaveRecovery(a) == UNCHANGED open

CloseRecovery(a) == open' = open \ {a}

(* Rejected or expired: the waiting recovery is closed, then safe hold. *)
HandleRefusal(a) ==
  /\ OnApproval(a) /\ approvals[a].status \in {"REJECTED", "EXPIRED"}
  /\ queue' = Tail(queue)
  /\ CloseRecovery(a)
  /\ Fail(status, checkpoints)
  /\ UNCHANGED <<offer, attempt, stray>>

(* apply_after_approval: an approved escalation is resolved, not replayed.  *)
GrantedDirective(plan) ==
  IF plan.strategy = "ESCALATE" THEN "RETRY_TASK" ELSE Directive(plan)

(* Case 1 of on_approval.  A status that cannot become RECOVERING raises    *)
(* after the checkpoint is taken.                                           *)
HandleRecoveryGrant(a) ==
  LET plan == approvals[a].plan
      log  == Saved(checkpoints, offer, 0)
  IN  /\ OnApproval(a) /\ approvals[a].status = "APPROVED"
      /\ approvals[a].action = "recovery.apply"
      /\ queue' = Tail(queue)
      /\ IF CanTransition(status, "RECOVERING")
           THEN /\ CloseRecovery(a)
                /\ ApplyPlan(plan, approvals[a].task)
                /\ ApplyDirective(GrantedDirective(plan), "RECOVERING",
                                  approvals[a].task, log)
           ELSE /\ checkpoints' = log
                /\ UNCHANGED <<status, offer, active, taskVars, open, workerVars>>

(* Case 2 of on_approval: the task goes back to PENDING before the status  *)
(* is checked.                                                             *)
HandlePurchaseGrant(a) ==
  /\ OnApproval(a) /\ approvals[a].status = "APPROVED"
  /\ approvals[a].action = "purchase.execute"
  /\ taskStatus' = [taskStatus EXCEPT ![approvals[a].task] = "PENDING"]
  /\ status' = Moved(status, "EXECUTING")
  /\ checkpoints' = Saved(checkpoints, offer, 0)
  /\ queue' = IF CanTransition(status, "EXECUTING")
                THEN Continue(Tail(queue)) ELSE Tail(queue)
  /\ UNCHANGED <<offer, active, attempt, stray, open, workerVars>>

(***************************************************************************)
(* The agent the worker awaits                                             *)
(***************************************************************************)

ForOffer(o) == {a \in 1 .. Len(approvals) : /\ approvals[a].action = "purchase.execute"
                                            /\ approvals[a].offer = o}

(* Mutant: the gateway lets every purchase through. *)
AlwaysAuthorised(o) == TRUE

Authorised(o) == o \notin Governed \/ \E a \in ForOffer(o) : approvals[a].status = "APPROVED"

(* The gateway answers APPROVAL_REQUIRED: a new approval, or the one that  *)
(* already covers this action and is still undecided (or has expired).     *)
AgentAsks ==
  /\ pc = "agent" /\ job.task \in Buyers /\ job.offer \in Governed
  /\ \A a \in ForOffer(job.offer) : approvals[a].status \in {"PENDING", "EXPIRED"}
  /\ \/ /\ ForOffer(job.offer) = {}
        /\ approvals' = Append(approvals,
             [status |-> "PENDING", action |-> "purchase.execute", task |-> job.task,
              offer |-> job.offer, plan |-> NoPlan])
        /\ job' = [job EXCEPT !.asked = Len(approvals')]
     \/ /\ \E a \in ForOffer(job.offer) : job' = [job EXCEPT !.asked = a]
        /\ UNCHANGED approvals
  /\ UNCHANGED <<missionVars, taskVars, open, queue, pc, operatorVars>>

FreeReport == "free_report" \in Faults

(* Mutant: a task that waits for a human is not saved. *)
TaskEndsUnlessWaiting(result) ==
  taskStatus' = IF result = "WAITING" THEN taskStatus
                ELSE [taskStatus EXCEPT ![job.task] = result]

TaskEnds(result) == taskStatus' = [taskStatus EXCEPT ![job.task] = result]

(* _absorb_result *)
Absorb == offer' \in IF job.task \in Planners THEN Offers ELSE {offer}

AgentSucceeds ==
  /\ pc = "agent"
  /\ FreeReport \/ (job.asked = 0 /\ (job.task \in Buyers => Authorised(job.offer)))
  /\ Absorb
  /\ TaskEnds("COMPLETED")
  /\ active' = 0
  /\ status' = IF status \in {"RECOVERING", "AT_RISK"} THEN "EXECUTING" ELSE status
  /\ checkpoints' = Saved(checkpoints, offer', pending)
  /\ queue' = Append(queue, Signal("TASK_COMPLETED"))
  /\ Rest
  /\ UNCHANGED <<pending, attempt, stray, approvalVars, operatorVars>>

(* A transition that is refused raises before the checkpoint.              *)
AgentNeedsApproval ==
  /\ pc = "agent"
  /\ pending' \in {job.asked} \cup (IF FreeReport THEN {0} ELSE {})
  /\ pending' # 0 \/ FreeReport
  /\ Absorb
  /\ TaskEnds("WAITING")
  /\ status' = Moved(status, "WAITING_APPROVAL")
  /\ checkpoints' = IF CanTransition(status, "WAITING_APPROVAL")
                      THEN Saved(checkpoints, offer', pending') ELSE checkpoints
  /\ Rest
  /\ UNCHANGED <<active, attempt, stray, approvalVars, queue, operatorVars>>

(* _on_task_failure up to the await of the Failure Twin.  A twin that may  *)
(* not execute makes recover() raise with the mission in RECOVERING.       *)
AgentFails ==
  /\ pc = "agent"
  /\ FreeReport \/ job.asked = 0
  /\ TaskEnds("FAILED")
  /\ IF CanTransition(status, "AT_RISK")
       THEN /\ status' = "RECOVERING"
            /\ checkpoints' = Saved(checkpoints, offer, pending)
       ELSE UNCHANGED <<status, checkpoints>>
  /\ IF CanTransition(status, "AT_RISK") /\ twinUp
       THEN pc' = "twin" /\ job' = [job EXCEPT !.asked = 0]
       ELSE Rest
  /\ UNCHANGED <<offer, pending, active, attempt, stray, approvalVars, queue,
                 operatorVars>>

(***************************************************************************)
(* The Failure Twin answers, and the gateway governs its plan              *)
(***************************************************************************)

(* The gateway refuses a twin that was suspended while it was planning:    *)
(* recover() raises, and the attempt it has saved stays IN_PROGRESS.       *)
PlanRefused ==
  /\ pc = "twin" /\ ~twinUp
  /\ open' = open \cup {0}
  /\ Rest
  /\ UNCHANGED <<missionVars, taskVars, approvals, queue, operatorVars>>

(* recovery.apply at HIGH risk: a new approval every time, because its key *)
(* names the recovery.  An abort never needs one.                          *)
PlanNeedsApproval(plan) ==
  /\ pc = "twin" /\ twinUp
  /\ plan.strategy # "ABORT"
  /\ approvals' = Append(approvals,
       [status |-> "PENDING", action |-> "recovery.apply", task |-> job.task,
        offer |-> NoOffer, plan |-> plan])
  /\ open' = open \cup {Len(approvals')}
  /\ pending' = Len(approvals')
  /\ status' = Moved(status, "WAITING_APPROVAL")
  /\ checkpoints' = IF CanTransition(status, "WAITING_APPROVAL")
                      THEN Saved(checkpoints, offer, pending') ELSE checkpoints
  /\ Rest
  /\ UNCHANGED <<offer, active, taskVars, queue, operatorVars>>

PlanAllowed(plan) ==
  /\ pc = "twin" /\ twinUp
  /\ ApplyPlan(plan, job.task)
  /\ UNCHANGED <<pending, approvalVars, queue, operatorVars>>
  /\ ApplyDirective(Directive(plan), status, job.task, checkpoints)

(***************************************************************************)
(* Specification                                                           *)
(***************************************************************************)

Created == [offer |-> FirstOffer, pending |-> 0]

Init ==
  /\ status = "CREATED" /\ offer = FirstOffer /\ pending = 0 /\ active = 0
  /\ taskStatus = [t \in Tasks |-> "PENDING"]
  /\ attempt = [t \in Tasks |-> 1]
  /\ stray = {}
  /\ approvals = <<>> /\ open = {}
  /\ checkpoints = [all |-> {Created}, last |-> Created]
  /\ queue = <<>>
  /\ pc = "idle" /\ job = NoJob
  /\ twinUp = TRUE
  /\ interrupts = 0 /\ resumes = 0 /\ suspensions = 0

Handle ==
  \/ HandleProgress
  \/ \E a \in 1 .. Len(approvals) :
       HandleRefusal(a) \/ HandleRecoveryGrant(a) \/ HandlePurchaseGrant(a)

AgentEnds == AgentSucceeds \/ AgentNeedsApproval \/ AgentFails

TwinEnds ==
  \/ PlanRefused
  \/ \E plan \in Plans : PlanNeedsApproval(plan) \/ PlanAllowed(plan)

Operator ==
  \/ Start
  \/ \E a \in 1 .. Len(approvals) :
       \/ \E verdict \in {"APPROVED", "REJECTED"} : Decide(a, verdict)
       \/ DecideTooLate(a)
       \/ ExpireStale(a)
  \/ Interrupt
  \/ \E c \in checkpoints.all : Resume(c)
  \/ SuspendTwin
  \/ ReinstateTwin

Next == Handle \/ AgentAsks \/ AgentEnds \/ TwinEnds \/ Operator

(* The worker keeps taking events; agent and twin calls are bounded by the *)
(* HTTP and model timeouts.  Nothing is assumed of the operator.           *)
Fairness == WF_vars(Handle) /\ WF_vars(AgentEnds) /\ WF_vars(TwinEnds)

Spec == Init /\ [][Next]_vars

FairSpec == Spec /\ Fairness

(***************************************************************************)
(* Properties                                                              *)
(***************************************************************************)

Queued(e) == \E i \in 1 .. Len(queue) : queue[i] = e

Awaits(a) == approvals[a].status = "PENDING" \/ Queued(Decided(a))

Quiet == pc = "idle" /\ queue = <<>>

Requested == 0 .. Len(approvals)

(* A log of checkpoints that refer to requested approvals only.            *)
Traceable(log, requested) ==
  /\ log.last \in log.all
  /\ \A c \in log.all : c \in Checkpoint /\ c.pending \in requested

(* The worker holds a job exactly while it awaits an agent.                *)
WorkerOK(at, held) ==
  \/ at = "idle" /\ held = NoJob
  \/ at \in {"agent", "twin"} /\ held \in Job

(* The types of the store's documents and of the worker's locals: every    *)
(* reference to an approval is to one that was requested, and no task gets *)
(* more attempts than its budget.                                          *)
TypeOK ==
  /\ status \in MissionStatus /\ offer \in Offers
  /\ pending \in Requested /\ active \in Tasks \cup {0}
  /\ taskStatus \in [Tasks -> TaskStatus] /\ attempt \in [Tasks -> 1 .. MaxAttempts]
  /\ stray \subseteq Tasks
  /\ approvals \in Seq(Approval) /\ open \subseteq Requested
  /\ Traceable(checkpoints, Requested)
  /\ queue \in Seq(Event)
  /\ WorkerOK(pc, job) /\ job.asked \in Requested
  /\ twinUp \in BOOLEAN
  /\ interrupts \in 0 .. MaxInterrupts /\ resumes \in 0 .. MaxResumes
  /\ suspensions \in 0 .. MaxSuspensions

(* A mission in WAITING_APPROVAL waits for an approval that exists and     *)
(* that either is undecided or whose decision is on its way to the engine. *)
WaitingIsBacked ==
  status = "WAITING_APPROVAL" => pending # 0 /\ Awaits(pending)

(* When the worker has nothing left to do, the mission is finished or a    *)
(* human has something to decide: "reject any non-terminal state with no   *)
(* pending approval" (docs/ARCHITECTURE.md, ADR-018).                      *)
NeverFrozen ==
  Quiet => status \in TerminalMission \cup {"CREATED"} \/ PendingApprovals # {}

(* A recovery still in progress has a decision to wait for, none is left   *)
(* IN_PROGRESS by a decision the engine took and dropped, and none outlives *)
(* a finished mission.                                                     *)
RecoveriesAccounted ==
  /\ \A a \in open : a # 0 /\ Awaits(a)
  /\ Quiet /\ status \in TerminalMission => open = {}

(* A task is started, and done, only after those it depends on.            *)
DependencyOrder ==
  \A t \in Tasks : taskStatus[t] # "PENDING" =>
                     \A d \in DependsOn(t) : taskStatus[d] = "COMPLETED"

(* A task is RUNNING only while the worker awaits the agent it claimed it  *)
(* for: no claim outlives its execution.                                   *)
RunningIsHeld == \A t \in Tasks : taskStatus[t] = "RUNNING" => pc = "agent" /\ job.task = t

(* Once the engine has handled a human refusal, the mission is in safe     *)
(* hold: nothing more is executed, and it never ends any other way.        *)
SafeHold ==
  Quiet /\ (\E a \in 1 .. Len(approvals) : approvals[a].status = "REJECTED")
    => status = "FAILED"

(* No completed task is ever executed again.                               *)
CompletedStaysCompleted ==
  [][(\A t \in Tasks : taskStatus[t] = "COMPLETED" => taskStatus'[t] = "COMPLETED")]_vars

(* COMPLETED, FAILED and ABORTED are final.                                *)
TerminalIsFinal == [][(status \in TerminalMission => status' = status)]_vars

(* Once started, a mission ends or asks a human, whatever its agents and   *)
(* the Failure Twin answer.                                                *)
EndsOrAsks == (status # "CREATED") ~> (status \in TerminalMission \/ PendingApprovals # {})

Lifecycle == INSTANCE MissionLifecycle WITH
  phase   <- IF status \in TerminalMission \cup {"CREATED"} THEN status ELSE "RUNNING",
  done    <- {t \in Tasks : taskStatus[t] = "COMPLETED"},
  granted <- {o \in Governed : \E a \in ForOffer(o) : approvals[a].status = "APPROVED"},
  asking  <- PendingApprovals # {}

(* The engine implements the promised lifecycle of a mission.              *)
KeepsPromises == Lifecycle!Spec

=============================================================================
