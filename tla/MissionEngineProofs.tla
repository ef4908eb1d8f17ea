------------------------ MODULE MissionEngineProofs ------------------------
(***************************************************************************)
(* Theorems about MissionEngine, for every chain of tasks, every set of    *)
(* offers, every bound and (where a theorem does not say otherwise) every  *)
(* fault of the environment.                                               *)
(***************************************************************************)
EXTENDS MissionEngine, SequenceTheorems, WellFoundedInduction, TLAPS

(***************************************************************************)
(* Type correctness                                                        *)
(***************************************************************************)

(* What advance and the directives leave in the variables they write.      *)
WorkOK ==
  /\ status' \in MissionStatus
  /\ taskStatus' \in [Tasks -> TaskStatus]
  /\ active' \in Tasks \cup {0}
  /\ Traceable(checkpoints', Requested)
  /\ WorkerOK(pc', job') /\ job'.asked \in Requested

LEMMA MovedType ==
  ASSUME NEW st \in MissionStatus, NEW target \in MissionStatus
  PROVE  Moved(st, target) \in MissionStatus
BY DEF Moved

LEMMA RequestedType == approvals \in Seq(Approval) => Requested \subseteq Nat /\ 0 \in Requested
BY LenProperties DEF Requested

LEMMA SavedType ==
  ASSUME NEW log, NEW o \in Offers, NEW requested \in SUBSET Nat, NEW p \in requested,
         Traceable(log, requested)
  PROVE  Traceable(Saved(log, o, p), requested)
<1> DEFINE c == [offer |-> o, pending |-> p]
<1>1. c \in Checkpoint /\ c.pending \in requested
  BY DEF Checkpoint
<1>2. Saved(log, o, p) = [all |-> log.all \cup {c}, last |-> c]
  BY DEF Saved
<1> HIDE DEF c
<1>3. Saved(log, o, p).all = log.all \cup {c} /\ Saved(log, o, p).last = c
  BY <1>2
<1>4. QED
  BY <1>1, <1>3 DEF Traceable

LEMMA RestType == approvals \in Seq(Approval) /\ Rest => WorkerOK(pc', job') /\ job'.asked \in Requested
BY RequestedType DEF Rest, WorkerOK, NoJob

LEMMA AdvanceType ==
  ASSUME TypeOK, offer' \in Offers, pending' \in Requested,
         NEW st \in MissionStatus, NEW ts \in [Tasks -> TaskStatus], NEW log,
         Traceable(log, Requested), Advance(st, ts, log)
  PROVE  WorkOK
<1> approvals \in Seq(Approval) /\ active \in Tasks \cup {0}
  BY DEF TypeOK
<1>1. CASE NothingToRun(st, ts, log)
  BY <1>1, RestType DEF NothingToRun, WorkOK
<1>2. CASE Complete(st, ts, log)
  <2>1. Traceable(checkpoints', Requested)
    BY <1>2, SavedType, RequestedType DEF Complete
  <2>2. status' \in MissionStatus
    BY <1>2, MovedType DEF Complete, MissionStatus
  <2>3. QED
    BY <1>2, <2>1, <2>2, RestType DEF Complete, WorkOK
<1>3. CASE RunTask(st, ts, log)
  <2>1. PICK t \in Runnable(ts) :
          /\ status' = st /\ checkpoints' = log
          /\ taskStatus' = [ts EXCEPT ![t] = "RUNNING"]
          /\ IF t \in stray'
               THEN Rest /\ UNCHANGED active
               ELSE /\ pc' = "agent"
                    /\ job' = [task |-> t, offer |-> offer', asked |-> 0]
                    /\ active' = t
    BY <1>3 DEF RunTask
  <2>2. t \in Tasks
    BY DEF Runnable
  <2>3. taskStatus' \in [Tasks -> TaskStatus]
    BY <2>1, <2>2 DEF TaskStatus
  <2>4. CASE t \in stray'
    BY <2>1, <2>3, <2>4, RestType DEF WorkOK
  <2>5. CASE t \notin stray'
    <3>1. job' \in Job /\ job'.asked = 0 /\ active' \in Tasks
      BY <2>1, <2>2, <2>5 DEF Job
    <3>2. QED
      BY <2>1, <2>3, <2>5, <3>1, RequestedType DEF WorkOK, WorkerOK
  <2>6. QED
    BY <2>4, <2>5
<1>4. QED
  BY <1>1, <1>2, <1>3 DEF Advance

LEMMA DirectiveType ==
  ASSUME TypeOK, offer' \in Offers, pending' \in Requested,
         NEW directive, NEW st \in MissionStatus, NEW t \in Tasks, NEW log,
         Traceable(log, Requested), ApplyDirective(directive, st, t, log)
  PROVE  WorkOK /\ attempt' \in [Tasks -> 1 .. MaxAttempts]
<1> approvals \in Seq(Approval) /\ taskStatus \in [Tasks -> TaskStatus]
  BY DEF TypeOK
<1>a. attempt \in [Tasks -> 1 .. MaxAttempts] /\ active \in Tasks \cup {0}
  BY DEF TypeOK
<1>1. CASE RetryTask(st, t, log)
  <2>1. attempt' \in [Tasks -> 1 .. MaxAttempts]
    BY <1>1, <1>a, EngineAssumption DEF RetryTask, OutOfAttempts, NextAttempt
  <2>2. Moved(st, "EXECUTING") \in MissionStatus
    BY MovedType DEF MissionStatus
  <2>3. Traceable(Saved(log, offer', pending'), Requested)
    BY SavedType, RequestedType
  <2>4. [taskStatus EXCEPT ![t] = "PENDING"] \in [Tasks -> TaskStatus]
    BY DEF TaskStatus
  <2>5. QED
    BY <1>1, <2>1, <2>2, <2>3, <2>4, AdvanceType DEF RetryTask
<1>2. CASE Fail(st, log) /\ UNCHANGED attempt
  <2>1. Moved(st, "FAILED") \in MissionStatus
    BY MovedType DEF MissionStatus
  <2>2. QED
    BY <1>2, <1>a, <2>1, RestType DEF Fail, WorkOK
<1>3. CASE /\ status' = Moved(st, "AT_RISK") /\ checkpoints' = log
           /\ UNCHANGED <<attempt, taskStatus, active>> /\ Rest
  <2>1. Moved(st, "AT_RISK") \in MissionStatus
    BY MovedType DEF MissionStatus
  <2>2. QED
    BY <1>3, <1>a, <2>1, RestType DEF WorkOK
<1>4. QED
  BY <1>1, <1>2, <1>3 DEF ApplyDirective

(* Appending an approval leaves every reference to an earlier one valid.   *)
LEMMA ApprovalAdded ==
  ASSUME TypeOK, NEW x \in Approval, approvals' = Append(approvals, x)
  PROVE  /\ approvals' \in Seq(Approval) /\ Len(approvals') \in Requested'
         /\ Requested \subseteq Requested'
BY AppendProperties, LenProperties DEF TypeOK, Requested

LEMMA ApprovalDecided ==
  ASSUME TypeOK, NEW a \in 1 .. Len(approvals), NEW verdict \in ApprovalStatus,
         approvals' = [approvals EXCEPT ![a].status = verdict]
  PROVE  approvals' \in Seq(Approval) /\ Requested' = Requested
<1>1. approvals[a] \in Approval
  BY ElementOfSeq DEF TypeOK
<1>2. [approvals[a] EXCEPT !.status = verdict] \in Approval
  BY <1>1 DEF Approval
<1>3. approvals' = [approvals EXCEPT ![a] = [approvals[a] EXCEPT !.status = verdict]]
  OBVIOUS
<1>4. QED
  BY <1>2, <1>3, ExceptSeq DEF TypeOK, Requested

LEMMA QueueType ==
  ASSUME TypeOK
  PROVE  /\ queue # <<>> => Tail(queue) \in Seq(Event)
         /\ \A e \in Event : Append(queue, e) \in Seq(Event)
         /\ queue # <<>> => \A e \in Event : Append(Tail(queue), e) \in Seq(Event)
BY HeadTailProperties, AppendProperties DEF TypeOK

LEMMA EventType ==
  ASSUME NEW a \in Nat
  PROVE  /\ Signal("MISSION_STARTED") \in Event /\ Signal("TASK_COMPLETED") \in Event
         /\ Signal("MISSION_RESUMED") \in Event /\ Decided(a) \in Event
BY DEF Signal, Decided, Event

(* The variables that no action but the operator's requests change.        *)
LEMMA OperatorType ==
  TypeOK /\ UNCHANGED operatorVars =>
    /\ twinUp' \in BOOLEAN
    /\ interrupts' \in 0 .. MaxInterrupts /\ resumes' \in 0 .. MaxResumes
    /\ suspensions' \in 0 .. MaxSuspensions
BY DEF TypeOK, operatorVars

LEMMA InitType == Init => TypeOK
<1> SUFFICES ASSUME Init PROVE TypeOK
  OBVIOUS
<1>1. approvals \in Seq(Approval) /\ queue \in Seq(Event) /\ Requested = {0}
  BY EmptySeq DEF Init, Requested
<1>2. Traceable(checkpoints, Requested)
  BY <1>1, EngineAssumption DEF Init, Traceable, Created, Checkpoint
<1>3. QED
  BY <1>1, <1>2, EngineAssumption
     DEF Init, TypeOK, WorkerOK, NoJob, MissionStatus, TaskStatus

LEMMA OperatorStepType == TypeOK /\ Operator => TypeOK'
<1> SUFFICES ASSUME TypeOK, Operator PROVE TypeOK'
  OBVIOUS
<1> USE EventType, QueueType
<1>1. CASE Start
  BY <1>1 DEF Start, TypeOK, Requested, MissionStatus, approvalVars, workerVars,
              taskVars, operatorVars
<1>2. ASSUME NEW a \in 1 .. Len(approvals), NEW verdict \in {"APPROVED", "REJECTED"},
             Decide(a, verdict)
      PROVE  TypeOK'
  <2>1. verdict \in ApprovalStatus /\ a \in Nat
    BY LenProperties DEF TypeOK, ApprovalStatus
  <2>2. approvals' \in Seq(Approval) /\ Requested' = Requested
    BY <1>2, <2>1, ApprovalDecided DEF Decide
  <2>3. queue' \in Seq(Event)
    BY <1>2, <2>1 DEF Decide, Announce
  <2>4. QED
    BY <1>2, <2>2, <2>3 DEF Decide, TypeOK, missionVars, taskVars, workerVars, operatorVars
<1>3. ASSUME NEW a \in 1 .. Len(approvals), DecideTooLate(a) PROVE TypeOK'
  <2>1. approvals' \in Seq(Approval) /\ Requested' = Requested
    BY <1>3, ApprovalDecided DEF DecideTooLate, ApprovalStatus
  <2>2. QED
    BY <1>3, <2>1 DEF DecideTooLate, TypeOK, missionVars, taskVars, workerVars, operatorVars
<1>4. ASSUME NEW a \in 1 .. Len(approvals), ExpireStale(a) PROVE TypeOK'
  <2>1. approvals' \in Seq(Approval) /\ Requested' = Requested
    BY <1>4, ApprovalDecided DEF ExpireStale, ApprovalStatus
  <2>2. queue' \in Seq(Event)
    BY <1>4, LenProperties DEF ExpireStale, Announce, TypeOK
  <2>3. QED
    BY <1>4, <2>1, <2>2 DEF ExpireStale, TypeOK, missionVars, taskVars, workerVars, operatorVars
<1>5. CASE Interrupt
  <2>1. taskStatus' \in [Tasks -> TaskStatus]
    BY <1>5 DEF Interrupt, TypeOK, TaskStatus
  <2>2. interrupts' \in 0 .. MaxInterrupts
    BY <1>5, EngineAssumption DEF Interrupt, TypeOK
  <2>3. QED
    BY <1>5, <2>1, <2>2 DEF Interrupt, TypeOK, Requested, missionVars, approvalVars, workerVars
<1>6. ASSUME NEW c \in checkpoints.all, Resume(c) PROVE TypeOK'
  <2>1. offer' \in Offers /\ pending' \in Requested
    BY <1>6 DEF Resume, TypeOK, Traceable, Checkpoint
  <2>2. status' \in MissionStatus /\ taskStatus' \in [Tasks -> TaskStatus]
    BY <1>6, MovedType DEF Resume, TypeOK, MissionStatus, TaskStatus
  <2>3. resumes' \in 0 .. MaxResumes
    BY <1>6, EngineAssumption DEF Resume, TypeOK
  <2>4. queue' \in Seq(Event)
    BY <1>6 DEF Resume, Continue
  <2>5. QED
    BY <1>6, <2>1, <2>2, <2>3, <2>4 DEF Resume, TypeOK, Requested, approvalVars, workerVars
<1>7. CASE SuspendTwin
  <2>1. suspensions' \in 0 .. MaxSuspensions
    BY <1>7, EngineAssumption DEF SuspendTwin, TypeOK
  <2>2. QED
    BY <1>7, <2>1 DEF SuspendTwin, TypeOK, Requested, missionVars, taskVars, approvalVars, workerVars
<1>8. CASE ReinstateTwin
  BY <1>8 DEF ReinstateTwin, TypeOK, Requested, missionVars, taskVars, approvalVars, workerVars
<1>9. QED
  BY <1>1, <1>2, <1>3, <1>4, <1>5, <1>6, <1>7, <1>8 DEF Operator

LEMMA PlanType ==
  ASSUME TypeOK, NEW plan \in Plan \cup {NoPlan}, NEW t, ApplyPlan(plan, t), t \in Tasks
  PROVE  offer' \in Offers /\ stray' \subseteq Tasks
BY DEF ApplyPlan, TypeOK, Plan, NoPlan

LEMMA HandleStepType == TypeOK /\ Handle => TypeOK'
<1> SUFFICES ASSUME TypeOK, Handle PROVE TypeOK'
  OBVIOUS
<1> USE EventType, QueueType
<1>a. 0 \in Requested
  BY RequestedType DEF TypeOK
<1>1. CASE HandleProgress
  <2>1. WorkOK
    BY <1>1, AdvanceType DEF HandleProgress, TypeOK
  <2>2. QED
    BY <1>1, <2>1, OperatorType DEF HandleProgress, TypeOK, WorkOK, Requested, approvalVars
<1>2. ASSUME NEW a \in 1 .. Len(approvals), OnApproval(a)
      PROVE  /\ approvals' = approvals /\ approvals' \in Seq(Approval) /\ Requested' = Requested
             /\ pending' = 0 /\ pending' \in Requested /\ queue # <<>>
             /\ approvals[a] \in Approval
             /\ UNCHANGED operatorVars
  BY <1>2, <1>a, ElementOfSeq DEF OnApproval, TypeOK, Requested
<1>3. ASSUME NEW a \in 1 .. Len(approvals), HandleRefusal(a) PROVE TypeOK'
  <2>1. OnApproval(a)
    BY <1>3 DEF HandleRefusal
  <2>2. Moved(status, "FAILED") \in MissionStatus
    BY MovedType DEF TypeOK, MissionStatus
  <2>3. WorkerOK(pc', job') /\ job'.asked \in Requested
    BY <1>3, RestType DEF HandleRefusal, Fail, TypeOK
  <2>4. QED
    BY <1>2, <1>3, <2>1, <2>2, <2>3, OperatorType
       DEF HandleRefusal, Fail, CloseRecovery, TypeOK
<1>4. ASSUME NEW a \in 1 .. Len(approvals), HandleRecoveryGrant(a) PROVE TypeOK'
  <2> DEFINE log == Saved(checkpoints, offer, 0)
  <2>1. OnApproval(a)
    BY <1>4 DEF HandleRecoveryGrant
  <2>2. Traceable(log, Requested)
    BY <1>a, SavedType, RequestedType DEF TypeOK
  <2>3. queue' \in Seq(Event)
    BY <1>2, <1>4, <2>1 DEF HandleRecoveryGrant
  <2>4. approvals[a].plan \in Plan \cup {NoPlan} /\ approvals[a].task \in Tasks
    BY <1>2, <2>1 DEF Approval
  <2>5. CASE CanTransition(status, "RECOVERING")
    <3>1. PICK directive : ApplyDirective(directive, "RECOVERING", approvals[a].task, log)
      BY <1>4, <2>5 DEF HandleRecoveryGrant
    <3>2. offer' \in Offers /\ stray' \subseteq Tasks
      BY <1>4, <2>4, <2>5, PlanType DEF HandleRecoveryGrant
    <3>3. "RECOVERING" \in MissionStatus
      BY DEF MissionStatus
    <3> HIDE DEF log
    <3>4. WorkOK /\ attempt' \in [Tasks -> 1 .. MaxAttempts]
      BY <1>2, <2>1, <2>2, <2>4, <3>1, <3>2, <3>3, DirectiveType
    <3>5. open' \subseteq Requested
      BY <1>4, <2>5 DEF HandleRecoveryGrant, CloseRecovery, TypeOK
    <3>6. QED
      BY <1>2, <2>1, <2>3, <3>2, <3>4, <3>5, OperatorType DEF WorkOK, TypeOK
  <2>6. CASE ~CanTransition(status, "RECOVERING")
    <3>1. checkpoints' = log /\ UNCHANGED <<status, offer, active, taskVars, open, workerVars>>
      BY <1>4, <2>6 DEF HandleRecoveryGrant
    <3> HIDE DEF log
    <3>2. QED
      BY <1>2, <2>1, <2>2, <2>3, <3>1, OperatorType DEF TypeOK, taskVars, workerVars
  <2>7. QED
    BY <2>5, <2>6
<1>5. ASSUME NEW a \in 1 .. Len(approvals), HandlePurchaseGrant(a) PROVE TypeOK'
  <2>1. OnApproval(a)
    BY <1>5 DEF HandlePurchaseGrant
  <2>2. Traceable(checkpoints', Requested)
    BY <1>5, <1>a, SavedType, RequestedType DEF TypeOK, HandlePurchaseGrant
  <2>3. queue' \in Seq(Event)
    BY <1>2, <1>5, <2>1 DEF HandlePurchaseGrant, Continue
  <2>4. taskStatus' \in [Tasks -> TaskStatus]
    BY <1>5 DEF HandlePurchaseGrant, TypeOK, TaskStatus
  <2>5. status' \in MissionStatus
    BY <1>5, MovedType DEF HandlePurchaseGrant, TypeOK, MissionStatus
  <2>6. QED
    BY <1>2, <1>5, <2>1, <2>2, <2>3, <2>4, <2>5, OperatorType
       DEF HandlePurchaseGrant, TypeOK, workerVars
<1>6. QED
  BY <1>1, <1>3, <1>4, <1>5 DEF Handle

LEMMA AgentStepType == TypeOK /\ (AgentAsks \/ AgentEnds) => TypeOK'
<1> SUFFICES ASSUME TypeOK, AgentAsks \/ AgentEnds PROVE TypeOK'
  OBVIOUS
<1> USE EventType, QueueType
<1>a. pc = "agent" /\ job \in Job /\ job.asked \in Requested /\ job.task \in Tasks
  BY DEF AgentEnds, AgentAsks, AgentSucceeds, AgentNeedsApproval, AgentFails, TypeOK,
         WorkerOK, Job
<1>b. approvals \in Seq(Approval) /\ status \in MissionStatus /\ Requested \in SUBSET Nat
      /\ Traceable(checkpoints, Requested) /\ 0 \in Requested
  BY RequestedType DEF TypeOK
<1>1. CASE AgentAsks
  <2> DEFINE x == [status |-> "PENDING", action |-> "purchase.execute", task |-> job.task,
                   offer |-> job.offer, plan |-> NoPlan]
  <2>1. CASE approvals' = Append(approvals, x) /\ job' = [job EXCEPT !.asked = Len(approvals')]
    <3>1. x \in Approval
      BY <1>a DEF Approval, ApprovalStatus, Job
    <3> HIDE DEF x
    <3>2. approvals' \in Seq(Approval) /\ Len(approvals') \in Requested'
          /\ Requested \subseteq Requested'
      BY <2>1, <3>1, ApprovalAdded
    <3>3. Len(approvals') \in Nat
      BY <3>2, LenProperties
    <3>4. job' \in Job /\ job'.asked \in Requested'
      BY <1>a, <2>1, <3>2, <3>3 DEF Job
    <3>5. QED
      BY <1>1, <1>a, <3>2, <3>4, OperatorType
         DEF AgentAsks, TypeOK, WorkerOK, Traceable, missionVars, taskVars
  <2>2. CASE /\ UNCHANGED approvals
             /\ \E a \in ForOffer(job.offer) : job' = [job EXCEPT !.asked = a]
    <3>1. job' \in Job /\ job'.asked \in Requested
      BY <1>a, <1>b, <2>2 DEF Job, ForOffer, Requested
    <3>2. QED
      BY <1>1, <1>a, <2>2, <3>1, OperatorType
         DEF AgentAsks, TypeOK, WorkerOK, Requested, missionVars, taskVars
  <2>3. QED
    BY <1>1, <2>1, <2>2 DEF AgentAsks
<1>2. CASE AgentSucceeds
  <2>1. offer' \in Offers
    BY <1>2 DEF AgentSucceeds, Absorb, TypeOK
  <2>2. taskStatus' \in [Tasks -> TaskStatus]
    BY <1>2, <1>a DEF AgentSucceeds, TaskEnds, TypeOK, TaskStatus
  <2>3. Traceable(checkpoints', Requested)
    BY <1>2, <1>b, <2>1, SavedType DEF AgentSucceeds, TypeOK
  <2>4. WorkerOK(pc', job') /\ job'.asked \in Requested
    BY <1>2, <1>b, RestType DEF AgentSucceeds
  <2>5. status' \in MissionStatus
    BY <1>2 DEF AgentSucceeds, TypeOK, MissionStatus
  <2>6. QED
    BY <1>2, <2>1, <2>2, <2>3, <2>4, <2>5, OperatorType
       DEF AgentSucceeds, TypeOK, Requested, approvalVars
<1>3. CASE AgentNeedsApproval
  <2>1. offer' \in Offers /\ pending' \in Requested
    BY <1>3, <1>a, <1>b DEF AgentNeedsApproval, Absorb, TypeOK
  <2>2. taskStatus' \in [Tasks -> TaskStatus]
    BY <1>3, <1>a DEF AgentNeedsApproval, TaskEnds, TypeOK, TaskStatus
  <2>3. Traceable(checkpoints', Requested)
    BY <1>3, <1>b, <2>1, SavedType DEF AgentNeedsApproval
  <2>4. WorkerOK(pc', job') /\ job'.asked \in Requested
    BY <1>3, <1>b, RestType DEF AgentNeedsApproval
  <2>5. status' \in MissionStatus
    BY <1>3, MovedType DEF AgentNeedsApproval, TypeOK, MissionStatus
  <2>6. QED
    BY <1>3, <2>1, <2>2, <2>3, <2>4, <2>5, OperatorType
       DEF AgentNeedsApproval, TypeOK, Requested, approvalVars
<1>4. CASE AgentFails
  <2>1. taskStatus' \in [Tasks -> TaskStatus]
    BY <1>4, <1>a DEF AgentFails, TaskEnds, TypeOK, TaskStatus
  <2>2. Traceable(checkpoints', Requested) /\ status' \in MissionStatus
    BY <1>4, <1>b, SavedType DEF AgentFails, TypeOK, MissionStatus
  <2>3. WorkerOK(pc', job') /\ job'.asked \in Requested
    <3>1. CASE Rest
      BY <1>b, <3>1, RestType
    <3>2. CASE pc' = "twin" /\ job' = [job EXCEPT !.asked = 0]
      BY <1>a, <1>b, <3>2 DEF Job, WorkerOK
    <3>3. QED
      BY <1>4, <3>1, <3>2 DEF AgentFails
  <2>4. QED
    BY <1>4, <2>1, <2>2, <2>3, OperatorType DEF AgentFails, TypeOK, Requested, approvalVars
<1>5. QED
  BY <1>1, <1>2, <1>3, <1>4 DEF AgentEnds

LEMMA TwinStepType == TypeOK /\ TwinEnds => TypeOK'
<1> SUFFICES ASSUME TypeOK, TwinEnds PROVE TypeOK'
  OBVIOUS
<1>a. pc = "twin" /\ job \in Job /\ job.task \in Tasks
  BY DEF TwinEnds, PlanRefused, PlanNeedsApproval, PlanAllowed, TypeOK, WorkerOK, Job
<1>b. approvals \in Seq(Approval) /\ status \in MissionStatus
      /\ Traceable(checkpoints, Requested) /\ pending \in Requested
  BY DEF TypeOK
<1>1. CASE PlanRefused
  BY <1>1, <1>b, RestType, OperatorType
     DEF PlanRefused, TypeOK, Requested, missionVars, taskVars, approvalVars
<1>2. ASSUME NEW plan \in Plans, PlanNeedsApproval(plan) PROVE TypeOK'
  <2> DEFINE x == [status |-> "PENDING", action |-> "recovery.apply", task |-> job.task,
                   offer |-> NoOffer, plan |-> plan]
  <2>1. x \in Approval
    BY <1>a DEF Approval, ApprovalStatus, Plans
  <2>2. approvals' = Append(approvals, x)
    BY <1>2 DEF PlanNeedsApproval
  <2> HIDE DEF x
  <2>3. approvals' \in Seq(Approval) /\ Len(approvals') \in Requested'
        /\ Requested \subseteq Requested'
    BY <2>1, <2>2, ApprovalAdded
  <2>4. pending' \in Requested' /\ open' \subseteq Requested'
    BY <1>2, <2>3 DEF PlanNeedsApproval, TypeOK
  <2>5. Requested' \in SUBSET Nat /\ Traceable(checkpoints, Requested')
    BY <1>b, <2>3, LenProperties DEF Traceable, Requested
  <2>6. Traceable(checkpoints', Requested')
    BY <1>2, <2>4, <2>5, SavedType DEF PlanNeedsApproval, TypeOK
  <2>7. status' \in MissionStatus
    BY <1>2, MovedType DEF PlanNeedsApproval, TypeOK, MissionStatus
  <2>8. WorkerOK(pc', job') /\ job'.asked \in Requested
    BY <1>2, <1>b, RestType DEF PlanNeedsApproval
  <2>9. QED
    BY <1>2, <2>3, <2>4, <2>6, <2>7, <2>8, OperatorType
       DEF PlanNeedsApproval, TypeOK, taskVars
<1>3. ASSUME NEW plan \in Plans, PlanAllowed(plan) PROVE TypeOK'
  <2>1. offer' \in Offers /\ stray' \subseteq Tasks
    BY <1>3, <1>a, PlanType DEF PlanAllowed, Plans
  <2>2. Requested' = Requested /\ pending' \in Requested
    BY <1>3, <1>b DEF PlanAllowed, approvalVars, Requested
  <2>3. WorkOK /\ attempt' \in [Tasks -> 1 .. MaxAttempts]
    BY <1>3, <1>a, <1>b, <2>1, <2>2, DirectiveType DEF PlanAllowed
  <2>4. QED
    BY <1>3, <2>1, <2>2, <2>3, OperatorType DEF PlanAllowed, TypeOK, WorkOK, approvalVars
<1>4. QED
  BY <1>1, <1>2, <1>3 DEF TwinEnds

LEMMA StutterType == TypeOK /\ UNCHANGED vars => TypeOK'
BY DEF TypeOK, vars, missionVars, taskVars, approvalVars, workerVars, operatorVars,
       Requested

(* Type correctness: every document the engine stores is well formed, the  *)
(* approval a mission, a checkpoint or a worker refers to was requested,   *)
(* and no task is attempted beyond its budget.                             *)
THEOREM TypeCorrect == Spec => []TypeOK
<1>1. TypeOK /\ [Next]_vars => TypeOK'
  BY OperatorStepType, HandleStepType, AgentStepType, TwinStepType, StutterType DEF Next
<1>2. QED
  BY InitType, <1>1, PTL DEF Spec

(***************************************************************************)
(* Terminal statuses                                                       *)
(***************************************************************************)

LEMMA TerminalStays ==
  ASSUME NEW st \in TerminalMission, NEW target
  PROVE  Moved(st, target) = st
BY DEF Moved, CanTransition

LEMMA TerminalAdvance ==
  ASSUME NEW st \in TerminalMission, NEW ts, NEW log, Advance(st, ts, log)
  PROVE  status' = st
BY DEF Advance, NothingToRun, Complete, RunTask, Advances

LEMMA TerminalDirective ==
  ASSUME NEW st \in TerminalMission, NEW directive, NEW t, NEW log,
         ApplyDirective(directive, st, t, log)
  PROVE  status' = st
BY TerminalStays, TerminalAdvance DEF ApplyDirective, RetryTask, Fail

(* COMPLETED, FAILED and ABORTED are final: no late decision, resume,      *)
(* agent result or recovery plan moves a mission that has ended.           *)
THEOREM TerminalFinal == Spec => TerminalIsFinal
<1>1. ASSUME status \in TerminalMission, Next PROVE status' = status
  <2>1. CASE Operator
    BY <1>1, <2>1 DEF Operator, Start, Decide, DecideTooLate, ExpireStale, Interrupt, Resume,
                      SuspendTwin, ReinstateTwin, missionVars, TerminalMission
  <2>2. CASE HandleProgress
    BY <1>1, <2>2, TerminalAdvance DEF HandleProgress
  <2>3. ASSUME NEW a, HandleRefusal(a) \/ HandleRecoveryGrant(a) \/ HandlePurchaseGrant(a)
        PROVE  status' = status
    BY <1>1, <2>3, TerminalStays
       DEF HandleRefusal, Fail, HandleRecoveryGrant, HandlePurchaseGrant, CanTransition
  <2>4. CASE AgentAsks \/ AgentEnds
    BY <1>1, <2>4, TerminalStays
       DEF AgentAsks, AgentEnds, AgentSucceeds, AgentNeedsApproval, AgentFails,
           missionVars, TerminalMission, CanTransition
  <2>5. CASE TwinEnds
    BY <1>1, <2>5, TerminalStays, TerminalDirective
       DEF TwinEnds, PlanRefused, PlanNeedsApproval, PlanAllowed, missionVars
  <2>6. QED
    BY <1>1, <2>1, <2>2, <2>3, <2>4, <2>5 DEF Next, Handle
<1>2. [Next]_vars => [(status \in TerminalMission => status' = status)]_vars
  BY <1>1
<1>3. QED
  BY <1>2, PTL DEF Spec, TerminalIsFinal

(***************************************************************************)
(* A waiting mission is waiting for something                              *)
(***************************************************************************)

(* The two faults that break it are decide() past the TTL, which saves     *)
(* EXPIRED and publishes nothing, and a model that reports an approval the *)
(* gateway never requested.                                                *)
Orderly == Faults \subseteq {"sweep", "any_checkpoint"}

(* A worker that awaits an agent or the twin serves a live mission that is *)
(* not waiting for a human.                                                *)
BusyIsLive == pc # "idle" => status \notin TerminalMission \cup {"WAITING_APPROVAL"}

(* The approval an agent was told about is undecided, or its decision will *)
(* reach the engine after the agent's result.                              *)
AskedIsAwaited == job.asked # 0 => Awaits(job.asked)

(* An expired approval has already failed the mission, or soon will.       *)
ExpiryIsHeard ==
  \A a \in 1 .. Len(approvals) :
    approvals[a].status = "EXPIRED" => Queued(Decided(a)) \/ status \in TerminalMission

WaitingInv == TypeOK /\ WaitingIsBacked /\ BusyIsLive /\ AskedIsAwaited /\ ExpiryIsHeard

LEMMA QueuedAppend ==
  ASSUME queue \in Seq(Event), NEW x \in Event, queue' = Append(queue, x)
  PROVE  /\ Queued(x)'
         /\ \A e : Queued(e) => Queued(e)'
<1>1. /\ Len(queue') = Len(queue) + 1 /\ Len(queue) \in Nat
      /\ \A i \in 1 .. Len(queue) : queue'[i] = queue[i]
      /\ queue'[Len(queue) + 1] = x
  BY AppendProperties, LenProperties
<1>2. QED
  BY <1>1 DEF Queued

LEMMA QueuedTail ==
  ASSUME queue \in Seq(Event), queue # <<>>, NEW q \in Seq(Event), q = Tail(queue),
         NEW e, e # Head(queue), Queued(e)
  PROVE  \E i \in 1 .. Len(q) : q[i] = e
<1>1. PICK i \in 1 .. Len(queue) : queue[i] = e
  BY DEF Queued
<1>2. i # 1
  BY <1>1
<1>3. /\ Len(q) = Len(queue) - 1 /\ Len(queue) \in Nat
      /\ \A j \in 1 .. Len(q) : q[j] = queue[j + 1]
  BY HeadTailProperties, LenProperties
<1>4. i - 1 \in 1 .. Len(q) /\ q[i - 1] = e
  BY <1>1, <1>2, <1>3
<1>5. QED
  BY <1>4

(* Taking an event leaves every other one in the queue, whether or not the *)
(* handler publishes a new one.                                            *)
LEMMA QueuedTaken ==
  ASSUME queue \in Seq(Event), queue # <<>>, NEW x \in Event,
         queue' = Tail(queue) \/ queue' = Append(Tail(queue), x),
         NEW e, e # Head(queue), Queued(e)
  PROVE  Queued(e)'
<1>1. Tail(queue) \in Seq(Event)
  BY HeadTailProperties
<1>2. PICK i \in 1 .. Len(Tail(queue)) : Tail(queue)[i] = e
  BY <1>1, QueuedTail
<1>3. CASE queue' = Tail(queue)
  BY <1>2, <1>3 DEF Queued
<1>4. CASE queue' = Append(Tail(queue), x)
  <2>1. /\ Len(queue') = Len(Tail(queue)) + 1 /\ Len(Tail(queue)) \in Nat
        /\ queue'[i] = Tail(queue)[i]
    BY <1>1, <1>2, <1>4, AppendProperties, LenProperties
  <2>2. QED
    BY <1>2, <2>1 DEF Queued
<1>5. QED
  BY <1>3, <1>4

(* Where advance and the directives leave a mission that they may touch.   *)
LEMMA AdvanceStatus ==
  ASSUME NEW st, st # "WAITING_APPROVAL", NEW ts, NEW log, Advance(st, ts, log)
  PROVE  /\ status' # "WAITING_APPROVAL" /\ BusyIsLive'
         /\ job'.asked = 0
BY DEF Advance, NothingToRun, Complete, RunTask, Advances, Moved, Rest, NoJob, BusyIsLive,
       TerminalMission

LEMMA DirectiveStatus ==
  ASSUME NEW directive, NEW st, st # "WAITING_APPROVAL", NEW t, NEW log,
         ApplyDirective(directive, st, t, log)
  PROVE  /\ status' # "WAITING_APPROVAL" /\ BusyIsLive'
         /\ job'.asked = 0
<1>1. \A target : target # "WAITING_APPROVAL" => Moved(st, target) # "WAITING_APPROVAL"
  BY DEF Moved
<1>2. CASE RetryTask(st, t, log)
  BY <1>1, <1>2, AdvanceStatus DEF RetryTask
<1>3. CASE Rest /\ (status' = Moved(st, "FAILED") \/ status' = Moved(st, "AT_RISK"))
  BY <1>1, <1>3 DEF Rest, NoJob, BusyIsLive
<1>4. QED
  BY <1>2, <1>3 DEF ApplyDirective, Fail

(* What the steps have to preserve next to TypeOK.                         *)
WaitingCore == WaitingIsBacked /\ BusyIsLive /\ AskedIsAwaited /\ ExpiryIsHeard

LEMMA AwaitsKept ==
  ASSUME UNCHANGED approvals, \A e : Queued(e) => Queued(e)'
  PROVE  /\ \A a : Awaits(a) => Awaits(a)'
         /\ ExpiryIsHeard /\ (status \in TerminalMission => status' \in TerminalMission)
              => ExpiryIsHeard'
BY DEF Awaits, ExpiryIsHeard

(* A decision changes the status of one approval and nothing else.         *)
LEMMA OneDecided ==
  ASSUME approvals \in Seq(Approval), NEW a \in 1 .. Len(approvals),
         NEW verdict \in ApprovalStatus,
         approvals' = [approvals EXCEPT ![a].status = verdict]
  PROVE  /\ Len(approvals') = Len(approvals)
         /\ approvals'[a].status = verdict
         /\ \A b \in 1 .. Len(approvals) :
              /\ b # a => approvals'[b] = approvals[b]
              /\ approvals'[b].action = approvals[b].action
              /\ approvals'[b].task = approvals[b].task
              /\ approvals'[b].plan = approvals[b].plan
<1> DEFINE x == [approvals[a] EXCEPT !.status = verdict]
<1>1. approvals[a] \in Approval
  BY ElementOfSeq
<1>2. /\ x \in Approval /\ x.status = verdict /\ x.action = approvals[a].action
      /\ x.task = approvals[a].task /\ x.plan = approvals[a].plan
  BY <1>1 DEF Approval
<1>3. approvals' = [approvals EXCEPT ![a] = x]
  OBVIOUS
<1> HIDE DEF x
<1>4. Len(approvals') = Len(approvals) /\ approvals'[a] = x
      /\ \A b \in 1 .. Len(approvals) : b # a => approvals'[b] = approvals[b]
  BY <1>2, <1>3, ExceptSeq
<1>5. QED
  BY <1>2, <1>4

(* Deciding one approval: it is decided and announced, the others stay.    *)
LEMMA DecisionKept ==
  ASSUME WaitingInv, NEW a \in 1 .. Len(approvals), NEW verdict \in ApprovalStatus,
         approvals' = [approvals EXCEPT ![a].status = verdict], Announce(a),
         UNCHANGED <<status, pending, pc, job>>
  PROVE  WaitingCore'
<1>1. a \in Nat /\ Decided(a) \in Event /\ queue \in Seq(Event)
  BY EventType DEF WaitingInv, TypeOK
<1>2. Queued(Decided(a))' /\ \A e : Queued(e) => Queued(e)'
  BY <1>1, QueuedAppend DEF Announce
<1>3. /\ Len(approvals') = Len(approvals)
      /\ \A b \in 1 .. Len(approvals) : b # a => approvals'[b] = approvals[b]
  BY OneDecided DEF WaitingInv, TypeOK
<1>4. \A b \in 1 .. Len(approvals) : Awaits(b) => Awaits(b)'
  BY <1>2, <1>3 DEF Awaits
<1>5. pending # 0 => pending \in 1 .. Len(approvals)
  BY DEF WaitingInv, TypeOK, Requested
<1>6. job.asked # 0 => job.asked \in 1 .. Len(approvals)
  BY DEF WaitingInv, TypeOK, Requested
<1>7. WaitingIsBacked' /\ AskedIsAwaited' /\ BusyIsLive'
  BY <1>4, <1>5, <1>6 DEF WaitingInv, WaitingIsBacked, AskedIsAwaited, BusyIsLive
<1>8. ExpiryIsHeard'
  BY <1>2, <1>3 DEF WaitingInv, ExpiryIsHeard
<1>9. QED
  BY <1>7, <1>8 DEF WaitingCore

(* Requesting an approval leaves the earlier ones as they are.             *)
LEMMA RequestKept ==
  ASSUME WaitingInv, NEW x \in Approval, x.status = "PENDING",
         approvals' = Append(approvals, x), UNCHANGED queue
  PROVE  /\ \A b \in 1 .. Len(approvals) : Awaits(b) => Awaits(b)'
         /\ Awaits(Len(approvals))' /\ Len(approvals') \in Nat \ {0}
         /\ (status \in TerminalMission => status' \in TerminalMission) => ExpiryIsHeard'
<1>1. /\ Len(approvals') = Len(approvals) + 1 /\ Len(approvals) \in Nat
      /\ \A b \in 1 .. Len(approvals) : approvals'[b] = approvals[b]
      /\ approvals'[Len(approvals) + 1] = x
  BY AppendProperties, LenProperties DEF WaitingInv, TypeOK
<1>2. \A e : Queued(e)' <=> Queued(e)
  BY DEF Queued
<1>3. \A b \in 1 .. Len(approvals) : Awaits(b) => Awaits(b)'
  BY <1>1, <1>2 DEF Awaits
<1>4. Awaits(Len(approvals))' /\ Len(approvals') \in Nat \ {0}
  BY <1>1 DEF Awaits
<1>5. ASSUME status \in TerminalMission => status' \in TerminalMission
      PROVE  ExpiryIsHeard'
  <2>1. SUFFICES ASSUME NEW b \in 1 .. Len(approvals'), approvals'[b].status = "EXPIRED"
                 PROVE  Queued(Decided(b))' \/ status' \in TerminalMission
    BY DEF ExpiryIsHeard
  <2>2. b \in 1 .. Len(approvals) /\ approvals[b].status = "EXPIRED"
    BY <1>1, <2>1
  <2>3. QED
    BY <1>2, <1>5, <2>2 DEF WaitingInv, ExpiryIsHeard
<1>6. QED
  BY <1>3, <1>4, <1>5

LEMMA OperatorWaiting == Orderly /\ WaitingInv /\ Operator => WaitingCore'
<1> SUFFICES ASSUME Orderly, WaitingInv, Operator PROVE WaitingCore'
  OBVIOUS
<1>a. queue \in Seq(Event) /\ Signal("MISSION_STARTED") \in Event
      /\ Signal("MISSION_RESUMED") \in Event
  BY EventType DEF WaitingInv, TypeOK
<1> USE DEF WaitingCore, WaitingInv
<1>1. CASE Start
  <2>1. \A e : Queued(e) => Queued(e)'
    BY <1>1, <1>a, QueuedAppend DEF Start
  <2>2. UNCHANGED <<approvals, job, pc, pending>>
    BY <1>1 DEF Start, approvalVars, workerVars
  <2>3. QED
    BY <1>1, <2>1, <2>2, AwaitsKept
       DEF Start, WaitingIsBacked, BusyIsLive, AskedIsAwaited, TerminalMission
<1>2. ASSUME NEW a \in 1 .. Len(approvals), NEW verdict \in {"APPROVED", "REJECTED"},
             Decide(a, verdict)
      PROVE  WaitingCore'
  BY <1>2, DecisionKept DEF Decide, ApprovalStatus, missionVars, workerVars
<1>3. ASSUME NEW a \in 1 .. Len(approvals), DecideTooLate(a) PROVE WaitingCore'
  BY <1>3 DEF DecideTooLate, Orderly
<1>4. ASSUME NEW a \in 1 .. Len(approvals), ExpireStale(a) PROVE WaitingCore'
  BY <1>4, DecisionKept DEF ExpireStale, ApprovalStatus, missionVars, workerVars
<1>5. CASE Interrupt
  <2>1. UNCHANGED <<approvals, queue, status, pending, pc, job>>
    BY <1>5 DEF Interrupt, missionVars, approvalVars, workerVars
  <2>2. QED
    BY <2>1, AwaitsKept DEF WaitingIsBacked, BusyIsLive, AskedIsAwaited, Queued
<1>6. ASSUME NEW c \in checkpoints.all, Resume(c) PROVE WaitingCore'
  <2>1. \A e : Queued(e) => Queued(e)'
    BY <1>6, <1>a, QueuedAppend DEF Resume, Continue
  <2>2. UNCHANGED <<approvals, job, pc>> /\ status \notin TerminalMission
    BY <1>6 DEF Resume, approvalVars, workerVars
  <2>3. (\A a : Awaits(a) => Awaits(a)') /\ ExpiryIsHeard'
    BY <2>1, <2>2, AwaitsKept
  <2>4. CASE StillWaiting(c.pending)
    BY <1>6, <2>2, <2>3, <2>4
       DEF Resume, StillWaiting, WaitingIsBacked, BusyIsLive, AskedIsAwaited, Awaits
  <2>5. CASE ~StillWaiting(c.pending)
    <3>1. status' = Moved(status, "EXECUTING")
      BY <1>6, <2>5 DEF Resume
    <3>2. status' # "WAITING_APPROVAL" /\ status' \notin TerminalMission
      BY <2>2, <3>1 DEF Moved, CanTransition, Successors, TerminalMission
    <3>3. QED
      BY <2>2, <2>3, <3>2 DEF WaitingIsBacked, BusyIsLive, AskedIsAwaited
  <2>6. QED
    BY <2>4, <2>5
<1>7. CASE SuspendTwin \/ ReinstateTwin
  <2>1. UNCHANGED <<approvals, queue, status, pending, pc, job>>
    BY <1>7 DEF SuspendTwin, ReinstateTwin, missionVars, approvalVars, workerVars
  <2>2. QED
    BY <2>1, AwaitsKept DEF WaitingIsBacked, BusyIsLive, AskedIsAwaited, Queued
<1>8. QED
  BY <1>1, <1>2, <1>3, <1>4, <1>5, <1>6, <1>7 DEF Operator

LEMMA HandleWaiting == WaitingInv /\ Handle => WaitingCore'
<1> SUFFICES ASSUME WaitingInv, Handle PROVE WaitingCore'
  OBVIOUS
<1>a. queue \in Seq(Event) /\ Signal("MISSION_RESUMED") \in Event /\ job.asked = 0
  <2>1. pc = "idle"
    BY DEF Handle, HandleProgress, HandleRefusal, HandleRecoveryGrant, HandlePurchaseGrant,
           OnApproval
  <2>2. QED
    BY <2>1, EventType DEF WaitingInv, TypeOK, WorkerOK, NoJob
<1> USE DEF WaitingCore, WaitingInv
<1>1. CASE HandleProgress
  <2>1. \A a : Decided(a) # Head(queue)
    BY <1>1 DEF HandleProgress, Decided
  <2>2. \A a : Queued(Decided(a)) => Queued(Decided(a))'
    BY <1>1, <1>a, <2>1, QueuedTaken DEF HandleProgress
  <2>3. UNCHANGED <<approvals, pending>>
    BY <1>1 DEF HandleProgress, approvalVars
  <2>4. ExpiryIsHeard'
    <3>1. status \in TerminalMission => status' \in TerminalMission
      BY <1>1, TerminalAdvance DEF HandleProgress
    <3>2. QED
      BY <2>2, <2>3, <3>1 DEF ExpiryIsHeard
  <2>5. CASE status = "WAITING_APPROVAL"
    <3>1. NothingToRun(status, taskStatus, checkpoints)
      BY <1>1, <2>5 DEF HandleProgress, Advance, Complete, RunTask, Advances
    <3>2. QED
      BY <2>2, <2>3, <2>4, <2>5, <3>1
         DEF NothingToRun, Rest, NoJob, WaitingIsBacked, BusyIsLive, AskedIsAwaited, Awaits
  <2>6. CASE status # "WAITING_APPROVAL"
    BY <1>1, <2>4, <2>6, AdvanceStatus DEF HandleProgress, WaitingIsBacked, AskedIsAwaited
  <2>7. QED
    BY <2>5, <2>6
<1>2. ASSUME NEW a \in 1 .. Len(approvals), OnApproval(a),
             queue' = Tail(queue) \/ queue' = Continue(Tail(queue))
      PROVE  /\ \A b : b # a /\ Queued(Decided(b)) => Queued(Decided(b))'
             /\ UNCHANGED approvals
  <2>1. Head(queue) = Decided(a) /\ queue # <<>> /\ UNCHANGED approvals
    BY <1>2 DEF OnApproval
  <2>2. \A b : b # a => Decided(b) # Head(queue)
    BY <2>1 DEF Decided
  <2>3. QED
    BY <1>a, <1>2, <2>1, <2>2, QueuedTaken DEF Continue
<1>3. ASSUME NEW a \in 1 .. Len(approvals), HandleRefusal(a) PROVE WaitingCore'
  <2>1. Fail(status, checkpoints)
    BY <1>3 DEF HandleRefusal
  <2>2. status' \in TerminalMission
    BY <2>1 DEF Fail, Moved, CanTransition, TerminalMission
  <2>3. QED
    BY <2>1, <2>2 DEF Fail, Rest, NoJob, WaitingIsBacked, BusyIsLive, AskedIsAwaited,
                      ExpiryIsHeard, TerminalMission
<1>4. ASSUME NEW a \in 1 .. Len(approvals), HandleRecoveryGrant(a) PROVE WaitingCore'
  <2>1. OnApproval(a) /\ approvals[a].status = "APPROVED" /\ queue' = Tail(queue)
    BY <1>4 DEF HandleRecoveryGrant
  <2>2. (status \in TerminalMission => status' \in TerminalMission) => ExpiryIsHeard'
    BY <1>2, <2>1 DEF ExpiryIsHeard
  <2>3. CASE CanTransition(status, "RECOVERING")
    <3>1. PICK directive, log :
            ApplyDirective(directive, "RECOVERING", approvals[a].task, log)
      BY <1>4, <2>3 DEF HandleRecoveryGrant
    <3>2. status' # "WAITING_APPROVAL" /\ BusyIsLive' /\ job'.asked = 0
      BY <3>1, DirectiveStatus
    <3>3. QED
      BY <2>2, <2>3, <3>2 DEF CanTransition, WaitingIsBacked, AskedIsAwaited
  <2>4. CASE ~CanTransition(status, "RECOVERING")
    <3>1. UNCHANGED <<status, pc, job>> /\ status # "WAITING_APPROVAL"
      BY <1>4, <2>4 DEF HandleRecoveryGrant, workerVars, CanTransition, Successors,
                        TerminalMission
    <3>2. QED
      BY <1>a, <2>2, <3>1 DEF WaitingIsBacked, BusyIsLive, AskedIsAwaited
  <2>5. QED
    BY <2>3, <2>4
<1>5. ASSUME NEW a \in 1 .. Len(approvals), HandlePurchaseGrant(a) PROVE WaitingCore'
  <2>1. /\ OnApproval(a) /\ approvals[a].status = "APPROVED"
        /\ queue' = Tail(queue) \/ queue' = Continue(Tail(queue))
        /\ status' = Moved(status, "EXECUTING") /\ UNCHANGED <<pc, job>>
    BY <1>5 DEF HandlePurchaseGrant, workerVars
  <2>2. status' # "WAITING_APPROVAL" /\ pc = "idle"
        /\ (status \in TerminalMission => status' \in TerminalMission)
    BY <2>1 DEF OnApproval, Moved, CanTransition, Successors, TerminalMission
  <2>3. ExpiryIsHeard'
    BY <1>2, <2>1, <2>2 DEF ExpiryIsHeard
  <2>4. QED
    BY <1>a, <2>1, <2>2, <2>3 DEF WaitingIsBacked, BusyIsLive, AskedIsAwaited
<1>6. QED
  BY <1>1, <1>3, <1>4, <1>5 DEF Handle

LEMMA AgentWaiting == Orderly /\ WaitingInv /\ (AgentAsks \/ AgentEnds) => WaitingCore'
<1> SUFFICES ASSUME Orderly, WaitingInv, AgentAsks \/ AgentEnds PROVE WaitingCore'
  OBVIOUS
<1>a. /\ pc = "agent" /\ job \in Job /\ job.task \in Tasks /\ job.asked \in Nat
      /\ status \notin TerminalMission \cup {"WAITING_APPROVAL"}
  BY DEF AgentEnds, AgentAsks, AgentSucceeds, AgentNeedsApproval, AgentFails,
         WaitingInv, TypeOK, WorkerOK, Job, BusyIsLive
<1>b. ~FreeReport
  BY DEF Orderly, FreeReport
<1>c. queue \in Seq(Event) /\ Signal("TASK_COMPLETED") \in Event
  BY EventType DEF WaitingInv, TypeOK
<1> USE DEF WaitingCore
<1>1. CASE AgentAsks
  <2> DEFINE x == [status |-> "PENDING", action |-> "purchase.execute", task |-> job.task,
                   offer |-> job.offer, plan |-> NoPlan]
  <2>1. UNCHANGED <<status, pending, pc, queue>>
    BY <1>1 DEF AgentAsks, missionVars
  <2>2. CASE approvals' = Append(approvals, x) /\ job' = [job EXCEPT !.asked = Len(approvals')]
    <3>1. x \in Approval /\ x.status = "PENDING"
      BY <1>a DEF Approval, ApprovalStatus, Job
    <3> HIDE DEF x
    <3>2. /\ \A b \in 1 .. Len(approvals) : Awaits(b) => Awaits(b)'
          /\ Awaits(Len(approvals))' /\ ExpiryIsHeard'
      BY <2>1, <2>2, <3>1, RequestKept
    <3>3. job'.asked = Len(approvals')
      BY <1>a, <2>2 DEF Job
    <3>4. QED
      BY <1>a, <2>1, <3>2, <3>3 DEF WaitingIsBacked, BusyIsLive, AskedIsAwaited
  <2>3. CASE /\ UNCHANGED approvals
             /\ \E a \in ForOffer(job.offer) : job' = [job EXCEPT !.asked = a]
    <3>1. PICK a \in ForOffer(job.offer) : job' = [job EXCEPT !.asked = a]
      BY <2>3
    <3>2. a \in 1 .. Len(approvals) /\ approvals[a].status \in {"PENDING", "EXPIRED"}
      BY <1>1 DEF AgentAsks, ForOffer
    <3>3. Awaits(a)
      BY <1>a, <3>2 DEF Awaits, WaitingInv, ExpiryIsHeard
    <3>4. job'.asked = a
      BY <1>a, <3>1 DEF Job
    <3>5. (\A b : Awaits(b) => Awaits(b)') /\ ExpiryIsHeard'
      BY <2>1, <2>3, AwaitsKept DEF Queued, WaitingInv
    <3>6. QED
      BY <1>a, <2>1, <3>3, <3>4, <3>5 DEF WaitingIsBacked, BusyIsLive, AskedIsAwaited
  <2>4. QED
    BY <1>1, <2>2, <2>3 DEF AgentAsks
<1>2. CASE AgentSucceeds
  <2>1. \A e : Queued(e) => Queued(e)'
    BY <1>2, <1>c, QueuedAppend DEF AgentSucceeds
  <2>2. UNCHANGED <<approvals, pending>> /\ Rest
        /\ status' \notin TerminalMission \cup {"WAITING_APPROVAL"}
    BY <1>2, <1>a DEF AgentSucceeds, approvalVars, TerminalMission
  <2>3. ExpiryIsHeard'
    BY <1>a, <2>1, <2>2, AwaitsKept DEF WaitingInv
  <2>4. QED
    BY <2>2, <2>3 DEF Rest, NoJob, WaitingIsBacked, BusyIsLive, AskedIsAwaited
<1>3. CASE AgentNeedsApproval
  <2>1. pending' = job.asked /\ job.asked # 0 /\ Rest /\ UNCHANGED <<approvals, queue>>
    BY <1>3, <1>b DEF AgentNeedsApproval, approvalVars
  <2>2. (\A b : Awaits(b) => Awaits(b)') /\ ExpiryIsHeard'
    BY <1>a, <2>1, AwaitsKept DEF Queued, WaitingInv
  <2>3. Awaits(job.asked)
    BY <2>1 DEF WaitingInv, AskedIsAwaited
  <2>4. QED
    BY <2>1, <2>2, <2>3 DEF Rest, NoJob, WaitingIsBacked, BusyIsLive, AskedIsAwaited
<1>4. CASE AgentFails
  <2>1. UNCHANGED <<approvals, queue, pending>>
    BY <1>4 DEF AgentFails, approvalVars
  <2>2. status' \notin TerminalMission \cup {"WAITING_APPROVAL"}
    BY <1>4, <1>a DEF AgentFails, TerminalMission
  <2>3. job'.asked = 0
    BY <1>4, <1>a DEF AgentFails, Rest, NoJob, Job
  <2>4. ExpiryIsHeard'
    BY <1>a, <2>1, AwaitsKept DEF Queued, WaitingInv
  <2>5. QED
    BY <2>2, <2>3, <2>4 DEF WaitingIsBacked, BusyIsLive, AskedIsAwaited
<1>5. QED
  BY <1>1, <1>2, <1>3, <1>4 DEF AgentEnds

LEMMA TwinWaiting == WaitingInv /\ TwinEnds => WaitingCore'
<1> SUFFICES ASSUME WaitingInv, TwinEnds PROVE WaitingCore'
  OBVIOUS
<1>a. /\ pc = "twin" /\ job \in Job /\ job.task \in Tasks
      /\ status \notin TerminalMission \cup {"WAITING_APPROVAL"}
  BY DEF TwinEnds, PlanRefused, PlanNeedsApproval, PlanAllowed, WaitingInv, TypeOK, WorkerOK,
         Job, BusyIsLive
<1> USE DEF WaitingCore
<1>1. CASE PlanRefused
  <2>1. UNCHANGED <<approvals, queue, pending, status>> /\ Rest
    BY <1>1 DEF PlanRefused, approvalVars, missionVars
  <2>2. ExpiryIsHeard'
    BY <2>1, AwaitsKept DEF Queued, WaitingInv
  <2>3. QED
    BY <1>a, <2>1, <2>2 DEF Rest, NoJob, WaitingIsBacked, BusyIsLive, AskedIsAwaited
<1>2. ASSUME NEW plan \in Plans, PlanNeedsApproval(plan) PROVE WaitingCore'
  <2> DEFINE x == [status |-> "PENDING", action |-> "recovery.apply", task |-> job.task,
                   offer |-> NoOffer, plan |-> plan]
  <2>1. x \in Approval /\ x.status = "PENDING"
    BY <1>a DEF Approval, ApprovalStatus, Plans
  <2>2. approvals' = Append(approvals, x) /\ UNCHANGED queue
        /\ pending' = Len(approvals') /\ Rest
    BY <1>2 DEF PlanNeedsApproval
  <2> HIDE DEF x
  <2>3. Awaits(Len(approvals))' /\ Len(approvals') \in Nat \ {0} /\ ExpiryIsHeard'
    BY <1>a, <2>1, <2>2, RequestKept
  <2>4. QED
    BY <2>2, <2>3 DEF Rest, NoJob, WaitingIsBacked, BusyIsLive, AskedIsAwaited
<1>3. ASSUME NEW plan \in Plans, PlanAllowed(plan) PROVE WaitingCore'
  <2>1. UNCHANGED <<approvals, queue>>
    BY <1>3 DEF PlanAllowed, approvalVars
  <2>2. status' # "WAITING_APPROVAL" /\ BusyIsLive' /\ job'.asked = 0
    BY <1>3, <1>a, DirectiveStatus DEF PlanAllowed
  <2>3. ExpiryIsHeard'
    BY <1>a, <2>1, AwaitsKept DEF Queued, WaitingInv
  <2>4. QED
    BY <2>2, <2>3 DEF WaitingIsBacked, AskedIsAwaited
<1>4. QED
  BY <1>1, <1>2, <1>3 DEF TwinEnds

LEMMA InitWaiting == Init => WaitingInv
<1>1. Init => WaitingCore
  BY DEF Init, WaitingCore, WaitingIsBacked, BusyIsLive, AskedIsAwaited, ExpiryIsHeard, NoJob
<1>2. QED
  BY <1>1, InitType DEF WaitingInv, WaitingCore

LEMMA StepWaiting == Orderly /\ WaitingInv /\ [Next]_vars => WaitingInv'
<1> SUFFICES ASSUME Orderly, WaitingInv, [Next]_vars PROVE WaitingInv'
  OBVIOUS
<1>1. TypeOK'
  BY OperatorStepType, HandleStepType, AgentStepType, TwinStepType, StutterType
     DEF Next, WaitingInv
<1>2. CASE Next
  BY <1>1, <1>2, OperatorWaiting, HandleWaiting, AgentWaiting, TwinWaiting
     DEF Next, WaitingInv, WaitingCore
<1>3. CASE UNCHANGED vars
  <2>1. WaitingCore'
    BY <1>3 DEF vars, missionVars, approvalVars, workerVars, WaitingInv, WaitingCore,
                WaitingIsBacked, BusyIsLive, AskedIsAwaited, ExpiryIsHeard, Awaits, Queued
  <2>2. QED
    BY <1>1, <2>1 DEF WaitingInv, WaitingCore
<1>4. QED
  BY <1>2, <1>3

(* A mission in WAITING_APPROVAL never waits in vain: however operator     *)
(* requests, resumes from any checkpoint, suspensions, agent answers and   *)
(* recovery plans interleave, the approval it waits for is still to be     *)
(* decided or its decision is queued for the engine.                       *)
THEOREM WaitingBacked == Orderly => (Spec => []WaitingIsBacked)
<1> SUFFICES ASSUME Orderly PROVE Spec => []WaitingIsBacked
  OBVIOUS
<1>1. WaitingInv => WaitingIsBacked
  BY DEF WaitingInv
<1>2. QED
  BY <1>1, InitWaiting, StepWaiting, PTL DEF Spec

(***************************************************************************)
(* A claim does not outlive its execution                                  *)
(***************************************************************************)

(* No plan, carried out or still waiting for a human, names another agent. *)
Stationary ==
  stray = {} /\ \A a \in 1 .. Len(approvals) : approvals[a].plan.agent = "none"

HeldInv == TypeOK /\ RunningIsHeld /\ Stationary

LEMMA AdvanceHeld ==
  ASSUME NEW st, NEW ts \in [Tasks -> TaskStatus], NEW log, Advance(st, ts, log),
         stray' = {}, \A t \in Tasks : ts[t] # "RUNNING"
  PROVE  RunningIsHeld'
<1>1. CASE NothingToRun(st, ts, log) \/ Complete(st, ts, log)
  BY <1>1 DEF NothingToRun, Complete, RunningIsHeld
<1>2. CASE RunTask(st, ts, log)
  BY <1>2 DEF RunTask, Runnable, RunningIsHeld
<1>3. QED
  BY <1>1, <1>2 DEF Advance

LEMMA DirectiveHeld ==
  ASSUME TypeOK, RunningIsHeld, pc # "agent", stray' = {},
         NEW directive, NEW st, NEW t \in Tasks, NEW log, ApplyDirective(directive, st, t, log)
  PROVE  RunningIsHeld'
<1>1. taskStatus \in [Tasks -> TaskStatus] /\ \A u \in Tasks : taskStatus[u] # "RUNNING"
  BY DEF TypeOK, RunningIsHeld
<1>2. CASE RetryTask(st, t, log)
  <2> DEFINE ts == [taskStatus EXCEPT ![t] = "PENDING"]
  <2>1. ts \in [Tasks -> TaskStatus] /\ \A u \in Tasks : ts[u] # "RUNNING"
    BY <1>1 DEF TaskStatus
  <2>2. \E s, l : Advance(s, ts, l)
    BY <1>2 DEF RetryTask
  <2> HIDE DEF ts
  <2>3. QED
    BY <2>1, <2>2, AdvanceHeld
<1>3. CASE UNCHANGED taskStatus
  BY <1>1, <1>3 DEF RunningIsHeld
<1>4. QED
  BY <1>2, <1>3 DEF ApplyDirective, Fail

LEMMA HandleHeld == HeldInv /\ Handle => RunningIsHeld' /\ Stationary'
<1> SUFFICES ASSUME HeldInv, Handle PROVE RunningIsHeld' /\ Stationary'
  OBVIOUS
<1>1. /\ pc = "idle" /\ UNCHANGED approvals /\ taskStatus \in [Tasks -> TaskStatus]
      /\ \A t \in Tasks : taskStatus[t] # "RUNNING"
      /\ TypeOK /\ stray = {}
      /\ \A a \in 1 .. Len(approvals) :
           approvals[a] \in Approval /\ approvals[a].task \in Tasks
             /\ approvals[a].plan.agent = "none"
  <2>1. pc = "idle" /\ UNCHANGED approvals
    BY DEF Handle, HandleProgress, HandleRefusal, HandleRecoveryGrant, HandlePurchaseGrant,
           OnApproval, approvalVars
  <2>2. TypeOK /\ taskStatus \in [Tasks -> TaskStatus] /\ approvals \in Seq(Approval)
    BY DEF HeldInv, TypeOK
  <2>3. \A a \in 1 .. Len(approvals) : approvals[a] \in Approval
    BY <2>2, ElementOfSeq
  <2>4. QED
    BY <2>1, <2>2, <2>3 DEF HeldInv, Stationary, RunningIsHeld, Approval
<1>2. SUFFICES stray' = {} /\ RunningIsHeld'
  BY <1>1 DEF Stationary
<1>3. CASE HandleProgress
  <2>1. UNCHANGED stray /\ Advance(status, taskStatus, checkpoints)
    BY <1>3 DEF HandleProgress
  <2>2. QED
    BY <1>1, <2>1, AdvanceHeld
<1>4. ASSUME NEW a \in 1 .. Len(approvals), HandleRefusal(a)
      PROVE  stray' = {} /\ RunningIsHeld'
  BY <1>1, <1>4 DEF HandleRefusal, Fail, RunningIsHeld
<1>5. ASSUME NEW a \in 1 .. Len(approvals), HandleRecoveryGrant(a)
      PROVE  stray' = {} /\ RunningIsHeld'
  <2>1. CASE CanTransition(status, "RECOVERING")
    <3>1. stray' = {}
      BY <1>1, <1>5, <2>1 DEF HandleRecoveryGrant, ApplyPlan
    <3>2. \E d, log : ApplyDirective(d, "RECOVERING", approvals[a].task, log)
      BY <1>5, <2>1 DEF HandleRecoveryGrant
    <3>3. QED
      BY <1>1, <3>1, <3>2, DirectiveHeld DEF HeldInv
  <2>2. CASE ~CanTransition(status, "RECOVERING")
    BY <1>1, <1>5, <2>2 DEF HandleRecoveryGrant, taskVars, RunningIsHeld
  <2>3. QED
    BY <2>1, <2>2
<1>6. ASSUME NEW a \in 1 .. Len(approvals), HandlePurchaseGrant(a)
      PROVE  stray' = {} /\ RunningIsHeld'
  BY <1>1, <1>6 DEF HandlePurchaseGrant, RunningIsHeld
<1>7. QED
  BY <1>3, <1>4, <1>5, <1>6 DEF Handle

LEMMA WorkerHeld ==
  ASSUME "SWITCH_AGENT" \notin Strategies, HeldInv, AgentAsks \/ AgentEnds \/ TwinEnds
  PROVE  RunningIsHeld' /\ Stationary'
<1>1. /\ TypeOK /\ taskStatus \in [Tasks -> TaskStatus] /\ approvals \in Seq(Approval)
      /\ job \in Job /\ job.task \in Tasks /\ pc \in {"agent", "twin"} /\ stray = {}
      /\ \A t \in Tasks : taskStatus[t] = "RUNNING" => pc = "agent" /\ job.task = t
  BY DEF HeldInv, TypeOK, RunningIsHeld, Stationary, WorkerOK, Job, AgentAsks, AgentEnds,
         AgentSucceeds, AgentNeedsApproval, AgentFails, TwinEnds, PlanRefused,
         PlanNeedsApproval, PlanAllowed
<1>2. CASE AgentAsks
  <2> DEFINE x == [status |-> "PENDING", action |-> "purchase.execute", task |-> job.task,
                   offer |-> job.offer, plan |-> NoPlan]
  <2>1. UNCHANGED <<taskStatus, stray, pc>> /\ job'.task = job.task
    BY <1>1, <1>2 DEF AgentAsks, taskVars, Job
  <2>2. approvals' = Append(approvals, x) \/ UNCHANGED approvals
    BY <1>2 DEF AgentAsks
  <2>3. x \in Approval /\ x.plan.agent = "none"
    BY <1>1 DEF Approval, ApprovalStatus, Job, NoPlan
  <2> HIDE DEF x
  <2>4. \A a \in 1 .. Len(approvals') : approvals'[a].plan.agent = "none"
    BY <1>1, <2>2, <2>3, AppendProperties, LenProperties DEF HeldInv, Stationary
  <2>5. QED
    BY <1>1, <2>1, <2>4 DEF RunningIsHeld, Stationary
<1>3. CASE AgentEnds
  <2>1. UNCHANGED <<stray, approvals>>
    BY <1>3 DEF AgentEnds, AgentSucceeds, AgentNeedsApproval, AgentFails, approvalVars
  <2>2. PICK result \in {"COMPLETED", "WAITING", "FAILED"} : TaskEnds(result)
    BY <1>3 DEF AgentEnds, AgentSucceeds, AgentNeedsApproval, AgentFails
  <2>3. RunningIsHeld'
    BY <1>1, <2>2 DEF TaskEnds, RunningIsHeld
  <2>4. QED
    BY <2>1, <2>3 DEF HeldInv, Stationary
<1>4. CASE PlanRefused
  BY <1>1, <1>4 DEF PlanRefused, taskVars, approvalVars, RunningIsHeld, HeldInv, Stationary
<1>5. ASSUME NEW plan \in Plans, PlanNeedsApproval(plan)
      PROVE  RunningIsHeld' /\ Stationary'
  <2> DEFINE x == [status |-> "PENDING", action |-> "recovery.apply", task |-> job.task,
                   offer |-> NoOffer, plan |-> plan]
  <2>1. x \in Approval /\ x.plan.agent = "none"
    BY <1>1 DEF Approval, ApprovalStatus, Plans, Plan
  <2>2. approvals' = Append(approvals, x) /\ UNCHANGED <<taskStatus, stray>> /\ pc = "twin"
    BY <1>5 DEF PlanNeedsApproval, taskVars
  <2> HIDE DEF x
  <2>3. \A a \in 1 .. Len(approvals') : approvals'[a].plan.agent = "none"
    BY <1>1, <2>1, <2>2, AppendProperties, LenProperties DEF HeldInv, Stationary
  <2>4. QED
    BY <1>1, <2>2, <2>3 DEF RunningIsHeld, Stationary
<1>6. ASSUME NEW plan \in Plans, PlanAllowed(plan) PROVE RunningIsHeld' /\ Stationary'
  <2>1. plan.agent = "none"
    BY DEF Plans, Plan
  <2>2. stray' = {} /\ pc = "twin" /\ UNCHANGED approvals
    BY <1>1, <1>6, <2>1 DEF PlanAllowed, ApplyPlan, approvalVars
  <2>3. RunningIsHeld'
    BY <1>1, <1>6, <2>2, DirectiveHeld DEF PlanAllowed, HeldInv
  <2>4. QED
    BY <2>2, <2>3 DEF HeldInv, Stationary
<1>7. QED
  BY <1>2, <1>3, <1>4, <1>5, <1>6 DEF TwinEnds

LEMMA OperatorHeld == HeldInv /\ Operator => RunningIsHeld' /\ Stationary'
<1> SUFFICES ASSUME HeldInv, Operator PROVE RunningIsHeld' /\ Stationary'
  OBVIOUS
<1>1. taskStatus \in [Tasks -> TaskStatus] /\ approvals \in Seq(Approval)
  BY DEF HeldInv, TypeOK
<1>2. CASE Start \/ Interrupt \/ SuspendTwin \/ ReinstateTwin
  BY <1>1, <1>2 DEF Start, Interrupt, SuspendTwin, ReinstateTwin, taskVars, approvalVars,
                    workerVars, HeldInv, RunningIsHeld, Stationary
<1>3. ASSUME NEW c \in checkpoints.all, Resume(c) PROVE RunningIsHeld' /\ Stationary'
  BY <1>1, <1>3 DEF Resume, approvalVars, workerVars, HeldInv, RunningIsHeld, Stationary
<1>4. ASSUME NEW a \in 1 .. Len(approvals),
             DecideTooLate(a) \/ ExpireStale(a)
               \/ \E verdict \in {"APPROVED", "REJECTED"} : Decide(a, verdict)
      PROVE  RunningIsHeld' /\ Stationary'
  <2>1. /\ UNCHANGED <<taskStatus, stray, pc, job>>
        /\ \E verdict \in ApprovalStatus :
             approvals' = [approvals EXCEPT ![a].status = verdict]
    BY <1>4 DEF Decide, DecideTooLate, ExpireStale, taskVars, workerVars, ApprovalStatus
  <2>2. \A b \in 1 .. Len(approvals') :
          b \in 1 .. Len(approvals) /\ approvals'[b].plan = approvals[b].plan
    BY <1>1, <2>1, OneDecided
  <2>3. QED
    BY <2>1, <2>2 DEF HeldInv, RunningIsHeld, Stationary
<1>5. QED
  BY <1>2, <1>3, <1>4 DEF Operator

LEMMA InitHeld == Init => HeldInv
<1>1. Init => RunningIsHeld /\ Stationary
  BY DEF Init, RunningIsHeld, Stationary
<1>2. QED
  BY <1>1, InitType DEF HeldInv

LEMMA StepHeld == "SWITCH_AGENT" \notin Strategies /\ HeldInv /\ [Next]_vars => HeldInv'
<1> SUFFICES ASSUME "SWITCH_AGENT" \notin Strategies, HeldInv, [Next]_vars PROVE HeldInv'
  OBVIOUS
<1>1. TypeOK'
  BY OperatorStepType, HandleStepType, AgentStepType, TwinStepType, StutterType
     DEF Next, HeldInv
<1>2. CASE UNCHANGED vars
  BY <1>1, <1>2 DEF vars, taskVars, approvalVars, workerVars, HeldInv, RunningIsHeld, Stationary
<1>3. QED
  BY <1>1, <1>2, HandleHeld, WorkerHeld, OperatorHeld DEF Next, HeldInv

(* A task claimed by claim_task is RUNNING only while its agent is,        *)
(* however often the mission is interrupted and resumed and whatever its   *)
(* agents report; only a plan that names an agent in no registry leaves a  *)
(* claim behind.                                                           *)
THEOREM ClaimsAreHeld == "SWITCH_AGENT" \notin Strategies => (Spec => []RunningIsHeld)
<1> SUFFICES ASSUME "SWITCH_AGENT" \notin Strategies PROVE Spec => []RunningIsHeld
  OBVIOUS
<1>1. HeldInv => RunningIsHeld
  BY DEF HeldInv
<1>2. QED
  BY <1>1, InitHeld, StepHeld, PTL DEF Spec

(***************************************************************************)
(* Nobody is left in the middle                                            *)
(***************************************************************************)

(* The twin is never suspended, and plans only what ends or goes on.       *)
Served ==
  MaxSuspensions = 0 /\ "SWITCH_AGENT" \notin Strategies /\ "WAIT_AND_REASSESS" \notin Strategies

Purchase(a) == approvals[a].action = "purchase.execute"

(* A human is asked about task t's purchase, or the answer is on its way.  *)
AnswerToCome(t) ==
  \E a \in 1 .. Len(approvals) : Purchase(a) /\ approvals[a].task = t /\ Awaits(a)

(* An event that makes the engine advance the mission is on its way.       *)
Signalled == \E e \in Event : e.type # "APPROVAL_RECEIVED" /\ Queued(e)

Untouched == status = "CREATED" => pc = "idle" /\ queue = <<>> /\ approvals = <<>>

(* What the mission's status can be, by what the worker awaits: it is never *)
(* left AT_RISK or RECOVERING.                                             *)
Phases ==
  /\ twinUp
  /\ pc = "agent" => status = "EXECUTING"
  /\ pc = "twin" => status \in {"EXECUTING", "RECOVERING"}
  /\ pc = "idle" => status \in {"CREATED", "EXECUTING", "WAITING_APPROVAL", "COMPLETED", "FAILED"}

(* A resume takes the mission out of WAITING_APPROVAL with its tasks as    *)
(* they are.  What then drives it is the event of the resume, or the       *)
(* answer to a purchase it no longer says it waits for.                    *)
Driven == pc = "idle" /\ status = "EXECUTING" => Signalled \/ \E t \in Tasks : AnswerToCome(t)

(* Only such an answer can be what a task in WAITING waits for.            *)
Backed ==
  status \notin TerminalMission =>
    \A t \in Tasks : /\ taskStatus[t] # "BLOCKED"
                     /\ taskStatus[t] = "WAITING" => AnswerToCome(t)

(* Only the buyer, which is the last task, asks about purchases.           *)
Bought ==
  /\ \A a \in 1 .. Len(approvals) : Purchase(a) => approvals[a].task \in Buyers
  /\ job.asked # 0 => Purchase(job.asked) /\ job.task \in Buyers

GoingCore == Untouched /\ Phases /\ Driven /\ Backed /\ Bought

GoingInv == HeldInv /\ WaitingInv /\ GoingCore

(* The first task not done has those it depends on done.                   *)
LEMMA FirstUnfinished ==
  ASSUME NEW ts, ~AllCompleted(ts)
  PROVE  \E t \in Tasks : /\ ts[t] # "COMPLETED"
                          /\ \A d \in DependsOn(t) : ts[d] = "COMPLETED"
<1> DEFINE S == {t \in Tasks : ts[t] # "COMPLETED"}
<1>1. S # {} /\ S \in SUBSET Nat
  BY DEF AllCompleted, Tasks
<1>2. PICK m \in S : \A n \in S : <<n, m>> \notin OpToRel(<, Nat)
  BY <1>1, NatLessThanWellFounded, WFMin
<1>3. m \in Tasks /\ m \in Nat
  BY <1>1
<1>4. ASSUME NEW d \in DependsOn(m) PROVE ts[d] = "COMPLETED"
  <2>1. d \in Tasks /\ d \in Nat /\ d < m
    BY <1>3, <1>4, EngineAssumption DEF DependsOn, Tasks
  <2>2. <<d, m>> \in OpToRel(<, Nat)
    BY <1>3, <2>1 DEF OpToRel
  <2>3. QED
    BY <1>2, <2>1, <2>2
<1>5. QED
  BY <1>3, <1>4

(* advance finds something to do, or a task that waits for an answer.      *)
LEMMA AdvanceGoesOn ==
  ASSUME NEW ts \in [Tasks -> TaskStatus], NEW log, Advance("EXECUTING", ts, log),
         \A t \in Tasks : /\ ts[t] \notin {"RUNNING", "BLOCKED"}
                          /\ ts[t] = "WAITING" => AnswerToCome(t)',
         stray' = {}, twinUp'
  PROVE  /\ Untouched' /\ Phases' /\ Driven' /\ Backed'
         /\ job'.asked = 0
<1>1. CASE NothingToRun("EXECUTING", ts, log)
  <2>1. /\ status' = "EXECUTING" /\ taskStatus' = ts /\ pc' = "idle" /\ job' = NoJob
        /\ Runnable(ts) = {} /\ ~AllCompleted(ts)
    BY <1>1 DEF NothingToRun, Advances, TerminalMission, Rest
  <2>2. PICK t \in Tasks : /\ ts[t] # "COMPLETED"
                           /\ \A d \in DependsOn(t) : ts[d] = "COMPLETED"
    BY <2>1, FirstUnfinished
  <2>3. ts[t] \notin Claimable
    BY <2>1, <2>2 DEF Runnable
  <2>4. ts[t] = "WAITING"
    BY <2>2, <2>3 DEF Claimable, TaskStatus
  <2>5. QED
    BY <2>1, <2>4 DEF Untouched, Phases, Driven, Backed, NoJob
<1>2. CASE Complete("EXECUTING", ts, log)
  <2>1. status' = "COMPLETED" /\ pc' = "idle" /\ job' = NoJob
    BY <1>2 DEF Complete, Moved, CanTransition, Successors, TerminalMission, Rest
  <2>2. QED
    BY <2>1 DEF Untouched, Phases, Driven, Backed, NoJob, TerminalMission
<1>3. CASE RunTask("EXECUTING", ts, log)
  <2>1. PICK t \in Runnable(ts) :
          /\ status' = "EXECUTING" /\ pc' = "agent"
          /\ taskStatus' = [ts EXCEPT ![t] = "RUNNING"]
          /\ job' = [task |-> t, offer |-> offer', asked |-> 0]
    BY <1>3 DEF RunTask
  <2>2. job'.asked = 0
    BY <2>1
  <2>3. QED
    BY <2>1, <2>2 DEF Untouched, Phases, Driven, Backed
<1>4. QED
  BY <1>1, <1>2, <1>3 DEF Advance

LEMMA DirectiveGoesOn ==
  ASSUME TypeOK, RunningIsHeld, pc # "agent",
         \A t \in Tasks : /\ taskStatus[t] # "BLOCKED"
                          /\ taskStatus[t] = "WAITING" => AnswerToCome(t)',
         stray' = {}, twinUp',
         NEW directive, directive # "WAIT", NEW st \in {"EXECUTING", "RECOVERING"},
         NEW t \in Tasks, NEW log, ApplyDirective(directive, st, t, log)
  PROVE  /\ Untouched' /\ Phases' /\ Driven' /\ Backed'
         /\ job'.asked = 0
<1>1. CASE RetryTask(st, t, log)
  <2> DEFINE ts == [taskStatus EXCEPT ![t] = "PENDING"]
  <2>1. Moved(st, "EXECUTING") = "EXECUTING"
    BY DEF Moved, CanTransition, Successors, TerminalMission
  <2>2. \E l : Advance("EXECUTING", ts, l)
    BY <1>1, <2>1 DEF RetryTask
  <2>3. /\ ts \in [Tasks -> TaskStatus]
        /\ \A u \in Tasks : /\ ts[u] \notin {"RUNNING", "BLOCKED"}
                            /\ ts[u] = "WAITING" => AnswerToCome(u)'
    BY DEF TypeOK, TaskStatus, RunningIsHeld
  <2> HIDE DEF ts
  <2>4. QED
    BY <2>2, <2>3, AdvanceGoesOn
<1>2. CASE status' = Moved(st, "FAILED") /\ Rest
  <2>1. status' = "FAILED" /\ pc' = "idle" /\ job' = NoJob
    BY <1>2 DEF Moved, CanTransition, Successors, TerminalMission, Rest
  <2>2. QED
    BY <2>1 DEF Untouched, Phases, Driven, Backed, NoJob, TerminalMission
<1>3. QED
  BY <1>1, <1>2 DEF ApplyDirective, Fail

(* What is known of a plan where Served holds.                             *)
LEMMA PlanGoesOn ==
  ASSUME Served, NEW plan \in Plan \cup {NoPlan}
  PROVE  Directive(plan) # "WAIT" /\ GrantedDirective(plan) # "WAIT"
<1>1. plan.strategy # "WAIT_AND_REASSESS"
  BY DEF Served, Plan, NoPlan
<1>2. QED
  BY <1>1 DEF Directive, GrantedDirective, Switching

LEMMA HandleGoes ==
  ASSUME Served, GoingInv, Handle
  PROVE  GoingCore'
<1>1. /\ TypeOK /\ RunningIsHeld /\ pc = "idle" /\ queue # <<>> /\ queue \in Seq(Event)
      /\ taskStatus \in [Tasks -> TaskStatus] /\ Signal("MISSION_RESUMED") \in Event
      /\ UNCHANGED <<approvals, twinUp>> /\ twinUp
      /\ status \in {"EXECUTING", "WAITING_APPROVAL", "COMPLETED", "FAILED"}
      /\ job.asked = 0 /\ stray = {} /\ stray' = {}
  <2>1. pc = "idle" /\ queue # <<>> /\ UNCHANGED <<approvals, twinUp>>
    BY DEF Handle, HandleProgress, HandleRefusal, HandleRecoveryGrant, HandlePurchaseGrant,
           OnApproval, approvalVars, operatorVars
  <2>2. /\ TypeOK /\ RunningIsHeld /\ stray = {} /\ queue \in Seq(Event)
        /\ taskStatus \in [Tasks -> TaskStatus] /\ job.asked = 0
    BY <2>1 DEF GoingInv, HeldInv, Stationary, TypeOK, WorkerOK, NoJob
  <2>3. stray' = {}
    BY HandleHeld DEF GoingInv, Stationary
  <2>4. QED
    BY <2>1, <2>2, <2>3, EventType DEF GoingInv, GoingCore, Untouched, Phases
<1>2. \A a \in 1 .. Len(approvals) :
        approvals[a] \in Approval /\ approvals[a].task \in Tasks
          /\ approvals[a].plan \in Plan \cup {NoPlan}
  <2>1. approvals \in Seq(Approval)
    BY <1>1 DEF TypeOK
  <2>2. \A a \in 1 .. Len(approvals) : approvals[a] \in Approval
    BY <2>1, ElementOfSeq
  <2>3. QED
    BY <2>2 DEF Approval
<1>3. ASSUME queue' = Tail(queue) \/ queue' = Continue(Tail(queue))
      PROVE  \A e : e # Head(queue) /\ Queued(e) => Queued(e)'
  BY <1>1, <1>3, QueuedTaken DEF Continue
<1>4. ASSUME \A a \in 1 .. Len(approvals) : Purchase(a) /\ Queued(Decided(a)) => Queued(Decided(a))'
      PROVE  \A t : AnswerToCome(t) => AnswerToCome(t)'
  BY <1>1, <1>4 DEF AnswerToCome, Purchase, Awaits
<1>5. SUFFICES Untouched' /\ Phases' /\ Driven' /\ Backed' /\ job'.asked = 0
  BY <1>1 DEF GoingInv, GoingCore, Bought, Purchase
<1>6. CASE HandleProgress
  <2>1. /\ Head(queue).type # "APPROVAL_RECEIVED" /\ queue' = Tail(queue)
        /\ Advance(status, taskStatus, checkpoints)
    BY <1>6 DEF HandleProgress
  <2>2. \A a : Decided(a) # Head(queue)
    BY <2>1 DEF Decided
  <2>3. \A t : AnswerToCome(t) => AnswerToCome(t)'
    BY <1>3, <1>4, <2>1, <2>2
  <2>4. CASE status = "EXECUTING"
    <3>1. \A t \in Tasks : /\ taskStatus[t] \notin {"RUNNING", "BLOCKED"}
                           /\ taskStatus[t] = "WAITING" => AnswerToCome(t)'
      BY <1>1, <2>3, <2>4 DEF GoingInv, GoingCore, Backed, RunningIsHeld, TerminalMission
    <3>2. QED
      BY <1>1, <2>1, <2>4, <3>1, AdvanceGoesOn
  <2>5. CASE status # "EXECUTING"
    <3>1. ~Advances(status)
      BY <1>1, <2>5 DEF Advances, TerminalMission
    <3>2. UNCHANGED <<status, taskStatus>> /\ Rest
      BY <2>1, <3>1 DEF Advance, NothingToRun, Complete, RunTask
    <3>3. QED
      BY <1>1, <2>3, <2>5, <3>2 DEF Rest, NoJob, GoingInv, GoingCore, Untouched, Phases, Driven,
                                    Backed
  <2>6. QED
    BY <2>4, <2>5
<1>7. ASSUME NEW a \in 1 .. Len(approvals), HandleRefusal(a)
      PROVE  Untouched' /\ Phases' /\ Driven' /\ Backed' /\ job'.asked = 0
  <2>1. status' = Moved(status, "FAILED") /\ pc' = "idle" /\ job' = NoJob
    BY <1>7 DEF HandleRefusal, Fail, Rest
  <2>2. status' \in {"COMPLETED", "FAILED"}
    BY <1>1, <2>1 DEF Moved, CanTransition, TerminalMission
  <2>3. QED
    BY <1>1, <2>1, <2>2 DEF Untouched, Phases, Driven, Backed, NoJob, TerminalMission
<1>8. ASSUME NEW a \in 1 .. Len(approvals), HandleRecoveryGrant(a)
      PROVE  Untouched' /\ Phases' /\ Driven' /\ Backed' /\ job'.asked = 0
  <2>1. /\ Head(queue) = Decided(a) /\ queue' = Tail(queue)
        /\ ~Purchase(a)
    BY <1>8 DEF HandleRecoveryGrant, OnApproval, Purchase
  <2>2. \A b \in 1 .. Len(approvals) : Purchase(b) => Decided(b) # Head(queue)
    BY <2>1 DEF Decided
  <2>3. \A t : AnswerToCome(t) => AnswerToCome(t)'
    BY <1>3, <1>4, <2>1, <2>2
  <2>4. CASE CanTransition(status, "RECOVERING")
    <3>1. status \notin TerminalMission
      BY <2>4 DEF CanTransition
    <3>2. \A t \in Tasks : /\ taskStatus[t] # "BLOCKED"
                           /\ taskStatus[t] = "WAITING" => AnswerToCome(t)'
      BY <2>3, <3>1 DEF GoingInv, GoingCore, Backed
    <3>3. PICK log : ApplyDirective(GrantedDirective(approvals[a].plan), "RECOVERING",
                                    approvals[a].task, log)
      BY <1>8, <2>4 DEF HandleRecoveryGrant
    <3>4. GrantedDirective(approvals[a].plan) # "WAIT" /\ approvals[a].task \in Tasks
      BY <1>2, PlanGoesOn
    <3>5. QED
      BY <1>1, <3>2, <3>3, <3>4, DirectiveGoesOn
  <2>5. CASE ~CanTransition(status, "RECOVERING")
    <3>1. UNCHANGED <<status, taskStatus, pc, job>>
      BY <1>8, <2>5 DEF HandleRecoveryGrant, taskVars, workerVars
    <3>2. Signalled => Signalled'
      BY <1>3, <2>1 DEF Signalled, Decided
    <3>3. QED
      BY <1>1, <2>3, <3>1, <3>2 DEF GoingInv, GoingCore, Untouched, Phases, Driven, Backed
  <2>6. QED
    BY <2>4, <2>5
<1>9. ASSUME NEW a \in 1 .. Len(approvals), HandlePurchaseGrant(a)
      PROVE  Untouched' /\ Phases' /\ Driven' /\ Backed' /\ job'.asked = 0
  <2>1. /\ Head(queue) = Decided(a) /\ UNCHANGED <<pc, job>>
        /\ taskStatus' = [taskStatus EXCEPT ![approvals[a].task] = "PENDING"]
        /\ status' = Moved(status, "EXECUTING")
        /\ queue' = IF CanTransition(status, "EXECUTING")
                      THEN Continue(Tail(queue)) ELSE Tail(queue)
    BY <1>9 DEF HandlePurchaseGrant, OnApproval, workerVars
  <2>2. \A e : e # Head(queue) /\ Queued(e) => Queued(e)'
    BY <1>3, <2>1
  <2>3. CASE status \in {"EXECUTING", "WAITING_APPROVAL"}
    <3>1. status' = "EXECUTING" /\ queue' = Append(Tail(queue), Signal("MISSION_RESUMED"))
      BY <2>1, <2>3 DEF Moved, CanTransition, Successors, TerminalMission, Continue
    <3>2. Signalled'
      <4>1. Tail(queue) \in Seq(Event)
        BY <1>1, HeadTailProperties
      <4>2. Len(queue') \in 1 .. Len(queue') /\ queue'[Len(queue')] = Signal("MISSION_RESUMED")
        BY <1>1, <3>1, <4>1, AppendProperties, LenProperties
      <4>3. Queued(Signal("MISSION_RESUMED"))'
        BY <4>2 DEF Queued
      <4>4. Signal("MISSION_RESUMED").type # "APPROVAL_RECEIVED"
        BY DEF Signal
      <4>5. QED
        BY <1>1, <4>3, <4>4 DEF Signalled
    <3>3. ASSUME NEW t \in Tasks
          PROVE  /\ taskStatus'[t] # "BLOCKED"
                 /\ taskStatus'[t] = "WAITING" => AnswerToCome(t)'
      <4>1. taskStatus[t] # "BLOCKED" /\ (taskStatus[t] = "WAITING" => AnswerToCome(t))
        BY <2>3 DEF GoingInv, GoingCore, Backed, TerminalMission
      <4>2. CASE t = approvals[a].task
        BY <1>1, <2>1, <4>2
      <4>3. CASE t # approvals[a].task
        <5>1. taskStatus'[t] = taskStatus[t]
          BY <1>1, <2>1, <4>3
        <5>2. \A b \in 1 .. Len(approvals) : approvals[b].task = t => Decided(b) # Head(queue)
          BY <2>1, <4>3 DEF Decided
        <5>3. AnswerToCome(t) => AnswerToCome(t)'
          BY <1>1, <2>2, <5>2 DEF AnswerToCome, Purchase, Awaits
        <5>4. QED
          BY <4>1, <5>1, <5>3
      <4>4. QED
        BY <4>2, <4>3
    <3>4. QED
      BY <1>1, <2>1, <3>1, <3>2, <3>3 DEF Untouched, Phases, Driven, Backed
  <2>4. CASE status \in {"COMPLETED", "FAILED"}
    <3>1. UNCHANGED status
      BY <2>1, <2>4 DEF Moved, CanTransition, TerminalMission
    <3>2. QED
      BY <1>1, <2>1, <2>4, <3>1 DEF Untouched, Phases, Driven, Backed, TerminalMission
  <2>5. QED
    BY <1>1, <2>3, <2>4
<1>10. QED
  BY <1>6, <1>7, <1>8, <1>9 DEF Handle

LEMMA AgentGoes ==
  ASSUME Orderly, GoingInv, AgentAsks \/ AgentEnds
  PROVE  GoingCore'
<1>1. /\ TypeOK /\ pc = "agent" /\ status = "EXECUTING" /\ job \in Job /\ job.task \in Tasks
      /\ job.asked \in Requested /\ approvals \in Seq(Approval) /\ queue \in Seq(Event)
      /\ taskStatus \in [Tasks -> TaskStatus] /\ twinUp /\ UNCHANGED twinUp
      /\ Signal("TASK_COMPLETED") \in Event /\ ~FreeReport
  <2>1. pc = "agent" /\ UNCHANGED twinUp
    BY DEF AgentEnds, AgentAsks, AgentSucceeds, AgentNeedsApproval, AgentFails, operatorVars
  <2>2. TypeOK /\ job \in Job /\ job.task \in Tasks
    BY <2>1 DEF GoingInv, HeldInv, TypeOK, WorkerOK, Job
  <2>3. QED
    BY <2>1, <2>2, EventType DEF GoingInv, GoingCore, Phases, TypeOK, Orderly, FreeReport
<1>2. \A t \in Tasks : /\ taskStatus[t] # "BLOCKED"
                       /\ taskStatus[t] = "WAITING" => AnswerToCome(t)
  BY <1>1 DEF GoingInv, GoingCore, Backed, TerminalMission
<1>3. CASE AgentAsks
  <2> DEFINE x == [status |-> "PENDING", action |-> "purchase.execute", task |-> job.task,
                   offer |-> job.offer, plan |-> NoPlan]
  <2>1. UNCHANGED <<status, taskStatus, pc, queue>> /\ job.task \in Buyers
    BY <1>3 DEF AgentAsks, missionVars, taskVars
  <2>2. /\ x \in Approval /\ x.status = "PENDING" /\ x.task = job.task
        /\ x.action = "purchase.execute"
    BY <1>1 DEF Approval, ApprovalStatus, Job
  <2> HIDE DEF x
  <2>3. CASE approvals' = Append(approvals, x) /\ job' = [job EXCEPT !.asked = Len(approvals')]
    <3>1. /\ Len(approvals') = Len(approvals) + 1 /\ Len(approvals) \in Nat
          /\ \A b \in 1 .. Len(approvals) : approvals'[b] = approvals[b]
          /\ approvals'[Len(approvals) + 1] = x
      BY <1>1, <2>2, <2>3, AppendProperties, LenProperties
    <3>2. \A b \in 1 .. Len(approvals) : Awaits(b) => Awaits(b)'
      BY <2>1, <2>2, <2>3, RequestKept DEF GoingInv
    <3>3. \A t : AnswerToCome(t) => AnswerToCome(t)'
      BY <3>1, <3>2 DEF AnswerToCome, Purchase
    <3>4. job'.asked = Len(approvals) + 1 /\ job'.task = job.task
      BY <1>1, <2>3, <3>1 DEF Job
    <3>5. Bought'
      BY <2>1, <2>2, <3>1, <3>4 DEF GoingInv, GoingCore, Bought, Purchase
    <3>6. QED
      BY <1>1, <1>2, <2>1, <3>3, <3>5 DEF GoingCore, Untouched, Phases, Driven, Backed
  <2>4. CASE /\ UNCHANGED approvals
             /\ \E a \in ForOffer(job.offer) : job' = [job EXCEPT !.asked = a]
    <3>1. PICK a \in ForOffer(job.offer) : job' = [job EXCEPT !.asked = a]
      BY <2>4
    <3>2. Purchase(a) /\ job'.asked = a /\ job'.task = job.task
      BY <1>1, <3>1 DEF ForOffer, Purchase, Job
    <3>3. Bought'
      BY <2>1, <2>4, <3>2 DEF GoingInv, GoingCore, Bought, Purchase
    <3>4. \A t : AnswerToCome(t) => AnswerToCome(t)'
      BY <2>1, <2>4 DEF AnswerToCome, Purchase, Awaits, Queued
    <3>5. QED
      BY <1>1, <1>2, <2>1, <3>3, <3>4 DEF GoingCore, Untouched, Phases, Driven, Backed
  <2>5. QED
    BY <1>3, <2>3, <2>4 DEF AgentAsks, x
<1>4. ASSUME UNCHANGED approvals, \A e : Queued(e) => Queued(e)'
      PROVE  \A t : AnswerToCome(t) => AnswerToCome(t)'
  BY <1>4 DEF AnswerToCome, Purchase, Awaits
<1>5. ASSUME UNCHANGED approvals, job'.asked = 0 PROVE Bought'
  BY <1>5 DEF GoingInv, GoingCore, Bought, Purchase
<1>6. CASE AgentSucceeds
  <2>1. /\ UNCHANGED <<approvals, status>> /\ pc' = "idle" /\ job'.asked = 0
        /\ taskStatus' = [taskStatus EXCEPT ![job.task] = "COMPLETED"]
        /\ queue' = Append(queue, Signal("TASK_COMPLETED"))
    BY <1>1, <1>6 DEF AgentSucceeds, approvalVars, TaskEnds, Rest, NoJob
  <2>2. Queued(Signal("TASK_COMPLETED"))' /\ \A e : Queued(e) => Queued(e)'
    BY <1>1, <2>1, QueuedAppend
  <2>3. Signalled'
    BY <1>1, <2>2 DEF Signalled, Signal
  <2>4. Bought' /\ \A t : AnswerToCome(t) => AnswerToCome(t)'
    BY <1>4, <1>5, <2>1, <2>2
  <2>5. QED
    BY <1>1, <1>2, <2>1, <2>3, <2>4 DEF GoingCore, Untouched, Phases, Driven, Backed
<1>7. CASE AgentNeedsApproval
  <2>1. /\ UNCHANGED <<approvals, queue>> /\ pc' = "idle" /\ job'.asked = 0
        /\ taskStatus' = [taskStatus EXCEPT ![job.task] = "WAITING"]
        /\ status' = Moved(status, "WAITING_APPROVAL") /\ job.asked # 0
    BY <1>1, <1>7 DEF AgentNeedsApproval, approvalVars, TaskEnds, Rest, NoJob
  <2>2. status' = "WAITING_APPROVAL"
    BY <1>1, <2>1 DEF Moved, CanTransition, Successors, TerminalMission
  <2>3. Bought' /\ \A t : AnswerToCome(t) => AnswerToCome(t)'
    BY <1>4, <1>5, <2>1 DEF Queued
  <2>4. AnswerToCome(job.task)
    <3>1. job.asked \in 1 .. Len(approvals) /\ Awaits(job.asked)
      BY <1>1, <2>1 DEF Requested, GoingInv, WaitingInv, AskedIsAwaited
    <3>2. /\ Purchase(job.asked) /\ job.task \in Buyers
          /\ approvals[job.asked].task \in Buyers
      BY <2>1, <3>1 DEF GoingInv, GoingCore, Bought
    <3>3. approvals[job.asked].task = job.task
      BY <3>2, EngineAssumption
    <3>4. QED
      BY <3>1, <3>2, <3>3 DEF AnswerToCome
  <2>5. QED
    BY <1>1, <1>2, <2>1, <2>2, <2>3, <2>4 DEF GoingCore, Untouched, Phases, Driven, Backed
<1>8. CASE AgentFails
  <2>1. CanTransition(status, "AT_RISK")
    BY <1>1 DEF CanTransition, Successors, TerminalMission
  <2>2. /\ UNCHANGED <<approvals, queue>> /\ pc' = "twin" /\ status' = "RECOVERING"
        /\ taskStatus' = [taskStatus EXCEPT ![job.task] = "FAILED"]
        /\ job' = [job EXCEPT !.asked = 0]
    BY <1>1, <1>8, <2>1 DEF AgentFails, approvalVars, TaskEnds
  <2>3. job'.asked = 0
    BY <1>1, <2>2 DEF Job
  <2>4. Bought' /\ \A t : AnswerToCome(t) => AnswerToCome(t)'
    BY <1>4, <1>5, <2>2, <2>3 DEF Queued
  <2>5. QED
    BY <1>1, <1>2, <2>2, <2>4 DEF GoingCore, Untouched, Phases, Driven, Backed
<1>9. QED
  BY <1>3, <1>6, <1>7, <1>8 DEF AgentEnds

LEMMA TwinGoes ==
  ASSUME Served, GoingInv, TwinEnds
  PROVE  GoingCore'
<1>1. /\ TypeOK /\ RunningIsHeld /\ pc = "twin" /\ status \in {"EXECUTING", "RECOVERING"}
      /\ job \in Job /\ job.task \in Tasks /\ approvals \in Seq(Approval)
      /\ twinUp /\ UNCHANGED twinUp /\ stray' = {}
  <2>1. pc = "twin" /\ UNCHANGED twinUp
    BY DEF TwinEnds, PlanRefused, PlanNeedsApproval, PlanAllowed, operatorVars
  <2>2. TypeOK /\ RunningIsHeld /\ job \in Job /\ job.task \in Tasks
    BY <2>1 DEF GoingInv, HeldInv, TypeOK, WorkerOK, Job
  <2>3. stray' = {}
    BY WorkerHeld DEF GoingInv, Stationary, Served
  <2>4. QED
    BY <2>1, <2>2, <2>3 DEF GoingInv, GoingCore, Phases, TypeOK
<1>2. \A t \in Tasks : /\ taskStatus[t] # "BLOCKED"
                       /\ taskStatus[t] = "WAITING" => AnswerToCome(t)
  BY <1>1 DEF GoingInv, GoingCore, Backed, TerminalMission
<1>3. ASSUME PlanRefused PROVE FALSE
  BY <1>1, <1>3 DEF PlanRefused
<1>4. ASSUME NEW plan \in Plans, PlanNeedsApproval(plan) PROVE GoingCore'
  <2> DEFINE x == [status |-> "PENDING", action |-> "recovery.apply", task |-> job.task,
                   offer |-> NoOffer, plan |-> plan]
  <2>1. x \in Approval /\ x.status = "PENDING" /\ x.action # "purchase.execute"
    BY <1>1 DEF Approval, ApprovalStatus, Plans
  <2>2. /\ approvals' = Append(approvals, x) /\ UNCHANGED <<queue, taskStatus>>
        /\ pc' = "idle" /\ job'.asked = 0 /\ status' = Moved(status, "WAITING_APPROVAL")
    BY <1>4 DEF PlanNeedsApproval, taskVars, Rest, NoJob
  <2>3. status' = "WAITING_APPROVAL"
    BY <1>1, <2>2 DEF Moved, CanTransition, Successors, TerminalMission
  <2> HIDE DEF x
  <2>4. /\ Len(approvals') = Len(approvals) + 1 /\ Len(approvals) \in Nat
        /\ \A b \in 1 .. Len(approvals) : approvals'[b] = approvals[b]
        /\ approvals'[Len(approvals) + 1] = x
    BY <1>1, <2>1, <2>2, AppendProperties, LenProperties
  <2>5. \A b \in 1 .. Len(approvals) : Awaits(b) => Awaits(b)'
    BY <2>1, <2>2, RequestKept DEF GoingInv
  <2>6. \A t : AnswerToCome(t) => AnswerToCome(t)'
    BY <2>4, <2>5 DEF AnswerToCome, Purchase
  <2>7. Bought'
    BY <2>1, <2>2, <2>4 DEF GoingInv, GoingCore, Bought, Purchase
  <2>8. QED
    BY <1>1, <1>2, <2>2, <2>3, <2>6, <2>7 DEF GoingCore, Untouched, Phases, Driven, Backed
<1>5. ASSUME NEW plan \in Plans, PlanAllowed(plan) PROVE GoingCore'
  <2>1. /\ UNCHANGED <<approvals, queue>>
        /\ ApplyDirective(Directive(plan), status, job.task, checkpoints)
    BY <1>5 DEF PlanAllowed, approvalVars
  <2>2. \A t : AnswerToCome(t) => AnswerToCome(t)'
    BY <2>1 DEF AnswerToCome, Purchase, Awaits, Queued
  <2>3. Directive(plan) # "WAIT"
    BY PlanGoesOn DEF Plans
  <2>4. Untouched' /\ Phases' /\ Driven' /\ Backed' /\ job'.asked = 0
    BY <1>1, <1>2, <2>1, <2>2, <2>3, DirectiveGoesOn
  <2>5. QED
    BY <2>1, <2>4 DEF GoingInv, GoingCore, Bought, Purchase
<1>6. QED
  BY <1>3, <1>4, <1>5 DEF TwinEnds

LEMMA OperatorGoes ==
  ASSUME Orderly, Served, GoingInv, Operator
  PROVE  GoingCore'
<1>1. /\ TypeOK /\ approvals \in Seq(Approval) /\ queue \in Seq(Event)
      /\ taskStatus \in [Tasks -> TaskStatus] /\ twinUp /\ job.asked \in Requested
      /\ Signal("MISSION_STARTED") \in Event /\ Signal("MISSION_RESUMED") \in Event
  BY EventType DEF GoingInv, GoingCore, Phases, HeldInv, TypeOK
<1>2. ASSUME UNCHANGED approvals, \A e : Queued(e) => Queued(e)'
      PROVE  \A t : AnswerToCome(t) => AnswerToCome(t)'
  BY <1>2 DEF AnswerToCome, Purchase, Awaits
<1>3. ASSUME UNCHANGED <<approvals, job>> PROVE Bought'
  BY <1>3 DEF GoingInv, GoingCore, Bought, Purchase
<1>4. ASSUME NEW type \in {"MISSION_STARTED", "MISSION_RESUMED"},
             queue' = Append(queue, Signal(type))
      PROVE  Signalled' /\ \A e : Queued(e) => Queued(e)'
  <2>1. Queued(Signal(type))' /\ \A e : Queued(e) => Queued(e)'
    BY <1>1, <1>4, QueuedAppend
  <2>2. QED
    BY <1>1, <2>1 DEF Signalled, Signal
<1>5. CASE Start
  <2>1. /\ status = "CREATED" /\ status' = "EXECUTING"
        /\ queue' = Append(queue, Signal("MISSION_STARTED"))
        /\ UNCHANGED <<approvals, taskStatus, pc, job, twinUp>>
    BY <1>5 DEF Start, taskVars, approvalVars, workerVars, operatorVars
  <2>2. /\ Signalled' /\ Bought' /\ pc = "idle"
        /\ \A t : AnswerToCome(t) => AnswerToCome(t)'
    BY <1>2, <1>3, <1>4, <2>1 DEF GoingInv, GoingCore, Untouched
  <2>3. QED
    BY <1>1, <2>1, <2>2 DEF GoingInv, GoingCore, Untouched, Phases, Driven, Backed, TerminalMission
<1>6. ASSUME NEW a \in 1 .. Len(approvals),
             DecideTooLate(a) \/ ExpireStale(a)
               \/ \E verdict \in {"APPROVED", "REJECTED"} : Decide(a, verdict)
      PROVE  GoingCore'
  <2>1. PICK verdict \in ApprovalStatus : approvals' = [approvals EXCEPT ![a].status = verdict]
    BY <1>6 DEF Decide, DecideTooLate, ExpireStale, ApprovalStatus
  <2>2. UNCHANGED <<status, taskStatus, pc, job, twinUp>> /\ queue' = Append(queue, Decided(a))
    BY <1>6 DEF Decide, DecideTooLate, ExpireStale, Announce, Orderly, missionVars, taskVars,
                workerVars, operatorVars
  <2>3. Queued(Decided(a))' /\ \A e : Queued(e) => Queued(e)'
    BY <1>1, <2>2, EventType, QueuedAppend
  <2>4. /\ Len(approvals') = Len(approvals)
        /\ \A b \in 1 .. Len(approvals) :
             /\ b # a => approvals'[b] = approvals[b]
             /\ approvals'[b].action = approvals[b].action
             /\ approvals'[b].task = approvals[b].task
    BY <1>1, <2>1, OneDecided
  <2>5. \A b \in 1 .. Len(approvals) : Awaits(b) => Awaits(b)'
    BY <2>3, <2>4 DEF Awaits
  <2>6. \A t : AnswerToCome(t) => AnswerToCome(t)'
    BY <2>4, <2>5 DEF AnswerToCome, Purchase
  <2>7. Bought'
    BY <1>1, <2>2, <2>4 DEF GoingInv, GoingCore, Bought, Purchase, Requested
  <2>8. Signalled => Signalled'
    BY <2>3 DEF Signalled
  <2>9. status # "CREATED"
    <3>1. approvals # <<>>
      BY <1>1
    <3>2. QED
      BY <3>1 DEF GoingInv, GoingCore, Untouched
  <2>10. QED
    BY <2>2, <2>6, <2>7, <2>8, <2>9 DEF GoingInv, GoingCore, Untouched, Phases, Driven, Backed
<1>7. CASE Interrupt
  <2>1. UNCHANGED <<status, approvals, queue, pc, job, twinUp>>
    BY <1>7 DEF Interrupt, missionVars, approvalVars, workerVars
  <2>2. \A t \in Tasks : taskStatus'[t] # taskStatus[t] => taskStatus'[t] = "PENDING"
    BY <1>1, <1>7 DEF Interrupt
  <2>3. (\A t : AnswerToCome(t) => AnswerToCome(t)') /\ (Signalled => Signalled') /\ Bought'
    BY <1>2, <1>3, <2>1 DEF Queued, Signalled
  <2>4. QED
    BY <2>1, <2>2, <2>3 DEF GoingInv, GoingCore, Untouched, Phases, Driven, Backed
<1>8. ASSUME NEW c \in checkpoints.all, Resume(c) PROVE GoingCore'
  <2>1. /\ status \notin TerminalMission
        /\ queue' = Append(queue, Signal("MISSION_RESUMED"))
        /\ UNCHANGED <<approvals, pc, job, twinUp>>
        /\ status' = status \/ status' = Moved(status, "EXECUTING")
    BY <1>8 DEF Resume, Continue, approvalVars, workerVars
  <2>2. \A t \in Tasks : taskStatus'[t] # taskStatus[t] => taskStatus'[t] = "PENDING"
    BY <1>1, <1>8 DEF Resume
  <2>3. /\ Signalled' /\ Bought' /\ \A t : AnswerToCome(t) => AnswerToCome(t)'
    BY <1>2, <1>3, <1>4, <2>1
  <2>4. status' # "CREATED"
    <3>1. CASE status = "CREATED"
      <4>1. ~StillWaiting(c.pending)
        <5>1. c.pending \in Requested
          BY <1>1 DEF TypeOK, Traceable
        <5>2. approvals = <<>> /\ Len(<<>>) = 0
          BY <3>1 DEF GoingInv, GoingCore, Untouched
        <5>3. QED
          BY <5>1, <5>2 DEF StillWaiting, Requested
      <4>2. status' = Moved(status, "EXECUTING")
        BY <1>8, <4>1 DEF Resume
      <4>3. QED
        BY <3>1, <4>2 DEF Moved, CanTransition, Successors, TerminalMission
    <3>2. CASE status # "CREATED"
      BY <2>1, <3>2 DEF Moved
    <3>3. QED
      BY <3>1, <3>2
  <2>5. Phases'
    BY <2>1 DEF GoingInv, GoingCore, Phases, Moved
  <2>6. QED
    BY <1>1, <2>1, <2>2, <2>3, <2>4, <2>5 DEF GoingInv, GoingCore, Untouched, Driven, Backed
<1>9. ASSUME SuspendTwin PROVE FALSE
  BY <1>1, <1>9 DEF SuspendTwin, Served, TypeOK
<1>10. ASSUME ReinstateTwin PROVE FALSE
  BY <1>1, <1>10 DEF ReinstateTwin
<1>11. QED
  BY <1>5, <1>6, <1>7, <1>8, <1>9, <1>10 DEF Operator

LEMMA InitGoing == Init => GoingInv
<1>1. Init => GoingCore
  BY DEF Init, GoingCore, Untouched, Phases, Driven, Backed, Bought, NoJob
<1>2. QED
  BY <1>1, InitHeld, InitWaiting DEF GoingInv

LEMMA StepGoing == Orderly /\ Served /\ GoingInv /\ [Next]_vars => GoingInv'
<1> SUFFICES ASSUME Orderly, Served, GoingInv, [Next]_vars PROVE GoingInv'
  OBVIOUS
<1>1. HeldInv' /\ WaitingInv'
  BY StepHeld, StepWaiting DEF GoingInv, Served
<1>2. CASE UNCHANGED vars
  <2>1. UNCHANGED <<status, taskStatus, approvals, queue, pc, job, twinUp>>
    BY <1>2 DEF vars, missionVars, taskVars, approvalVars, workerVars, operatorVars
  <2>2. GoingCore'
    BY <2>1 DEF GoingInv, GoingCore, Untouched, Phases, Driven, Backed, Bought, Signalled,
                AnswerToCome, Purchase, Awaits, Queued
  <2>3. QED
    BY <1>1, <2>2 DEF GoingInv
<1>3. QED
  BY <1>1, <1>2, HandleGoes, AgentGoes, TwinGoes, OperatorGoes DEF Next, GoingInv

(* ADR-018, "reject any non-terminal state with no pending approval", for  *)
(* a twin nobody suspends and however often the mission is interrupted and *)
(* resumed, from any checkpoint: when the engine has nothing left to do,   *)
(* the mission has not begun, is over, or has an approval for a human to   *)
(* decide.                                                                 *)
THEOREM NeverStuck == Orderly /\ Served => (Spec => []NeverFrozen)
<1> SUFFICES ASSUME Orderly, Served PROVE Spec => []NeverFrozen
  OBVIOUS
<1>1. GoingInv => NeverFrozen
  <2> SUFFICES ASSUME GoingInv, pc = "idle", queue = <<>>,
                      status \notin TerminalMission \cup {"CREATED"}
               PROVE  PendingApprovals # {}
    BY DEF NeverFrozen, Quiet
  <2>1. \A e : ~Queued(e)
    BY DEF Queued
  <2>2. CASE status = "WAITING_APPROVAL"
    <3>1. pending \in 1 .. Len(approvals)
      BY <2>2 DEF GoingInv, WaitingInv, WaitingIsBacked, TypeOK, Requested
    <3>2. approvals[pending].status = "PENDING"
      BY <2>1, <2>2 DEF GoingInv, WaitingInv, WaitingIsBacked, Awaits
    <3>3. QED
      BY <3>1, <3>2 DEF PendingApprovals
  <2>3. CASE status = "EXECUTING"
    <3>1. \E t \in Tasks : AnswerToCome(t)
      BY <2>1, <2>3 DEF GoingInv, GoingCore, Driven, Signalled
    <3>2. QED
      BY <2>1, <3>1 DEF AnswerToCome, Awaits, PendingApprovals
  <2>4. QED
    BY <2>2, <2>3 DEF GoingInv, GoingCore, Phases, TerminalMission
<1>2. QED
  BY <1>1, InitGoing, StepGoing, PTL DEF Spec

=============================================================================
