----------------------- MODULE MissionDeployedProofs -----------------------
(***************************************************************************)
(* Theorems about MissionDeployed, for every number of request handlers,   *)
(* of tasks, of attempts, of repeated deliveries and of crashes.           *)
(***************************************************************************)
EXTENDS MissionDeployed, SequenceTheorems, TLAPS

(***************************************************************************)
(* Type correctness: every number a handler carries means something        *)
(***************************************************************************)

Reporting  == {"activate", "agent", "task_completed", "task_waiting", "task_failed"}
Recovering == {"at_risk", "risk_saved", "recovering", "planning", "twin", "replan", "replanned",
               "directive", "retry_task", "save_retry"}
Granting   == {"granted", "regranted", "route", "reset_task", "save_reset"}
Deciding   == {"decision", "refused"} \cup Granting

(* What the locals of a handler at place p are where the code uses them,   *)
(* with n approvals requested.                                             *)
Locals(p, j, n) ==
  /\ j.mission.pending \in 0 .. n /\ j.asked \in 0 .. n
  /\ j.message.type = "APPROVAL_RECEIVED" => j.message.ref \in 1 .. n
  /\ p \in Deciding => j.message.type = "APPROVAL_RECEIVED"
  /\ p \in {"claim"} \cup Reporting \cup Recovering => j.task \in Tasks
  /\ p \in {"save_retry", "save_reset"} \cup Reporting => j.attempt \in 1 .. MaxAttempts

Asked == \A m \in bus : m.type = "APPROVAL_RECEIVED" => m.ref \in 1 .. Len(approvals)

TypeInv == TypeOK /\ Asked /\ \A i \in Instances : Locals(pc[i], job[i], Len(approvals))

LEMMA NoJobType == NoJob \in Job /\ \A n \in Nat : Locals("idle", NoJob, n)
BY DEF NoJob, NoMission, NoMessage, Job, Mission, MissionStatus, Locals, Deciding, Granting,
       Reporting, Recovering

(* A handler goes on: what is left to show of its new place and locals.    *)
LEMMA GotoType ==
  ASSUME TypeInv, NEW i \in Instances, NEW p \in Places, NEW j, Goto(i, p, j),
         approvals' \in Seq(Approval), Len(approvals) <= Len(approvals'),
         p # "idle" => j \in Job /\ Locals(p, j, Len(approvals'))
  PROVE  /\ pc' \in [Instances -> Places] /\ job' \in [Instances -> Job]
         /\ \A k \in Instances : Locals(pc'[k], job'[k], Len(approvals'))
<1> DEFINE l == IF p = "idle" THEN NoJob ELSE j
<1>1. Len(approvals) \in Nat /\ Len(approvals') \in Nat
  BY LenProperties DEF TypeInv, TypeOK
<1>2. l \in Job /\ Locals(p, l, Len(approvals'))
  BY <1>1, NoJobType
<1>3. pc' = [pc EXCEPT ![i] = p] /\ job' = [job EXCEPT ![i] = l]
  BY DEF Goto
<1>4. pc \in [Instances -> Places] /\ job \in [Instances -> Job]
  BY DEF TypeInv, TypeOK
<1> HIDE DEF l
<1>5. ASSUME NEW k \in Instances PROVE Locals(pc'[k], job'[k], Len(approvals'))
  <2>1. CASE k = i
    BY <2>1, <1>2, <1>3, <1>4
  <2>2. CASE k # i
    <3>1. pc'[k] = pc[k] /\ job'[k] = job[k] /\ Locals(pc[k], job[k], Len(approvals))
      BY <2>2, <1>3, <1>4 DEF TypeInv
    <3>2. \A x : (x \in 0 .. Len(approvals) => x \in 0 .. Len(approvals'))
                 /\ (x \in 1 .. Len(approvals) => x \in 1 .. Len(approvals'))
      BY <1>1
    <3>3. QED
      BY <3>1, <3>2 DEF Locals
  <2>3. QED
    BY <2>1, <2>2
<1>6. QED
  BY <1>2, <1>3, <1>4, <1>5

(* Where the writes of the mission lead.                                   *)
Located == {"claim"} \cup Reporting \cup Recovering

LEMMA SavePlaces ==
  ASSUME NEW p \in DOMAIN AfterSave
  PROVE  /\ p \in Places /\ AfterSave[p] \in Places
         /\ AfterSave[p] \in Deciding => p \in Deciding
         /\ AfterSave[p] \in Located => p \in Located
         /\ AfterSave[p] \in Reporting => p \in Reporting
         /\ AfterSave[p] \notin {"save_retry", "save_reset"}
<1>1. p \in Places
  BY DEF Places
<1>2. p \in {"activate", "progress", "recorded", "held", "risk_saved", "planning", "retried",
             "failed", "completed", "archived", "refused", "granted", "regranted", "replanned",
             "authorised"}
  BY DEF AfterSave
<1>3. AfterSave[p] \in Places
  BY <1>2 DEF AfterSave, Places, Target
<1>4. QED
  BY <1>1, <1>2, <1>3 DEF AfterSave, Deciding, Granting, Located, Reporting, Recovering

LEMMA UpdatePlaces ==
  ASSUME NEW p \in DOMAIN Target
  PROVE  /\ p \in Places /\ AfterUpdate[p] \in Places /\ Target[p] \in MissionStatus
         /\ AfterUpdate[p] \notin Deciding \cup Reporting \cup {"claim", "save_retry", "save_reset"}
         /\ AfterUpdate[p] \in Recovering => p \in Recovering
<1>1. p \in Places
  BY DEF Places
<1>2. p \in {"start", "reinstate", "hold", "at_risk", "recovering", "retry", "failing", "complete",
             "replan", "authorise"}
  BY DEF Target
<1>3. AfterUpdate[p] \in Places /\ Target[p] \in MissionStatus
  BY <1>2 DEF AfterUpdate, AfterSave, Places, Target, MissionStatus
<1>4. QED
  BY <1>1, <1>2, <1>3 DEF AfterUpdate, Deciding, Granting, Reporting, Recovering

Budgeted(ts) == ts \in [Tasks -> Task] /\ \A t \in Tasks : ts[t].attempt \in 1 .. MaxAttempts

LEMMA Appended ==
  ASSUME TypeInv, NEW x \in Approval, approvals' = Append(approvals, x)
  PROVE  /\ approvals' \in Seq(Approval) /\ Len(approvals') = Len(approvals) + 1
         /\ Len(approvals) \in Nat /\ approvals'[Len(approvals')] = x
         /\ \A a \in 1 .. Len(approvals) : approvals'[a] = approvals[a]
BY AppendProperties, LenProperties DEF TypeInv, TypeOK

(* What is left to show of a step of a handler.                            *)
LEMMA StepType ==
  ASSUME TypeInv, NEW i \in Instances, NEW p \in Places, NEW j, Goto(i, p, j),
         mission' = mission \/ (mission' \in Mission /\ mission'.pending \in Requested),
         tasks' = tasks \/ Budgeted(tasks'),
         approvals' = approvals \/ \E x \in Approval : approvals' = Append(approvals, x),
         \A m \in bus' : m \in bus \/ (m \in Message /\ (m.type = "APPROVAL_RECEIVED" =>
                                                          m.ref \in 1 .. Len(approvals))),
         p # "idle" => j \in Job /\ Locals(p, j, Len(approvals')),
         UNCHANGED scenario, repeats' \in 0 .. MaxDuplicates, crashes' \in 0 .. MaxCrashes
  PROVE  TypeInv'
<1>1. approvals' \in Seq(Approval) /\ Len(approvals) \in Nat
      /\ Len(approvals') \in {Len(approvals), Len(approvals) + 1}
  BY Appended, LenProperties DEF TypeInv, TypeOK
<1>2. /\ pc' \in [Instances -> Places] /\ job' \in [Instances -> Job]
      /\ \A k \in Instances : Locals(pc'[k], job'[k], Len(approvals'))
  BY <1>1, GotoType
<1>3. \A x : (x \in Requested => x \in Requested')
             /\ (x \in 1 .. Len(approvals) => x \in 1 .. Len(approvals') /\ x \in Requested')
  BY <1>1 DEF Requested
<1>4. mission' \in Mission /\ mission'.pending \in Requested'
  BY <1>3 DEF TypeInv, TypeOK
<1>5. tasks' \in [Tasks -> Task] /\ \A t \in Tasks : tasks'[t].attempt \in 1 .. MaxAttempts
  BY DEF TypeInv, TypeOK, Budgeted
<1>6. /\ bus' \subseteq Message /\ Asked'
      /\ \A m \in bus' : m.type = "APPROVAL_RECEIVED" => m.ref \in Requested'
  BY <1>3 DEF TypeInv, TypeOK, Asked
<1>7. TypeOK'
  BY <1>1, <1>2, <1>4, <1>5, <1>6 DEF TypeInv, TypeOK
<1>8. QED
  BY <1>2, <1>6, <1>7 DEF TypeInv

LEMMA InitType == Init => TypeInv
<1> SUFFICES ASSUME Init PROVE TypeInv
  OBVIOUS
<1>1. approvals = <<>> /\ Len(approvals) = 0 /\ approvals \in Seq(Approval)
  BY DEF Init
<1>2. mission \in Mission /\ mission.pending \in Requested /\ bus = {}
  BY <1>1 DEF Init, Mission, MissionStatus, Requested
<1>3. tasks \in [Tasks -> Task] /\ \A t \in Tasks : tasks[t].attempt \in 1 .. MaxAttempts
  BY DeployedAssumption DEF Init, Task, TaskStatus
<1>4. pc \in [Instances -> Places] /\ job \in [Instances -> Job]
  BY NoJobType DEF Init, Places
<1>5. TypeOK
  BY <1>1, <1>2, <1>3, <1>4, DeployedAssumption DEF Init, TypeOK
<1>6. \A i \in Instances : Locals(pc[i], job[i], Len(approvals))
  BY <1>1, NoJobType DEF Init
<1>7. QED
  BY <1>2, <1>5, <1>6 DEF TypeInv, Asked

(* What a handler has at hand.                                             *)
LEMMA AtHand ==
  ASSUME TypeInv, NEW i \in Instances
  PROVE  /\ pc[i] \in Places /\ job[i] \in Job /\ job[i].mission \in Mission
         /\ job[i].message \in Message \cup {NoMessage} /\ job[i].task \in Tasks \cup {0}
         /\ Locals(pc[i], job[i], Len(approvals)) /\ Len(approvals) \in Nat
         /\ repeats \in 0 .. MaxDuplicates /\ crashes \in 0 .. MaxCrashes
BY LenProperties DEF TypeInv, TypeOK, Job

(* Changes of the locals.                                                  *)
LEMMA JobCopies ==
  ASSUME NEW j \in Job, NEW m \in Mission
  PROVE  LET k == [j EXCEPT !.mission = m]
         IN  /\ k \in Job /\ k.mission = m /\ k.message = j.message /\ k.task = j.task
             /\ k.attempt = j.attempt /\ k.asked = j.asked /\ k.directive = j.directive
BY DEF Job

LEMMA JobAsks ==
  ASSUME NEW j \in Job, NEW n \in Nat
  PROVE  LET k == [j EXCEPT !.asked = n]
         IN  /\ k \in Job /\ k.mission = j.mission /\ k.message = j.message /\ k.task = j.task
             /\ k.attempt = j.attempt /\ k.asked = n /\ k.directive = j.directive
BY DEF Job

LEMMA JobPlans ==
  ASSUME NEW j \in Job, NEW d \in Directives
  PROVE  LET k == [j EXCEPT !.directive = d]
         IN  /\ k \in Job /\ k.mission = j.mission /\ k.message = j.message /\ k.task = j.task
             /\ k.attempt = j.attempt /\ k.asked = j.asked /\ k.directive = d
BY DEF Job

LEMMA JobReads ==
  ASSUME NEW j \in Job, NEW n \in Nat
  PROVE  LET k == [j EXCEPT !.attempt = n]
         IN  /\ k \in Job /\ k.mission = j.mission /\ k.message = j.message /\ k.task = j.task
             /\ k.attempt = n /\ k.asked = j.asked /\ k.directive = j.directive
BY DEF Job

LEMMA JobWaits ==
  ASSUME NEW j \in Job, NEW n \in Nat
  PROVE  LET k == [j EXCEPT !.mission.pending = n]
         IN  /\ k \in Job /\ k.message = j.message /\ k.task = j.task
             /\ k.attempt = j.attempt /\ k.asked = j.asked /\ k.directive = j.directive
             /\ k.mission.pending = n /\ k.mission.status = j.mission.status
             /\ k.mission.version = j.mission.version
BY DEF Job, Mission

LEMMA MissionWaits ==
  ASSUME NEW m \in Mission, NEW n \in Nat
  PROVE  LET k == [m EXCEPT !.pending = n]
         IN  k \in Mission /\ k.pending = n /\ k.status = m.status /\ k.version = m.version
BY DEF Mission

LEMMA MovedType ==
  ASSUME NEW m \in Mission, NEW s \in MissionStatus
  PROVE  LET moved == [m EXCEPT !.status = s, !.version = @ + 1]
         IN  /\ moved \in Mission /\ moved.pending = m.pending /\ moved.status = s
             /\ moved.version = m.version + 1
<1> DEFINE moved == [m EXCEPT !.status = s, !.version = @ + 1]
<1>1. m.version \in Nat /\ m.pending \in Nat
  BY DEF Mission
<1> DEFINE renamed == [m EXCEPT !.status = s]
<1>2. moved = [renamed EXCEPT !.version = m.version + 1]
  BY DEF Mission
<1>3. renamed \in Mission /\ renamed.version = m.version /\ renamed.pending = m.pending /\ renamed.status = s
  BY DEF Mission
<1> HIDE DEF moved, renamed
<1>4. moved \in Mission /\ moved.pending = m.pending /\ moved.status = s
      /\ moved.version = m.version + 1
  BY <1>1, <1>2, <1>3 DEF Mission
<1>5. QED
  BY <1>4 DEF moved

LEMMA WriteType ==
  ASSUME TypeInv, NEW i \in Instances, SaveMission(i) \/ UpdateMission(i)
  PROVE  TypeInv'
<1>1. job[i] \in Job /\ job[i].mission \in Mission /\ job[i].mission.pending \in Requested
      /\ Locals(pc[i], job[i], Len(approvals)) /\ Len(approvals) \in Nat
  BY AtHand DEF Locals, Requested
<1>2. CASE SaveMission(i)
  <2>1. pc[i] \in DOMAIN AfterSave /\ Goto(i, AfterSave[pc[i]], job[i])
    BY <1>2 DEF SaveMission
  <2>2. Locals(AfterSave[pc[i]], job[i], Len(approvals))
    BY <1>1, <2>1, SavePlaces DEF Locals, Located
  <2>3. QED
    BY <1>1, <1>2, <2>1, <2>2, SavePlaces, StepType, AtHand DEF SaveMission, Limits
<1>3. CASE UpdateMission(i)
  <2> DEFINE copy  == job[i].mission
             moved == [copy EXCEPT !.status = Target[pc[i]], !.version = @ + 1]
             j     == [job[i] EXCEPT !.mission = moved]
  <2>1. pc[i] \in DOMAIN Target
    BY <1>3 DEF UpdateMission
  <2>2. moved \in Mission /\ moved.pending = copy.pending
    <3>1. Target[pc[i]] \in MissionStatus /\ copy \in Mission
      BY <1>1, <2>1, UpdatePlaces
    <3>2. QED
      BY <3>1, MovedType
  <2>3. j \in Job /\ j.mission.pending = copy.pending /\ j.asked = job[i].asked
        /\ j.message = job[i].message /\ j.task = job[i].task
    BY <1>1, <2>2 DEF Job
  <2>4. Locals(AfterUpdate[pc[i]], j, Len(approvals))
    BY <1>1, <2>1, <2>3, UpdatePlaces DEF Locals
  <2>5. AfterUpdate[pc[i]] \in Places
    BY <2>1, UpdatePlaces
  <2>6. \/ mission' = moved /\ Goto(i, AfterUpdate[pc[i]], j)
        \/ Goto(i, "idle", NoJob) /\ UNCHANGED mission
    BY <1>3 DEF UpdateMission, Return
  <2>7. UNCHANGED <<tasks, approvals, bus, Limits>> /\ "idle" \in Places
    BY <1>3 DEF UpdateMission, Places
  <2> HIDE DEF j, moved
  <2>8. QED
    BY <1>1, <2>2, <2>3, <2>4, <2>5, <2>6, <2>7, StepType, AtHand DEF Limits
<1>4. QED
  BY <1>2, <1>3

(* Handling a message, up to the task it works on.                         *)
LEMMA ClaimType ==
  ASSUME TypeInv, NEW i \in Instances, Require(i) \/ SelectTask(i) \/ ClaimTask(i)
  PROVE  TypeInv'
<1>1. /\ job[i] \in Job /\ Locals(pc[i], job[i], Len(approvals)) /\ Len(approvals) \in Nat
      /\ mission \in Mission /\ mission.pending \in 0 .. Len(approvals)
      /\ tasks \in [Tasks -> Task] /\ \A t \in Tasks : tasks[t].attempt \in 1 .. MaxAttempts
      /\ repeats \in 0 .. MaxDuplicates /\ crashes \in 0 .. MaxCrashes
  BY AtHand DEF TypeInv, TypeOK, Requested
<1>2. CASE Require(i)
  <2> DEFINE j == [job[i] EXCEPT !.mission = mission]
  <2>1. j \in Job /\ Locals("select", j, Len(approvals))
    BY <1>1 DEF Job, Locals, Deciding, Granting, Reporting, Recovering
  <2>2. Goto(i, "idle", NoJob) \/ Goto(i, "select", j)
    BY <1>2 DEF Require, Return
  <2>3. UNCHANGED <<Documents, bus, Limits>> /\ "idle" \in Places /\ "select" \in Places
    BY <1>2 DEF Require, Places
  <2> HIDE DEF j
  <2>4. QED
    BY <1>1, <2>1, <2>2, <2>3, StepType DEF Limits, Documents
<1>3. CASE SelectTask(i)
  <2>1. UNCHANGED <<Documents, bus, Limits>> /\ {"idle", "complete", "claim"} \subseteq Places
    BY <1>3 DEF SelectTask, Places, Target
  <2>2. PICK p \in {"idle", "complete", "claim"}, j \in Job :
          Goto(i, p, j) /\ (p # "idle" => Locals(p, j, Len(approvals)))
    <3>1. CASE Goto(i, "complete", job[i])
      BY <1>1, <3>1 DEF Locals, Deciding, Granting, Reporting, Recovering
    <3>2. CASE Goto(i, "idle", NoJob)
      BY <3>2, NoJobType
    <3>3. ASSUME NEW t \in Tasks, Goto(i, "claim", [job[i] EXCEPT !.task = t])
          PROVE  \E j \in Job : Goto(i, "claim", j) /\ Locals("claim", j, Len(approvals))
      <4> DEFINE j == [job[i] EXCEPT !.task = t]
      <4>1. j \in Job /\ Locals("claim", j, Len(approvals))
        BY <1>1 DEF Job, Locals, Deciding, Granting, Reporting, Recovering
      <4>2. QED
        BY <3>3, <4>1
    <3>4. QED
      BY <1>3, <3>1, <3>2, <3>3 DEF SelectTask, Return, Runnable
  <2>3. QED
    BY <1>1, <2>1, <2>2, StepType DEF Limits, Documents
<1>4. CASE ClaimTask(i)
  <2> DEFINE t  == job[i].task
             j  == [job[i] EXCEPT !.attempt = tasks[t].attempt]
             ts == [tasks EXCEPT ![t].status = "RUNNING"]
  <2>1. pc[i] = "claim" /\ t \in Tasks
    BY <1>1, <1>4 DEF ClaimTask, Locals
  <2>2. tasks[t] \in Task /\ tasks[t].attempt \in 1 .. MaxAttempts
    BY <1>1, <2>1
  <2>3. j \in Job /\ Locals("activate", j, Len(approvals))
    BY <1>1, <2>1, <2>2 DEF Job, Task, Locals, Deciding, Granting, Reporting, Recovering
  <2>4. Budgeted(ts)
    BY <1>1, <2>1 DEF Budgeted, Task, TaskStatus
  <2>5. \/ Goto(i, "activate", j) /\ tasks' = ts
        \/ Goto(i, "idle", NoJob) /\ UNCHANGED tasks
    BY <1>4 DEF ClaimTask, Return
  <2>6. UNCHANGED <<mission, approvals, bus, Limits>>
        /\ "idle" \in Places /\ "activate" \in Places
    BY <1>4 DEF ClaimTask, Places, AfterSave
  <2> HIDE DEF j, ts, t
  <2>7. QED
    BY <1>1, <2>3, <2>4, <2>5, <2>6, StepType DEF Limits
<1>5. QED
  BY <1>2, <1>3, <1>4

(* The store as a handler finds it.                                        *)
LEMMA StoreType ==
  ASSUME TypeInv
  PROVE  /\ mission \in Mission /\ mission.pending \in 0 .. Len(approvals) /\ Len(approvals) \in Nat
         /\ Budgeted(tasks) /\ approvals \in Seq(Approval)
         /\ repeats \in 0 .. MaxDuplicates /\ crashes \in 0 .. MaxCrashes
         /\ \A a \in 1 .. Len(approvals) : approvals[a] \in Approval
BY LenProperties, ElementOfSeq DEF TypeInv, TypeOK, Budgeted, Requested

LEMMA AskType ==
  ASSUME TypeInv, NEW i \in Instances, AgentAsks(i)
  PROVE  TypeInv'
<1> DEFINE t == job[i].task
<1>1. pc[i] = "agent" /\ t \in Tasks /\ job[i] \in Job /\ Locals(pc[i], job[i], Len(approvals))
      /\ job[i].attempt \in 1 .. MaxAttempts
  BY AtHand DEF AgentAsks, Locals, Reporting
<1>2. approvals' = Append(approvals, Purchase(t)) \/ approvals' = approvals
  BY DEF AgentAsks
<1>3. Purchase(t) \in Approval
  BY <1>1 DEF Purchase, Approval, ApprovalStatus, Directives
<1>4. Len(approvals) \in Nat /\ Len(approvals') \in {Len(approvals), Len(approvals) + 1}
      /\ approvals' \in Seq(Approval)
  BY <1>2, <1>3, Appended, StoreType
<1>5. PICK a \in DOMAIN approvals' : Goto(i, "task_waiting", [job[i] EXCEPT !.asked = a])
  BY DEF AgentAsks
<1> DEFINE j == [job[i] EXCEPT !.asked = a]
<1>6. a \in 1 .. Len(approvals')
  BY <1>4, <1>5, LenProperties
<1>7. j \in Job /\ Locals("task_waiting", j, Len(approvals'))
  BY <1>1, <1>4, <1>6 DEF Job, Locals, Deciding, Granting, Reporting, Recovering
<1>8. UNCHANGED <<mission, tasks, bus, Limits>> /\ "task_waiting" \in Places
      /\ Goto(i, "task_waiting", j)
  BY <1>5 DEF AgentAsks, Places
<1> HIDE DEF j
<1>9. QED
  BY <1>2, <1>3, <1>7, <1>8, StepType, StoreType DEF Limits

(* The agent's end, and what becomes of its report.                        *)
LEMMA ReportType ==
  ASSUME TypeInv, NEW i \in Instances,
         AgentSucceeds(i) \/ AgentFails(i) \/ TaskCompleted(i) \/ TaskWaiting(i) \/ TaskFailed(i)
  PROVE  TypeInv'
<1>1. /\ pc[i] \in Reporting /\ job[i] \in Job /\ Locals(pc[i], job[i], Len(approvals))
      /\ Len(approvals) \in Nat
  BY AtHand DEF AgentSucceeds, AgentFails, TaskCompleted, TaskWaiting, TaskFailed, Reporting
<1>2. job[i].task \in Tasks /\ job[i].attempt \in 1 .. MaxAttempts
      /\ job[i].asked \in 0 .. Len(approvals)
  BY <1>1 DEF Locals
<1>3. {"task_completed", "task_failed", "reinstate", "progress", "hold", "at_risk"} \subseteq Places
  BY DEF Places, AfterSave, Target
<1>4. ASSUME NEW p \in {"task_completed", "task_failed", "reinstate", "progress", "hold", "at_risk"}
      PROVE  Locals(p, job[i], Len(approvals))
  BY <1>1, <1>2 DEF Locals, Deciding, Granting, Reporting, Recovering
<1>5. CASE AgentSucceeds(i) \/ AgentFails(i)
  <2>1. Goto(i, "task_completed", job[i]) \/ Goto(i, "task_failed", job[i])
    BY <1>5 DEF AgentSucceeds, AgentFails
  <2>2. UNCHANGED <<Documents, bus, Limits>>
    BY <1>5 DEF AgentSucceeds, AgentFails
  <2>3. QED
    BY <1>1, <1>3, <1>4, <2>1, <2>2, StepType, StoreType DEF Documents, Limits
<1>6. ASSUME NEW status \in TaskStatus, NEW p \in {"reinstate", "progress", "hold", "at_risk"},
             NEW j \in Job, Locals(p, j, Len(approvals)), SaveTask(i, status, p, j)
      PROVE  TypeInv'
  <2>1. tasks' = [tasks EXCEPT ![job[i].task] = [status |-> status, attempt |-> job[i].attempt]]
    BY <1>6 DEF SaveTask
  <2>2. [status |-> status, attempt |-> job[i].attempt] \in Task
    BY <1>2 DEF Task
  <2>3. Budgeted(tasks')
    BY <1>2, <2>1, <2>2, StoreType DEF Budgeted
  <2>4. Goto(i, p, j) /\ UNCHANGED <<mission, approvals, bus, Limits>>
    BY <1>6 DEF SaveTask
  <2>5. QED
    BY <1>3, <1>6, <2>3, <2>4, StepType, StoreType DEF Limits
<1>7. CASE TaskCompleted(i)
  <2>1. PICK p \in {"reinstate", "progress"} : SaveTask(i, "COMPLETED", p, job[i])
    BY <1>7 DEF TaskCompleted
  <2>2. QED
    BY <1>1, <1>4, <1>6, <2>1 DEF TaskStatus
<1>8. CASE TaskWaiting(i)
  <2> DEFINE j == [job[i] EXCEPT !.mission.pending = job[i].asked]
  <2>1. j \in Job /\ Locals("hold", j, Len(approvals))
    BY <1>1, <1>2 DEF Job, Mission, Locals, Deciding, Granting, Reporting, Recovering
  <2>2. SaveTask(i, "WAITING", "hold", j)
    BY <1>8 DEF TaskWaiting
  <2> HIDE DEF j
  <2>3. QED
    BY <1>6, <2>1, <2>2 DEF TaskStatus
<1>9. CASE TaskFailed(i)
  BY <1>1, <1>4, <1>6, <1>9 DEF TaskFailed, TaskStatus
<1>10. QED
  BY <1>5, <1>7, <1>8, <1>9

LEMMA AnnounceType ==
  ASSUME TypeInv, NEW i \in Instances, Announce(i)
  PROVE  TypeInv'
<1> DEFINE event == CASE job[i].message = NoMessage -> Started
                      [] job[i].message.type = "APPROVAL_RECEIVED" /\ job[i].task = 0
                           -> Resumed(job[i].message.ref)
                      [] OTHER -> TaskDone(job[i].task)
<1>1. job[i].message \in Message \cup {NoMessage} /\ job[i].task \in Tasks \cup {0}
  BY AtHand
<1>2. event \in Message /\ event.type # "APPROVAL_RECEIVED"
  <2>1. Started \in Message /\ Started.type # "APPROVAL_RECEIVED"
    BY DEF Started, Message
  <2>2. \A n \in Nat : /\ Resumed(n) \in Message /\ Resumed(n).type # "APPROVAL_RECEIVED"
                       /\ TaskDone(n) \in Message /\ TaskDone(n).type # "APPROVAL_RECEIVED"
    BY DEF Resumed, TaskDone, Message
  <2>3. job[i].task \in Nat /\ (job[i].message # NoMessage => job[i].message.ref \in Nat)
    BY <1>1 DEF Message, Tasks
  <2>4. \/ event = Started
        \/ job[i].message # NoMessage /\ event = Resumed(job[i].message.ref)
        \/ event = TaskDone(job[i].task)
    BY DEF NoMessage
  <2> HIDE DEF event
  <2>5. QED
    BY <2>1, <2>2, <2>3, <2>4
<1>3. Goto(i, "idle", NoJob) /\ "idle" \in Places /\ UNCHANGED <<Documents, Limits>>
  BY DEF Announce, Return, Places
<1>4. bus' = bus \cup {event} \/ bus' = bus
  BY DEF Announce
<1> HIDE DEF event
<1>5. QED
  BY <1>2, <1>3, <1>4, StepType, StoreType DEF Documents, Limits

LEMMA RecoveryType ==
  ASSUME TypeInv, NEW i \in Instances,
         Recover(i) \/ ApplyDirective(i) \/ RetryTask(i) \/ SaveRetry(i)
  PROVE  TypeInv'
<1> DEFINE t == job[i].task
<1>1. /\ t \in Tasks /\ job[i] \in Job /\ Locals(pc[i], job[i], Len(approvals))
      /\ Len(approvals) \in Nat /\ job[i].asked \in 0 .. Len(approvals)
  BY AtHand DEF Recover, ApplyDirective, RetryTask, SaveRetry, Locals, Recovering
<1>2. {"directive", "retry_task", "save_retry", "hold", "failing", "retry"} \subseteq Places
  BY DEF Places, Target
<1>3. CASE Recover(i)
  <2> DEFINE x == [status |-> "PENDING", action |-> "recovery.apply", task |-> t,
                   directive |-> "RETRY_TASK"]
  <2>1. x \in Approval
    BY <1>1 DEF Approval, ApprovalStatus, Directives
  <2>2. PICK plan \in {"RETRY_TASK", "FAIL"} :
          \/ /\ Goto(i, "directive", [job[i] EXCEPT !.directive = plan])
             /\ UNCHANGED approvals
          \/ /\ approvals' = Append(approvals, x)
             /\ Goto(i, "directive", [job[i] EXCEPT !.directive = "WAIT_APPROVAL",
                                                    !.asked = Len(approvals')])
    BY <1>3 DEF Recover
  <2>3. UNCHANGED <<mission, tasks, bus, Limits>>
    BY <1>3 DEF Recover
  <2>4. CASE approvals' = approvals /\ Goto(i, "directive", [job[i] EXCEPT !.directive = plan])
    <3> DEFINE j == [job[i] EXCEPT !.directive = plan]
    <3>1. j \in Job /\ Locals("directive", j, Len(approvals))
      BY <1>1 DEF Job, Directives, Locals, Deciding, Granting, Reporting, Recovering
    <3>2. Goto(i, "directive", j)
      BY <2>4
    <3> HIDE DEF j
    <3>3. QED
      BY <1>2, <2>3, <2>4, <3>1, <3>2, StepType, StoreType DEF Limits
  <2>5. CASE approvals' = Append(approvals, x)
             /\ Goto(i, "directive", [job[i] EXCEPT !.directive = "WAIT_APPROVAL",
                                                    !.asked = Len(approvals')])
    <3> DEFINE j == [job[i] EXCEPT !.directive = "WAIT_APPROVAL", !.asked = Len(approvals')]
    <3>1. Len(approvals') = Len(approvals) + 1
      BY <2>1, <2>5, Appended
    <3> DEFINE k == [job[i] EXCEPT !.directive = "WAIT_APPROVAL"]
    <3>2. k \in Job /\ k.mission = job[i].mission /\ k.message = job[i].message
          /\ k.task = job[i].task
      BY <1>1, JobPlans DEF Directives
    <3>3. j = [k EXCEPT !.asked = Len(approvals')]
      BY <1>1 DEF Job
    <3>4. Goto(i, "directive", j)
      BY <2>5
    <3> HIDE DEF j, k
    <3>5. j \in Job /\ j.mission = job[i].mission /\ j.message = job[i].message
          /\ j.task = job[i].task /\ j.asked = Len(approvals')
      BY <1>1, <3>1, <3>2, <3>3, JobAsks
    <3>6. Locals("directive", j, Len(approvals'))
      BY <1>1, <3>1, <3>5 DEF Locals, Deciding, Granting, Reporting, Recovering
    <3> HIDE DEF x
    <3>7. QED
      BY <1>2, <2>1, <2>3, <2>5, <3>4, <3>5, <3>6, StepType, StoreType DEF Limits
  <2>6. QED
    BY <2>2, <2>4, <2>5
<1>4. CASE ApplyDirective(i)
  <2> DEFINE fresh == [job[i] EXCEPT !.mission = mission]
             held  == [fresh EXCEPT !.mission.pending = job[i].asked]
  <2>1. fresh \in Job /\ \A p \in {"retry_task", "failing"} : Locals(p, fresh, Len(approvals))
    BY <1>1, StoreType DEF Job, Locals, Deciding, Granting, Reporting, Recovering
  <2>2. held \in Job /\ Locals("hold", held, Len(approvals))
    BY <1>1, <2>1, StoreType DEF Job, Mission, Locals, Deciding, Granting, Reporting, Recovering
  <2>3. Goto(i, "retry_task", fresh) \/ Goto(i, "hold", held) \/ Goto(i, "failing", fresh)
    BY <1>4 DEF ApplyDirective
  <2>4. UNCHANGED <<Documents, bus, Limits>>
    BY <1>4 DEF ApplyDirective
  <2> HIDE DEF fresh, held
  <2>5. QED
    BY <1>2, <2>1, <2>2, <2>3, <2>4, StepType, StoreType DEF Documents, Limits
<1>5. CASE RetryTask(i)
  <2> DEFINE j == [job[i] EXCEPT !.attempt = tasks[t].attempt + 1]
  <2>1. tasks[t].attempt \in 1 .. MaxAttempts /\ MaxAttempts \in Nat
    BY <1>1, StoreType, DeployedAssumption DEF Budgeted
  <2>2. \/ Goto(i, "failing", job[i])
        \/ Goto(i, "save_retry", j) /\ ~(tasks[t].attempt >= MaxAttempts)
    BY <1>5 DEF RetryTask, Spent
  <2>3. /\ j \in Job /\ j.mission = job[i].mission /\ j.message = job[i].message
        /\ j.task = t /\ j.asked = job[i].asked /\ j.attempt = tasks[t].attempt + 1
    BY <1>1, <2>1, JobReads
  <2>4. UNCHANGED <<Documents, bus, Limits>>
    BY <1>5 DEF RetryTask
  <2> HIDE DEF j
  <2>5. Locals("failing", job[i], Len(approvals))
    BY <1>1 DEF Locals, Deciding, Granting, Reporting, Recovering
  <2>6. ~(tasks[t].attempt >= MaxAttempts) => Locals("save_retry", j, Len(approvals))
    BY <1>1, <2>1, <2>3 DEF Locals, Deciding, Granting, Reporting, Recovering
  <2>7. QED
    BY <1>1, <1>2, <2>2, <2>3, <2>4, <2>5, <2>6, StepType, StoreType DEF Documents, Limits
<1>6. CASE SaveRetry(i)
  <2>1. pc[i] = "save_retry" /\ SaveTask(i, "PENDING", "retry", job[i])
    BY <1>6 DEF SaveRetry
  <2>2. job[i].attempt \in 1 .. MaxAttempts
    BY <1>1, <2>1 DEF Locals
  <2>3. [status |-> "PENDING", attempt |-> job[i].attempt] \in Task
    BY <2>2 DEF Task, TaskStatus
  <2>4. tasks' = [tasks EXCEPT ![t] = [status |-> "PENDING", attempt |-> job[i].attempt]]
        /\ Goto(i, "retry", job[i]) /\ UNCHANGED <<mission, approvals, bus, Limits>>
    BY <2>1 DEF SaveTask
  <2>5. Budgeted(tasks')
    BY <1>1, <2>2, <2>3, <2>4, StoreType DEF Budgeted
  <2>6. Locals("retry", job[i], Len(approvals))
    BY <1>1 DEF Locals, Deciding, Granting, Reporting, Recovering
  <2>7. QED
    BY <1>1, <1>2, <2>4, <2>5, <2>6, StepType, StoreType DEF Limits
<1>7. QED
  BY <1>3, <1>4, <1>5, <1>6

LEMMA DecisionType ==
  ASSUME TypeInv, NEW i \in Instances, OnApproval(i) \/ Route(i) \/ ResetTask(i) \/ SaveReset(i)
  PROVE  TypeInv'
<1> DEFINE a == job[i].message.ref
<1>1. /\ pc[i] \in Deciding /\ job[i] \in Job /\ Locals(pc[i], job[i], Len(approvals))
      /\ Len(approvals) \in Nat /\ a \in 1 .. Len(approvals)
      /\ job[i].message.type = "APPROVAL_RECEIVED"
  BY AtHand DEF OnApproval, Route, ResetTask, SaveReset, Deciding, Granting, Locals
<1>2. approvals[a] \in Approval /\ approvals[a].task \in Tasks
      /\ approvals[a].directive \in Directives
  BY <1>1, StoreType DEF Approval
<1>3. {"refused", "granted", "replan", "reset_task", "save_reset", "authorise"} \subseteq Places
  BY DEF Places, AfterSave, Target
<1>4. CASE OnApproval(i)
  <2> DEFINE j == [job[i] EXCEPT !.mission = [mission EXCEPT !.pending = 0]]
  <2>1. [mission EXCEPT !.pending = 0] \in Mission /\ [mission EXCEPT !.pending = 0].pending = 0
    BY StoreType, MissionWaits
  <2>2. Goto(i, "refused", j) \/ Goto(i, "granted", j)
    BY <1>4 DEF OnApproval
  <2>3. UNCHANGED <<Documents, bus, Limits>>
    BY <1>4 DEF OnApproval
  <2>4. j \in Job /\ j.mission.pending = 0 /\ j.asked = job[i].asked /\ j.message = job[i].message
    BY <1>1, <2>1, JobCopies
  <2> HIDE DEF j
  <2>5. \A p \in {"refused", "granted"} : Locals(p, j, Len(approvals))
    BY <1>1, <2>4 DEF Locals, Deciding, Granting, Reporting, Recovering
  <2>6. QED
    BY <1>3, <2>2, <2>3, <2>4, <2>5, StepType, StoreType DEF Documents, Limits
<1>5. CASE Route(i)
  <2> DEFINE j == [job[i] EXCEPT !.task = approvals[a].task, !.directive = approvals[a].directive]
  <2>1. j \in Job /\ Locals("replan", j, Len(approvals))
    BY <1>1, <1>2 DEF Job, Locals, Deciding, Granting, Reporting, Recovering
  <2>2. Locals("reset_task", job[i], Len(approvals))
    BY <1>1 DEF Locals, Deciding, Granting, Reporting, Recovering
  <2>3. Goto(i, "replan", j) \/ Goto(i, "reset_task", job[i])
    BY <1>5 DEF Route
  <2>4. UNCHANGED <<Documents, bus, Limits>>
    BY <1>5 DEF Route
  <2> HIDE DEF j
  <2>5. QED
    BY <1>1, <1>3, <2>1, <2>2, <2>3, <2>4, StepType, StoreType DEF Documents, Limits
<1>6. CASE ResetTask(i)
  <2> DEFINE n == tasks[approvals[a].task].attempt
             j == [job[i] EXCEPT !.attempt = n]
  <2>1. n \in 1 .. MaxAttempts /\ n \in Nat
    BY <1>2, StoreType, DeployedAssumption DEF Budgeted
  <2>2. Goto(i, "save_reset", j) /\ UNCHANGED <<Documents, bus, Limits>>
    BY <1>6 DEF ResetTask
  <2> HIDE DEF n
  <2>3. /\ j \in Job /\ j.mission = job[i].mission /\ j.message = job[i].message
        /\ j.asked = job[i].asked /\ j.attempt = n
    BY <1>1, <2>1, JobReads
  <2> HIDE DEF j
  <2>4. Locals("save_reset", j, Len(approvals))
    BY <1>1, <2>1, <2>3 DEF Locals, Deciding, Granting, Reporting, Recovering
  <2>5. QED
    BY <1>3, <2>2, <2>3, <2>4, StepType, StoreType DEF Documents, Limits
<1>7. CASE SaveReset(i)
  <2>1. job[i].attempt \in 1 .. MaxAttempts
    BY <1>1, <1>7 DEF SaveReset, Locals
  <2>2. tasks' = [tasks EXCEPT ![approvals[a].task] =
                    [status |-> "PENDING", attempt |-> job[i].attempt]]
        /\ Goto(i, "authorise", job[i]) /\ UNCHANGED <<mission, approvals, bus, Limits>>
    BY <1>7 DEF SaveReset, Reopened
  <2>3. [status |-> "PENDING", attempt |-> job[i].attempt] \in Task
    BY <2>1 DEF Task, TaskStatus
  <2>4. Budgeted(tasks')
    BY <1>2, <2>1, <2>2, <2>3, StoreType DEF Budgeted
  <2>5. Locals("authorise", job[i], Len(approvals))
    BY <1>1 DEF Locals, Deciding, Granting, Reporting, Recovering
  <2>6. QED
    BY <1>1, <1>3, <2>2, <2>4, <2>5, StepType, StoreType DEF Limits
<1>8. QED
  BY <1>4, <1>5, <1>6, <1>7

LEMMA PushType ==
  ASSUME TypeInv, NEW i \in Instances, Start(i) \/ Push(i) \/ Crash(i)
  PROVE  TypeInv'
<1>1. {"start", "decision", "require", "idle"} \subseteq Places
  BY DEF Places, Target
<1>2. CASE Start(i)
  <2> DEFINE j == [NoJob EXCEPT !.mission = mission]
  <2>1. j \in Job /\ j.mission = mission /\ j.message = NoMessage /\ j.asked = 0
    BY NoJobType, StoreType, JobCopies DEF NoJob
  <2>2. Goto(i, "start", j) /\ UNCHANGED <<Documents, bus, Limits>>
    BY <1>2 DEF Start
  <2> HIDE DEF j
  <2>3. Locals("start", j, Len(approvals))
    BY <2>1, StoreType DEF NoMessage, Locals, Deciding, Granting, Reporting, Recovering
  <2>4. QED
    BY <1>1, <2>1, <2>2, <2>3, StepType, StoreType DEF Documents, Limits
<1>3. ASSUME NEW m \in bus, Deliver(i, m) PROVE TypeInv'
  <2> DEFINE j == [NoJob EXCEPT !.message = m]
             p == IF m.type = "APPROVAL_RECEIVED" THEN "decision" ELSE "require"
  <2>1. m \in Message /\ (m.type = "APPROVAL_RECEIVED" => m.ref \in 1 .. Len(approvals))
    BY DEF TypeInv, TypeOK, Asked
  <2>2. j \in Job /\ j.message = m /\ j.asked = 0 /\ j.mission = NoMission
    BY <2>1, NoJobType DEF NoJob, Job
  <2>3. Goto(i, p, j) /\ UNCHANGED <<Documents, scenario, crashes>>
    BY <1>3 DEF Deliver
  <2>4. bus' \subseteq bus /\ repeats' \in 0 .. MaxDuplicates
    BY <1>3, StoreType, DeployedAssumption DEF Deliver
  <2> HIDE DEF j
  <2>5. Locals(p, j, Len(approvals))
    BY <2>1, <2>2, StoreType DEF NoMission, Locals, Deciding, Granting, Reporting, Recovering
  <2>6. p \in Places
    BY <1>1
  <2> HIDE DEF p
  <2>7. QED
    BY <2>2, <2>3, <2>4, <2>5, <2>6, StepType, StoreType DEF Documents
<1>4. CASE Crash(i)
  <2>1. Goto(i, "idle", NoJob) /\ UNCHANGED <<Documents, scenario, repeats>>
        /\ bus' = bus \cup ({job[i].message} \ {NoMessage})
    BY <1>4 DEF Crash, Return
  <2>2. crashes' \in 0 .. MaxCrashes
    BY <1>4, StoreType, DeployedAssumption DEF Crash
  <2>3. job[i].message = NoMessage \/
          (job[i].message \in Message /\ (job[i].message.type = "APPROVAL_RECEIVED" =>
                                            job[i].message.ref \in 1 .. Len(approvals)))
    BY AtHand DEF Locals
  <2>4. QED
    BY <1>1, <2>1, <2>2, <2>3, StepType, StoreType DEF Documents
<1>5. QED
  BY <1>2, <1>3, <1>4 DEF Push

LEMMA DecideType ==
  ASSUME TypeInv, NEW a \in 1 .. Len(approvals), NEW verdict \in {"APPROVED", "REJECTED"},
         Decide(a, verdict)
  PROVE  /\ TypeInv' /\ Len(approvals') = Len(approvals)
         /\ \A b \in 1 .. Len(approvals) :
              approvals'[b] = IF b = a THEN [approvals[a] EXCEPT !.status = verdict]
                                       ELSE approvals[b]
<1>1. approvals[a] \in Approval /\ approvals \in Seq(Approval) /\ Len(approvals) \in Nat
  BY StoreType
<1>2. [approvals[a] EXCEPT !.status = verdict] \in Approval
  BY <1>1 DEF Approval, ApprovalStatus
<1>3. approvals' = [approvals EXCEPT ![a] = [approvals[a] EXCEPT !.status = verdict]]
  BY DEF Decide
<1>4. approvals' \in Seq(Approval) /\ Len(approvals') = Len(approvals)
      /\ \A b \in 1 .. Len(approvals) :
              approvals'[b] = IF b = a THEN [approvals[a] EXCEPT !.status = verdict]
                                       ELSE approvals[b]
  BY <1>1, <1>2, <1>3, ExceptSeq
<1>5. Decided(a) \in Message /\ Decided(a).ref = a
  BY <1>1 DEF Decided, Message
<1>6. UNCHANGED <<mission, tasks, pc, job, Limits>> /\ bus' = bus \cup {Decided(a)}
  BY DEF Decide
<1>7. Asked' /\ bus' \subseteq Message
      /\ \A m \in bus' : m.type = "APPROVAL_RECEIVED" => m.ref \in Requested'
  BY <1>1, <1>4, <1>5, <1>6 DEF TypeInv, TypeOK, Asked, Requested
<1>8. TypeOK'
  BY <1>4, <1>6, <1>7 DEF TypeInv, TypeOK, Requested, Limits
<1>9. QED
  BY <1>4, <1>6, <1>7, <1>8 DEF TypeInv

LEMMA NextType == TypeInv /\ [Next]_vars => TypeInv'
<1> SUFFICES ASSUME TypeInv, [Next]_vars PROVE TypeInv'
  OBVIOUS
<1>1. ASSUME NEW i \in Instances, Work(i) PROVE TypeInv'
  BY <1>1, WriteType, ClaimType, AskType, ReportType, AnnounceType, RecoveryType, DecisionType
     DEF Work
<1>2. ASSUME NEW i \in Instances, Start(i) \/ Push(i) \/ Crash(i) PROVE TypeInv'
  BY <1>2, PushType
<1>3. ASSUME NEW a \in 1 .. Len(approvals), NEW verdict \in {"APPROVED", "REJECTED"},
             Decide(a, verdict)
      PROVE  TypeInv'
  BY <1>3, DecideType
<1>4. CASE UNCHANGED vars
  BY <1>4 DEF vars, TypeInv, TypeOK, Asked, Requested
<1>5. QED
  BY <1>1, <1>2, <1>3, <1>4 DEF Next

(* Statuses are statuses, attempts stay within the budget, and whoever has *)
(* an approval's number has one that was requested: in every scenario.     *)
THEOREM DeployedTypes == Spec => []TypeOK
<1>1. Spec => []TypeInv
  BY InitType, NextType, PTL DEF Spec
<1>2. TypeInv => TypeOK
  BY DEF TypeInv
<1>3. QED
  BY <1>1, <1>2, PTL

(***************************************************************************)
(* Repeated deliveries, when no agent fails                                *)
(***************************************************************************)

(* The scenarios of this part: whatever Pub/Sub repeats and whoever dies   *)
(* while no purchase needs an approval; the repetition of what is not an   *)
(* approval's answer when one does.                                        *)
Unretried ==
  /\ "agent_failure" \notin scenario
  /\ "governed" \in scenario =>
       scenario \cap {"duplicate_approval", "quick_decision", "crash"} = {}

(* The only approval is that of the purchase, which the last task makes.   *)
OnePurchase ==
  \A a \in 1 .. Len(approvals) :
    /\ a = 1 /\ approvals[a].action = "purchase.execute" /\ approvals[a].task = NumTasks
    /\ "governed" \in scenario

(* A task is RUNNING for as long as a handler owns it.                     *)
RunsAlone ==
  /\ \A i \in Instances, t \in Tasks : Running(i, t) => tasks[t].status = "RUNNING"
  /\ ExclusiveRun
  /\ \A i \in Instances : pc[i] \notin Recovering \cup {"task_failed"}

Unasked == mission.pending = 0 /\ \A i \in Instances : job[i].mission.pending = 0

(* The task waits while its purchase is not granted, but for the time its  *)
(* handler takes to say so, when nobody knows of the approval yet.         *)
Awaited ==
  /\ \A i \in Instances : pc[i] = "task_waiting" =>
       /\ job[i].task = NumTasks /\ Unasked
       /\ Len(approvals) = 1 /\ approvals[1].status = "PENDING"
  /\ \A a \in 1 .. Len(approvals) : approvals[a].status \in {"PENDING", "REJECTED"} =>
       tasks[NumTasks].status = "WAITING" \/ \E i \in Instances : pc[i] = "task_waiting"

(* The answer is one message, and then one handler, until the task is put  *)
(* back to PENDING.                                                        *)
AnsweredOnce ==
  /\ \A a \in 1 .. Len(approvals) : approvals[a].status = "PENDING" =>
       Decided(a) \notin bus /\ \A i \in Instances : pc[i] \notin Deciding
  /\ \A i \in Instances : pc[i] \in Deciding =>
       /\ tasks[NumTasks].status = "WAITING"
       /\ \A m \in bus : m.type # "APPROVAL_RECEIVED"
       /\ \A k \in Instances : pc[k] \in Deciding => i = k
       /\ pc[i] \in Granting => \A a \in 1 .. Len(approvals) : approvals[a].status # "REJECTED"
  /\ \A m \in bus : m.type = "APPROVAL_RECEIVED" => tasks[NumTasks].status = "WAITING"

OnceCore == OnePurchase /\ RunsAlone /\ Awaited /\ AnsweredOnce

OnceInv == TypeInv /\ (Unretried => OnceCore)

(* What is done stays done.                                                *)
Kept == \A t \in Tasks : tasks[t].status = "COMPLETED" => tasks'[t].status = "COMPLETED"

LEMMA Goes ==
  ASSUME TypeInv, NEW i \in Instances, NEW p, NEW j, Goto(i, p, j)
  PROVE  /\ pc'[i] = p /\ job'[i] = (IF p = "idle" THEN NoJob ELSE j)
         /\ \A k \in Instances \ {i} : pc'[k] = pc[k] /\ job'[k] = job[k]
BY DEF Goto, TypeInv, TypeOK

(* A step that leaves tasks, approvals and answers alone.                  *)
LEMMA OnceQuiet ==
  ASSUME TypeInv, OnceCore, NEW i \in Instances, NEW p, NEW j, Goto(i, p, j),
         UNCHANGED <<scenario, tasks, approvals>>,
         \A m \in bus' : m.type = "APPROVAL_RECEIVED" => m \in bus,
         p \in Reporting => pc[i] \in Reporting /\ j.task = job[i].task,
         p \notin Recovering \cup {"task_failed", "task_waiting"}, pc[i] # "task_waiting",
         p \in Deciding => pc[i] \in Deciding,
         p \in Granting => pc[i] \in Granting \/ \A a \in 1 .. Len(approvals) :
                                                   approvals[a].status # "REJECTED",
         Unasked => mission'.pending = 0 /\ (p # "idle" => j.mission.pending = 0)
  PROVE  OnceCore'
<1>1. /\ pc'[i] = p /\ job'[i] = (IF p = "idle" THEN NoJob ELSE j)
      /\ \A k \in Instances \ {i} : pc'[k] = pc[k] /\ job'[k] = job[k]
  BY Goes
<1>2. OnePurchase'
  BY DEF OnceCore, OnePurchase
<1>3. \A k \in Instances, t \in Tasks : Running(k, t)' => Running(k, t)
  BY <1>1 DEF Running, Reporting
<1>4. RunsAlone'
  BY <1>1, <1>3 DEF OnceCore, RunsAlone, ExclusiveRun
<1>5. Unasked => Unasked'
  BY <1>1 DEF Unasked, NoJob, NoMission
<1>6. Awaited'
  <2>1. \A k \in Instances : pc'[k] = "task_waiting" => k # i
    BY <1>1
  <2>2. \A k \in Instances : pc[k] = "task_waiting" => pc'[k] = "task_waiting"
    BY <1>1
  <2>3. QED
    BY <1>1, <1>5, <2>1, <2>2 DEF OnceCore, Awaited
<1>7. AnsweredOnce'
  <2>1. \A k \in Instances : /\ pc'[k] \in Deciding => pc[k] \in Deciding
                             /\ pc'[k] \in Granting => pc[k] \in Granting \/
                                  \A a \in 1 .. Len(approvals) : approvals[a].status # "REJECTED"
    BY <1>1
  <2>2. \A a : Decided(a) \in bus' => Decided(a) \in bus
    BY DEF Decided
  <2>3. QED
    BY <2>1, <2>2 DEF OnceCore, AnsweredOnce
<1>8. QED
  BY <1>2, <1>4, <1>6, <1>7 DEF OnceCore

LEMMA OnceReturn ==
  ASSUME TypeInv, OnceCore, NEW i \in Instances, Goto(i, "idle", NoJob), pc[i] # "task_waiting",
         UNCHANGED <<Documents, scenario>>,
         \A m \in bus' : m.type = "APPROVAL_RECEIVED" => m \in bus
  PROVE  OnceCore' /\ Kept
<1>1. "idle" \notin Reporting \cup Recovering \cup Deciding \cup Granting
      /\ "idle" \notin Recovering \cup {"task_failed", "task_waiting"}
  BY DEF Reporting, Recovering, Deciding, Granting
<1>2. UNCHANGED <<scenario, tasks, approvals, mission>>
  BY DEF Documents
<1>3. OnceCore'
  BY <1>1, <1>2, OnceQuiet DEF Unasked
<1>4. QED
  BY <1>2, <1>3 DEF Kept

(* With no approval nobody handles an answer, and the mission names none.  *)
LEMMA NobodyAsked ==
  ASSUME TypeInv, \A a \in 1 .. Len(approvals) : FALSE
  PROVE  /\ Len(approvals) = 0 /\ Unasked /\ \A m \in bus : m.type # "APPROVAL_RECEIVED"
         /\ \A i \in Instances : pc[i] \notin Deciding
<1>1. Len(approvals) = 0 /\ mission.pending = 0
  BY StoreType
<1>2. \A i \in Instances : job[i].mission.pending = 0 /\ pc[i] \notin Deciding
  BY <1>1, AtHand DEF Locals
<1>3. QED
  BY <1>1, <1>2 DEF Unasked, TypeInv, Asked

(* The owner of a task owns it alone.                                      *)
LEMMA Owner ==
  ASSUME TypeInv, OnceCore, NEW i \in Instances, pc[i] \in Reporting
  PROVE  /\ job[i].task \in Tasks /\ tasks[job[i].task].status = "RUNNING"
         /\ \A k \in Instances : Running(k, job[i].task) => k = i
<1>1. job[i].task \in Tasks
  BY AtHand DEF Locals
<1>2. Running(i, job[i].task)
  BY DEF Running, Reporting
<1>3. QED
  BY <1>1, <1>2 DEF OnceCore, RunsAlone, ExclusiveRun

LEMMA OnceWrite ==
  ASSUME TypeInv, OnceCore, NEW i \in Instances, SaveMission(i) \/ UpdateMission(i)
  PROVE  OnceCore' /\ Kept
<1>1. CASE SaveMission(i)
  <2>1. pc[i] \in DOMAIN AfterSave /\ Goto(i, AfterSave[pc[i]], job[i])
        /\ mission' = job[i].mission /\ UNCHANGED <<tasks, approvals, bus, Limits>>
    BY <1>1 DEF SaveMission
  <2>2. /\ AfterSave[pc[i]] \in Reporting => pc[i] \in Reporting
        /\ AfterSave[pc[i]] \in Deciding => pc[i] \in Deciding
        /\ AfterSave[pc[i]] \in Granting => pc[i] \in Granting
        /\ AfterSave[pc[i]] \notin {"task_failed", "task_waiting"} /\ pc[i] # "task_waiting"
        /\ AfterSave[pc[i]] \in Recovering => pc[i] \in Recovering
    BY <2>1 DEF AfterSave, Deciding, Granting, Reporting, Recovering
  <2>3. pc[i] \notin Recovering
    BY DEF OnceCore, RunsAlone
  <2>4. OnceCore'
    BY <2>1, <2>2, <2>3, OnceQuiet DEF Unasked, Limits
  <2>5. QED
    BY <2>1, <2>4 DEF Kept
<1>2. CASE UpdateMission(i)
  <2> DEFINE copy  == job[i].mission
             moved == [copy EXCEPT !.status = Target[pc[i]], !.version = @ + 1]
             j     == [job[i] EXCEPT !.mission = moved]
  <2>1. pc[i] \in DOMAIN Target /\ UNCHANGED <<tasks, approvals, bus, Limits>>
    BY <1>2 DEF UpdateMission
  <2>2. pc[i] # "task_waiting" /\ pc[i] \notin Recovering
        /\ AfterUpdate[pc[i]] \notin {"task_failed", "task_waiting"}
        /\ AfterUpdate[pc[i]] \notin Deciding \cup Reporting \cup Recovering
    <3>1. pc[i] \notin Recovering
      BY DEF OnceCore, RunsAlone
    <3>2. QED
      BY <2>1, <3>1 DEF Target, AfterUpdate, Deciding, Granting, Reporting, Recovering
  <2>3. Target[pc[i]] \in MissionStatus /\ copy \in Mission /\ job[i] \in Job
    BY <2>1, UpdatePlaces, AtHand
  <2>4. moved \in Mission /\ moved.pending = copy.pending
    BY <2>3, MovedType
  <2>5. j.mission = moved
    BY <2>3, <2>4, JobCopies
  <2>6. \/ mission' = moved /\ Goto(i, AfterUpdate[pc[i]], j)
        \/ Goto(i, "idle", NoJob) /\ UNCHANGED mission
    BY <1>2 DEF UpdateMission, Return
  <2> HIDE DEF j, moved
  <2>7. CASE mission' = moved /\ Goto(i, AfterUpdate[pc[i]], j)
    <3> DEFINE p == AfterUpdate[pc[i]]
    <3>1. p \notin Recovering \cup {"task_failed", "task_waiting"}
          /\ p \notin Deciding /\ p \notin Granting /\ p \notin Reporting
      BY <2>2 DEF Deciding
    <3>2. Goto(i, p, j)
      BY <2>7
    <3>3. Unasked => mission'.pending = 0 /\ (p # "idle" => j.mission.pending = 0)
      BY <2>4, <2>5, <2>7 DEF Unasked
    <3> HIDE DEF p
    <3>4. OnceCore'
      BY <2>1, <2>2, <3>1, <3>2, <3>3, OnceQuiet DEF Limits
    <3>5. QED
      BY <2>1, <3>4 DEF Kept
  <2>8. CASE Goto(i, "idle", NoJob) /\ UNCHANGED mission
    BY <2>1, <2>2, <2>8, OnceReturn DEF Documents, Limits
  <2>9. QED
    BY <2>1, <2>6, <2>7, <2>8 DEF Kept
<1>3. QED
  BY <1>1, <1>2

LEMMA OnceClaim ==
  ASSUME TypeInv, OnceCore, NEW i \in Instances, ClaimTask(i)
  PROVE  OnceCore' /\ Kept
<1> DEFINE t == job[i].task
           j == [job[i] EXCEPT !.attempt = tasks[t].attempt]
<1>1. pc[i] = "claim" /\ t \in Tasks /\ job[i] \in Job /\ tasks \in [Tasks -> Task]
  BY AtHand, StoreType DEF ClaimTask, Locals, Budgeted
<1>2. UNCHANGED <<mission, approvals, bus, Limits>>
  BY DEF ClaimTask
<1>3. CASE ~Unclaimed(t)
  <2>1. Goto(i, "idle", NoJob) /\ UNCHANGED tasks
    BY <1>3 DEF ClaimTask, Return
  <2>2. QED
    BY <1>1, <1>2, <2>1, OnceQuiet
       DEF Unasked, Limits, Reporting, Recovering, Deciding, Granting, Kept
<1>4. CASE Unclaimed(t)
  <2>1. tasks' = [tasks EXCEPT ![t].status = "RUNNING"] /\ Goto(i, "activate", j)
    BY <1>4 DEF ClaimTask
  <2>2. tasks[t].status \in {"PENDING", "FAILED"}
    BY <1>4 DEF Unclaimed, Claimable
  <2>3. tasks'[t].status = "RUNNING" /\ \A u \in Tasks \ {t} : tasks'[u] = tasks[u]
    BY <1>1, <2>1 DEF Task
  <2>4. j.mission = job[i].mission /\ j.task = t
    BY <1>1 DEF Job
  <2>5. /\ pc'[i] = "activate" /\ job'[i] = j
        /\ \A k \in Instances \ {i} : pc'[k] = pc[k] /\ job'[k] = job[k]
    BY <2>1, Goes
  <2> HIDE DEF j
  <2>6. \A k \in Instances, u \in Tasks : Running(k, u)' <=> Running(k, u) \/ (k = i /\ u = t)
    BY <1>1, <2>4, <2>5 DEF Running
  <2>7. \A k \in Instances : ~Running(k, t)
    BY <1>1, <2>2 DEF OnceCore, RunsAlone
  <2>8. RunsAlone'
    <3>1. \A k \in Instances, u \in Tasks : Running(k, u)' => tasks'[u].status = "RUNNING"
      BY <2>3, <2>6, <2>7 DEF OnceCore, RunsAlone
    <3>2. ExclusiveRun'
      BY <2>6, <2>7 DEF OnceCore, RunsAlone, ExclusiveRun
    <3>3. \A k \in Instances : pc'[k] \notin Recovering \cup {"task_failed"}
      BY <2>5 DEF OnceCore, RunsAlone, Recovering
    <3>4. QED
      BY <3>1, <3>2, <3>3 DEF RunsAlone
  <2>9. NumTasks \in Tasks /\ (tasks[NumTasks].status = "WAITING" => tasks'[NumTasks].status = "WAITING")
    BY <2>2, <2>3, DeployedAssumption DEF Tasks
  <2>10. Awaited'
    <3>1. Unasked => Unasked'
      BY <1>2, <2>4, <2>5 DEF Unasked
    <3>2. \A k \in Instances : pc'[k] = "task_waiting" <=> pc[k] = "task_waiting"
      BY <1>1, <2>5
    <3>3. \A k \in Instances : pc'[k] = "task_waiting" => job'[k] = job[k]
      BY <2>5
    <3>4. QED
      BY <1>2, <2>9, <3>1, <3>2, <3>3 DEF OnceCore, Awaited
  <2>11. AnsweredOnce'
    <3>1. \A k \in Instances : /\ pc'[k] \in Deciding <=> pc[k] \in Deciding
                               /\ pc'[k] \in Granting <=> pc[k] \in Granting
      BY <1>1, <2>5 DEF Deciding, Granting
    <3>2. QED
      BY <1>2, <2>9, <3>1 DEF OnceCore, AnsweredOnce
  <2>12. OnePurchase'
    BY <1>2 DEF OnceCore, OnePurchase, Limits
  <2>13. Kept
    BY <2>2, <2>3 DEF Kept
  <2>14. QED
    BY <2>8, <2>10, <2>11, <2>12, <2>13 DEF OnceCore
<1>5. QED
  BY <1>3, <1>4

(* A handler at work that changes neither tasks nor approvals.             *)
LEMMA OnceGoesOn ==
  ASSUME TypeInv, OnceCore, NEW i \in Instances,
         \/ Require(i) \/ SelectTask(i) \/ AgentSucceeds(i) \/ Announce(i)
         \/ Start(i) \/ OnApproval(i) \/ Route(i) \/ ResetTask(i)
  PROVE  OnceCore' /\ Kept
<1>1. UNCHANGED <<Documents, scenario>>
  BY DEF Require, SelectTask, AgentSucceeds, Announce, Start, OnApproval, Route, ResetTask, Limits
<1>2. pc[i] # "task_waiting" /\ job[i] \in Job /\ mission \in Mission
  BY AtHand, StoreType
     DEF Require, SelectTask, AgentSucceeds, Announce, Start, OnApproval, Route, ResetTask
<1>3. \A m \in bus' : m.type = "APPROVAL_RECEIVED" => m \in bus
  BY DEF Require, SelectTask, AgentSucceeds, Announce, Start, OnApproval, Route, ResetTask,
         Started, Resumed, TaskDone
<1>4. ASSUME NEW p, NEW j, Goto(i, p, j), p \notin Reporting \cup Recovering,
             p \in Deciding => pc[i] \in Deciding,
             p \in Granting => pc[i] \in Granting \/ \A a \in 1 .. Len(approvals) :
                                                       approvals[a].status # "REJECTED",
             Unasked => (p # "idle" => j.mission.pending = 0)
      PROVE  OnceCore' /\ Kept
  <2>1. p \notin Recovering \cup {"task_failed", "task_waiting"}
    BY <1>4 DEF Reporting
  <2>2. UNCHANGED <<scenario, tasks, approvals, mission>>
    BY <1>1 DEF Documents
  <2>3. OnceCore'
    BY <1>2, <1>3, <1>4, <2>1, <2>2, OnceQuiet DEF Unasked
  <2>4. QED
    BY <2>2, <2>3 DEF Kept
<1>5. CASE Require(i)
  <2>1. Goto(i, "idle", NoJob) \/ Goto(i, "select", [job[i] EXCEPT !.mission = mission])
    BY <1>5 DEF Require, Return
  <2>2. [job[i] EXCEPT !.mission = mission].mission = mission
    BY <1>2, JobCopies
  <2>3. CASE Goto(i, "idle", NoJob)
    BY <1>1, <1>2, <1>3, <2>3, OnceReturn
  <2>4. CASE Goto(i, "select", [job[i] EXCEPT !.mission = mission])
    BY <1>4, <2>2, <2>4 DEF Unasked, Reporting, Recovering, Deciding, Granting
  <2>5. QED
    BY <2>1, <2>3, <2>4
<1>6. CASE SelectTask(i)
  <2>1. \/ Goto(i, "complete", job[i]) \/ Goto(i, "idle", NoJob)
        \/ \E t \in Tasks : Goto(i, "claim", [job[i] EXCEPT !.task = t])
    BY <1>6 DEF SelectTask, Return, Runnable
  <2>2. CASE Goto(i, "complete", job[i])
    BY <1>4, <2>2 DEF Unasked, Reporting, Recovering, Deciding, Granting
  <2>3. CASE Goto(i, "idle", NoJob)
    BY <1>1, <1>2, <1>3, <2>3, OnceReturn
  <2>4. ASSUME NEW t \in Tasks, Goto(i, "claim", [job[i] EXCEPT !.task = t])
        PROVE  OnceCore' /\ Kept
    <3>1. [job[i] EXCEPT !.task = t].mission = job[i].mission
      BY <1>2 DEF Job
    <3>2. QED
      BY <1>4, <2>4, <3>1 DEF Unasked, Reporting, Recovering, Deciding, Granting
  <2>5. QED
    BY <2>1, <2>2, <2>3, <2>4
<1>7. CASE AgentSucceeds(i)
  <2>1. Goto(i, "task_completed", job[i]) /\ pc[i] \in Reporting
    BY <1>7 DEF AgentSucceeds, Reporting
  <2>2. "task_completed" \notin Recovering \cup {"task_failed", "task_waiting"}
        /\ "task_completed" \notin Deciding /\ "task_completed" \notin Granting
    BY DEF Recovering, Deciding, Granting
  <2>3. UNCHANGED <<scenario, tasks, approvals, mission>>
    BY <1>1 DEF Documents
  <2>4. OnceCore'
    BY <1>2, <1>3, <2>1, <2>2, <2>3, OnceQuiet DEF Unasked
  <2>5. QED
    BY <2>3, <2>4 DEF Kept
<1>8. CASE Announce(i)
  BY <1>1, <1>2, <1>3, <1>8, OnceReturn DEF Announce, Return
<1>9. CASE Start(i)
  <2>1. Goto(i, "start", [NoJob EXCEPT !.mission = mission])
    BY <1>9 DEF Start
  <2>2. [NoJob EXCEPT !.mission = mission].mission = mission
    BY <1>2, NoJobType, JobCopies
  <2>3. QED
    BY <1>4, <2>1, <2>2 DEF Unasked, Reporting, Recovering, Deciding, Granting
<1>10. CASE OnApproval(i)
  <2> DEFINE a == job[i].message.ref
             j == [job[i] EXCEPT !.mission = [mission EXCEPT !.pending = 0]]
  <2>1. pc[i] \in Deciding /\ a \in 1 .. Len(approvals)
    BY <1>10, AtHand DEF OnApproval, Deciding, Locals
  <2>2. [mission EXCEPT !.pending = 0] \in Mission /\ [mission EXCEPT !.pending = 0].pending = 0
    BY <1>2, MissionWaits
  <2>3. j.mission.pending = 0
    BY <1>2, <2>2, JobCopies
  <2>4. \A b \in 1 .. Len(approvals) : b = a
    BY <2>1 DEF OnceCore, OnePurchase
  <2>5. \/ Goto(i, "refused", j)
        \/ Goto(i, "granted", j) /\ approvals[a].status # "REJECTED"
    BY <1>10 DEF OnApproval
  <2> HIDE DEF j
  <2>6. CASE Goto(i, "refused", j)
    BY <1>4, <2>1, <2>3, <2>6 DEF Reporting, Recovering, Granting
  <2>7. CASE Goto(i, "granted", j) /\ approvals[a].status # "REJECTED"
    BY <1>4, <2>1, <2>3, <2>4, <2>7 DEF Reporting, Recovering
  <2>8. QED
    BY <2>5, <2>6, <2>7
<1>11. CASE Route(i)
  <2>1. pc[i] \in Granting /\ pc[i] \in Deciding /\ job[i].message.ref \in 1 .. Len(approvals)
    BY <1>11, AtHand DEF Route, Deciding, Granting, Locals
  <2>2. approvals[job[i].message.ref].action # "recovery.apply"
    BY <2>1 DEF OnceCore, OnePurchase
  <2>3. Goto(i, "reset_task", job[i])
    BY <1>11, <2>2 DEF Route
  <2>4. QED
    BY <1>4, <2>1, <2>3 DEF Unasked, Reporting, Recovering
<1>12. CASE ResetTask(i)
  <2> DEFINE n == tasks[approvals[job[i].message.ref].task].attempt
             j == [job[i] EXCEPT !.attempt = n]
  <2>1. pc[i] \in Granting /\ pc[i] \in Deciding
    BY <1>12 DEF ResetTask, Deciding, Granting
  <2>2. Goto(i, "save_reset", j)
    BY <1>12 DEF ResetTask
  <2>3. j.mission = job[i].mission
    BY <1>2 DEF Job
  <2> HIDE DEF j
  <2>4. QED
    BY <1>4, <2>1, <2>2, <2>3 DEF Unasked, Reporting, Recovering
<1>13. QED
  BY <1>5, <1>6, <1>7, <1>8, <1>9, <1>10, <1>11, <1>12

(* The gateway is asked once: for the purchase of the last task.           *)
LEMMA OnceAsks ==
  ASSUME TypeInv, OnceCore, NEW i \in Instances, AgentAsks(i)
  PROVE  OnceCore' /\ Kept
<1> DEFINE t == job[i].task
<1>1. pc[i] = "agent" /\ t \in Tasks /\ tasks[t].status = "RUNNING" /\ job[i] \in Job
      /\ \A k \in Instances : Running(k, t) => k = i
  BY Owner, AtHand DEF AgentAsks, Reporting
<1>2. t = NumTasks /\ "governed" \in scenario
  BY DeployedAssumption DEF AgentAsks, Authorised
<1>3. \A a \in 1 .. Len(approvals) : FALSE
  <2>1. SUFFICES ASSUME NEW a \in 1 .. Len(approvals) PROVE FALSE
    OBVIOUS
  <2>2. a \in Covering(t) /\ approvals[a].status = "PENDING"
    BY <1>2 DEF OnceCore, OnePurchase, Covering, AgentAsks
  <2>3. PICK k \in Instances : pc[k] = "task_waiting"
    BY <1>1, <1>2, <2>2 DEF OnceCore, Awaited
  <2>4. Running(k, t)
    BY <1>2, <2>3 DEF OnceCore, Awaited, Running
  <2>5. QED
    BY <1>1, <2>3, <2>4
<1>4. Covering(t) = {}
  BY <1>3 DEF Covering
<1>5. /\ Len(approvals) = 0 /\ Unasked /\ \A m \in bus : m.type # "APPROVAL_RECEIVED"
      /\ \A k \in Instances : pc[k] \notin Deciding
  BY <1>3, NobodyAsked
<1>6. approvals' = Append(approvals, Purchase(t)) /\ UNCHANGED <<mission, tasks, bus, Limits>>
  BY <1>4 DEF AgentAsks
<1>7. Purchase(t) \in Approval /\ Purchase(t).status = "PENDING" /\ Purchase(t).task = t
      /\ Purchase(t).action = "purchase.execute"
  BY <1>1 DEF Purchase, Approval, ApprovalStatus, Directives
<1>8. Len(approvals') = 1 /\ approvals'[1] = Purchase(t)
  BY <1>5, <1>6, <1>7, Appended
<1>9. PICK a : Goto(i, "task_waiting", [job[i] EXCEPT !.asked = a])
  BY DEF AgentAsks
<1> DEFINE j == [job[i] EXCEPT !.asked = a]
<1>10. j.task = t /\ j.mission = job[i].mission
  BY <1>1 DEF Job
<1>11. /\ pc'[i] = "task_waiting" /\ job'[i] = j
       /\ \A k \in Instances \ {i} : pc'[k] = pc[k] /\ job'[k] = job[k]
  BY <1>9, Goes
<1> HIDE DEF j
<1>12. OnePurchase'
  BY <1>2, <1>6, <1>7, <1>8 DEF OnePurchase, Limits
<1>13. RunsAlone'
  <2>1. \A k \in Instances, u \in Tasks : Running(k, u)' <=> Running(k, u)
    BY <1>1, <1>10, <1>11 DEF Running
  <2>2. QED
    BY <1>6, <1>11, <2>1 DEF OnceCore, RunsAlone, ExclusiveRun, Recovering
<1>14. Awaited'
  <2>1. Unasked'
    BY <1>5, <1>6, <1>10, <1>11 DEF Unasked
  <2>2. \A k \in Instances : pc'[k] = "task_waiting" => k = i
    <3>1. \A k \in Instances : pc[k] # "task_waiting"
      BY <1>5 DEF OnceCore, Awaited
    <3>2. QED
      BY <1>11, <3>1
  <2>3. QED
    BY <1>2, <1>7, <1>8, <1>10, <1>11, <2>1, <2>2 DEF Awaited
<1>15. AnsweredOnce'
  <2>1. \A k \in Instances : pc'[k] \notin Deciding
    BY <1>5, <1>11 DEF Deciding, Granting
  <2>2. \A m \in bus' : m.type # "APPROVAL_RECEIVED"
    BY <1>5, <1>6
  <2>3. QED
    BY <2>1, <2>2 DEF AnsweredOnce, Decided
<1>16. QED
  BY <1>6, <1>12, <1>13, <1>14, <1>15 DEF OnceCore, Kept

(* An owner gives its task up.                                             *)
LEMMA OnceReports ==
  ASSUME TypeInv, OnceCore, NEW i \in Instances, TaskCompleted(i) \/ TaskWaiting(i)
  PROVE  OnceCore' /\ Kept
<1> DEFINE t == job[i].task
<1>1. /\ pc[i] \in Reporting /\ t \in Tasks /\ tasks[t].status = "RUNNING"
      /\ \A k \in Instances : Running(k, t) => k = i
      /\ tasks \in [Tasks -> Task] /\ job[i] \in Job /\ Running(i, t)
  BY Owner, AtHand, StoreType DEF TaskCompleted, TaskWaiting, Reporting, Budgeted, Running
<1>2. UNCHANGED <<mission, approvals, bus, Limits>>
  BY DEF TaskCompleted, TaskWaiting, SaveTask
<1>3. \A u \in Tasks \ {t} : tasks'[u] = tasks[u]
  BY <1>1 DEF TaskCompleted, TaskWaiting, SaveTask
<1>4. /\ pc'[i] \in {"reinstate", "progress", "hold"}
      /\ \A k \in Instances \ {i} : pc'[k] = pc[k] /\ job'[k] = job[k]
  BY Goes DEF TaskCompleted, TaskWaiting, SaveTask
<1>5. \A k \in Instances, u \in Tasks : Running(k, u)' => Running(k, u) /\ u # t /\ k # i
  BY <1>1, <1>4 DEF Running
<1>6. RunsAlone'
  <2>1. \A k \in Instances : pc'[k] \notin Recovering \cup {"task_failed"}
    BY <1>4 DEF OnceCore, RunsAlone, Recovering
  <2>2. QED
    BY <1>3, <1>5, <2>1 DEF OnceCore, RunsAlone, ExclusiveRun
<1>7. OnePurchase'
  BY <1>2 DEF OnceCore, OnePurchase, Limits
<1>8. Kept
  BY <1>1, <1>3 DEF Kept
<1>9. NumTasks \in Tasks
      /\ (tasks[NumTasks].status = "WAITING" => tasks'[NumTasks].status = "WAITING")
  BY <1>1, <1>3, DeployedAssumption DEF Tasks
<1>10. AnsweredOnce'
  <2>1. \A k \in Instances : /\ pc'[k] \in Deciding => k # i /\ pc[k] \in Deciding
                             /\ pc'[k] \in Granting => pc[k] \in Granting
    BY <1>4 DEF Deciding, Granting
  <2>2. QED
    BY <1>2, <1>9, <2>1 DEF OnceCore, AnsweredOnce
<1>11. \A k \in Instances : pc'[k] = "task_waiting" => k # i /\ pc[k] = "task_waiting"
  BY <1>4
<1>12. Awaited'
  <2>1. CASE TaskCompleted(i)
    <3>1. pc[i] = "task_completed" /\ job'[i] = job[i]
      BY <2>1, Goes DEF TaskCompleted, SaveTask
    <3>2. Unasked => Unasked'
      BY <1>2, <1>4, <3>1 DEF Unasked
    <3>3. \A k \in Instances : pc[k] = "task_waiting" => pc'[k] = "task_waiting"
      BY <1>4, <3>1
    <3>4. QED
      BY <1>2, <1>4, <1>9, <1>11, <3>2, <3>3 DEF OnceCore, Awaited
  <2>2. CASE TaskWaiting(i)
    <3>1. t = NumTasks
      BY <2>2 DEF TaskWaiting, OnceCore, Awaited
    <3>2. tasks'[NumTasks].status = "WAITING"
      BY <1>1, <2>2, <3>1 DEF TaskWaiting, SaveTask
    <3>3. \A k \in Instances : pc[k] = "task_waiting" => Running(k, t)
      BY <3>1 DEF OnceCore, Awaited, Running
    <3>4. QED
      BY <1>1, <1>11, <3>2, <3>3 DEF Awaited
  <2>3. QED
    BY <2>1, <2>2
<1>13. QED
  BY <1>6, <1>7, <1>8, <1>10, <1>12 DEF OnceCore

(* No agent fails: the one whose purchase is refused is never run again.   *)
LEMMA NeverFails ==
  ASSUME TypeInv, OnceCore, Unretried, NEW i \in Instances
  PROVE  ~(\/ AgentFails(i) \/ TaskFailed(i) \/ Recover(i) \/ ApplyDirective(i)
           \/ RetryTask(i) \/ SaveRetry(i))
<1>1. pc[i] \notin {"task_failed", "twin", "directive", "retry_task", "save_retry"}
  BY DEF OnceCore, RunsAlone, Recovering
<1>2. SUFFICES ASSUME AgentFails(i) PROVE FALSE
  BY <1>1 DEF TaskFailed, Recover, ApplyDirective, RetryTask, SaveRetry
<1>3. pc[i] = "agent" /\ pc[i] \in Reporting
  BY <1>2 DEF AgentFails, Reporting
<1>4. PICK a \in Covering(job[i].task) : approvals[a].status = "REJECTED"
  BY <1>2 DEF AgentFails, Unretried
<1>5. a \in 1 .. Len(approvals) /\ a = 1 /\ job[i].task = NumTasks
  BY <1>4 DEF Covering, OnceCore, OnePurchase
<1>6. tasks[NumTasks].status = "RUNNING"
  BY <1>3, <1>5, Owner
<1>7. PICK k \in Instances : pc[k] = "task_waiting"
  BY <1>4, <1>5, <1>6 DEF OnceCore, Awaited
<1>8. QED
  BY <1>4, <1>5, <1>7 DEF OnceCore, Awaited

LEMMA OnceReopens ==
  ASSUME TypeInv, OnceCore, NEW i \in Instances, SaveReset(i)
  PROVE  OnceCore' /\ Kept
<1> DEFINE a == job[i].message.ref
<1>1. pc[i] = "save_reset" /\ pc[i] \in Deciding /\ pc[i] \in Granting /\ a \in 1 .. Len(approvals)
  BY AtHand DEF SaveReset, Deciding, Granting, Locals
<1>2. a = 1 /\ approvals[a].task = NumTasks /\ NumTasks \in Tasks
  BY <1>1, DeployedAssumption DEF OnceCore, OnePurchase, Tasks
<1>3. tasks[NumTasks].status = "WAITING" /\ \A m \in bus : m.type # "APPROVAL_RECEIVED"
  BY <1>1 DEF OnceCore, AnsweredOnce
<1>4. tasks' = [tasks EXCEPT ![NumTasks] = Reopened(i)]
      /\ Goto(i, "authorise", job[i]) /\ UNCHANGED <<mission, approvals, bus, Limits>>
  BY <1>2 DEF SaveReset
<1>5. \A u \in Tasks \ {NumTasks} : tasks'[u] = tasks[u]
  BY <1>4, StoreType DEF Budgeted
<1>6. /\ pc'[i] = "authorise" /\ job'[i] = job[i]
      /\ \A k \in Instances \ {i} : pc'[k] = pc[k] /\ job'[k] = job[k]
  BY <1>4, Goes
<1>7. \A k \in Instances, u \in Tasks : Running(k, u)' => Running(k, u)
  BY <1>6 DEF Running
<1>8. \A k \in Instances : ~Running(k, NumTasks)
  BY <1>2, <1>3 DEF OnceCore, RunsAlone
<1>9. RunsAlone'
  <2>1. \A k \in Instances : pc'[k] \notin Recovering \cup {"task_failed"}
    BY <1>6 DEF OnceCore, RunsAlone, Recovering
  <2>2. QED
    BY <1>5, <1>7, <1>8, <2>1 DEF OnceCore, RunsAlone, ExclusiveRun
<1>10. OnePurchase'
  BY <1>4 DEF OnceCore, OnePurchase, Limits
<1>11. Awaited'
  <2>1. \A k \in Instances : pc[k] # "task_waiting"
    BY <1>8 DEF OnceCore, Awaited, Running
  <2>2. approvals[1].status \notin {"PENDING", "REJECTED"}
    BY <1>1, <1>2 DEF OnceCore, AnsweredOnce
  <2>3. \A k \in Instances : pc'[k] # "task_waiting"
    BY <1>6, <2>1
  <2>4. \A b \in 1 .. Len(approvals) : b = 1
    BY DEF OnceCore, OnePurchase
  <2>5. QED
    BY <1>4, <2>2, <2>3, <2>4 DEF Awaited
<1>12. AnsweredOnce'
  <2>1. \A k \in Instances : pc'[k] \notin Deciding
    BY <1>1, <1>6 DEF OnceCore, AnsweredOnce, Deciding, Granting
  <2>2. QED
    BY <1>3, <1>4, <2>1 DEF AnsweredOnce, Decided
<1>13. Kept
  BY <1>2, <1>3, <1>5 DEF Kept
<1>14. QED
  BY <1>9, <1>10, <1>11, <1>12, <1>13 DEF OnceCore

LEMMA OnceDelivers ==
  ASSUME TypeInv, OnceCore, Unretried, NEW i \in Instances, Push(i)
  PROVE  OnceCore' /\ Kept
<1>1. PICK m \in bus : Deliver(i, m)
  BY DEF Push
<1> DEFINE j == [NoJob EXCEPT !.message = m]
<1>2. j.mission.pending = 0
  BY DEF NoJob, NoMission
<1>3. pc[i] = "idle" /\ UNCHANGED <<mission, tasks, approvals, scenario>> /\ bus' \subseteq bus
  BY <1>1 DEF Deliver, Documents
<1>4. CASE m.type # "APPROVAL_RECEIVED"
  <2>1. Goto(i, "require", j)
    BY <1>1, <1>4 DEF Deliver
  <2>2. "require" \notin Reporting \cup Recovering \cup {"task_failed", "task_waiting"}
        /\ "require" \notin Deciding \cup Granting
    BY DEF Reporting, Recovering, Deciding, Granting
  <2> HIDE DEF j
  <2>3. OnceCore'
    BY <1>2, <1>3, <2>1, <2>2, OnceQuiet DEF Unasked
  <2>4. QED
    BY <1>3, <2>3 DEF Kept
<1>5. CASE m.type = "APPROVAL_RECEIVED"
  <2>1. m \in Message /\ m.ref \in 1 .. Len(approvals) /\ bus \subseteq Message
    BY <1>5 DEF TypeInv, TypeOK, Asked
  <2>2. m.ref = 1 /\ "governed" \in scenario /\ \A b \in 1 .. Len(approvals) : b = 1
    BY <2>1 DEF OnceCore, OnePurchase
  <2>3. m = Decided(1)
    BY <1>5, <2>1, <2>2 DEF Message, Decided
  <2>4. bus' = bus \ {m}
    BY <1>1, <1>5, <2>2 DEF Deliver, Repeatable, Unretried
  <2>5. \A n \in bus' : n.type # "APPROVAL_RECEIVED"
    <3>1. SUFFICES ASSUME NEW n \in bus', n.type = "APPROVAL_RECEIVED" PROVE FALSE
      OBVIOUS
    <3>2. n \in Message /\ n.ref \in 1 .. Len(approvals)
      BY <1>3, <2>1, <3>1 DEF TypeInv, Asked
    <3>3. n = Decided(1)
      BY <2>2, <3>1, <3>2 DEF Message, Decided
    <3>4. QED
      BY <2>3, <2>4, <3>3
  <2>6. tasks[NumTasks].status = "WAITING" /\ \A k \in Instances : pc[k] \notin Deciding
    BY <1>5 DEF OnceCore, AnsweredOnce
  <2>7. Goto(i, "decision", j)
    BY <1>1, <1>5 DEF Deliver
  <2>8. /\ pc'[i] = "decision" /\ job'[i] = j
        /\ \A k \in Instances \ {i} : pc'[k] = pc[k] /\ job'[k] = job[k]
    BY <2>7, Goes
  <2> HIDE DEF j
  <2>9. AnsweredOnce'
    <3>1. \A b \in 1 .. Len(approvals) : approvals[b].status # "PENDING"
      BY <2>2, <2>3 DEF OnceCore, AnsweredOnce
    <3>2. \A k \in Instances : pc'[k] \in Deciding => k = i
      BY <2>6, <2>8
    <3>3. pc'[i] \notin Granting
      BY <2>8 DEF Granting
    <3>4. QED
      BY <1>3, <2>5, <2>6, <3>1, <3>2, <3>3 DEF AnsweredOnce
  <2>10. RunsAlone'
    <3>1. \A k \in Instances, t \in Tasks : Running(k, t)' => Running(k, t)
      BY <2>8 DEF Running
    <3>2. QED
      BY <1>3, <2>8, <3>1 DEF OnceCore, RunsAlone, ExclusiveRun, Recovering
  <2>11. Awaited'
    <3>1. Unasked => Unasked'
      BY <1>2, <1>3, <2>8 DEF Unasked
    <3>2. \A k \in Instances : pc'[k] = "task_waiting" => pc[k] = "task_waiting" /\ job'[k] = job[k]
      BY <2>8
    <3>3. QED
      BY <1>3, <2>6, <3>1, <3>2 DEF OnceCore, Awaited
  <2>12. OnePurchase' /\ Kept
    BY <1>3 DEF OnceCore, OnePurchase, Kept
  <2>13. QED
    BY <2>9, <2>10, <2>11, <2>12 DEF OnceCore
<1>6. QED
  BY <1>4, <1>5

(* A handler dies only where no purchase needs an approval.                *)
LEMMA OnceDies ==
  ASSUME TypeInv, OnceCore, Unretried, NEW i \in Instances, Crash(i)
  PROVE  OnceCore' /\ Kept
<1>1. \A a \in 1 .. Len(approvals) : FALSE
  BY DEF Crash, Unretried, OnceCore, OnePurchase
<1>2. Goto(i, "idle", NoJob) /\ UNCHANGED <<Documents, scenario>>
      /\ bus' = bus \cup ({job[i].message} \ {NoMessage})
  BY DEF Crash, Return
<1>3. pc[i] # "task_waiting" /\ job[i].message.type # "APPROVAL_RECEIVED"
  BY <1>1, NobodyAsked, AtHand DEF OnceCore, Awaited, Locals
<1>4. \A m \in bus' : m.type = "APPROVAL_RECEIVED" => m \in bus
  BY <1>2, <1>3
<1>5. QED
  BY <1>2, <1>3, <1>4, OnceReturn

(* The operator answers what the mission waits for, once.                  *)
LEMMA OnceDecides ==
  ASSUME TypeInv, OnceCore, Unretried,
         NEW a \in 1 .. Len(approvals), NEW verdict \in {"APPROVED", "REJECTED"},
         Decide(a, verdict)
  PROVE  OnceCore' /\ Kept
<1>1. a = 1 /\ "governed" \in scenario /\ \A b \in 1 .. Len(approvals) : b = 1
  BY DEF OnceCore, OnePurchase
<1>2. approvals[1].status = "PENDING" /\ mission.pending = 1
  BY <1>1 DEF Decide, Answerable, Unretried
<1>3. UNCHANGED <<mission, tasks, pc, job, Limits>> /\ bus' = bus \cup {Decided(1)}
  BY <1>1 DEF Decide
<1>4. \A k \in Instances : pc[k] # "task_waiting"
  BY <1>2 DEF OnceCore, Awaited, Unasked
<1>5. tasks[NumTasks].status = "WAITING"
  BY <1>1, <1>2, <1>4 DEF OnceCore, Awaited
<1>6. Len(approvals') = Len(approvals) /\ Len(approvals) \in Nat
      /\ approvals'[1] = [approvals[1] EXCEPT !.status = verdict] /\ approvals[1] \in Approval
  BY <1>1, DecideType, StoreType
<1>7. approvals'[1].status = verdict /\ approvals'[1].action = approvals[1].action
      /\ approvals'[1].task = approvals[1].task
  BY <1>6 DEF Approval
<1>8. OnePurchase'
  BY <1>1, <1>3, <1>6, <1>7 DEF OnceCore, OnePurchase, Limits
<1>9. RunsAlone'
  BY <1>3 DEF OnceCore, RunsAlone, ExclusiveRun, Running
<1>10. Awaited'
  BY <1>3, <1>4, <1>5 DEF Awaited
<1>11. AnsweredOnce'
  <2>1. \A k \in Instances : pc[k] \notin Deciding
    BY <1>1, <1>2 DEF OnceCore, AnsweredOnce
  <2>2. \A b \in 1 .. Len(approvals') : approvals'[b].status # "PENDING"
    BY <1>1, <1>6, <1>7
  <2>3. QED
    BY <1>3, <1>5, <2>1, <2>2 DEF AnsweredOnce
<1>12. QED
  BY <1>3, <1>8, <1>9, <1>10, <1>11 DEF OnceCore, Kept

LEMMA OnceInit == Init => OnceInv
<1> SUFFICES ASSUME Init PROVE OnceInv
  OBVIOUS
<1>1. TypeInv
  BY InitType
<1>2. Len(approvals) = 0 /\ approvals = <<>>
  BY DEF Init
<1>3. \A i \in Instances : pc[i] = "idle"
  BY DEF Init
<1>4. \A i \in Instances : pc[i] \notin Deciding \cup Recovering \cup Reporting
  BY <1>3 DEF Deciding, Granting, Recovering, Reporting
<1>5. OnePurchase /\ Awaited /\ AnsweredOnce /\ RunsAlone
  BY <1>2, <1>3, <1>4
     DEF OnePurchase, Awaited, AnsweredOnce, RunsAlone, ExclusiveRun, Running, Reporting, Init
<1>6. QED
  BY <1>1, <1>5 DEF OnceInv, OnceCore

LEMMA ScenarioStays == [Next]_vars => UNCHANGED scenario
<1>1. ASSUME NEW i \in Instances, Start(i) \/ Push(i) \/ Crash(i) PROVE UNCHANGED scenario
  BY <1>1 DEF Start, Push, Deliver, Crash, Limits
<1>2. ASSUME NEW i \in Instances, Work(i) PROVE UNCHANGED scenario
  BY <1>2 DEF Work, SaveMission, UpdateMission, Require, SelectTask, ClaimTask, AgentSucceeds,
     AgentAsks, AgentFails, TaskCompleted, TaskWaiting, TaskFailed, SaveTask, Announce, Recover,
     ApplyDirective, RetryTask, SaveRetry, OnApproval, Route, ResetTask, SaveReset, Limits
<1>3. ASSUME NEW a, NEW verdict, Decide(a, verdict) PROVE UNCHANGED scenario
  BY <1>3 DEF Decide, Limits
<1>4. QED
  BY <1>1, <1>2, <1>3 DEF Next, vars

LEMMA OnceNext == OnceInv /\ [Next]_vars => OnceInv' /\ (Unretried => Kept)
<1> SUFFICES ASSUME OnceInv, [Next]_vars PROVE OnceInv' /\ (Unretried => Kept)
  OBVIOUS
<1>1. TypeInv /\ TypeInv'
  BY NextType DEF OnceInv
<1>2. UNCHANGED scenario
  BY ScenarioStays
<1>3. SUFFICES ASSUME Unretried PROVE OnceCore' /\ Kept
  BY <1>1, <1>2 DEF OnceInv, Unretried
<1>4. OnceCore
  BY <1>3 DEF OnceInv
<1>5. ASSUME NEW i \in Instances, Work(i) PROVE OnceCore' /\ Kept
  BY <1>1, <1>3, <1>4, <1>5, OnceWrite, OnceClaim, OnceGoesOn, OnceAsks, OnceReports, NeverFails,
     OnceReopens DEF Work
<1>6. ASSUME NEW i \in Instances, Start(i) \/ Push(i) \/ Crash(i) PROVE OnceCore' /\ Kept
  BY <1>1, <1>3, <1>4, <1>6, OnceGoesOn, OnceDelivers, OnceDies
<1>7. ASSUME NEW a \in 1 .. Len(approvals), NEW verdict \in {"APPROVED", "REJECTED"},
             Decide(a, verdict)
      PROVE  OnceCore' /\ Kept
  BY <1>1, <1>3, <1>4, <1>7, OnceDecides
<1>8. CASE UNCHANGED vars
  BY <1>4, <1>8 DEF vars, OnceCore, OnePurchase, RunsAlone, ExclusiveRun, Running, Awaited, Unasked,
     AnsweredOnce, Kept
<1>9. QED
  BY <1>5, <1>6, <1>7, <1>8 DEF Next

(***************************************************************************)
(* Failing agents, when nothing is repeated                                *)
(***************************************************************************)

(* Each message is handled once and the operator answers what the mission  *)
(* waits for: at most one handler drives the mission, or one message, or   *)
(* the operator.                                                           *)
Busy(i) == pc[i] \notin {"idle", "start"}

InOrder(ts) ==
  \A t, u \in Tasks : u < t /\ ts[t].status # "PENDING" => ts[u].status = "COMPLETED"

(* The task of an approval stays as it was when the approval was requested.*)
Held(a, ts, as) ==
  IF as[a].action = "purchase.execute" THEN ts[as[a].task].status = "WAITING"
                                       ELSE ts[as[a].task].status = "FAILED"

Cleared(t, as) ==
  t \in Buyers /\ "governed" \in scenario =>
    \E a \in 1 .. Len(as) : /\ as[a].action = "purchase.execute" /\ as[a].task = t
                            /\ as[a].status = "APPROVED"

Asks(p, j) == \/ p \in {"task_waiting", "hold", "held"}
              \/ p = "directive" /\ j.directive = "WAIT_APPROVAL"

(* What the handler that drives the mission may rely on at place p: its    *)
(* copy of the mission is the last one, and the tasks are as it left them. *)
Driver(p, j, m, ts, as) ==
  /\ p \notin {"require", "decision"} =>
       j.mission.status = m.status /\ j.mission.version = m.version
  /\ p \in {"select", "claim", "planning", "twin"} \cup Reporting => m.status \notin TerminalMission
  /\ p = "claim" => \A u \in Tasks : u < j.task => ts[u].status = "COMPLETED"
  /\ p = "complete" => \A t \in Tasks : ts[t].status = "COMPLETED"
  /\ p \in Reporting => ts[j.task].status = "RUNNING"
  /\ p = "task_completed" => Cleared(j.task, as)
  /\ p \in Recovering => ts[j.task].status = "FAILED"
  /\ p \in Deciding => Held(j.message.ref, ts, as)
  /\ p \in {"reset_task", "save_reset"} => as[j.message.ref].action = "purchase.execute"
  /\ \A a \in 1 .. Len(as) : as[a].status = "PENDING" =>
       Asks(p, j) /\ (p # "held" => m.pending # a)

(* One message at most, and none while the operator is asked.              *)
OneThing(ms, ts, as) ==
  /\ \A m, n \in ms : m = n
  /\ \A m \in ms : m.type = "APPROVAL_RECEIVED" => Held(m.ref, ts, as)
  /\ \A a \in 1 .. Len(as) : as[a].status = "PENDING" => a = Len(as) /\ ms = {}

(* Start requests race only while the mission is as it was created.        *)
Fresh ==
  /\ mission.status = "CREATED" =>
       /\ mission.version = 1 /\ Len(approvals) = 0 /\ bus = {}
       /\ \A t \in Tasks : tasks[t].status = "PENDING"
       /\ \A i \in Instances : ~Busy(i)
  /\ mission.status # "CREATED" => mission.version > 1
  /\ \A i \in Instances : pc[i] = "start" =>
       job[i].mission.status = "CREATED" /\ job[i].mission.version = 1

Saying(p, j, a, as) ==
  p = "task_waiting" /\ j.task = as[a].task /\ as[a].action = "purchase.execute"

DrivenCore ==
  /\ Fresh /\ InOrder(tasks) /\ OneThing(bus, tasks, approvals)
  /\ \A i, k \in Instances : Busy(i) /\ Busy(k) => i = k
  /\ \A i \in Instances : Busy(i) =>
       bus = {} /\ Driver(pc[i], job[i], mission, tasks, approvals)
  /\ \A a \in 1 .. Len(approvals) : approvals[a].status = "PENDING" =>
       Held(a, tasks, approvals) \/ \E i \in Instances : Saying(pc[i], job[i], a, approvals)

DrivenInv == TypeInv /\ (Undisturbed => DrivenCore)

Onward == Kept /\ mission'.version >= mission.version

(* A step of the driver, or of the handler that becomes it.                *)
LEMMA DriverStep ==
  ASSUME TypeInv, DrivenCore, UNCHANGED scenario, NEW i \in Instances, NEW p, NEW j, Goto(i, p, j),
         \A k \in Instances : Busy(k) => k = i, p # "start",
         mission'.status # "CREATED", mission'.version > 1,
         InOrder(tasks'), OneThing(bus', tasks', approvals'),
         p # "idle" => bus' = {} /\ Driver(p, j, mission', tasks', approvals'),
         \A a \in 1 .. Len(approvals') : approvals'[a].status = "PENDING" =>
           Held(a, tasks', approvals') \/ Saying(p, j, a, approvals')
  PROVE  DrivenCore'
<1>1. /\ pc'[i] = p /\ job'[i] = (IF p = "idle" THEN NoJob ELSE j)
      /\ \A k \in Instances \ {i} : pc'[k] = pc[k] /\ job'[k] = job[k]
  BY Goes
<1>2. \A k \in Instances : Busy(k)' => k = i /\ p # "idle"
  BY <1>1 DEF Busy
<1>3. Fresh'
  BY <1>1 DEF DrivenCore, Fresh
<1>4. \A k \in Instances : Busy(k)' =>
        bus' = {} /\ Driver(pc'[k], job'[k], mission', tasks', approvals')
  BY <1>1, <1>2
<1>5. \A a \in 1 .. Len(approvals') : approvals'[a].status = "PENDING" =>
        Held(a, tasks', approvals') \/ \E k \in Instances : Saying(pc'[k], job'[k], a, approvals')
  BY <1>1 DEF Saying
<1>6. \A q, l, m, ts, as : Driver(q, l, m, ts, as)' <=> Driver(q, l, m, ts, as)
  BY DEF Driver, Cleared, Held, Asks
<1>7. QED
  BY <1>2, <1>3, <1>4, <1>5, <1>6 DEF DrivenCore

LEMMA Versions == TypeInv => mission.version \in Nat /\ mission.pending \in Nat
BY StoreType DEF Mission

(* The driver goes on, and only the mission may change.                    *)
LEMMA DriverGoesOn ==
  ASSUME TypeInv, TypeInv', DrivenCore, NEW i \in Instances, NEW p, NEW j, Goto(i, p, j),
         UNCHANGED <<scenario, tasks, approvals, bus>>,
         Busy(i), pc[i] # "task_waiting", p # "start",
         mission'.status # "CREATED", mission'.version >= mission.version,
         p # "idle" => Driver(p, j, mission', tasks, approvals)
  PROVE  DrivenCore' /\ Onward
<1>1. mission.version > 1 /\ mission.version \in Nat /\ mission'.version \in Nat
  <2>1. mission'.version \in Nat
    BY DEF TypeInv, TypeOK, Mission
  <2>2. QED
    BY <2>1, Versions DEF DrivenCore, Fresh
<1>2. bus = {} /\ \A k \in Instances : Busy(k) => k = i
  BY DEF DrivenCore
<1>3. \A a \in 1 .. Len(approvals) : approvals[a].status = "PENDING" => Held(a, tasks, approvals)
  BY <1>2 DEF DrivenCore, Saying, Busy
<1>4. InOrder(tasks) /\ OneThing(bus, tasks, approvals)
  BY DEF DrivenCore
<1>5. /\ InOrder(tasks') /\ OneThing(bus', tasks', approvals')
      /\ p # "idle" => bus' = {} /\ Driver(p, j, mission', tasks', approvals')
      /\ \A a \in 1 .. Len(approvals') : approvals'[a].status = "PENDING" =>
           Held(a, tasks', approvals')
  BY <1>2, <1>3, <1>4
<1>6. mission'.version > 1
  BY <1>1
<1>7. DrivenCore'
  BY <1>2, <1>5, <1>6, DriverStep
<1>8. QED
  BY <1>7 DEF Onward, Kept

(* What the driver may rely on.                                            *)
LEMMA AtTheWheel ==
  ASSUME TypeInv, DrivenCore, NEW i \in Instances, Busy(i)
  PROVE  /\ Driver(pc[i], job[i], mission, tasks, approvals)
         /\ bus = {} /\ \A k \in Instances : Busy(k) => k = i
         /\ mission.status # "CREATED" /\ mission.version > 1
BY DEF DrivenCore, Fresh

LEMMA DriverSaves ==
  ASSUME TypeInv, TypeInv', DrivenCore, NEW i \in Instances, SaveMission(i)
  PROVE  DrivenCore' /\ Onward
<1>1. PICK p, j : p = AfterSave[pc[i]] /\ j = job[i]
  OBVIOUS
<1>2. pc[i] \in DOMAIN AfterSave /\ Goto(i, p, j) /\ mission' = j.mission
      /\ UNCHANGED <<scenario, tasks, approvals, bus>>
  BY <1>1 DEF SaveMission, Limits
<1>3. pc[i] \in {"activate", "progress", "recorded", "held", "risk_saved", "planning", "retried",
                 "failed", "completed", "archived", "refused", "granted", "regranted", "replanned",
                 "authorised"}
  BY <1>2 DEF AfterSave
<1>4. Busy(i) /\ pc[i] \notin {"require", "decision", "task_waiting", "hold", "directive"}
  BY <1>3 DEF Busy
<1>5. Driver(pc[i], job[i], mission, tasks, approvals) /\ mission.status # "CREATED"
  BY <1>4, AtTheWheel
<1>6. mission'.status = mission.status /\ mission'.version = mission.version
  BY <1>1, <1>2, <1>4, <1>5 DEF Driver
<1>7. ASSUME p # "idle" PROVE Driver(p, j, mission', tasks, approvals)
  <2>1. pc[i] # "held"
    BY <1>1, <1>7 DEF AfterSave
  <2>2. \A a \in 1 .. Len(approvals) : approvals[a].status # "PENDING"
    BY <1>4, <1>5, <2>1 DEF Driver, Asks
  <2>3. p \in {"agent", "recorded", "announce", "recovering", "twin", "require", "archived",
               "failing", "regranted", "route", "directive"}
    BY <1>1, <1>3, <1>7 DEF AfterSave
  <2>4. /\ p \in {"select", "claim", "planning", "twin"} \cup Reporting => mission.status \notin TerminalMission
    BY <1>1, <1>3, <1>5, <2>3 DEF AfterSave, Driver, Reporting
  <2>5. /\ p \in Reporting => pc[i] \in Reporting
        /\ p \in Recovering => pc[i] \in Recovering
        /\ p \in Deciding => pc[i] \in Deciding
    BY <1>1, <1>3 DEF AfterSave, Reporting, Recovering, Deciding, Granting
  <2>6. p \notin {"claim", "complete", "task_completed", "reset_task", "save_reset"}
    BY <2>3
  <2>7. j.mission.status = mission'.status /\ j.mission.version = mission'.version
    BY <1>2
  <2>8. QED
    BY <1>1, <1>5, <1>6, <2>2, <2>4, <2>5, <2>6, <2>7 DEF Driver
<1>8. mission'.version >= mission.version
  BY <1>6, Versions
<1>9. p # "start"
  BY <1>1, <1>3 DEF AfterSave
<1>10. QED
  BY <1>2, <1>4, <1>5, <1>6, <1>7, <1>8, <1>9, DriverGoesOn

(* A handler that leaves everything to the others.                         *)
LEMMA Bystander ==
  ASSUME TypeInv, DrivenCore, NEW i \in Instances, NEW p, NEW j, Goto(i, p, j),
         UNCHANGED <<Documents, bus, scenario>>, ~Busy(i), p \in {"idle", "start"},
         p = "start" => j.mission.status = "CREATED" /\ j.mission.version = 1
  PROVE  DrivenCore' /\ Onward
<1>1. /\ pc'[i] = p /\ job'[i] = (IF p = "idle" THEN NoJob ELSE j)
      /\ \A k \in Instances \ {i} : pc'[k] = pc[k] /\ job'[k] = job[k]
  BY Goes
<1>2. UNCHANGED <<mission, tasks, approvals>>
  BY DEF Documents
<1>3. \A k \in Instances : Busy(k)' => k # i /\ Busy(k) /\ pc'[k] = pc[k] /\ job'[k] = job[k]
  BY <1>1 DEF Busy
<1>4. Fresh'
  BY <1>1, <1>2, <1>3 DEF DrivenCore, Fresh
<1>5. \A q, l, m, ts, as : Driver(q, l, m, ts, as)' <=> Driver(q, l, m, ts, as)
  BY DEF Driver, Cleared, Held, Asks
<1>6. \A a \in 1 .. Len(approvals) : approvals[a].status = "PENDING" =>
        Held(a, tasks, approvals) \/ \E k \in Instances : Saying(pc'[k], job'[k], a, approvals)
  <2>1. \A a : \A k \in Instances : Saying(pc[k], job[k], a, approvals) =>
                                  Saying(pc'[k], job'[k], a, approvals)
    BY <1>1 DEF Saying, Busy
  <2>2. QED
    BY <2>1 DEF DrivenCore
<1>7. DrivenCore'
  BY <1>2, <1>3, <1>4, <1>5, <1>6 DEF DrivenCore
<1>8. QED
  BY <1>2, <1>7, Versions DEF Onward, Kept

LEMMA DriverUpdates ==
  ASSUME TypeInv, TypeInv', DrivenCore, NEW i \in Instances, UpdateMission(i)
  PROVE  DrivenCore' /\ Onward
<1>1. PICK copy, target, p : copy = job[i].mission /\ target = Target[pc[i]] /\ p = AfterUpdate[pc[i]]
  OBVIOUS
<1>2. PICK moved : moved = [copy EXCEPT !.status = target, !.version = @ + 1]
  OBVIOUS
<1>3. PICK j : j = [job[i] EXCEPT !.mission = moved]
  OBVIOUS
<1>4. pc[i] \in DOMAIN Target /\ UNCHANGED <<scenario, tasks, approvals, bus>>
      /\ IF CanTransition(copy.status, target) /\ Current(copy)
           THEN mission' = moved /\ Goto(i, p, j)
           ELSE Goto(i, "idle", NoJob) /\ UNCHANGED mission
  BY <1>1, <1>2, <1>3 DEF UpdateMission, Limits, Return
<1>5. pc[i] \in {"start", "reinstate", "hold", "at_risk", "recovering", "retry", "failing",
                 "complete", "replan", "authorise"}
  BY <1>4 DEF Target
<1>6. /\ target \in MissionStatus /\ copy \in Mission /\ job[i] \in Job
      /\ target # "CREATED" /\ (target \in TerminalMission => pc[i] \in {"failing", "complete"})
  BY <1>1, <1>4, <1>5, UpdatePlaces, AtHand DEF Target, TerminalMission
<1>7. moved.status = target /\ moved.version = copy.version + 1 /\ moved \in Mission
  BY <1>2, <1>6, MovedType
<1>8. j.mission = moved /\ j.task = job[i].task /\ j.message = job[i].message
  BY <1>3, <1>6, <1>7, JobCopies
<1>9. p \in {"announce", "progress", "held", "risk_saved", "planning", "retried", "failed",
             "completed", "replanned", "authorised"}
  BY <1>1, <1>5 DEF AfterUpdate
<1>10. CASE pc[i] # "start"
  <2>1. Busy(i) /\ pc[i] # "task_waiting"
    BY <1>5, <1>10 DEF Busy
  <2>2. Driver(pc[i], job[i], mission, tasks, approvals) /\ mission.status # "CREATED"
    BY <2>1, AtTheWheel
  <2>3. CASE Goto(i, "idle", NoJob) /\ UNCHANGED mission
    BY <1>4, <2>1, <2>2, <2>3, Versions, DriverGoesOn
  <2>4. CASE mission' = moved /\ Goto(i, p, j)
    <3>1. mission.version = copy.version
      BY <1>1, <1>5, <2>2 DEF Driver
    <3>2. mission'.version >= mission.version
      BY <1>7, <2>4, <3>1, Versions
    <3>3. Driver(p, j, mission', tasks, approvals)
      <4>1. /\ p \notin {"select", "claim", "complete", "task_completed", "reset_task",
                        "save_reset", "twin"}
            /\ p \notin Reporting /\ p \notin Deciding
            /\ p \in Recovering => pc[i] \in Recovering
            /\ p = "planning" => pc[i] = "recovering"
        BY <1>1, <1>5, <1>9 DEF AfterUpdate, Reporting, Deciding, Granting, Recovering
      <4>2. p = "planning" => mission'.status \notin TerminalMission
        BY <1>6, <1>7, <2>4, <4>1
      <4>3. \A a \in 1 .. Len(approvals) : approvals[a].status = "PENDING" => p = "held"
        BY <1>1, <1>5, <2>2 DEF Driver, Asks, AfterUpdate
      <4>4. j.mission.status = mission'.status /\ j.mission.version = mission'.version
        BY <1>8, <2>4
      <4>5. QED
        BY <1>8, <2>2, <4>1, <4>2, <4>3, <4>4 DEF Driver, Asks
    <3>4. QED
      BY <1>4, <1>6, <1>7, <1>9, <2>1, <2>4, <3>2, <3>3, DriverGoesOn
  <2>5. QED
    BY <1>4, <2>3, <2>4
<1>11. CASE pc[i] = "start"
  <2>1. copy.status = "CREATED" /\ copy.version = 1 /\ p = "announce" /\ target = "EXECUTING"
    BY <1>1, <1>11 DEF DrivenCore, Fresh, AfterUpdate, Target
  <2>2. CASE Goto(i, "idle", NoJob) /\ UNCHANGED mission
    BY <1>4, <1>11, <2>2, Bystander DEF Busy, Documents
  <2>3. CASE mission' = moved /\ Goto(i, p, j) /\ Current(copy)
    <3>1. mission.version = 1 /\ mission.status = "CREATED"
      BY <2>1, <2>3 DEF Current, DrivenCore, Fresh
    <3>2. Len(approvals) = 0 /\ bus = {} /\ (\A k \in Instances : ~Busy(k)) /\ InOrder(tasks)
      BY <3>1 DEF DrivenCore, Fresh
    <3>3. mission'.version = 2 /\ mission'.status = "EXECUTING"
      BY <1>7, <2>1, <2>3
    <3>4. Driver(p, j, mission', tasks, approvals)
      BY <1>8, <2>1, <2>3, <3>2 DEF Driver, Reporting, Recovering, Deciding, Granting
    <3>5. OneThing(bus, tasks, approvals)
      BY DEF DrivenCore
    <3>6. DrivenCore'
      BY <1>4, <2>1, <2>3, <3>2, <3>3, <3>4, <3>5, DriverStep
    <3>7. QED
      BY <1>4, <3>1, <3>3, <3>6 DEF Onward, Kept
  <2>4. QED
    BY <1>4, <2>2, <2>3
<1>12. QED
  BY <1>10, <1>11

(* The driver reads and decides, and writes nothing.                       *)
LEMMA DriverReads ==
  ASSUME TypeInv, TypeInv', DrivenCore, NEW i \in Instances,
         \/ Require(i) \/ SelectTask(i) \/ AgentSucceeds(i) \/ AgentFails(i)
         \/ ApplyDirective(i) \/ OnApproval(i) \/ Route(i)
  PROVE  DrivenCore' /\ Onward
<1>1. UNCHANGED <<mission, scenario, tasks, approvals, bus>>
  BY DEF Require, SelectTask, AgentSucceeds, AgentFails, ApplyDirective, OnApproval, Route, Limits,
         Documents
<1>2. Busy(i) /\ pc[i] # "task_waiting" /\ job[i] \in Job /\ mission \in Mission
  BY AtHand, StoreType DEF Require, SelectTask, AgentSucceeds, AgentFails, ApplyDirective,
     OnApproval, Route, Busy
<1>3. Driver(pc[i], job[i], mission, tasks, approvals) /\ mission.status # "CREATED"
      /\ mission.version >= mission.version
  BY <1>2, AtTheWheel, Versions
<1>4. ASSUME NEW p, NEW j, Goto(i, p, j), p # "start",
             p # "idle" => Driver(p, j, mission, tasks, approvals)
      PROVE  DrivenCore' /\ Onward
  BY <1>1, <1>2, <1>3, <1>4, DriverGoesOn
<1>5. CASE Require(i)
  <2>1. PICK j : j = [job[i] EXCEPT !.mission = mission]
    OBVIOUS
  <2>2. j.mission = mission
    BY <1>2, <2>1, JobCopies
  <2>3. \/ Goto(i, "idle", NoJob)
        \/ Goto(i, "select", j) /\ mission.status \notin TerminalMission
    BY <1>5, <2>1 DEF Require, Return
  <2>4. \A a \in 1 .. Len(approvals) : approvals[a].status # "PENDING"
    BY <1>3, <1>5 DEF Driver, Asks, Require
  <2>5. mission.status \notin TerminalMission => Driver("select", j, mission, tasks, approvals)
    BY <2>2, <2>4 DEF Driver, Reporting, Recovering, Deciding, Granting
  <2>6. QED
    BY <1>4, <2>3, <2>5
<1>6. CASE SelectTask(i)
  <2>1. pc[i] = "select" /\ \A a \in 1 .. Len(approvals) : approvals[a].status # "PENDING"
    BY <1>3, <1>6 DEF Driver, Asks, SelectTask
  <2>2. job[i].mission.status = mission.status /\ job[i].mission.version = mission.version
        /\ mission.status \notin TerminalMission
    BY <1>3, <2>1 DEF Driver
  <2>3. CASE AllCompleted /\ Goto(i, "complete", job[i])
    <3>1. Driver("complete", job[i], mission, tasks, approvals)
      BY <2>1, <2>2, <2>3 DEF Driver, AllCompleted, Reporting, Recovering, Deciding, Granting
    <3>2. QED
      BY <1>4, <2>3, <3>1
  <2>4. CASE Goto(i, "idle", NoJob)
    BY <1>4, <2>4
  <2>5. ASSUME NEW t \in Runnable, Goto(i, "claim", [job[i] EXCEPT !.task = t])
        PROVE  DrivenCore' /\ Onward
    <3>1. PICK j : j = [job[i] EXCEPT !.task = t]
      OBVIOUS
    <3>2. j.task = t /\ j.mission = job[i].mission /\ t \in Tasks
      BY <1>2, <3>1 DEF Job, Runnable
    <3>3. \A u \in Tasks : u < t => tasks[u].status = "COMPLETED"
      <4>1. SUFFICES ASSUME NEW u \in Tasks, u < t PROVE tasks[u].status = "COMPLETED"
        OBVIOUS
      <4>2. t \in Nat /\ u \in Nat /\ 1 <= u /\ t <= NumTasks /\ NumTasks \in Nat
        BY <3>2, DeployedAssumption DEF Tasks
      <4>3. t > 1 /\ t - 1 \in Tasks /\ (u < t - 1 \/ u = t - 1)
        BY <4>1, <4>2 DEF Tasks
      <4>4. tasks[t - 1].status = "COMPLETED"
        BY <4>3 DEF Runnable
      <4>5. u < t - 1 => tasks[u].status = "COMPLETED"
        BY <4>3, <4>4 DEF DrivenCore, InOrder
      <4>6. QED
        BY <4>3, <4>4, <4>5
    <3>4. Driver("claim", j, mission, tasks, approvals)
      BY <2>1, <2>2, <3>2, <3>3 DEF Driver, Reporting, Recovering, Deciding, Granting
    <3>5. QED
      BY <1>4, <2>5, <3>1, <3>4
  <2>6. QED
    BY <1>6, <2>3, <2>4, <2>5 DEF SelectTask, Return
<1>7. CASE AgentSucceeds(i) \/ AgentFails(i)
  <2>1. pc[i] = "agent" /\ \A a \in 1 .. Len(approvals) : approvals[a].status # "PENDING"
    BY <1>3, <1>7 DEF Driver, Asks, AgentSucceeds, AgentFails
  <2>2. PICK p \in {"task_completed", "task_failed"} :
          /\ Goto(i, p, job[i])
          /\ p = "task_completed" => Authorised(job[i].task)
    BY <1>7 DEF AgentSucceeds, AgentFails
  <2>3. p = "task_completed" => Cleared(job[i].task, approvals)
    BY <2>2 DEF Authorised, Cleared, Covering
  <2>4. /\ job[i].mission.status = mission.status /\ job[i].mission.version = mission.version
        /\ mission.status \notin TerminalMission /\ tasks[job[i].task].status = "RUNNING"
    BY <1>3, <2>1 DEF Driver, Reporting
  <2>5. Driver(p, job[i], mission, tasks, approvals)
    BY <2>1, <2>2, <2>3, <2>4 DEF Driver, Recovering, Deciding, Granting
  <2>6. QED
    BY <1>4, <2>2, <2>5
<1>8. CASE ApplyDirective(i)
  <2>1. PICK fresh : fresh = [job[i] EXCEPT !.mission = mission]
    OBVIOUS
  <2>2. PICK held : held = [fresh EXCEPT !.mission.pending = job[i].asked]
    OBVIOUS
  <2>3. fresh \in Job /\ fresh.mission = mission /\ fresh.task = job[i].task /\ job[i].asked \in Nat
    BY <1>2, <2>1, JobCopies DEF Job
  <2>4. held.mission.status = mission.status /\ held.mission.version = mission.version
    BY <2>2, <2>3, JobWaits
  <2>5. pc[i] = "directive" /\ tasks[job[i].task].status = "FAILED"
    BY <1>3, <1>8 DEF Driver, Recovering, ApplyDirective
  <2>6. \A a \in 1 .. Len(approvals) : approvals[a].status = "PENDING" =>
          job[i].directive = "WAIT_APPROVAL" /\ mission.pending # a
    BY <1>3, <2>5 DEF Driver, Asks
  <2>7. \/ Goto(i, "retry_task", fresh) /\ job[i].directive # "WAIT_APPROVAL"
        \/ Goto(i, "hold", held)
        \/ Goto(i, "failing", fresh) /\ job[i].directive # "WAIT_APPROVAL"
    BY <1>8, <2>1, <2>2 DEF ApplyDirective
  <2>8. Driver("hold", held, mission, tasks, approvals)
    BY <2>4, <2>6 DEF Driver, Asks, Reporting, Recovering, Deciding, Granting
  <2>9. ASSUME NEW p \in {"retry_task", "failing"}, job[i].directive # "WAIT_APPROVAL"
        PROVE  Driver(p, fresh, mission, tasks, approvals)
    BY <2>3, <2>5, <2>6, <2>9 DEF Driver, Reporting, Deciding, Granting
  <2>10. QED
    BY <1>4, <2>7, <2>8, <2>9
<1>9. CASE OnApproval(i)
  <2>1. PICK j : j = [job[i] EXCEPT !.mission = [mission EXCEPT !.pending = 0]]
    OBVIOUS
  <2>2. /\ [mission EXCEPT !.pending = 0] \in Mission
        /\ [mission EXCEPT !.pending = 0].status = mission.status
        /\ [mission EXCEPT !.pending = 0].version = mission.version
    BY <1>2, MissionWaits
  <2>3. j.mission.status = mission.status /\ j.mission.version = mission.version
        /\ j.message = job[i].message
    BY <1>2, <2>1, <2>2, JobCopies
  <2>4. pc[i] = "decision" /\ Held(job[i].message.ref, tasks, approvals)
        /\ \A a \in 1 .. Len(approvals) : approvals[a].status # "PENDING"
    BY <1>3, <1>9 DEF Driver, Asks, Deciding, OnApproval
  <2>5. PICK p \in {"refused", "granted"} : Goto(i, p, j)
    BY <1>9, <2>1 DEF OnApproval
  <2>6. Driver(p, j, mission, tasks, approvals)
    BY <2>3, <2>4, <2>5 DEF Driver, Reporting, Recovering
  <2>7. QED
    BY <1>4, <2>5, <2>6
<1>10. CASE Route(i)
  <2>1. PICK a : a = job[i].message.ref
    OBVIOUS
  <2>2. PICK j : j = [job[i] EXCEPT !.task = approvals[a].task, !.directive = approvals[a].directive]
    OBVIOUS
  <2>3. pc[i] = "route" /\ Held(a, tasks, approvals)
        /\ job[i].mission.status = mission.status /\ job[i].mission.version = mission.version
        /\ \A b \in 1 .. Len(approvals) : approvals[b].status # "PENDING"
    BY <1>3, <1>10, <2>1 DEF Driver, Asks, Deciding, Granting, Route
  <2>4. j.mission = job[i].mission /\ j.task = approvals[a].task
    BY <1>2, <2>2 DEF Job
  <2>5. a \in 1 .. Len(approvals) /\ approvals[a] \in Approval
    BY <2>1, <2>3, AtHand, StoreType DEF Locals, Deciding, Granting
  <2>6. \/ approvals[a].action = "recovery.apply" /\ Goto(i, "replan", j)
        \/ approvals[a].action = "purchase.execute" /\ Goto(i, "reset_task", job[i])
    BY <1>10, <2>1, <2>2, <2>5 DEF Route, Approval
  <2>7. CASE approvals[a].action = "recovery.apply" /\ Goto(i, "replan", j)
    <3>1. Driver("replan", j, mission, tasks, approvals)
      BY <2>3, <2>4, <2>7 DEF Driver, Held, Reporting, Deciding, Granting
    <3>2. QED
      BY <1>4, <2>7, <3>1
  <2>8. CASE approvals[a].action = "purchase.execute" /\ Goto(i, "reset_task", job[i])
    <3>1. Driver("reset_task", job[i], mission, tasks, approvals)
      BY <2>1, <2>3, <2>8 DEF Driver, Reporting, Recovering
    <3>2. QED
      BY <1>4, <2>8, <3>1
  <2>9. QED
    BY <2>6, <2>7, <2>8
<1>11. QED
  BY <1>5, <1>6, <1>7, <1>8, <1>9, <1>10

LEMMA DriverAnnounces ==
  ASSUME TypeInv, TypeInv', DrivenCore, NEW i \in Instances, Announce(i)
  PROVE  DrivenCore' /\ Onward
<1>1. Goto(i, "idle", NoJob) /\ UNCHANGED <<mission, scenario, tasks, approvals>>
      /\ pc[i] = "announce" /\ Busy(i)
  BY DEF Announce, Return, Limits, Documents, Busy
<1>2. /\ Driver(pc[i], job[i], mission, tasks, approvals)
      /\ bus = {} /\ \A k \in Instances : Busy(k) => k = i
      /\ mission.status # "CREATED" /\ mission.version > 1
  BY <1>1, AtTheWheel
<1>3. \A a \in 1 .. Len(approvals) : approvals[a].status # "PENDING"
  BY <1>1, <1>2 DEF Driver, Asks
<1>4. \A m, n \in bus' : m = n /\ m.type # "APPROVAL_RECEIVED"
  BY <1>2 DEF Announce, Started, Resumed, TaskDone
<1>5. OneThing(bus', tasks, approvals) /\ InOrder(tasks)
  BY <1>3, <1>4 DEF OneThing, DrivenCore
<1>6. DrivenCore'
  BY <1>1, <1>2, <1>3, <1>5, DriverStep
<1>7. QED
  BY <1>1, <1>6, Versions DEF Onward, Kept

(* The task at hand moves, and those before it are done.                   *)
LEMMA OrderKept ==
  ASSUME NEW ts \in [Tasks -> Task], InOrder(ts), NEW t \in Tasks, NEW x \in Task,
         ts[t].status # "COMPLETED",
         x.status # "PENDING" => \A u \in Tasks : u < t => ts[u].status = "COMPLETED"
  PROVE  InOrder([ts EXCEPT ![t] = x])
<1> DEFINE new == [ts EXCEPT ![t] = x]
<1>1. new[t] = x /\ \A u \in Tasks \ {t} : new[u] = ts[u]
  OBVIOUS
<1>2. \A u \in Tasks : t < u => ts[u].status = "PENDING" /\ u # t
  <2>1. t \in Nat
    BY DEF Tasks
  <2>2. QED
    BY <2>1 DEF InOrder, Tasks
<1>3. \A u \in Tasks : u < t => u # t
  BY DEF Tasks
<1> HIDE DEF new
<1>4. InOrder(new)
  BY <1>1, <1>2, <1>3 DEF InOrder
<1>5. QED
  BY <1>4 DEF new

(* The driver writes its task; nobody is asked, or it says that the task   *)
(* waits for the answer.                                                   *)
LEMMA DriverWrites ==
  ASSUME TypeInv, TypeInv', DrivenCore, NEW i \in Instances, Busy(i),
         NEW t \in Tasks, NEW x \in Task, tasks' = [tasks EXCEPT ![t] = x],
         UNCHANGED <<scenario, mission, approvals, bus>>,
         NEW p, NEW j, Goto(i, p, j), p \notin {"idle", "start"},
         tasks[t].status # "COMPLETED",
         x.status # "PENDING" => \A u \in Tasks : u < t => tasks[u].status = "COMPLETED",
         Driver(p, j, mission, tasks', approvals),
         \A a \in 1 .. Len(approvals) : approvals[a].status = "PENDING" => Held(a, tasks', approvals)
  PROVE  DrivenCore' /\ Onward
<1>1. tasks \in [Tasks -> Task] /\ InOrder(tasks)
  BY StoreType DEF Budgeted, DrivenCore
<1>2. InOrder(tasks')
  BY <1>1, OrderKept
<1>3. bus = {} /\ (\A k \in Instances : Busy(k) => k = i)
      /\ mission.status # "CREATED" /\ mission.version > 1
  BY AtTheWheel
<1>4. OneThing(bus, tasks', approvals)
  BY <1>3 DEF DrivenCore, OneThing
<1>5. DrivenCore'
  BY <1>2, <1>3, <1>4, DriverStep
<1>6. Kept
  BY <1>1 DEF Kept
<1>7. QED
  BY <1>5, <1>6, Versions DEF Onward

(* Whose task is not PENDING finds those before it done.                   *)
LEMMA Before ==
  ASSUME DrivenCore, NEW t \in Tasks, tasks[t].status # "PENDING"
  PROVE  \A u \in Tasks : u < t => tasks[u].status = "COMPLETED"
BY DEF DrivenCore, InOrder

LEMMA DriverClaims ==
  ASSUME TypeInv, TypeInv', DrivenCore, NEW i \in Instances, ClaimTask(i)
  PROVE  DrivenCore' /\ Onward
<1>1. PICK t, j : t = job[i].task /\ j = [job[i] EXCEPT !.attempt = tasks[t].attempt]
  OBVIOUS
<1>2. pc[i] = "claim" /\ t \in Tasks /\ job[i] \in Job /\ Busy(i) /\ tasks \in [Tasks -> Task]
  BY <1>1, AtHand, StoreType DEF ClaimTask, Locals, Busy, Budgeted
<1>3. UNCHANGED <<scenario, mission, approvals, bus>>
  BY DEF ClaimTask, Limits
<1>4. /\ job[i].mission.status = mission.status /\ job[i].mission.version = mission.version
      /\ mission.status \notin TerminalMission /\ mission.status # "CREATED"
      /\ \A u \in Tasks : u < t => tasks[u].status = "COMPLETED"
      /\ \A a \in 1 .. Len(approvals) : approvals[a].status # "PENDING"
  BY <1>1, <1>2, AtTheWheel DEF Driver, Asks
<1>5. CASE ~Unclaimed(t)
  <2>1. Goto(i, "idle", NoJob) /\ UNCHANGED tasks
    BY <1>1, <1>5 DEF ClaimTask, Return
  <2>2. QED
    BY <1>2, <1>3, <1>4, <2>1, Versions, DriverGoesOn
<1>6. CASE Unclaimed(t)
  <2>1. Goto(i, "activate", j) /\ tasks' = [tasks EXCEPT ![t].status = "RUNNING"]
    BY <1>1, <1>6 DEF ClaimTask
  <2>2. PICK x : x = [tasks[t] EXCEPT !.status = "RUNNING"]
    OBVIOUS
  <2>3. tasks' = [tasks EXCEPT ![t] = x] /\ x \in Task /\ x.status = "RUNNING"
    BY <1>2, <2>1, <2>2 DEF Task, TaskStatus
  <2>4. tasks[t].status # "COMPLETED"
    BY <1>6 DEF Unclaimed, Claimable
  <2>5. j.mission = job[i].mission /\ j.task = t
    BY <1>1, <1>2 DEF Job
  <2>6. tasks'[t].status = "RUNNING"
    BY <1>2, <2>3
  <2>7. Driver("activate", j, mission, tasks', approvals)
    BY <1>4, <2>5, <2>6 DEF Driver, Reporting, Recovering, Deciding, Granting
  <2>8. QED
    BY <1>2, <1>3, <1>4, <2>1, <2>3, <2>4, <2>7, DriverWrites
<1>7. QED
  BY <1>5, <1>6

LEMMA DriverReports ==
  ASSUME TypeInv, TypeInv', DrivenCore, NEW i \in Instances,
         TaskCompleted(i) \/ TaskWaiting(i) \/ TaskFailed(i)
  PROVE  DrivenCore' /\ Onward
<1>1. PICK t : t = job[i].task
  OBVIOUS
<1>2. /\ pc[i] \in Reporting /\ t \in Tasks /\ job[i] \in Job /\ Busy(i)
      /\ tasks \in [Tasks -> Task] /\ job[i].attempt \in Nat /\ job[i].asked \in Nat
      /\ Locals(pc[i], job[i], Len(approvals))
  BY <1>1, AtHand, StoreType
     DEF TaskCompleted, TaskWaiting, TaskFailed, Locals, Busy, Reporting, Budgeted, Job
<1>3. /\ job[i].mission.status = mission.status /\ job[i].mission.version = mission.version
      /\ tasks[t].status = "RUNNING" /\ mission.status # "CREATED"
      /\ \A a \in 1 .. Len(approvals) : approvals[a].status = "PENDING" =>
           pc[i] = "task_waiting" /\ mission.pending # a
  BY <1>1, <1>2, AtTheWheel DEF Driver, Asks, Reporting
<1>4. \A u \in Tasks : u < t => tasks[u].status = "COMPLETED"
  BY <1>2, <1>3, Before
<1>5. ASSUME NEW status \in {"COMPLETED", "WAITING", "FAILED"}, NEW p, NEW j,
             SaveTask(i, status, p, j),
             p \in {"reinstate", "progress", "hold", "at_risk"},
             j.mission.status = mission.status, j.mission.version = mission.version, j.task = t,
             p = "at_risk" => status = "FAILED", p # "hold" => pc[i] # "task_waiting",
             pc[i] = "task_waiting" => status = "WAITING"
      PROVE  DrivenCore' /\ Onward
  <2>1. PICK x : x = [status |-> status, attempt |-> job[i].attempt]
    OBVIOUS
  <2>2. x \in Task /\ x.status = status
    BY <1>2, <1>5, <2>1 DEF Task, TaskStatus
  <2>3. tasks' = [tasks EXCEPT ![t] = x] /\ Goto(i, p, j)
        /\ UNCHANGED <<scenario, mission, approvals, bus>>
    BY <1>1, <1>5, <2>1 DEF SaveTask, Limits
  <2>4. tasks'[t].status = status /\ \A u \in Tasks \ {t} : tasks'[u] = tasks[u]
    BY <1>2, <2>2, <2>3
  <2>5. \A a \in 1 .. Len(approvals) : approvals[a].status = "PENDING" => p = "hold"
    BY <1>3, <1>5
  <2>6. Driver(p, j, mission, tasks', approvals)
    <3>1. p \notin Reporting /\ p \notin Deciding
      BY <1>5 DEF Reporting, Deciding, Granting
    <3>2. p \in Recovering => p = "at_risk"
      BY <1>5 DEF Recovering
    <3>3. QED
      BY <1>3, <1>5, <2>4, <2>5, <3>1, <3>2 DEF Driver, Asks
  <2>7. \A a \in 1 .. Len(approvals) : approvals[a].status = "PENDING" =>
          Held(a, tasks', approvals)
    <3>1. SUFFICES ASSUME NEW a \in 1 .. Len(approvals), approvals[a].status = "PENDING"
                   PROVE  Held(a, tasks', approvals)
      OBVIOUS
    <3>2. pc[i] = "task_waiting" /\ tasks'[t].status = "WAITING"
      BY <1>3, <1>5, <2>4, <3>1
    <3>3. approvals[a].task \in Tasks
      BY <3>1, StoreType DEF Approval
    <3>4. CASE Held(a, tasks, approvals)
      <4>1. approvals[a].task # t
        BY <1>3, <3>4 DEF Held
      <4>2. QED
        BY <2>4, <3>3, <3>4, <4>1 DEF Held
    <3>5. ASSUME NEW k \in Instances, Saying(pc[k], job[k], a, approvals)
          PROVE  Held(a, tasks', approvals)
      <4>1. k = i
        BY <1>2, <3>5, AtTheWheel DEF Saying, Busy
      <4>2. QED
        BY <1>1, <3>2, <3>5, <4>1 DEF Saying, Held
    <3>6. QED
      BY <3>1, <3>4, <3>5 DEF DrivenCore
  <2>8. p \notin {"idle", "start"}
    BY <1>5
  <2>9. QED
    BY <1>2, <1>3, <1>4, <2>2, <2>3, <2>6, <2>7, <2>8, DriverWrites
<1>6. CASE TaskCompleted(i)
  <2>1. PICK p \in {"reinstate", "progress"} : SaveTask(i, "COMPLETED", p, job[i])
    BY <1>6 DEF TaskCompleted
  <2>2. pc[i] = "task_completed"
    BY <1>6 DEF TaskCompleted
  <2>3. QED
    BY <1>1, <1>3, <1>5, <2>1, <2>2
<1>7. CASE TaskWaiting(i)
  <2>1. PICK j : j = [job[i] EXCEPT !.mission.pending = job[i].asked]
    OBVIOUS
  <2>2. j.mission.status = job[i].mission.status /\ j.mission.version = job[i].mission.version
        /\ j.task = t
    BY <1>1, <1>2, <2>1, JobWaits
  <2>3. SaveTask(i, "WAITING", "hold", j)
    BY <1>7, <2>1 DEF TaskWaiting
  <2>4. QED
    BY <1>3, <1>5, <2>2, <2>3
<1>8. CASE TaskFailed(i)
  <2>1. SaveTask(i, "FAILED", "at_risk", job[i]) /\ pc[i] = "task_failed"
    BY <1>8 DEF TaskFailed
  <2>2. QED
    BY <1>1, <1>3, <1>5, <2>1
<1>9. QED
  BY <1>6, <1>7, <1>8

LEMMA DriverRetries ==
  ASSUME TypeInv, TypeInv', DrivenCore, NEW i \in Instances, RetryTask(i) \/ SaveRetry(i)
  PROVE  DrivenCore' /\ Onward
<1>1. PICK t : t = job[i].task
  OBVIOUS
<1>2. pc[i] \in {"retry_task", "save_retry"} /\ t \in Tasks /\ job[i] \in Job /\ Busy(i)
  BY <1>1, AtHand DEF RetryTask, SaveRetry, Locals, Recovering, Busy
<1>3. tasks \in [Tasks -> Task]
  BY StoreType DEF Budgeted
<1>4. /\ job[i].mission.status = mission.status /\ job[i].mission.version = mission.version
      /\ mission.status # "CREATED" /\ tasks[t].status = "FAILED"
      /\ \A a \in 1 .. Len(approvals) : approvals[a].status # "PENDING"
  BY <1>1, <1>2, AtTheWheel DEF Driver, Asks, Recovering
<1>5. UNCHANGED <<scenario, mission, approvals, bus>>
  BY DEF RetryTask, SaveRetry, SaveTask, Documents, Limits
<1>6. \A ts : \A p \in {"failing", "retry"} : Driver(p, job[i], mission, ts, approvals)
  BY <1>4 DEF Driver, Reporting, Recovering, Deciding, Granting
<1>7. CASE RetryTask(i)
  <2>1. PICK j : j = [job[i] EXCEPT !.attempt = tasks[t].attempt + 1]
    OBVIOUS
  <2>2. j.mission = job[i].mission /\ j.task = t
    BY <1>1, <1>2, <2>1 DEF Job
  <2>3. Driver("save_retry", j, mission, tasks, approvals)
    BY <1>4, <2>2 DEF Driver, Reporting, Recovering, Deciding, Granting
  <2>4. PICK p, l : /\ Goto(i, p, l) /\ p \in {"failing", "save_retry"}
                    /\ Driver(p, l, mission, tasks, approvals)
    BY <1>1, <1>6, <1>7, <2>1, <2>3 DEF RetryTask
  <2>5. UNCHANGED tasks /\ pc[i] # "task_waiting" /\ p # "start"
    BY <1>2, <1>7, <2>4 DEF RetryTask, Documents
  <2>6. QED
    BY <1>2, <1>4, <1>5, <2>4, <2>5, Versions, DriverGoesOn
<1>8. CASE SaveRetry(i)
  <2>1. PICK x : x = [status |-> "PENDING", attempt |-> job[i].attempt]
    OBVIOUS
  <2>2. tasks' = [tasks EXCEPT ![t] = x] /\ Goto(i, "retry", job[i])
    BY <1>1, <1>8, <2>1 DEF SaveRetry, SaveTask
  <2>3. x \in Task /\ x.status = "PENDING"
    BY <1>2, <2>1 DEF Job, Task, TaskStatus
  <2>4. /\ tasks[t].status # "COMPLETED"
        /\ x.status # "PENDING" => \A u \in Tasks : u < t => tasks[u].status = "COMPLETED"
        /\ Driver("retry", job[i], mission, tasks', approvals)
        /\ \A a \in 1 .. Len(approvals) : approvals[a].status = "PENDING" => Held(a, tasks', approvals)
    BY <1>4, <1>6, <2>3
  <2>5. PICK p, j : p = "retry" /\ j = job[i]
    OBVIOUS
  <2>6. /\ Goto(i, p, j) /\ Driver(p, j, mission, tasks', approvals) /\ p \notin {"idle", "start"}
    BY <2>2, <2>4, <2>5
  <2>7. QED
    BY <1>2, <1>5, <2>2, <2>3, <2>4, <2>6, DriverWrites
<1>9. QED
  BY <1>7, <1>8

LEMMA DriverReopens ==
  ASSUME TypeInv, TypeInv', DrivenCore, NEW i \in Instances, ResetTask(i) \/ SaveReset(i)
  PROVE  DrivenCore' /\ Onward
<1>1. PICK a, t : a = job[i].message.ref /\ t = approvals[a].task
  OBVIOUS
<1>2. pc[i] \in {"reset_task", "save_reset"} /\ job[i] \in Job /\ Busy(i)
      /\ tasks \in [Tasks -> Task] /\ a \in 1 .. Len(approvals)
  BY <1>1, AtHand, StoreType DEF ResetTask, SaveReset, Locals, Deciding, Granting, Busy, Budgeted
<1>3. t \in Tasks
  BY <1>1, <1>2, StoreType DEF Approval
<1>4. /\ job[i].mission.status = mission.status /\ job[i].mission.version = mission.version
      /\ mission.status # "CREATED"
      /\ Held(a, tasks, approvals) /\ approvals[a].action = "purchase.execute"
      /\ \A b \in 1 .. Len(approvals) : approvals[b].status # "PENDING"
  BY <1>1, <1>2, AtTheWheel DEF Driver, Asks, Deciding, Granting
<1>5. tasks[t].status = "WAITING"
  BY <1>1, <1>4 DEF Held
<1>6. UNCHANGED <<scenario, mission, approvals, bus>>
  BY DEF ResetTask, SaveReset, Documents, Limits
<1>7. CASE ResetTask(i)
  <2>1. PICK p, j : p = "save_reset" /\ j = [job[i] EXCEPT !.attempt = tasks[t].attempt]
    OBVIOUS
  <2>2. Goto(i, p, j) /\ UNCHANGED tasks
    BY <1>1, <1>7, <2>1 DEF ResetTask, Documents
  <2>3. j.mission = job[i].mission /\ j.message = job[i].message
    BY <1>2, <2>1 DEF Job
  <2>4. Driver(p, j, mission, tasks, approvals)
    BY <1>1, <1>4, <2>1, <2>3 DEF Driver, Reporting, Recovering
  <2>5. pc[i] # "task_waiting" /\ p # "start"
    BY <1>2, <2>1
  <2>6. QED
    BY <1>2, <1>4, <1>6, <2>2, <2>4, <2>5, Versions, DriverGoesOn
<1>8. CASE SaveReset(i)
  <2>1. PICK x : x = [status |-> "PENDING", attempt |-> job[i].attempt]
    OBVIOUS
  <2>2. tasks' = [tasks EXCEPT ![t] = x] /\ Goto(i, "authorise", job[i])
    BY <1>1, <1>8, <2>1 DEF SaveReset, Reopened
  <2>3. x \in Task /\ x.status = "PENDING"
    BY <1>2, <2>1 DEF Job, Task, TaskStatus
  <2>4. Driver("authorise", job[i], mission, tasks', approvals)
    BY <1>4 DEF Driver, Reporting, Recovering, Deciding, Granting
  <2>5. /\ tasks[t].status # "COMPLETED"
        /\ x.status # "PENDING" => \A u \in Tasks : u < t => tasks[u].status = "COMPLETED"
        /\ \A b \in 1 .. Len(approvals) : approvals[b].status = "PENDING" => Held(b, tasks', approvals)
    BY <1>4, <1>5, <2>3
  <2>6. PICK p, j : p = "authorise" /\ j = job[i]
    OBVIOUS
  <2>7. Goto(i, p, j) /\ Driver(p, j, mission, tasks', approvals) /\ p \notin {"idle", "start"}
    BY <2>2, <2>4, <2>6
  <2>8. QED
    BY <1>2, <1>3, <1>6, <2>2, <2>3, <2>5, <2>7, DriverWrites
<1>9. QED
  BY <1>7, <1>8

(* The driver asks: the request is the last one, and the mission does not  *)
(* name it yet.                                                            *)
LEMMA DriverAsks ==
  ASSUME TypeInv, TypeInv', DrivenCore, NEW i \in Instances, Busy(i),
         \A a \in 1 .. Len(approvals) : approvals[a].status # "PENDING",
         NEW x \in Approval, approvals' = Append(approvals, x), x.status = "PENDING",
         UNCHANGED <<scenario, mission, tasks, bus>>,
         NEW p, NEW j, Goto(i, p, j), p \in {"task_waiting", "directive"},
         Asks(p, j), j.mission = job[i].mission, pc[i] \notin {"require", "decision"},
         p = "task_waiting" => /\ j.task = x.task /\ x.action = "purchase.execute"
                               /\ tasks[j.task].status = "RUNNING"
                               /\ mission.status \notin TerminalMission,
         p = "directive" => /\ tasks[j.task].status = "FAILED" /\ tasks[x.task].status = "FAILED"
                            /\ x.action # "purchase.execute"
  PROVE  DrivenCore' /\ Onward
<1>1. /\ Driver(pc[i], job[i], mission, tasks, approvals)
      /\ bus = {} /\ \A k \in Instances : Busy(k) => k = i
      /\ mission.status # "CREATED" /\ mission.version > 1
  BY AtTheWheel
<1>2. PICK n : n = Len(approvals')
  OBVIOUS
<1>3. /\ n = Len(approvals) + 1 /\ Len(approvals) \in Nat /\ approvals'[n] = x
      /\ \A a \in 1 .. Len(approvals) : approvals'[a] = approvals[a]
  BY <1>2, Appended
<1>4. \A a \in 1 .. n : a # n => a \in 1 .. Len(approvals)
  BY <1>3
<1>5. \A a \in 1 .. n : approvals'[a].status = "PENDING" => a = n
  BY <1>3, <1>4
<1>6. mission.pending # n
  BY <1>3, StoreType
<1>7. OneThing(bus', tasks', approvals')
  BY <1>1, <1>2, <1>5 DEF OneThing
<1>8. Driver(p, j, mission', tasks', approvals')
  <2>1. j.mission.status = mission.status /\ j.mission.version = mission.version
    BY <1>1 DEF Driver
  <2>2. p \in Reporting => p = "task_waiting"
    BY DEF Reporting
  <2>3. p \in Recovering => p = "directive"
    BY DEF Recovering
  <2>4. p \notin Deciding
    BY DEF Deciding, Granting
  <2>5. QED
    BY <1>2, <1>5, <1>6, <2>1, <2>2, <2>3, <2>4 DEF Driver
<1>9. \A a \in 1 .. Len(approvals') : approvals'[a].status = "PENDING" =>
        Held(a, tasks', approvals') \/ Saying(p, j, a, approvals')
  BY <1>2, <1>3, <1>5 DEF Held, Saying
<1>10. InOrder(tasks')
  BY DEF DrivenCore
<1>11. DrivenCore'
  BY <1>1, <1>7, <1>8, <1>9, <1>10, DriverStep
<1>12. QED
  BY <1>11, Versions DEF Onward, Kept

LEMMA AgentDriverAsks ==
  ASSUME TypeInv, TypeInv', DrivenCore, NEW i \in Instances, AgentAsks(i)
  PROVE  DrivenCore' /\ Onward
<1>1. PICK t : t = job[i].task
  OBVIOUS
<1>2. pc[i] = "agent" /\ t \in Tasks /\ job[i] \in Job /\ Busy(i)
  BY <1>1, AtHand DEF AgentAsks, Locals, Reporting, Busy
<1>3. /\ tasks[t].status = "RUNNING" /\ mission.status \notin TerminalMission
      /\ \A a \in 1 .. Len(approvals) : approvals[a].status # "PENDING"
  BY <1>1, <1>2, AtTheWheel DEF Driver, Asks, Reporting
<1>4. Covering(t) = {}
  BY <1>1, <1>3 DEF AgentAsks, Covering
<1>5. approvals' = Append(approvals, Purchase(t)) /\ UNCHANGED <<scenario, mission, tasks, bus>>
  BY <1>1, <1>4 DEF AgentAsks, Limits
<1>6. Purchase(t) \in Approval /\ Purchase(t).status = "PENDING" /\ Purchase(t).task = t
      /\ Purchase(t).action = "purchase.execute"
  BY <1>2 DEF Purchase, Approval, ApprovalStatus, Directives
<1>7. PICK a : Goto(i, "task_waiting", [job[i] EXCEPT !.asked = a])
  BY DEF AgentAsks
<1>8. PICK p, j, x : p = "task_waiting" /\ j = [job[i] EXCEPT !.asked = a] /\ x = Purchase(t)
  OBVIOUS
<1>9. j.mission = job[i].mission /\ j.task = t
  BY <1>1, <1>2, <1>8 DEF Job
<1>10. Goto(i, p, j) /\ Asks(p, j) /\ p \in {"task_waiting", "directive"} /\ p # "directive"
       /\ pc[i] \notin {"require", "decision"}
  BY <1>2, <1>7, <1>8 DEF Asks
<1>11. x \in Approval /\ x.status = "PENDING" /\ x.task = t /\ x.action = "purchase.execute"
       /\ approvals' = Append(approvals, x)
  BY <1>5, <1>6, <1>8
<1>12. QED
  BY <1>2, <1>3, <1>5, <1>9, <1>10, <1>11, DriverAsks

LEMMA DriverRecovers ==
  ASSUME TypeInv, TypeInv', DrivenCore, NEW i \in Instances, Recover(i)
  PROVE  DrivenCore' /\ Onward
<1>1. PICK t : t = job[i].task
  OBVIOUS
<1>2. pc[i] = "twin" /\ t \in Tasks /\ job[i] \in Job /\ Busy(i)
  BY <1>1, AtHand DEF Recover, Locals, Recovering, Busy
<1>3. /\ tasks[t].status = "FAILED" /\ mission.status # "CREATED"
      /\ job[i].mission.status = mission.status /\ job[i].mission.version = mission.version
      /\ \A a \in 1 .. Len(approvals) : approvals[a].status # "PENDING"
  BY <1>1, <1>2, AtTheWheel DEF Driver, Asks, Recovering
<1>4. UNCHANGED <<scenario, mission, tasks, bus>>
  BY DEF Recover, Limits
<1>5. PICK x : x = [status |-> "PENDING", action |-> "recovery.apply", task |-> t,
                    directive |-> "RETRY_TASK"]
  OBVIOUS
<1>6. PICK plan \in {"RETRY_TASK", "FAIL"} :
        \/ /\ Goto(i, "directive", [job[i] EXCEPT !.directive = plan])
           /\ UNCHANGED approvals
        \/ /\ approvals' = Append(approvals, x)
           /\ Goto(i, "directive", [job[i] EXCEPT !.directive = "WAIT_APPROVAL",
                                                  !.asked = Len(approvals')])
  BY <1>1, <1>5 DEF Recover
<1>7. CASE Goto(i, "directive", [job[i] EXCEPT !.directive = plan]) /\ UNCHANGED approvals
  <2>1. PICK p, j : p = "directive" /\ j = [job[i] EXCEPT !.directive = plan]
    OBVIOUS
  <2>2. j.mission = job[i].mission /\ j.task = t
    BY <1>1, <1>2, <2>1 DEF Job
  <2>3. Driver(p, j, mission, tasks, approvals)
    BY <1>3, <2>1, <2>2 DEF Driver, Reporting, Deciding, Granting
  <2>4. Goto(i, p, j) /\ p \notin {"idle", "start"}
    BY <1>7, <2>1
  <2>5. QED
    BY <1>2, <1>3, <1>4, <1>7, <2>3, <2>4, Versions, DriverGoesOn
<1>8. CASE /\ approvals' = Append(approvals, x)
           /\ Goto(i, "directive", [job[i] EXCEPT !.directive = "WAIT_APPROVAL",
                                                  !.asked = Len(approvals')])
  <2>1. PICK p, j : p = "directive" /\ j = [job[i] EXCEPT !.directive = "WAIT_APPROVAL",
                                                          !.asked = Len(approvals')]
    OBVIOUS
  <2>2. j.mission = job[i].mission /\ j.task = t /\ j.directive = "WAIT_APPROVAL"
    BY <1>1, <1>2, <2>1 DEF Job
  <2>3. Goto(i, p, j) /\ Asks(p, j) /\ p \in {"task_waiting", "directive"} /\ p # "task_waiting"
        /\ pc[i] \notin {"require", "decision"}
    BY <1>2, <1>8, <2>1, <2>2 DEF Asks
  <2>4. x \in Approval /\ x.status = "PENDING" /\ x.task = t /\ x.action # "purchase.execute"
    BY <1>2, <1>5 DEF Approval, ApprovalStatus, Directives
  <2>5. QED
    BY <1>2, <1>3, <1>4, <1>8, <2>2, <2>3, <2>4, DriverAsks
<1>9. QED
  BY <1>6, <1>7, <1>8

LEMMA DriverPushed ==
  ASSUME TypeInv, TypeInv', DrivenCore, Undisturbed, NEW i \in Instances,
         Start(i) \/ Push(i) \/ Crash(i)
  PROVE  DrivenCore' /\ Onward
<1>1. ~Crash(i)
  BY DEF Crash, Undisturbed
<1>2. CASE Start(i)
  <2>1. PICK p, j : p = "start" /\ j = [NoJob EXCEPT !.mission = mission]
    OBVIOUS
  <2>2. j.mission = mission
    BY <2>1, NoJobType, StoreType, JobCopies
  <2>3. Goto(i, p, j) /\ pc[i] = "idle" /\ UNCHANGED <<Documents, bus, scenario>>
        /\ mission.status = "CREATED" /\ mission.version = 1
    BY <1>2, <2>1 DEF Start, Limits, DrivenCore, Fresh
  <2>4. QED
    BY <2>1, <2>2, <2>3, Bystander DEF Busy
<1>3. ASSUME NEW m \in bus, Deliver(i, m) PROVE DrivenCore' /\ Onward
  <2>1. PICK p, j : /\ p = IF m.type = "APPROVAL_RECEIVED" THEN "decision" ELSE "require"
                    /\ j = [NoJob EXCEPT !.message = m]
    OBVIOUS
  <2>2. Goto(i, p, j) /\ UNCHANGED <<mission, tasks, approvals, scenario>> /\ bus' = bus \ {m}
    BY <1>3, <2>1 DEF Deliver, Documents, Repeatable, Undisturbed
  <2>3. j.message = m
    BY <2>1 DEF NoJob
  <2>4. bus' = {} /\ (\A k \in Instances : ~Busy(k)) /\ mission.status # "CREATED"
    BY <1>3, <2>2 DEF DrivenCore, OneThing, Fresh
  <2>5. \A a \in 1 .. Len(approvals) : approvals[a].status # "PENDING"
    BY <1>3 DEF DrivenCore, OneThing
  <2>6. p = "decision" => Held(m.ref, tasks, approvals)
    BY <1>3, <2>1 DEF DrivenCore, OneThing
  <2>7. Driver(p, j, mission, tasks, approvals)
    BY <2>1, <2>3, <2>5, <2>6 DEF Driver, Reporting, Recovering, Granting, Deciding
  <2>8. OneThing(bus', tasks, approvals) /\ InOrder(tasks) /\ mission.version > 1
    BY <2>4 DEF DrivenCore, OneThing, Fresh
  <2>9. DrivenCore'
    BY <2>1, <2>2, <2>4, <2>5, <2>7, <2>8, DriverStep
  <2>10. QED
    BY <2>2, <2>9, Versions DEF Onward, Kept
<1>4. QED
  BY <1>1, <1>2, <1>3 DEF Push

LEMMA OperatorDecides ==
  ASSUME TypeInv, TypeInv', DrivenCore, Undisturbed,
         NEW a \in 1 .. Len(approvals), NEW verdict \in {"APPROVED", "REJECTED"},
         Decide(a, verdict)
  PROVE  DrivenCore' /\ Onward
<1>1. approvals[a].status = "PENDING" /\ mission.pending = a
      /\ \A i \in Instances : pc[i] # "held"
  BY DEF Decide, Answerable, Undisturbed
<1>2. UNCHANGED <<mission, tasks, pc, job, scenario>> /\ bus' = bus \cup {Decided(a)}
  BY DEF Decide, Limits
<1>3. \A i \in Instances : ~Busy(i)
  BY <1>1 DEF DrivenCore, Driver
<1>4. bus = {} /\ \A b \in 1 .. Len(approvals) : approvals[b].status = "PENDING" => b = a
  BY <1>1 DEF DrivenCore, OneThing
<1>5. Held(a, tasks, approvals)
  BY <1>1, <1>3 DEF DrivenCore, Saying, Busy
<1>6. mission.status # "CREATED" /\ mission.version > 1
  BY <1>1, StoreType DEF DrivenCore, Fresh
<1>7. /\ Len(approvals') = Len(approvals)
      /\ \A b \in 1 .. Len(approvals) : b # a => approvals'[b] = approvals[b]
      /\ approvals'[a] = [approvals[a] EXCEPT !.status = verdict] /\ approvals[a] \in Approval
  BY DecideType, StoreType
<1>8. approvals'[a].status = verdict /\ approvals'[a].action = approvals[a].action
      /\ approvals'[a].task = approvals[a].task
  BY <1>7 DEF Approval
<1>9. \A b \in 1 .. Len(approvals') : approvals'[b].status # "PENDING"
  BY <1>4, <1>7, <1>8
<1>10. Held(a, tasks', approvals')
  BY <1>2, <1>5, <1>8 DEF Held
<1>11. OneThing(bus', tasks', approvals')
  BY <1>2, <1>4, <1>9, <1>10 DEF OneThing, Decided
<1>12. \A i \in Instances : ~Busy(i)'
  BY <1>2, <1>3 DEF Busy
<1>13. Fresh'
  BY <1>2, <1>6 DEF DrivenCore, Fresh
<1>14. DrivenCore'
  BY <1>2, <1>9, <1>11, <1>12, <1>13 DEF DrivenCore
<1>15. QED
  BY <1>2, <1>14, Versions DEF Onward, Kept

LEMMA DrivenInit == Init => DrivenInv
<1> SUFFICES ASSUME Init PROVE DrivenInv
  OBVIOUS
<1>1. TypeInv
  BY InitType
<1>2. Len(approvals) = 0 /\ bus = {}
  BY DEF Init
<1>3. \A i \in Instances : ~Busy(i) /\ pc[i] # "start"
  BY DEF Init, Busy
<1>4. Fresh
  BY <1>2, <1>3 DEF Fresh, Init
<1>5. InOrder(tasks) /\ OneThing(bus, tasks, approvals)
  BY <1>2 DEF InOrder, OneThing, Init
<1>6. QED
  BY <1>1, <1>2, <1>3, <1>4, <1>5 DEF DrivenInv, DrivenCore

LEMMA DrivenNext == DrivenInv /\ [Next]_vars => DrivenInv' /\ (Undisturbed => Onward)
<1> SUFFICES ASSUME DrivenInv, [Next]_vars PROVE DrivenInv' /\ (Undisturbed => Onward)
  OBVIOUS
<1>1. TypeInv /\ TypeInv' /\ UNCHANGED scenario
  BY NextType, ScenarioStays DEF DrivenInv
<1>2. SUFFICES ASSUME Undisturbed PROVE DrivenCore' /\ Onward
  BY <1>1 DEF DrivenInv, Undisturbed
<1>3. DrivenCore
  BY <1>2 DEF DrivenInv
<1>4. ASSUME NEW i \in Instances, Work(i) PROVE DrivenCore' /\ Onward
  BY <1>1, <1>3, <1>4, DriverSaves, DriverUpdates, DriverReads, DriverClaims, AgentDriverAsks,
     DriverReports, DriverAnnounces, DriverRecovers, DriverRetries, DriverReopens DEF Work
<1>5. ASSUME NEW i \in Instances, Start(i) \/ Push(i) \/ Crash(i) PROVE DrivenCore' /\ Onward
  BY <1>1, <1>2, <1>3, <1>5, DriverPushed
<1>6. ASSUME NEW a \in 1 .. Len(approvals), NEW verdict \in {"APPROVED", "REJECTED"},
             Decide(a, verdict)
      PROVE  DrivenCore' /\ Onward
  BY <1>1, <1>2, <1>3, <1>6, OperatorDecides
<1>7. CASE UNCHANGED vars
  <2>1. UNCHANGED <<scenario, mission, tasks, approvals, bus, pc, job>>
    BY <1>7 DEF vars
  <2>2. \A q, l, m, ts, as : Driver(q, l, m, ts, as)' <=> Driver(q, l, m, ts, as)
    BY <2>1 DEF Driver, Cleared, Held, Asks
  <2>3. DrivenCore'
    BY <1>3, <2>1, <2>2 DEF DrivenCore, Fresh, Busy
  <2>4. QED
    BY <1>1, <2>1, <2>3, Versions DEF Onward, Kept
<1>8. QED
  BY <1>4, <1>5, <1>6, <1>7 DEF Next

(***************************************************************************)
(* What the handlers of a mission never do to each other                   *)
(***************************************************************************)

(* What the two parts prove of a scenario, by the inductive invariants     *)
(* OnceInv and DrivenInv: either no agent fails, and events are repeated;  *)
(* or agents fail, and each event arrives once.                            *)
Orderly == Unretried \/ Undisturbed

LEMMA OrderlyStays == Orderly /\ [Next]_vars => Orderly'
BY ScenarioStays DEF Orderly, Unretried, Undisturbed

(* claim_task is the only lock there is: whatever Pub/Sub repeats, however *)
(* many instances handle it, no two of them run the agent of one task or   *)
(* report on it.                                                           *)
THEOREM OneRunAtATime == Spec /\ Orderly => []ExclusiveRun
<1>1. Init => OnceInv /\ DrivenInv
  BY OnceInit, DrivenInit
<1>2. OnceInv /\ DrivenInv /\ [Next]_vars => (OnceInv /\ DrivenInv)'
  BY OnceNext, DrivenNext
<1>3. OnceInv /\ DrivenInv /\ Orderly => ExclusiveRun
  <2>1. Unretried /\ OnceInv => ExclusiveRun
    BY DEF OnceInv, OnceCore, RunsAlone
  <2>2. Undisturbed /\ DrivenInv => ExclusiveRun
    BY DEF DrivenInv, DrivenCore, ExclusiveRun, Running, Busy
  <2>3. QED
    BY <2>1, <2>2 DEF Orderly
<1>4. QED
  BY <1>1, <1>2, <1>3, OrderlyStays, PTL DEF Spec

(* A completed task is never set back: not by the save of a copy read      *)
(* before it completed, not by a retry, not by an approval's answer.       *)
THEOREM DoneForGood == Spec /\ Orderly => CompletedStaysCompleted
<1>1. Init => OnceInv /\ DrivenInv
  BY OnceInit, DrivenInit
<1>2. OnceInv /\ DrivenInv /\ [Next]_vars => (OnceInv /\ DrivenInv)'
  BY OnceNext, DrivenNext
<1>3. OnceInv /\ DrivenInv /\ Orderly /\ [Next]_vars =>
        [\A t \in Tasks : tasks[t].status = "COMPLETED" => tasks'[t].status = "COMPLETED"]_vars
  BY OnceNext, DrivenNext DEF Orderly, Onward, Kept
<1>4. QED
  BY <1>1, <1>2, <1>3, OrderlyStays, PTL DEF Spec, CompletedStaysCompleted

(* Where each event is delivered once, save_mission, which replaces the    *)
(* document without looking at its version, never takes the version back:  *)
(* every copy that is saved is the last one.                               *)
THEOREM SavesAreCurrent == Spec => VersionGrows
<1>1. DrivenInv /\ [Next]_vars => [Undisturbed => mission'.version >= mission.version]_vars
  BY DrivenNext DEF Onward
<1>2. QED
  BY <1>1, DrivenInit, DrivenNext, PTL DEF Spec, VersionGrows

(***************************************************************************)
(* The promises of Autonomous Mission Control, over Firestore and Pub/Sub  *)
(***************************************************************************)

PhaseOf(status) == IF status \in TerminalMission \cup {"CREATED"} THEN status ELSE "RUNNING"

DoneIn(ts) == {t \in Tasks : ts[t].status = "COMPLETED"}

GrantedIn(as) ==
  IF \E a \in 1 .. Len(as) : as[a].action = "purchase.execute" /\ as[a].status = "APPROVED"
    THEN {"beyond"} ELSE {}

AskingIn(as) == \E a \in 1 .. Len(as) : as[a].status = "PENDING"

(* One step of the promises, told of the documents.                        *)
Keeps ==
  \/ /\ mission.status = "CREATED" /\ PhaseOf(mission'.status) = "RUNNING"
     /\ DoneIn(tasks') = DoneIn(tasks)
     /\ GrantedIn(approvals') = GrantedIn(approvals) /\ AskingIn(approvals') = AskingIn(approvals)
  \/ /\ PhaseOf(mission.status) = "RUNNING" /\ PhaseOf(mission'.status) = "RUNNING"
     /\ GrantedIn(approvals') = GrantedIn(approvals) /\ AskingIn(approvals') = AskingIn(approvals)
     /\ \E t \in Tasks : /\ t \notin DoneIn(tasks) /\ 1 .. (t - 1) \subseteq DoneIn(tasks)
                         /\ t \in Buyers => GrantedIn(approvals) # {}
                         /\ DoneIn(tasks') = DoneIn(tasks) \cup {t}
  \/ /\ PhaseOf(mission.status) = "RUNNING" /\ mission'.status \in TerminalMission
     /\ mission'.status = "COMPLETED" => DoneIn(tasks) = Tasks
     /\ DoneIn(tasks') = DoneIn(tasks)
     /\ GrantedIn(approvals') = GrantedIn(approvals) /\ AskingIn(approvals') = AskingIn(approvals)
  \/ /\ PhaseOf(mission.status) = "RUNNING" /\ AskingIn(approvals')
     /\ PhaseOf(mission'.status) = PhaseOf(mission.status) /\ DoneIn(tasks') = DoneIn(tasks)
     /\ GrantedIn(approvals') = GrantedIn(approvals)
  \/ /\ AskingIn(approvals)
     /\ GrantedIn(approvals') \in {GrantedIn(approvals), {"beyond"}}
     /\ PhaseOf(mission'.status) = PhaseOf(mission.status) /\ DoneIn(tasks') = DoneIn(tasks)

(* A step the promises do not tell from none.                              *)
Silent ==
  /\ PhaseOf(mission'.status) = PhaseOf(mission.status) /\ DoneIn(tasks') = DoneIn(tasks)
  /\ GrantedIn(approvals') = GrantedIn(approvals) /\ AskingIn(approvals') = AskingIn(approvals)

LEMMA KeepsNext ==
  ASSUME Promised, UNCHANGED scenario, Keeps \/ Silent
  PROVE  [Lifecycle!Next]_(Lifecycle!vars)
<1>1. Promised'
  BY DEF Promised
<1> DEFINE phase  == IF ~Promised THEN "CREATED"
                     ELSE IF mission.status \in TerminalMission \cup {"CREATED"}
                       THEN mission.status ELSE "RUNNING"
           done   == {t \in Tasks : Promised /\ tasks[t].status = "COMPLETED"}
           grants == IF Promised /\ \E a \in 1 .. Len(approvals) :
                          approvals[a].action = "purchase.execute" /\ approvals[a].status = "APPROVED"
                       THEN {"beyond"} ELSE {}
           asks   == Promised /\ Asking
<1>2. /\ phase = PhaseOf(mission.status) /\ phase' = PhaseOf(mission'.status)
      /\ done = DoneIn(tasks) /\ done' = DoneIn(tasks')
      /\ grants = GrantedIn(approvals) /\ grants' = GrantedIn(approvals')
      /\ asks = AskingIn(approvals) /\ asks' = AskingIn(approvals')
      /\ asks \in BOOLEAN /\ asks' \in BOOLEAN
  BY <1>1 DEF PhaseOf, DoneIn, GrantedIn, AskingIn, Asking
<1>3. Lifecycle!Chain = Tasks
  BY DEF Lifecycle!Chain, Tasks
<1>4. CASE Silent
  <2>1. UNCHANGED <<phase, done, grants, asks>>
    BY <1>2, <1>4 DEF Silent
  <2>2. QED
    BY <2>1 DEF Lifecycle!vars
<1>5. ASSUME mission.status = "CREATED", PhaseOf(mission'.status) = "RUNNING",
             UNCHANGED <<done, grants, asks>>
      PROVE  Lifecycle!Begin
  <2>1. phase = "CREATED" /\ phase' = "RUNNING"
    BY <1>2, <1>5 DEF PhaseOf
  <2>2. QED
    BY <1>5, <2>1 DEF Lifecycle!Begin
<1>6. ASSUME phase = "RUNNING", phase' = "RUNNING", UNCHANGED <<grants, asks>>,
             NEW t \in Tasks, t \notin done, 1 .. (t - 1) \subseteq done,
             t \in Buyers => grants # {}, done' = done \cup {t}
      PROVE  Lifecycle!DoTask(t)
  BY <1>6 DEF Lifecycle!DoTask, Lifecycle!MayBuy
<1>7. ASSUME phase = "RUNNING", NEW outcome \in TerminalMission, phase' = outcome,
             outcome = "COMPLETED" => done = Tasks, UNCHANGED <<done, grants, asks>>
      PROVE  Lifecycle!Finish(outcome)
  BY <1>3, <1>7 DEF Lifecycle!Finish
<1>8. ASSUME phase = "RUNNING", asks', UNCHANGED <<phase, done, grants>>
      PROVE  Lifecycle!Ask
  BY <1>8 DEF Lifecycle!Ask
<1>9. ASSUME asks, grants' = grants \/ grants' = grants \cup {"beyond"}, UNCHANGED <<phase, done>>
      PROVE  Lifecycle!Answer
  BY <1>2, <1>9 DEF Lifecycle!Answer
<1>10. ASSUME Keeps PROVE Lifecycle!Next
  <2>1. Lifecycle!Begin \/ (\E t \in Tasks : Lifecycle!DoTask(t))
        \/ (\E outcome \in TerminalMission : Lifecycle!Finish(outcome))
        \/ Lifecycle!Ask \/ Lifecycle!Answer
    <3>1. CASE /\ mission.status = "CREATED" /\ PhaseOf(mission'.status) = "RUNNING"
               /\ UNCHANGED <<done, grants, asks>>
      BY <3>1, <1>5
    <3>2. ASSUME phase = "RUNNING", phase' = "RUNNING", UNCHANGED <<grants, asks>>,
                 \E t \in Tasks : /\ t \notin done /\ 1 .. (t - 1) \subseteq done
                                  /\ t \in Buyers => grants # {}
                                  /\ done' = done \cup {t}
          PROVE  \E t \in Tasks : Lifecycle!DoTask(t)
      <4>1. PICK t \in Tasks : /\ t \notin done /\ 1 .. (t - 1) \subseteq done
                               /\ t \in Buyers => grants # {}
                               /\ done' = done \cup {t}
        BY <3>2
      <4>2. Lifecycle!DoTask(t)
        BY <3>2, <4>1, <1>6
      <4>3. QED
        BY <4>2
    <3>3. CASE /\ phase = "RUNNING" /\ phase' \in TerminalMission
               /\ phase' = "COMPLETED" => done = Tasks
               /\ UNCHANGED <<done, grants, asks>>
      BY <3>3, <1>7
    <3>4. CASE phase = "RUNNING" /\ asks' /\ UNCHANGED <<phase, done, grants>>
      BY <3>4, <1>8
    <3>5. CASE /\ asks /\ (grants' = grants \/ grants' = grants \cup {"beyond"})
               /\ UNCHANGED <<phase, done>>
      BY <3>5, <1>9
    <3>6. GrantedIn(approvals') = {"beyond"} => grants' = grants \cup {"beyond"}
      BY <1>2 DEF GrantedIn
    <3>7. mission'.status \in TerminalMission => phase' = mission'.status
      BY <1>2 DEF PhaseOf
    <3> HIDE DEF phase, done, grants, asks
    <3>8. QED
      BY <1>2, <1>10, <3>1, <3>2, <3>3, <3>4, <3>5, <3>6, <3>7 DEF Keeps
  <2>2. QED
    BY <1>3, <2>1 DEF Lifecycle!Next, Lifecycle!Work, Lifecycle!Outcomes, TerminalMission
<1>11. QED
  BY <1>4, <1>10
LEMMA ReadsOnly == ASSUME UNCHANGED <<mission, tasks, approvals>> PROVE Silent
BY DEF Silent

(* A task that is not done moves: it is done now, or it is not.            *)
LEMMA TaskMoves ==
  ASSUME TypeInv, NEW t \in Tasks, tasks[t].status # "COMPLETED", UNCHANGED <<mission, approvals>>,
         NEW x, tasks' = [tasks EXCEPT ![t] = x]
  PROVE  /\ x.status # "COMPLETED" => Silent
         /\ x.status = "COMPLETED" => t \notin DoneIn(tasks) /\ DoneIn(tasks') = DoneIn(tasks) \cup {t}
<1>1. tasks \in [Tasks -> Task]
  BY StoreType DEF Budgeted
<1>2. tasks'[t] = x /\ \A u \in Tasks \ {t} : tasks'[u] = tasks[u]
  BY <1>1
<1>3. QED
  BY <1>2 DEF Silent, DoneIn

LEMMA SaveKeeps ==
  ASSUME TypeInv, DrivenCore, NEW i \in Instances, SaveMission(i)
  PROVE  Silent
<1>1. pc[i] \in DOMAIN AfterSave /\ mission' = job[i].mission /\ UNCHANGED <<tasks, approvals>>
  BY DEF SaveMission
<1>2. Busy(i) /\ pc[i] \notin {"require", "decision"}
  BY <1>1 DEF Busy, AfterSave
<1>3. mission'.status = mission.status
  BY <1>1, <1>2, AtTheWheel DEF Driver
<1>4. QED
  BY <1>1, <1>3 DEF Silent

LEMMA UpdateKeeps ==
  ASSUME TypeInv, DrivenCore, NEW i \in Instances, UpdateMission(i)
  PROVE  Keeps \/ Silent
<1>1. PICK copy, target : copy = job[i].mission /\ target = Target[pc[i]]
  OBVIOUS
<1>2. PICK moved : moved = [copy EXCEPT !.status = target, !.version = @ + 1]
  OBVIOUS
<1>3. pc[i] \in DOMAIN Target /\ UNCHANGED <<tasks, approvals>>
      /\ (mission' = mission \/ (mission' = moved /\ CanTransition(copy.status, target) /\ Current(copy)))
  BY <1>1, <1>2 DEF UpdateMission
<1>4. CASE mission' = mission
  BY <1>3, <1>4, ReadsOnly
<1>5. CASE mission' = moved /\ CanTransition(copy.status, target) /\ Current(copy)
  <2>1. target \in MissionStatus /\ copy \in Mission /\ target # "CREATED"
    BY <1>1, <1>3, UpdatePlaces, AtHand DEF Target
  <2>2. mission'.status = target
    BY <1>2, <1>5, <2>1, MovedType
  <2>3. copy.status = mission.status /\ copy.status \notin TerminalMission
    <3>1. CASE pc[i] = "start"
      BY <1>1, <1>5, <3>1 DEF DrivenCore, Fresh, Current, CanTransition
    <3>2. CASE pc[i] # "start"
      <4>1. Busy(i) /\ pc[i] \notin {"require", "decision"}
        BY <1>3, <3>2 DEF Busy, Target
      <4>2. QED
        BY <1>1, <1>5, <4>1, AtTheWheel DEF Driver, CanTransition
    <3>3. QED
      BY <3>1, <3>2
  <2>4. CASE mission.status = "CREATED"
    <3>1. pc[i] = "start"
      BY <1>3, <2>4, AtTheWheel DEF Busy, Target
    <3>2. target = "EXECUTING"
      BY <1>1, <3>1 DEF Target
    <3>3. QED
      BY <1>3, <2>2, <2>4, <3>2 DEF Keeps, PhaseOf, TerminalMission
  <2>5. CASE mission.status # "CREATED" /\ target \notin TerminalMission
    BY <1>3, <2>1, <2>2, <2>3, <2>5 DEF Silent, PhaseOf
  <2>6. CASE mission.status # "CREATED" /\ target \in TerminalMission
    <3>1. target = "COMPLETED" => DoneIn(tasks) = Tasks
      <4>1. target = "COMPLETED" => pc[i] = "complete" /\ Busy(i)
        BY <1>1, <1>3 DEF Target, Busy
      <4>2. QED
        BY <4>1, AtTheWheel DEF Driver, DoneIn
    <3>2. QED
      BY <1>3, <2>2, <2>3, <2>6, <3>1 DEF Keeps, PhaseOf
  <2>7. QED
    BY <2>4, <2>5, <2>6
<1>6. QED
  BY <1>3, <1>4, <1>5

(* A task is done in the order of the chain, and bought only when granted. *)
LEMMA ReportKeeps ==
  ASSUME TypeInv, DrivenCore, "governed" \in scenario, NEW i \in Instances,
         TaskCompleted(i) \/ TaskWaiting(i) \/ TaskFailed(i)
  PROVE  Keeps \/ Silent
<1>1. PICK t : t = job[i].task
  OBVIOUS
<1>2. pc[i] \in Reporting /\ t \in Tasks /\ Busy(i)
  BY <1>1, AtHand DEF TaskCompleted, TaskWaiting, TaskFailed, Locals, Busy, Reporting
<1>3. tasks[t].status = "RUNNING" /\ mission.status # "CREATED"
      /\ mission.status \notin TerminalMission
      /\ (pc[i] = "task_completed" => Cleared(t, approvals))
  BY <1>1, <1>2, AtTheWheel DEF Driver
<1>4. PICK x : /\ tasks' = [tasks EXCEPT ![t] = x] /\ UNCHANGED <<mission, approvals>>
               /\ x.status = "COMPLETED" => pc[i] = "task_completed"
  <2>1. PICK status \in {"COMPLETED", "WAITING", "FAILED"} :
          /\ tasks' = [tasks EXCEPT ![t] = [status |-> status, attempt |-> job[i].attempt]]
          /\ UNCHANGED <<mission, approvals>>
          /\ status = "COMPLETED" => pc[i] = "task_completed"
    BY <1>1 DEF TaskCompleted, TaskWaiting, TaskFailed, SaveTask
  <2>2. PICK x : x = [status |-> status, attempt |-> job[i].attempt]
    OBVIOUS
  <2>3. x.status = status /\ tasks' = [tasks EXCEPT ![t] = x]
    BY <2>1, <2>2
  <2>4. QED
    BY <2>1, <2>3
<1>5. CASE x.status # "COMPLETED"
  BY <1>2, <1>3, <1>4, <1>5, TaskMoves
<1>6. CASE x.status = "COMPLETED"
  <2>1. t \notin DoneIn(tasks) /\ DoneIn(tasks') = DoneIn(tasks) \cup {t}
    BY <1>2, <1>3, <1>4, <1>6, TaskMoves
  <2>2. \A u \in Tasks : u < t => u \in DoneIn(tasks)
    BY <1>2, <1>3, Before DEF DoneIn
  <2>3. 1 .. (t - 1) \subseteq DoneIn(tasks)
    BY <1>2, <2>2, DeployedAssumption DEF Tasks
  <2>4. t \in Buyers => GrantedIn(approvals) # {}
    BY <1>3, <1>4, <1>6 DEF Cleared, GrantedIn
  <2>5. PhaseOf(mission.status) = "RUNNING"
    BY <1>3 DEF PhaseOf
  <2>6. QED
    BY <1>2, <1>4, <2>1, <2>3, <2>4, <2>5 DEF Keeps
<1>7. QED
  BY <1>5, <1>6

(* The other writes of a task leave it to be done.                         *)
LEMMA TasksKeep ==
  ASSUME TypeInv, DrivenCore, NEW i \in Instances, ClaimTask(i) \/ SaveRetry(i) \/ SaveReset(i)
  PROVE  Silent
<1>1. CASE UNCHANGED tasks
  BY <1>1, ReadsOnly DEF ClaimTask, SaveRetry, SaveReset, SaveTask
<1>2. CASE tasks' # tasks
  <2>1. PICK t, x : t \in Tasks /\ tasks' = [tasks EXCEPT ![t] = x] /\ x.status # "COMPLETED"
                    /\ tasks[t].status # "COMPLETED" /\ UNCHANGED <<mission, approvals>>
    <3>1. /\ tasks \in [Tasks -> Task] /\ Busy(i) /\ \A t \in Tasks : tasks[t] \in Task
          /\ Driver(pc[i], job[i], mission, tasks, approvals)
          /\ Locals(pc[i], job[i], Len(approvals))
      BY AtHand, AtTheWheel, StoreType DEF Budgeted, Busy, ClaimTask, SaveRetry, SaveReset
    <3>2. CASE ClaimTask(i)
      <4>1. PICK t : t = job[i].task
        OBVIOUS
      <4>2. t \in Tasks /\ Unclaimed(t) /\ tasks' = [tasks EXCEPT ![t].status = "RUNNING"]
            /\ UNCHANGED <<mission, approvals>>
        BY <1>2, <3>1, <3>2, <4>1 DEF ClaimTask, Locals
      <4>3. [tasks[t] EXCEPT !.status = "RUNNING"].status # "COMPLETED"
            /\ tasks' = [tasks EXCEPT ![t] = [tasks[t] EXCEPT !.status = "RUNNING"]]
        BY <3>1, <4>2 DEF Task
      <4>4. QED
        BY <4>2, <4>3 DEF Unclaimed, Claimable
    <3>3. CASE SaveRetry(i)
      <4>1. job[i].task \in Tasks /\ tasks[job[i].task].status = "FAILED"
        BY <3>1, <3>3 DEF SaveRetry, Locals, Recovering, Driver
      <4>2. PICK x : x = [status |-> "PENDING", attempt |-> job[i].attempt]
        OBVIOUS
      <4>3. tasks' = [tasks EXCEPT ![job[i].task] = x] /\ x.status # "COMPLETED"
            /\ UNCHANGED <<mission, approvals>>
        BY <3>3, <4>2 DEF SaveRetry, SaveTask
      <4>4. QED
        BY <4>1, <4>3
    <3>4. CASE SaveReset(i)
      <4>1. PICK a, t : a = job[i].message.ref /\ t = approvals[a].task
        OBVIOUS
      <4>2. a \in 1 .. Len(approvals) /\ Held(a, tasks, approvals)
            /\ approvals[a].action = "purchase.execute"
        BY <3>1, <3>4, <4>1 DEF SaveReset, Locals, Deciding, Granting, Driver
      <4>3. t \in Tasks /\ tasks[t].status = "WAITING"
        BY <4>1, <4>2, StoreType DEF Held, Approval
      <4>4. PICK x : x = [status |-> "PENDING", attempt |-> job[i].attempt]
        OBVIOUS
      <4>5. tasks' = [tasks EXCEPT ![t] = x] /\ x.status # "COMPLETED"
            /\ UNCHANGED <<mission, approvals>>
        BY <3>4, <4>1, <4>4 DEF SaveReset, Reopened
      <4>6. QED
        BY <4>3, <4>5
    <3>5. QED
      BY <3>2, <3>3, <3>4
  <2>2. QED
    BY <2>1, TaskMoves
<1>3. QED
  BY <1>1, <1>2

(* Who asks works for a mission under way, and grants nothing.             *)
LEMMA AskKeeps ==
  ASSUME TypeInv, DrivenCore, NEW i \in Instances, AgentAsks(i) \/ Recover(i)
  PROVE  Keeps \/ Silent
<1>1. pc[i] \in {"agent", "twin"} /\ Busy(i) /\ UNCHANGED <<mission, tasks>> /\ job[i].task \in Tasks
  BY AtHand DEF AgentAsks, Recover, Busy, Locals, Reporting, Recovering
<1>2. PhaseOf(mission.status) = "RUNNING"
  BY <1>1, AtTheWheel DEF Driver, Reporting, PhaseOf
<1>3. ASSUME NEW x \in Approval, x.status = "PENDING", approvals' = Append(approvals, x)
      PROVE  Keeps
  <2>1. PICK n : n = Len(approvals')
    OBVIOUS
  <2>2. /\ n = Len(approvals) + 1 /\ Len(approvals) \in Nat /\ approvals'[n] = x
        /\ \A a \in 1 .. Len(approvals) : approvals'[a] = approvals[a]
    BY <1>3, <2>1, Appended
  <2>3. \A a : a \in 1 .. n <=> a \in 1 .. Len(approvals) \/ a = n
    BY <2>2
  <2>4. GrantedIn(approvals') = GrantedIn(approvals)
    BY <1>3, <2>1, <2>2, <2>3 DEF GrantedIn
  <2>5. AskingIn(approvals')
    BY <1>3, <2>1, <2>2, <2>3 DEF AskingIn
  <2>6. QED
    BY <1>1, <1>2, <2>4, <2>5 DEF Keeps
<1>4. CASE UNCHANGED approvals
  BY <1>1, <1>4, ReadsOnly
<1>5. Purchase(job[i].task) \in Approval /\ Purchase(job[i].task).status = "PENDING"
  BY <1>1 DEF Purchase, Approval, ApprovalStatus, Directives
<1>6. \A d \in Directives : LET x == [status |-> "PENDING", action |-> "recovery.apply",
                                      task |-> job[i].task, directive |-> d]
                            IN  x \in Approval /\ x.status = "PENDING"
  BY <1>1 DEF Approval, ApprovalStatus
<1>7. CASE AgentAsks(i)
  BY <1>3, <1>4, <1>5, <1>7 DEF AgentAsks
<1>8. CASE Recover(i)
  BY <1>3, <1>4, <1>6, <1>8 DEF Recover, Directives
<1>9. QED
  BY <1>7, <1>8

LEMMA DecisionKeeps ==
  ASSUME TypeInv, NEW a \in 1 .. Len(approvals), NEW verdict \in {"APPROVED", "REJECTED"},
         Decide(a, verdict)
  PROVE  Keeps
<1>1. approvals[a].status = "PENDING" /\ UNCHANGED <<mission, tasks>>
  BY DEF Decide
<1>2. /\ Len(approvals') = Len(approvals)
      /\ \A b \in 1 .. Len(approvals) : b # a => approvals'[b] = approvals[b]
  BY DecideType
<1>3. AskingIn(approvals)
  BY <1>1 DEF AskingIn
<1>4. GrantedIn(approvals') \in {GrantedIn(approvals), {"beyond"}}
  BY <1>1, <1>2 DEF GrantedIn
<1>5. QED
  BY <1>1, <1>3, <1>4 DEF Keeps

LEMMA PromisesStep ==
  ASSUME TypeInv, DrivenCore, Promised, Next
  PROVE  Keeps \/ Silent
<1>1. "governed" \in scenario
  BY DEF Promised
<1>2. ASSUME NEW i \in Instances, Work(i) PROVE Keeps \/ Silent
  <2>1. CASE \/ Require(i) \/ SelectTask(i) \/ AgentSucceeds(i) \/ AgentFails(i) \/ Announce(i)
             \/ ApplyDirective(i) \/ RetryTask(i) \/ OnApproval(i) \/ Route(i) \/ ResetTask(i)
    BY <2>1, ReadsOnly DEF Require, SelectTask, AgentSucceeds, AgentFails, Announce,
       ApplyDirective, RetryTask, OnApproval, Route, ResetTask, Documents
  <2>2. QED
    BY <1>1, <1>2, <2>1, SaveKeeps, UpdateKeeps, ReportKeeps, TasksKeep, AskKeeps DEF Work
<1>3. ASSUME NEW i \in Instances, Start(i) \/ Push(i) \/ Crash(i) PROVE Silent
  BY <1>3, ReadsOnly DEF Start, Push, Deliver, Crash, Documents
<1>4. QED
  BY <1>2, <1>3, DecisionKeeps DEF Next

LEMMA PromisesInit == Init => Lifecycle!Init
<1> SUFFICES ASSUME Init PROVE Lifecycle!Init
  OBVIOUS
<1>1. mission.status = "CREATED" /\ Len(approvals) = 0 /\ \A t \in Tasks : tasks[t].status = "PENDING"
  BY DEF Init
<1>2. QED
  BY <1>1 DEF Lifecycle!Init, Asking

LEMMA PromisesNext == DrivenInv /\ [Next]_vars => [Lifecycle!Next]_(Lifecycle!vars)
<1> SUFFICES ASSUME DrivenInv, [Next]_vars PROVE [Lifecycle!Next]_(Lifecycle!vars)
  OBVIOUS
<1>1. UNCHANGED scenario
  BY ScenarioStays
<1>2. CASE Promised
  <2>1. TypeInv /\ DrivenCore
    BY <1>2 DEF DrivenInv, Promised, Undisturbed
  <2>2. Keeps \/ Silent
    BY <1>2, <2>1, PromisesStep, ReadsOnly DEF vars
  <2>3. QED
    BY <1>1, <1>2, <2>2, KeepsNext
<1>3. CASE ~Promised
  <2>1. ~Promised'
    BY <1>1, <1>3 DEF Promised
  <2>2. UNCHANGED Lifecycle!vars
    BY <1>3, <2>1 DEF Lifecycle!vars
  <2>3. QED
    BY <2>2
<1>4. QED
  BY <1>2, <1>3

(* With a governed purchase, failing agents and each event delivered once  *)
(* (Promised), several instances over Firestore and Pub/Sub implement the  *)
(* promises of MissionLifecycle, every step one of theirs or none: the     *)
(* chain in its order and for good, no purchase beyond authority without a *)
(* human who granted it, COMPLETED with every task done, one outcome and   *)
(* nothing after it.  (The fair part is checked by a run.)                 *)
THEOREM DeployedKeepsPromises == Spec => Lifecycle!Init /\ [][Lifecycle!Next]_(Lifecycle!vars)
<1>1. DrivenInv /\ [Next]_vars => DrivenInv'
  BY DrivenNext
<1>2. QED
  BY <1>1, DrivenInit, PromisesInit, PromisesNext, PTL DEF Spec

=============================================================================
