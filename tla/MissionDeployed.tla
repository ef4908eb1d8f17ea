--------------------------- MODULE MissionDeployed --------------------------
(***************************************************************************)
(* One mission driven by the API as it is deployed: Firestore, Pub/Sub and *)
(* several Cloud Run instances.                                            *)
(*                                                                         *)
(* Firestore hands out copies.  A handler works on the copy of the mission *)
(* it read first (job.mission) and writes it back in two ways: save_mission *)
(* replaces the whole document whatever happened to it meanwhile, and      *)
(* update_mission is a transaction that checks the version.  claim_task is *)
(* the only transaction on a task.  Each Pub/Sub push is a request of its  *)
(* own, so handlers of one mission run side by side, and every access to   *)
(* the store is a point where another one can come in between.  An action  *)
(* below is one access, with the computation up to the next one.           *)
(***************************************************************************)
EXTENDS MissionStates, Sequences, FiniteSets

CONSTANTS
  Instances,      \* request handlers that can be under way at a time
  NumTasks,       \* length of the task chain
  Buyers,         \* tasks whose agent calls purchase.execute: the last, if any
  MaxAttempts,    \* Task.max_attempts
  Scenarios,      \* sets of Hazards: which of them may happen together
  MaxDuplicates,  \* bound on repeated deliveries
  MaxCrashes      \* bound on instances that die

Tasks == 1 .. NumTasks

(* "duplicate": Pub/Sub repeats a MISSION_STARTED, TASK_COMPLETED or       *)
(*    MISSION_RESUMED; "duplicate_approval": an APPROVAL_RECEIVED;         *)
(* "governed": the purchase is above the agents' autonomous authority;     *)
(* "agent_failure": an agent fails and the Failure Twin plans a recovery;  *)
(* "quick_decision": the operator decides before the engine has recorded   *)
(*    that it waits;                                                       *)
(* "crash": an instance dies; "lost_publish": the publisher raises, and    *)
(*    the fallback queue of _publish_pubsub has no worker.                 *)
Hazards == {"duplicate", "duplicate_approval", "governed", "agent_failure",
            "quick_decision", "crash", "lost_publish"}

ASSUME DeployedAssumption ==
  /\ NumTasks \in Nat \ {0} /\ Buyers \subseteq {NumTasks}
  /\ MaxAttempts \in Nat \ {0}
  /\ Scenarios \subseteq SUBSET Hazards
  /\ MaxDuplicates \in Nat /\ MaxCrashes \in Nat

VARIABLES
  scenario,   \* the hazards of this behaviour
  mission,    \* /missions/{id}: status, version, pending_approval_id
  tasks,      \* /missions/{id}/tasks
  approvals,  \* /missions/{id}/approvals, in the order of the requests
  bus,        \* messages of the topic not yet acknowledged
  pc, job,    \* each handler: where it is, and its locals
  repeats, crashes

vars == <<scenario, mission, tasks, approvals, bus, pc, job, repeats, crashes>>

(***************************************************************************)
(* Data                                                                    *)
(***************************************************************************)

Mission == [status : MissionStatus, version : Nat, pending : Nat]

Task == [status : TaskStatus, attempt : Nat]

Directives == {"RETRY_TASK", "FAIL", "WAIT_APPROVAL"}

Approval == [status : ApprovalStatus, action : {"purchase.execute", "recovery.apply"},
             task : Tasks, directive : Directives]

(* The body of a push: ref is the task, or the approval, it is about.      *)
Message == [type : {"MISSION_STARTED", "TASK_COMPLETED", "MISSION_RESUMED",
                    "APPROVAL_RECEIVED"},
            ref : Nat]

Started      == [type |-> "MISSION_STARTED", ref |-> 0]
TaskDone(t)  == [type |-> "TASK_COMPLETED", ref |-> t]
Resumed(a)   == [type |-> "MISSION_RESUMED", ref |-> a]
Decided(a)   == [type |-> "APPROVAL_RECEIVED", ref |-> a]
NoMessage    == [type |-> "none", ref |-> 0]

(* A handler's locals: the push it answers, its copy of the mission, the   *)
(* task it claimed, the attempt in its copy of a task, and the approval it *)
(* was given.                                                              *)
Job == [message : Message \cup {NoMessage}, mission : Mission, task : Tasks \cup {0},
        attempt : Nat, asked : Nat, directive : Directives \cup {"none"}]

NoMission == [status |-> "CREATED", version |-> 0, pending |-> 0]

NoJob == [message |-> NoMessage, mission |-> NoMission, task |-> 0, attempt |-> 0,
          asked |-> 0, directive |-> "none"]

(* The writes of the mission a handler makes, and where each leads.        *)
(* save_mission: the copy replaces the document.                           *)
AfterSave ==
  [activate |-> "agent", progress |-> "recorded", recorded |-> "announce",
   held |-> "idle", risk_saved |-> "recovering", planning |-> "twin",
   retried |-> "require", failed |-> "idle", completed |-> "archived",
   archived |-> "idle", refused |-> "failing", granted |-> "regranted",
   regranted |-> "route", replanned |-> "directive", authorised |-> "announce"]

(* _set_status: a transaction on the version the copy was read with.       *)
Target ==
  [start |-> "EXECUTING", reinstate |-> "EXECUTING", hold |-> "WAITING_APPROVAL",
   at_risk |-> "AT_RISK", recovering |-> "RECOVERING", retry |-> "EXECUTING",
   failing |-> "FAILED", complete |-> "COMPLETED", replan |-> "RECOVERING",
   authorise |-> "EXECUTING"]

AfterUpdate ==
  [start |-> "announce", reinstate |-> "progress", hold |-> "held",
   at_risk |-> "risk_saved", recovering |-> "planning", retry |-> "retried",
   failing |-> "failed", complete |-> "completed", replan |-> "replanned",
   authorise |-> "authorised"]

Places == DOMAIN AfterSave \cup DOMAIN Target \cup
  {"idle", "require", "select", "claim", "agent", "task_completed", "task_waiting",
   "task_failed", "twin", "directive", "retry_task", "save_retry", "announce", "decision",
   "route", "reset_task", "save_reset"}

Init ==
  /\ scenario \in Scenarios
  /\ mission = [status |-> "CREATED", version |-> 1, pending |-> 0]
  /\ tasks = [t \in Tasks |-> [status |-> "PENDING", attempt |-> 1]]
  /\ approvals = <<>> /\ bus = {}
  /\ pc = [i \in Instances |-> "idle"] /\ job = [i \in Instances |-> NoJob]
  /\ repeats = 0 /\ crashes = 0

(***************************************************************************)
(* Steps of a handler                                                      *)
(***************************************************************************)

(* Handler i goes on at place p with locals j; at "idle" it has answered,  *)
(* and dispatch has swallowed the exception if there was one.              *)
Goto(i, p, j) ==
  /\ pc' = [pc EXCEPT ![i] = p]
  /\ job' = [job EXCEPT ![i] = IF p = "idle" THEN NoJob ELSE j]

Return(i) == Goto(i, "idle", NoJob)

Documents == <<mission, tasks, approvals>>
Limits    == <<scenario, repeats, crashes>>

(* start(): a request of the operator.                                     *)
Start(i) ==
  /\ pc[i] = "idle" /\ mission.status = "CREATED"
  /\ Goto(i, "start", [NoJob EXCEPT !.mission = mission])
  /\ UNCHANGED <<Documents, bus, Limits>>

Repeatable(m) ==
  IF m.type = "APPROVAL_RECEIVED" THEN "duplicate_approval" \in scenario
                                  ELSE "duplicate" \in scenario

(* A push.  The message stays in the subscription when Pub/Sub will        *)
(* deliver it once more: the acknowledgement was late, or got lost.        *)
Deliver(i, m) ==
  /\ pc[i] = "idle" /\ m \in bus
  /\ \/ bus' = bus \ {m} /\ UNCHANGED repeats
     \/ /\ Repeatable(m) /\ repeats < MaxDuplicates
        /\ repeats' = repeats + 1 /\ UNCHANGED bus
  /\ Goto(i, IF m.type = "APPROVAL_RECEIVED" THEN "decision" ELSE "require",
             [NoJob EXCEPT !.message = m])
  /\ UNCHANGED <<Documents, scenario, crashes>>

SaveMission(i) ==
  /\ pc[i] \in DOMAIN AfterSave
  /\ mission' = job[i].mission
  /\ Goto(i, AfterSave[pc[i]], job[i])
  /\ UNCHANGED <<tasks, approvals, bus, Limits>>

(* Mutant: the transaction does not look at the version.                   *)
AnyVersion(copy) == TRUE

Current(copy) == mission.version = copy.version

(* The transition is checked on the copy, the version in the transaction.  *)
UpdateMission(i) ==
  LET copy  == job[i].mission
      moved == [copy EXCEPT !.status = Target[pc[i]], !.version = @ + 1]
  IN  /\ pc[i] \in DOMAIN Target
      /\ IF CanTransition(copy.status, Target[pc[i]]) /\ Current(copy)
           THEN /\ mission' = moved
                /\ Goto(i, AfterUpdate[pc[i]], [job[i] EXCEPT !.mission = moved])
           ELSE Return(i) /\ UNCHANGED mission
      /\ UNCHANGED <<tasks, approvals, bus, Limits>>

(* advance: the first read.                                                *)
Require(i) ==
  /\ pc[i] = "require"
  /\ IF mission.status \in TerminalMission \cup {"WAITING_APPROVAL"}
       THEN Return(i)
       ELSE Goto(i, "select", [job[i] EXCEPT !.mission = mission])
  /\ UNCHANGED <<Documents, bus, Limits>>

Runnable == {t \in Tasks : /\ tasks[t].status \in Claimable
                           /\ t > 1 => tasks[t - 1].status = "COMPLETED"}

AllCompleted == \A t \in Tasks : tasks[t].status = "COMPLETED"

SelectTask(i) ==
  /\ pc[i] = "select"
  /\ \/ AllCompleted /\ Goto(i, "complete", job[i])
     \/ ~AllCompleted /\ Runnable = {} /\ Return(i)
     \/ \E t \in Runnable : /\ \A u \in Runnable : t <= u
                            /\ Goto(i, "claim", [job[i] EXCEPT !.task = t])
  /\ UNCHANGED <<Documents, bus, Limits>>

(* Mutant: the claim is a read followed by a write that nothing checks.    *)
Unchecked(t) == TRUE

Unclaimed(t) == tasks[t].status \in Claimable

ClaimTask(i) ==
  LET t == job[i].task IN
  /\ pc[i] = "claim"
  /\ IF Unclaimed(t)
       THEN /\ tasks' = [tasks EXCEPT ![t].status = "RUNNING"]
            /\ Goto(i, "activate", [job[i] EXCEPT !.attempt = tasks[t].attempt])
       ELSE Return(i) /\ UNCHANGED tasks
  /\ UNCHANGED <<mission, approvals, bus, Limits>>

(***************************************************************************)
(* The agent, and what becomes of its report                               *)
(***************************************************************************)

Covering(t) == {a \in 1 .. Len(approvals) :
                  approvals[a].action = "purchase.execute" /\ approvals[a].task = t}

(* Mutant: the gateway lets every purchase pass.                           *)
Unguarded(t) == TRUE

Authorised(t) ==
  t \in Buyers /\ "governed" \in scenario => \E a \in Covering(t) : approvals[a].status = "APPROVED"

AgentSucceeds(i) ==
  /\ pc[i] = "agent" /\ Authorised(job[i].task)
  /\ Goto(i, "task_completed", job[i])
  /\ UNCHANGED <<Documents, bus, Limits>>

Purchase(t) == [status |-> "PENDING", action |-> "purchase.execute", task |-> t,
                directive |-> "RETRY_TASK"]

(* The gateway answers APPROVAL_REQUIRED, with the approval of the action, *)
(* or with a new one when there is none.                                   *)
AgentAsks(i) ==
  LET t == job[i].task IN
  /\ pc[i] = "agent" /\ ~Authorised(t)
  /\ \A a \in Covering(t) : approvals[a].status = "PENDING"
  /\ approvals' = IF Covering(t) = {} THEN Append(approvals, Purchase(t)) ELSE approvals
  /\ \E a \in DOMAIN approvals' :
       /\ Covering(t) = {} => a = Len(approvals')
       /\ Covering(t) # {} => a \in Covering(t)
       /\ Goto(i, "task_waiting", [job[i] EXCEPT !.asked = a])
  /\ UNCHANGED <<mission, tasks, bus, Limits>>

(* The agent's tools fail, or the gateway says REJECTED.                   *)
AgentFails(i) ==
  /\ pc[i] = "agent"
  /\ \/ "agent_failure" \in scenario
     \/ \E a \in Covering(job[i].task) : approvals[a].status = "REJECTED"
  /\ Goto(i, "task_failed", job[i])
  /\ UNCHANGED <<Documents, bus, Limits>>

(* save_task of the copy that claim_task returned, with its new status.    *)
SaveTask(i, status, p, j) ==
  /\ tasks' = [tasks EXCEPT ![job[i].task] =
                 [status |-> status, attempt |-> job[i].attempt]]
  /\ Goto(i, p, j)
  /\ UNCHANGED <<mission, approvals, bus, Limits>>

TaskCompleted(i) ==
  /\ pc[i] = "task_completed"
  /\ SaveTask(i, "COMPLETED",
       IF job[i].mission.status \in {"RECOVERING", "AT_RISK"} THEN "reinstate"
                                                              ELSE "progress", job[i])

TaskWaiting(i) ==
  /\ pc[i] = "task_waiting"
  /\ SaveTask(i, "WAITING", "hold", [job[i] EXCEPT !.mission.pending = job[i].asked])

TaskFailed(i) ==
  /\ pc[i] = "task_failed"
  /\ SaveTask(i, "FAILED", "at_risk", job[i])

(* publish: append_event, then Pub/Sub.  A raising publisher falls back to *)
(* the in-process queue, which nobody reads when the bus is Pub/Sub.       *)
Announce(i) ==
  LET event == CASE job[i].message = NoMessage -> Started
                 [] job[i].message.type = "APPROVAL_RECEIVED" /\ job[i].task = 0
                      -> Resumed(job[i].message.ref)
                 [] OTHER -> TaskDone(job[i].task)
  IN  /\ pc[i] = "announce"
      /\ \/ bus' = bus \cup {event}
         \/ "lost_publish" \in scenario /\ UNCHANGED bus
      /\ Return(i)
      /\ UNCHANGED <<Documents, Limits>>

(***************************************************************************)
(* Recovery                                                                *)
(***************************************************************************)

(* plan_recovery and its governance: applied at once, or a new approval.   *)
Recover(i) ==
  /\ pc[i] = "twin"
  /\ \E plan \in {"RETRY_TASK", "FAIL"} :
       \/ /\ Goto(i, "directive", [job[i] EXCEPT !.directive = plan])
          /\ UNCHANGED approvals
       \/ /\ plan = "RETRY_TASK"
          /\ approvals' = Append(approvals,
               [status |-> "PENDING", action |-> "recovery.apply",
                task |-> job[i].task, directive |-> plan])
          /\ Goto(i, "directive", [job[i] EXCEPT !.directive = "WAIT_APPROVAL",
                                                 !.asked = Len(approvals')])
  /\ UNCHANGED <<mission, tasks, bus, Limits>>

(* _apply_directive reads the mission again.                               *)
ApplyDirective(i) ==
  /\ pc[i] = "directive"
  /\ LET fresh == [job[i] EXCEPT !.mission = mission]
     IN  CASE job[i].directive = "RETRY_TASK"    -> Goto(i, "retry_task", fresh)
           [] job[i].directive = "WAIT_APPROVAL" ->
                Goto(i, "hold", [fresh EXCEPT !.mission.pending = job[i].asked])
           [] OTHER                              -> Goto(i, "failing", fresh)
  /\ UNCHANGED <<Documents, bus, Limits>>

(* Mutant: one attempt more than the budget.                               *)
SpentLate(t) == tasks[t].attempt > MaxAttempts

Spent(t) == tasks[t].attempt >= MaxAttempts

(* get_task, and the save_task of that copy: nothing keeps the task as it  *)
(* was read.                                                               *)
RetryTask(i) ==
  LET t == job[i].task IN
  /\ pc[i] = "retry_task"
  /\ IF Spent(t)
       THEN Goto(i, "failing", job[i])
       ELSE Goto(i, "save_retry", [job[i] EXCEPT !.attempt = tasks[t].attempt + 1])
  /\ UNCHANGED <<Documents, bus, Limits>>

SaveRetry(i) ==
  /\ pc[i] = "save_retry"
  /\ SaveTask(i, "PENDING", "retry", job[i])

(***************************************************************************)
(* on_approval                                                             *)
(***************************************************************************)

OnApproval(i) ==
  LET a == job[i].message.ref IN
  /\ pc[i] = "decision"
  /\ Goto(i, IF approvals[a].status = "REJECTED" THEN "refused" ELSE "granted",
             [job[i] EXCEPT !.mission = [mission EXCEPT !.pending = 0]])
  /\ UNCHANGED <<Documents, bus, Limits>>

(* After the approval's checkpoint: a recovery plan, or an action of a task.*)
Route(i) ==
  LET a == approvals[job[i].message.ref] IN
  /\ pc[i] = "route"
  /\ IF a.action = "recovery.apply"
       THEN Goto(i, "replan", [job[i] EXCEPT !.task = a.task, !.directive = a.directive])
       ELSE Goto(i, "reset_task", job[i])
  /\ UNCHANGED <<Documents, bus, Limits>>

(* The task of an approved action: read, then saved whatever it has become. *)
ResetTask(i) ==
  /\ pc[i] = "reset_task"
  /\ Goto(i, "save_reset",
          [job[i] EXCEPT !.attempt = tasks[approvals[job[i].message.ref].task].attempt])
  /\ UNCHANGED <<Documents, bus, Limits>>

(* Mutant: an approved action's task is not put back to PENDING.           *)
LeftWaiting(i) == [status |-> "WAITING", attempt |-> job[i].attempt]

Reopened(i) == [status |-> "PENDING", attempt |-> job[i].attempt]

SaveReset(i) ==
  /\ pc[i] = "save_reset"
  /\ tasks' = [tasks EXCEPT ![approvals[job[i].message.ref].task] = Reopened(i)]
  /\ Goto(i, "authorise", job[i])
  /\ UNCHANGED <<mission, approvals, bus, Limits>>

(***************************************************************************)
(* The operator, and what can befall an instance                           *)
(***************************************************************************)

(* Without "quick_decision" the operator answers once the mission says it  *)
(* waits and its handlers have answered.                                   *)
Answerable(a) ==
  "quick_decision" \in scenario \/
    (mission.pending = a /\ \A i \in Instances : pc[i] # "held")

Decide(a, verdict) ==
  /\ approvals[a].status = "PENDING" /\ Answerable(a)
  /\ approvals' = [approvals EXCEPT ![a].status = verdict]
  /\ bus' = bus \cup {Decided(a)}
  /\ UNCHANGED <<mission, tasks, pc, job, Limits>>

(* Pub/Sub delivers what was not acknowledged again.                       *)
Crash(i) ==
  /\ "crash" \in scenario /\ crashes < MaxCrashes
  /\ pc[i] # "idle"
  /\ bus' = bus \cup ({job[i].message} \ {NoMessage})
  /\ crashes' = crashes + 1
  /\ Return(i)
  /\ UNCHANGED <<Documents, scenario, repeats>>

Push(i) == \E m \in bus : Deliver(i, m)

Work(i) ==
  \/ SaveMission(i) \/ UpdateMission(i)
  \/ Require(i) \/ SelectTask(i) \/ ClaimTask(i)
  \/ AgentSucceeds(i) \/ AgentAsks(i) \/ AgentFails(i)
  \/ TaskCompleted(i) \/ TaskWaiting(i) \/ TaskFailed(i) \/ Announce(i)
  \/ Recover(i) \/ ApplyDirective(i) \/ RetryTask(i) \/ SaveRetry(i)
  \/ OnApproval(i) \/ Route(i) \/ ResetTask(i) \/ SaveReset(i)

Next ==
  \/ \E i \in Instances : Start(i) \/ Push(i) \/ Work(i) \/ Crash(i)
  \/ \E a \in 1 .. Len(approvals) :
       \E verdict \in {"APPROVED", "REJECTED"} : Decide(a, verdict)

Spec == Init /\ [][Next]_vars

(* Pub/Sub pushes what is not acknowledged, and a request under way goes   *)
(* on: its calls have timeouts.  Nothing is assumed of the operator.       *)
FairSpec ==
  /\ Spec
  /\ \A i \in Instances : WF_vars(Work(i))
  /\ WF_vars(\E i \in Instances : Push(i))

(***************************************************************************)
(* Properties                                                              *)
(***************************************************************************)

Requested == 0 .. Len(approvals)

(* Between its claim and its report a handler owns the task.               *)
Running(i, t) == pc[i] \in {"activate", "agent", "task_completed", "task_waiting",
                            "task_failed"} /\ job[i].task = t

(* Statuses are statuses, attempts stay within the budget, and whoever has *)
(* an approval's number has one that was requested.                        *)
TypeOK ==
  /\ scenario \in Scenarios
  /\ mission \in Mission /\ mission.pending \in Requested
  /\ tasks \in [Tasks -> Task] /\ \A t \in Tasks : tasks[t].attempt \in 1 .. MaxAttempts
  /\ approvals \in Seq(Approval)
  /\ bus \subseteq Message /\ \A m \in bus : m.type = "APPROVAL_RECEIVED" => m.ref \in Requested
  /\ pc \in [Instances -> Places] /\ job \in [Instances -> Job]
  /\ repeats \in 0 .. MaxDuplicates /\ crashes \in 0 .. MaxCrashes

(* However often Pub/Sub delivers, one handler at a time runs the agent of *)
(* a task and reports on it.                                               *)
ExclusiveRun ==
  \A i, j \in Instances, t \in Tasks : Running(i, t) /\ Running(j, t) => i = j

(* No completed task is set back, by a handler that works on an old copy of *)
(* the task, by a recovery or by an approval that comes late.              *)
CompletedStaysCompleted ==
  [][(\A t \in Tasks : tasks[t].status = "COMPLETED" => tasks'[t].status = "COMPLETED")]_vars

Asking == \E a \in 1 .. Len(approvals) : approvals[a].status = "PENDING"

(* Where Pub/Sub delivers each event once and the operator answers what the *)
(* mission waits for, no save of an old copy undoes a versioned update: the *)
(* version update_mission relies on never goes back.                       *)
Undisturbed ==
  scenario \cap {"duplicate", "duplicate_approval", "quick_decision", "crash"} = {}

VersionGrows == [][Undisturbed => mission'.version >= mission.version]_vars

(* Several instances over Firestore keep the promises of the engine in one *)
(* process, fair part included: order of the chain, nothing bought without *)
(* a grant, COMPLETED with every task done, one outcome.  The behaviours   *)
(* of the other scenarios are mapped to a mission that never starts.       *)
Promised == "governed" \in scenario /\ scenario \subseteq {"agent_failure", "governed"}

Lifecycle == INSTANCE MissionLifecycle WITH
  Offers   <- {"beyond"},
  Governed <- {"beyond"},
  phase    <- IF ~Promised THEN "CREATED"
              ELSE IF mission.status \in TerminalMission \cup {"CREATED"}
                THEN mission.status ELSE "RUNNING",
  done     <- {t \in Tasks : Promised /\ tasks[t].status = "COMPLETED"},
  granted  <- IF Promised /\ \E a \in 1 .. Len(approvals) :
                   approvals[a].action = "purchase.execute" /\ approvals[a].status = "APPROVED"
                THEN {"beyond"} ELSE {},
  asking   <- Promised /\ Asking

KeepsPromises == Lifecycle!Spec

(* Once started, a mission ends or asks a human, also when Pub/Sub repeats *)
(* the events of a mission that needs no approval: a repeated event may be *)
(* all that is left to drive it, and nothing it overtook may strand it.    *)
Heard == Promised \/ scenario = {"duplicate"}

EndsOrAsks ==
  (Heard /\ mission.status # "CREATED") ~> (mission.status \in TerminalMission \/ Asking)

=============================================================================
