# Autonomous Mission Control in TLA+

Autonomous Mission Control (ACC) runs an enterprise mission as a chain of tasks
carried out by AI agents. An engine drives the tasks from events; a gateway stands
between the agents and the enterprise; a human approves what is beyond the agents'
authority; a "Failure Twin" plans the recovery when a task fails; checkpoints let a
mission outlive the process that ran it. This directory models that machinery,
checks it with TLC, and proves part of it with TLAPS. Paths below are relative to
the repository.

Contents: [the system](#1-the-system), [the modules](#2-the-modules),
[from code to model](#3-from-code-to-model), [runs](#4-the-runs),
[disagreements](#5-where-code-and-documentation-disagree), [proofs](#6-what-is-proved),
[limits](#7-what-is-not-modelled), [plan](#8-plan).

## 1. The system

| Component | State it keeps | Operations | What makes it correct |
|---|---|---|---|
| Mission Engine `apps/api/services/mission_engine.py` | the mission, its tasks | create, start, `process_event`, advance, run a task, absorb its result, fail over to recovery, `on_approval`, interrupt, resume, complete, fail | tasks in order and once; COMPLETED means done; a mission always ends or asks; what a human refused is not done |
| State machine `domain/state_machine.py` | - | transition table | terminal statuses are final |
| Recovery Engine `recovery_engine.py`, Failure Twin `agents/failure_twin` | recovery attempts | plan, govern the plan, apply it, apply it after approval | every recovery is closed; a plan never widens authority; recoveries are bounded |
| Approval Service `approval_service.py` | approvals | request, decide, expire, find the one that covers an action | each is decided once, and the engine hears of each decision |
| Checkpoint Service | checkpoints | create, get, latest | what is restored is consistent with what happened since |
| Event Service `event_service.py` | the queue, the event log | publish, dispatch, worker | events in order; a chain without forks |
| Agent Runtime and Registry `agents/runtime.py`, `registry.py` | agent statuses | run a task, plan a recovery, suspend, restore | a suspended agent does not run and stays suspended |
| Agent Gateway `agent_gateway.py`, `idempotency.py` | idempotency records | identity, capability, policy, approval, idempotency, tool, armor, record | a purchase happens at most once and only when authorised |
| Enterprise tools `enterprise_tools.py` | circuit breaker counters | call | an open breaker protects, and closes again |
| Policy Engine `policy_engine.py` | - | rule chain | the autonomy table, default deny |
| Stores `repositories/` | all documents | in-memory (shared objects) and Firestore (copies, transactions) | no lost update, one claim per task |
| Operational agents `agents/supply`, `risk`, `procurement`, simulated enterprise `apps/mock_enterprise` | the facts of a mission, orders, failing suppliers | assess, price, purchase; fail and restore a supplier | the order is the one the mission's facts call for, once |
| Deployment script `scripts/deploy.py` | the Google Cloud project, Terraform's state, the images | check, register, build, repair, apply | what it reports deployed is what it built; a failed run can be repaired |
| Memory, Model Armor, audit, metrics, traces, alerting, HTTP API, web UI, other scripts and infrastructure | append-only records, views | | |

How they interact: an HTTP request calls the engine or the approval service
directly. These write to the store and publish events. One worker takes the events
from one queue, for all missions, and calls the engine's `process_event`; the
handler runs a task to its end before the next event is taken. The agent it awaits
calls the gateway, which asks policy, approvals and idempotency before it calls the
enterprise. In the deployed configuration the queue is Pub/Sub (at least once, any
order, several instances) and the store hands out copies.

What is hard, and what a test hardly reaches:

* an operator's request (interrupt, resume, decide, suspend) in the middle of an
  `await` of the worker, whose locals then describe a mission that has moved on;
* a decision waiting in the queue while somebody resumes the mission;
* an approval that outlives the execution that asked for it;
* an exception that the event bus swallows after a handler has written half of what
  it meant to write;
* a chain of events that ends without an end state: nothing ever wakes the mission;
* deployed: duplicated and reordered events, whole-document writes of stale copies;
* agents shared by missions: an execution that restores the status somebody has just
  changed, a bootstrap that overwrites it;
* facts read at one task and used three tasks later, with a recovery, a resume or an
  approval in between;
* a deployment that starts on what several failed ones left behind.

`PROJECT.json` lists these hazards line by line, with the properties that watch them.

## 2. The modules

| Module | What it is |
|---|---|
| `MissionStates` | statuses, the transition table, the statuses a task can be claimed from |
| `MissionLifecycle` | abstract: what ACC promises of a mission, without engine, events or approvals |
| `MissionEngine` | one mission, its tasks, approvals, recoveries, checkpoints, the event queue, the worker, and the operator, in one process; implements `MissionLifecycle` |
| `MissionDeployed` | the same engine over Firestore and Pub/Sub, by several instances; implements `MissionLifecycle` as far as that goes |
| `Purchasing` | abstract: what the gateway promises about purchases, without pipeline or records |
| `AgentGateway` | the gateway's pipeline for `purchase.execute`, any number of calls of it, with the approval service and the enterprise system; implements `Purchasing` |
| `CircuitBreaker` | the breaker between the gateway and the enterprise, per tool |
| `FleetStatus` | the registry's records and all who write them: executions, operators, starting instances |
| `PolicyEngine` | the rules in their order, as a pure function |
| `FailureTwin` | the plan the fallback works out, and those a model's answer can parse to, as pure functions over a catalogue of suppliers |
| `Sourcing` | the data of one mission: its four tasks, the suppliers, the recovery plans, the facts, the order |
| `Rollout` | the deployment script against a Google Cloud project, any number of runs |
| `MC_*` | the constants TLC uses, with the `.cfg` files of the same component |
| `MissionEngineProofs`, `MissionTurnProofs`, `MissionDeployedProofs`, `AgentGatewayProofs`, `CircuitBreakerProofs`, `FleetStatusProofs`, `SourcingProofs`, `RolloutProofs` | the theorems |

`Sourcing` extends `FailureTwin`, which extends `PolicyEngine`: the mission's data is
governed by the rules that two theorems of `SourcingProofs` are about.

`MissionLifecycle` says five things and nothing of how: tasks are done in the order
of the chain and for good; the purchase is done only if some offer needs no human or
a human granted one; COMPLETED requires every task; an ended mission stays ended; and
a mission that asks nobody keeps moving. `MissionEngine!Lifecycle` maps it onto the
engine: `done` is the set of COMPLETED tasks, `granted` the offers with an APPROVED
purchase approval, `asking` whether an approval is undecided.

`Purchasing` says of an action (a mission, a supplier, units, an amount) that it is
bought at most once, that nobody is asked within the autonomous limit, that up to
the ceiling a human grants it first and their word is final, and that nothing is
bought beyond. `AgentGateway!Purchases` maps it onto the pipeline: `orders` are the
enterprise's, `granted` and `refused` are read off the approvals.

The modules meet where one uses the other through few values. The engine sees the
gateway as a purchase that is authorised or answered APPROVAL_REQUIRED
(`Authorised`, `AgentAsks`); the gateway sees the breaker and the transport as a call
that places an order, fails, or never answers (`PlaceOrder`, `RefuseOrder`,
`LoseAnswer`). `MissionEngine` takes any plan of the twin; `Sourcing` takes the plan the
twin works out, and runs a task once at a time. Each of these is a nondeterministic
choice in the module that sees it.

## 3. From code to model

### MissionEngine

**Granularity.** The API process is one asyncio event loop. The in-memory store's
calls, the unbounded queue's `put` and an uncontended `asyncio.Lock` never suspend.
The worker therefore suspends in three places only: waiting for an event
(`pc = "idle"`), awaiting an agent (`"agent"`) and awaiting the Failure Twin
(`"twin"`). An action is the code from one of these points to the next, or one
operator request, which can run only at such a point. Nothing finer can interleave
in this configuration; the deployed one is `MissionDeployed`.

**State.** `status`, `pending`, `active`, `offer` are fields of the mission document
(`offer` stands for the selected supplier, unit price and amount, always read
together). `taskStatus`, `attempt` and `stray` are fields of the tasks (`stray`: the
assigned agent is in no registry). `approvals` is the approval collection, in
creation order; `open` are those whose recovery attempt has no `completed_at`, with 0
for an attempt that has neither: one whose twin the gateway refused after it was saved.
`checkpoints` keeps of each checkpoint the two fields `resume` reads back into
behaviour. `queue` holds the events that have a handler; the others change nothing.
`job` holds the worker's locals across an `await`: task, offer of the invocation, and
the approval the gateway answered with.

**Actions.**

| Action | Code |
|---|---|
| `Start`, `Interrupt`, `Resume` | the engine methods of these names, called by the routes |
| `Decide`, `DecideTooLate`, `ExpireStale` | `ApprovalService.decide` in time and past the TTL, `expire_stale` |
| `SuspendTwin`, `ReinstateTwin` | an operator changes the twin's status in the registry |
| `HandleProgress` | `process_event` of MISSION_STARTED, TASK_COMPLETED, MISSION_RESUMED: `advance`, ending in nothing to run, `_complete`, or `_run_task` up to its `await` |
| `HandleRefusal`, `HandleRecoveryGrant`, `HandlePurchaseGrant` | `on_approval`, its three ways |
| `AgentAsks` | during the agent's run, the gateway answers APPROVAL_REQUIRED |
| `AgentSucceeds`, `AgentNeedsApproval`, `AgentFails` | the rest of `_run_task`: `_on_task_success` both ways, `_on_task_failure` up to the twin |
| `PlanRefused`, `PlanNeedsApproval`, `PlanAllowed` | the rest of `recover`, then `_apply_directive`, which may `advance` at once |

A transition the state machine refuses raises; the bus logs and drops the exception.
The model keeps what had been written before the raise and drops the rest
(`Moved`, and the `CanTransition` conditions around later writes).

**Abstractions.** Agents and the Failure Twin are nondeterministic within what their
results can say. Without the fault `free_report`, a purchase agent reports what the
gateway answered it, as the deterministic agents do; with it, an agent that is a
language model reports anything. The offer of an approval stands for the gateway's
action key (mission, capability, supplier, units, amount). A plan the policy denies
has the effect of an ABORT. Which offers need a human is the constant `Governed`.

**Faults** are opt-in, per run: `late_decision`, `sweep`, `free_report`,
`any_checkpoint` (`resume` with a `checkpoint_id` of its choice). Interruptions,
resumes and suspensions of the twin are bounded by `MaxInterrupts`, `MaxResumes`,
`MaxSuspensions`; they are the only bounds, everything else is finite by the code's
own attempt budget.

**Fairness** (`FairSpec`): weak fairness of the worker taking events, of an awaited
agent ending, and of the awaited twin ending. The worker is a loop without exit that
survives every exception; agent and model calls have timeouts. Nothing is assumed of
operators: nobody has to start, decide, resume or reinstate. Runs without a temporal
property use `Spec`. Deadlock is not checked: a finished mission, and one nobody
starts, really stops.

**Properties.** `WaitingIsBacked` (WAITING_APPROVAL has an approval to be decided or
whose decision is on its way), `NeverFrozen` (with nothing left to do, the mission
ended or a human can act), `RecoveriesAccounted` (an attempt without `completed_at`
has a decision to come, and a mission that ended leaves none: true where nobody resumes
and nobody suspends the twin, see section 5), `DependencyOrder`,
`RunningIsHeld` (no claim outlives its execution), `CompletedStaysCompleted`,
`SafeHold` (a refusal handled leads to FAILED and nowhere else), `TerminalIsFinal`,
`EndsOrAsks` (liveness) and `KeepsPromises` (refinement, including the abstract
liveness; that COMPLETED means every task done is part of it).

### MissionDeployed

**Granularity.** An action is one access to Firestore or one publication, with the
computation up to the next. Each push of Pub/Sub is a request of its own, so handlers
of one mission run side by side. `pc[i]` is the place of handler `i`, `job[i]` its
locals: the copy of the mission it read first, the task it claimed, what it was told.

**State.** `mission` (status, version, pending approval), `tasks`, `approvals` are the
documents; `bus` is what Pub/Sub has not seen acknowledged, a set: any order.

| Action | Code |
|---|---|
| `Start`, `Decide` | the routes, up to their first write, and with the event they publish |
| `Deliver` | a push; the message stays when it will be delivered again |
| `SaveMission` | `save_mission`: the whole document, from the handler's copy |
| `UpdateMission` | `update_mission`: the transition checked on the copy, the version in the transaction; a refusal raises and ends the handler |
| `Require`, `SelectTask`, `ClaimTask` | `advance` and the start of `_run_task`; the claim is a transaction |
| `AgentSucceeds`, `AgentAsks`, `AgentFails`, `TaskCompleted`, `TaskWaiting`, `TaskFailed` | the rest of `_run_task` |
| `Recover`, `ApplyDirective`, `RetryTask`, `SaveRetry` | `recover` and `_apply_directive` |
| `OnApproval`, `Route`, `ResetTask`, `SaveReset` | `on_approval` |
| `Announce` | `publish`, which falls back to a queue nobody reads when the publisher raises |
| `Crash` | an instance dies; Pub/Sub delivers its message again |

`AfterSave` and `AfterUpdate` list, place by place, which statement follows which, so
that one action stands for all saves and one for all versioned updates.

**Hazards** are chosen at the start (`scenario`, one of `Scenarios`), so that each
property says which of them it bears. `MaxDuplicates` and `MaxCrashes` bound repeated
deliveries and deaths. Left out: interruption and resume, which are `MissionEngine`'s.

**Fairness**: Pub/Sub pushes what is not acknowledged (weak fairness of some push), and
a request under way goes on (weak fairness of each handler's steps), because every call
in it has a timeout. Nothing is assumed of operators, of the death of instances, or of
repetitions.

**Properties.** `ExclusiveRun` (one handler at a time runs the agent of a task),
`CompletedStaysCompleted`, `VersionGrows` (no save of an old copy undoes a versioned
update, where each event is delivered once, no instance dies and the operator answers what
the mission waits for: `Undisturbed`), `EndsOrAsks` and `KeepsPromises`, in the scenarios
each names.

### AgentGateway

A *call* is one execution of `AgentGateway.execute` for `purchase.execute`; its
`request` (the action's key, and the agent) is fixed from the start. `pc` is the
place between two accesses of the store or of the outside: `identity`, `policy`,
`approval`, `request`, `lookup`, `tool`, `answer`, `remember`, `audit`. `approvals` is
the approval collection, `ledger` the idempotency collection, `orders` what the
enterprise system has placed, by whom; `session` is an operator (or the sweep) inside
`decide`, after its check and before its save; `audited` the calls with an audit
record; `suspended` the agents the registry does not clear. `endorsed` is a history
variable: the actions of which a human has saved an approval, whatever was saved over it.

**Granularity.** Two configurations of the code differ in where a coroutine can be
interrupted, and `OneProcess` says which is meant. With the in-memory store no access
suspends: only the await of the enterprise system and of the remote armor do, so a
call that is between two of these (`Running`) is alone (`Turn`), and an operator acts
when nobody is (`LoopIsFree`). With the deployed store every access suspends and
instances share it: any step may follow any other. `Concurrent` says whether one call
may start while another is under way: parallel tool calls of a model, two tasks, an
interrupted execution and the resumed one.

| Action | Code |
|---|---|
| `Start` | a tool of an agent calls the gateway |
| `Identify` | `_validate_identity` and the capability check |
| `EvaluatePolicy` | the policy's decision on the amount |
| `CheckApproval`, `NothingCovers`, `RequestApproval` | the approval step: `find_granted` finds one (its status decides), or none and one is requested |
| `Lookup`, `Remember` | the idempotency guard |
| `PlaceOrder`, `RefuseOrder`, `LoseAnswer` | the tool call: the order is placed; the enterprise or the open breaker refuses; the await ends in an exception |
| `PassAnswer`, `SanitiseAnswer` | Model Armor's verdict on the answer |
| `Audit` | the audit record and the SUCCESS |
| `OpenApproval`, `SaveApproval` | `decide` and `expire_stale`, up to their check and from their save |
| `Suspend`, `Reinstate` | the registry |
| `Crash` | a deployed instance dies between two accesses |

An exception of the tool call leaves `execute` without a record of any kind:
`EnterpriseToolClient.call` returns None after a transport error below the breaker's
threshold (the gateway then fails on `call.ok`), and at the threshold it raises,
because it reads `exc` after its `except` block. The request it gave up may still be
on its way, hence the step `abandoned`, from which the order may yet be placed.

**Abstractions.** `ledger` keeps the keys, not the results: a replayed answer is
described as such. The policy is the purchase rule, between the two limits
`AutonomousMax` and `ApprovalMax`; the other rules of the chain deny, and are not
about purchases (`PolicyEngine` has them). That `AutonomousMax <= ApprovalMax` is
assumed: the defaults (5 000 and 25 000) satisfy it, and nothing in the code enforces it.
With the limits the
other way round the policy allows without a human what is above the ceiling.

**Properties.** `AtMostOnce`, `OrdersAreAuthorised` (the ceiling, the approval, and no
refusal), `OrdersWereEndorsed` (what remains of it over Firestore, where deciders
overlap: no governed order without a human's approval of that very action),
`OneQuestion`, `SuccessMeansOrdered`, `OrdersAreAudited`, `KeepsPurchases` (refinement).

### CircuitBreaker

The breaker's two dictionaries are `failures` (counted up to the threshold) and `age`
(ticks since `_opened_at`, up to the cooldown, or no entry). A call is two actions: up
to the request (`Admit`, `AdmitHalfOpen`; a refused call changes nothing) and after it
(`Succeed`, `FailByStatus`, `FailByTransport`, `Cancel`), so that calls overlap as they
do on the event loop. `Parallel` are the tools called while a call to them is under
way, `Outcomes` what can become of a request to each tool. `streak`, `openFor` and
`openedBy` are history variables: the run of failures as the outside saw it, the time
since the breaker opened, and how the request ended that opened it. `FairSpec` assumes that
time passes and that requests end, which the
client's timeout sees to; nobody has to call.

**Properties.** `OpenForCause`, `CooldownHonoured`, and what the code keeps of "a breaker
must protect, not imprison" (ADR-069): `OpenHasCooldown` (no stamp is missing but where an
error response opened the breaker) and `CoolsDown` (liveness: one that a transport failure
opened comes to let a probe through). An opening by an error
response is for good, see section 5.

### FleetStatus

A record of the registry holds what the code declares and what the fleet lives, and
whoever writes one of the two reads and saves the whole. A step is the code between two
accesses of the store; `SetStatus` is `set_status` up to its save, with the transition
checked on its own read, `Save` the save, whoever it is of.

| Action | Code |
|---|---|
| `RequireExecutable`, `MarkBusy` | `run_task` and `plan_recovery`, up to the execution |
| `Answer`, `Restore`, `Restoring`, `Readmit` | their end: `_restore_status`, and the readmission after a malfunction |
| `Suspend` | the route of that name |
| `Deploy`, `StartInstance`, `Bootstrap`, `Ready` | a new version of the declarations, and `bootstrap` in an instance that starts |
| `Crash` | an instance dies during an execution |

The hazards `races` (others act between a read and its save, as over Firestore),
`malfunction`, `crash` and `redeploy` are chosen at the start, as in `MissionDeployed`.
There is no fairness: every property is about steps or states at rest.

**Properties.** `SuspensionHolds`, `RefusedForCause` (an agent is refused because it is
suspended and not because another mission has it), `RestsReady` (when all is quiet the
next execution is let in), `DeclarationsLand`.

### PolicyEngine, FailureTwin and Sourcing

`PolicyEngine!Evaluate` is the chain of rules, first verdict taken.
`FailureTwin!FallbackPlan` is `_fallback`: safe hold for what is about authority, the
identical diagnosis that is not put to a human again, the preferred permitted supplier,
the retry, the escalation. `ModelPlans` are what `parse_recovery_plan` lets through.
Amounts and units are in hundreds.

`Sourcing` runs the chain: the supply agent probes the supplier, the risk agent
assesses, the planning task prices, the purchase goes through policy, approval and
idempotency to the enterprise. `context` is the mission's facts (supplier and amount),
`checkpoint` the copy a resume restores. Suppliers fail and recover and the purchasing
agent is suspended and readmitted at any moment. `pc` is how far the engine is with the
task at hand:

| Action | Code |
|---|---|
| `SupplyAnalysis`, `RiskAssessment`, `PurchasePlan` | the three agents, and `save_task` with COMPLETED; pc = "saved" |
| `Order`, `Remember`, `Replay`, `Confirm` | the gateway's tool call, the idempotency record, a purchase found there, the task saved |
| `Advance` | `save_mission` and the checkpoint of a completed task |
| `Refused`, `Outage`, `NotQuoted`, `PurchaseDenied`, `PurchaseRefused` | `_on_task_failure` up to the twin, for each thing the task can fail of |
| `AskForPurchase`, `Approve`, `Reject` | the purchase approval; `on_approval`, of purchases and recoveries |
| `Diagnose`, `OtherPlan`, `Govern` | the twin's plan, what replaces it when the twin fails, the policy on it |
| `Note`, `Hold` | the recovery saved with its `approval_id`; `_apply_directive` WAIT_APPROVAL |
| `Apply`, `Reset`, `Record` | `_apply`; `_apply_directive` RETRY_TASK up to `save_task`; its checkpoint |
| `Crash`, `Resume` | the runtime dies; `resume` |

The runtime dies (`MaxCrashes`) between any two writes the facts tell apart. The
handlers that stay one step (a failure's, the request for a purchase, an approval's, the
completion) start where the checkpoint equals the facts, so that dying inside of one is
dying before it or after it. `Resume` takes the facts back from the checkpoint and runs the
task again with its attempt unchanged: one left RUNNING is put back to PENDING, and one
left FAILED is claimed as it is (`mission_engine.py:178-182`, `:199-202`), its recovery
given up. `lapses` counts the deaths that tear two writes apart (`Torn`): an order the
enterprise has and idempotency does not, or a task saved as done whose result is in no
checkpoint. `troubled` keeps the suppliers that were ever down or that a task failed of.
Both are history: no action reads them.

A task runs once at a time, and the enterprise answers: lost and blocked answers are
`AgentGateway`'s, redeliveries `MissionDeployed`'s, the late decision on a question that
was given up `MissionEngine`'s. `FairSpec` is weak fairness of the engine's steps, nothing
of the operator or of the suppliers. The risk agent's verdict and `next_action` are in the
results and nothing reads them, which is why `RiskAssessment` changes no fact; the lead
time of the primary is checked by no agent either, so that `BestPermitted` asks for it only
of a supplier that a recovery chose.

**Properties.** `PaysThePrice`; `BuysOnce` (one order, and one more for each lapse);
`BestPermitted` (a chosen supplier is in time, and preferred to every permitted one that
never was in trouble, whatever was listed when); `AsksOnce` (ADR-026); and `Settles`
(liveness: suppliers that fail and recover for ever do not keep a mission busy for ever).

### Rollout

`pc` is the script's phase, `job` its arguments, version and what it read; `project`,
`latest`, `bundle` and `services` are the Google Cloud project, the image `:latest`
stands for, what each web image was built with, and each service, on Cloud Run and in
Terraform's state. Actions are the script's functions; `Mishap` is anything that goes
wrong outside of it, at most `MaxMishaps` times, `MaxRuns` bounds the runs, `Prepare` is
the operator doing what a failed run said. Initially the project is new, in any state
of preparation, or it is what the former version of the script left (`Inherited`).
Terraform, Cloud Run and Cloud Build are external: modelled from the script's comments,
`DEPLOYMENT.md:592-604`, ADR-042 to 049 and 054, and `cloud_run.tf`.

**Properties.** `ShipsTheBuild`, `NoDoomedBuild`, `RepairWorks`.

## 4. The runs

| Run | Situation | Checks |
|---|---|---|
| `Engine_nominal` | 3 tasks, 2 attempts, RETRY, USE_ALTERNATIVE_SUPPLIER, ESCALATE, ABORT, no operator interference | RecoveriesAccounted, EndsOrAsks, KeepsPromises |
| `Engine_resumes` | 2 tasks, an interruption, two resumes, the sweep | WaitingIsBacked, NeverFrozen, RunningIsHeld, TerminalIsFinal |
| `Engine_faults` | 2 tasks, RETRY, SWITCH_AGENT, WAIT_AND_REASSESS, late decisions, sweep, one interruption, resume, suspension | SafeHold, DependencyOrder, CompletedStaysCompleted |
| `Gateway_in_turn` | one process, 3 calls one after the other, amounts on both limits and above, two agents, suspensions | AtMostOnce, OrdersAreAudited, KeepsPurchases |
| `Gateway_parallel` | one process, 3 parallel calls, lost and flagged answers, expiry, suspensions, two operators | OrdersAreAuthorised, OneQuestion |
| `Gateway_deployed` | deployed, 3 concurrent calls, lost and flagged answers, expiry, crashes, two operators; amounts on and below the limits, two of them governed | SuccessMeansOrdered, OrdersWereEndorsed |
| `Breaker_cooldown` | a serial, a parallel and an ungated tool, 2 callers, threshold 3, cooldown of 2 ticks; gated tools succeed, answer with an error, fail in transport or are cancelled | OpenHasCooldown, OpenForCause, CoolsDown, CooldownHonoured |
| `Deployed_delivery` | 2 tasks, 2 instances, 2 attempts; repeated events, a governed purchase with failing agents, a lost event, an instance that dies | TypeOK, ExclusiveRun, CompletedStaysCompleted, VersionGrows, KeepsPromises, EndsOrAsks |
| `Fleet_shared` | a worker shared by two executions, the twin, an operator, two starting instances, two versions | RestsReady, DeclarationsLand, SuspensionHolds, RefusedForCause |
| `Sourcing_disrupted` | the demo's three suppliers, three missions, a death of the runtime between any two writes, suspensions, SUP-A and SUP-C failing and recovering at will | PaysThePrice, BuysOnce, BestPermitted, AsksOnce, Settles |
| `Rollout_retried` | up to four runs in the guide's six ways, two mishaps, a new or an inherited project | ShipsTheBuild, NoDoomedBuild, RepairWorks |
| `Deployed_repeated` | as `Deployed_delivery`, an event repeated while a task recovers | ExclusiveRun, which is violated (section 5) |

Every module's `TypeOK` is a theorem; a run checks `MissionDeployed`'s too. Why these
bounds:

* Engine: with three tasks a planner, a task in the middle and the buyer are distinct,
  which is every role of the four-task template; two tasks keep the planner and the
  buyer and make room for operator requests. Two attempts are the least that let a
  retry both happen and be refused. Two offers are the least for which a recovery can
  move the purchase across the authority boundary in both directions. One resume meets
  every other action once; two are needed to restore a state already restored.
* Gateway: three calls are a first one, one that overlaps or repeats it, and one after
  both. The amounts are on the autonomous limit, on the ceiling and above; in
  `Gateway_deployed` two are governed, so that an approval of one could be taken for one
  of the other. Two operators are the least that can decide at once.
* Breaker: two callers are the least that overlap; the threshold is the code's; a
  cooldown of two ticks has a beginning, a middle and an end.
* Deployed: two instances are the least that overlap, two tasks the least with an order.
  Two repetitions let one event come three times, or two events twice.
* Fleet: two executions of one agent are the least that share it; the twin's own is the
  third; two instances start under two versions.
* Sourcing: the catalogue is the one of the simulated enterprise. One mission is the
  demo's; a smaller one leaves time for the slow SUP-C, with SUP-B below the ceiling, so that
  a wrong choice between them would be bought; one is too large for SUP-A and for SUP-B and
  too urgent for SUP-C. The ceiling (170) lies below what SUP-B takes for the demo's volume
  (180), so that a switch can go past it. The primary and one alternative may be down:
  with a listing that may go unanswered, this meets a switch, a second one, and none left.
  One death meets every place; the theorems have any number.
* Rollout: four runs are what it takes for a failed one, one that is repaired, and a
  first and a second deployment; a second mishap can hit the repair of the first.

The scope of each property is part of the result. `NeverFrozen` and `RunningIsHeld`
are checked where the twin is available and every agent known, `SafeHold` and
`CompletedStaysCompleted` with at most one resume, `AtMostOnce` and `KeepsPurchases`
where calls do not overlap and every answer arrives unflagged, `OrdersAreAuthorised`
and `OneQuestion` in one process, `CoolsDown` for openings by a transport failure,
`CooldownHonoured` for
tools called by one at a time, `MissionDeployed`'s in the scenarios of `Delivery`,
`FleetStatus`'s in
those of `Shared` and under the hazards they name, `Sourcing`'s with the deterministic
twin (`BuysOnce` up to the lapses, `AsksOnce` for the fallback's own diagnoses other than of
authority), `RepairWorks` where no orphan exists: the code breaks them outside, as the next
section says.

## 5. Where code and documentation disagree

One disagreement is a run that TLC must find violated, `Deployed_repeated`. A repeated
delivery of the event a handler is still answering finds the task in FAILED, because that
handler saved it so before it asked the Failure Twin for a plan; `claim_task` accepts
PENDING and FAILED (`mission_engine.py:199-202`), so the agent runs a second time, next to
the recovery of its first run. The README promises that "a duplicated Pub/Sub delivery
never runs the same agent twice" (`README.md:338`), and `firestore_store.py:134` gives it
as the reason for the claim's transaction. Pub/Sub repeats what is not acknowledged within
60 seconds (`infrastructure/terraform/pubsub.tf:19`), less than an agent and a planning
may take.

The models show more of the kind. Each row is one change to a configuration of section 4:

| Change | What TLC then shows |
|---|---|
| `Engine_faults`, strategies `{"RETRY"}`, no faults, checking `NeverFrozen` | with the Failure Twin suspended, a task failure leaves the mission in RECOVERING: `recover` raises (`mission_engine.py:395-398`), the bus swallows it, and no approval awaits anybody (`README.md:339`) |
| `Engine_resumes` with the fault `late_decision` | a decision past the TTL marks the approval EXPIRED and tells nobody (`approval_service.py:104`); the sweep will not see it again (`WaitingIsBacked`) |
| `Engine_resumes` with every supplier `Governed`, checking `CompletedStaysCompleted` | a purchase approval of an execution that was given up, granted after another one completed the purchase, resets the completed task (`mission_engine.py:524-527`) |
| `Engine_resumes` with `WAIT_AND_REASSESS` among the strategies | the mission is parked AT_RISK and nothing reassesses it (`NeverFrozen`) |
| `Engine_resumes` with `SWITCH_AGENT` | a task reassigned to an unknown agent is claimed, then `registry.get` raises outside the `try`: RUNNING for ever (`RunningIsHeld`) |
| `Engine_resumes` with the fault `free_report` | a success report with `requires_approval` and no `approval_id` enters WAITING_APPROVAL (`WaitingIsBacked`): the guard is on the recovery path only |
| `Engine_resumes` with three resumes, checking `DependencyOrder` | a recovery approved late, for a task that a resume has run again and completed, puts that task back to PENDING (`mission_engine.py:419`) while the next one is under way or waits |
| `Engine_resumes` checking `RecoveriesAccounted` | a resume between an approval and its handling drops an approved recovery, IN_PROGRESS for ever |
| `Engine_nominal` with one suspension of the Failure Twin | `recover` saves the attempt IN_PROGRESS (`recovery_engine.py:100-114`), then the gateway refuses a twin suspended while it was planning (`:148`, `agent_gateway.py:286`): the attempt stays open, and there is no decision to wait for (`RecoveriesAccounted`) |
| `Gateway_in_turn` with the fault `flagged` | a placed purchase whose answer the armor blocks is not remembered (`agent_gateway.py:258`), and the next attempt orders again (`AtMostOnce`; `README.md:336`) |
| `Gateway_in_turn` with the fault `lost_answer` | a purchase placed but not answered has no audit record (`OrdersAreAudited`), and is placed again (`AtMostOnce`) |
| `Gateway_deployed` checking `AtMostOnce` or `OneQuestion` | overlapping calls both look the key up before either remembers it, or both ask a human |
| `Gateway_deployed` checking `OrdersAreAuthorised`, or that no save changes an approval that is no longer PENDING | two deciders both pass the check (`approval_service.py:93`) before either saves, and the later save wins: an approval already used to order is REJECTED, or a refused one APPROVED |
| `Gateway_parallel` checking that an answer APPROVAL_REQUIRED names a PENDING approval | `find_granted` returns an EXPIRED approval (`agent_gateway.py:185`): the purchase waits for it, and no other is ever requested |
| `Breaker_cooldown`, `CoolsDown` for every opening, or `OpenHasCooldown` without its exemption | three error responses, the enterprise's 503 of a supplier that is down, or one to the probe, open the breaker without a stamp (`enterprise_tools.py:140-141`): no cooldown ever closes it, against the comment at `:48` and `docs/ARCHITECTURE.md:2213` |
| `CooldownHonoured` for parallel tools too | a success under way when the breaker opens leaves the stamp of that opening behind, and the next one ends at once; nor does half-open stop further calls while its probe is under way |
| `Deployed_delivery` with a decision that overtakes the record that the mission waits for it, or an approval event delivered twice | a second handler resets a task the first one has already run on (`ExclusiveRun`, `CompletedStaysCompleted`) |
| `Deployed_delivery` with the scenario `{"crash", "governed"}` and two crashes | an instance dies after it recorded that the mission waits, another while it handles the grant, after it put the task back to PENDING: both messages come again, and the grant's second handler resets the task that the other message's handler is running, or has completed (`ExclusiveRun`, `CompletedStaysCompleted`) |
| `Deployed_delivery`, repeated events and a governed purchase, `EndsOrAsks` for every scenario | a save of a copy read earlier takes the mission out of WAITING_APPROVAL and its version back; the decision's handler then fails its version check, and nothing is left to drive the mission |
| `Deployed_delivery`, a crash, `EndsOrAsks` for every scenario | a `start` that dies between its save and its publication leaves EXECUTING a mission no event will reach; later, a claimed task stays RUNNING, and the redelivered event finds nothing to claim |
| `Deployed_delivery`, a lost event, `EndsOrAsks` for every scenario | the queue `publish` falls back to has no worker in the deployed configuration |
| `Fleet_shared` with `{"malfunction"}`, without `SuspensionHolds`' exemption for it | an agent suspended during a run in which it malfunctions is readmitted when the run ends (`runtime.py:193-194`), without the human `routes/agents.py:34` asks for |
| `Fleet_shared` with `{"races"}` | the second of two executions that start together is refused (`RefusedForCause`): BUSY to BUSY is a forbidden transition, raised as `InvalidState`, diagnosed as an authorisation failure and ended in a safe hold; so are two missions that plan a recovery at the same time, in one process too |
| `Fleet_shared` with `{"crash"}`, without `RestsReady`'s exemption | the Failure Twin whose execution died stays BUSY, nothing readmits it, and it is refused for ever; with `malfunction`, a worker may stay DEGRADED |
| `Fleet_shared` with `{"races", "redeploy"}` | the save of a starting instance puts back the status it read: a suspension in between is undone |
| `Sourcing_disrupted`, without `AsksOnce`'s exemption for authority | an identical failure of authority is put in safe hold before it is compared with the last diagnosis (`failure_twin/agent.py:65`, before `:87-91`), against ADR-026 (`docs/ARCHITECTURE.md:562-564`) and `README.md:342` |
| `Sourcing_disrupted` with `Mode = "hybrid"` | a model's plan may name a supplier the policy does not permit: `parse_recovery_plan` (`contracts.py:152-185`) never looks at `permitted`, and `recovery_engine.py:285-312` applies it (`BestPermitted`; `README.md:333`, `:337`); a plan without `unit_price` leaves the amount of the former supplier (`PaysThePrice`), and a model that switches when a task fails after its order was placed orders once more (`BuysOnce`) |
| `Sourcing_disrupted` checking `Len(orders) <= 1` | the runtime dies between the order and its record (`agent_gateway.py:229`, `:264`); the resumed task finds no key and orders again (`README.md:336`) |
| `Sourcing_disrupted` with two crashes, checking that a second order takes a death at "placed" | the runtime dies after the plan is saved as COMPLETED and before its checkpoint (`mission_engine.py:299-313`), and the amount is lost; it dies again when the purchase is remembered and its task not saved; the task that runs again must quote, the supplier is down, and the recovery orders from another one |
| `Sourcing_disrupted` checking `AsksOnce` for questions that were asked and not yet recorded | the runtime dies between the request for the approval of a recovery and its record: after a resume the same question is asked again |
| `Sourcing_disrupted` checking that no failure is given up before the operator has answered | the runtime dies with the question recorded and the mission not yet waiting: after a resume the same failure is aborted, because a recovery counts as approved once it has an `approval_id` (`recovery_engine.py:371`, `failure_twin/agent.py:87-91`) |
| `Rollout_retried`, `RepairWorks` without its exemption | a broken service whose deletion fails is dropped from Terraform's state all the same (`deploy.py:331-335`): every later run is answered 409 |
| `Rollout_retried`, `ShipsTheBuild` for `--skip-build` too | the services are deployed by the tag `:latest` (`deploy.py:488`), which ADR-049 says is "never the deployed reference" (`docs/ARCHITECTURE.md:1384-1388`): Terraform sees no change, and after a build that failed midway the services are a mix of two versions |

Two more, met while reading: a run without `--repair` may report success over a revision
that does not serve, and the web image of a first deployment carries neither the API's
address nor its key; and nothing reads the risk agent's REJECT. A death between the save of
a switch and its `recovery_selected` checkpoint makes `resume` restore the former supplier;
the model has it ("reset_done"), and it breaks none of the properties: the former supplier's
amount comes back with it.

In the rows that leave a mission stuck, an operator can still get it moving with `resume`,
if they notice; what is refuted is that the mission ends or offers a decision by itself.

## 6. What is proved

Each module's assumptions are named in the module and evaluated by TLC in every run of it.
`TypeOK` of `MissionEngine`, `MissionDeployed`, `AgentGateway`, `CircuitBreaker`,
`FleetStatus`, `Sourcing` and `Rollout` is a theorem, restricted by these assumptions only.

`MissionEngineProofs`, for every chain length, attempt budget, set of offers,
strategies and operator bounds, under `EngineAssumption` (a chain of at least one
task, at least one attempt, a purchase task only at the end of the chain, strategies
and faults among those of the code):

* `TypeCorrect`: `TypeOK` is inductive. Its arithmetic part is the attempt budget; its
  referential part, that every approval an event, a checkpoint, the mission or the
  worker refers to was requested.
* `TerminalFinal`: `Spec => TerminalIsFinal`. Per action: either the status goes
  through the transition table, or the action is enabled in a live mission only.
* `WaitingBacked`: `Orderly => (Spec => []WaitingIsBacked)`, where `Orderly` excludes
  late decisions and free reports and allows the sweep, resumes and any checkpoint. Not
  inductive alone. The strengthening adds: a worker that awaits an agent or the twin
  works for a mission that is neither finished nor waiting (`BusyIsLive`), the
  approval an agent was given is still awaited (`AskedIsAwaited`), and an expiry is
  known to the engine or on its way (`ExpiryIsHeard`). The two faults it excludes are
  those of section 5.
* `ClaimsAreHeld`: `RunningIsHeld`, where no plan moves a task to another agent, under
  every fault and any number of resumes. Inductive with `Stationary`: no plan, carried out
  or waiting for a human, names another agent.
* `NeverStuck`: `Orderly /\ Served => (Spec => []NeverFrozen)`, for any number of
  interruptions and of resumes, from any checkpoint. `Served`: the twin is not suspended and
  no plan waits or moves to another agent. A resume may take the mission out of
  WAITING_APPROVAL with an approval still undecided; the strengthening (`GoingInv`) says what
  drives it then: an event, or the answer to a purchase (`Driven`), which is what a WAITING
  task waits for (`Backed`), because only the buyer asks (`Bought`); and the status fits what
  the worker awaits (`Phases`). That `advance` finds no task to run only if one is WAITING
  takes the first task not done (`FirstUnfinished`).

`MissionTurnProofs`, about a mission nobody resumes and whose agents report what they were
answered (`Unresumed`): with any chain, offers, strategies, interruptions and suspensions,
and with late decisions and the sweep. The strengthening (`TurnInv`) is that one thing
drives it: an event, an agent, the twin or a human, or the mission is parked (`OneTurn`).
From that, every approval that is not granted is the one at hand or has failed the mission
(`OneApproval`, `AskedForIt`); every task but the one at hand is PENDING or COMPLETED, in
the order of the chain (`OneTask`); a claim is held or is for an unknown agent (`Claims`);
and a recovery in progress is the one the mission waits for, or that of a refused twin,
whose mission is parked in RECOVERING (`OneRecovery`).

* `RefusalsAreFinal`: `SafeHold`. `TasksInOrder`: `DependencyOrder`. `DoneIsDone`:
  `CompletedStaysCompleted`.
* `RecoveriesAreClosed`: `RecoveriesAccounted`, where no decision comes late and the twin is
  not suspended (`NoneRefused`). It needs `WaitingBacked`'s invariant too.
* `EngineKeepsPromises`: the safety part of `KeepsPromises`. The engine's initial states are
  `MissionLifecycle`'s, and every step is one of its steps or leaves its variables alone.

What `resume` adds is a second driver, and `TurnInv` is false of it. With resumes these
properties hold up to a number of them (`SafeHold` and `CompletedStaysCompleted` for one,
`DependencyOrder` for two) and are model-checked; section 5 has those that fail.

`MissionDeployedProofs`, for any number of handlers, tasks, attempts, repetitions and deaths:

* `DeployedTypes`: `TypeOK`, in every scenario. The strengthening (`TypeInv`) types the
  locals of a handler by its place: the task it claimed, the approval its message is about.
* `OneRunAtATime` and `DoneForGood`: `ExclusiveRun` and `CompletedStaysCompleted` in two
  families of scenarios, whose union this module calls `Orderly`. In the first
  (`Unretried`) no agent fails: messages are repeated and, where no purchase needs an
  approval, instances die. In the second
  (`Undisturbed`) agents fail and are retried, purchases are governed, events get lost, and
  each message is handled once.
* `SavesAreCurrent`: `VersionGrows`.
* `DeployedKeepsPromises`: the safety part of `KeepsPromises`, whose scenarios are `Promised`.

Two invariants, because two different things keep handlers apart. In the first family
(`OnceInv`) it is `claim_task`: only the one handler that took the task to RUNNING runs and
reports, the only approval is that of the last task, whose task waits until its one answer
is handled. In the second (`DrivenInv`) it is the events: one handler, or one message, or
the operator drives the mission, and the driver's copies are what the store holds
(`Driver`).

`AgentGatewayProofs`, for every set of calls, actions, agents and operators, every
price list and every pair of limits, under `GatewayAssumption`:

* `GatewayTypes`: `TypeOK`, in both configurations, under every fault.
* `AtMostOneOrder`: `InTurn => (Spec => []AtMostOnce)`, in both configurations.
  `InTurn` is no overlap, no lost or flagged answer, no crash. The strengthening
  (`TurnInv`): at most one call is under way, an order without an idempotency record
  is that of the call that is about to remember it, and a call that is past its
  lookup found no record.
* `OrdersAuthorised`, `AskedOnce`: `OrdersAreAuthorised` and `OneQuestion` in one
  process, whatever overlaps and fails. The strengthening (`ProcessInv`): a call past
  the approval step has the authority it needs, nobody decides while a call is between two
  suspensions, and an operator
  about to save holds an approval that is still PENDING.
* `SuccessIsTrue`: `SuccessMeansOrdered`, in both configurations, under every overlap and
  every fault, crashes included. The strengthening (`SuccessInv`): a call past the tool,
  and every record of idempotency, has its order.
* `OrdersLeaveATrace`: `OrdersAreAudited` in both configurations, where every request is
  answered and no instance dies (`Answering`); flagged answers, expiries and suspensions
  are allowed.
* `OrdersHadEndorsement`: `OrdersWereEndorsed` in both configurations, under every overlap
  of calls and deciders and every fault. The strengthening (`EndorsedInv`): an approval
  that reads APPROVED was endorsed, and a call that has passed the approval step keeps its
  endorsement, even if the approval it read has been saved over since.
* `ImplementsPurchasing`: `OneProcess /\ InTurn => (Spec => KeepsPurchases)`: every
  step is a step of `Purchasing` or a stutter.

`CircuitBreakerProofs`, for every set of tools and callers, every threshold and
cooldown:

* `BreakerTypes`, `OpensForCause`, `HalfOpenIsAProbe`: `TypeOK`, `OpenForCause` and
  `ReopensAtOnce` (which is proved only), without restriction. The strengthening
  (`CountInv`): the counter is the run of failures, or one below a run that opened the
  breaker.
* `OpenKnowsItsCooldown`: `OpenHasCooldown`, without restriction; inductive by itself.
* `CooldownIsHonoured`: `CooldownHonoured` for tools called by one at a time, however
  they fail. The strengthening (`StampInv`): whoever awaits such a tool found its
  breaker closed, and a stamp belongs to the opening under way.

`FleetStatusProofs`, for any number of agents, executions, operators, starting instances
and versions: `FleetTypes`, and each of the module's properties under every scenario its
statement allows.

* `SuspensionsHold`: `SuspensionHolds`. Where writers do not overlap (`Calm`), at most one of
  them holds a copy of a record (`Alone`), and that copy is the record it is about to write
  over (`CalmInv`).
* `FleetRestsReady`: `RestsReady`; `DeclarationsDoLand`: `DeclarationsLand`;
  `RefusalsHaveCause`: `RefusedForCause`. Their invariant (`TidyInv`) says what a process
  carries at each place (`Carried`), that what it read still is where nobody comes between
  (`Fresh`), and that for every agent left DEGRADED, and for the twin left BUSY, somebody is
  on the way to mend or release it (`Mends`, `Releases`): a status that stays behind needs
  somebody who died, or a start that overlaps.

The rules of `PolicyEngine`, as a function, have two theorems, in `SourcingProofs`, from
`AutonomousMax <= ApprovalMax`: `CostlierIsStricter` (a larger amount never gets a milder
verdict) and `AutonomyIsBounded` (what is allowed without a human stays below the limit).

`SourcingProofs`, for every catalogue of suppliers, mission, limits, number of attempts
and crashes:

* `SourcingTypes`: `TypeOK`.
* `AmountsMatch`, `ChoosesTheBest`: `PaysThePrice` and `BestPermitted` with the
  deterministic twin. The strengthening (`Grounds`): the facts, the checkpoint, every plan
  and every order pair a supplier with its own price, and a supplier that is not the
  primary was chosen, permitted and preferred to all but the troubled (`FactsInv`); and
  whoever is down, or is being recovered from, is among these (`TroubleInv`). What was
  preferred once stays so, because `troubled` only grows. That the preferred supplier is
  one (`BestIsOne`) takes a minimum over the catalogue's order.
* `OnePurchase`: `BuysOnce` with the deterministic twin. The strengthening (`BuyInv`): every
  order beyond what is remembered, or about to be, has cost a lapse, and so has a lost
  amount (`Counted`); while no amount is lost, what the checkpoint would buy is bought for
  good, and whatever befalls its task before it is recorded only an operator can bring it
  back, to the same offer (`Committed`); and a mission at its end has it (`Delivered`).
* `NoSecondQuestion`: `AsksOnce`, that is, what the fallback says of a dependency: plans are
  made in one place and put to the operator in one (`WhoGoverns`), and a diagnosis already
  recorded with a question makes the plan an abort (`GivesUp`). Failures of authority and the
  words of a model or of a replaced plan are exempt.

`RolloutProofs`: `RolloutTypes`, `DeploysWhatItBuilt`,
`BuildsCanSucceed`, `RepairDeploys`, for `ShipsTheBuild`, `NoDoomedBuild` and
`RepairWorks`, with any number of runs and mishaps. The invariant (`Inv`): phases come in
order, what a phase needs was checked, `:latest` is what this run built once it has built,
what a run reports it did, and a repairing run left no broken service it knew of.

Only model-checked: liveness (`EndsOrAsks`, `CoolsDown`, `Settles`, the fair part of
both `KeepsPromises`), which like ENABLED is out of the prover's reach; the engine's
`SafeHold`, `DependencyOrder`, `CompletedStaysCompleted` and promises in a mission that is
resumed; and `MissionDeployed`'s `ExclusiveRun` and `CompletedStaysCompleted` where an
instance dies and the purchase is governed, which hold for one death and not for two. No
module uses RECURSIVE; nothing here is computed by recursion over
data, and no induction over data is claimed.

## 7. What is not modelled

The status "partly" or "not_modelled" of a component in `PROJECT.json` says why. In
short:

* audit, metrics, traces and alerting are written and never read by what drives a mission,
  but for the audit of an order, which `AgentGateway` has; the chain of `previous_event_id`
  is checked by nobody, in the code neither;
* the memory's compaction changes what an agent is told, and agents' answers are already
  any answer;
* the UI and the remaining scripts and infrastructure keep no state the behaviour of a
  mission depends on;
* of the gateway, the reads, which are not idempotent by design, and agents as deciders of
  approvals;
* of the hybrid mode, the free answers of the operational agents; those of the twin are in
  `Sourcing`, those of all agents in `MissionEngine`'s `free_report`;
* interruption and resume over Firestore; in `Sourcing`, the strategies `SWITCH_AGENT` and
  `SWITCH_DATA_SOURCE`, a resume from a chosen checkpoint and lost answers, which
  `MissionEngine` and `AgentGateway` have.

## 8. Plan

Done: the engine in one process and deployed, the gateway, the breaker, the fleet, the
policy rules, the Failure Twin, the sourcing mission, the deployment script. Left:

1. Interruption and resume over Firestore, next to `MissionDeployed`'s hazards.
2. The engine's `SafeHold` and `CompletedStaysCompleted` in a mission resumed once, from an
   invariant of two drivers.
3. The memory's compaction, for what an agent may no longer know.
