----------------------------- MODULE FleetStatus ----------------------------
(***************************************************************************)
(* The agent registry: the records of the fleet, and who writes them.      *)
(*                                                                         *)
(* A record holds what the code declares (capabilities, authority, ...) and *)
(* what the fleet lives (the status), and every writer reads the whole     *)
(* record and saves the whole record: an execution, which marks its agent  *)
(* BUSY and restores it; an operator, who suspends; a starting instance,   *)
(* whose bootstrap reconciles the declarations.  Agents are shared by all  *)
(* missions, so executions of one agent overlap.                           *)
(***************************************************************************)
EXTENDS Naturals

CONSTANTS
  Agents, Twin,    \* the fleet, and the Failure Twin, which plans recoveries
  Runs, AgentOf,   \* executions that can be under way, and whose they are
  Desks,           \* operators
  Boots,           \* instances that can be starting
  Builds,          \* 0 .. n: the successive versions of the declarations
  Scenarios        \* sets of Hazards: which of them may happen together

(* "races": others act between the read and the save of a record, as they  *)
(*    do over Firestore (in one process no suspension lies between them);  *)
(* "malfunction": an execution fails by the fault of its agent;            *)
(* "crash": an instance dies during an execution;                          *)
(* "redeploy": a new version of the declarations is deployed.              *)
Hazards == {"races", "malfunction", "crash", "redeploy"}

ASSUME FleetAssumption ==
  /\ Twin \in Agents
  /\ AgentOf \in [Runs -> Agents]
  /\ Runs \cap Desks = {} /\ Runs \cap Boots = {} /\ Desks \cap Boots = {}
  /\ Builds \subseteq Nat /\ 0 \in Builds
  /\ Scenarios \subseteq SUBSET Hazards

VARIABLES
  scenario,   \* the hazards of this behaviour
  records,    \* /agents/{id}: status, and the version of what is declared
  build,      \* the version deployed
  booted,     \* the latest version an instance has finished to register
  pc, job     \* each process: where it is, and its locals

vars == <<scenario, records, build, booted, pc, job>>

(***************************************************************************)
(* Data                                                                    *)
(***************************************************************************)

AgentStatus == {"REGISTERED", "VALIDATED", "APPROVED", "AVAILABLE", "BUSY", "DEGRADED",
                "FAILED", "RECOVERING", "SUSPENDED", "REVOKED"}

AgentTransitions ==
  [REGISTERED |-> {"VALIDATED", "REVOKED"},
   VALIDATED  |-> {"APPROVED", "SUSPENDED", "REVOKED"},
   APPROVED   |-> {"AVAILABLE", "SUSPENDED", "REVOKED"},
   AVAILABLE  |-> {"BUSY", "DEGRADED", "FAILED", "SUSPENDED", "REVOKED"},
   BUSY       |-> {"AVAILABLE", "DEGRADED", "FAILED", "SUSPENDED"},
   DEGRADED   |-> {"RECOVERING", "AVAILABLE", "FAILED"},
   FAILED     |-> {"RECOVERING", "SUSPENDED", "REVOKED"},
   RECOVERING |-> {"AVAILABLE", "FAILED", "SUSPENDED"},
   SUSPENDED  |-> {"AVAILABLE", "REVOKED"},
   REVOKED    |-> {}]

(* Mutant: no way back from DEGRADED but through RECOVERING.               *)
StrictChange(from, to) == to \in AgentTransitions[from] /\ from # "DEGRADED"

CanChange(from, to) == to \in AgentTransitions[from]

(* Mutant: an agent executes for one mission at a time.                    *)
ExecutesIfFree(status) == status \in {"AVAILABLE", "APPROVED"}

CanExecute(status) == status \in {"AVAILABLE", "APPROVED", "BUSY"}

Record == [status : AgentStatus, declared : Builds]

Processes == Runs \cup Desks \cup Boots

(* The agent a process works on, the record it is about to save, where it  *)
(* goes from there; of an execution, whether the agent malfunctioned; of a *)
(* starting instance, its version and the agents left to register.         *)
Job == [agent : Agents, copy : Record, then : {"idle", "running", "readmit", "boot"},
        failed : BOOLEAN, seed : Builds, todo : SUBSET Agents]

NoJob == [agent |-> Twin, copy |-> [status |-> "AVAILABLE", declared |-> 0],
          then |-> "idle", failed |-> FALSE, seed |-> 0, todo |-> {}]

Places == {"idle", "busy", "running", "restore", "restoring", "readmit", "refused",
           "boot", "save"}

(* The first start of the fleet has registered every agent.                *)
Init ==
  /\ scenario \in Scenarios
  /\ records = [a \in Agents |-> [status |-> "AVAILABLE", declared |-> 0]]
  /\ build = 0 /\ booted = 0
  /\ pc = [p \in Processes |-> "idle"]
  /\ job = [p \in Processes |-> NoJob]

(***************************************************************************)
(* Steps                                                                   *)
(***************************************************************************)

(* Where a process waits for something other than the registry.            *)
Away(p) == pc[p] \in {"idle", "running", "refused"}

Turn(p) == "races" \in scenario \/ \A q \in Processes \ {p} : Away(q)

Goto(p, place, j) ==
  /\ pc' = [pc EXCEPT ![p] = place]
  /\ job' = [job EXCEPT ![p] = IF place \in {"idle", "refused"} THEN NoJob ELSE j]

Unwritten == UNCHANGED <<scenario, records, build, booted>>

(* set_status, up to its save: the record is read again and the transition *)
(* checked.  A forbidden one raises, and leaves the caller where `raised`  *)
(* says; j are the caller's locals.                                        *)
SetStatus(p, j, target, next, raised) ==
  LET record == records[j.agent] IN
  /\ Turn(p)
  /\ IF CanChange(record.status, target)
       THEN Goto(p, "save", [j EXCEPT !.copy = [record EXCEPT !.status = target],
                                      !.then = next])
       ELSE Goto(p, raised, j)
  /\ Unwritten

Save(p) ==
  /\ pc[p] = "save" /\ Turn(p)
  /\ records' = [records EXCEPT ![job[p].agent] = job[p].copy]
  /\ Goto(p, job[p].then, job[p])
  /\ UNCHANGED <<scenario, build, booted>>

(* run_task and plan_recovery: an execution is let in, or refused.  The    *)
(* twin is always marked BUSY, another agent when it was AVAILABLE.        *)
RequireExecutable(r) ==
  LET a == AgentOf[r]
      j == [NoJob EXCEPT !.agent = a]
  IN  /\ pc[r] = "idle" /\ Turn(r)
      /\ \/ ~CanExecute(records[a].status) /\ Goto(r, "refused", j)
         \/ /\ CanExecute(records[a].status)
            /\ a = Twin \/ records[a].status = "AVAILABLE"
            /\ Goto(r, "busy", j)
         \/ /\ CanExecute(records[a].status)
            /\ a # Twin /\ records[a].status # "AVAILABLE"
            /\ Goto(r, "running", j)
      /\ Unwritten

MarkBusy(r) == pc[r] = "busy" /\ SetStatus(r, job[r], "BUSY", "running", "refused")

(* Only a failure of its own, not one it reports, indicts an agent; the    *)
(* twin is never indicted: what it cannot plan is escalated.               *)
Indicted(a) == IF "malfunction" \in scenario /\ a # Twin THEN BOOLEAN ELSE {FALSE}

Answer(r) ==
  /\ pc[r] = "running" /\ Turn(r)
  /\ \E failed \in Indicted(job[r].agent) :
       Goto(r, "restore", [job[r] EXCEPT !.failed = failed])
  /\ Unwritten

(* Mutant: the status is restored whatever it has become.                  *)
RestoresAlways(status) == TRUE

Restores(status) == status = "BUSY"

(* _restore_status: its own read; everything it raises is swallowed.       *)
Restore(r) ==
  /\ pc[r] = "restore" /\ Turn(r)
  /\ Goto(r, IF Restores(records[job[r].agent].status) THEN "restoring"
             ELSE IF job[r].failed THEN "readmit" ELSE "idle", job[r])
  /\ Unwritten

Restoring(r) ==
  /\ pc[r] = "restoring"
  /\ IF job[r].failed THEN SetStatus(r, job[r], "DEGRADED", "readmit", "idle")
                      ELSE SetStatus(r, job[r], "AVAILABLE", "idle", "idle")

(* After a malfunction: back to AVAILABLE, from wherever that is allowed.  *)
Readmit(r) == pc[r] = "readmit" /\ SetStatus(r, job[r], "AVAILABLE", "idle", "idle")

(* The engine has dealt with the refusal.                                  *)
Dismiss(r) == pc[r] = "refused" /\ Turn(r) /\ Goto(r, "idle", NoJob) /\ Unwritten

Crash(r) ==
  /\ "crash" \in scenario
  /\ pc[r] \in Places \ {"idle", "refused"} /\ Turn(r)
  /\ Goto(r, "idle", NoJob)
  /\ Unwritten

(* The suspend route, the only one an operator has.                        *)
Suspend(d, a) ==
  /\ pc[d] = "idle"
  /\ SetStatus(d, [NoJob EXCEPT !.agent = a], "SUSPENDED", "idle", "idle")

(* Unless anything may happen, no instance of the old version is starting. *)
Deploy ==
  /\ "redeploy" \in scenario /\ build + 1 \in Builds
  /\ "races" \in scenario \/ \A b \in Boots : pc[b] = "idle"
  /\ build' = build + 1
  /\ UNCHANGED <<scenario, records, booted, pc, job>>

(* An instance starts: autoscaling, or the new revision.                   *)
StartInstance(b) ==
  /\ "redeploy" \in scenario /\ pc[b] = "idle" /\ Turn(b)
  /\ Goto(b, "boot", [NoJob EXCEPT !.seed = build, !.todo = Agents])
  /\ Unwritten

(* Mutant: the stored record is returned untouched.                        *)
Untouched(record, seed) == record

Reconciled(record, seed) == [record EXCEPT !.declared = seed]

(* bootstrap: only a record whose declarations changed is saved.           *)
Bootstrap(b, a) ==
  LET record == Reconciled(records[a], job[b].seed)
      j == [NoJob EXCEPT !.agent = a, !.copy = record, !.then = "boot",
                         !.seed = job[b].seed, !.todo = job[b].todo \ {a}]
  IN  /\ pc[b] = "boot" /\ a \in job[b].todo /\ Turn(b)
      /\ Goto(b, IF record = records[a] THEN "boot" ELSE "save", j)
      /\ Unwritten

Ready(b) ==
  /\ pc[b] = "boot" /\ job[b].todo = {} /\ Turn(b)
  /\ booted' = job[b].seed
  /\ Goto(b, "idle", NoJob)
  /\ UNCHANGED <<scenario, records, build>>

Execution(r) ==
  \/ RequireExecutable(r) \/ MarkBusy(r) \/ Answer(r) \/ Restore(r) \/ Restoring(r)
  \/ Readmit(r) \/ Dismiss(r) \/ Save(r) \/ Crash(r)

Operator(d) == (\E a \in Agents : Suspend(d, a)) \/ Save(d)

Instance(b) == StartInstance(b) \/ (\E a \in Agents : Bootstrap(b, a)) \/ Ready(b) \/ Save(b)

Next ==
  \/ \E r \in Runs : Execution(r)
  \/ \E d \in Desks : Operator(d)
  \/ \E b \in Boots : Instance(b)
  \/ Deploy

Spec == Init /\ [][Next]_vars

(***************************************************************************)
(* Properties                                                              *)
(***************************************************************************)

(* Every record, in the registry or about to be saved, is well formed, and *)
(* the twin is never marked DEGRADED: nobody would plan recoveries.        *)
TypeOK ==
  /\ scenario \in Scenarios
  /\ records \in [Agents -> Record] /\ records[Twin].status # "DEGRADED"
  /\ build \in Builds /\ booted \in Builds
  /\ pc \in [Processes -> Places]
  /\ job \in [Processes -> Job]

AtRest == \A p \in Processes : pc[p] = "idle"

(* A suspended agent stays suspended: no execution that was under way, and *)
(* no instance that starts, readmits it.  Where agents do not malfunction  *)
(* and nobody comes between a read and a save.                             *)
SuspensionHolds ==
  [][scenario \cap {"races", "malfunction"} = {} =>
       \A a \in Agents : records[a].status = "SUSPENDED" => records'[a].status = "SUSPENDED"]_vars

Solo(a) == \A r, s \in Runs : AgentOf[r] = a /\ AgentOf[s] = a => r = s

(* An agent is shared: an execution is refused because the agent is        *)
(* suspended, and not because another mission's execution has it BUSY,     *)
(* restores it or has just made it fail.  In one process, as long as no    *)
(* execution died and the twin plans one recovery at a time.               *)
RefusedForCause ==
  [][\A r \in Runs :
       /\ scenario \cap {"races", "crash"} = {}
       /\ AgentOf[r] # Twin \/ Solo(Twin)
       /\ pc[r] # "refused" /\ pc'[r] = "refused"
       => records[AgentOf[r]].status = "SUSPENDED"]_vars

(* A crash leaves the status an execution would have restored: BUSY, which *)
(* stops the twin, or DEGRADED, which stops every agent.  A bootstrap that *)
(* overlaps an execution may put an old status back.                       *)
Exposed(a) ==
  \/ "crash" \in scenario /\ (a = Twin \/ "malfunction" \in scenario)
  \/ {"races", "redeploy"} \subseteq scenario

(* However executions overlapped, when all is quiet the next execution of  *)
(* an agent will be let in, unless the agent is suspended.                 *)
RestsReady ==
  AtRest => \A a \in Agents :
    \/ records[a].status \in {"SUSPENDED", "AVAILABLE"}
    \/ a # Twin /\ records[a].status = "BUSY"
    \/ Exposed(a)

(* When instances of the version deployed have started, the registry holds *)
(* its declarations, whoever saved a record meanwhile.                     *)
DeclarationsLand ==
  "races" \notin scenario /\ AtRest /\ booted = build =>
    \A a \in Agents : records[a].declared = build

=============================================================================
