-------------------------- MODULE FleetStatusProofs -------------------------
(***************************************************************************)
(* Proofs about FleetStatus, for every fleet, every number of executions,  *)
(* operators and starting instances, and every list of scenarios.          *)
(***************************************************************************)
EXTENDS FleetStatus, TLAPS

(* The twin is not indicted, so no record of it that is about to be saved  *)
(* says DEGRADED.                                                          *)
TwinIsSpared ==
  \A p \in Processes :
    job[p].agent = Twin => ~job[p].failed /\ job[p].copy.status # "DEGRADED"

FleetInv == TypeOK /\ TwinIsSpared

LEMMA NoJobIsJob == NoJob \in Job
BY FleetAssumption DEF NoJob, Job, Record, AgentStatus

(* A process that moves on with well-formed locals keeps the invariant.    *)
LEMMA GotoKeeps ==
  ASSUME FleetInv, Unwritten,
         NEW p \in Processes, NEW place \in Places, NEW j \in Job,
         j.agent = Twin => ~j.failed /\ j.copy.status # "DEGRADED",
         Goto(p, place, j)
  PROVE  FleetInv'
<1>1. NoJob \in Job /\ (NoJob.agent = Twin => ~NoJob.failed /\ NoJob.copy.status # "DEGRADED")
  BY NoJobIsJob DEF NoJob
<1>2. PICK k \in Job : /\ job' = [job EXCEPT ![p] = k]
                       /\ k.agent = Twin => ~k.failed /\ k.copy.status # "DEGRADED"
  BY <1>1 DEF Goto
<1>3. TypeOK'
  BY <1>2 DEF FleetInv, TypeOK, Unwritten, Goto
<1>4. TwinIsSpared'
  BY <1>2 DEF FleetInv, TypeOK, TwinIsSpared
<1>. QED BY <1>3, <1>4 DEF FleetInv

(* So does set_status, for every target but DEGRADED on the twin.          *)
LEMMA SetStatusKeeps ==
  ASSUME FleetInv, NEW p \in Processes, NEW j \in Job, NEW target \in AgentStatus,
         NEW next \in {"idle", "running", "readmit", "boot"}, NEW raised \in Places,
         j.agent = Twin => ~j.failed /\ j.copy.status # "DEGRADED",
         j.agent = Twin => target # "DEGRADED",
         SetStatus(p, j, target, next, raised)
  PROVE  FleetInv'
<1> DEFINE k == [j EXCEPT !.copy = [records[j.agent] EXCEPT !.status = target],
                          !.then = next]
<1>1. j.agent \in Agents /\ records[j.agent] \in Record
  BY DEF FleetInv, TypeOK, Job
<1>2. k \in Job /\ k.agent = j.agent /\ k.failed = j.failed /\ k.copy.status = target
  BY <1>1 DEF Job, Record
<1>3. CASE CanChange(records[j.agent].status, target)
  <2>1. Goto(p, "save", k) BY <1>3 DEF SetStatus
  <2>2. "save" \in Places BY DEF Places
  <2>. HIDE DEF k
  <2>. QED BY <2>1, <2>2, <1>2, GotoKeeps DEF SetStatus
<1>4. CASE ~CanChange(records[j.agent].status, target)
  <2>1. Goto(p, raised, j) BY <1>4 DEF SetStatus
  <2>. QED BY <2>1, GotoKeeps DEF SetStatus
<1>. QED BY <1>3, <1>4

LEMMA InitFleet == Init => FleetInv
<1> SUFFICES ASSUME Init PROVE FleetInv
  OBVIOUS
<1>1. NoJob \in Job BY NoJobIsJob
<1>2. TypeOK
  BY <1>1, FleetAssumption DEF Init, TypeOK, Record, AgentStatus, Places, NoJob
<1>3. TwinIsSpared
  BY DEF Init, TwinIsSpared, NoJob
<1>. QED BY <1>2, <1>3 DEF FleetInv

LEMMA SaveKeeps ==
  ASSUME FleetInv, NEW p \in Processes, Save(p) PROVE FleetInv'
<1>1. job[p] \in Job /\ job[p].agent \in Agents /\ job[p].copy \in Record
      /\ job[p].then \in Places
  BY DEF FleetInv, TypeOK, Job, Places
<1>2. NoJob \in Job /\ (NoJob.agent = Twin => ~NoJob.failed /\ NoJob.copy.status # "DEGRADED")
  BY NoJobIsJob DEF NoJob
<1>3. PICK k \in Job : /\ job' = [job EXCEPT ![p] = k]
                       /\ k.agent = Twin => ~k.failed /\ k.copy.status # "DEGRADED"
  BY <1>1, <1>2 DEF Save, Goto, FleetInv, TwinIsSpared
<1>4. records' \in [Agents -> Record] /\ records'[Twin].status # "DEGRADED"
  BY <1>1, FleetAssumption DEF Save, FleetInv, TypeOK, TwinIsSpared
<1>5. TypeOK'
  BY <1>1, <1>3, <1>4 DEF FleetInv, TypeOK, Save, Goto
<1>6. TwinIsSpared'
  BY <1>3 DEF FleetInv, TypeOK, TwinIsSpared
<1>. QED BY <1>5, <1>6 DEF FleetInv

LEMMA NextFleet == FleetInv /\ [Next]_vars => FleetInv'
<1> SUFFICES ASSUME FleetInv, [Next]_vars PROVE FleetInv'
  OBVIOUS
<1>1. CASE UNCHANGED vars
  BY <1>1 DEF vars, FleetInv, TypeOK, TwinIsSpared
<1>2. CASE Deploy
  BY <1>2 DEF Deploy, FleetInv, TypeOK, TwinIsSpared
<1>3. ASSUME NEW r \in Runs, Execution(r) PROVE FleetInv'
  <2>1. r \in Processes /\ job[r] \in Job /\ AgentOf[r] \in Agents
    BY FleetAssumption DEF Processes, FleetInv, TypeOK
  <2>2. job[r].agent = Twin => ~job[r].failed /\ job[r].copy.status # "DEGRADED"
    BY <2>1 DEF FleetInv, TwinIsSpared
  <2>3. CASE RequireExecutable(r)
    <3> DEFINE j == [NoJob EXCEPT !.agent = AgentOf[r]]
    <3>1. j \in Job /\ ~j.failed /\ j.copy.status # "DEGRADED"
      BY <2>1, NoJobIsJob DEF Job, NoJob
    <3>2. PICK place \in Places : Goto(r, place, j)
      BY <2>3 DEF RequireExecutable, Places
    <3>3. Unwritten
      BY <2>3 DEF RequireExecutable
    <3> HIDE DEF j
    <3>. QED BY <2>1, <3>1, <3>2, <3>3, GotoKeeps
  <2>4. CASE MarkBusy(r)
    <3>1. "BUSY" \in AgentStatus /\ "refused" \in Places BY DEF AgentStatus, Places
    <3>. QED BY <2>1, <2>2, <2>4, <3>1, SetStatusKeeps DEF MarkBusy
  <2>5. CASE Answer(r)
    <3>1. PICK failed \in Indicted(job[r].agent) :
            Goto(r, "restore", [job[r] EXCEPT !.failed = failed])
      BY <2>5 DEF Answer
    <3> DEFINE j == [job[r] EXCEPT !.failed = failed]
    <3>2. j \in Job /\ (j.agent = Twin => ~j.failed /\ j.copy.status # "DEGRADED")
      BY <2>1, <2>2, <3>1 DEF Job, Indicted
    <3>3. Goto(r, "restore", j) /\ "restore" \in Places
      BY <3>1 DEF Places
    <3>4. Unwritten
      BY <2>5 DEF Answer
    <3> HIDE DEF j
    <3>. QED BY <2>1, <3>2, <3>3, <3>4, GotoKeeps
  <2>6. CASE Restore(r)
    <3>1. PICK place \in Places : Goto(r, place, job[r])
      BY <2>6 DEF Restore, Places
    <3>2. Unwritten
      BY <2>6 DEF Restore
    <3>. QED BY <2>1, <2>2, <3>1, <3>2, GotoKeeps
  <2>7. CASE Restoring(r)
    <3>1. "DEGRADED" \in AgentStatus /\ "AVAILABLE" \in AgentStatus /\ "idle" \in Places
      BY DEF AgentStatus, Places
    <3>2. CASE job[r].failed
      <4>1. SetStatus(r, job[r], "DEGRADED", "readmit", "idle")
        BY <2>7, <3>2 DEF Restoring
      <4>2. job[r].agent # Twin
        BY <2>2, <3>2
      <4>. QED BY <2>1, <2>2, <3>1, <4>1, <4>2, SetStatusKeeps
    <3>3. CASE ~job[r].failed
      <4>1. SetStatus(r, job[r], "AVAILABLE", "idle", "idle")
        BY <2>7, <3>3 DEF Restoring
      <4>. QED BY <2>1, <2>2, <3>1, <4>1, SetStatusKeeps
    <3>. QED BY <3>2, <3>3
  <2>8. CASE Readmit(r)
    <3>1. "AVAILABLE" \in AgentStatus /\ "idle" \in Places BY DEF AgentStatus, Places
    <3>. QED BY <2>1, <2>2, <2>8, <3>1, SetStatusKeeps DEF Readmit
  <2>9. CASE Dismiss(r) \/ Crash(r)
    <3>1. "idle" \in Places /\ NoJob.copy.status # "DEGRADED" /\ ~NoJob.failed
      BY DEF Places, NoJob
    <3>2. Goto(r, "idle", NoJob) /\ Unwritten
      BY <2>9 DEF Dismiss, Crash
    <3>. QED BY <2>1, <3>1, <3>2, NoJobIsJob, GotoKeeps
  <2>10. CASE Save(r)
    BY <2>1, <2>10, SaveKeeps
  <2>. QED BY <1>3, <2>3, <2>4, <2>5, <2>6, <2>7, <2>8, <2>9, <2>10 DEF Execution
<1>4. ASSUME NEW d \in Desks, Operator(d) PROVE FleetInv'
  <2>1. d \in Processes
    BY DEF Processes
  <2>2. CASE \E a \in Agents : Suspend(d, a)
    <3>1. PICK a \in Agents : Suspend(d, a)
      BY <2>2
    <3> DEFINE j == [NoJob EXCEPT !.agent = a]
    <3>2. j \in Job /\ ~j.failed /\ j.copy.status # "DEGRADED"
      BY NoJobIsJob DEF Job, NoJob
    <3>3. SetStatus(d, j, "SUSPENDED", "idle", "idle")
      BY <3>1 DEF Suspend
    <3>4. "SUSPENDED" \in AgentStatus /\ "idle" \in Places BY DEF AgentStatus, Places
    <3> HIDE DEF j
    <3>. QED BY <2>1, <3>2, <3>3, <3>4, SetStatusKeeps
  <2>. QED BY <1>4, <2>1, <2>2, SaveKeeps DEF Operator
<1>5. ASSUME NEW b \in Boots, Instance(b) PROVE FleetInv'
  <2>1. b \in Processes /\ job[b] \in Job
    BY DEF Processes, FleetInv, TypeOK
  <2>2. CASE StartInstance(b)
    <3> DEFINE j == [NoJob EXCEPT !.seed = build, !.todo = Agents]
    <3>1. j \in Job /\ ~j.failed /\ j.copy.status # "DEGRADED"
      BY NoJobIsJob DEF Job, NoJob, FleetInv, TypeOK
    <3>2. Goto(b, "boot", j) /\ "boot" \in Places /\ Unwritten
      BY <2>2 DEF StartInstance, Places
    <3> HIDE DEF j
    <3>. QED BY <2>1, <3>1, <3>2, GotoKeeps
  <2>3. CASE \E a \in Agents : Bootstrap(b, a)
    <3>1. PICK a \in Agents : Bootstrap(b, a)
      BY <2>3
    <3> DEFINE record == Reconciled(records[a], job[b].seed)
               j == [NoJob EXCEPT !.agent = a, !.copy = record, !.then = "boot",
                                  !.seed = job[b].seed, !.todo = job[b].todo \ {a}]
    <3>2. records[a] \in Record /\ job[b].seed \in Builds /\ job[b].todo \subseteq Agents
      BY <2>1 DEF FleetInv, TypeOK, Job
    <3>3. record \in Record /\ record.status = records[a].status
      BY <3>2 DEF Reconciled, Record
    <3>4. j.agent = Twin => j.copy.status # "DEGRADED"
      BY <3>3 DEF NoJob, FleetInv, TypeOK
    <3>5. j \in Job /\ ~j.failed
      BY <3>2, <3>3, NoJobIsJob DEF Job, NoJob
    <3>6. PICK place \in Places : Goto(b, place, j)
      BY <3>1 DEF Bootstrap, Places
    <3>7. Unwritten
      BY <3>1 DEF Bootstrap
    <3> HIDE DEF j
    <3>. QED BY <2>1, <3>4, <3>5, <3>6, <3>7, GotoKeeps
  <2>4. CASE Ready(b)
    <3>1. NoJob.copy.status # "DEGRADED" /\ ~NoJob.failed
      BY DEF NoJob
    <3>2. job[b].seed \in Builds
      BY <2>1 DEF Job
    <3>3. TypeOK'
      BY <2>1, <2>4, <3>2, NoJobIsJob DEF Ready, Goto, FleetInv, TypeOK, Places
    <3>4. TwinIsSpared'
      BY <2>1, <2>4, <3>1 DEF Ready, Goto, FleetInv, TypeOK, TwinIsSpared
    <3>. QED BY <3>3, <3>4 DEF FleetInv
  <2>. QED BY <1>5, <2>1, <2>2, <2>3, <2>4, SaveKeeps DEF Instance
<1>. QED BY <1>1, <1>2, <1>3, <1>4, <1>5 DEF Next

(* The records and the processes stay well formed, and the twin is never   *)
(* marked DEGRADED.                                                        *)
THEOREM FleetTypes == Spec => []TypeOK
<1>1. Spec => []FleetInv
  BY InitFleet, NextFleet, PTL DEF Spec
<1>2. FleetInv => TypeOK
  BY DEF FleetInv
<1>. QED BY <1>1, <1>2, PTL

(***************************************************************************)
(* A suspended agent stays suspended                                       *)
(***************************************************************************)

Calm == scenario \cap {"races", "malfunction"} = {}

(* Only one process is between two accesses of the registry; nobody is     *)
(* about to readmit an agent; and who restores a status, or saves a        *)
(* record, does so from what the registry still holds.                     *)
Alone == \A p, q \in Processes : ~Away(p) /\ ~Away(q) => p = q

Blameless(p) == ~job[p].failed /\ job[p].then # "readmit" /\ pc[p] # "readmit"

UpToDate(p) ==
  /\ pc[p] = "restoring" => records[job[p].agent].status = "BUSY"
  /\ pc[p] = "save" =>
       (records[job[p].agent].status = "SUSPENDED" => job[p].copy.status = "SUSPENDED")

CalmInv ==
  FleetInv /\ (Calm => Alone /\ \A p \in Processes : Blameless(p) /\ UpToDate(p))

LEMMA CalmGoto ==
  ASSUME CalmInv, Calm, Unwritten,
         NEW p \in Processes, NEW place \in Places, NEW j \in Job,
         Turn(p), Goto(p, place, j),
         ~j.failed, j.then # "readmit", place # "readmit",
         place = "restoring" => records[j.agent].status = "BUSY",
         place = "save" =>
           (records[j.agent].status = "SUSPENDED" => j.copy.status = "SUSPENDED")
  PROVE  Alone' /\ \A q \in Processes : (Blameless(q) /\ UpToDate(q))'
<1>1. \A q \in Processes \ {p} : Away(q) /\ Away(q)'
  BY DEF Turn, Calm, Away, Goto, CalmInv, FleetInv, TypeOK
<1>2. Alone'
  BY <1>1 DEF Alone
<1>3. \A q \in Processes \ {p} : (Blameless(q) /\ UpToDate(q))'
  <2>1. \A q \in Processes \ {p} : pc'[q] = pc[q] /\ job'[q] = job[q]
    BY DEF Goto, CalmInv, FleetInv, TypeOK
  <2>. QED BY <2>1 DEF CalmInv, Unwritten, Blameless, UpToDate
<1>4. (Blameless(p) /\ UpToDate(p))'
  <2>1. pc'[p] = place /\ job'[p] = IF place \in {"idle", "refused"} THEN NoJob ELSE j
    BY DEF Goto, CalmInv, FleetInv, TypeOK
  <2>2. ~NoJob.failed /\ NoJob.then # "readmit"
    BY DEF NoJob
  <2>. QED BY <2>1, <2>2 DEF Blameless, UpToDate, Unwritten
<1>. QED BY <1>2, <1>3, <1>4

LEMMA CalmSetStatus ==
  ASSUME CalmInv, Calm, NEW p \in Processes, NEW j \in Job,
         NEW target \in {"BUSY", "AVAILABLE", "SUSPENDED"},
         NEW next \in {"idle", "running", "boot"}, NEW raised \in {"idle", "refused"},
         ~j.failed, j.then # "readmit",
         target = "AVAILABLE" => records[j.agent].status # "SUSPENDED",
         SetStatus(p, j, target, next, raised)
  PROVE  Alone' /\ \A q \in Processes : (Blameless(q) /\ UpToDate(q))'
<1> DEFINE k == [j EXCEPT !.copy = [records[j.agent] EXCEPT !.status = target],
                          !.then = next]
<1>1. j.agent \in Agents /\ records[j.agent] \in Record
  BY DEF CalmInv, FleetInv, TypeOK, Job
<1>2. k \in Job /\ k.agent = j.agent /\ ~k.failed /\ k.copy.status = target
      /\ k.then = next
  <2>1. target \in AgentStatus BY DEF AgentStatus
  <2>. QED BY <1>1, <2>1 DEF Job, Record
<1>3. CASE CanChange(records[j.agent].status, target)
  <2>1. Goto(p, "save", k) /\ Turn(p) /\ Unwritten BY <1>3 DEF SetStatus
  <2>2. "save" \in Places /\ k.then # "readmit" BY <1>2 DEF Places
  <2>3. records[j.agent].status = "SUSPENDED" => k.copy.status = "SUSPENDED"
    <3>1. AgentTransitions["SUSPENDED"] = {"AVAILABLE", "REVOKED"}
      BY DEF AgentTransitions
    <3>. HIDE DEF k
    <3>. QED BY <1>2, <1>3, <3>1 DEF CanChange
  <2>. HIDE DEF k
  <2>. QED BY <2>1, <2>2, <2>3, <1>2, CalmGoto
<1>4. CASE ~CanChange(records[j.agent].status, target)
  <2>1. Goto(p, raised, j) /\ Turn(p) /\ Unwritten BY <1>4 DEF SetStatus
  <2>2. raised \in Places BY DEF Places
  <2>. QED BY <2>1, <2>2, CalmGoto
<1>. QED BY <1>3, <1>4

LEMMA CalmSave ==
  ASSUME CalmInv, Calm, NEW p \in Processes, Save(p)
  PROVE  /\ Alone' /\ \A q \in Processes : (Blameless(q) /\ UpToDate(q))'
         /\ \A a \in Agents :
              records[a].status = "SUSPENDED" => records'[a].status = "SUSPENDED"
<1>1. \A q \in Processes \ {p} : Away(q) /\ pc'[q] = pc[q] /\ job'[q] = job[q]
  BY DEF Save, Turn, Calm, Goto, CalmInv, FleetInv, TypeOK
<1>2. Alone' /\ \A q \in Processes \ {p} : (Blameless(q) /\ UpToDate(q))'
  BY <1>1 DEF Alone, Away, CalmInv, Blameless, UpToDate
<1>3. pc'[p] = job[p].then /\ job'[p] = IF pc'[p] \in {"idle", "refused"} THEN NoJob ELSE job[p]
  BY DEF Save, Goto, CalmInv, FleetInv, TypeOK
<1>4. job[p].then \in {"idle", "running", "boot"} /\ ~job[p].failed
  BY DEF CalmInv, Blameless, FleetInv, TypeOK, Job
<1>5. (Blameless(p) /\ UpToDate(p))'
  BY <1>3, <1>4 DEF Blameless, UpToDate, NoJob
<1>6. ASSUME NEW a \in Agents, records[a].status = "SUSPENDED"
      PROVE  records'[a].status = "SUSPENDED"
  <2>1. job[p].agent \in Agents /\ records' = [records EXCEPT ![job[p].agent] = job[p].copy]
    BY DEF Save, CalmInv, FleetInv, TypeOK, Job
  <2>2. a = job[p].agent => job[p].copy.status = "SUSPENDED"
    BY <1>6 DEF Save, CalmInv, UpToDate
  <2>. QED BY <1>6, <2>1, <2>2 DEF CalmInv, FleetInv, TypeOK
<1>. QED BY <1>2, <1>5, <1>6

Kept == /\ Alone' /\ \A q \in Processes : (Blameless(q) /\ UpToDate(q))'
        /\ \A a \in Agents :
             records[a].status = "SUSPENDED" => records'[a].status = "SUSPENDED"

LEMMA CalmExecution ==
  ASSUME CalmInv, Calm, NEW r \in Runs, Execution(r) PROVE Kept
<1>1. r \in Processes /\ job[r] \in Job /\ AgentOf[r] \in Agents /\ NoJob \in Job
  BY FleetAssumption, NoJobIsJob DEF Processes, CalmInv, FleetInv, TypeOK
<1>2. ~job[r].failed /\ job[r].then # "readmit" /\ pc[r] # "readmit"
  BY <1>1 DEF CalmInv, Blameless
<1>3. ~NoJob.failed /\ NoJob.then = "idle"
  BY DEF NoJob
<1>4. CASE Save(r)
  BY <1>1, <1>4, CalmSave DEF Kept
<1>5. CASE RequireExecutable(r)
  <2> DEFINE j == [NoJob EXCEPT !.agent = AgentOf[r]]
  <2>1. j \in Job /\ ~j.failed /\ j.then = "idle"
    BY <1>1 DEF Job, NoJob
  <2>2. PICK place \in {"refused", "busy", "running"} : Goto(r, place, j)
    BY <1>5 DEF RequireExecutable
  <2>3. place \in Places /\ Turn(r) /\ Unwritten
    BY <1>5 DEF RequireExecutable, Places
  <2> HIDE DEF j
  <2>. QED BY <1>1, <2>1, <2>2, <2>3, CalmGoto DEF Kept, Unwritten
<1>6. CASE MarkBusy(r)
  <2>1. SetStatus(r, job[r], "BUSY", "running", "refused") /\ Unwritten
    BY <1>6 DEF MarkBusy, SetStatus
  <2>. QED BY <1>1, <1>2, <2>1, CalmSetStatus DEF Kept, Unwritten
<1>7. CASE Answer(r)
  <2> DEFINE j == [job[r] EXCEPT !.failed = FALSE]
  <2>1. j \in Job /\ ~j.failed /\ j.then # "readmit"
    BY <1>1, <1>2 DEF Job
  <2>2. Goto(r, "restore", j) /\ Turn(r) /\ Unwritten
    BY <1>7 DEF Answer, Indicted, Calm
  <2>3. "restore" \in Places BY DEF Places
  <2> HIDE DEF j
  <2>. QED BY <1>1, <2>1, <2>2, <2>3, CalmGoto DEF Kept, Unwritten
<1>8. CASE Restore(r)
  <2>1. PICK place \in {"restoring", "idle"} :
          /\ Goto(r, place, job[r])
          /\ place = "restoring" => records[job[r].agent].status = "BUSY"
    BY <1>2, <1>8 DEF Restore, Restores
  <2>2. place \in Places /\ Turn(r) /\ Unwritten
    BY <1>8 DEF Restore, Places
  <2>. QED BY <1>1, <1>2, <2>1, <2>2, CalmGoto DEF Kept, Unwritten
<1>9. CASE Restoring(r)
  <2>1. SetStatus(r, job[r], "AVAILABLE", "idle", "idle") /\ Unwritten
    BY <1>2, <1>9 DEF Restoring, SetStatus
  <2>2. records[job[r].agent].status = "BUSY"
    BY <1>1, <1>9 DEF Restoring, CalmInv, UpToDate
  <2>. QED BY <1>1, <1>2, <2>1, <2>2, CalmSetStatus DEF Kept, Unwritten
<1>10. CASE Dismiss(r) \/ Crash(r)
  <2>1. Goto(r, "idle", NoJob) /\ Turn(r) /\ Unwritten
    BY <1>10 DEF Dismiss, Crash
  <2>2. "idle" \in Places BY DEF Places
  <2>. QED BY <1>1, <1>3, <2>1, <2>2, CalmGoto DEF Kept, Unwritten
<1>. QED BY <1>2, <1>4, <1>5, <1>6, <1>7, <1>8, <1>9, <1>10 DEF Execution, Readmit

LEMMA CalmOperator ==
  ASSUME CalmInv, Calm, NEW d \in Desks, Operator(d) PROVE Kept
<1>1. d \in Processes
  BY DEF Processes
<1>2. CASE Save(d)
  BY <1>1, <1>2, CalmSave DEF Kept
<1>3. ASSUME NEW a \in Agents, Suspend(d, a) PROVE Kept
  <2> DEFINE j == [NoJob EXCEPT !.agent = a]
  <2>1. j \in Job /\ ~j.failed /\ j.then = "idle"
    BY NoJobIsJob DEF Job, NoJob
  <2>2. SetStatus(d, j, "SUSPENDED", "idle", "idle")
    BY <1>3 DEF Suspend
  <2>3. Unwritten
    BY <1>3 DEF Suspend, SetStatus
  <2> HIDE DEF j
  <2>. QED BY <1>1, <2>1, <2>2, <2>3, CalmSetStatus DEF Kept, Unwritten
<1>. QED BY <1>2, <1>3 DEF Operator

LEMMA CalmInstance ==
  ASSUME CalmInv, Calm, NEW b \in Boots, Instance(b) PROVE Kept
<1>1. b \in Processes /\ job[b] \in Job /\ build \in Builds
  BY DEF Processes, CalmInv, FleetInv, TypeOK
<1>2. CASE Save(b)
  BY <1>1, <1>2, CalmSave DEF Kept
<1>3. CASE StartInstance(b)
  <2> DEFINE j == [NoJob EXCEPT !.seed = build, !.todo = Agents]
  <2>1. j \in Job /\ ~j.failed /\ j.then = "idle"
    BY <1>1, NoJobIsJob DEF Job, NoJob
  <2>2. Goto(b, "boot", j) /\ Turn(b) /\ Unwritten /\ "boot" \in Places
    BY <1>3 DEF StartInstance, Places
  <2> HIDE DEF j
  <2>. QED BY <1>1, <2>1, <2>2, CalmGoto DEF Kept, Unwritten
<1>4. ASSUME NEW a \in Agents, Bootstrap(b, a) PROVE Kept
  <2> DEFINE record == Reconciled(records[a], job[b].seed)
             j == [NoJob EXCEPT !.agent = a, !.copy = record, !.then = "boot",
                                !.seed = job[b].seed, !.todo = job[b].todo \ {a}]
  <2>1. records[a] \in Record /\ job[b].seed \in Builds /\ job[b].todo \subseteq Agents
    BY <1>1 DEF CalmInv, FleetInv, TypeOK, Job
  <2>2. record \in Record /\ record.status = records[a].status
    BY <2>1 DEF Reconciled, Record
  <2>3. j \in Job /\ ~j.failed /\ j.then = "boot"
    BY <2>1, <2>2, NoJobIsJob DEF Job, NoJob
  <2>4. j.agent = a /\ j.copy.status = records[a].status
    BY <2>2 DEF NoJob
  <2>5. PICK place \in {"boot", "save"} : Goto(b, place, j)
    BY <1>4 DEF Bootstrap
  <2>6. place \in Places /\ Turn(b) /\ Unwritten
    BY <1>4 DEF Bootstrap, Places
  <2> HIDE DEF j
  <2>. QED BY <1>1, <2>3, <2>4, <2>5, <2>6, CalmGoto DEF Kept, Unwritten
<1>5. CASE Ready(b)
  <2>1. \A q \in Processes \ {b} : Away(q) /\ pc'[q] = pc[q] /\ job'[q] = job[q]
    BY <1>1, <1>5 DEF Ready, Turn, Calm, Goto, CalmInv, FleetInv, TypeOK
  <2>2. pc'[b] = "idle" /\ job'[b] = NoJob /\ records' = records
    BY <1>1, <1>5 DEF Ready, Goto, CalmInv, FleetInv, TypeOK
  <2>3. Alone'
    BY <2>1, <2>2 DEF Alone, Away
  <2>4. \A q \in Processes : (Blameless(q) /\ UpToDate(q))'
    BY <2>1, <2>2 DEF Blameless, UpToDate, CalmInv, NoJob
  <2>. QED BY <2>2, <2>3, <2>4 DEF Kept
<1>. QED BY <1>2, <1>3, <1>4, <1>5 DEF Instance

LEMMA CalmNext == CalmInv /\ Calm /\ [Next]_vars => Kept
<1> SUFFICES ASSUME CalmInv, Calm, [Next]_vars PROVE Kept
  OBVIOUS
<1>1. CASE UNCHANGED vars \/ Deploy
  <2>1. UNCHANGED <<records, pc, job>>
    BY <1>1 DEF vars, Deploy
  <2>. QED BY <2>1 DEF Kept, CalmInv, Alone, Away, Blameless, UpToDate
<1>. QED BY <1>1, CalmExecution, CalmOperator, CalmInstance DEF Next

(* Where agents do not malfunction and nobody comes between a read and a   *)
(* save, a suspended agent stays suspended, through executions that end    *)
(* after it, crashes and redeployments.                                    *)
THEOREM SuspensionsHold == Spec => SuspensionHolds
<1>1. Init => CalmInv
  <2> SUFFICES ASSUME Init PROVE CalmInv
    OBVIOUS
  <2>1. Alone /\ \A p \in Processes : Blameless(p) /\ UpToDate(p)
    BY DEF Init, Alone, Away, Blameless, UpToDate, NoJob
  <2>. QED BY <2>1, InitFleet DEF CalmInv
<1>2. CalmInv /\ [Next]_vars => CalmInv'
  <2> SUFFICES ASSUME CalmInv, [Next]_vars PROVE CalmInv'
    OBVIOUS
  <2>1. FleetInv'
    BY NextFleet DEF CalmInv
  <2>2. Calm' => Calm
    BY DEF Calm, Next, Execution, Operator, Instance, RequireExecutable, MarkBusy, Answer,
           Restore, Restoring, Readmit, Dismiss, Crash, Suspend, StartInstance, Bootstrap,
           Ready, Save, Deploy, SetStatus, Unwritten, vars
  <2>. QED BY <2>1, <2>2, CalmNext DEF CalmInv, Kept
<1>3. CalmInv /\ [Next]_vars =>
        [Calm => \A a \in Agents :
           records[a].status = "SUSPENDED" => records'[a].status = "SUSPENDED"]_vars
  BY CalmNext DEF Kept
<1>. QED BY <1>1, <1>2, <1>3, PTL DEF Spec, SuspensionHolds, Calm

(***************************************************************************)
(* Quiet registries are ready, refusals have a cause, declarations land    *)
(***************************************************************************)

Serial == "races" \notin scenario

(* The statuses a registered fleet lives.                                  *)
Lived == {"AVAILABLE", "BUSY", "DEGRADED", "SUSPENDED"}

(* What a process at a place has in hand, whatever the scenario.           *)
Carried(p, place, j) ==
  /\ p \in Runs => place \in {"idle", "refused"} \/ j.agent = AgentOf[p]
  /\ p \in Desks => place \in {"idle", "save"}
  /\ p \in Boots => place = "idle" \/ (place \in {"boot", "save"} /\ "redeploy" \in scenario)
  /\ "malfunction" \notin scenario => ~j.failed
  /\ place = "save" =>
       /\ j.copy.status \in Lived
       /\ "malfunction" \notin scenario => j.copy.status # "DEGRADED"
       /\ p \in Boots => j.then = "boot"
       /\ p \in Desks => j.then = "idle" /\ j.copy.status = "SUSPENDED"
       /\ p \in Runs => /\ j.copy.status = "DEGRADED" => j.then = "readmit"
                        /\ j.copy.status = "BUSY" => j.then = "running"

(* Where nobody comes between a read and a save: what was read still is.   *)
Fresh(p, place, j) ==
  /\ place = "busy" => \/ records[j.agent].status = "AVAILABLE"
                       \/ (j.agent = Twin /\ records[j.agent].status = "BUSY")
  /\ place = "save" =>
       IF p \in Boots THEN j.copy = [records[j.agent] EXCEPT !.declared = build]
                      ELSE j.copy.declared = records[j.agent].declared
  /\ p \in Boots /\ place # "idle" =>
       /\ j.seed = build
       /\ \A a \in Agents \ j.todo :
            records[a].declared = build \/ (place = "save" /\ j.agent = a)

(* Who, at that place, will not leave an agent DEGRADED, the twin BUSY.    *)
Mends(place, j, a) ==
  /\ j.agent = a
  /\ place = "readmit" \/ (place = "save" /\ j.copy.status # "DEGRADED")

Releases(p, place, j) ==
  /\ j.agent = Twin
  /\ \/ p \in Runs /\ place \in {"running", "restore", "restoring"}
     \/ place = "save" /\ j.copy.status # "BUSY"

Attended == "crash" \notin scenario /\ ~({"races", "redeploy"} \subseteq scenario)

AllCarried == \A p \in Processes : Carried(p, pc[p], job[p])

AllLived ==
  \A a \in Agents :
    /\ records[a].status \in Lived
    /\ "malfunction" \notin scenario => records[a].status # "DEGRADED"

Current == booted = build => \A a \in Agents : records[a].declared = build

InOrder ==
  /\ Alone
  /\ booted <= build
  /\ Current
  /\ \A p \in Processes : Fresh(p, pc[p], job[p])

(* Nothing is left behind: somebody mends, somebody releases.              *)
Tended ==
  /\ \A a \in Agents : records[a].status = "DEGRADED" =>
       \E p \in Processes : Mends(pc[p], job[p], a)
  /\ records[Twin].status = "BUSY" =>
       \E p \in Processes : Releases(p, pc[p], job[p])

(* The invariant: besides the types, what the records are, what a process  *)
(* relies on where nobody interrupts it, and who repairs what it left.     *)
Tidy == AllCarried /\ AllLived /\ (Serial => InOrder) /\ (Attended => Tended)

TidyInv == FleetInv /\ Tidy

(* A process moves on, without writing.                                    *)
LEMMA GotoReady ==
  ASSUME TidyInv, Unwritten,
         NEW p \in Processes, NEW place \in Places, NEW j \in Job,
         Turn(p), Goto(p, place, j), Carried(p, place, j),
         Serial => Fresh(p, place, j),
         Attended =>
           /\ \A a \in Agents : records[a].status = "DEGRADED" /\ Mends(pc[p], job[p], a)
                               => Mends(place, j, a)
           /\ records[Twin].status = "BUSY" /\ Releases(p, pc[p], job[p])
                => Releases(p, place, j)
  PROVE  Tidy'
<1> DEFINE k == IF place \in {"idle", "refused"} THEN NoJob ELSE j
<1>1. pc'[p] = place /\ job'[p] = k
  BY DEF Goto, TidyInv, FleetInv, TypeOK
<1>2. \A q \in Processes \ {p} : pc'[q] = pc[q] /\ job'[q] = job[q]
  BY DEF Goto, TidyInv, FleetInv, TypeOK
<1>3. scenario' = scenario /\ records' = records /\ build' = build /\ booted' = booted
  BY DEF Unwritten
<1>4. Carried(p, place, k) /\ (Serial => Fresh(p, place, k))
  BY DEF Carried, Fresh, NoJob
<1>5. ~Mends("idle", j, j.agent) /\ ~Mends("refused", j, j.agent)
      /\ ~Releases(p, "idle", j) /\ ~Releases(p, "refused", j)
  BY DEF Mends, Releases
<1>6. AllCarried'
  <2>1. \A q \in Processes : Carried(q, pc'[q], job'[q])
    BY <1>1, <1>2, <1>4 DEF TidyInv, Tidy, AllCarried
  <2>. QED BY <2>1, <1>3 DEF AllCarried, Carried
<1>7. AllLived'
  BY <1>3 DEF TidyInv, Tidy, AllLived
<1>8. ASSUME Serial PROVE InOrder'
  <2>1. Alone'
    BY <1>2, <1>8 DEF Turn, Serial, Alone, Away, TidyInv, Tidy, InOrder
  <2>2. \A q \in Processes : Fresh(q, pc'[q], job'[q])
    BY <1>1, <1>2, <1>4, <1>8 DEF TidyInv, Tidy, InOrder
  <2>3. (\A q \in Processes : Fresh(q, pc[q], job[q]))'
    BY <2>2, <1>3 DEF Fresh
  <2>. QED BY <2>1, <2>3, <1>3, <1>8 DEF TidyInv, Tidy, InOrder, Current
<1>9. ASSUME Attended PROVE Tended'
  <2>1. ASSUME NEW a \in Agents, records[a].status = "DEGRADED"
        PROVE  \E q \in Processes : Mends(pc'[q], job'[q], a)
    <3>1. PICK q \in Processes : Mends(pc[q], job[q], a)
      BY <1>9, <2>1 DEF TidyInv, Tidy, Tended
    <3>2. CASE q = p
      <4>1. Mends(place, j, a) BY <1>9, <2>1, <3>1, <3>2
      <4>2. place \notin {"idle", "refused"} BY <4>1 DEF Mends
      <4>. QED BY <4>1, <4>2, <1>1
    <3>. QED BY <3>1, <3>2, <1>2
  <2>2. ASSUME records[Twin].status = "BUSY"
        PROVE  \E q \in Processes : Releases(q, pc'[q], job'[q])
    <3>1. PICK q \in Processes : Releases(q, pc[q], job[q])
      BY <1>9, <2>2 DEF TidyInv, Tidy, Tended
    <3>2. CASE q = p
      <4>1. Releases(p, place, j) BY <1>9, <2>2, <3>1, <3>2
      <4>2. place \notin {"idle", "refused"} BY <4>1 DEF Releases
      <4>. QED BY <4>1, <4>2, <1>1
    <3>. QED BY <3>1, <3>2, <1>2
  <2>. QED BY <2>1, <2>2, <1>3 DEF Tended, Mends, Releases
<1>10. Serial' => Serial
  BY <1>3 DEF Serial
<1>11. Attended' => Attended
  BY <1>3 DEF Attended
<1>. QED BY <1>6, <1>7, <1>8, <1>9, <1>10, <1>11 DEF Tidy

(* set_status: the change is about to be saved, or was refused.            *)
LEMMA SetStatusReady ==
  ASSUME TidyInv, NEW p \in Processes, p \notin Boots, NEW j \in Job,
         NEW target \in Lived, NEW next \in {"idle", "running", "readmit", "boot"},
         NEW raised \in {"idle", "refused"},
         SetStatus(p, j, target, next, raised),
         p \in Runs => j.agent = AgentOf[p],
         p \in Desks => raised = "idle" /\ next = "idle" /\ target = "SUSPENDED",
         "malfunction" \notin scenario => ~j.failed /\ target # "DEGRADED",
         target = "DEGRADED" => next = "readmit",
         target = "BUSY" => next = "running",
         \/ pc[p] \in {"idle", "busy"}
         \/ pc[p] \in {"readmit", "restoring"} /\ j = job[p] /\ target = "AVAILABLE"
         \/ pc[p] = "restoring" /\ job[p].agent # Twin
  PROVE  Tidy'
<1> DEFINE k == [j EXCEPT !.copy = [records[j.agent] EXCEPT !.status = target],
                          !.then = next]
<1>1. j.agent \in Agents /\ records[j.agent] \in Record /\ target \in AgentStatus
  BY DEF TidyInv, FleetInv, TypeOK, Job, Lived, AgentStatus
<1>2. /\ k \in Job /\ k.agent = j.agent /\ k.failed = j.failed /\ k.then = next
      /\ k.copy.status = target /\ k.copy.declared = records[j.agent].declared
  BY <1>1 DEF Job, Record
<1>3. Turn(p) /\ Unwritten
  BY DEF SetStatus
<1>4. CASE CanChange(records[j.agent].status, target)
  <2>1. Goto(p, "save", k) BY <1>4 DEF SetStatus
  <2>2. "save" \in Places BY DEF Places
  <2> HIDE DEF k
  <2>3. Carried(p, "save", k)
    BY <1>2 DEF Carried
  <2>4. Fresh(p, "save", k)
    BY <1>2 DEF Fresh
  <2>5. ASSUME NEW a \in Agents, Mends(pc[p], job[p], a) PROVE Mends("save", k, a)
    BY <1>2, <2>5 DEF Mends
  <2>6. Releases(p, pc[p], job[p]) => Releases(p, "save", k)
    BY <1>2 DEF Releases
  <2>. QED BY <1>2, <1>3, <2>1, <2>2, <2>3, <2>4, <2>5, <2>6, GotoReady
<1>5. CASE ~CanChange(records[j.agent].status, target)
  <2>1. Goto(p, raised, j) BY <1>5 DEF SetStatus
  <2>2. raised \in Places BY DEF Places
  <2>3. Carried(p, raised, j) /\ Fresh(p, raised, j)
    BY DEF Carried, Fresh
  <2>4. "AVAILABLE" \in AgentTransitions["DEGRADED"] /\ "AVAILABLE" \in AgentTransitions["BUSY"]
    BY DEF AgentTransitions
  <2>5. ASSUME NEW a \in Agents, records[a].status = "DEGRADED", Mends(pc[p], job[p], a)
        PROVE  FALSE
    BY <1>5, <2>4, <2>5 DEF Mends, CanChange
  <2>6. ~(records[Twin].status = "BUSY" /\ Releases(p, pc[p], job[p]))
    BY <1>5, <2>4 DEF Releases, CanChange
  <2>. QED BY <1>3, <2>1, <2>2, <2>3, <2>5, <2>6, GotoReady
<1>. QED BY <1>4, <1>5

(* A process saves the record it has in hand.                              *)
LEMMA SaveReady ==
  ASSUME TidyInv, NEW p \in Processes, Save(p) PROVE Tidy'
<1> DEFINE b == job[p].agent
           place == job[p].then
<1>1. /\ job[p] \in Job /\ b \in Agents /\ job[p].copy \in Record
      /\ place \in {"idle", "running", "readmit", "boot"}
      /\ pc[p] = "save"
  BY DEF Save, TidyInv, FleetInv, TypeOK, Job
<1>2. /\ pc'[p] = place /\ job'[p] = IF place = "idle" THEN NoJob ELSE job[p]
      /\ \A q \in Processes \ {p} : pc'[q] = pc[q] /\ job'[q] = job[q]
  BY <1>1 DEF Save, Goto, TidyInv, FleetInv, TypeOK
<1>3. /\ scenario' = scenario /\ build' = build /\ booted' = booted
      /\ \A a \in Agents : records'[a] = IF a = b THEN job[p].copy ELSE records[a]
  BY <1>1 DEF Save, TidyInv, FleetInv, TypeOK
<1>4. Carried(p, "save", job[p])
  BY <1>1 DEF TidyInv, Tidy, AllCarried
<1>5. Carried(p, place, job'[p])
  BY <1>1, <1>2, <1>4, FleetAssumption DEF Carried, NoJob
<1>6. AllCarried'
  <2>1. \A q \in Processes : Carried(q, pc'[q], job'[q])
    BY <1>2, <1>5 DEF TidyInv, Tidy, AllCarried
  <2>. QED BY <2>1, <1>3 DEF AllCarried, Carried
<1>7. AllLived'
  BY <1>3, <1>4 DEF TidyInv, Tidy, AllLived, Carried
<1>8. ASSUME Serial PROVE InOrder'
  <2>1. /\ InOrder /\ Fresh(p, "save", job[p])
        /\ \A q \in Processes \ {p} : Away(q)
    BY <1>1, <1>8 DEF TidyInv, Tidy, InOrder, Save, Turn, Serial
  <2>2. Alone'
    BY <1>2, <2>1 DEF Alone, Away
  <2>3. CASE p \in Boots
    <3>1. place = "boot" /\ job[p].seed = build
      BY <1>4, <2>1, <2>3 DEF Carried, Fresh
    <3>2. job[p].copy.declared = build
      <4>1. records[b] \in Record BY <1>1 DEF TidyInv, FleetInv, TypeOK
      <4>. QED BY <2>1, <2>3, <4>1 DEF Fresh, Record
    <3>3. Current'
      BY <1>3, <2>1, <3>2 DEF InOrder, Current
    <3>4. ASSUME NEW q \in Processes PROVE Fresh(q, pc[q], job[q])'
      <4>1. CASE q = p
        BY <1>2, <1>3, <2>1, <2>3, <3>1, <3>2, <4>1 DEF Fresh
      <4>2. CASE q # p
        <5>1. pc'[q] \in {"idle", "running", "refused"} /\ (q \in Boots => pc'[q] = "idle")
          BY <1>2, <2>1, <4>2 DEF Away, TidyInv, Tidy, AllCarried, Carried
        <5>. QED BY <5>1 DEF Fresh
      <4>. QED BY <4>1, <4>2
    <3>. QED BY <1>3, <2>1, <2>2, <3>3, <3>4 DEF InOrder
  <2>4. CASE p \notin Boots
    <3>1. \A a \in Agents : records'[a].declared = records[a].declared
      BY <1>3, <2>1, <2>4 DEF Fresh
    <3>2. Current'
      BY <1>3, <2>1, <3>1 DEF InOrder, Current
    <3>3. ASSUME NEW q \in Processes PROVE Fresh(q, pc[q], job[q])'
      <4>1. /\ pc'[q] \in {"idle", "running", "refused", "readmit", "boot"}
            /\ q \in Boots => pc'[q] = "idle"
        BY <1>1, <1>2, <2>1, <2>4 DEF Away, TidyInv, Tidy, AllCarried, Carried
      <4>. QED BY <4>1 DEF Fresh
    <3>. QED BY <1>3, <2>1, <2>2, <3>2, <3>3 DEF InOrder
  <2>. QED BY <2>3, <2>4
<1>9. ASSUME Attended PROVE Tended'
  <2>1. Tended
    BY <1>9 DEF TidyInv, Tidy
  <2>2. p \in Boots => job[p].copy.status = records[b].status
    <3>1. p \in Boots => Serial
      BY <1>4, <1>9 DEF Carried, Attended, Serial
    <3>2. records[b] \in Record BY <1>1 DEF TidyInv, FleetInv, TypeOK
    <3>. QED BY <1>1, <3>1, <3>2 DEF TidyInv, Tidy, InOrder, Fresh, Record
  <2>3. ASSUME NEW a \in Agents, records'[a].status = "DEGRADED"
        PROVE  \E q \in Processes : Mends(pc'[q], job'[q], a)
    <3>1. CASE a = b /\ p \in Runs
      <4>1. place = "readmit" BY <1>3, <1>4, <2>3, <3>1 DEF Carried
      <4>. QED BY <1>2, <3>1, <4>1 DEF Mends
    <3>2. CASE a # b \/ p \in Boots
      <4>1. records[a].status = "DEGRADED"
        BY <1>3, <2>2, <2>3, <3>2
      <4>2. PICK q \in Processes : Mends(pc[q], job[q], a)
        BY <2>1, <4>1 DEF Tended
      <4>3. q # p
        BY <1>1, <1>3, <2>3, <3>2, <4>2 DEF Mends
      <4>. QED BY <1>2, <4>2, <4>3
    <3>3. CASE a = b /\ p \in Desks
      BY <1>3, <1>4, <2>3, <3>3 DEF Carried
    <3>. QED BY <3>1, <3>2, <3>3 DEF Processes
  <2>4. ASSUME records'[Twin].status = "BUSY"
        PROVE  \E q \in Processes : Releases(q, pc'[q], job'[q])
    <3>1. CASE Twin = b /\ p \in Runs
      <4>1. place = "running" BY <1>1, <1>3, <1>4, <2>4, <3>1 DEF Carried
      <4>. QED BY <1>2, <3>1, <4>1 DEF Releases
    <3>2. CASE Twin # b \/ p \in Boots
      <4>1. records[Twin].status = "BUSY"
        BY <1>1, <1>3, <2>2, <2>4, <3>2, FleetAssumption
      <4>2. PICK q \in Processes : Releases(q, pc[q], job[q])
        BY <2>1, <4>1 DEF Tended
      <4>3. q # p
        BY <1>1, <1>3, <2>4, <3>2, <4>2 DEF Releases
      <4>. QED BY <1>2, <4>2, <4>3
    <3>3. CASE Twin = b /\ p \in Desks
      BY <1>1, <1>3, <1>4, <2>4, <3>3 DEF Carried
    <3>. QED BY <3>1, <3>2, <3>3 DEF Processes
  <2>5. (\A a \in Agents : records[a].status = "DEGRADED" =>
           \E q \in Processes : Mends(pc[q], job[q], a))'
    BY <2>3 DEF Mends
  <2>6. (records[Twin].status = "BUSY" =>
           \E q \in Processes : Releases(q, pc[q], job[q]))'
    BY <2>4 DEF Releases
  <2>. QED BY <2>5, <2>6 DEF Tended
<1>10. (Serial' => Serial) /\ (Attended' => Attended)
  BY <1>3 DEF Serial, Attended
<1>. QED BY <1>6, <1>7, <1>8, <1>9, <1>10 DEF Tidy

LEMMA ExecutionReady ==
  ASSUME TidyInv, NEW r \in Runs, Execution(r) PROVE Tidy'
<1>1. /\ r \in Processes /\ r \notin Boots /\ r \notin Desks
      /\ job[r] \in Job /\ AgentOf[r] \in Agents /\ NoJob \in Job
  BY FleetAssumption, NoJobIsJob DEF Processes, TidyInv, FleetInv, TypeOK
<1>2. Carried(r, pc[r], job[r])
  BY <1>1 DEF TidyInv, Tidy, AllCarried
<1>3. job[r].agent = Twin => ~job[r].failed
  BY <1>1 DEF TidyInv, FleetInv, TwinIsSpared
<1>4. {"BUSY", "AVAILABLE", "DEGRADED"} \subseteq Lived
  BY DEF Lived
<1>5. CASE Save(r)
  BY <1>1, <1>5, SaveReady
<1>6. CASE RequireExecutable(r)
  <2> DEFINE j == [NoJob EXCEPT !.agent = AgentOf[r]]
  <2>1. j \in Job /\ ~j.failed /\ j.agent = AgentOf[r]
    BY <1>1 DEF Job, NoJob
  <2>2. records[AgentOf[r]].status \in Lived
    BY <1>1 DEF TidyInv, Tidy, AllLived
  <2>3. PICK place \in {"refused", "busy", "running"} :
          /\ Goto(r, place, j)
          /\ place = "busy" =>
               /\ CanExecute(records[AgentOf[r]].status)
               /\ AgentOf[r] = Twin \/ records[AgentOf[r]].status = "AVAILABLE"
    BY <1>6 DEF RequireExecutable
  <2>4. place \in Places /\ pc[r] = "idle" /\ Turn(r) /\ Unwritten
    BY <1>6 DEF RequireExecutable, Places
  <2> HIDE DEF j
  <2>5. Carried(r, place, j)
    BY <1>1, <2>1, <2>3 DEF Carried
  <2>6. Fresh(r, place, j)
    BY <1>1, <2>1, <2>2, <2>3 DEF Fresh, CanExecute, Lived
  <2>7. ~Releases(r, pc[r], job[r]) /\ \A a \in Agents : ~Mends(pc[r], job[r], a)
    BY <2>4 DEF Releases, Mends
  <2>. QED BY <1>1, <2>1, <2>3, <2>4, <2>5, <2>6, <2>7, GotoReady
<1>7. CASE MarkBusy(r)
  <2>1. SetStatus(r, job[r], "BUSY", "running", "refused") /\ pc[r] = "busy"
    BY <1>7 DEF MarkBusy
  <2>. QED BY <1>1, <1>2, <1>4, <2>1, SetStatusReady DEF Carried
<1>8. CASE Answer(r)
  <2>1. PICK failed \in Indicted(job[r].agent) :
          Goto(r, "restore", [job[r] EXCEPT !.failed = failed])
    BY <1>8 DEF Answer
  <2> DEFINE j == [job[r] EXCEPT !.failed = failed]
  <2>2. /\ j \in Job /\ j.agent = job[r].agent
        /\ "malfunction" \notin scenario => ~j.failed
    BY <1>1, <2>1 DEF Indicted, Job
  <2>3. Goto(r, "restore", j) /\ pc[r] = "running" /\ Turn(r) /\ Unwritten /\ "restore" \in Places
    BY <1>8, <2>1 DEF Answer, Places
  <2> HIDE DEF j
  <2>4. Carried(r, "restore", j) /\ Fresh(r, "restore", j)
    BY <1>1, <1>2, <2>2, <2>3 DEF Carried, Fresh
  <2>5. /\ Releases(r, pc[r], job[r]) => Releases(r, "restore", j)
        /\ \A a \in Agents : ~Mends(pc[r], job[r], a)
    BY <2>2, <2>3 DEF Releases, Mends
  <2>. QED BY <1>1, <2>2, <2>3, <2>4, <2>5, GotoReady
<1>9. CASE Restore(r)
  <2>1. PICK place \in {"restoring", "readmit", "idle"} :
          /\ Goto(r, place, job[r])
          /\ records[job[r].agent].status = "BUSY" => place = "restoring"
    BY <1>9 DEF Restore, Restores
  <2>2. place \in Places /\ pc[r] = "restore" /\ Turn(r) /\ Unwritten
    BY <1>9 DEF Restore, Places
  <2>3. Carried(r, place, job[r]) /\ Fresh(r, place, job[r])
    BY <1>1, <1>2, <2>1, <2>2 DEF Carried, Fresh
  <2>4. /\ records[Twin].status = "BUSY" /\ Releases(r, pc[r], job[r])
              => Releases(r, place, job[r])
        /\ \A a \in Agents : ~Mends(pc[r], job[r], a)
    BY <2>1, <2>2 DEF Releases, Mends
  <2>. QED BY <1>1, <2>1, <2>2, <2>3, <2>4, GotoReady
<1>10. CASE Restoring(r)
  <2>1. CASE job[r].failed
    <3>1. SetStatus(r, job[r], "DEGRADED", "readmit", "idle") /\ pc[r] = "restoring"
      BY <1>10, <2>1 DEF Restoring
    <3>. QED BY <1>1, <1>2, <1>3, <1>4, <2>1, <3>1, SetStatusReady DEF Carried
  <2>2. CASE ~job[r].failed
    <3>1. SetStatus(r, job[r], "AVAILABLE", "idle", "idle") /\ pc[r] = "restoring"
      BY <1>10, <2>2 DEF Restoring
    <3>. QED BY <1>1, <1>2, <1>4, <2>2, <3>1, SetStatusReady DEF Carried
  <2>. QED BY <2>1, <2>2
<1>11. CASE Readmit(r)
  <2>1. SetStatus(r, job[r], "AVAILABLE", "idle", "idle") /\ pc[r] = "readmit"
    BY <1>11 DEF Readmit
  <2>. QED BY <1>1, <1>2, <1>4, <2>1, SetStatusReady DEF Carried
<1>12. CASE Dismiss(r) \/ Crash(r)
  <2>1. Goto(r, "idle", NoJob) /\ Turn(r) /\ Unwritten /\ "idle" \in Places
    BY <1>12 DEF Dismiss, Crash, Places
  <2>2. pc[r] = "refused" \/ ~Attended
    BY <1>12 DEF Dismiss, Crash, Attended
  <2>3. Carried(r, "idle", NoJob) /\ Fresh(r, "idle", NoJob)
    BY <1>1 DEF Carried, Fresh, NoJob
  <2>4. pc[r] = "refused" =>
          ~Releases(r, pc[r], job[r]) /\ \A a \in Agents : ~Mends(pc[r], job[r], a)
    BY DEF Releases, Mends
  <2>. QED BY <1>1, <2>1, <2>2, <2>3, <2>4, GotoReady
<1>. QED BY <1>5, <1>6, <1>7, <1>8, <1>9, <1>10, <1>11, <1>12 DEF Execution

LEMMA OperatorReady ==
  ASSUME TidyInv, NEW d \in Desks, Operator(d) PROVE Tidy'
<1>1. d \in Processes /\ d \notin Runs /\ d \notin Boots
  BY FleetAssumption DEF Processes
<1>2. CASE Save(d)
  BY <1>1, <1>2, SaveReady
<1>3. ASSUME NEW a \in Agents, Suspend(d, a) PROVE Tidy'
  <2> DEFINE j == [NoJob EXCEPT !.agent = a]
  <2>1. j \in Job /\ ~j.failed
    BY NoJobIsJob DEF Job, NoJob
  <2>2. SetStatus(d, j, "SUSPENDED", "idle", "idle") /\ pc[d] = "idle"
    BY <1>3 DEF Suspend
  <2>3. "SUSPENDED" \in Lived BY DEF Lived
  <2> HIDE DEF j
  <2>. QED BY <1>1, <2>1, <2>2, <2>3, SetStatusReady
<1>. QED BY <1>2, <1>3 DEF Operator

LEMMA InstanceReady ==
  ASSUME TidyInv, NEW b \in Boots, Instance(b) PROVE Tidy'
<1>1. /\ b \in Processes /\ b \notin Runs /\ b \notin Desks
      /\ job[b] \in Job /\ build \in Builds /\ NoJob \in Job
  BY FleetAssumption, NoJobIsJob DEF Processes, TidyInv, FleetInv, TypeOK
<1>2. Carried(b, pc[b], job[b]) /\ (Serial => Fresh(b, pc[b], job[b]))
  BY <1>1 DEF TidyInv, Tidy, AllCarried, InOrder
<1>3. CASE Save(b)
  BY <1>1, <1>3, SaveReady
<1>4. CASE StartInstance(b)
  <2> DEFINE j == [NoJob EXCEPT !.seed = build, !.todo = Agents]
  <2>1. j \in Job /\ ~j.failed /\ j.seed = build /\ j.todo = Agents
    BY <1>1 DEF Job, NoJob
  <2>2. /\ Goto(b, "boot", j) /\ Turn(b) /\ Unwritten /\ "boot" \in Places
        /\ pc[b] = "idle" /\ "redeploy" \in scenario
    BY <1>4 DEF StartInstance, Places
  <2> HIDE DEF j
  <2>3. Carried(b, "boot", j) /\ Fresh(b, "boot", j)
    BY <1>1, <2>1, <2>2 DEF Carried, Fresh
  <2>4. ~Releases(b, pc[b], job[b]) /\ \A a \in Agents : ~Mends(pc[b], job[b], a)
    BY <2>2 DEF Releases, Mends
  <2>. QED BY <1>1, <2>1, <2>2, <2>3, <2>4, GotoReady
<1>5. ASSUME NEW a \in Agents, Bootstrap(b, a) PROVE Tidy'
  <2> DEFINE record == Reconciled(records[a], job[b].seed)
             j == [NoJob EXCEPT !.agent = a, !.copy = record, !.then = "boot",
                                !.seed = job[b].seed, !.todo = job[b].todo \ {a}]
  <2>1. records[a] \in Record /\ job[b].seed \in Builds /\ job[b].todo \subseteq Agents
    BY <1>1 DEF TidyInv, FleetInv, TypeOK, Job
  <2>2. /\ record \in Record /\ record.status = records[a].status
        /\ record.declared = job[b].seed
        /\ record = [records[a] EXCEPT !.declared = job[b].seed]
    BY <2>1 DEF Reconciled, Record
  <2>3. /\ j \in Job /\ ~j.failed /\ j.then = "boot" /\ j.agent = a /\ j.copy = record
        /\ j.seed = job[b].seed /\ j.todo = job[b].todo \ {a}
    BY <1>1, <2>1, <2>2 DEF Job, NoJob
  <2>4. PICK place \in {"boot", "save"} :
          Goto(b, place, j) /\ (place = "boot" => record = records[a])
    BY <1>5 DEF Bootstrap
  <2>5. place \in Places /\ pc[b] = "boot" /\ Turn(b) /\ Unwritten
    BY <1>5 DEF Bootstrap, Places
  <2> HIDE DEF j, record
  <2>6. Carried(b, place, j)
    <3>1. records[a].status \in Lived
          /\ ("malfunction" \notin scenario => records[a].status # "DEGRADED")
      BY DEF TidyInv, Tidy, AllLived
    <3>. QED BY <1>1, <1>2, <2>2, <2>3, <2>4, <2>5, <3>1 DEF Carried
  <2>7. ASSUME Serial PROVE Fresh(b, place, j)
    <3>1. job[b].seed = build
          /\ \A c \in Agents \ job[b].todo : records[c].declared = build
      BY <1>2, <2>5, <2>7 DEF Fresh
    <3>. QED BY <2>2, <2>3, <2>4, <3>1 DEF Fresh
  <2>8. ~Releases(b, pc[b], job[b]) /\ \A c \in Agents : ~Mends(pc[b], job[b], c)
    BY <1>1, <2>5 DEF Releases, Mends
  <2>. QED BY <1>1, <2>3, <2>4, <2>5, <2>6, <2>7, <2>8, GotoReady
<1>6. CASE Ready(b)
  <2>1. /\ pc'[b] = "idle" /\ job'[b] = NoJob /\ pc[b] = "boot" /\ job[b].todo = {}
        /\ \A q \in Processes \ {b} : pc'[q] = pc[q] /\ job'[q] = job[q]
        /\ scenario' = scenario /\ records' = records /\ build' = build
        /\ booted' = job[b].seed
    BY <1>1, <1>6 DEF Ready, Goto, TidyInv, FleetInv, TypeOK
  <2>2. Carried(b, "idle", NoJob) /\ Fresh(b, "idle", NoJob)
    BY <1>1 DEF Carried, Fresh, NoJob
  <2>3. AllCarried'
    <3>1. \A q \in Processes : Carried(q, pc'[q], job'[q])
      BY <2>1, <2>2 DEF TidyInv, Tidy, AllCarried
    <3>. QED BY <2>1, <3>1 DEF AllCarried, Carried
  <2>4. AllLived'
    BY <2>1 DEF TidyInv, Tidy, AllLived
  <2>5. ASSUME Serial PROVE InOrder'
    <3>1. InOrder /\ booted' = build /\ \A a \in Agents : records[a].declared = build
      BY <1>2, <2>1, <2>5 DEF TidyInv, Tidy, Fresh
    <3>2. Alone'
      BY <2>1, <3>1 DEF InOrder, Alone, Away
    <3>3. \A q \in Processes : Fresh(q, pc'[q], job'[q])
      BY <2>1, <2>2, <3>1 DEF InOrder
    <3>4. (\A q \in Processes : Fresh(q, pc[q], job[q]))'
      BY <2>1, <3>3 DEF Fresh
    <3>5. booted' <= build'
      BY <1>1, <2>1, <3>1, FleetAssumption
    <3>. QED BY <2>1, <3>1, <3>2, <3>4, <3>5 DEF InOrder, Current
  <2>6. ASSUME Attended PROVE Tended'
    <3>1. \A q \in Processes \ {b} : pc'[q] = pc[q] /\ job'[q] = job[q]
      BY <2>1
    <3>2. ~Releases(b, pc[b], job[b]) /\ \A a \in Agents : ~Mends(pc[b], job[b], a)
      BY <1>1, <2>1 DEF Releases, Mends
    <3>3. Tended
      BY <2>6 DEF TidyInv, Tidy
    <3>4. /\ \A a \in Agents : records[a].status = "DEGRADED" =>
               \E q \in Processes : Mends(pc'[q], job'[q], a)
          /\ records[Twin].status = "BUSY" =>
               \E q \in Processes : Releases(q, pc'[q], job'[q])
      <4>1. ASSUME NEW a \in Agents, records[a].status = "DEGRADED"
            PROVE  \E q \in Processes : Mends(pc'[q], job'[q], a)
        <5>1. PICK q \in Processes : Mends(pc[q], job[q], a)
          BY <3>3, <4>1 DEF Tended
        <5>. QED BY <3>1, <3>2, <5>1
      <4>2. ASSUME records[Twin].status = "BUSY"
            PROVE  \E q \in Processes : Releases(q, pc'[q], job'[q])
        <5>1. PICK q \in Processes : Releases(q, pc[q], job[q])
          BY <3>3, <4>2 DEF Tended
        <5>. QED BY <3>1, <3>2, <5>1
      <4>. QED BY <4>1, <4>2
    <3>. QED BY <2>1, <3>4 DEF Tended, Mends, Releases
  <2>. QED BY <2>1, <2>3, <2>4, <2>5, <2>6 DEF Tidy, Serial, Attended
<1>. QED BY <1>3, <1>4, <1>5, <1>6 DEF Instance

LEMMA NextReady == TidyInv /\ [Next]_vars => TidyInv'
<1> SUFFICES ASSUME TidyInv, [Next]_vars PROVE TidyInv'
  OBVIOUS
<1>1. FleetInv'
  BY NextFleet DEF TidyInv
<1>2. CASE UNCHANGED vars
  <2>1. UNCHANGED <<scenario, records, build, booted, pc, job>>
    BY <1>2 DEF vars
  <2>2. AllCarried' /\ AllLived' /\ (Attended => Tended')
    BY <2>1 DEF TidyInv, Tidy, AllCarried, AllLived, Attended, Tended, Carried, Mends, Releases
  <2>3. ASSUME Serial PROVE InOrder'
    <3>1. InOrder
      BY <2>3 DEF TidyInv, Tidy
    <3>2. \A q \in Processes : Fresh(q, pc[q], job[q])'
      BY <2>1, <3>1 DEF InOrder, Fresh
    <3>. QED BY <2>1, <3>1, <3>2 DEF InOrder, Alone, Away, Current
  <2>. QED BY <1>1, <2>1, <2>2, <2>3 DEF TidyInv, Tidy, Serial, Attended
<1>3. CASE Deploy
  <2>1. /\ UNCHANGED <<scenario, records, booted, pc, job>> /\ build' = build + 1
        /\ Serial => \A b \in Boots : pc[b] = "idle"
    BY <1>3 DEF Deploy, Serial
  <2>2. AllCarried' /\ AllLived' /\ (Attended => Tended')
    BY <2>1 DEF TidyInv, Tidy, AllCarried, AllLived, Attended, Tended, Carried, Mends, Releases
  <2>3. ASSUME Serial PROVE InOrder'
    <3>1. InOrder /\ booted \in Nat /\ build \in Nat
      BY <2>3, FleetAssumption DEF TidyInv, Tidy, FleetInv, TypeOK
    <3>2. Alone'
      BY <2>1, <3>1 DEF InOrder, Alone, Away
    <3>3. booted' <= build' /\ booted' # build'
      BY <2>1, <3>1 DEF InOrder
    <3>4. \A q \in Processes : Fresh(q, pc[q], job[q])'
      BY <2>1, <2>3, <3>1 DEF InOrder, Fresh
    <3>. QED BY <3>2, <3>3, <3>4 DEF InOrder, Current
  <2>. QED BY <1>1, <2>1, <2>2, <2>3 DEF TidyInv, Tidy, Serial, Attended
<1>. QED BY <1>1, <1>2, <1>3, ExecutionReady, OperatorReady, InstanceReady DEF Next, TidyInv

LEMMA InitReady == Init => TidyInv
<1> SUFFICES ASSUME Init PROVE TidyInv
  OBVIOUS
<1>1. FleetInv
  BY InitFleet
<1>2. AllCarried /\ AllLived
  BY FleetAssumption DEF Init, AllCarried, AllLived, Carried, Lived, NoJob
<1>3. InOrder
  BY FleetAssumption DEF Init, InOrder, Alone, Away, Current, Fresh
<1>4. Tended
  BY FleetAssumption DEF Init, Tended
<1>. QED BY <1>1, <1>2, <1>3, <1>4 DEF TidyInv, Tidy

(* When all is quiet, whoever was marked BUSY or DEGRADED has been let in  *)
(* again, or the scenario is one of those that expose it.                  *)
THEOREM FleetRestsReady == Spec => []RestsReady
<1>1. Spec => []TidyInv
  BY InitReady, NextReady, PTL DEF Spec
<1>2. TidyInv => RestsReady
  <2> SUFFICES ASSUME TidyInv, AtRest, NEW a \in Agents, ~Exposed(a),
                      records[a].status \notin {"SUSPENDED", "AVAILABLE"},
                      a = Twin \/ records[a].status # "BUSY"
               PROVE  FALSE
    BY DEF RestsReady
  <2>1. records[a].status \in {"BUSY", "DEGRADED"} /\ (records[Twin].status # "DEGRADED")
    BY DEF TidyInv, Tidy, AllLived, Lived, FleetInv, TypeOK
  <2>2. records[a].status = "DEGRADED" => "malfunction" \in scenario
    BY DEF TidyInv, Tidy, AllLived
  <2>3. Attended
    BY <2>1, <2>2 DEF Exposed, Attended
  <2>4. \E p \in Processes : pc[p] # "idle"
    BY <2>1, <2>3 DEF TidyInv, Tidy, Tended, Mends, Releases
  <2>. QED BY <2>4 DEF AtRest
<1>. QED BY <1>1, <1>2, PTL

(* Whoever saved a record meanwhile, the registry of a fleet whose         *)
(* instances have started holds the declarations of the version deployed.  *)
THEOREM DeclarationsDoLand == Spec => []DeclarationsLand
<1>1. Spec => []TidyInv
  BY InitReady, NextReady, PTL DEF Spec
<1>2. TidyInv => DeclarationsLand
  BY DEF TidyInv, Tidy, Serial, InOrder, Current, DeclarationsLand
<1>. QED BY <1>1, <1>2, PTL

(* Where an execution is refused: on arrival, by CanExecute; or as it is   *)
(* marked BUSY, by a transition that is not allowed.                       *)
LEMMA WhoRefuses ==
  ASSUME TidyInv, Next, NEW r \in Runs, pc[r] # "refused", pc'[r] = "refused"
  PROVE  /\ Turn(r)
         /\ \/ pc[r] = "idle" /\ ~CanExecute(records[AgentOf[r]].status)
            \/ pc[r] = "busy" /\ ~CanChange(records[job[r].agent].status, "BUSY")
<1>1. r \in Processes /\ pc \in [Processes -> Places] /\ job \in [Processes -> Job]
  BY DEF Processes, TidyInv, FleetInv, TypeOK
<1>2. ASSUME NEW p \in Processes, NEW place, NEW j, Goto(p, place, j)
      PROVE  p = r /\ place = "refused"
  BY <1>1, <1>2 DEF Goto
<1>3. ASSUME NEW p \in Processes, Save(p) PROVE FALSE
  <2>1. Goto(p, job[p].then, job[p]) BY <1>3 DEF Save
  <2>2. job[p].then # "refused" BY <1>1 DEF Job
  <2>. QED BY <1>2, <2>1, <2>2
<1>4. ASSUME NEW p \in Processes, NEW j, NEW target, NEW next, NEW raised,
             SetStatus(p, j, target, next, raised)
      PROVE  /\ p = r /\ raised = "refused" /\ Turn(p)
             /\ ~CanChange(records[j.agent].status, target)
  <2>1. CASE CanChange(records[j.agent].status, target)
    <3>1. PICK k : Goto(p, "save", k) BY <1>4, <2>1 DEF SetStatus
    <3>. QED BY <1>2, <3>1
  <2>2. CASE ~CanChange(records[j.agent].status, target)
    BY <1>2, <1>4, <2>2 DEF SetStatus
  <2>. QED BY <2>1, <2>2
<1>5. ASSUME NEW q \in Runs, Execution(q)
      PROVE  /\ q = r
             /\ RequireExecutable(q) \/ MarkBusy(q)
  <2>1. q \in Processes BY DEF Processes
  <2>2. CASE RequireExecutable(q)
    <3>1. PICK place, j : Goto(q, place, j) BY <2>2 DEF RequireExecutable
    <3>. QED BY <2>1, <2>2, <3>1, <1>2
  <2>3. CASE MarkBusy(q)
    <3>1. SetStatus(q, job[q], "BUSY", "running", "refused") BY <2>3 DEF MarkBusy
    <3>. QED BY <2>1, <2>3, <3>1, <1>4
  <2>4. CASE Restore(q) \/ Dismiss(q) \/ Crash(q) \/ Answer(q)
    <3>1. ASSUME Restore(q) PROVE \E place : Goto(q, place, job[q]) /\ place # "refused"
      <4>1. PICK place \in {"restoring", "readmit", "idle"} : Goto(q, place, job[q])
        BY <3>1 DEF Restore
      <4>. QED BY <4>1
    <3>2. ASSUME Answer(q) PROVE \E j : Goto(q, "restore", j)
      BY <3>2 DEF Answer
    <3>3. ASSUME Dismiss(q) \/ Crash(q) PROVE Goto(q, "idle", NoJob)
      BY <3>3 DEF Dismiss, Crash
    <3>4. PICK place, j : Goto(q, place, j) /\ place # "refused"
      BY <2>4, <3>1, <3>2, <3>3
    <3>. QED BY <2>1, <3>4, <1>2
  <2>5. CASE Restoring(q) \/ Readmit(q)
    <3>1. PICK target, next : SetStatus(q, job[q], target, next, "idle")
      BY <2>5 DEF Restoring, Readmit
    <3>. QED BY <2>1, <3>1, <1>4
  <2>. QED BY <1>3, <1>5, <2>1, <2>2, <2>3, <2>4, <2>5 DEF Execution
<1>6. ASSUME NEW d \in Desks, Operator(d) PROVE FALSE
  <2>1. d \in Processes BY DEF Processes
  <2>2. ASSUME NEW a \in Agents, Suspend(d, a) PROVE FALSE
    <3>1. PICK j : SetStatus(d, j, "SUSPENDED", "idle", "idle") BY <2>2 DEF Suspend
    <3>. QED BY <2>1, <3>1, <1>4
  <2>. QED BY <1>3, <1>6, <2>1, <2>2 DEF Operator
<1>7. ASSUME NEW b \in Boots, Instance(b) PROVE FALSE
  <2>1. b \in Processes BY DEF Processes
  <2>2. CASE StartInstance(b) \/ Ready(b) \/ \E a \in Agents : Bootstrap(b, a)
    <3>1. ASSUME NEW a \in Agents, Bootstrap(b, a)
          PROVE  \E place, j : Goto(b, place, j) /\ place # "refused"
      <4>1. PICK place \in {"boot", "save"} : \E j : Goto(b, place, j)
        BY <3>1 DEF Bootstrap
      <4>. QED BY <4>1
    <3>2. ASSUME StartInstance(b) PROVE \E j : Goto(b, "boot", j)
      BY <3>2 DEF StartInstance
    <3>3. ASSUME Ready(b) PROVE Goto(b, "idle", NoJob)
      BY <3>3 DEF Ready
    <3>4. PICK place, j : Goto(b, place, j) /\ place # "refused"
      BY <2>2, <3>1, <3>2, <3>3
    <3>. QED BY <2>1, <3>4, <1>2
  <2>. QED BY <1>3, <1>7, <2>1, <2>2 DEF Instance
<1>8. CASE RequireExecutable(r)
  <2>1. ~CanExecute(records[AgentOf[r]].status)
    <3>1. \A j : ~Goto(r, "busy", j) /\ ~Goto(r, "running", j)
      BY <1>1, <1>2
    <3>. QED BY <1>8, <3>1 DEF RequireExecutable
  <2>. QED BY <1>8, <2>1 DEF RequireExecutable
<1>9. CASE MarkBusy(r)
  BY <1>1, <1>4, <1>9 DEF MarkBusy
<1>. QED BY <1>1, <1>5, <1>6, <1>7, <1>8, <1>9 DEF Next, Deploy

LEMMA CauseOfRefusal ==
  ASSUME TidyInv, Next, NEW r \in Runs,
         scenario \cap {"races", "crash"} = {}, AgentOf[r] # Twin \/ Solo(Twin),
         pc[r] # "refused", pc'[r] = "refused"
  PROVE  records[AgentOf[r]].status = "SUSPENDED"
<1>1. /\ Turn(r)
      /\ \/ pc[r] = "idle" /\ ~CanExecute(records[AgentOf[r]].status)
         \/ pc[r] = "busy" /\ ~CanChange(records[job[r].agent].status, "BUSY")
  BY WhoRefuses
<1>2. r \in Processes /\ AgentOf[r] \in Agents /\ Serial /\ Attended
  BY FleetAssumption DEF Processes, Serial, Attended
<1>3. \A q \in Processes \ {r} : Away(q)
  BY <1>1, <1>2 DEF Turn, Serial
<1>4. records[AgentOf[r]].status \in Lived /\ Tended /\ Carried(r, pc[r], job[r])
      /\ Fresh(r, pc[r], job[r])
  BY <1>2 DEF TidyInv, Tidy, AllLived, AllCarried, InOrder
<1>5. CASE pc[r] = "idle" /\ ~CanExecute(records[AgentOf[r]].status)
  <2>1. records[AgentOf[r]].status # "DEGRADED"
    BY <1>2, <1>3, <1>4, <1>5 DEF Tended, Mends, Away
  <2>. QED BY <1>4, <1>5, <2>1 DEF CanExecute, Lived
<1>6. CASE pc[r] = "busy" /\ ~CanChange(records[job[r].agent].status, "BUSY")
  <2>1. job[r].agent = AgentOf[r]
    BY <1>4, <1>6 DEF Carried
  <2>2. records[AgentOf[r]].status # "AVAILABLE"
    BY <1>6, <2>1 DEF CanChange, AgentTransitions
  <2>3. AgentOf[r] = Twin /\ records[Twin].status = "BUSY"
    BY <1>4, <1>6, <2>1, <2>2 DEF Fresh
  <2>4. PICK q \in Processes : Releases(q, pc[q], job[q])
    BY <1>4, <2>3 DEF Tended
  <2>5. q # r /\ pc[q] = "running" /\ q \in Runs
    BY <1>3, <1>6, <2>4 DEF Releases, Away
  <2>6. AgentOf[q] = Twin
    BY <2>4, <2>5 DEF TidyInv, Tidy, AllCarried, Carried, Releases
  <2>. QED BY <2>3, <2>5, <2>6 DEF Solo
<1>. QED BY <1>1, <1>5, <1>6

(* An execution is refused because its agent is suspended, whatever the    *)
(* other executions of that agent do meanwhile.                            *)
THEOREM RefusalsHaveCause == Spec => RefusedForCause
<1>1. TidyInv /\ [Next]_vars =>
        [\A r \in Runs :
           /\ scenario \cap {"races", "crash"} = {}
           /\ AgentOf[r] # Twin \/ Solo(Twin)
           /\ pc[r] # "refused" /\ pc'[r] = "refused"
           => records[AgentOf[r]].status = "SUSPENDED"]_vars
  BY CauseOfRefusal
<1>. QED BY <1>1, InitReady, NextReady, PTL DEF Spec, RefusedForCause

=============================================================================
