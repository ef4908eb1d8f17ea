---------------------------- MODULE RolloutProofs ---------------------------
(***************************************************************************)
(* Proofs about Rollout, for any number of runs and mishaps, and whatever  *)
(* ways of starting the script there are.                                  *)
(***************************************************************************)
EXTENDS Rollout, Integers, TLAPS

(***************************************************************************)
(* Types                                                                   *)
(***************************************************************************)

LEMMA AbsentIsService == Absent \in Service
BY RolloutAssumption DEF Absent, Service, Versions, Old, Nothing, Latest

LEMMA FormerIsService ==
  ASSUME NEW s \in Services, NEW n \in Services
  PROVE  Former(s, n) \in Service
<1>1. Old \in Versions BY RolloutAssumption DEF Versions, Old
<1>2. (s < n) \in BOOLEAN /\ (s = n) \in BOOLEAN OBVIOUS
<1>. QED BY <1>1, <1>2 DEF Absent, Service, Former

LEMMA ServicesAreNumbers == Services = {1, 2, 3} /\ Api \in Services /\ Web \in Services
BY DEF Services, Api, Web

LEMMA HealthyIsService ==
  ASSUME TypeOK, NEW s \in Services, Image(s) # Nothing
  PROVE  Healthy(s) \in Service
<1>1. Tag \in Versions \cup {Latest} BY DEF TypeOK, Job, Tag
<1>2. Image(s) \in Versions BY <1>1 DEF TypeOK, Image, Job
<1>. QED BY <1>1, <1>2 DEF Healthy, Service

LEMMA DeadIsService ==
  ASSUME TypeOK, NEW s \in Services
  PROVE  Dead(s) \in Service
<1>1. Tag \in Versions \cup {Latest} BY DEF TypeOK, Job, Tag
<1>2. services[s] \in Service BY DEF TypeOK
<1>3. services[s].runs \in Versions \cup {Nothing} BY <1>2 DEF Service
<1>4. Creates(s) \in BOOLEAN BY <1>2 DEF Creates, Service
<1>. QED BY <1>1, <1>3, <1>4 DEF Dead, Healthy, Service

LEMMA BecomesKeeps ==
  ASSUME TypeOK, NEW s \in Services, NEW service \in Service, Becomes(s, service)
  PROVE  services' \in [Services -> Service]
BY DEF TypeOK, Becomes

LEMMA StepKeeps ==
  ASSUME TypeOK, NEW place \in Working \cup Stopped, Step(place)
  PROVE  pc' \in Working \cup Stopped /\ job' \in Job /\ mishaps' \in 0 .. MaxMishaps
<1>1. job.next \in Services /\ (job.next # Web => job.next + 1 \in Services)
  BY ServicesAreNumbers DEF TypeOK, Job, Web
<1>. QED BY <1>1, ServicesAreNumbers DEF TypeOK, Job, Step

LEMMA MishapKeeps ==
  ASSUME TypeOK, NEW place \in Working \cup Stopped, Mishap(place)
  PROVE  pc' \in Working \cup Stopped /\ job' \in Job /\ mishaps' \in 0 .. MaxMishaps
<1>1. mishaps' \in 0 .. MaxMishaps
  <2>1. mishaps \in 0 .. MaxMishaps BY DEF TypeOK
  <2>2. mishaps < MaxMishaps /\ mishaps' = mishaps + 1 BY DEF Mishap
  <2>. QED BY <2>1, <2>2, RolloutAssumption
<1>2. pc' \in Working \cup Stopped BY DEF Mishap
<1>3. job' \in Job BY DEF TypeOK, Job, Mishap
<1>. QED BY <1>1, <1>2, <1>3

LEMMA GoKeeps ==
  ASSUME TypeOK, NEW place \in Working \cup Stopped, Go(place)
  PROVE  pc' \in Working \cup Stopped /\ job' \in Job /\ mishaps' \in 0 .. MaxMishaps
BY DEF TypeOK, Go

LEMMA OutputsKeep ==
  ASSUME TypeOK, NEW s \in Services, NEW up \in BOOLEAN, Outputs(s, up)
  PROVE  project' \in Project
<1>1. CASE s # Api BY <1>1 DEF TypeOK, Outputs
<1>2. CASE s = Api
  <2> DEFINE seen == project.url \/ up
  <2>1. seen \in BOOLEAN OBVIOUS
  <2>2. project' = [[project EXCEPT !.key = TRUE] EXCEPT !.url = seen]
    BY <1>2 DEF TypeOK, Project, Outputs
  <2> HIDE DEF seen
  <2>. QED BY <2>1, <2>2 DEF TypeOK, Project
<1>. QED BY <1>1, <1>2

LEMMA TypeInit == Init => TypeOK
<1> SUFFICES ASSUME Init PROVE TypeOK OBVIOUS
<1>a. Old \in Versions /\ 1 \in Services
  BY RolloutAssumption DEF Versions, Old, Services
<1>1. latest \in [Services -> Versions \cup {Nothing}] /\ project \in Project
  <2>1. CASE New BY <2>1 DEF New
  <2>2. CASE Inherited
    <3>1. latest = [s \in Services |-> Old] BY <2>2 DEF Inherited
    <3>2. PICK n \in Services :
            project = [apis |-> TRUE, account |-> TRUE, role |-> TRUE, registry |-> TRUE,
                       url |-> n > Api, key |-> n > Api]
      BY <2>2 DEF Inherited
    <3>3. (n > Api) \in BOOLEAN OBVIOUS
    <3>. QED BY <1>a, <3>1, <3>2, <3>3 DEF Project
  <2>. QED BY <2>1, <2>2 DEF Init
<1>2. services \in [Services -> Service]
  BY AbsentIsService, FormerIsService DEF Init, New, Inherited
<1>3. job \in Job
  BY <1>a DEF Init, Job, Arguments
<1>. QED BY <1>1, <1>2, <1>3, RolloutAssumption
         DEF Init, TypeOK, Stopped

LEMMA TypeNext == TypeOK /\ [Next]_vars => TypeOK'
<1> SUFFICES ASSUME TypeOK, [Next]_vars PROVE TypeOK' OBVIOUS
<1> DEFINE Script3 == pc' \in Working \cup Stopped /\ job' \in Job /\ mishaps' \in 0 .. MaxMishaps
<1>a. AfterChecks \in Working \cup Stopped BY DEF AfterChecks, Working
<1>1. ASSUME NEW args \in Invocations, Invoke(args) PROVE TypeOK'
  <2>1. runs' \in 1 .. MaxRuns /\ Old + runs' \in Versions
    BY <1>1, RolloutAssumption DEF Invoke, TypeOK, Versions, Old
  <2>2. job' \in Job
    BY <1>1, <2>1, RolloutAssumption DEF Invoke, Job, Services
  <2>. QED BY <1>1, <2>1, <2>2 DEF Invoke, TypeOK, world, Working
<1>2. CASE Interrupted
  <2>1. Script3 BY <1>2, MishapKeeps DEF Interrupted, Stopped
  <2>. QED BY <1>2, <2>1 DEF Interrupted, TypeOK, world, counts
<1>3. CASE Credentials
  <2>1. Script3 BY <1>3, GoKeeps DEF Credentials, Stopped, Working
  <2>. QED BY <1>3, <2>1 DEF Credentials, TypeOK, world, counts
<1>4. CASE BuildIdentity
  <2>1. Script3 BY <1>4, <1>a, GoKeeps, MishapKeeps DEF BuildIdentity, Stopped
  <2>. QED BY <1>4, <2>1 DEF BuildIdentity, TypeOK, world, counts
<1>5. CASE EnableApis
  <2>1. job' \in Job BY <1>5 DEF EnableApis, TypeOK, Job, Arguments
  <2>2. project' \in Project BY <1>5 DEF EnableApis, TypeOK, Project
  <2>. QED BY <1>5, <2>1, <2>2 DEF EnableApis, TypeOK, counts
<1>6. CASE EnsureRegistry
  <2>1. Script3 BY <1>6, GoKeeps DEF EnsureRegistry, Working
  <2>2. project' \in Project BY <1>6 DEF EnsureRegistry, TypeOK, Project
  <2>. QED BY <1>6, <2>1, <2>2 DEF EnsureRegistry, TypeOK, counts
<1>7. CASE ReadFacts
  <2>1. job' \in Job BY <1>7 DEF ReadFacts, TypeOK, Job, Known
  <2>2. mishaps' \in 0 .. MaxMishaps
    <3>1. mishaps \in 0 .. MaxMishaps BY DEF TypeOK
    <3>2. mishaps' = mishaps \/ (mishaps < MaxMishaps /\ mishaps' = mishaps + 1)
      BY <1>7 DEF ReadFacts
    <3>. QED BY <3>1, <3>2, RolloutAssumption
  <2>. QED BY <1>7, <2>1, <2>2 DEF ReadFacts, TypeOK, world, counts, Working
<1>8. CASE BuildImage
  <2>1. CASE CanBuild
    <3>1. Step(IF job.args.repair THEN "repair" ELSE "apply") BY <1>8, <2>1 DEF BuildImage
    <3>2. (IF job.args.repair THEN "repair" ELSE "apply") \in Working \cup Stopped
      BY DEF Working
    <3>3. Script3 BY <3>1, <3>2, StepKeeps
    <3>4. Pushed(job.next) BY <1>8, <2>1 DEF BuildImage
    <3>5. job.version \in Versions /\ job.seen \in SUBSET Facts BY DEF TypeOK, Job
    <3>6. latest' \in [Services -> Versions \cup {Nothing}]
      BY <3>4, <3>5 DEF Pushed, TypeOK
    <3>7. bundle' \in [Versions -> SUBSET Facts]
      <4>1. CASE job.next = Web BY <4>1, <3>4, <3>5 DEF Pushed, TypeOK
      <4>2. CASE job.next # Web BY <4>2, <3>4 DEF Pushed, TypeOK
      <4>. QED BY <4>1, <4>2
    <3>. QED BY <1>8, <3>3, <3>6, <3>7 DEF BuildImage, TypeOK, counts
  <2>2. CASE ~CanBuild
    <3>1. Script3 BY <1>8, <2>2, GoKeeps DEF BuildImage, Stopped
    <3>. QED BY <1>8, <2>2, <3>1 DEF BuildImage, TypeOK, counts
  <2>. QED BY <2>1, <2>2
<1>9. CASE RepairService
  <2> DEFINE s == job.next
             untainted == [services[s] EXCEPT !.tainted = FALSE]
  <2>1. s \in Services /\ services[s] \in Service BY DEF TypeOK, Job
  <2>2. untainted \in Service /\ [untainted EXCEPT !.known = FALSE] \in Service
    BY <2>1 DEF Service
  <2>3. services' \in [Services -> Service]
    BY <1>9, <2>1, <2>2, AbsentIsService DEF RepairService, Becomes, TypeOK
  <2>4. CASE Step("apply")
    <3>1. Script3 BY <2>4, StepKeeps DEF Working
    <3>. QED BY <1>9, <3>1, <2>3 DEF RepairService, TypeOK, counts
  <2>5. CASE ~Step("apply")
    <3>1. s # Web => s + 1 \in Services BY <2>1, ServicesAreNumbers DEF Web
    <3>2. /\ mishaps < MaxMishaps /\ mishaps' = mishaps + 1
          /\ pc' = IF s = Web THEN "apply" ELSE pc
          /\ job' = [job EXCEPT !.next = IF s = Web THEN 1 ELSE s + 1, !.calm = FALSE]
      BY <1>9, <2>5 DEF RepairService
    <3>3. (IF s = Web THEN 1 ELSE s + 1) \in Services BY <3>1, ServicesAreNumbers
    <3>4. job' \in Job BY <3>2, <3>3 DEF TypeOK, Job
    <3>5. Script3
      BY <3>2, <3>4, RolloutAssumption DEF TypeOK, Working
    <3>. QED BY <1>9, <3>5, <2>3 DEF RepairService, TypeOK, counts
  <2>. QED BY <2>4, <2>5
<1>10. CASE ApplyService
  <2> DEFINE s == job.next
  <2>1. s \in Services BY DEF TypeOK, Job
  <2>2. Script3
    BY <1>10, GoKeeps, StepKeeps, MishapKeeps
    DEF ApplyService, Delivers, Dies, Passes, Refuses, Stopped
  <2>3. services' \in [Services -> Service]
    BY <1>10, <2>1, HealthyIsService, DeadIsService, BecomesKeeps
    DEF ApplyService, Delivers, Dies, Passes, Refuses, TypeOK
  <2>4. project' \in Project
    BY <1>10, <2>1, OutputsKeep
    DEF ApplyService, Delivers, Dies, Passes, Refuses, TypeOK
  <2>. QED BY <1>10, <2>2, <2>3, <2>4 DEF ApplyService, TypeOK
<1>11. CASE PlanOnly
  <2>1. Script3 BY <1>11, GoKeeps DEF PlanOnly, Stopped
  <2>. QED BY <1>11, <2>1 DEF PlanOnly, TypeOK, world, counts
<1>12. CASE Prepare
  <2>1. project' \in Project BY <1>12 DEF Prepare, TypeOK, Project
  <2>2. login' \in Logins BY <1>12 DEF Prepare, TypeOK, Logins
  <2>. QED BY <1>12, <2>1, <2>2 DEF Prepare, TypeOK, counts, Stopped
<1>13. CASE UNCHANGED vars BY <1>13 DEF vars, TypeOK
<1>. QED BY <1>1, <1>2, <1>3, <1>4, <1>5, <1>6, <1>7, <1>8, <1>9, <1>10, <1>11,
            <1>12, <1>13 DEF Next, Script

(* Every record is well formed whatever runs leave behind.                 *)
THEOREM RolloutTypes == Spec => []TypeOK
BY TypeInit, TypeNext, PTL DEF Spec

(***************************************************************************)
(* The inductive invariant                                                 *)
(***************************************************************************)

(* The loops start at the first image, and a run has the number of the     *)
(* version it builds.                                                      *)
InOrder ==
  /\ pc \in {"credentials", "identity", "registry", "facts"} => job.next = 1
  /\ pc \in Working \cup {"deployed"} => job.version = Old + runs

(* What the checks found is so for the rest of the run.                    *)
Checked ==
  /\ pc \in Working \ {"credentials"} => login = "usable"
  /\ job.calm /\ pc \in {"registry", "facts", "build"} => Problems = {}
  /\ pc \in {"facts", "build"} => project.registry

Shipped(s) == services[s].ready /\ services[s].runs = job.version

(* No service can have the tag of this run before the apply gives it to it. *)
Fresh ==
  /\ \A s \in Services : services[s].tag <= Old + runs
  /\ pc \in Working \ {"apply"} => \A s \in Services : services[s].tag < job.version
  /\ pc = "apply" /\ ~Reuses(job.args) =>
       \A s \in Services : IF s < job.next THEN Shipped(s) ELSE services[s].tag < job.version
  /\ pc = "deployed" /\ ~Reuses(job.args) => \A s \in Services : Shipped(s)

(* A deployment leaves the URL and the key, and the next one builds with   *)
(* them.                                                                   *)
Told ==
  /\ deployments > 0 => project.url /\ project.key
  /\ pc = "apply" /\ ~job.args.plan_only /\ job.next > Api => project.url /\ project.key
  /\ job.calm /\ ~Reuses(job.args) /\ deployments > 0 /\ pc \in {"build", "repair", "apply"} =>
       job.seen = Facts
  /\ job.calm /\ ~Reuses(job.args) /\ deployments > 1 /\ pc = "deployed" => job.seen = Facts
  /\ ~Reuses(job.args) /\ pc \in {"repair", "apply", "deployed"} => bundle[job.version] = job.seen

Sane(s) == services[s].known /\ services[s].exists => services[s].ready /\ ~services[s].tainted

(* What a repair has passed, an apply can work with.                       *)
Repaired ==
  /\ job.calm /\ pc = "repair" => \A s \in Services : s < job.next => Sane(s)
  /\ job.calm /\ pc = "apply" /\ job.args.repair /\ ~job.args.plan_only =>
       \A s \in Services : s >= job.next => Sane(s)

Inv == InOrder /\ Checked /\ Fresh /\ Told /\ Repaired

LEMMA TypeFacts ==
  ASSUME TypeOK
  PROVE  /\ \A s \in Services : services[s] \in Service /\ services[s].tag \in Int
         /\ job.version \in Int /\ job.version >= 1 /\ job.next \in {1, 2, 3}
         /\ runs \in Int /\ runs >= 0 /\ deployments \in Int /\ deployments >= 0
<1>1. \A s \in Services : services[s] \in Service BY DEF TypeOK
<1>2. \A v \in Versions : v \in Int /\ v >= 1 BY RolloutAssumption DEF Versions, Old
<1>3. \A s \in Services : services[s].tag \in Versions \cup {Latest}
  BY <1>1 DEF Service
<1>4. \A s \in Services : services[s].tag \in Int BY <1>2, <1>3 DEF Latest
<1>5. job.version \in Versions /\ job.next \in Services BY DEF TypeOK, Job
<1>6. runs \in 0 .. MaxRuns /\ deployments \in Nat BY DEF TypeOK
<1>. QED BY <1>1, <1>2, <1>4, <1>5, <1>6, RolloutAssumption, ServicesAreNumbers

(* What no step within a run changes.                                      *)
SameRun ==
  /\ job'.version = job.version /\ job'.seen = job.seen
  /\ job'.args.plan_only = job.args.plan_only
  /\ job'.args.skip_build = job.args.skip_build
  /\ job'.args.repair = job.args.repair

LEMMA StepEffect ==
  ASSUME TypeOK, NEW place, Step(place)
  PROVE  /\ SameRun /\ job'.calm = job.calm
         /\ job.next = 3 => pc' = place /\ job'.next = 1
         /\ job.next # 3 => pc' = pc /\ job'.next = job.next + 1
BY DEF TypeOK, Job, Step, SameRun, Web

LEMMA MishapEffect ==
  ASSUME TypeOK, NEW place, Mishap(place)
  PROVE  SameRun /\ pc' = place /\ ~job'.calm /\ job'.next = job.next
BY DEF TypeOK, Job, Mishap, SameRun

LEMMA InvInit == Init => Inv
<1> SUFFICES ASSUME Init PROVE Inv OBVIOUS
<1>1. pc = "idle" /\ runs = 0 /\ deployments = 0 BY DEF Init
<1>2. \A s \in Services : services[s].tag = Latest
  <2>1. CASE New BY <2>1 DEF New, Absent
  <2>2. CASE Inherited
    <3>1. PICK n \in Services :
            services = [s \in Services |-> IF s <= n THEN Former(s, n) ELSE Absent]
      BY <2>2 DEF Inherited
    <3>. QED BY <3>1 DEF Former, Absent
  <2>. QED BY <2>1, <2>2 DEF Init
<1>3. Fresh BY <1>1, <1>2 DEF Fresh, Working, Old, Latest
<1>. QED BY <1>1, <1>3 DEF Inv, InOrder, Checked, Told, Repaired, Working

(* A step that ends the run, or only goes on to another place.             *)
LEMMA EndKeeps ==
  ASSUME TypeOK, Inv, pc' \in {"failed", "idle"}, services' = services, runs' = runs,
         deployments' = deployments, project' = project
  PROVE  Inv'
<1>1. pc' \notin Working \cup {"deployed"} /\ pc' \notin {"credentials", "identity", "registry", "facts",
      "build", "repair", "apply", "deployed"}
  BY DEF Working
<1>2. InOrder' BY <1>1 DEF InOrder
<1>3. Checked' BY <1>1 DEF Checked
<1>4. Fresh' BY <1>1 DEF Inv, Fresh
<1>5. Told' BY <1>1 DEF Inv, Told
<1>6. Repaired' BY <1>1 DEF Repaired
<1>. QED BY <1>2, <1>3, <1>4, <1>5, <1>6 DEF Inv

LEMMA InvInvoke ==
  ASSUME TypeOK, Inv, NEW args \in Invocations, Invoke(args)
  PROVE  Inv'
<1>1. /\ pc' = "credentials" /\ job'.next = 1 /\ job'.version = Old + runs'
      /\ runs' = runs + 1 /\ services' = services /\ project' = project
      /\ deployments' = deployments
  BY DEF Invoke, world
<1>2. InOrder' BY <1>1 DEF InOrder
<1>3. Checked' BY <1>1 DEF Checked
<1>4. \A s \in Services : services[s].tag < Old + runs'
  <2>1. \A s \in Services : services[s].tag <= Old + runs BY DEF Inv, Fresh
  <2>. QED BY <1>1, <2>1, TypeFacts DEF Old
<1>5. \A s \in Services : services[s].tag <= Old + runs'
  BY <1>1, <1>4, TypeFacts DEF Old
<1>6. Fresh' BY <1>1, <1>4, <1>5 DEF Fresh
<1>7. Told' BY <1>1 DEF Inv, Told
<1>8. Repaired' BY <1>1 DEF Repaired
<1>. QED BY <1>2, <1>3, <1>6, <1>7, <1>8 DEF Inv

LEMMA InvCredentials ==
  ASSUME TypeOK, Inv, Credentials
  PROVE  Inv'
<1>1. /\ pc = "credentials" /\ job' = job /\ services' = services /\ project' = project
      /\ runs' = runs /\ deployments' = deployments /\ login' = login
  BY DEF Credentials, Go, world, counts
<1>2. CASE login # "usable"
  <2>1. pc' = "failed" BY <1>2 DEF Credentials, Go
  <2>. QED BY <1>1, <2>1, EndKeeps
<1>3. CASE login = "usable"
  <2>1. pc' = "identity" BY <1>3 DEF Credentials, Go
  <2>2. InOrder' BY <1>1, <2>1 DEF Inv, InOrder, Working
  <2>3. Checked' BY <1>1, <1>3, <2>1 DEF Checked
  <2>4. Fresh' BY <1>1, <2>1 DEF Inv, Fresh, Working
  <2>5. Told' BY <1>1, <2>1 DEF Inv, Told
  <2>6. Repaired' BY <1>1, <2>1 DEF Repaired
  <2>. QED BY <2>2, <2>3, <2>4, <2>5, <2>6 DEF Inv
<1>. QED BY <1>2, <1>3

(* On to what follows the checks.                                          *)
LEMMA InvIdentity ==
  ASSUME TypeOK, Inv, BuildIdentity
  PROVE  Inv'
<1>1. /\ pc = "identity" /\ services' = services /\ project' = project
      /\ runs' = runs /\ deployments' = deployments /\ login' = login
      /\ latest' = latest /\ bundle' = bundle
  BY DEF BuildIdentity, world, counts
<1>2. CASE pc' = "failed" BY <1>1, <1>2, EndKeeps
<1>3. CASE pc' # "failed"
  <2>1. /\ pc' = AfterChecks /\ SameRun /\ job'.next = job.next
        /\ job'.calm => job.calm /\ Problems = {}
    BY <1>3, MishapEffect DEF BuildIdentity, Go, SameRun
  <2>2. /\ pc' \in {"registry", "repair", "apply"}
        /\ pc' = "registry" => ~Reuses(job.args)
        /\ pc' \in {"repair", "apply"} => Reuses(job.args)
        /\ pc' = "apply" => ~job.args.repair \/ job.args.plan_only
    BY <2>1 DEF AfterChecks
  <2>3. Reuses(job.args)' = Reuses(job.args) BY <2>1 DEF Reuses, SameRun
  <2>4. job.next = 1 BY <1>1 DEF Inv, InOrder
  <2>5. InOrder' BY <1>1, <2>1, <2>2, <2>4 DEF Inv, InOrder, SameRun, Working
  <2>6. Problems' = Problems BY <1>1 DEF Problems
  <2>7. Checked' BY <1>1, <2>1, <2>2, <2>6 DEF Inv, Checked, Working
  <2>8. Fresh' BY <1>1, <2>1, <2>2, <2>3 DEF Inv, Fresh, SameRun, Working
  <2>9. Told' BY <1>1, <2>1, <2>2, <2>3, <2>4 DEF Inv, Told, Api
  <2>10. Repaired'
    <3>1. \A s \in Services : ~(s < 1) BY ServicesAreNumbers
    <3>. QED BY <1>1, <2>1, <2>2, <2>4, <3>1 DEF Repaired, SameRun
  <2>. QED BY <2>5, <2>7, <2>8, <2>9, <2>10 DEF Inv
<1>. QED BY <1>2, <1>3

LEMMA InvEnableApis ==
  ASSUME TypeOK, Inv, EnableApis
  PROVE  Inv'
<1>1. /\ pc = "identity" /\ pc' = pc /\ services' = services /\ login' = login
      /\ runs' = runs /\ deployments' = deployments
  BY DEF EnableApis, counts
<1>2. job'.next = job.next /\ job'.version = job.version BY DEF EnableApis, TypeOK, Job
<1>3. project'.url = project.url /\ project'.key = project.key
  BY DEF EnableApis, TypeOK, Project
<1>4. InOrder' BY <1>1, <1>2 DEF Inv, InOrder
<1>5. Checked' BY <1>1 DEF Inv, Checked
<1>6. Fresh' BY <1>1, <1>2 DEF Inv, Fresh, Working
<1>7. Told' BY <1>1, <1>3 DEF Inv, Told
<1>8. Repaired' BY <1>1 DEF Repaired
<1>. QED BY <1>4, <1>5, <1>6, <1>7, <1>8 DEF Inv

LEMMA InvRegistry ==
  ASSUME TypeOK, Inv, EnsureRegistry
  PROVE  Inv'
<1>1. /\ pc = "registry" /\ pc' = "facts" /\ services' = services /\ login' = login
      /\ runs' = runs /\ deployments' = deployments /\ job' = job
  BY DEF EnsureRegistry, counts, Go
<1>2. /\ project'.url = project.url /\ project'.key = project.key /\ project'.registry
      /\ project'.apis = project.apis /\ project'.account = project.account
      /\ project'.role = project.role
  BY DEF EnsureRegistry, TypeOK, Project
<1>3. Problems' = Problems
  <2>1. \A x \in {"apis", "account", "role"} : project'[x] = project[x]
    BY DEF EnsureRegistry, TypeOK, Project
  <2>. QED BY <2>1 DEF Problems
<1>4. InOrder' BY <1>1 DEF Inv, InOrder, Working
<1>5. Checked' BY <1>1, <1>2, <1>3 DEF Inv, Checked, Working
<1>6. Fresh' BY <1>1 DEF Inv, Fresh, Working
<1>7. Told' BY <1>1, <1>2 DEF Inv, Told
<1>8. Repaired' BY <1>1 DEF Repaired
<1>. QED BY <1>4, <1>5, <1>6, <1>7, <1>8 DEF Inv

LEMMA InvFacts ==
  ASSUME TypeOK, Inv, ReadFacts
  PROVE  Inv'
<1>1. /\ pc = "facts" /\ pc' = "build" /\ services' = services /\ login' = login
      /\ runs' = runs /\ deployments' = deployments /\ project' = project
  BY DEF ReadFacts, counts, world
<1>2. /\ job'.next = job.next /\ job'.version = job.version
      /\ job'.calm => job.calm /\ job'.seen = Known
  BY DEF ReadFacts, TypeOK, Job
<1>3. deployments > 0 => Known = Facts
  <2>1. deployments > 0 => project["url"] /\ project["key"] BY DEF Inv, Told
  <2>. QED BY <2>1 DEF Known, Facts
<1>4. InOrder' BY <1>1, <1>2 DEF Inv, InOrder, Working
<1>5. Problems' = Problems BY <1>1 DEF Problems
<1>6. Checked' BY <1>1, <1>2, <1>5 DEF Inv, Checked, Working
<1>7. Fresh' BY <1>1, <1>2 DEF Inv, Fresh, Working
<1>8. Told' BY <1>1, <1>2, <1>3 DEF Inv, Told
<1>9. Repaired' BY <1>1 DEF Repaired
<1>. QED BY <1>4, <1>6, <1>7, <1>8, <1>9 DEF Inv

LEMMA InvBuild ==
  ASSUME TypeOK, Inv, BuildImage
  PROVE  Inv'
<1>1. /\ pc = "build" /\ services' = services /\ login' = login /\ project' = project
      /\ runs' = runs /\ deployments' = deployments
  BY DEF BuildImage, counts
<1>2. CASE ~CanBuild
  <2>1. pc' = "failed" BY <1>2 DEF BuildImage, Go
  <2>. QED BY <1>1, <2>1, EndKeeps
<1>3. CASE CanBuild
  <2> DEFINE after == IF job.args.repair THEN "repair" ELSE "apply"
  <2>1. Step(after) /\ Pushed(job.next) BY <1>3 DEF BuildImage
  <2>2. /\ SameRun /\ job'.calm = job.calm
        /\ job.next = 3 => pc' = after /\ job'.next = 1
        /\ job.next # 3 => pc' = "build"
    BY <1>1, <2>1, StepEffect
  <2>3. Reuses(job.args)' = Reuses(job.args) BY <2>2 DEF Reuses, SameRun
  <2>4. pc' \in {"build", "repair", "apply"} BY <2>2
  <2>5. pc' # "build" => /\ job.next = 3 /\ job'.next = 1
                         /\ pc' = "apply" => ~job.args.repair
    BY <2>2
  <2>6. pc' # "build" => bundle'[job.version] = job.seen
    <3>1. job.version \in Versions BY DEF TypeOK, Job
    <3>. QED BY <2>1, <2>5, <3>1 DEF Pushed, Web, TypeOK
  <2>7. \A s \in Services : ~(s < 1) BY ServicesAreNumbers
  <2>8. InOrder' BY <1>1, <2>2, <2>4 DEF Inv, InOrder, SameRun, Working
  <2>9. Problems' = Problems BY <1>1 DEF Problems
  <2>10. Checked' BY <1>1, <2>2, <2>4, <2>9 DEF Inv, Checked, Working
  <2>11. Fresh'
    BY <1>1, <2>2, <2>4, <2>5, <2>7 DEF Inv, Fresh, SameRun, Working
  <2>12. Told'
    BY <1>1, <2>2, <2>3, <2>4, <2>5, <2>6 DEF Inv, Told, SameRun, Api
  <2>13. Repaired' BY <2>2, <2>4, <2>5, <2>7 DEF Repaired, SameRun
  <2>. QED BY <2>8, <2>10, <2>11, <2>12, <2>13 DEF Inv
<1>. QED BY <1>2, <1>3

LEMMA InvRepair ==
  ASSUME TypeOK, Inv, RepairService
  PROVE  Inv'
<1>0. PICK s \in Services : s = job.next BY DEF TypeOK, Job
<1> DEFINE untainted == [services[s] EXCEPT !.tainted = FALSE]
<1>1. /\ pc = "repair" /\ login' = login /\ project' = project
      /\ runs' = runs /\ deployments' = deployments /\ bundle' = bundle
  BY DEF RepairService, counts
<1>2. services[s] \in Service BY DEF TypeOK
<1>3. /\ SameRun
      /\ job'.calm => job.calm
      /\ job.next = 3 => pc' = "apply" /\ job'.next = 1
      /\ job.next # 3 => pc' = "repair" /\ job'.next = job.next + 1
  <2>1. CASE Step("apply") BY <1>1, <2>1, StepEffect
  <2>2. CASE ~Step("apply")
    BY <1>1, <2>2 DEF RepairService, TypeOK, Job, SameRun, Web
  <2>. QED BY <2>1, <2>2
<1>4. /\ \A t \in Services : t # s => services'[t] = services[t]
      /\ services'[s].tag \in {services[s].tag, Latest}
      /\ job'.calm => Sane(s)'
  <2>1. CASE ~services[s].known /\ UNCHANGED services BY <2>1 DEF Sane
  <2>2. CASE ~Broken(s) /\ Becomes(s, untainted)
    BY <1>2, <2>2 DEF Becomes, Broken, Sane, TypeOK, Service
  <2>3. CASE Becomes(s, Absent)
    BY <1>2, <2>3 DEF Becomes, Sane, TypeOK, Absent
  <2>4. CASE Becomes(s, [untainted EXCEPT !.known = FALSE])
    BY <1>2, <2>4 DEF Becomes, Sane, TypeOK, Service
  <2>. QED BY <1>0, <2>1, <2>2, <2>3, <2>4 DEF RepairService
<1>5. pc' \in {"repair", "apply"} /\ (pc' = "apply" => job.next = 3 /\ job'.next = 1)
  BY <1>3, TypeFacts
<1>6. InOrder' BY <1>1, <1>3, <1>5 DEF Inv, InOrder, SameRun, Working
<1>7. Checked' BY <1>1, <1>5 DEF Inv, Checked, Working
<1>8. Fresh'
  <2>1. \A t \in Services : services[t].tag < job.version BY <1>1 DEF Inv, Fresh, Working
  <2>2. \A t \in Services : services'[t].tag < job.version
    BY <1>2, <1>4, <2>1, TypeFacts DEF Latest
  <2>3. job.version = Old + runs BY <1>1 DEF Inv, InOrder, Working
  <2>4. \A t \in Services : services'[t].tag <= Old + runs
    <3>1. \A t \in Services : services'[t].tag \in Int BY <1>4, <1>2, TypeFacts DEF Latest
    <3>. QED BY <2>2, <2>3, <3>1, TypeFacts DEF Old
  <2>5. \A t \in Services : ~(t < 1) BY ServicesAreNumbers
  <2>. QED BY <1>1, <1>3, <1>5, <2>2, <2>4, <2>5 DEF Fresh, SameRun, Working
<1>9. Told'
  <2>1. Reuses(job.args)' = Reuses(job.args) BY <1>3 DEF Reuses, SameRun
  <2>. QED BY <1>1, <1>3, <1>5, <2>1 DEF Inv, Told, SameRun, Api
<1>10. Repaired'
  <2>1. ASSUME NEW t \in Services, job'.calm, t <= s PROVE Sane(t)'
    <3>1. CASE t = s BY <1>4, <2>1, <3>1
    <3>2. CASE t # s
      <4>1. t < s BY <1>2, <2>1, <3>2, ServicesAreNumbers
      <4>2. Sane(t) BY <1>0, <1>1, <1>3, <2>1, <4>1 DEF Inv, Repaired
      <4>. QED BY <1>4, <3>2, <4>2 DEF Sane
    <3>. QED BY <3>1, <3>2
  <2>2. CASE pc' = "repair"
    <3>1. job.next # 3 /\ job'.next = s + 1 BY <1>0, <1>3, <2>2
    <3>2. \A t \in Services : t < job'.next => t <= s BY <1>2, <3>1, ServicesAreNumbers
    <3>. QED BY <2>1, <2>2, <3>2 DEF Repaired
  <2>3. CASE pc' = "apply"
    <3>1. \A t \in Services : t <= s BY <1>0, <1>5, <2>3, ServicesAreNumbers
    <3>. QED BY <2>1, <2>3, <3>1 DEF Repaired
  <2>. QED BY <1>5, <2>2, <2>3
<1>. QED BY <1>6, <1>7, <1>8, <1>9, <1>10 DEF Inv

LEMMA OutputsEffect ==
  ASSUME TypeOK, NEW s \in Services, NEW up \in BOOLEAN, Outputs(s, up)
  PROVE  /\ project.url => project'.url
         /\ project.key => project'.key
         /\ s = Api /\ up => project'.url /\ project'.key
<1>1. CASE s # Api BY <1>1 DEF Outputs
<1>2. CASE s = Api BY <1>2 DEF TypeOK, Project, Outputs
<1>. QED BY <1>1, <1>2

(* What an apply has passed runs the build, when it ships one.             *)
LEMMA InvApply ==
  ASSUME TypeOK, Inv, ApplyService
  PROVE  Inv'
<1>0. PICK s \in Services : s = job.next BY DEF TypeOK, Job
<1>1. /\ pc = "apply" /\ ~job.args.plan_only /\ login' = login /\ latest' = latest
      /\ bundle' = bundle /\ runs' = runs
      /\ deployments' = IF pc' = "deployed" THEN deployments + 1 ELSE deployments
      /\ Delivers(s) \/ Dies(s) \/ Passes(s) \/ Refuses(s)
  BY <1>0 DEF ApplyService, Applying
<1>2. \A t \in Services : t # s => services'[t] = services[t]
  BY <1>1 DEF Delivers, Dies, Passes, Refuses, Becomes, TypeOK
<1>3. /\ project.url => project'.url
      /\ project.key => project'.key
  BY <1>1, OutputsEffect DEF Delivers, Dies, Passes, Refuses
<1>4. job.version = Old + runs BY <1>1 DEF Inv, InOrder, Working
<1>5. \A t \in Services : services'[t].tag <= Old + runs
  <2>1. services'[s].tag \in {services[s].tag, Latest, job.version}
    <3>1. Tag \in {Latest, job.version} BY DEF Tag
    <3>2. CASE services' = services BY <3>2
    <3>3. CASE Becomes(s, Healthy(s)) BY <3>1, <3>3 DEF Becomes, TypeOK, Healthy
    <3>4. CASE Becomes(s, Dead(s)) BY <3>1, <3>4 DEF Becomes, TypeOK, Healthy, Dead
    <3>. QED BY <1>1, <3>2, <3>3, <3>4 DEF Delivers, Dies, Passes, Refuses
  <2>2. services'[s].tag <= Old + runs
    BY <1>4, <2>1, TypeFacts DEF Inv, Fresh, Latest, Old
  <2>. QED BY <1>2, <2>2 DEF Inv, Fresh
<1>6. CASE pc' = "failed"
  <2>1. deployments' = deployments BY <1>1, <1>6
  <2>2. InOrder' /\ Checked' /\ Repaired'
    BY <1>6 DEF InOrder, Checked, Repaired, Working
  <2>3. Fresh' BY <1>1, <1>5, <1>6 DEF Fresh, Working
  <2>4. Told' BY <1>3, <1>6, <2>1 DEF Inv, Told
  <2>. QED BY <2>2, <2>3, <2>4 DEF Inv
<1>7. CASE pc' # "failed"
  <2>1. /\ Step("deployed") /\ Outputs(s, TRUE)
        /\ \/ Delivers(s)
           \/ Unchanged(s) /\ UNCHANGED services
    BY <1>1, <1>7 DEF Delivers, Dies, Passes, Refuses, Go, Mishap
  <2>2. /\ SameRun /\ job'.calm = job.calm
        /\ job.next = 3 => pc' = "deployed" /\ job'.next = 1
        /\ job.next # 3 => pc' = "apply" /\ job'.next = job.next + 1
    BY <1>1, <2>1, StepEffect
  <2>3. pc' \in {"apply", "deployed"} BY <2>2
  <2>4. Reuses(job.args)' = Reuses(job.args) BY <2>2 DEF Reuses, SameRun
  <2>5. InOrder' BY <1>1, <1>4, <2>2, <2>3 DEF InOrder, SameRun
  <2>6. Checked' BY <1>1, <2>3 DEF Inv, Checked, Working
  <2>7. ~Reuses(job.args) => Shipped(s)'
    <3>1. SUFFICES ASSUME ~Reuses(job.args) PROVE Shipped(s)' OBVIOUS
    <3>2. Tag = job.version BY <3>1 DEF Tag
    <3>3. Image(s) = job.version BY <3>2, TypeFacts DEF Image, Latest
    <3>4. ~(s < job.next) BY <1>0, ServicesAreNumbers
    <3>5. services[s].tag # Tag BY <1>1, <3>1, <3>2, <3>4, TypeFacts DEF Inv, Fresh
    <3>6. Becomes(s, Healthy(s)) BY <2>1, <3>5 DEF Unchanged, Delivers
    <3>. QED BY <2>2, <3>3, <3>6 DEF Becomes, Healthy, TypeOK, Shipped, SameRun
  <2>8. ~Reuses(job.args) => \A t \in Services : t <= s => Shipped(t)'
    <3>1. SUFFICES ASSUME ~Reuses(job.args), NEW t \in Services, t <= s PROVE Shipped(t)'
      OBVIOUS
    <3>2. CASE t = s BY <2>7, <3>1, <3>2
    <3>3. CASE t # s
      <4>1. t < job.next BY <1>0, <3>1, <3>3, ServicesAreNumbers
      <4>2. Shipped(t) BY <1>1, <3>1, <4>1 DEF Inv, Fresh
      <4>. QED BY <1>2, <2>2, <3>3, <4>2 DEF Shipped, SameRun
    <3>. QED BY <3>2, <3>3
  <2>9. \A t \in Services : t > s => Sane(t)' = Sane(t) /\ services'[t].tag = services[t].tag
    BY <1>0, <1>2, ServicesAreNumbers DEF Sane
  <2>10. Fresh' /\ Repaired'
    <3>1. CASE job.next = 3
      <4>1. \A t \in Services : t <= s BY <1>0, <3>1, ServicesAreNumbers
      <4>2. pc' = "deployed" BY <2>2, <3>1
      <4>3. Fresh' BY <1>1, <1>5, <2>4, <2>8, <4>1, <4>2 DEF Fresh, Working
      <4>. QED BY <4>2, <4>3 DEF Repaired
    <3>2. CASE job.next # 3
      <4>1. pc' = "apply" /\ job'.next = s + 1 BY <1>0, <2>2, <3>2
      <4>2. \A t \in Services : /\ t < s + 1 => t <= s
                                /\ ~(t < s + 1) => t > s /\ ~(t < s)
                                /\ t >= s + 1 => t > s /\ t >= s
        BY ServicesAreNumbers
      <4>3. \A t \in Services : ~Reuses(job.args) =>
              IF t < s + 1 THEN Shipped(t)' ELSE services'[t].tag < job.version
        BY <1>0, <1>1, <2>8, <2>9, <4>2 DEF Inv, Fresh
      <4>4. Fresh' BY <1>1, <1>5, <2>2, <2>4, <4>1, <4>3 DEF Fresh, Working, SameRun
      <4>5. Repaired'
        BY <1>0, <1>1, <2>2, <2>9, <4>1, <4>2 DEF Inv, Repaired, SameRun
      <4>. QED BY <4>4, <4>5
    <3>. QED BY <3>1, <3>2
  <2>11. s >= Api => project'.url /\ project'.key
    <3>1. CASE s = Api BY <2>1, <3>1, OutputsEffect
    <3>2. CASE s > Api BY <1>0, <1>1, <1>3, <3>2 DEF Inv, Told
    <3>. QED BY <3>1, <3>2, ServicesAreNumbers DEF Api
  <2>12. Told'
    <3>1. CASE job.next = 3
      <4>1. pc' = "deployed" /\ deployments' = deployments + 1 BY <1>1, <2>2, <3>1
      <4>2. project'.url /\ project'.key BY <1>0, <2>11, <3>1 DEF Api
      <4>3. deployments' > 1 => deployments > 0 BY <4>1, TypeFacts
      <4>. QED BY <1>1, <2>2, <2>4, <4>1, <4>2, <4>3 DEF Inv, Told, SameRun
    <3>2. CASE job.next # 3
      <4>1. pc' = "apply" /\ deployments' = deployments BY <1>1, <2>2, <3>2
      <4>2. job'.next > Api => s >= Api BY <1>0, <2>2, <3>2, ServicesAreNumbers DEF Api
      <4>. QED BY <1>1, <1>3, <2>2, <2>4, <2>11, <4>1, <4>2 DEF Inv, Told, SameRun
    <3>. QED BY <3>1, <3>2
  <2>. QED BY <2>5, <2>6, <2>10, <2>12 DEF Inv
<1>. QED BY <1>6, <1>7

LEMMA InvPrepare ==
  ASSUME TypeOK, Inv, Prepare
  PROVE  Inv'
<1>1. /\ pc' = "idle" /\ services' = services /\ runs' = runs
      /\ deployments' = deployments /\ job' = job
      /\ project'.url = project.url /\ project'.key = project.key
  BY DEF Prepare, counts, TypeOK, Project
<1>2. InOrder' /\ Checked' /\ Repaired' BY <1>1 DEF InOrder, Checked, Repaired, Working
<1>3. Fresh' BY <1>1 DEF Inv, Fresh, Working
<1>4. Told' BY <1>1 DEF Inv, Told
<1>. QED BY <1>2, <1>3, <1>4 DEF Inv

LEMMA InvNext == TypeOK /\ Inv /\ [Next]_vars => Inv'
<1> SUFFICES ASSUME TypeOK, Inv, [Next]_vars PROVE Inv' OBVIOUS
<1>1. CASE Interrupted
  BY <1>1, EndKeeps DEF Interrupted, Mishap, world, counts
<1>2. CASE PlanOnly
  BY <1>2, EndKeeps DEF PlanOnly, Go, world, counts
<1>3. CASE UNCHANGED vars
  BY <1>3 DEF vars, Inv, InOrder, Checked, Fresh, Told, Repaired, Problems, Shipped, Sane
<1>. QED BY <1>1, <1>2, <1>3, InvInvoke, InvCredentials, InvIdentity, InvEnableApis,
            InvRegistry, InvFacts, InvBuild, InvRepair, InvApply, InvPrepare
         DEF Next, Script

LEMMA Invariance == Spec => [](TypeOK /\ Inv)
<1>1. Init => TypeOK /\ Inv BY TypeInit, InvInit
<1>2. TypeOK /\ Inv /\ [Next]_vars => (TypeOK /\ Inv)'
  BY TypeNext, InvNext
<1>. QED BY <1>1, <1>2, PTL DEF Spec

(***************************************************************************)
(* What is promised                                                        *)
(***************************************************************************)

(* After any history of failed, interrupted and repeated runs, a run that  *)
(* built its images and says so has put them in service.                   *)
THEOREM DeploysWhatItBuilt == Spec => []ShipsTheBuild
<1>1. TypeOK /\ Inv => ShipsTheBuild
  <2>1. SUFFICES ASSUME TypeOK, Inv, pc = "deployed", ~Reuses(job.args)
                 PROVE  /\ \A s \in Services : Shipped(s)
                        /\ deployments > 1 /\ job.calm => bundle[services[Web].runs] = Facts
    BY DEF ShipsTheBuild, Shipped
  <2>2. \A s \in Services : Shipped(s) BY <2>1 DEF Inv, Fresh
  <2>3. services[Web].runs = job.version BY <2>2, ServicesAreNumbers DEF Shipped
  <2>. QED BY <2>1, <2>2, <2>3 DEF Inv, Told
<1>. QED BY <1>1, Invariance, PTL

(* Whatever was lacking, it was made or reported before the first build.   *)
THEOREM BuildsCanSucceed == Spec => []NoDoomedBuild
<1>1. TypeOK /\ Inv => NoDoomedBuild
  <2>1. SUFFICES ASSUME TypeOK, Inv, pc = "build", job.calm
                 PROVE  login = "usable" /\ CanBuild
    BY DEF NoDoomedBuild
  <2>2. login = "usable" /\ Problems = {} /\ project.registry
    BY <2>1 DEF Inv, Checked, Working
  <2>3. project["apis"] /\ project["account"] /\ project["role"]
    BY <2>2 DEF Problems
  <2>. QED BY <2>2, <2>3 DEF CanBuild
<1>. QED BY <1>1, Invariance, PTL

LEMMA RepairNext == TypeOK /\ Inv /\ RepairWorks /\ [Next]_vars => RepairWorks'
<1> SUFFICES ASSUME TypeOK, Inv, RepairWorks, [Next]_vars,
                    pc' = "failed", job'.args.repair, job'.calm, login' = "usable",
                    Problems' = {},
                    Reuses(job.args)' => \A s \in Services : latest'[s] # Nothing
             PROVE  Orphan'
  BY DEF RepairWorks
<1>1. CASE UNCHANGED vars
  <2>1. Problems' = Problems BY <1>1 DEF vars, Problems
  <2>. QED BY <1>1, <2>1 DEF vars, RepairWorks, Orphan, Reuses
<1>2. CASE Interrupted BY <1>2, MishapEffect DEF Interrupted
<1>3. CASE Credentials BY <1>3 DEF Credentials, Go, world
<1>4. CASE BuildIdentity
  <2>1. Problems' = Problems BY <1>4 DEF BuildIdentity, Problems, world
  <2>2. Mishap(AfterChecks) \/ Go(AfterChecks) BY <1>4, <2>1 DEF BuildIdentity
  <2>. QED BY <2>2, MishapEffect DEF Go, AfterChecks
<1>5. CASE BuildImage
  <2>1. job' = job /\ pc = "build" /\ ~CanBuild
    <3>1. CASE CanBuild
      <4>1. pc = "build" /\ Step(IF job.args.repair THEN "repair" ELSE "apply")
        BY <1>5, <3>1 DEF BuildImage
      <4>. QED BY <4>1 DEF Step
    <3>. QED BY <1>5, <3>1 DEF BuildImage, Go
  <2>2. Problems = {} /\ project.registry BY <2>1 DEF Inv, Checked
  <2>3. project["apis"] /\ project["account"] /\ project["role"]
    BY <2>2 DEF Problems
  <2>. QED BY <2>1, <2>2, <2>3 DEF CanBuild
<1>6. CASE RepairService
  <2>1. CASE Step("apply") BY <1>6, <2>1 DEF RepairService, Step
  <2>2. CASE ~Step("apply") BY <1>6, <2>2 DEF RepairService
  <2>. QED BY <2>1, <2>2
<1>7. CASE ApplyService
  <2>0. PICK s \in Services : s = job.next BY DEF TypeOK, Job
  <2>1. /\ pc = "apply" /\ ~job.args.plan_only /\ latest' = latest
        /\ Delivers(s) \/ Dies(s) \/ Passes(s) \/ Refuses(s)
    BY <1>7, <2>0 DEF ApplyService, Applying
  <2>2. ~Step("deployed") BY <2>1 DEF Step
  <2>3. ~Mishap("failed") BY MishapEffect
  <2>4. job' = job BY <2>1, <2>2, <2>3 DEF Delivers, Dies, Passes, Refuses, Go
  <2>5. Sane(s) BY <2>0, <2>1, <2>4, ServicesAreNumbers DEF Inv, Repaired
  <2>6. Image(s) # Nothing
    <3>1. CASE Reuses(job.args)
      <4>1. latest[s] # Nothing BY <2>1, <2>4, <3>1 DEF Reuses
      <4>. QED BY <3>1, <4>1 DEF Image, Tag
    <3>2. CASE ~Reuses(job.args) BY <3>2, TypeFacts DEF Image, Tag, Latest, Nothing
    <3>. QED BY <3>1, <3>2
  <2>7. ~Dies(s) BY <2>3, <2>6 DEF Dies
  <2>8. ~Passes(s) BY <2>2, <2>5, TypeFacts DEF Passes, Unchanged, Creates, Sane
  <2>9. Refuses(s) BY <2>1, <2>2, <2>7, <2>8 DEF Delivers
  <2>10. services[s].exists /\ ~services[s].known
    BY <2>5, <2>9 DEF Refuses, Blocked, Sane
  <2>. QED BY <2>9, <2>10 DEF Refuses, Orphan
<1>. QED
  BY <1>1, <1>2, <1>3, <1>4, <1>5, <1>6, <1>7
  DEF Next, Script, EnableApis, EnsureRegistry, ReadFacts, PlanOnly, Prepare, Invoke, Go

(* A project is never beyond repair, but for a service that a repair has   *)
(* forgotten without deleting it.                                          *)
THEOREM RepairDeploys == Spec => []RepairWorks
<1>1. Init => RepairWorks BY DEF Init, RepairWorks
<1>2. TypeOK /\ Inv /\ RepairWorks /\ [Next]_vars => RepairWorks' BY RepairNext
<1>. QED BY <1>1, <1>2, Invariance, PTL DEF Spec

=============================================================================
