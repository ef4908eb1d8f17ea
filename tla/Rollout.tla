------------------------------- MODULE Rollout ------------------------------
(***************************************************************************)
(* Deploying the system: scripts/deploy.py against a Google Cloud project. *)
(*                                                                         *)
(* The script checks what the project lacks, creates the registry, builds  *)
(* three images and lets Terraform apply the rest.  It may stop anywhere:  *)
(* a command fails, the operator interrupts it; and it is started again on *)
(* whatever the last run left behind.  Terraform and Cloud Run are modelled *)
(* by what the script's comments and the operator's guide report of them.  *)
(***************************************************************************)
EXTENDS Naturals

CONSTANTS
  Invocations,   \* the arguments the script is started with
  MaxRuns,       \* bound on how often
  MaxMishaps     \* bound on what goes wrong outside of the script

(* Images and services, in the order of IMAGES, which is also the one in   *)
(* which Terraform's dependencies bring the services up.                   *)
Services == 1 .. 3
Api == 2
Web == 3

(* A version is the tag of one deployment; the first was built by a script *)
(* that had only ":latest".                                                *)
Latest == 0
Nothing == 0
Old == 1
Versions == Old .. MaxRuns + 1

Arguments == [plan_only : BOOLEAN, skip_build : BOOLEAN, repair : BOOLEAN,
              enable_apis : BOOLEAN]

ASSUME RolloutAssumption ==
  /\ Invocations \subseteq Arguments
  /\ MaxRuns \in Nat /\ MaxMishaps \in Nat

VARIABLES
  login,      \* the application default credentials
  project,    \* what the project has, of what the script looks at
  latest,     \* the version ":latest" stands for, of each image
  bundle,     \* what each version of the web image was built with
  services,   \* each service, on Cloud Run and in Terraform's state
  pc, job,    \* the script: where it is, and its locals
  runs, mishaps, deployments

vars == <<login, project, latest, bundle, services, pc, job, runs, mishaps, deployments>>

Logins == {"none", "other_project", "usable"}

(* url and key: the outputs of an apply that got to the control plane.     *)
Project == [apis : BOOLEAN, account : BOOLEAN, role : BOOLEAN, registry : BOOLEAN,
            url : BOOLEAN, key : BOOLEAN]

(* exists, ready, runs: on Cloud Run; known, tainted, protected, tag: in   *)
(* Terraform's state.                                                      *)
Service == [exists : BOOLEAN, ready : BOOLEAN, runs : Versions \cup {Nothing},
            known : BOOLEAN, tainted : BOOLEAN, protected : BOOLEAN,
            tag : Versions \cup {Latest}]

Absent == [exists |-> FALSE, ready |-> FALSE, runs |-> Nothing, known |-> FALSE,
           tainted |-> FALSE, protected |-> FALSE, tag |-> Latest]

Facts == {"url", "key"}

(* next: the image or service the script is at; calm: nothing has gone     *)
(* wrong outside of this run.                                              *)
Job == [args : Arguments, version : Versions, seen : SUBSET Facts,
        next : Services, calm : BOOLEAN]

Working == {"credentials", "identity", "registry", "facts", "build", "repair", "apply"}
Stopped == {"idle", "failed", "deployed"}

(* A new project, in any state of preparation; or one where the former     *)
(* script stopped at service n, whose first revision never became ready.   *)
New == /\ project \in {p \in Project : /\ p.account => p.apis
                                       /\ p.role => p.account
                                       /\ ~p.registry /\ ~p.url /\ ~p.key}
       /\ latest = [s \in Services |-> Nothing]
       /\ services = [s \in Services |-> Absent]

Former(s, n) ==
  [Absent EXCEPT !.exists = TRUE, !.known = TRUE, !.protected = TRUE,
                 !.ready = s < n, !.tainted = s = n, !.runs = IF s < n THEN Old ELSE Nothing]

Inherited ==
  \E n \in Services :
    /\ project = [apis |-> TRUE, account |-> TRUE, role |-> TRUE, registry |-> TRUE,
                  url |-> n > Api, key |-> n > Api]
    /\ latest = [s \in Services |-> Old]
    /\ services = [s \in Services |-> IF s <= n THEN Former(s, n) ELSE Absent]

Init ==
  /\ New \/ Inherited
  /\ login \in Logins
  /\ bundle = [v \in Versions |-> {}]
  /\ pc = "idle"
  /\ job = [args |-> [plan_only |-> FALSE, skip_build |-> FALSE, repair |-> FALSE,
                      enable_apis |-> FALSE],
            version |-> Old, seen |-> {}, next |-> 1, calm |-> TRUE]
  /\ runs = 0 /\ mishaps = 0 /\ deployments = 0

world == <<login, project, latest, bundle, services>>
counts == <<runs, deployments>>

(***************************************************************************)
(* A run of the script                                                     *)
(***************************************************************************)

Invoke(args) ==
  /\ pc \in Stopped /\ runs < MaxRuns
  /\ runs' = runs + 1
  /\ pc' = "credentials"
  /\ job' = [args |-> args, version |-> Old + runs', seen |-> {}, next |-> 1, calm |-> TRUE]
  /\ UNCHANGED <<world, mishaps, deployments>>

Reuses(args) == args.plan_only \/ args.skip_build

Go(place) == pc' = place /\ UNCHANGED <<job, mishaps>>

(* Something goes wrong outside of the script, which goes on, or stops.    *)
Mishap(place) ==
  /\ mishaps < MaxMishaps /\ mishaps' = mishaps + 1
  /\ pc' = place /\ job' = [job EXCEPT !.calm = FALSE]

Interrupted == pc \in Working /\ Mishap("failed") /\ UNCHANGED <<world, counts>>

Credentials ==
  /\ pc = "credentials"
  /\ Go(IF login = "usable" THEN "identity" ELSE "failed")
  /\ UNCHANGED <<world, counts>>

(* Mutant: whether the account holds a role is not asked.                  *)
ProblemsLessRole == {x \in {"apis", "account"} : ~project[x]}

Problems == {x \in {"apis", "account", "role"} : ~project[x]}

AfterChecks == IF ~Reuses(job.args) THEN "registry"
               ELSE IF job.args.repair /\ ~job.args.plan_only THEN "repair" ELSE "apply"

(* All the problems at once.  What gcloud does not answer is not checked.  *)
BuildIdentity ==
  /\ pc = "identity"
  /\ \/ Problems = {} /\ Go(AfterChecks)
     \/ Problems # {} /\ ~(job.args.enable_apis /\ "apis" \in Problems) /\ Go("failed")
     \/ Mishap(AfterChecks)
  /\ UNCHANGED <<world, counts>>

(* Once: the account appears some time after its API, and the wait may be  *)
(* too short.                                                              *)
EnableApis ==
  /\ pc = "identity" /\ job.args.enable_apis /\ "apis" \in Problems
  /\ \E account \in BOOLEAN :
       project' = [project EXCEPT !.apis = TRUE, !.account = account]
  /\ job' = [job EXCEPT !.args.enable_apis = FALSE]
  /\ UNCHANGED <<login, latest, bundle, services, pc, mishaps, counts>>

(* A targeted apply, before anything is pushed.                            *)
EnsureRegistry ==
  /\ pc = "registry" /\ Go("facts")
  /\ project' = [project EXCEPT !.registry = TRUE]
  /\ UNCHANGED <<login, latest, bundle, services, counts>>

Known == {f \in Facts : project[f]}

(* Of an earlier apply; what cannot be read is not there.                  *)
ReadFacts ==
  /\ pc = "facts" /\ pc' = "build"
  /\ \/ job' = [job EXCEPT !.seen = Known] /\ UNCHANGED mishaps
     \/ /\ mishaps < MaxMishaps /\ mishaps' = mishaps + 1
        /\ \E seen \in SUBSET Known : job' = [job EXCEPT !.seen = seen, !.calm = FALSE]
  /\ UNCHANGED <<world, counts>>

(* What a build takes, on Cloud Build.                                     *)
CanBuild == \A x \in {"apis", "account", "role", "registry"} : project[x]

Pushed(s) ==
  /\ latest' = [latest EXCEPT ![s] = job.version]
  /\ bundle' = IF s = Web THEN [bundle EXCEPT ![job.version] = job.seen] ELSE bundle

(* Continue with the next image or service, and at the end with place.     *)
Step(place) ==
  /\ pc' = IF job.next = Web THEN place ELSE pc
  /\ job' = [job EXCEPT !.next = IF @ = Web THEN 1 ELSE @ + 1]
  /\ UNCHANGED mishaps

BuildImage ==
  /\ pc = "build"
  /\ IF CanBuild
       THEN Pushed(job.next) /\ Step(IF job.args.repair THEN "repair" ELSE "apply")
       ELSE Go("failed") /\ UNCHANGED <<latest, bundle>>
  /\ UNCHANGED <<login, project, services, counts>>

(* Mutant: repairing is untainting.                                        *)
NeverBroken(s) == FALSE

(* Its latest revision never became ready.                                 *)
Broken(s) == services[s].exists /\ ~services[s].ready

Becomes(s, service) == services' = [services EXCEPT ![s] = service]

(* A service of the state is untainted and, when it is broken, deleted and *)
(* dropped from the state, also when gcloud could not delete it.           *)
RepairService ==
  LET s == job.next
      untainted == [services[s] EXCEPT !.tainted = FALSE]
  IN  /\ pc = "repair"
      /\ \/ ~services[s].known /\ UNCHANGED services /\ Step("apply")
         \/ services[s].known /\ ~Broken(s) /\ Becomes(s, untainted) /\ Step("apply")
         \/ services[s].known /\ Broken(s) /\ Becomes(s, Absent) /\ Step("apply")
         \/ /\ services[s].known /\ Broken(s) /\ mishaps < MaxMishaps
            /\ Becomes(s, [untainted EXCEPT !.known = FALSE])
            /\ pc' = IF s = Web THEN "apply" ELSE pc
            /\ job' = [job EXCEPT !.next = IF s = Web THEN 1 ELSE s + 1, !.calm = FALSE]
            /\ mishaps' = mishaps + 1
      /\ UNCHANGED <<login, project, latest, bundle, counts>>

(***************************************************************************)
(* terraform apply, a service at a time                                    *)
(***************************************************************************)

(* Mutant: the images just built are referred to as ":latest".             *)
LatestTag == Latest

Tag == IF Reuses(job.args) THEN Latest ELSE job.version

Image(s) == IF Tag = Latest THEN latest[s] ELSE Tag

(* Terraform creates what it does not know or is gone, and replaces what   *)
(* is tainted; anything else it updates, if the tag is another string.     *)
Creates(s) == ~services[s].known \/ ~services[s].exists \/ services[s].tainted

Blocked(s) == \/ ~services[s].known /\ services[s].exists
              \/ services[s].tainted /\ services[s].protected /\ services[s].exists

Unchanged(s) == ~Creates(s) /\ services[s].tag = Tag

Healthy(s) == [exists |-> TRUE, ready |-> TRUE, runs |-> Image(s), known |-> TRUE,
               tainted |-> FALSE, protected |-> FALSE, tag |-> Tag]

(* The new revision does not start: an update leaves the old one running.  *)
Dead(s) == [Healthy(s) EXCEPT !.ready = FALSE, !.tainted = Creates(s),
                              !.runs = IF Creates(s) THEN Nothing ELSE services[s].runs]

(* The secrets come before the control plane, and its URL with it.         *)
Outputs(s, up) ==
  project' = IF s = Api THEN [project EXCEPT !.key = TRUE, !.url = @ \/ up] ELSE project

Applying == pc = "apply" /\ ~job.args.plan_only

Delivers(s) ==
  /\ ~Blocked(s) /\ ~Unchanged(s) /\ Image(s) # Nothing
  /\ Becomes(s, Healthy(s)) /\ Outputs(s, TRUE) /\ Step("deployed")

(* The image is missing, or the project not quite ready.                   *)
Dies(s) ==
  /\ ~Blocked(s) /\ ~Unchanged(s)
  /\ Becomes(s, Dead(s)) /\ Outputs(s, FALSE)
  /\ IF Image(s) = Nothing THEN Go("failed") ELSE Mishap("failed")

(* An update of something else reports the state of the old revision.      *)
Passes(s) ==
  /\ Unchanged(s) /\ UNCHANGED services
  /\ \/ Outputs(s, TRUE) /\ Step("deployed")
     \/ ~services[s].ready /\ Outputs(s, FALSE) /\ Go("failed")

Refuses(s) == Blocked(s) /\ Go("failed") /\ UNCHANGED <<services, project>>

ApplyService ==
  /\ Applying
  /\ LET s == job.next IN Delivers(s) \/ Dies(s) \/ Passes(s) \/ Refuses(s)
  /\ deployments' = IF pc' = "deployed" THEN deployments + 1 ELSE deployments
  /\ UNCHANGED <<login, latest, bundle, runs>>

PlanOnly ==
  /\ pc = "apply" /\ job.args.plan_only /\ Go("idle")
  /\ UNCHANGED <<world, counts>>

(***************************************************************************)
(* The operator does what a failed run told them to.                       *)
(***************************************************************************)
Prepare ==
  /\ pc = "failed" /\ pc' = "idle"
  /\ \/ login' = "usable" /\ UNCHANGED project
     \/ /\ project' = [project EXCEPT !.apis = TRUE, !.account = TRUE,
                                      !.role = @ \/ project.account]
        /\ UNCHANGED login
  /\ UNCHANGED <<latest, bundle, services, job, mishaps, counts>>

Script ==
  \/ Interrupted \/ Credentials \/ BuildIdentity \/ EnableApis \/ EnsureRegistry
  \/ ReadFacts \/ BuildImage \/ RepairService \/ ApplyService \/ PlanOnly

Next == Script \/ Prepare \/ \E args \in Invocations : Invoke(args)

Spec == Init /\ [][Next]_vars

(***************************************************************************)
(* Properties                                                              *)
(***************************************************************************)

TypeOK ==
  /\ login \in Logins /\ project \in Project
  /\ latest \in [Services -> Versions \cup {Nothing}]
  /\ bundle \in [Versions -> SUBSET Facts]
  /\ services \in [Services -> Service]
  /\ pc \in Working \cup Stopped /\ job \in Job
  /\ runs \in 0 .. MaxRuns /\ mishaps \in 0 .. MaxMishaps /\ deployments \in Nat

(* When the script says "ACC deployed" after building, the images it built *)
(* are what runs, whatever the runs before it left (ADR-049: it succeeded  *)
(* three times in a row while shipping nothing); and Mission Control was   *)
(* built with the URL and the key, if this is not the first deployment.    *)
ShipsTheBuild ==
  pc = "deployed" /\ ~Reuses(job.args) =>
    /\ \A s \in Services : services[s].ready /\ services[s].runs = job.version
    /\ deployments > 1 /\ job.calm => bundle[services[Web].runs] = Facts

(* No image is built that is bound to fail: what a build needs has been    *)
(* looked at, or made, before the first one is submitted.                  *)
NoDoomedBuild ==
  pc = "build" /\ job.calm => login = "usable" /\ CanBuild

Orphan == \E s \in Services : services[s].exists /\ ~services[s].known

(* --repair gets out of whatever failed runs have left: given what the     *)
(* checks ask for and images to deploy, a run that meets no new mishap     *)
(* deploys.  Unless a repair has dropped a service from the state that it  *)
(* had failed to delete: no later one looks at it.                         *)
RepairWorks ==
  /\ pc = "failed" /\ job.args.repair /\ job.calm
  /\ login = "usable" /\ Problems = {}
  /\ Reuses(job.args) => \A s \in Services : latest[s] # Nothing
  => Orphan

=============================================================================
