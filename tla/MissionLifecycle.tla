-------------------------- MODULE MissionLifecycle --------------------------
(***************************************************************************)
(* What Autonomous Mission Control promises of a mission, with no engine,  *)
(* no events and no approvals store: its tasks are done in the order of    *)
(* the chain and for good, a purchase beyond autonomous authority is made  *)
(* only after a human granted it, the mission is COMPLETED only with every *)
(* task done, and it is never left hanging without asking a human.         *)
(***************************************************************************)
EXTENDS Naturals

CONSTANTS NumTasks, Buyers, Offers, Governed

VARIABLES
  phase,    \* "CREATED", "RUNNING", or how the mission ended
  done,     \* the tasks completed
  granted,  \* the purchases a human authorised
  asking    \* a human has a decision to take

vars == <<phase, done, granted, asking>>

Chain    == 1 .. NumTasks
Outcomes == {"COMPLETED", "FAILED", "ABORTED"}

Init == phase = "CREATED" /\ done = {} /\ granted = {} /\ asking = FALSE

Begin ==
  /\ phase = "CREATED" /\ phase' = "RUNNING"
  /\ UNCHANGED <<done, granted, asking>>

MayBuy == granted # {} \/ Offers # Governed

DoTask(t) ==
  /\ phase = "RUNNING"
  /\ t \notin done /\ 1 .. (t - 1) \subseteq done
  /\ t \in Buyers => MayBuy
  /\ done' = done \cup {t}
  /\ UNCHANGED <<phase, granted, asking>>

Finish(outcome) ==
  /\ phase = "RUNNING" /\ phase' = outcome
  /\ outcome = "COMPLETED" => done = Chain
  /\ UNCHANGED <<done, granted, asking>>

Ask ==
  /\ phase = "RUNNING" /\ asking' = TRUE
  /\ UNCHANGED <<phase, done, granted>>

Answer ==
  /\ asking /\ asking' \in BOOLEAN
  /\ \/ UNCHANGED granted
     \/ \E o \in Governed : granted' = granted \cup {o}
  /\ UNCHANGED <<phase, done>>

Work == (\E t \in Chain : DoTask(t)) \/ (\E outcome \in Outcomes : Finish(outcome)) \/ Ask

Next == Begin \/ Work \/ Answer

(* The mission keeps moving for as long as it waits for nobody.            *)
Progress == ~asking /\ Work

Spec == Init /\ [][Next]_vars /\ WF_vars(Progress)

=============================================================================
