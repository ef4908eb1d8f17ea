------------------------- MODULE CircuitBreakerProofs -------------------------
(***************************************************************************)
(* CircuitBreaker for every threshold, cooldown, set of tools and callers. *)
(***************************************************************************)
EXTENDS CircuitBreaker, TLAPS

(* What a step does to the tool it concerns.                               *)
ToolStep(c, t) ==
  \/ Admit(c, t) \/ AdmitHalfOpen(c, t)
  \/ Succeed(c, t) \/ FailByStatus(c, t) \/ FailByTransport(c, t) \/ Cancel(c, t)

LEMMA NextSteps == Next <=> Tick \/ \E c \in Callers, t \in Tools : ToolStep(c, t)
BY DEF Next, Return, ToolStep

(***************************************************************************)
(* Types                                                                   *)
(***************************************************************************)

LEMMA TypeInit == Init => TypeOK
BY BreakerAssumption DEF Init, TypeOK, NoStamp

LEMMA CountType ==
  ASSUME TypeOK, NEW t \in Tools, NEW outcome \in AllOutcomes, CountFailure(t, outcome)
  PROVE  /\ failures' \in [Tools -> 0 .. Threshold] /\ streak' \in [Tools -> 0 .. Threshold]
         /\ openFor' \in [Tools -> 0 .. Cooldown]
         /\ openedBy' \in [Tools -> {"none"} \cup AllOutcomes]
BY BreakerAssumption DEF TypeOK, CountFailure, UpTo

LEMMA ToolStepType ==
  ASSUME TypeOK, NEW c \in Callers, NEW t \in Tools, ToolStep(c, t)
  PROVE  TypeOK'
<1>1. CASE Admit(c, t)
  BY <1>1 DEF TypeOK, Admit
<1>2. CASE AdmitHalfOpen(c, t)
  BY <1>2, BreakerAssumption DEF TypeOK, AdmitHalfOpen, HalfOpenCount, ClearStamp, NoStamp
<1>3. CASE Succeed(c, t)
  BY <1>3, BreakerAssumption DEF TypeOK, Succeed, Back, ResetCount
<1>4. CASE FailByStatus(c, t)
  BY <1>4, CountType DEF TypeOK, FailByStatus, Back, AllOutcomes
<1>5. CASE FailByTransport(c, t)
  BY <1>5, CountType, BreakerAssumption DEF TypeOK, FailByTransport, Back, StampOpening, AllOutcomes
<1>6. CASE Cancel(c, t)
  BY <1>6 DEF TypeOK, Cancel, Back
<1> QED BY <1>1, <1>2, <1>3, <1>4, <1>5, <1>6 DEF ToolStep

LEMMA TickType == TypeOK /\ Tick => TypeOK'
BY BreakerAssumption DEF TypeOK, Tick, UpTo, NoStamp

(* The counters and ages stay within the limits they are compared with.    *)
THEOREM BreakerTypes == Spec => []TypeOK
<1>1. ASSUME TypeOK, [Next]_vars PROVE TypeOK'
  <2>1. CASE UNCHANGED vars
    BY <1>1, <2>1 DEF TypeOK, vars
  <2> QED BY <1>1, <2>1, NextSteps, ToolStepType, TickType
<1> QED BY TypeInit, <1>1, PTL DEF Spec

(***************************************************************************)
(* Why the breaker is open                                                 *)
(***************************************************************************)

(* The counter is the run of failures, but for the one that half-open      *)
(* takes back from a run that opened the breaker.                          *)
Counted(t) ==
  \/ streak[t] < Threshold /\ failures[t] = streak[t]
  \/ streak[t] = Threshold /\ failures[t] \in {Threshold - 1, Threshold}

CountInv == \A t \in Tools : Counted(t)

LEMMA ToolStepCount ==
  ASSUME TypeOK, CountInv, NEW c \in Callers, NEW t \in Tools, ToolStep(c, t)
  PROVE  CountInv'
<1> SUFFICES ASSUME NEW s \in Tools PROVE Counted(s)'
  BY DEF CountInv
<1>1. CASE s # t
  BY <1>1 DEF TypeOK, CountInv, Counted, ToolStep, Admit, AdmitHalfOpen, Succeed, ResetCount,
              FailByStatus, FailByTransport, CountFailure, Cancel
<1>2. CASE s = t /\ AdmitHalfOpen(c, t)
  BY <1>2, BreakerAssumption DEF TypeOK, CountInv, Counted, AdmitHalfOpen, HalfOpenCount, Tripped
<1>3. CASE s = t /\ Succeed(c, t)
  BY <1>3, BreakerAssumption DEF TypeOK, Counted, Succeed, ResetCount
<1>4. CASE s = t /\ \E outcome : CountFailure(t, outcome)
  BY <1>4, BreakerAssumption DEF TypeOK, CountInv, Counted, CountFailure, UpTo
<1>5. CASE s = t /\ (Admit(c, t) \/ Cancel(c, t))
  BY <1>5 DEF TypeOK, CountInv, Counted, Admit, Cancel
<1> QED BY <1>1, <1>2, <1>3, <1>4, <1>5 DEF ToolStep, FailByStatus, FailByTransport

LEMMA CountInvariant == Spec => []CountInv
<1>1. Init => CountInv
  <2> SUFFICES ASSUME Init, NEW t \in Tools PROVE Counted(t)
    BY DEF CountInv
  <2>1. failures[t] = 0 /\ streak[t] = 0 /\ 0 < Threshold
    BY BreakerAssumption DEF Init
  <2> QED BY <2>1 DEF Counted
<1>2. ASSUME TypeOK, CountInv, [Next]_vars PROVE CountInv'
  <2>1. CASE UNCHANGED vars \/ Tick
    BY <1>2, <2>1 DEF CountInv, Counted, vars, Tick
  <2> QED BY <1>2, <2>1, NextSteps, ToolStepCount
<1> QED BY <1>1, <1>2, BreakerTypes, PTL DEF Spec

(* The breaker opens on consecutive failures only, whatever overlaps and   *)
(* however requests fail.                                                  *)
THEOREM OpensForCause == Spec => []OpenForCause
<1>1. TypeOK /\ CountInv => OpenForCause
  BY BreakerAssumption DEF TypeOK, CountInv, Counted, OpenForCause, Tripped
<1> QED BY <1>1, BreakerTypes, CountInvariant, PTL

(* Half-open is a probe: one more failure opens the breaker again.         *)
THEOREM HalfOpenIsAProbe == Spec => []ReopensAtOnce
<1>1. CountInv => ReopensAtOnce
  BY BreakerAssumption DEF CountInv, Counted, ReopensAtOnce
<1> QED BY <1>1, CountInvariant, PTL

(***************************************************************************)
(* The cooldown                                                            *)
(***************************************************************************)

(* Every transport failure that opens the breaker of a gated tool stamps   *)
(* it, whatever overlaps; what opens without a stamp is an error response. *)
THEOREM OpenKnowsItsCooldown == Spec => []OpenHasCooldown
<1>1. Init => OpenHasCooldown
  BY BreakerAssumption DEF Init, OpenHasCooldown, Tripped
<1>2. ASSUME TypeOK, OpenHasCooldown, NEW c \in Callers, NEW t \in Tools, ToolStep(c, t)
      PROVE  OpenHasCooldown'
  <2> SUFFICES ASSUME NEW s \in Tools \ Ungated, Tripped(s)', age'[s] = NoStamp
               PROVE  openedBy'[s] = "http"
    BY DEF OpenHasCooldown
  <2>1. CASE s # t
    BY <1>2, <2>1 DEF TypeOK, OpenHasCooldown, Tripped, ToolStep, Admit, AdmitHalfOpen, ClearStamp,
                      Succeed, ResetCount, FailByStatus, FailByTransport, CountFailure,
                      StampOpening, Cancel
  <2>2. CASE s = t /\ AdmitHalfOpen(c, t)
    BY <1>2, <2>2, BreakerAssumption DEF TypeOK, AdmitHalfOpen, HalfOpenCount, Tripped
  <2>3. CASE s = t /\ Succeed(c, t)
    BY <1>2, <2>3, BreakerAssumption DEF TypeOK, Succeed, ResetCount, Tripped
  <2>4. CASE s = t /\ FailByStatus(c, t)
    <3>1. age[t] = NoStamp /\ failures[t] \in 0 .. Threshold
      BY <1>2, <2>4 DEF TypeOK, FailByStatus
    <3>2. CASE failures[t] = Threshold - 1
      BY <1>2, <2>4, <3>2 DEF TypeOK, FailByStatus, CountFailure
    <3>3. CASE failures[t] # Threshold - 1
      <4>1. Tripped(t)
        BY <1>2, <2>4, <3>1, <3>3, BreakerAssumption DEF TypeOK, FailByStatus, CountFailure, UpTo, Tripped
      <4>2. openedBy'[t] = openedBy[t]
        BY <1>2, <2>4, <3>3 DEF TypeOK, FailByStatus, CountFailure
      <4>3. QED
        BY <1>2, <2>4, <3>1, <4>1, <4>2 DEF OpenHasCooldown
    <3>4. QED
      BY <3>2, <3>3
  <2>5. CASE s = t /\ FailByTransport(c, t)
    BY <1>2, <2>5, BreakerAssumption DEF TypeOK, FailByTransport, StampOpening, Tripped, NoStamp
  <2>6. CASE s = t /\ (Admit(c, t) \/ Cancel(c, t))
    BY <1>2, <2>6 DEF OpenHasCooldown, Tripped, Admit, Cancel
  <2> QED BY <1>2, <2>1, <2>2, <2>3, <2>4, <2>5, <2>6 DEF ToolStep
<1>3. ASSUME TypeOK, OpenHasCooldown, Tick PROVE OpenHasCooldown'
  BY <1>3, BreakerAssumption DEF TypeOK, OpenHasCooldown, Tripped, Tick, UpTo, NoStamp
<1>4. ASSUME TypeOK, OpenHasCooldown, [Next]_vars PROVE OpenHasCooldown'
  <2>1. CASE UNCHANGED vars
    BY <1>4, <2>1 DEF OpenHasCooldown, Tripped, vars
  <2> QED BY <1>2, <1>3, <1>4, <2>1, NextSteps
<1> QED BY <1>1, <1>4, TypeInit, BreakerTypes, PTL DEF Spec

(* A gated tool that is called by one at a time.                           *)
Serial == Tools \ (Ungated \cup Parallel)

(* Whoever awaits a serial tool found its breaker closed, so that nothing  *)
(* but a probe ends an opening, and a stamp is as old as the opening.      *)
StampInv ==
  \A t \in Serial :
    /\ \A c, d \in Callers : awaits[c] = {t} /\ awaits[d] = {t} => c = d
    /\ \A c \in Callers : awaits[c] = {t} => ~Tripped(t)
    /\ age[t] # NoStamp => Tripped(t) /\ age[t] <= openFor[t]

LEMMA ToolStepStamp ==
  ASSUME TypeOK, StampInv, NEW c \in Callers, NEW t \in Tools, ToolStep(c, t)
  PROVE  StampInv'
<1> SUFFICES ASSUME NEW s \in Serial
             PROVE  /\ \A b, d \in Callers : awaits'[b] = {s} /\ awaits'[d] = {s} => b = d
                    /\ \A d \in Callers : awaits'[d] = {s} => ~Tripped(s)'
                    /\ age'[s] # NoStamp => Tripped(s)' /\ age'[s] <= openFor'[s]
  BY DEF StampInv
<1>0. s \in Tools /\ s \notin Ungated /\ s \notin Parallel
  BY DEF Serial
<1>1. CASE s # t
  <2>1. failures'[s] = failures[s] /\ age'[s] = age[s] /\ openFor'[s] = openFor[s]
    BY <1>0, <1>1 DEF TypeOK, ToolStep, Admit, AdmitHalfOpen, ClearStamp, Succeed, ResetCount,
        FailByStatus, FailByTransport, CountFailure, StampOpening, Cancel
  <2>2. \A d \in Callers : awaits'[d] = {s} => awaits[d] = {s}
    BY <1>1 DEF TypeOK, ToolStep, Admit, AdmitHalfOpen, Succeed, FailByStatus, FailByTransport,
        Cancel, Back
  <2> QED BY <2>1, <2>2 DEF StampInv, Tripped
<1>2. CASE s = t /\ (Admit(c, t) \/ AdmitHalfOpen(c, t))
  <2>1. /\ \A d \in Callers : awaits[d] # {t}
        /\ awaits' = [awaits EXCEPT ![c] = {t}]
    BY <1>0, <1>2 DEF Admit, AdmitHalfOpen, MayCall
  <2>2. \A b, d \in Callers : awaits'[b] = {t} /\ awaits'[d] = {t} => b = d
    BY <2>1 DEF TypeOK
  <2>3. ~Tripped(t)' /\ (age'[t] = NoStamp \/ UNCHANGED <<failures, age, openFor>>)
    BY <1>0, <1>2, BreakerAssumption
    DEF TypeOK, Admit, AdmitHalfOpen, ClearStamp, HalfOpenCount, Tripped
  <2>4. age'[t] = NoStamp
    BY <1>2, <2>3 DEF StampInv, Tripped
  <2> QED BY <1>2, <2>2, <2>3, <2>4
<1>3. CASE s = t /\ (Succeed(c, t) \/ FailByStatus(c, t) \/ FailByTransport(c, t) \/ Cancel(c, t))
  <2>1. awaits[c] = {t} /\ awaits' = [awaits EXCEPT ![c] = {}]
    BY <1>3 DEF Succeed, FailByStatus, FailByTransport, Cancel, Back
  <2>2. \A d \in Callers : awaits'[d] # {t}
    BY <1>3, <2>1 DEF TypeOK, StampInv
  <2>3. ~Tripped(t) /\ age[t] = NoStamp
    BY <1>3, <2>1 DEF StampInv
  <2>4. age'[t] # NoStamp => Tripped(t)' /\ age'[t] = 0 /\ openFor'[t] = 0
    <3>1. CASE FailByTransport(c, t)
      <4>1. failures[t] \in 0 .. Threshold - 1
        BY <2>3, BreakerAssumption DEF TypeOK, Tripped
      <4>2. age'[t] # NoStamp => failures'[t] >= Threshold /\ age'[t] = 0
        BY <2>3, <3>1 DEF TypeOK, FailByTransport, StampOpening
      <4>3. failures'[t] >= Threshold => failures[t] = Threshold - 1
        BY <3>1, <4>1, BreakerAssumption DEF TypeOK, FailByTransport, CountFailure, UpTo
      <4>4. failures[t] = Threshold - 1 => openFor'[t] = 0
        BY <3>1 DEF TypeOK, FailByTransport, CountFailure
      <4> QED BY <4>2, <4>3, <4>4 DEF Tripped
    <3>2. CASE Succeed(c, t) \/ FailByStatus(c, t) \/ Cancel(c, t)
      BY <2>3, <3>2 DEF Succeed, FailByStatus, Cancel
    <3> QED BY <1>3, <3>1, <3>2
  <2> QED BY <1>3, <2>2, <2>4
<1> QED BY <1>1, <1>2, <1>3 DEF ToolStep

LEMMA TickStamp == TypeOK /\ StampInv /\ Tick => StampInv'
<1> SUFFICES ASSUME TypeOK, StampInv, Tick, NEW t \in Serial
             PROVE  age'[t] # NoStamp => Tripped(t) /\ age'[t] <= openFor'[t]
  BY DEF StampInv, Tick, Tripped
<1>1. t \in Tools
  BY DEF Serial
<1>2. age[t] \in {NoStamp} \cup 0 .. Cooldown /\ openFor[t] \in 0 .. Cooldown
  BY <1>1 DEF TypeOK
<1>3. /\ age'[t] = (IF age[t] = NoStamp THEN NoStamp ELSE UpTo(Cooldown, age[t] + 1))
      /\ openFor'[t] = UpTo(Cooldown, openFor[t] + 1)
  BY <1>1 DEF Tick
<1>4. age[t] # NoStamp => Tripped(t) /\ age[t] <= openFor[t]
  BY DEF StampInv
<1> QED BY <1>2, <1>3, <1>4, BreakerAssumption DEF UpTo, NoStamp

LEMMA StampInvariant == Spec => []StampInv
<1>1. Init => StampInv
  BY BreakerAssumption DEF Init, StampInv, Serial, Tripped
<1>2. ASSUME TypeOK, StampInv, [Next]_vars PROVE StampInv'
  <2>1. CASE UNCHANGED vars
    BY <1>2, <2>1 DEF StampInv, Tripped, vars
  <2> QED BY <1>2, <2>1, NextSteps, ToolStepStamp, TickStamp
<1> QED BY <1>1, <1>2, BreakerTypes, PTL DEF Spec

(* Each time the breaker of a serial tool opens, the tool is left alone    *)
(* for the whole cooldown, however its requests fail.                      *)
THEOREM CooldownIsHonoured == Spec => CooldownHonoured
<1>1. ASSUME TypeOK, StampInv, [Next]_vars, NEW t \in Serial, Tripped(t), failures'[t] < Threshold
      PROVE  openFor[t] >= Cooldown
  <2>0. t \in Tools /\ failures[t] \in 0 .. Threshold
    BY <1>1 DEF Serial, TypeOK
  <2>1. failures'[t] # failures[t]
    BY <1>1, <2>0, BreakerAssumption DEF Tripped
  <2>2. PICK c \in Callers, s \in Tools : ToolStep(c, s)
    BY <1>1, <2>1, NextSteps DEF vars, Tick
  <2>3. s = t
    BY <1>1, <2>0, <2>1, <2>2 DEF TypeOK, ToolStep, Admit, AdmitHalfOpen, Succeed, ResetCount,
                           FailByStatus, FailByTransport, CountFailure, Cancel
  <2>4. awaits[c] # {t}
    BY <1>1 DEF StampInv
  <2>5. AdmitHalfOpen(c, t)
    BY <2>1, <2>2, <2>3, <2>4 DEF ToolStep, Succeed, FailByStatus, FailByTransport, Cancel, Back,
                                   Admit
  <2>6. age[t] # NoStamp /\ age[t] >= Cooldown /\ age[t] <= openFor[t]
    BY <1>1, <2>5 DEF AdmitHalfOpen, Cooled, StampInv
  <2>7. age[t] \in Int /\ openFor[t] \in Int /\ Cooldown \in Int
    BY <1>1, <2>0, BreakerAssumption DEF TypeOK, NoStamp
  <2> QED BY <2>6, <2>7
<1>2. TypeOK /\ StampInv /\ [Next]_vars =>
        [\A t \in Serial : Tripped(t) /\ failures'[t] < Threshold => openFor[t] >= Cooldown]_vars
  BY <1>1
<1> QED BY <1>2, BreakerTypes, StampInvariant, PTL DEF Spec, CooldownHonoured, Serial

=============================================================================
