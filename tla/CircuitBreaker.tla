---------------------------- MODULE CircuitBreaker ----------------------------
(***************************************************************************)
(* The circuit breaker of EnterpriseToolClient.  Its counters live in one  *)
(* process, and a call suspends only while it awaits the HTTP response: an *)
(* action is the code before that await, or the code after it.  A call the *)
(* open breaker refuses changes nothing.                                   *)
(*                                                                         *)
(* Time passes in ticks, Cooldown of which make _breaker_cooldown_s.       *)
(***************************************************************************)
EXTENDS Integers

CONSTANTS
  Tools, Ungated,  \* the tools, and UNGATED_TOOLS among them
  Parallel,        \* the tools that are called while a call to them is under way
  Callers,         \* the calls that can be under way at once
  Threshold, Cooldown,
  Outcomes         \* per tool, what can become of a request

(* "success";  "http": a response with status 400 or more;  "transport":   *)
(* the client raises, as on a timeout or a refused connection;             *)
(* "cancelled": the agent's own timeout, which except Exception lets by.   *)
AllOutcomes == {"success", "http", "transport", "cancelled"}

ASSUME BreakerAssumption ==
  /\ Ungated \subseteq Tools /\ Parallel \subseteq Tools
  /\ Threshold \in Nat \ {0} /\ Cooldown \in Nat \ {0}
  /\ Outcomes \in [Tools -> SUBSET AllOutcomes]

VARIABLES
  failures,   \* _consecutive_failures, counted up to Threshold
  age,        \* ticks since _opened_at, up to Cooldown; NoStamp when it has no entry
  awaits,     \* the tools whose response a caller awaits: one, or none
  streak,     \* history: requests that failed since one succeeded, up to Threshold
  openFor,    \* history: ticks since failures last reached Threshold, up to Cooldown
  openedBy    \* history: how the request ended that made them reach it

vars == <<failures, age, awaits, streak, openFor, openedBy>>

NoStamp == -1

(* What is compared with one limit only is counted up to that limit.       *)
UpTo(limit, n) == IF n < limit THEN n ELSE limit

Init ==
  /\ failures = [t \in Tools |-> 0]
  /\ age = [t \in Tools |-> NoStamp]
  /\ awaits = [c \in Callers |-> {}]
  /\ streak = [t \in Tools |-> 0]
  /\ openFor = [t \in Tools |-> 0]
  /\ openedBy = [t \in Tools |-> "none"]

Tripped(t) == failures[t] >= Threshold

(***************************************************************************)
(* call, up to the request                                                 *)
(***************************************************************************)

Cooled(t) == age[t] # NoStamp /\ age[t] >= Cooldown

(* Mutant: the stamp of the last opening is kept.                          *)
KeepStamp(t) == UNCHANGED age

ClearStamp(t) == age' = [age EXCEPT ![t] = NoStamp]

(* Mutant: half-open takes no failure back.                                *)
HalfOpenTripped == Threshold

HalfOpenCount == Threshold - 1

MayCall(c, t) ==
  /\ awaits[c] = {}
  /\ t \notin Parallel => \A d \in Callers : awaits[d] # {t}

(* The breaker is closed, or does not gate the tool.                       *)
Admit(c, t) ==
  /\ MayCall(c, t)
  /\ t \in Ungated \/ ~Tripped(t)
  /\ awaits' = [awaits EXCEPT ![c] = {t}]
  /\ UNCHANGED <<failures, age, streak, openFor, openedBy>>

(* "Half-open: let one call through and judge on its result."              *)
AdmitHalfOpen(c, t) ==
  /\ MayCall(c, t)
  /\ t \notin Ungated /\ Tripped(t) /\ Cooled(t)
  /\ failures' = [failures EXCEPT ![t] = HalfOpenCount]
  /\ ClearStamp(t)
  /\ awaits' = [awaits EXCEPT ![c] = {t}]
  /\ UNCHANGED <<streak, openFor, openedBy>>

(***************************************************************************)
(* call, after the request                                                 *)
(***************************************************************************)

Back(c, t) == awaits[c] = {t} /\ awaits' = [awaits EXCEPT ![c] = {}]

(* Mutant: a success does not end the run of failures.                     *)
KeepCounting(t) == UNCHANGED failures

ResetCount(t) == failures' = [failures EXCEPT ![t] = 0]

Succeed(c, t) ==
  /\ "success" \in Outcomes[t] /\ Back(c, t)
  /\ ResetCount(t)
  /\ streak' = [streak EXCEPT ![t] = 0]
  /\ UNCHANGED <<age, openFor, openedBy>>

CountFailure(t, outcome) ==
  LET opens == failures[t] = Threshold - 1 IN
  /\ failures' = [failures EXCEPT ![t] = UpTo(Threshold, @ + 1)]
  /\ streak' = [streak EXCEPT ![t] = UpTo(Threshold, @ + 1)]
  /\ openFor' = [openFor EXCEPT ![t] = IF opens THEN 0 ELSE @]
  /\ openedBy' = [openedBy EXCEPT ![t] = IF opens THEN outcome ELSE @]

(* An error response is counted and returned; the breaker it opens has no  *)
(* stamp.                                                                  *)
FailByStatus(c, t) ==
  /\ "http" \in Outcomes[t] /\ Back(c, t)
  /\ CountFailure(t, "http")
  /\ UNCHANGED age

(* Mutant: the stamp comes one failure late.                               *)
StampLate(t) ==
  age' = IF Tripped(t) /\ age[t] = NoStamp THEN [age EXCEPT ![t] = 0] ELSE age

(* setdefault: an older stamp stays.                                       *)
StampOpening(t) ==
  age' = IF failures'[t] >= Threshold /\ age[t] = NoStamp THEN [age EXCEPT ![t] = 0] ELSE age

FailByTransport(c, t) ==
  /\ "transport" \in Outcomes[t] /\ Back(c, t)
  /\ CountFailure(t, "transport")
  /\ StampOpening(t)

Cancel(c, t) ==
  /\ "cancelled" \in Outcomes[t] /\ Back(c, t)
  /\ UNCHANGED <<failures, age, streak, openFor, openedBy>>

Tick ==
  /\ age' = [t \in Tools |-> IF age[t] = NoStamp THEN NoStamp ELSE UpTo(Cooldown, age[t] + 1)]
  /\ openFor' = [t \in Tools |-> UpTo(Cooldown, openFor[t] + 1)]
  /\ UNCHANGED <<failures, awaits, streak, openedBy>>

(***************************************************************************)
(* Specification                                                           *)
(***************************************************************************)

Return(c) ==
  \E t \in Tools : Succeed(c, t) \/ FailByStatus(c, t) \/ FailByTransport(c, t) \/ Cancel(c, t)

Next ==
  \/ \E c \in Callers :
       \/ \E t \in Tools : Admit(c, t) \/ AdmitHalfOpen(c, t)
       \/ Return(c)
  \/ Tick

Spec == Init /\ [][Next]_vars

(* Time passes, and requests end: the client has a timeout.  Nobody has to *)
(* call.                                                                   *)
FairSpec == Spec /\ WF_vars(Tick) /\ \A c \in Callers : WF_vars(Return(c))

(***************************************************************************)
(* Properties                                                              *)
(***************************************************************************)

TypeOK ==
  /\ failures \in [Tools -> 0 .. Threshold] /\ streak \in [Tools -> 0 .. Threshold]
  /\ age \in [Tools -> {NoStamp} \cup 0 .. Cooldown] /\ openFor \in [Tools -> 0 .. Cooldown]
  /\ awaits \in [Callers -> {{}} \cup {{t} : t \in Tools}]
  /\ openedBy \in [Tools -> {"none"} \cup AllOutcomes]

(* "A breaker that only closes on success can never close": an open one    *)
(* has the stamp its cooldown is counted from, unless it was an error      *)
(* response that opened it, and whatever calls were under way then.        *)
OpenHasCooldown ==
  \A t \in Tools \ Ungated : Tripped(t) /\ age[t] = NoStamp => openedBy[t] = "http"

(* A breaker that a transport failure opened is never a permanent outage:  *)
(* there comes a moment at which a call would be let through (ADR-069),    *)
(* also with error responses before and after the opening.                 *)
CoolsDown ==
  \A t \in Tools \ Ungated :
    Tripped(t) /\ openedBy[t] = "transport" ~> ~Tripped(t) \/ Cooled(t)

(* The breaker opens on consecutive failures only: what succeeded in       *)
(* between counts, whatever was under way at the time.                     *)
OpenForCause == \A t \in Tools : Tripped(t) => streak[t] = Threshold

(* Half-open is a probe, not a clean slate: as long as nothing succeeded,  *)
(* one more failure opens the breaker again (ADR-069).                     *)
ReopensAtOnce == \A t \in Tools : streak[t] = Threshold => failures[t] >= Threshold - 1

(* A tool called by one at a time is left alone for the whole cooldown     *)
(* each time its breaker opens.                                            *)
CooldownHonoured ==
  [][(\A t \in Tools \ (Ungated \cup Parallel) :
        Tripped(t) /\ failures'[t] < Threshold => openFor[t] >= Cooldown)]_vars

=============================================================================
