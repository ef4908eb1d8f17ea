-------------------------- MODULE MC_CircuitBreaker --------------------------
(***************************************************************************)
(* CircuitBreaker with one tool called by one at a time, one called in     *)
(* parallel, and one the breaker does not gate.                            *)
(***************************************************************************)
EXTENDS CircuitBreaker

CONSTANTS Procurement, Suppliers, Demo, C1, C2

AllTools  == {Procurement, Suppliers, Demo}
Repairs   == {Demo}
JustOne   == {Procurement}
Shared    == {Suppliers}
TwoCalls  == {C1, C2}

(* A gated tool ends a request in every way, error statuses included: the  *)
(* enterprise answers 503 while a supplier is down.  How the ungated one   *)
(* fails makes no difference to the breaker.                               *)
Anything == [t \in Tools |-> IF t = Demo THEN {"success", "http"} ELSE AllOutcomes]

=============================================================================
