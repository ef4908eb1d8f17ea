----------------------------- MODULE MC_Rollout ------------------------------
(* The ways the script is started that the operator's guide names.         *)
EXTENDS Rollout

Plain == [plan_only |-> FALSE, skip_build |-> FALSE, repair |-> FALSE, enable_apis |-> FALSE]

Guide == {Plain, [Plain EXCEPT !.plan_only = TRUE], [Plain EXCEPT !.skip_build = TRUE],
          [Plain EXCEPT !.enable_apis = TRUE], [Plain EXCEPT !.repair = TRUE],
          [Plain EXCEPT !.repair = TRUE, !.skip_build = TRUE]}

=============================================================================
