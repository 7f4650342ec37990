---------------------------- MODULE MCHealthManager ----------------------------
(* Two tables for HealthManager: a tunnel check and an http check, and the  *)
(* second without the first.                                                *)
EXTENDS HealthManager

CONSTANTS b1, b2

TwoBackends == {b1, b2}
Cfg(state, type) == [state |-> state, present |-> TRUE, healthchecks |-> {type}]

Retargeting ==
  {[b \in TwoBackends |-> IF b = b1 THEN Cfg(state, "gue") ELSE Cfg("active", "http")] :
     state \in {"draining", "inactive"}}

=============================================================================
