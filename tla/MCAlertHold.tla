----------------------------- MODULE MCAlertHold ------------------------------
(* AlertHold for TLC: the files hold a strict version of the rule, a lax    *)
(* one, one about another type of sensor, one that is disabled, or nothing  *)
(* that validates.                                                          *)
EXTENDS AlertHold, TLC

Symmetry == Permutations(Evaluators)

MCMatching ==
  [f \in Enabled |-> IF f = "strict" THEN {"hot"} ELSE {"warm", "hot"}]
MCDelay == [f \in Enabled |-> IF f = "strict" THEN 2 ELSE 1]
=============================================================================
