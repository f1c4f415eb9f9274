-------------------------- MODULE MCMonitorIngest ---------------------------
(* Model values are interchangeable: pods, partitions and rooms. *)
EXTENDS MonitorIngest, TLC

Interchangeable ==
  Permutations(Members) \cup Permutations(Partitions) \cup Permutations(Rooms)
=============================================================================
