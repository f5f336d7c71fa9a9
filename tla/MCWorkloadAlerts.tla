--------------------------- MODULE MCWorkloadAlerts ---------------------------
(* WorkloadAlerts on small instances.                                       *)
EXTENDS WorkloadAlerts, TLC

CONSTANTS c1, c2, l1, l2, w1, w2

\* Threads are alike, and so are callers, and leads.
Alike == Permutations(Callers) \cup Permutations(Leads) \cup Permutations(Workers)

================================================================================
