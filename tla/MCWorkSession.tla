---------------------------- MODULE MCWorkSession ----------------------------
(* WorkSession on small instances.                                          *)
EXTENDS WorkSession, TLC

CONSTANTS phone, web, k1

NoDay == [k \in {} |-> 0]
FirstDay == [k \in {k1} |-> 0]
EveryOp == AllOps
LoginOps == AllOps \ {"start", "switch"}
AnyDevice == Permutations(Devices)

=============================================================================
