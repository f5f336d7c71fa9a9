------------------------- MODULE MCCounselorHandover -------------------------
(* CounselorHandover on small instances.                                    *)
EXTENDS CounselorHandover, TLC

CONSTANTS c, d, k, l1, r1, r2, e1

\* A lead that a counselor created.
CreatedByCounselor == [l \in Leads |-> k]
AnyRequest == Permutations(Requests)

=============================================================================
