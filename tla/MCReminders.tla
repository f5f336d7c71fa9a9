------------------------------ MODULE MCReminders ------------------------------
(* Reminders on small instances.                                            *)
EXTENDS Reminders

CONSTANTS c, d, l1

\* Calls of the first tick, reported at any time.
SomeTimes == {<<0, 0>>}

\* Completing, putting off, reopening and cancelling.
SomeEdits == {<<0, "COMPLETED">>, <<2, "PENDING">>, <<2, "CANCELLED">>}

================================================================================
