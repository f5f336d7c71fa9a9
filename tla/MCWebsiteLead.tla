---------------------------- MODULE MCWebsiteLead ----------------------------
(* Small instances of WebsiteLead for TLC. *)
EXTENDS WebsiteLead, TLC

CONSTANTS a, b

MCDelay == [o \in RetryOutcomes |-> IF o = "BUSY" THEN 1 ELSE 2]
MCOutcomes == {"BUSY", "CALL_BACK", "NOT_INTERESTED", "RINGING"}

=============================================================================
