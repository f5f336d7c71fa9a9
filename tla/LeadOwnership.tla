---------------------------- MODULE LeadOwnership ----------------------------
(***************************************************************************)
(* What the website queue promises about each lead, whatever requests run  *)
(* at the same time: a lead is free, cooling down after a retry outcome,   *)
(* claimed by one caller, being called by that caller, or assigned by a    *)
(* manager, and moves between these only as drawn here.                    *)
(*                                                                         *)
(*        Take            Dial            Retry            Warm            *)
(*   free ----> claimed ----> calling ----> cooling ----> free             *)
(*     ^------------'  '------------ Retry ----^                           *)
(*         HandBack          any ---- Assign ----> manual                  *)
(*                                                                         *)
(* Only a manager's assignment takes a lead from a caller; a lead that was *)
(* called comes back only through the cooldown; a manual lead is handed    *)
(* back by nobody but its owner (HandBack).  Account deletion, which       *)
(* leaves a claim without a claimant, is outside this picture.             *)
(***************************************************************************)
CONSTANTS Leads, Callers, Nobody

VARIABLES phase, owner

Init ==
    /\ phase = [l \in Leads |-> "free"]
    /\ owner = [l \in Leads |-> Nobody]

Move(l, from, to) == phase[l] \in from /\ phase'[l] = to

Take(l) == Move(l, {"free"}, "claimed") /\ owner'[l] \in Callers

Dial(l) == Move(l, {"claimed"}, "calling") /\ owner'[l] = owner[l]

HandBack(l) == Move(l, {"claimed", "manual"}, "free") /\ owner'[l] = Nobody

Retry(l) == Move(l, {"claimed", "calling"}, "cooling") /\ owner'[l] = Nobody

Warm(l) == Move(l, {"cooling"}, "free") /\ owner'[l] = Nobody

Assign(l) ==
    /\ phase'[l] = "manual"
    /\ owner'[l] \in Callers \ {owner[l]}

Stay(l) == phase'[l] = phase[l] /\ owner'[l] = owner[l]

\* A sweep or the passing of time may move several leads at once.
Next ==
    \A l \in Leads :
        \/ Take(l) \/ Dial(l) \/ HandBack(l) \/ Retry(l) \/ Warm(l)
        \/ Assign(l) \/ Stay(l)

vars == <<phase, owner>>

Spec == Init /\ [][Next]_vars

=============================================================================
