----------------------------- MODULE MCLeadIntake -----------------------------
(* LeadIntake on small instances.                                           *)
EXTENDS LeadIntake, TLC

CONSTANTS w1, w2, w3, e1, e2

\* One number with 0091 in front, with 91, and bare; another number.
Forms4 == 1..4
CallForms == [f \in Forms4 |-> IF f = 4 THEN {4} ELSE {1, 2, 3}]
LookupForms == [f \in Forms4 |-> IF f \in {2, 3} THEN {2, 3} ELSE {f}]
CounselorForms == CallForms

\* User rows are keys below the service's.
Staff == {-2, -1}

Asked(kind, user, apostille, forms, event) ==
    [kind |-> kind, user |-> user, apostille |-> apostille, forms |-> forms, event |-> event]

\* Every way a lead is made, edited and looked up.
EveryKind ==
    {Asked("WEBSITE", NoUser, FALSE, <<1>>, NoEvent), Asked("WEBSITE", NoUser, TRUE, <<3>>, NoEvent),
     Asked("CALL", -1, FALSE, <<2>>, NoEvent), Asked("CALL", -2, FALSE, <<3>>, NoEvent),
     Asked("DESK", -1, FALSE, <<3>>, NoEvent),
     Asked("APOSTILLE", -1, TRUE, <<3>>, e1),
     Asked("EDIT", -1, TRUE, <<3>>, e2), Asked("EDIT", -1, TRUE, <<4>>, e2),
     Asked("COUNSELOR", -2, TRUE, <<1, 3>>, NoEvent),
     Asked("OFFICE", -1, TRUE, <<2>>, NoEvent)}

Threads == Permutations(Workers)

================================================================================
