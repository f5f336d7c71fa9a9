-------------------------- MODULE CounselorHandover --------------------------
(***************************************************************************)
(* The counselling of a lead: its caller forwards it to one counselor at a *)
(* time, who writes notes and asks for an admission, and management        *)
(* reviews the request (apps/leads/counselor_services.py and the handlers  *)
(* that call it).                                                          *)
(*                                                                         *)
(* A forward and a review lock their row before they read it, so each      *)
(* commits in one step.  A note and an admission request look the          *)
(* counselor's assignment up first, and unlocked: between that step and    *)
(* the one that saves, the lead may go to another counselor or caller, or  *)
(* be admitted.  Every request is therefore received in one step (Ask...)  *)
(* and committed in another; Refuse ends one that is answered with an      *)
(* error, or whose worker dies before the commit.                          *)
(*                                                                         *)
(* A lead's status is kept as far as forwarding reads it: FORWARDABLE is   *)
(* B2B, or INTERESTED with course and year on the latest interested call.  *)
(* The texts, times and phone numbers of notes, and the audit rows and     *)
(* notifications that every commit also writes, are left out.              *)
(***************************************************************************)
EXTENDS Integers, Sequences

CONSTANTS
    Leads,
    Callers,            \* accounts with caller capability
    Counselors,         \* accounts with counselor capability; may overlap
    Suspendable,        \* accounts an administrator may deactivate
    Creator,            \* which counselor created a lead, or Nobody
    Requests,           \* requests in flight
    Events,             \* client_event_ids of notes, or NoEvent for none
    MaxAssignments,     \* bound on the assignments of a lead
    MaxNotes,           \* bound on the notes
    MaxAdmissions,      \* bound on the admission requests
    Nobody, NoEvent

People == Callers \cup Counselors
Statuses == {"OPEN", "FORWARDABLE", "ADMISSION_DONE"}
Decisions == {"APPROVED", "REJECTED"}
Nths == 1..MaxAssignments

ASSUME CounselorHandoverAssumption ==
    /\ Nobody \notin People
    /\ Suspendable \subseteq People
    /\ Creator \in [Leads -> Counselors \cup {Nobody}]
    /\ MaxAssignments \in Nat
    /\ MaxNotes \in Nat
    /\ MaxAdmissions \in Nat

VARIABLES
    assigned_caller,    \* Lead.assigned_caller
    status,             \* Lead.status, as far as it is read here
    active,             \* accounts that are active and approved
    assignments,        \* LeadCounselorAssignments of each lead, oldest first
    notes,              \* CounselorNotes, oldest first
    admissions,         \* AdmissionRequests, oldest first
    pending             \* what each request in flight has read

lead == <<assigned_caller, status>>
vars == <<lead, active, assignments, notes, admissions, pending>>

Assignment == [counselor: Counselors, forwarded_by: Callers, is_active: BOOLEAN]
Note == [lead: Leads, nth: Nths, counselor: Counselors, event: Events]
Admission == [lead: Leads, nth: Nths, counselor: Counselors,
              status: Decisions \cup {"PENDING"}]
ForwardRequest == [op: {"forward"}, lead: Leads, user: Callers, to: Counselors]
NoteRequest == [op: {"note"}, lead: Leads, user: Counselors, nth: Nths,
                event: Events]
AdmissionAsked == [op: {"admission"}, lead: Leads, user: Counselors, nth: Nths]
NoRequest == [op |-> "none"]
Received == ForwardRequest \cup NoteRequest \cup AdmissionAsked

TypeOK ==
    /\ assigned_caller \in [Leads -> Callers \cup {Nobody}]
    /\ status \in [Leads -> Statuses]
    /\ active \subseteq People
    /\ assignments \in [Leads -> Seq(Assignment)]
    /\ \A l \in Leads : Len(assignments[l]) <= MaxAssignments
    /\ notes \in Seq(Note)
    /\ admissions \in Seq(Admission)
    /\ pending \in [Requests -> Received \cup {NoRequest}]

\* A lead as it is created: open, with or without a caller, never forwarded.
Init ==
    /\ assigned_caller \in [Leads -> Callers \cup {Nobody}]
    /\ status = [l \in Leads |-> "OPEN"]
    /\ active = People
    /\ assignments = [l \in Leads |-> <<>>]
    /\ notes = <<>>
    /\ admissions = <<>>
    /\ pending = [r \in Requests |-> NoRequest]

----------------------------------------------------------------------------
(* The lead around the counselling                                          *)

\* A saved call or an edit sets the status of the lead.
Outcome(l) ==
    /\ \E s \in Statuses \ {"ADMISSION_DONE"} : status' = [status EXCEPT ![l] = s]
    /\ UNCHANGED <<assigned_caller, active, assignments, notes, admissions, pending>>

\* An admission is recorded for the lead.
Admit(l) ==
    /\ status' = [status EXCEPT ![l] = "ADMISSION_DONE"]
    /\ UNCHANGED <<assigned_caller, active, assignments, notes, admissions, pending>>

AssignCaller(l, c) ==
    /\ c \in active \cap Callers
    /\ assigned_caller[l] # c
    /\ assigned_caller' = [assigned_caller EXCEPT ![l] = c]
    /\ UNCHANGED <<status, active, assignments, notes, admissions, pending>>

\* bulk_assign_leads, by management.  A website claim assigns its lead likewise.
BulkAssign(l, c) == AssignCaller(l, c)

\* The counselor who created a lead gives it to another caller.  The lead is read
\* unlocked; when its caller changed since, the write may repeat what it finds.
ReassignCreated(l, c) == Creator[l] # Nobody /\ AssignCaller(l, c)

\* A website claim ends: a pending lead is released or swept, or a call hands it
\* back for a retry.
GiveBack(l) ==
    /\ assigned_caller[l] # Nobody
    /\ assigned_caller' = [assigned_caller EXCEPT ![l] = Nobody]
    /\ status' = [status EXCEPT ![l] = "OPEN"]
    /\ UNCHANGED <<active, assignments, notes, admissions, pending>>

\* An administrator deactivates or reactivates an account.  What it was in the
\* middle of, and what is assigned to it, stays.
SetActive(u) ==
    /\ active' = IF u \in active THEN active \ {u} ELSE active \cup {u}
    /\ UNCHANGED <<lead, assignments, notes, admissions, pending>>

----------------------------------------------------------------------------
(* Requests                                                                 *)

Receives(r, request) ==
    /\ pending[r] = NoRequest
    /\ pending' = [pending EXCEPT ![r] = request]
    /\ UNCHANGED <<lead, active, assignments, notes, admissions>>

Answered(r) == pending' = [pending EXCEPT ![r] = NoRequest]

Refuse(r) ==
    /\ pending[r] # NoRequest
    /\ Answered(r)
    /\ UNCHANGED <<lead, active, assignments, notes, admissions>>

ActiveAssignments(l) == {n \in DOMAIN assignments[l] : assignments[l][n].is_active}

\* The n-th assignment of the lead is u's, and active.
HasLead(u, l, n) == n \in ActiveAssignments(l) /\ assignments[l][n].counselor = u

----------------------------------------------------------------------------
(* Forwarding                                                               *)

AskForward(r, l, u, to) ==
    /\ u \in active
    /\ Receives(r, [op |-> "forward", lead |-> l, user |-> u, to |-> to])

MayForward(u, l) == assigned_caller[l] = u /\ status[l] = "FORWARDABLE"

\* Mutant: the new assignment is stored beside the current one.
ReplacedByAppending(as, u, to) ==
    Append(as, [counselor |-> to, forwarded_by |-> u, is_active |-> TRUE])

\* The current assignment, the newest that is active, ends and a new one begins.
Replaced(as, u, to) ==
    LET current == {n \in DOMAIN as :
                       as[n].is_active /\ \A k \in DOMAIN as : as[k].is_active => k <= n}
    IN  Append([n \in DOMAIN as |->
                   [as[n] EXCEPT !.is_active = @ /\ n \notin current]],
               [counselor |-> to, forwarded_by |-> u, is_active |-> TRUE])

\* The lead row is locked from here to the commit, so every check is of the lead
\* as it is, and so is the counselor's account.  Forwarding to the counselor who
\* has the lead already changes nothing.
Forward(r) ==
    /\ pending[r].op = "forward"
    /\ LET l == pending[r].lead
           u == pending[r].user
           to == pending[r].to
       IN
       /\ MayForward(u, l)
       /\ to \in active
       /\ Len(assignments[l]) < MaxAssignments
       /\ assignments' =
            IF \E n \in DOMAIN assignments[l] : HasLead(to, l, n)
            THEN assignments
            ELSE [assignments EXCEPT ![l] = Replaced(assignments[l], u, to)]
    /\ Answered(r)
    /\ UNCHANGED <<lead, active, notes, admissions>>

----------------------------------------------------------------------------
(* Notes                                                                    *)

Saved(u, event) ==
    \E i \in DOMAIN notes : notes[i].counselor = u /\ notes[i].event = event /\ event # NoEvent

\* Everything add_counselor_note reads: the assignment, then the note an earlier
\* attempt may have saved.
AskNote(r, l, u, n, event) ==
    /\ u \in active
    /\ HasLead(u, l, n)
    /\ ~Saved(u, event)
    /\ Receives(r, [op |-> "note", lead |-> l, user |-> u, nth |-> n, event |-> event])

\* Mutant: the insert trusts the lookup.
InsertsTrusting(u, event) == TRUE

\* The unique index on counselor and event id turns a repeat away; the handler
\* then answers with the note that is there.
Inserts(u, event) == ~Saved(u, event)

SaveNote(r) ==
    /\ pending[r].op = "note"
    /\ Len(notes) < MaxNotes
    /\ LET q == pending[r] IN
       notes' = IF Inserts(q.user, q.event)
                THEN Append(notes, [lead |-> q.lead, nth |-> q.nth, counselor |-> q.user,
                                    event |-> q.event])
                ELSE notes
    /\ Answered(r)
    /\ UNCHANGED <<lead, active, assignments, admissions>>

----------------------------------------------------------------------------
(* Admission requests                                                       *)

\* The assignment is read before the lead is locked.
AskAdmission(r, l, u, n) ==
    /\ u \in active
    /\ HasLead(u, l, n)
    /\ Receives(r, [op |-> "admission", lead |-> l, user |-> u, nth |-> n])

IsPending(i) == admissions[i].status = "PENDING"

\* Mutant: the lead's earlier requests are not looked at.
MayRequestAgain(l) == status[l] # "ADMISSION_DONE"

\* Looked at under the lock of the lead.
MayRequest(l) ==
    /\ status[l] # "ADMISSION_DONE"
    /\ \A i \in DOMAIN admissions : admissions[i].lead = l => ~IsPending(i)

\* Mutant: the request goes with the assignment that is active by now.
RequestedUnderCurrent(q) ==
    [lead |-> q.lead, nth |-> Len(assignments[q.lead]), counselor |-> q.user,
     status |-> "PENDING"]

RequestedUnder(q) ==
    [lead |-> q.lead, nth |-> q.nth, counselor |-> q.user, status |-> "PENDING"]

RequestAdmission(r) ==
    /\ pending[r].op = "admission"
    /\ Len(admissions) < MaxAdmissions
    /\ MayRequest(pending[r].lead)
    /\ admissions' = Append(admissions, RequestedUnder(pending[r]))
    /\ Answered(r)
    /\ UNCHANGED <<lead, active, assignments, notes>>

Reviewable(i) == IsPending(i)

\* The request's row is locked before its status is read.
Review(i, decision) ==
    /\ i \in DOMAIN admissions
    /\ Reviewable(i)
    /\ admissions' = [admissions EXCEPT ![i].status = decision]
    /\ UNCHANGED <<lead, active, assignments, notes, pending>>

----------------------------------------------------------------------------
RequestStep(r) ==
    \/ Refuse(r)
    \/ Forward(r) \/ SaveNote(r) \/ RequestAdmission(r)
    \/ \E l \in Leads :
       \/ \E u \in Callers, to \in Counselors : AskForward(r, l, u, to)
       \/ \E u \in Counselors, n \in Nths :
             \/ \E event \in Events : AskNote(r, l, u, n, event)
             \/ AskAdmission(r, l, u, n)

LeadStep(l) ==
    \/ Outcome(l)
    \/ Admit(l)
    \/ GiveBack(l)
    \/ \E c \in Callers : BulkAssign(l, c) \/ ReassignCreated(l, c)

Next ==
    \/ \E r \in Requests : RequestStep(r)
    \/ \E l \in Leads : LeadStep(l)
    \/ \E u \in Suspendable : SetActive(u)
    \/ \E i \in 1..MaxAdmissions, decision \in Decisions : Review(i, decision)

Spec == Init /\ [][Next]_vars

----------------------------------------------------------------------------
(* Properties                                                               *)

\* A lead that was ever forwarded has exactly one counselor, the latest: no
\* hand-over leaves two, or none ("exactly one active counselor", counselor.py).
OneCounselorAtATime ==
    \A l \in Leads : \A n \in DOMAIN assignments[l] :
        assignments[l][n].is_active <=> n = Len(assignments[l])

\* Whoever asked, and whoever had the lead when they asked, one admission request
\* at most waits for review on a lead.
OnePendingRequest ==
    \A i, j \in DOMAIN admissions :
        IsPending(i) /\ IsPending(j) /\ admissions[i].lead = admissions[j].lead => i = j

IsAssignmentOf(n, u, l) == n \in DOMAIN assignments[l] /\ assignments[l][n].counselor = u

\* A note and an admission request are filed under an assignment of their own
\* author on their own lead, however the lead moved while they were in flight.
WorkNamesItsCounselor ==
    /\ \A i \in DOMAIN notes : IsAssignmentOf(notes[i].nth, notes[i].counselor, notes[i].lead)
    /\ \A i \in DOMAIN admissions :
          IsAssignmentOf(admissions[i].nth, admissions[i].counselor, admissions[i].lead)

\* A note that an app sends again, on the same or on another connection, is saved
\* once: also when the two requests run at the same time.
NoteSavedOnce ==
    \A i, j \in DOMAIN notes :
        /\ notes[i].counselor = notes[j].counselor
        /\ notes[i].event = notes[j].event
        /\ notes[i].event # NoEvent
        => i = j

\* A lead changes counselor only by its caller at that time, while it may be
\* forwarded, and to a counselor whose account is active: also when the lead was
\* reassigned, called again or admitted after the request was sent.
ForwardedStep ==
    \A l \in Leads :
        assignments'[l] # assignments[l] =>
            LET new == assignments'[l][Len(assignments'[l])] IN
            /\ new.forwarded_by = assigned_caller[l]
            /\ status[l] = "FORWARDABLE"
            /\ new.counselor \in active

ForwardedByItsCaller == [][ForwardedStep]_vars

\* A reviewed request is final: a second manager, or the same page sent twice,
\* does not change the decision, and no request disappears.
ReviewStep ==
    \A i \in DOMAIN admissions :
        /\ i \in DOMAIN admissions'
        /\ ~IsPending(i) => admissions'[i] = admissions[i]

ReviewIsFinal == [][ReviewStep]_vars

\* No admission is asked for on a lead that has been admitted, even when that
\* happened after the counselor's request arrived.
NewAdmissionStep ==
    \A i \in DOMAIN admissions' \ DOMAIN admissions :
        status[admissions'[i].lead] # "ADMISSION_DONE"

AdmittedLeadIsNotAskedFor == [][NewAdmissionStep]_vars

=============================================================================
