------------------------------- MODULE Reminders -------------------------------
(***************************************************************************)
(* Follow-ups: the reminders calls make and settle, that callers and       *)
(* managers put off, complete and cancel, that the jobs announce and       *)
(* penalise (apps/followups, apps/calls/api/views.py, apps/performance/    *)
(* services.py: score_followup, and the jobs check_due_followups and       *)
(* reconcile_points).                                                      *)
(*                                                                         *)
(* A call settles and makes its reminders in one transaction that holds    *)
(* its caller's row, an edit holds the caller's row too, and a job takes   *)
(* one reminder at a time under its lock, so each is one step.  Of the     *)
(* ledger, kept holds the followup:i:COMPLETED entries and missed the      *)
(* penalties, by the reminder they name.                                   *)
(*                                                                         *)
(* A lead stands for the phone number it has, at most one lead each.  A    *)
(* copy of a saved call changes nothing and is left out (PointsLedger).    *)
(***************************************************************************)
EXTENDS Integers, Sequences

CONSTANTS
    Callers, Suspendable,   \* and those an administrator may deactivate
    Leads,                  \* phone numbers
    DayLength,              \* ticks in 24 hours
    Horizon,                \* bound on the clock
    Dates,                  \* when new reminders fall due
    Edits,                  \* dates and statuses edits set
    CallTimes,              \* when calls start and end
    MaxFollowUps,           \* bound on the rows
    MaxEdited,              \* bound: only the first reminders are edited
    Unknown, Nobody

Time == 0..Horizon
Never == Horizon + 1
Status == {"PENDING", "COMPLETED", "CANCELLED"}

ASSUME RemindersAssumption ==
    /\ Suspendable \subseteq Callers
    /\ Dates \subseteq Time
    /\ Edits \subseteq Time \X Status
    /\ CallTimes \subseteq {t \in Time \X Time : t[1] <= t[2]}
    /\ DayLength \in Nat \ {0}
    /\ {Horizon, MaxFollowUps, MaxEdited} \subseteq Nat
    /\ {Unknown, Nobody} \cap Callers = {} /\ Unknown # Nobody

VARIABLES
    now,
    active,         \* callers that are active and approved
    owner,          \* Lead.assigned_caller; Unknown when no lead has the number
    followups,      \* FollowUps, in the order they are created
    kept, missed    \* their entries in the ledger

ledger == <<kept, missed>>
vars == <<now, active, owner, followups, ledger>>

FollowUp == [lead: Leads, linked: BOOLEAN, caller: Callers,
             scheduled: Time, created: Time, completed: Time \cup {Never},
             status: Status, alerted: BOOLEAN]

TypeOK ==
    /\ now \in Time
    /\ active \subseteq Callers
    /\ owner \in [Leads -> Callers \cup {Unknown, Nobody}]
    /\ followups \in Seq(FollowUp)
    /\ kept \subseteq DOMAIN followups
    /\ missed \subseteq DOMAIN followups

Init ==
    /\ now = 0
    /\ active = Callers
    /\ owner \in [Leads -> Callers \cup {Unknown}]
    /\ followups = <<>>
    /\ kept = {} /\ missed = {}

----------------------------------------------------------------------------
(* What score_followup pays                                                 *)

OnTime(f) == f.status = "COMPLETED" /\ f.completed <= f.scheduled /\ f.caller \in active

\* Mutant: only while the caller still has the lead.
OverdueOwned(fs, i, t) ==
    /\ fs[i].status = "PENDING"
    /\ fs[i].caller \in active
    /\ t - fs[i].scheduled > DayLength
    /\ owner[fs[i].lead] = fs[i].caller
    /\ ~\E j \in missed : j = i \/ (fs[i].linked /\ fs[j].linked /\ fs[j].lead = fs[i].lead)

\* Pending for more than a day, and the first such of its lead.
Overdue(fs, i, t) ==
    /\ fs[i].status = "PENDING"
    /\ fs[i].caller \in active
    /\ t - fs[i].scheduled > DayLength
    /\ ~\E j \in missed : j = i \/ (fs[i].linked /\ fs[j].linked /\ fs[j].lead = fs[i].lead)

\* score_followup of one item: its two awards, at time t.
Scored(fs, i, t) ==
    /\ kept' = IF OnTime(fs[i]) THEN kept \cup {i} ELSE kept
    /\ missed' = IF Overdue(fs, i, t) THEN missed \cup {i} ELSE missed

----------------------------------------------------------------------------
(* Calls                                                                    *)

\* Mutant: a reminder made after the call is settled too.
SettlesLater(f, c, l, linked, started, ended) ==
    /\ f.caller = c /\ f.status = "PENDING"
    /\ f.scheduled <= started
    /\ f.lead = l /\ (f.linked => linked)

\* complete_due_followups_for_call: what was due when the call began, and known
\* when it ended, of the same lead or, without one, the same number.
Settles(f, c, l, linked, started, ended) ==
    /\ f.caller = c /\ f.status = "PENDING"
    /\ f.scheduled <= started /\ f.created <= ended
    /\ f.lead = l /\ (f.linked => linked)

Reminder(l, linked, c, at) ==
    [lead |-> l, linked |-> linked, caller |-> c, scheduled |-> at, created |-> now,
     completed |-> Never, status |-> "PENDING", alerted |-> FALSE]

\* CallCreateView.post of a call by c that is not yet saved; create: it makes the
\* lead of an unknown number.
Call(c, l, started, ended, create, callback) ==
    /\ c \in active
    /\ ended <= now
    /\ owner[l] \in {Unknown, c}
    /\ create => owner[l] = Unknown
    /\ LET linked == create \/ owner[l] # Unknown
           settled == {i \in DOMAIN followups : Settles(followups[i], c, l, linked, started, ended)}
           fs == [i \in DOMAIN followups |->
                    IF i \in settled
                    THEN [followups[i] EXCEPT !.status = "COMPLETED",
                                             !.completed = ended]
                    ELSE followups[i]]
       IN
       /\ followups' = IF callback = Never THEN fs
                       ELSE Append(fs, Reminder(l, linked, c, callback))
       /\ kept' = kept \cup {i \in settled : OnTime(fs[i])}
       /\ missed' = missed \cup {i \in DOMAIN followups' \ DOMAIN fs : Overdue(followups', i, now)}
    /\ Len(followups') <= MaxFollowUps
    /\ owner' = IF create THEN [owner EXCEPT ![l] = c] ELSE owner
    /\ UNCHANGED <<now, active>>

----------------------------------------------------------------------------
(* Follow-ups                                                               *)

\* A manager schedules one on the page of an assigned lead.
Schedule(l, at) ==
    /\ owner[l] \in Callers
    /\ Len(followups) < MaxFollowUps
    /\ LET fs == Append(followups, Reminder(l, TRUE, owner[l], at))
       IN followups' = fs /\ Scored(fs, Len(fs), now)
    /\ UNCHANGED <<now, active, owner>>

\* FollowUp.save: the first completion is dated, and one that is pending and put
\* off to a later time will be announced again.
SavedAs(f, at, st) ==
    [f EXCEPT !.scheduled = at, !.status = st,
              !.completed = IF st = "COMPLETED" /\ @ = Never THEN now ELSE @,
              !.alerted = @ /\ ~(st = "PENDING" /\ at # f.scheduled /\ at > now)]

\* A caller edits a reminder of theirs, unless its lead was given to another.
MayEdit(u, f) == f.caller = u /\ u \in active /\ (f.linked => owner[f.lead] = u)

\* FollowUpUpdateView.update, by a caller or, with u = Nobody, by a manager.
Edit(u, i, at, st) ==
    /\ i <= MaxEdited
    /\ u = Nobody \/ MayEdit(u, followups[i])
    /\ LET fs == [followups EXCEPT ![i] = SavedAs(@, at, st)]
       IN followups' = fs /\ Scored(fs, i, now)
    /\ UNCHANGED <<now, active, owner>>

\* check_and_notify_due_followups: one due reminder, announced and marked in one
\* transaction.  It runs as a command and whenever the caller's app asks for its
\* reminders or notifications.
Remind(i) ==
    /\ followups[i].status = "PENDING" /\ ~followups[i].alerted
    /\ followups[i].scheduled <= now
    /\ followups[i].caller \in active
    /\ followups' = [followups EXCEPT ![i].alerted = TRUE]
    /\ UNCHANGED <<now, active, owner, ledger>>

----------------------------------------------------------------------------
(* reconcile_points                                                         *)

\* One follow-up of the job, whose clock is when it began.
Reconcile(i, began) ==
    /\ began <= now
    /\ followups[i].status # "CANCELLED"
    /\ Scored(followups, i, began)
    /\ UNCHANGED <<now, active, owner, followups>>

----------------------------------------------------------------------------
(* The lead and the account                                                 *)

\* The lead is assigned to another caller, or released.
Assign(l, c) ==
    /\ owner[l] # Unknown
    /\ c # owner[l] /\ (c = Nobody \/ c \in active)
    /\ owner' = [owner EXCEPT ![l] = c]
    /\ UNCHANGED <<now, active, followups, ledger>>

SetActive(c) ==
    /\ active' = IF c \in active THEN active \ {c} ELSE active \cup {c}
    /\ UNCHANGED <<now, owner, followups, ledger>>

Tick ==
    /\ now < Horizon
    /\ now' = now + 1
    /\ UNCHANGED <<active, owner, followups, ledger>>

----------------------------------------------------------------------------
FollowUpStep(i) ==
    \/ \E u \in Callers \cup {Nobody}, e \in Edits : Edit(u, i, e[1], e[2])
    \/ Remind(i)
    \/ \E began \in Time : Reconcile(i, began)

LeadStep(l) ==
    \/ \E c \in Callers, t \in CallTimes, create \in BOOLEAN, callback \in Dates \cup {Never} :
          Call(c, l, t[1], t[2], create, callback)
    \/ \E at \in Dates : Schedule(l, at)
    \/ \E c \in Callers \cup {Nobody} : Assign(l, c)

Next ==
    \/ \E l \in Leads : LeadStep(l)
    \/ \E i \in DOMAIN followups : FollowUpStep(i)
    \/ \E c \in Suspendable : SetActive(c)
    \/ Tick

Spec == Init /\ [][Next]_vars

\* vaani-points.timer scores every overdue follow-up each minute.
ReconcileNow(i) == i \in DOMAIN followups /\ Reconcile(i, now)

Fairness == \A i \in 1..MaxFollowUps : WF_vars(ReconcileNow(i))

FairSpec == Spec /\ Fairness

----------------------------------------------------------------------------
(* Properties                                                               *)

\* However many of its follow-ups are overdue, a lead is penalised once.
OnePenaltyPerLead ==
    \A i, j \in missed :
        followups[i].linked /\ followups[j].linked /\ followups[i].lead = followups[j].lead => i = j

LateFor(i) ==
    /\ i \in DOMAIN followups
    /\ followups[i].status = "PENDING"
    /\ followups[i].caller \in active
    /\ now - followups[i].scheduled > DayLength

PenalisedFor(i) ==
    \E j \in missed : j = i \/ (followups[i].linked /\ followups[j].linked /\ followups[j].lead = followups[i].lead)

\* A reminder that stays pending for more than a day has its penalty, or its lead
\* has one: also when the lead was given to another caller, who is not the one
\* reminded ("Pending follow-up overdue by more than 24 hours").
OverdueIsPenalised == \A i \in 1..MaxFollowUps : LateFor(i) ~> (~LateFor(i) \/ PenalisedFor(i))

\* A reminder is completed after it was made: a call that is reported late, after
\* its caller was reminded of the lead again, leaves that reminder pending ("Do
\* not resolve ... reminders created after this call").
CompletedAfterItWasMade ==
    \A i \in DOMAIN followups : followups[i].completed # Never => followups[i].created <= followups[i].completed

=============================================================================
