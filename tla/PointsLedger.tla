----------------------------- MODULE PointsLedger -----------------------------
(***************************************************************************)
(* Calls and the points they earn: which calls are saved, which leads they *)
(* create, and what the ledger pays for them (apps/calls/api/views.py,     *)
(* apps/performance/services.py, and the job reconcile_points --backfill). *)
(*                                                                         *)
(* A saved call holds its caller's row from the check for an earlier copy  *)
(* to the commit, and awards points in the same transaction, so it is one  *)
(* step.  Every event key of the ledger is a place of its own: bonus[c][d] *)
(* is daily_calls:c:d, where no entry counts as none of points, and        *)
(* interest[l] is lead:l:INTERESTED.                                       *)
(*                                                                         *)
(* A lead stands for the phone number it has, at most one lead each: what  *)
(* a website claim adds to a call is in WebsiteLead, the reminders a call  *)
(* makes and settles are in Reminders.  Calls by managers, which earn      *)
(* nothing, entries of before the current rules, and rows edited in the    *)
(* Django admin are left out.                                              *)
(***************************************************************************)
EXTENDS Integers, Sequences, FiniteSets

CONSTANTS
    Callers, Suspendable,   \* and those an administrator may deactivate
    Leads,                  \* phone numbers
    Courses,
    Submissions,            \* calls the apps report, each any number of times
    CallsPerStep,           \* dials per step of the daily bonus, 50 in the code
    DailyCap,               \* the highest daily bonus, 100 in the code
    DayLength,              \* ticks in 24 hours
    Horizon,                \* bound on the clock
    MaxCalls,               \* bound on the saved calls
    Unknown, Nobody, NoCourse, NoEvent, NoEntry

Time == 0..Horizon
Day(t) == t \div DayLength
Days == 0..Day(Horizon)

Submission == [caller: Callers, event: STRING \cup {NoEvent}, lead: Leads,
               started: Time, ended: Time, interested: BOOLEAN,
               course: Courses \cup {NoCourse}, create: BOOLEAN]

ASSUME PointsLedgerAssumption ==
    /\ Suspendable \subseteq Callers
    /\ Submissions \subseteq Submission
    /\ \A s \in Submissions : s.interested \/ s.create => s.course # NoCourse
    /\ CallsPerStep \in Nat \ {0}
    /\ DayLength \in Nat \ {0}
    /\ {DailyCap, Horizon, MaxCalls} \subseteq Nat
    /\ {Unknown, Nobody} \cap Callers = {} /\ Unknown # Nobody
    /\ NoCourse \notin Courses
    /\ NoEntry \notin [caller: Callers, points: Int]

VARIABLES
    now,
    active,         \* callers that are active and approved
    owner,          \* Lead.assigned_caller; Unknown when no lead has the number
    preferred,      \* Lead.preferred_course
    interested,     \* leads of status INTERESTED
    calls,          \* Calls, in the order they are saved
    bonus, interest \* the ledger

lead == <<owner, preferred, interested>>
ledger == <<bonus, interest>>
vars == <<now, active, lead, calls, ledger>>

Class == {"NONE", "UNKNOWN", "OWN", "OTHER"}
CallRow == [of: Submissions, linked: BOOLEAN, class: Class]
Entry == [caller: Callers, points: Int]

TypeOK ==
    /\ now \in Time
    /\ active \subseteq Callers
    /\ owner \in [Leads -> Callers \cup {Unknown, Nobody}]
    /\ preferred \in [Leads -> Courses \cup {NoCourse}]
    /\ interested \subseteq Leads
    /\ calls \in Seq(CallRow)
    /\ bonus \in [Callers -> [Days -> 0..DailyCap]]
    /\ interest \in [Leads -> Entry \cup {NoEntry}]

Init ==
    /\ now = 0
    /\ active = Callers
    /\ owner \in [Leads -> Callers \cup {Unknown}]
    /\ preferred = [l \in Leads |-> NoCourse]
    /\ interested = {}
    /\ calls = <<>>
    /\ bonus = [c \in Callers |-> [d \in Days |-> 0]]
    /\ interest = [l \in Leads |-> NoEntry]

----------------------------------------------------------------------------
(* What the ledger pays                                                     *)

\* 25 points for every full step of dials, up to the cap.
DailyTier(n) ==
    LET points == 25 * (n \div CallsPerStep)
    IN IF points <= DailyCap THEN points ELSE DailyCap

DialsOn(cs, c, d) == {i \in DOMAIN cs : cs[i].of.caller = c /\ Day(cs[i].of.started) = d}

\* Mutant: the day the call is reported is paid, not the day it was made.
PaidToday(cs, s) ==
    [bonus EXCEPT ![s.caller][Day(now)] = DailyTier(Cardinality(DialsOn(cs, s.caller, Day(now))))]

\* The entry of the day the call was made, however late it is reported.
DailyPaid(cs, s) ==
    LET made == Day(s.started)
    IN [bonus EXCEPT ![s.caller][made] = DailyTier(Cardinality(DialsOn(cs, s.caller, made)))]

\* Mutant: a later Interested call is paid again.
InterestPaidAgain(l, c, class) ==
    IF class \in {"OWN", "OTHER"}
    THEN [interest EXCEPT ![l] = [caller |-> c, points |-> IF class = "OWN" THEN 15 ELSE 30]]
    ELSE interest

\* Once per lead, and only when the course of the call can be compared.
InterestPaid(l, c, class) ==
    IF class \in {"OWN", "OTHER"} /\ interest[l] = NoEntry
    THEN [interest EXCEPT ![l] = [caller |-> c, points |-> IF class = "OWN" THEN 15 ELSE 30]]
    ELSE interest

----------------------------------------------------------------------------
(* Calls                                                                    *)

Contents(s) == [s EXCEPT !.event = NoEvent]

\* Mutant: only copies that carry an event id are recognised.
SavedById(s) ==
    \E i \in DOMAIN calls : s.event # NoEvent /\ calls[i].of = s

\* A copy of the call is saved: one with its event id, or, when it has none, one
\* that says the same.
Saved(s) ==
    \E i \in DOMAIN calls :
        /\ calls[i].of.caller = s.caller
        /\ IF s.event # NoEvent THEN calls[i].of.event = s.event
           ELSE Contents(calls[i].of) = s

Creates(s) == owner[s.lead] = Unknown /\ (s.create \/ s.interested)
Linked(s) == owner[s.lead] # Unknown \/ Creates(s)
PreferredThen(s) == IF Creates(s) THEN s.course ELSE preferred[s.lead]

Classified(s) ==
    IF ~s.interested THEN "NONE"
    ELSE IF PreferredThen(s) = NoCourse THEN "UNKNOWN"
    ELSE IF PreferredThen(s) = s.course THEN "OWN" ELSE "OTHER"

\* CallCreateView.post by a caller.  A copy of a saved call, an unfinished one
\* and one on somebody else's lead are answered and change nothing.
Submit(s) ==
    /\ s.caller \in active
    /\ s.ended <= now
    /\ ~Saved(s)
    /\ owner[s.lead] \in {Unknown, s.caller}
    /\ Len(calls) < MaxCalls
    /\ calls' = Append(calls, [of |-> s, linked |-> Linked(s), class |-> Classified(s)])
    /\ bonus' = DailyPaid(calls', s)
    /\ interest' = InterestPaid(s.lead, s.caller, Classified(s))
    /\ owner' = IF Creates(s) THEN [owner EXCEPT ![s.lead] = s.caller] ELSE owner
    /\ preferred' = [preferred EXCEPT ![s.lead] = PreferredThen(s)]
    /\ interested' = IF ~Linked(s) THEN interested
                     ELSE IF s.interested THEN interested \cup {s.lead}
                     ELSE interested \ {s.lead}
    /\ UNCHANGED <<now, active>>

----------------------------------------------------------------------------
(* reconcile_points --backfill                                              *)

\* --backfill scores a saved call again.
Rescore(i) ==
    /\ calls[i].of.caller \in active
    /\ bonus' = DailyPaid(calls, calls[i].of)
    /\ interest' = IF calls[i].linked
                   THEN InterestPaid(calls[i].of.lead, calls[i].of.caller, calls[i].class)
                   ELSE interest
    /\ UNCHANGED <<now, active, lead, calls>>

\* --backfill enters a lead that is INTERESTED, for its caller and no points.
Backfill(l) ==
    /\ l \in interested /\ owner[l] \in Callers
    /\ interest' = IF interest[l] = NoEntry
                   THEN [interest EXCEPT ![l] = [caller |-> owner[l], points |-> 0]]
                   ELSE interest
    /\ UNCHANGED <<now, active, lead, calls, bonus>>

----------------------------------------------------------------------------
(* The lead and the account                                                 *)

\* The lead is assigned to another caller, or released.
Assign(l, c) ==
    /\ owner[l] # Unknown
    /\ c # owner[l] /\ (c = Nobody \/ c \in active)
    /\ owner' = [owner EXCEPT ![l] = c]
    /\ UNCHANGED <<now, active, preferred, interested, calls, ledger>>

\* A lead's course or status is edited.  lead_points has no call to award.
EditLead(l) ==
    /\ owner[l] # Unknown
    /\ \/ \E k \in Courses : preferred' = [preferred EXCEPT ![l] = k] /\ UNCHANGED interested
       \/ interested' \in {interested \cup {l}, interested \ {l}} /\ UNCHANGED preferred
    /\ UNCHANGED <<now, active, owner, calls, ledger>>

SetActive(c) ==
    /\ active' = IF c \in active THEN active \ {c} ELSE active \cup {c}
    /\ UNCHANGED <<now, lead, calls, ledger>>

Tick ==
    /\ now < Horizon
    /\ now' = now + 1
    /\ UNCHANGED <<active, lead, calls, ledger>>

----------------------------------------------------------------------------
LeadStep(l) ==
    \/ Backfill(l)
    \/ \E c \in Callers \cup {Nobody} : Assign(l, c)
    \/ EditLead(l)

Next ==
    \/ \E s \in Submissions : Submit(s)
    \/ \E i \in DOMAIN calls : Rescore(i)
    \/ \E l \in Leads : LeadStep(l)
    \/ \E c \in Suspendable : SetActive(c)
    \/ Tick

Spec == Init /\ [][Next]_vars

----------------------------------------------------------------------------
(* Properties                                                               *)

\* The daily bonus of a caller is the tier of the calls they made that day, in
\* whatever order, on whatever later day and how often they are reported
\* ("At most ONE daily call-count point event per employee per calendar day").
BonusMatchesCalls ==
    \A c \in Callers, d \in Days : bonus[c][d] = DailyTier(Cardinality(DialsOn(calls, c, d)))

Qualified(l) ==
    {i \in DOMAIN calls : calls[i].linked /\ calls[i].of.lead = l /\ calls[i].class \in {"OWN", "OTHER"}}

\* Interest is paid to the caller whose call first said it, at that call's course,
\* whoever the lead belongs to later; a lead with such a call has its entry.
InterestPaysTheFirstCall ==
    \A l \in Leads :
        /\ interest[l] = NoEntry => Qualified(l) = {}
        /\ interest[l] # NoEntry /\ interest[l].points > 0 =>
             \E i \in Qualified(l) :
                /\ \A j \in Qualified(l) : i <= j
                /\ interest[l].caller = calls[i].of.caller
                /\ interest[l].points = (IF calls[i].class = "OWN" THEN 15 ELSE 30)

\* A call that is reported again, with its event id or without one, after any
\* change of its lead, is saved once ("an identical retry returns 200 without
\* another call, follow-up or award", PERFORMANCE.md).
CallIsSavedOnce ==
    \A i, j \in DOMAIN calls :
        calls[i].of = calls[j].of => i = j

=============================================================================
