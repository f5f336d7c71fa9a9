----------------------------- MODULE WebsiteLead -----------------------------
(***************************************************************************)
(* The life of a website lead: a shared queue entry that one caller at a   *)
(* time may claim, work and hand back (apps/leads/claiming.py,             *)
(* apps/leads/outcomes.py, apps/leads/queue.py, and the handlers of        *)
(* apps/calls, apps/web and apps/leads/api that write the same rows).      *)
(*                                                                         *)
(* Each handler that takes the Lead row lock is one action: the lock is    *)
(* held from its first read to its commit.  Two kinds of handler are NOT   *)
(* atomic and have two steps each: the stale-claim sweep, whose candidate  *)
(* query reads a snapshot before the rows are locked, and the lead edit    *)
(* forms, which read a row, and write every column of it back, unlocked.   *)
(*                                                                         *)
(* Timestamps are kept as far as the code compares them.  claimed_at is    *)
(* its age in ticks; available_at is the time left until it; assigned_at   *)
(* is only ever compared with claimed_at, so stamp says whether they are   *)
(* equal (every writer of either takes its own timezone.now()).            *)
(* A refused request (permission, conflict, not found) changes nothing and *)
(* is a stuttering step, so is the repeat of a claim or of a started call. *)
(* Accounts may be deactivated and services unmapped at any time: both     *)
(* only add refusals, which every action already may meet by not occurring.*)
(***************************************************************************)
EXTENDS Integers, FiniteSets

CONSTANTS
    Leads,          \* website leads: each has a LeadAvailability row
    Callers,        \* accounts with caller capability
    CallerRole,     \* those whose role is CALLER; the others are dual-role
    Removable,      \* accounts an administrator may delete
    DeskStaff,      \* managers who post calls without caller capability
    Sweepers,       \* requests that run the stale-claim sweep
    Editors,        \* requests that edit a lead through a full-row save
    Outcomes,       \* call outcomes submitted
    EditStatuses,   \* statuses an edit form writes
    Timeout,        \* claim timeout plus grace, in ticks
    Delay,          \* retry cooldown of each retry outcome, in ticks
    MaxLag,         \* longest life of a sweep transaction, in ticks
    Nobody, NoEdit

Pending == "PENDING"
RetryOutcomes == {"BUSY", "NO_ANSWER"}
WebsiteOutcomes ==
    RetryOutcomes \cup {"INTERESTED", "NOT_INTERESTED", "WRONG_NUMBER", "CALL_BACK"}
AllOutcomes == WebsiteOutcomes \cup {"RINGING", "DISCONNECTED"}
Statuses == AllOutcomes \cup {Pending}
Closed == {"NOT_INTERESTED", "WRONG_NUMBER", "DISCONNECTED"}

ASSUME WebsiteLeadAssumption ==
    /\ CallerRole \subseteq Callers
    /\ Removable \subseteq Callers
    /\ Nobody \notin Callers
    /\ Nobody \notin DeskStaff
    /\ Callers \cap DeskStaff = {}
    /\ Outcomes \subseteq AllOutcomes
    /\ EditStatuses \subseteq Statuses
    /\ Timeout \in Nat
    /\ MaxLag \in Nat
    /\ Delay \in [RetryOutcomes -> Nat \ {0}]

AgeCap == Timeout + MaxLag + 1
Owners == Callers \cup {Nobody}
Reminders == Callers \X {"later", "due"}

VARIABLES
    assigned_caller,    \* Lead.assigned_caller
    status,             \* Lead.status
    stamp,              \* Lead.assigned_at = LeadAvailability.claimed_at
    claimed_by,         \* LeadAvailability.claimed_by
    claimed,            \* LeadAvailability.claimed_at is not null
    age,                \* ticks since claimed_at, saturating at AgeCap
    call_started,       \* LeadAvailability.call_started_at is not null
    cooldown,           \* ticks until LeadAvailability.available_at
    attempted,          \* callers of the calls with started_at >= claimed_at
    open_call,          \* the lead has a saved call without ended_at
    reminder,           \* pending FollowUps of the lead: whose, and due or not
    last_logged,        \* new_caller of the lead's newest LeadAssignmentHistory
    gone,               \* deleted accounts
    sweep,              \* each running sweep transaction
    edit                \* each open edit request: the row it has read

leadRow == <<assigned_caller, status, stamp>>
claimRow == <<claimed_by, claimed, age, call_started, cooldown>>
related == <<attempted, open_call, reminder, last_logged>>
vars == <<leadRow, claimRow, related, gone, sweep, edit>>

Sweep == [open: BOOLEAN, found: SUBSET Leads, lag: 0..MaxLag]
NoSweep == [open |-> FALSE, found |-> {}, lag |-> 0]
EditSession == [lead: Leads, owner: Owners, stamp: BOOLEAN, status: Statuses]

TypeOK ==
    /\ assigned_caller \in [Leads -> Owners]
    /\ status \in [Leads -> Statuses]
    /\ stamp \in [Leads -> BOOLEAN]
    /\ claimed_by \in [Leads -> Owners]
    /\ claimed \in [Leads -> BOOLEAN]
    /\ age \in [Leads -> 0..AgeCap]
    /\ call_started \in [Leads -> BOOLEAN]
    /\ cooldown \in [Leads -> Nat]
    /\ attempted \in [Leads -> SUBSET (Owners \cup DeskStaff)]
    /\ open_call \in [Leads -> BOOLEAN]
    /\ reminder \in [Leads -> SUBSET Reminders]
    /\ last_logged \in [Leads -> Owners]
    /\ gone \subseteq Callers
    /\ sweep \in [Sweepers -> Sweep]
    /\ edit \in [Editors -> EditSession \cup {NoEdit}]

\* create_website_lead stores the lead and its availability row together:
\* pending, unassigned, unclaimed and available at once.
Init ==
    /\ assigned_caller = [l \in Leads |-> Nobody]
    /\ status = [l \in Leads |-> Pending]
    /\ stamp = [l \in Leads |-> FALSE]
    /\ claimed_by = [l \in Leads |-> Nobody]
    /\ claimed = [l \in Leads |-> FALSE]
    /\ age = [l \in Leads |-> 0]
    /\ call_started = [l \in Leads |-> FALSE]
    /\ cooldown = [l \in Leads |-> 0]
    /\ attempted = [l \in Leads |-> {}]
    /\ open_call = [l \in Leads |-> FALSE]
    /\ reminder = [l \in Leads |-> {}]
    /\ last_logged = [l \in Leads |-> Nobody]
    /\ gone = {}
    /\ sweep = [s \in Sweepers |-> NoSweep]
    /\ edit = [e \in Editors |-> NoEdit]

----------------------------------------------------------------------------
(* The claim, between the shared queue and a caller                         *)

\* A claim is the only explicit one of the three ways to own a lead: it is
\* the assignment the claim itself stamped.
HoldsClaim(c, l) ==
    claimed[l] /\ claimed_by[l] = c /\ assigned_caller[l] = c

\* Mutant: the row of the queue is not cleared with the lead's.
UnclaimLeadOnly(S) ==
    /\ assigned_caller' = [l \in Leads |-> IF l \in S THEN Nobody ELSE assigned_caller[l]]
    /\ stamp' = [l \in Leads |-> IF l \in S THEN FALSE ELSE stamp[l]]
    /\ last_logged' = [l \in Leads |-> IF l \in S THEN Nobody ELSE last_logged[l]]
    /\ UNCHANGED <<claimed_by, claimed, age, call_started, attempted>>

\* Mutant: the mark of the started call survives the claim.
UnclaimKeepsCallStarted(S) ==
    /\ assigned_caller' = [l \in Leads |-> IF l \in S THEN Nobody ELSE assigned_caller[l]]
    /\ stamp' = [l \in Leads |-> IF l \in S THEN FALSE ELSE stamp[l]]
    /\ claimed_by' = [l \in Leads |-> IF l \in S THEN Nobody ELSE claimed_by[l]]
    /\ claimed' = [l \in Leads |-> IF l \in S THEN FALSE ELSE claimed[l]]
    /\ age' = [l \in Leads |-> IF l \in S THEN 0 ELSE age[l]]
    /\ attempted' = [l \in Leads |-> IF l \in S THEN {} ELSE attempted[l]]
    /\ last_logged' = [l \in Leads |-> IF l \in S THEN Nobody ELSE last_logged[l]]
    /\ UNCHANGED call_started

\* Mutant: the hand-back is not written to the assignment history.
UnclaimUnlogged(S) ==
    /\ assigned_caller' = [l \in Leads |-> IF l \in S THEN Nobody ELSE assigned_caller[l]]
    /\ stamp' = [l \in Leads |-> IF l \in S THEN FALSE ELSE stamp[l]]
    /\ claimed_by' = [l \in Leads |-> IF l \in S THEN Nobody ELSE claimed_by[l]]
    /\ claimed' = [l \in Leads |-> IF l \in S THEN FALSE ELSE claimed[l]]
    /\ age' = [l \in Leads |-> IF l \in S THEN 0 ELSE age[l]]
    /\ call_started' = [l \in Leads |-> IF l \in S THEN FALSE ELSE call_started[l]]
    /\ attempted' = [l \in Leads |-> IF l \in S THEN {} ELSE attempted[l]]
    /\ UNCHANGED last_logged

\* The lead and availability rows of the leads in S go back to nobody.
Unclaim(S) ==
    /\ assigned_caller' = [l \in Leads |-> IF l \in S THEN Nobody ELSE assigned_caller[l]]
    /\ stamp' = [l \in Leads |-> IF l \in S THEN FALSE ELSE stamp[l]]
    /\ claimed_by' = [l \in Leads |-> IF l \in S THEN Nobody ELSE claimed_by[l]]
    /\ claimed' = [l \in Leads |-> IF l \in S THEN FALSE ELSE claimed[l]]
    /\ age' = [l \in Leads |-> IF l \in S THEN 0 ELSE age[l]]
    /\ call_started' = [l \in Leads |-> IF l \in S THEN FALSE ELSE call_started[l]]
    /\ attempted' = [l \in Leads |-> IF l \in S THEN {} ELSE attempted[l]]
    /\ last_logged' = [l \in Leads |-> IF l \in S THEN Nobody ELSE last_logged[l]]

\* Mutant: the cooldown is not looked at.
MayClaimCooling(l) ==
    /\ ~claimed[l]
    /\ assigned_caller[l] = Nobody

MayClaim(l) ==
    /\ ~claimed[l]
    /\ assigned_caller[l] = Nobody
    /\ cooldown[l] = 0

Claim(c, l) ==
    /\ c \notin gone
    /\ MayClaim(l)
    /\ claimed_by' = [claimed_by EXCEPT ![l] = c]
    /\ claimed' = [claimed EXCEPT ![l] = TRUE]
    /\ age' = [age EXCEPT ![l] = 0]
    /\ call_started' = [call_started EXCEPT ![l] = FALSE]
    /\ assigned_caller' = [assigned_caller EXCEPT ![l] = c]
    /\ stamp' = [stamp EXCEPT ![l] = TRUE]
    /\ last_logged' = [last_logged EXCEPT ![l] = c]
    \* The assigned_at an edit form has read is older than the new claimed_at.
    /\ edit' = [e \in Editors |->
                  IF edit[e] # NoEdit /\ edit[e].lead = l
                  THEN [edit[e] EXCEPT !.stamp = FALSE] ELSE edit[e]]
    /\ UNCHANGED <<status, cooldown, attempted, open_call, reminder, gone, sweep>>

\* The mobile app reports OFFHOOK.  Dual-role employees are refused here.
MarkCallStarted(c, l) ==
    /\ c \in CallerRole \ gone
    /\ HoldsClaim(c, l)
    /\ ~call_started[l]
    /\ call_started' = [call_started EXCEPT ![l] = TRUE]
    /\ UNCHANGED <<leadRow, claimed_by, claimed, age, cooldown, related, gone,
                   sweep, edit>>

\* Mutant: the calls of the claim are not looked for.
MayReleaseCalled(c, l) ==
    HoldsClaim(c, l) /\ ~call_started[l] /\ status[l] = Pending

MayRelease(c, l) ==
    /\ HoldsClaim(c, l)
    /\ ~call_started[l]
    /\ c \notin attempted[l]
    /\ status[l] = Pending

Release(c, l) ==
    /\ c \in CallerRole \ gone
    /\ MayRelease(c, l)
    /\ Unclaim({l})
    /\ cooldown' = [cooldown EXCEPT ![l] = 0]
    /\ UNCHANGED <<status, open_call, reminder, gone, sweep, edit>>

----------------------------------------------------------------------------
(* The sweep of stale claims, run by every read of a queue or of the        *)
(* routing dashboard                                                        *)

\* The cutoff is fixed when the sweep starts: a claim is stale for it when it
\* was already older than Timeout then.
OlderThanCutoff(s, l) == age[l] > Timeout + sweep[s].lag

\* Mutant: the comparison with the cutoff is turned round.
StaleAtScanEarly(l) ==
    /\ claimed[l] /\ age[l] < Timeout /\ ~call_started[l]
    /\ status[l] = Pending /\ assigned_caller[l] # Nobody

StaleAtScan(l) ==
    /\ claimed[l]
    /\ age[l] > Timeout
    /\ ~call_started[l]
    /\ status[l] = Pending
    /\ assigned_caller[l] # Nobody

\* The candidate query reads its snapshot.
SweepScan(s) ==
    /\ ~sweep[s].open
    /\ sweep' = [sweep EXCEPT ![s] = [open |-> TRUE, lag |-> 0,
                                      found |-> {l \in Leads : StaleAtScan(l)}]]
    /\ UNCHANGED <<leadRow, claimRow, related, gone, edit>>

\* Mutant: the candidate list is trusted; call_started_at is not read again.
StillStaleTrusting(s, l) ==
    /\ status[l] = Pending /\ assigned_caller[l] # Nobody
    /\ claimed[l] /\ OlderThanCutoff(s, l)
    /\ claimed_by[l] = assigned_caller[l] /\ stamp[l] /\ attempted[l] = {}

\* What is looked at again once the rows are locked: the query's conditions on
\* the lead row (the database re-evaluates them on the newest row version), the
\* availability row, and the calls.
StillStale(s, l) ==
    /\ status[l] = Pending
    /\ assigned_caller[l] # Nobody
    /\ ~call_started[l]
    /\ claimed[l]
    /\ OlderThanCutoff(s, l)
    /\ claimed_by[l] = assigned_caller[l]
    /\ stamp[l]
    /\ attempted[l] = {}

\* Rows locked by another transaction are skipped; the rest commit together.
SweepCommit(s, skipped) ==
    LET released == {l \in sweep[s].found \ skipped : StillStale(s, l)} IN
    /\ sweep[s].open
    /\ Unclaim(released)
    /\ cooldown' = [l \in Leads |-> IF l \in released THEN 0 ELSE cooldown[l]]
    /\ sweep' = [sweep EXCEPT ![s] = NoSweep]
    /\ UNCHANGED <<status, open_call, reminder, gone, edit>>

----------------------------------------------------------------------------
(* Calls and follow-ups                                                     *)

\* Mutant: a manual assignment of the claimant counts as the claim.
OutcomeAppliesToManual(c, l, o) == HoldsClaim(c, l) /\ o \in WebsiteOutcomes

\* The outcome is applied to the claim only by the caller whose claim it is,
\* and only while that claim is also the current assignment.
OutcomeApplies(c, l, o) ==
    HoldsClaim(c, l) /\ stamp[l] /\ o \in WebsiteOutcomes

\* A retry outcome without an agreed callback time gives the lead back.
GivesBack(c, l, o, callback) ==
    OutcomeApplies(c, l, o) /\ o \in RetryOutcomes /\ ~callback

\* The pending reminders of l after a call of c: the due ones are completed
\* (unless they were created after the call ended), a website outcome cancels
\* what is left of the caller's, and a callback time makes a new one.
RemindersAfterCall(c, l, o, callback, completes) ==
    LET kept == IF completes THEN reminder[l] \ {<<c, "due">>} ELSE reminder[l]
        left == IF OutcomeApplies(c, l, o) THEN {r \in kept : r[1] # c} ELSE kept
    IN  IF callback THEN left \cup {<<c, "later">>} ELSE left

\* The saved call is one of the current claim when started_at is not before
\* claimed_at.
NoteCall(u, l, recent) ==
    attempted' = [attempted EXCEPT ![l] = IF recent THEN @ \cup {u} ELSE @]

\* CallCreateView.post by a caller for a lead assigned to them.  recent: the
\* submitted started_at is not before claimed_at; ended: ended_at was sent;
\* completes: a due reminder was not created after the call ended.
\* Replays of a saved call return early and change nothing.
RecordCall(c, l, o, recent, ended, callback, completes) ==
    /\ c \notin gone
    /\ assigned_caller[l] = c
    /\ o = "CALL_BACK" => callback
    /\ recent => claimed[l]
    /\ completes => <<c, "due">> \in reminder[l]
    /\ status' = [status EXCEPT ![l] = o]
    /\ open_call' = [open_call EXCEPT ![l] = @ \/ ~ended]
    /\ reminder' = [reminder EXCEPT ![l] = RemindersAfterCall(c, l, o, callback, completes)]
    /\ IF GivesBack(c, l, o, callback)
       THEN /\ Unclaim({l})
            /\ cooldown' = [cooldown EXCEPT ![l] = Delay[o]]
       ELSE /\ NoteCall(c, l, recent)
            /\ UNCHANGED <<assigned_caller, stamp, claimRow, last_logged>>
    /\ UNCHANGED <<gone, sweep, edit>>

\* The same endpoint used by a manager, who needs no ownership: the lead's
\* status follows the call, the claim does not.  A callback reminds the owner.
DeskCall(m, l, o, recent, ended, callback) ==
    /\ o = "CALL_BACK" => callback
    /\ recent => claimed[l]
    /\ status' = [status EXCEPT ![l] = o]
    /\ NoteCall(m, l, recent)
    /\ open_call' = [open_call EXCEPT ![l] = @ \/ ~ended]
    /\ reminder' = [reminder EXCEPT ![l] =
                      IF callback /\ assigned_caller[l] # Nobody
                      THEN @ \cup {<<assigned_caller[l], "later">>} ELSE @]
    /\ UNCHANGED <<assigned_caller, stamp, claimRow, last_logged, gone, sweep, edit>>

\* A manager schedules a follow-up for the owner on the lead's page, and nothing
\* came between the read of the owner and the save.
ScheduleFollowUp(l) ==
    /\ assigned_caller[l] # Nobody
    /\ reminder' = [reminder EXCEPT ![l] = @ \cup {<<assigned_caller[l], "later">>}]
    /\ status' = [status EXCEPT ![l] = "CALL_BACK"]
    /\ UNCHANGED <<assigned_caller, stamp, claimRow, attempted, open_call,
                   last_logged, gone, sweep, edit>>

----------------------------------------------------------------------------
(* Assignment, edits and deletion                                           *)

\* bulk_assign_leads, one lead of the batch: with reassign, an owned lead is
\* taken over; the same caller is skipped.  The availability row is untouched.
BulkAssign(c, l, reassign) ==
    /\ c \notin gone
    /\ assigned_caller[l] # Nobody => reassign
    /\ assigned_caller[l] # c
    /\ assigned_caller' = [assigned_caller EXCEPT ![l] = c]
    /\ stamp' = [stamp EXCEPT ![l] = FALSE]
    /\ last_logged' = [last_logged EXCEPT ![l] = c]
    /\ UNCHANGED <<status, claimRow, attempted, open_call, reminder, gone, sweep, edit>>

\* An edit form whose read and save nothing came between.
EditLead(l) ==
    /\ \E st \in EditStatuses : status' = [status EXCEPT ![l] = st]
    /\ UNCHANGED <<assigned_caller, stamp, claimRow, related, gone, sweep, edit>>

\* The same in general: the row is read without a lock, and save() writes back
\* every column of it, the ones the form does not show included.
EditRead(e, l) ==
    /\ edit[e] = NoEdit
    /\ edit' = [edit EXCEPT ![e] = [lead |-> l, owner |-> assigned_caller[l],
                                    stamp |-> stamp[l], status |-> status[l]]]
    /\ UNCHANGED <<leadRow, claimRow, related, gone, sweep>>

EditSave(e) ==
    LET l == edit[e].lead IN
    /\ edit[e] # NoEdit
    /\ edit[e].owner \notin gone
    /\ \E st \in EditStatuses \cup {edit[e].status} : status' = [status EXCEPT ![l] = st]
    /\ assigned_caller' = [assigned_caller EXCEPT ![l] = edit[e].owner]
    /\ stamp' = [stamp EXCEPT ![l] = edit[e].stamp /\ claimed[l]]
    /\ edit' = [edit EXCEPT ![e] = NoEdit]
    /\ UNCHANGED <<claimRow, related, gone, sweep>>

\* A follow-up is for the owner the page has read, without a lock, and only the
\* lead's status is saved with it.
FollowUpSave(e) ==
    LET l == edit[e].lead
        c == edit[e].owner
    IN  /\ edit[e] # NoEdit
        /\ c \notin gone \cup {Nobody}
        /\ reminder' = [reminder EXCEPT ![l] = @ \cup {<<c, "later">>}]
        /\ status' = [status EXCEPT ![l] = "CALL_BACK"]
        /\ edit' = [edit EXCEPT ![e] = NoEdit]
        /\ UNCHANGED <<assigned_caller, stamp, claimRow, attempted, open_call,
                       last_logged, gone, sweep>>

\* Deleting an account sets the foreign keys that point to it to null; the
\* timestamps beside them stay.
DeleteCaller(c) ==
    /\ c \notin gone
    /\ gone' = gone \cup {c}
    /\ assigned_caller' = [l \in Leads |->
                             IF assigned_caller[l] = c THEN Nobody ELSE assigned_caller[l]]
    /\ claimed_by' = [l \in Leads |-> IF claimed_by[l] = c THEN Nobody ELSE claimed_by[l]]
    /\ last_logged' = [l \in Leads |-> IF last_logged[l] = c THEN Nobody ELSE last_logged[l]]
    /\ attempted' = [l \in Leads |->
                       IF c \in attempted[l] THEN (attempted[l] \ {c}) \cup {Nobody}
                       ELSE attempted[l]]
    /\ reminder' = [l \in Leads |-> {r \in reminder[l] : r[1] # c}]
    /\ UNCHANGED <<status, stamp, claimed, age, call_started, cooldown, open_call,
                   sweep, edit>>

----------------------------------------------------------------------------
(* Time                                                                     *)

CoolDown(l) == IF cooldown[l] > 0 THEN cooldown[l] - 1 ELSE 0

\* A tick passes: claims grow older, cooldowns shorter, running sweeps lag
\* further behind their cutoff.
Tick ==
    /\ \A s \in Sweepers : sweep[s].open => sweep[s].lag < MaxLag
    /\ age' = [l \in Leads |-> IF claimed[l] /\ age[l] < AgeCap THEN age[l] + 1 ELSE age[l]]
    /\ cooldown' = [l \in Leads |-> CoolDown(l)]
    /\ sweep' = [s \in Sweepers |-> IF sweep[s].open
                                    THEN [sweep[s] EXCEPT !.lag = @ + 1] ELSE sweep[s]]
    /\ UNCHANGED <<leadRow, claimed_by, claimed, call_started, related, gone, edit>>

\* The scheduled time of a follow-up passes.
ReminderFallsDue(c, l) ==
    /\ <<c, "later">> \in reminder[l]
    /\ reminder' = [reminder EXCEPT ![l] = (@ \ {<<c, "later">>}) \cup {<<c, "due">>}]
    /\ UNCHANGED <<leadRow, claimRow, attempted, open_call, last_logged, gone, sweep, edit>>

----------------------------------------------------------------------------
(* The working queue of a caller                                            *)

\* caller_lead_queue, for a caller whose services cover the lead: due
\* follow-ups, free website leads and manual assignments, less what is closed,
\* on a call, claimed or somebody else's.
InQueue(c, l) ==
    /\ c \in CallerRole \ gone
    /\ \/ <<c, "due">> \in reminder[l]
       \/ assigned_caller[l] = Nobody /\ ~claimed[l] /\ cooldown[l] = 0
       \/ assigned_caller[l] = c /\ ~claimed[l]
    /\ status[l] \notin Closed
    /\ ~open_call[l]
    /\ ~call_started[l]
    /\ ~claimed[l]
    /\ assigned_caller[l] \in {Nobody, c}

----------------------------------------------------------------------------
CallerStep(c, l) ==
    \/ Claim(c, l)
    \/ MarkCallStarted(c, l)
    \/ Release(c, l)
    \/ \E o \in Outcomes, recent, ended, callback, completes \in BOOLEAN :
          RecordCall(c, l, o, recent, ended, callback, completes)
    \/ ReminderFallsDue(c, l)

ManagerStep(l) ==
    \/ \E m \in DeskStaff, o \in Outcomes, recent, ended, callback \in BOOLEAN :
          DeskCall(m, l, o, recent, ended, callback)
    \/ ScheduleFollowUp(l)
    \/ \E c \in Callers, reassign \in BOOLEAN : BulkAssign(c, l, reassign)
    \/ EditLead(l)

SweepStep(s) ==
    \/ SweepScan(s)
    \/ \E skipped \in SUBSET sweep[s].found : SweepCommit(s, skipped)

EditStep(e) ==
    \/ \E l \in Leads : EditRead(e, l)
    \/ EditSave(e)
    \/ FollowUpSave(e)

Next ==
    \/ \E c \in Callers, l \in Leads : CallerStep(c, l)
    \/ \E l \in Leads : ManagerStep(l)
    \/ \E s \in Sweepers : SweepStep(s)
    \/ \E e \in Editors : EditStep(e)
    \/ \E c \in Removable : DeleteCaller(c)
    \/ Tick

Spec == Init /\ [][Next]_vars

\* Time passes, and queues keep being read: every read sweeps, and a row lock,
\* held for one short request, does not meet every sweep.  Callers, managers
\* and the mobile app owe nothing.
Fairness ==
    /\ WF_vars(Tick)
    /\ \A s \in Sweepers : WF_vars(SweepScan(s)) /\ SF_vars(SweepCommit(s, {}))

FairSpec == Spec /\ Fairness

----------------------------------------------------------------------------
(* Properties                                                               *)

\* The two rows of a lead tell one story: an assignment stamped by a claim is
\* the claimant's, and a claim without an owner is left only by deleting the
\* account (docs/website-lead-claiming.md, "Concurrency and compatibility").
ClaimAndAssignmentAgree ==
    \A l \in Leads :
        /\ stamp[l] => claimed[l] /\ claimed_by[l] = assigned_caller[l]
        /\ claimed[l] /\ assigned_caller[l] = Nobody => gone # {}

\* Every lead that may be claimed is shown to every caller who may claim it,
\* whatever it went through before: nothing a past claim left behind hides it
\* (a closed lead, or one with a call that never ended, is hidden on purpose).
FreeLeadIsOffered ==
    \A c \in CallerRole \ gone, l \in Leads :
        MayClaim(l) /\ status[l] \notin Closed /\ ~open_call[l] => InQueue(c, l)

\* The assignment history ends with the current owner: no handler moves a lead
\* without writing it down.
HistoryMatchesOwner ==
    \A l \in Leads : last_logged[l] = assigned_caller[l]

\* An owned lead passes to another caller only by a manual assignment: no claim,
\* however stale the queue it was read from, and nothing an old claimant does,
\* takes it from its owner.
HandOverStep ==
    \A l \in Leads :
        /\ assigned_caller[l] # Nobody
        /\ assigned_caller'[l] \notin {Nobody, assigned_caller[l]}
        => ~stamp'[l]

OwnedLeadChangesHandsByAssignment == [][HandOverStep]_vars

\* Once a claimant is known to have called, only the retry outcome of a call of
\* theirs ends the claim: no release and no sweep, not even a sweep that listed
\* the lead before the call started.
CalledClaimStep ==
    \A l \in Leads :
        /\ claimed[l] /\ ~claimed'[l]
        /\ call_started[l] \/ claimed_by[l] \in attempted[l]
        => cooldown'[l] > 0 /\ status'[l] \in RetryOutcomes

CalledClaimIsNotTakenBack == [][CalledClaimStep]_vars

\* A manual assignment is not undone by call outcomes or by the sweep, even one
\* that returns the lead to the caller who had claimed it before
\* (docs/website-lead-outcomes.md, "Manual Assignment"); only that caller may
\* still hand the lead back.
ManualOwnerStep ==
    \A l \in Leads :
        assigned_caller[l] # Nobody /\ ~stamp[l] /\ assigned_caller'[l] = Nobody
        => assigned_caller[l] \in gone' \/ Release(assigned_caller[l], l)

ManualOwnerIsKept == [][ManualOwnerStep]_vars

\* A lead that cools down after BUSY or NO_ANSWER is left alone until the clock
\* has run out: nobody claims it, no queue shows it but that of a caller with a
\* reminder due or with an assignment made by hand, and nothing but a manager's
\* bulk assignment, or a form that saves an older row, gives it an owner
\* (apps/leads/outcomes.py:47, docs/website-lead-outcomes.md, "Cooldown Isolation").
CooldownStep ==
    \A l \in Leads : cooldown[l] > 0 =>
        /\ cooldown'[l] # cooldown[l] => Tick /\ cooldown'[l] = cooldown[l] - 1
        /\ ~claimed'[l]
        /\ assigned_caller'[l] \notin {Nobody, assigned_caller[l]} =>
              \/ \E c \in Callers, reassign \in BOOLEAN : BulkAssign(c, l, reassign)
              \/ \E e \in Editors : EditSave(e) /\ edit[e].lead = l
        /\ \A c \in CallerRole :
              InQueue(c, l) => assigned_caller[l] = c \/ <<c, "due">> \in reminder[l]

CooldownRunsItsCourse == [][CooldownStep]_vars

\* What makes the above inductive.  The columns of the availability row agree,
\* whatever is written to the lead's row.
ClaimInv ==
    \A l \in Leads :
        /\ call_started[l] => claimed[l]
        /\ attempted[l] # {} => claimed[l]
        /\ claimed[l] => cooldown[l] = 0

\* They agree with the lead's row while nobody saves a full row.
OwnerInv ==
    \A l \in Leads :
        /\ stamp[l] => claimed[l] /\ claimed_by[l] = assigned_caller[l]
        /\ claimed[l] => assigned_caller[l] # Nobody \/ gone # {}
        /\ last_logged[l] = assigned_caller[l]

\* Without full-row edits and deletions, all of this implements the life of a
\* lead drawn in LeadOwnership.
OwnershipPhase(l) ==
    IF assigned_caller[l] = Nobody
    THEN IF cooldown[l] > 0 THEN "cooling" ELSE "free"
    ELSE IF ~stamp[l] THEN "manual"
    ELSE IF call_started[l] \/ assigned_caller[l] \in attempted[l] THEN "calling"
    ELSE "claimed"

Ownership == INSTANCE LeadOwnership
    WITH phase <- [l \in Leads |-> OwnershipPhase(l)], owner <- assigned_caller

\* Every step of the website queue is a step, or none, of LeadOwnership.
ImplementsOwnership == Ownership!Spec

\* The claim is unused: still the assignment it made, and no call known.
UnusedClaim(l) == claimed[l] /\ stamp[l] /\ ~call_started[l] /\ attempted[l] = {}

\* A claim on a pending lead whose app died does not keep the lead for ever: it
\* is swept, used, reassigned or its status changed.
PendingClaimIsRecovered ==
    \A l \in Leads :
        UnusedClaim(l) /\ assigned_caller[l] # Nobody /\ status[l] = Pending
            ~> ~UnusedClaim(l) \/ status[l] # Pending \/ gone # {}

=============================================================================
