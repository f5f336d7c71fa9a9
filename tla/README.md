# Verification of the Vaani CRM backend

TLA+ models of the parts of this Django backend in which several people, devices and
jobs write the same rows, checked with TLC on small instances and, liveness apart, proved
for every value of their constants with TLAPS.

The code runs as several Daphne worker processes over PostgreSQL.
`ATOMIC_REQUESTS` is off: a handler is a transaction only where it says
`transaction.atomic`, and it is isolated from others only by the rows it locks with
`select_for_update`.  That decides what one action is in these models (see "What is one
step").

## 1. The system

| Part | State it keeps | Operations | What is hard about it | What makes it correct |
| --- | --- | --- | --- | --- |
| **accounts** (sign-in) | `User`, photo requests, `AttendancePhotoChallenge`, `Token`, `CallerSession` | sign up, challenge, verify, enrol, review, heartbeat, logout, `expire_mobile_sessions` | a login holds the row for the seconds of a face match; requests are authenticated before they lock | only the latest login is open; its active time is counted once |
| **accounts** (location) | `EmployeeLocationPoint`, last position | report positions | positions arrive late, twice, or from a clock ahead | a position is of the session it is filed under |
| **activity** (work sessions) | `WorkSession`, `WorkActivitySegment`, `ActivityBreak` | start, login, pause, resume, switch, end, admin close, midnight job | clock and session are read before the lock; the job works from a list | one open shift; children tile it; a closed shift is final; a forgotten shift is closed |
| **activity** (policies), **web** (attendance) | `PolicyException`, `Attendance`, `AttendanceCorrectionRequest`, `LeaveRequest`, holidays | evaluate a protected action, request, review, withdraw, approve and revoke exceptions, apply for and decide leave, compute the status of a day | an approval is bound to a shift after the fact; a shift is checked in one transaction and ended in another; the status is computed when it is looked at | an early end was allowed; a request names a shift of its day; leaves do not overlap; a settled day stays |
| **calls** | `Call` (event id, fingerprint, outcome), recordings | submit a call, upload a recording | replays with and without an event id; the lead may have changed hands | a call is saved once and has its effects once |
| **chat** | channels, messages, single-use socket tickets | send, list, connect | ticket race; fan-out after the commit | a ticket opens one socket |
| **followups** | `FollowUp` (status, dates, alert mark) | schedule, edit, settle by a call, announce, penalise | calls are reported late; the jobs work from lists and an old clock | a lead costs one penalty; a call settles only what came before it; what stays overdue is penalised |
| **leads** (website queue) | `Lead` row, `LeadAvailability` row, `LeadAssignmentHistory` | claim, call started, release, outcome, sweep, manual assignment, edit | sweep from a snapshot; full-row saves; three rows that must agree | section 3 |
| **leads** (intake) | `Lead`, `ApostilleLeadDetails`, advisory locks | website form, call to an unknown number, enquiry and its edit, counselors' forms, imports | look-up and insert are apart; one number has several written forms; several locks | locked requests make no second lead of what they lock and look up; an event is saved once; no edit is lost; only foreign keys close a deadlock |
| **leads** (workload) | `CallerWorkloadAlert` | save a lead, assign many, call; evaluate a caller in a transaction or after its commit; check all | a form is compared with a row that changes while it waits; a count is read before its alert is locked; callbacks die; alerts are locked in any order | a change of a backlog is evaluated; the check repairs |
| **leads** (counselor) | `LeadCounselorAssignment`, `CounselorNote`, `AdmissionRequest` | forward, note, request and review admission | check-then-act around locks | one counselor at a time; one pending request per lead; a note is saved once |
| **notifications** and **accounts** (push) | `Notification`, `PushDevice`, `PushReceipt` | register and remove a device, persist with the transaction, push after the commit, check receipts | batches and answers get lost or come late; phones lose the app and register again | a push has its entry; none is sent twice; a stale answer switches no device off |
| **performance** | `PointsEntry` (unique `event_key`), `PointsAdjustment` | award, daily call bonus, penalty, reconcile, backfill, adjust | the same event from several paths, in any order | the bonus matches the calls; interest is paid once, to the first |
| **web** (pages, reports) | nothing of its own | pages, exports and reports over all of the above | they write rows owned by other parts | they keep those parts' invariants |
| **config** | settings, Redis cache with an in-process fallback | get, set, get_and_delete | an outage splits the cache between workers | shared keys fail closed |

How they interact: `calls` calls `leads.outcomes`, `followups.services` and
`performance.services` inside its transaction; `leads.queue` and `leads.claiming` run the sweep
as part of every read; `accounts` starts work sessions at login; `web` reviews write
`activity` and `leads` rows; `notifications` runs in `on_commit` callbacks.

Every component, modelled or not, is listed with its sources in `PROJECT.json`
("components"); everything that is hard to test in this code is listed there at its line
("hazards"), with the properties that would catch it.

## 2. Modules

| Module | What it is |
| --- | --- |
| `WebsiteLead` | the website lead queue, with its properties |
| `LeadOwnership` | abstract: the life of one lead, as free, claimed, in a call, cooling down or manually owned |
| `WebsiteLeadProofs` | theorems about `WebsiteLead` |
| `WorkSession` | the shifts of one employee, with their properties |
| `Timesheet` | abstract: what the shifts of an employee book, as work and as rest |
| `WorkSessionProofs` | theorems about `WorkSession` and its `Timesheet` |
| `CounselorHandover` | the counselling of a lead: forwarding, notes, admission requests, with its properties |
| `CounselorHandoverProofs` | theorems about `CounselorHandover` |
| `PointsLedger`, `PointsLedgerProofs` | which calls are saved, which leads they create, what the ledger pays for them; theorems |
| `Reminders` | follow-ups: made, settled, edited, announced, penalised |
| `ShiftPolicy`, `ShiftPolicyProofs` | early ends, requests and their review, exceptions, leave, and the status of a day; theorems |
| `LeadIntake`, `LeadIntakeProofs` | the ways a lead comes into being, and the phone locks; theorems |
| `SignIn` | challenges, enrolment, mobile sessions, positions |
| `WorkloadAlerts` | who is evaluated for a low backlog, when, and what the alerts then say |
| `PushDelivery` | devices, pushes after the commit, tickets and receipts |
| `RemindersAndPushProofs` | theorems about `Reminders` and about `PushDelivery` |
| `SignInAndAlertsProofs` | theorems about `SignIn` and about `WorkloadAlerts` |
| `MC...` | model values and definitions for the configurations of the module named |

A call touches four parts in one transaction. Each part has its module: the call is saved
and paid in `PointsLedger`, settles and makes reminders in `Reminders`, reports its outcome
in `WebsiteLead`, and makes a lead under its locks in `LeadIntake`. What one module leaves
out of the call decides nothing in it. In the same way `WorkSession` has the shift as
requests race for it, and `ShiftPolicy` the shift as the policy measures it.

### What is one step

A handler that locks its row first and holds it to the commit is one action. These
kinds of handler are not, and have several actions each:

* the stale-claim sweep (`SweepScan`, `SweepCommit`): the candidate query reads a
  snapshot; PostgreSQL re-evaluates its conditions on the lead row when it locks it, and
  the code looks again at the availability row;
* the lead edit forms (`EditRead`, `EditSave`) and the follow-up page (`EditRead`,
  `FollowUpSave`): they read the lead without a lock; `save()` then writes every column back, and
  the reminder is that of the caller who had the lead when it was read;
* the activity endpoints (`Ask`, `Find`, then `Start`, `Pause`, ...): they read the clock,
  look the session up without a lock, then lock and commit with the time they read. The
  midnight job (`RecoverScan`, `RecoverOne`) lists its candidates and handles each in a
  transaction of its own;
* a counselor's note and admission request (`AskNote`, `AskAdmission`, then `SaveNote`,
  `RequestAdmission`): they look the assignment up without a lock. A note then relies on a
  unique index, a request locks the lead and checks the lead, but not the assignment, again;
* the end of a shift (`AskEnd`, `End` of `ShiftPolicy`): `evaluate_protected_action` and
  `end_work_session` are two transactions, the second with the time the first read;
* a request that makes a lead (`Begin`, `Lock`, `Look`, `Create`): it takes its locks one
  after the other, looks its numbers up, then inserts; a crash in between (`Crash`) undoes it;
* a login (`BeginVerify`, then `SignIn`, `Enrol`, `RefuseVerify` or `AbortVerify`): it holds
  the employee's row and an old clock while faces are compared. Other requests of the app
  (`Authenticate`, then `Heartbeat`, ...) are authenticated before they lock;
* the save of a lead (`Peek`, `Save` of `WorkloadAlerts`): the signal compares with a row read
  without a lock, and the `UPDATE` may wait for one;
* an evaluation of a caller (`Read`, `Write`): the pending leads are counted before the alert is
  locked. What a bulk assignment or a call writes shows at `Commit`; the
  callbacks of the saves (`Callback`) come after it and a process may die before them;
* a push (`Persist`, `Commit`, `Compose`, `Send`, `Answer`): the network lies between any two, and
  each ticket of an answered batch is handled by itself;
* the jobs, which list their rows and take them one at a time: `ListExpired`, `Expire`;
  `Reconcile(i, began)`, whose clock is that of its start.

A refused request changes nothing, so it is a stuttering step (or `Refuse`, which ends a
pending request). So is a repeat that the code answers from what is saved.

### `WebsiteLead` and the code

| Variable | Column |
| --- | --- |
| `assigned_caller`, `status` | `Lead.assigned_caller`, `Lead.status` |
| `stamp` | `Lead.assigned_at = LeadAvailability.claimed_at` (the code only compares them) |
| `claimed_by`, `claimed`, `age` | `LeadAvailability.claimed_by`; `claimed_at` is set; its age in ticks |
| `call_started`, `cooldown` | `call_started_at` is set; ticks until `available_at` |
| `attempted`, `open_call` | whose calls have `started_at >= claimed_at`; a call has no `ended_at` |
| `reminder`, `last_logged` | pending `FollowUp`s; `new_caller` of the newest history row |
| `gone`, `sweep`, `edit` | deleted accounts; running sweeps; open edit forms |

`Claim`, `MarkCallStarted`, `Release` and the sweep are `claiming.py`; `RecordCall` and
`DeskCall` are `CallCreateView.post` with `apply_website_outcome` and
`complete_due_followups_for_call`; `BulkAssign` is one lead of a `bulk_assign_leads` batch
(the leads of a batch commit together in the code; taking them one at a time allows every
order the batch does and more); `EditLead`, `EditRead`, `EditSave`, `FollowUpSave` and
`ScheduleFollowUp` (a follow-up with nothing between its reading and its save) are the lead pages and endpoints; `DeleteCaller` follows the `SET_NULL` foreign keys;
`InQueue` is `caller_lead_queue`.

A callback that a manager records for a lead without an owner reminds the manager, whose
list is not modelled. A manual reassignment to the claimant of before is possible, and
that caller may then still release the lead: `ManualOwnerIsKept` allows exactly this.

`LeadOwnership` says what the queue promises about one lead: it is taken only when free,
dialled only by its claimant, handed back by release only before a call, kept from
everybody while it cools down, and a manual owner is replaced only by another assignment
or by handing back. `ImplementsOwnership` maps a lead's rows to that life
(`OwnershipPhase`) and checks every step.

### `WorkSession` and the code

One employee: sessions of different employees share no row. `status`, `started`, `ended`,
`reason` are the columns of `WorkSession`; `children` holds a session's segments and
breaks in order of creation (two tables in the code; a child knows which it is in);
`request` is what an endpoint of the employee knows at the moment: the operation, the
clock it read and the session it found. `recovery` is a run of
`close_midnight_sessions`; `correction` holds `MISSING_CHECKOUT` requests. These are
requests saved earlier: the mobile endpoint refuses that type, and at this commit the
class `AttendanceCorrectionRequestForm` does not take the `user` the submission page
passes to it, so the page cannot save a new one; the review page handles those that exist.

Time is counted in ticks; `DayLength` ticks lie between two midnights. Several requests
may read the same tick, which microsecond timestamps rarely do, so the comparisons of
the code (`<`, `<=`) are kept as they are written.

`Timesheet` says what the rows are for: one shift runs at a time, and each turn between
work and rest, or the end, books all ticks since the turn before as what they were spent
on. `Sheet` maps the rows to it: a session is booked up to where its open segment or break
begins, its closed segments are its worked ticks, its closed breaks the rested ones. Nothing
in `Timesheet` says where a turn gets its time from: that a request may commit with an old
clock, and the midnight job with a midnight long past, and still book each tick once is what
`ImplementsTimesheet` shows. An approved missing checkout (`Amend`) moves the end and books
nothing. `shift_recovery` checks this with one request in flight besides the manager, the
reviewer and the job; for several the theorem of section 4 stands.

### `CounselorHandover` and the code

`assignments[l]` holds the `LeadCounselorAssignment` rows of a lead, `notes` the
`CounselorNote` rows and `admissions` the `AdmissionRequest` rows, each oldest first; `nth`
is the foreign key of a note or a request to an assignment of its lead. `pending[r]` is what
a request in flight has read. `Forward`, `SaveNote`, `RequestAdmission` and `Review` are the
services of `counselor_services.py` of similar names; `Ask...` is the part of each endpoint
that comes before its lock or its insert, with the permission check. `Forward` needs nothing
from that part but the account's permission, because it checks everything again under the
lead's lock. In `SaveNote` the insert and the look-up after a collision are one step: rows are
not deleted, so what collided is still there.

Around it, the lead changes as far as the services above read it: `Outcome` and `Admit` set
its status, `BulkAssign`, `ReassignCreated` and `GiveBack` its caller, `SetActive` an
account. `status` keeps three classes of the status column: `FORWARDABLE` (B2B, or INTERESTED
with course and year on the latest interested call), `ADMISSION_DONE`, and `OPEN` for the
rest. The partial unique indexes `one_active_counselor_per_lead` and
`one_pending_admission_request_per_lead` are not modelled: `OneCounselorAtATime` and
`OnePendingRequest` hold by the locks alone. The unique index on a note's event id is
modelled (`Inserts`), since `NoteSavedOnce` needs it.

### `PointsLedger` and the code

`calls` are the saved `Call` rows in order; `bonus[c][d]` is the `PointsEntry` with key
`daily_calls:c:d` and `interest[l]` the one with key `lead:l:INTERESTED`; `owner`,
`preferred` and `interested` are what the awards read of the lead. `Submit` is
`CallCreateView.post` with its look for an earlier copy (`Saved`: by event id, or by contents
when the call has none), the lead it may create and both awards. `Rescore` and `Backfill`
are `reconcile_points --backfill`. `DailyTier` is the tier of the day's dials, `Classified` the
comparison of the courses.

### `Reminders` and the code

`followups` are the `FollowUp` rows in order, `kept` and `missed` their awards and penalties.
`Call` settles (`complete_due_followups_for_call`) and makes reminders; `Schedule` and
`Edit` are the managers' and callers' pages with `FollowUp.save` (`SavedAs`); `Remind` is
`check_and_notify_due_followups`; `Reconcile` is `reconcile_points`, whose clock may be any
earlier one.

### `ShiftPolicy` and the code

One employee. `sessions` keeps of a `WorkSession` its day, times, status, how it was closed
and its breaks; `childEnd` is when its segments ended, `Never` after an approved missing
checkout that left them open. `requests` are the `AttendanceCorrectionRequest` rows, `review`
their order by `reviewed_at`; `exceptions` are the `PolicyException` rows and `grants` the
approved ones in the order of `approved_at`, which is the order the code looks through.
`ending` is the end of a shift between the check and `end_work_session`.

`NetWork`, the number of `WorkTicks`, is `calculate_persisted_net_work_seconds`; the merged
intervals of the code are sets of ticks, and its sums the size of such a set. `LongEnough` with `Covers`, `Standalone` and `Located` is
`evaluate_protected_action`. `DayStatus` and the operators above it are
`calculate_daily_attendance_record`. A geofence is one choice, inside or not. An earlier
request (`EarlierAsks`) has a type the app does not send (`MISSING_CHECKOUT`, `OTHER`):
the web page that could send one fails at this commit, its review page does not.

### `LeadIntake` and the code

A worker is a server thread with its transaction: `job` is the request, `held` its locks,
`left` the numbers it has still to look up, `made` those it will save. `Forms` are phones as
they are stored. Three parts of the code disagree on which of them are one number, and each is a
constant of its own: `Variants` is `phone_variants` (with and without 0, 91 and 0091), `Found`
is `get_phone_lookup_variants` (no 0091), `Local` the counselors' last ten digits. `Wants` and
`InOrder` say which locks a request takes and in which order: only callers' calls take their
phone's, a `DESK` call (`calls/api/views.py:92`) creates its lead without. Users, the service
and the phones are the keys, in this order. `Refers` are the rows the inserts of a request name,
which its commit share-locks (Django's foreign keys are deferred), so that it may wait once more
(`Checks`). `Passes` is the check each kind makes, and `Rewrite` the edits that write any phone over
a lead's (`lead_detail`, `MobileLeadUpdateView`). `saves` is not in the code: it counts the
saved edits, to compare with `revision`.

### `SignIn` and the code

One employee with any number of requests in flight. `login` is the verification that holds
the employee's row, with the clock it read first; `token` is the session whose login made
the `Token`; `authed` are the requests between authentication and lock. `Closed` is
`close_session`, `Replaced` is `close_open_sessions`, `Current` is
`VerifiedSessionAuthentication`. An active day ends at midnight (`NextMidnight`), so a session may
be closed with an `ended` before its `last_seen`. `job` are runs of `expire_mobile_sessions`.

### `WorkloadAlerts` and the code

A worker is a server thread, or the process of `check_caller_workload`. `saved` and `written` are
the rows its transaction wrote and keeps locked, `todo` the callers it evaluates next, `queued`
those its `on_commit` callbacks will, `form` the save of one lead it is about to make: the row
`lead_workload_pre_save` read (`old`) and the row in hand (`new`), written whole or its status
only. `alert[c]` is the open `CallerWorkloadAlert` of a caller, as
the count it shows. `Touched` is `lead_workload_pre_save`; `Read` and `Write` are
`evaluate_caller_workload`; `Peek` with `Save` is any handler that saves one lead without a lock
held from before, and the lead may change in between (`Updated` is what is then written). A `Call`
whose outcome is to be tried again takes the lead from its caller (`released`). PostgreSQL is modelled where it decides: uncommitted rows are not seen, a second writer waits (`Waits`),
and a circle of waiting transactions loses one (`Rollback`). `drifted` and `alone` are history: the
callers whose alert was written from an old count, whose role changed, whose callback died or
whose backlog a save changed behind the row it was compared with (`Missed`), and a check that
nothing ran beside.

No timer of the repository starts `check_caller_workload`, so nothing is claimed of when an alert
is repaired.

### `PushDelivery` and the code

`user`, `isActive` and `seen` are the columns of `PushDevice`; `phone` is what the telephone has, which
nobody tells the server. `stage` is where the thread that serves an event is. `composed[e]`
holds the devices it read with their `last_seen`, `left` those still to send to, `air` a batch
on its way. `deactivate_unregistered` is `Deactivated`: it writes only while `last_seen` is the
one of the push. The three senders differ in two things only: a website offer has no inbox
entry and stops when the lead is claimed, and an assignment is sent phone by phone.

## 3. What is checked

### Runs

| Run | Instance | Shows |
| --- | --- | --- |
| `lead_claims` | one lead, callers `a` and `b` with role CALLER, a desk manager, one sweeper, retry and non-retry outcomes, timeout 0, a sweep that may last one tick | claim, assignment and history agree; manual owners are kept; `LeadOwnership` is implemented; an abandoned pending claim is recovered (liveness) |
| `lead_edits` | the same with a full-row edit form and a deletable account | that a free lead is offered, a called claim is kept and a cooldown runs its course survive them |
| `shifts` | two requests in flight, a manager, the midnight job, three days, two sessions, three children | one open shift; children fit the status and tile the session; a finished session is frozen |
| `shift_recovery` | one request, a missing checkout under review, two-tick days | the job closes at midnight and never early; every session not touched after its midnight is closed (liveness); `Timesheet` is implemented |
| `handover` | one lead created by counselor `k`, callers `c` and `d`, counselors `d` (dual-role) and `k` (may be deactivated), two requests in flight | one counselor at a time; one pending request; rows name their author's assignment; a note is saved once |
| `points` | two callers, two numbers, two courses, four calls (two with one event id, one without, one that makes a lead), three saved calls, two days | a call is saved once; the bonus of a day matches its calls; interest is paid to the first |
| `reminders` | one number, two callers, two reminders, a late call, edits that complete, put off, reopen and cancel | nothing is completed before it was made; what stays overdue is penalised (liveness) |
| `days` | two-tick days, two shifts with a break each, and one request (sent or from earlier), or one exception (for the duration or a geofence), or two leaves and holidays; a week off | an early end was allowed; requests name their day; a settled day stays |
| `intake` | three threads, one number with 0091, with 91 and bare, and a second number; two users, two events, ten requests of eight kinds, and edits of any phone; four requests or edits | of two leads made under phone locks the later clashes with nothing its maker looked up; one lead per event; no lost edit; only foreign keys close a deadlock |
| `signin` | two requests in flight, two challenges, two sessions, one position, one run of the job, two days | one way in; active time is counted once; positions are of their session |
| `workload` | two threads, two callers, two leads, threshold 1, two operations, one accident (a role that changes or a process that dies) | every change of a backlog is evaluated; a check that runs alone repairs everything |
| `push` | one phone, two employees, a chat message for one and a website lead for both, three registrations | a registered phone is reached; a push has its entry, and goes to nobody an event is not for; no push twice |

The types are proved (section 4), and the runs leave them out.

Each property has a mutant in `PROJECT.json`: a definition of the model changed as a bug in
the code would change it, under which the run finds the property violated.

### Where the code falls short of its texts

No run covers these; they are hazards in `PROJECT.json`, each with its line. The models follow
the code in all of them, and the properties are stated so far as the code keeps them:

* the sweep looks at PENDING leads only (`claiming.py:36`), and a lead that came back from a
  retry keeps the status of its call, so its next claim, abandoned, is never given back;
* the midnight job refuses for ever a session that was paused, resumed or switched after its
  midnight (`activity/services.py:807`);
* two evaluations of one caller may write the older count last (`workload.py:158`), though
  `signals.py:4` says that alerts stay in sync. Nor do they when a form waits behind a bulk
  assignment: `pre_save` read the owner before it (`signals.py:38`), so the caller the assignment
  chose, and loses again to the form, is not evaluated;
* two bulk assignments that exchange leads lock the alerts of their callers in opposite orders
  (`leads/services.py:744`); PostgreSQL rolls one back, and nothing tries it again;
* a claimed lead that a manager reassigns is in no queue (`queue.py:137`);
* only the last approved exception is asked (`policy_services.py:738`), and a revoked and
  approved one counts for the day but not for the shift (`policy_services.py:486`);
* a reopened reminder may never be announced again (`followups/models.py:55`);
* a paste sent twice imports twice (`leads/services.py:809`);
* one number gets two leads in spite of the locks: the duplicate lookup finds no 0091
  (`phone_normalization.py:311`), counselors look for more forms than it and the website for
  fewer, a manager's call takes no phone lock (`calls/api/views.py:92`), and edits look nothing up
  (`web/views.py:376`, `mobile_views.py:73`);
* a website form for the apostille service and an enquiry of its number wait for each other: the
  form's commit for the service row, the enquiry for the phone (`public_intake.py:101`,
  `apostille_views.py:94`). So do an enquiry, whose `created_by` waits for the user's row, and a call
  of the same user to its number (`apostille_views.py:116`, `calls/api/views.py:51`). PostgreSQL ends
  one of the two; the client has to send it again.

### Bounds

`lead_*`: one website lead, because the handlers write the rows of one lead at a time, and
leads are related only through the sweep's list and a batch, neither of which decides about
one lead from another. Two callers are needed for a handover and suffice for it.
`Timeout = 0` makes a claim stale after one tick; the ages that matter are fresh, just
stale, and stale when the sweep began, which `MaxLag = 1` tells apart. The retry delays are
one and two ticks. `AgeCap` bounds the ages.

`shift*`: two sessions and three children are the smallest instance with a resumed break and
with a second shift; two requests in flight are the smallest with a race. `shifts` has one
tick per day, so that its three ticks are three days: a request may be one or two midnights
late. `shift_recovery` has two ticks per day, to tell times within the day apart. Devices are
symmetric in `shifts`, which checks no liveness. `Horizon`, `MaxSessions` and `MaxChildren`
are in the guards.

`handover`: two assignments are one hand-over from counselor to counselor, two notes and two
admission requests the least that can repeat, and two requests in flight the least that can
race (`MaxAssignments`, `MaxNotes`, `MaxAdmissions`). Both notes carry the same event id; a
note without one is always saved, and nothing is claimed of it. Leads share nothing but the
event ids of notes. Requests are symmetric.

`points`: `CallsPerStep = 1` and a cap of two steps let three calls pass the cap (`MaxCalls`).
`reminders`: two reminders (`MaxFollowUps`) are the least that compete for a penalty, and a
call of the first tick reported at the last is late. `MaxEdited` lets the first only be
edited, so that its edits meet an untouched one. `days`: two ticks per day and four ticks
are two days; `MinWork` is a whole day, so that every break and every early end is short.
`MaxRecords` leaves room for one request or exception, or two leaves and holidays, and
`MaxBreaks` for one break per shift: an approval meets two shifts of its day, though not another
approval (`EarlyEndsAreAllowed` is for any number). `intake`: three forms of a number are the least that tell
the three lookups apart, three threads the least that can wait in a circle in more than one
way, `MaxRequests` four requests or edits the least that make, edit and repeat an enquiry while
another writes; threads are symmetric. `signin`: two half days per day, two logins
(`MaxChallenges`, `MaxSessions`), a tick for each tolerance, one position (`MaxPoints`: a
position is checked against sessions, not against others) and one run of the job
(`MaxJobs`). `workload`: two threads are the least that wait for each other or compare with each other's rows, two leads
the least that two callers exchange; `MaxOperations` two operations and `MaxAccidents` one
accident, so that a save whose callbacks die meets a check. The first rows are any, with the
alerts that fit them; threads, callers and leads are symmetric (the run checks no liveness). `push`: phones share nothing but a batch,
whose tickets are handled one by one, so there is one, and a batch is one push
(`BatchSize`); `MaxRegistrations` three registrations are two stale ones. What a bound leaves out the theorems
cover, except for the liveness properties.

### Fairness

`lead_claims`: time passes (weak), sweeps keep starting (weak: every
read of a queue or of the routing dashboard starts one) and a sweep that meets a lead
again and again is not locked out of it every time (strong on `SweepCommit(s, {})`: it
skips locked rows, and those locks last one short request). Nothing is assumed of callers,
managers or the app.

`shift_recovery`: time passes, the scheduler keeps running the midnight
job and a run comes to its end (weak). Nothing is assumed of the employee.

`reminders`: the timer `vaani-points.timer` runs `reconcile_points` every minute, and a run
takes every follow-up (weak on `ReconcileNow(i)`). Nothing is assumed of callers, nor that
time passes: what is overdue is penalised unless it is settled.

The other runs assume no fairness: their properties are about safety.

Deadlock is checked in every run but `days`, `intake`, `workload` and `push`, which end when the
clock, the requests or the registrations of the bound are used up; how requests may wait for each other is
`OnlyForeignKeysCloseACircle`.

## 4. What is proved

`WebsiteLeadProofs`, from `WebsiteLeadAssumption` only (any leads, callers, managers,
sweepers, forms, timeouts and delays):

* `TypeCorrect`: `TypeOK`.
* `FreeLeadOffered`, `CalledClaimKept`, `CooldownRuns`: the properties that survive edit
  forms and deletions. They rest on `ClaimInv`: a started call, or a call of the claim, is
  on record only while the lead is claimed, and a claimed lead has no cooldown left.
  `CooldownRuns` is `CooldownRunsItsCourse`: of a lead that cools down only time changes what is
  left, nobody claims it, only a manager's assignment or the save of an older row gives it an
  owner (`CoolingOwner`), and no queue shows it but its owner's, or that of a caller with a reminder
  due (`CoolingRow`).

With `Editors = {}` (nobody saves a full row: a stale form gives a reassigned lead back):

* `ClaimAgrees`, `HistoryMatches`, `OwnedLeadKept`, `ManualOwnerKept`: they rest on
  `OwnerInv`: a stamped assignment is the claimant's, a claim has an owner unless an
  account was deleted, and the history ends with the owner.

With `Editors = {}` and `Removable = {}`:

* `OwnershipImplemented`: the refinement of `LeadOwnership`. Each action maps to a step of
  the abstract life of each lead or leaves that life alone.

`FreeLeadIsOffered` is not inductive alone: that a free lead's `call_started` is clear
follows from `ClaimInv`, not from the guards of `Claim`. The sweep is why
`CalledClaimIsNotTakenBack` needs a proof: what it listed may be two steps old, and the
proof uses only what `StillStale` reads again.

### `WorkSessionProofs`

From `WorkSessionAssumption` alone. The invariants are not proved action by action:
`SessionStep` shows once that a step leaves every session alone or does one of five things
to one of them (`Begins`, `Moves`, `Completes`, `AutoCloses`, `Amends`), and the other
proofs go by these cases. For any number of devices and saved corrections:

* `TypeCorrect`: `TypeOK`. The one delicate case is the end the midnight job writes, which
  is a cutoff and not a clock: it is in range because the job's clock is past it.
* `OneShift`: `OneShiftAtATime`. It is inductive with the type, because only `Begins` adds
  an open session and it does so when there is none.
* `ClosedStays`: `ClosedStaysClosed`, approved corrections included.
* `AutoClosed`: `AutoClosedAtMidnight`. It needs `NoTimeTravel`: the clock of a run of the
  job, however long the run takes, is not ahead of the clock.

With `Corrections = {}` (no missing-checkout request is waiting: its approval completes a
session and leaves its open child open):

* `Frozen`: `FinishedSessionIsFrozen`, from `EndedStep`: only an amendment writes a closed
  session.
* `ChildrenMatch`: `ChildrenMatchStatus`.
* `Gapless`: `TimelineIsGapless`, from `TilingInv`, which adds that a session has an end
  only when it is closed. Then the open child can only be the last one (`CloseTiling`), so
  closing it and opening the next at one time keeps the tiling (`ExtendTiling`).

For any devices, sessions and corrections again:

* `TimesheetImplemented`: the refinement of `Timesheet`. `MatchInv` and `TilingInv` say of each
  session that was not amended (`Unamended`) what `ChildrenMatchStatus` and `TimelineIsGapless`
  say of all. So the open child of an open session is its last (`LastIsOpen`): it begins where
  the timesheet is booked up to, and it has the kind of the status. Closing it at a time that
  is not earlier is a booking (`CloseBooks`, `ClosingIsBooking`), the child opened next
  books nothing yet (`OpeningBooksNothing`), and an approved correction is an `Amend`, because the
  session it is about has begun (`BoundInv`).
* `NoTickTwice`, and with `Corrections = {}` `EveryTickBooked`: worked and rested ticks are
  disjoint and together are the whole shift. This is proved from the steps of `Timesheet`
  (`BookedStep`), to which the refinement reduces the ten actions of `WorkSession`; it is inductive
  with the fact that no shift is booked to before its start.

### `CounselorHandoverProofs`

From `CounselorHandoverAssumption` alone, for any leads, accounts and requests. `Replaced` ends
the newest active assignment and no other, as `forward_lead_to_counselor` does: that none is left
is part of `OneCounselor`. Each of the
three tables is written by one or two actions (`AssignmentsStep`, `NotesStep`,
`AdmissionsStep`), and each theorem goes by the actions that write the table it is about.

* `TypeCorrect`: `TypeOK`.
* `OneCounselor`, `ForwardedByCaller`: from `ForwardFacts`, what a change of a lead's
  assignments looks like.
* `WorkNamesCounselor`: from `WorkInv`, which says the same of the requests in flight: what
  `Ask...` read was an assignment of the user, and an assignment keeps its counselor
  (`AssignmentsKept`) though it may end.
* `NoteOnce`, `OnePending`, `ReviewFinal`, `AdmittedNotAskedFor`: inductive with the type.

`WorkNamesCounselor` is what remains true of a request whose assignment has ended; that it is
filed under a current one does not hold.

### `PointsLedgerProofs`

From `PointsLedgerAssumption` alone, for any callers, calls, step and cap of the bonus:
`TypeCorrect`, `BonusOfTheDay`, `SavedOnce`, `InterestPaidToTheFirst`. Saved calls are only
appended, and each property compares the ledger with them, so each is inductive with the
type. For the bonus, a call adds one dial to one day of one caller, and the entry of just
that day is written again; to score a saved call again writes what is there.

### `RemindersAndPushProofs`

Reminders, from `RemindersAssumption` alone: `TypeCorrect`; `PenaltyOnce` (a lead costs one penalty);
`CompletedLater`. `RowsStep` says what any step may make of a row and `LedgerStep` what it may
add to the penalties; `CompletedLater` needs `MadeInv`, that no reminder was made in the
future, since an edit dates a completion with the present.

Pushes, from `PushAssumption` alone, for any devices, users, events, batches and
registrations: `PushTypeCorrect`, `RegisteredAreReached`, `EntriesComeFirst`, `PushedOnce`,
`AudienceOnly`, all from `PushInv`, which is the type and four parts:

* `StampInv`: no stamp (`last_seen`) that a device has, or that a push, a ticket or a receipt
  remembers, is of a registration still to come.
* `GoneInv`: whatever says that the app is gone, wherever it is under way, remembers another
  stamp than that of an app registered now. A new registration keeps it because its stamp
  is later than all (`StampInv`), a lost app because it is not registered. So the
  comparison in `deactivate_unregistered` is what `RegisteredPhonesAreReached` needs, and it is enough.
* `EntryInv`: an event that is past its commit has its entries, and the devices composed belong
  to its audience. Other accounts may ask for their tokens meanwhile, but a token stays with its
  first account, so both are still so when the batch leaves.
* `OnceInv`: what is still to send was not sent yet.

### `ShiftPolicyProofs`

From `ShiftPolicyAssumption` alone, for any clock, requests, windows and spans. `Writers`
says which actions write which table, and for each table one lemma says what a step keeps
of its rows: a session its day (`SessionsKept`), a request its words, its session once it is bound
and its approval (`RequestsKept`), an exception its terms and the grants their members
(`GrantsKept`).

* `TypeCorrect`, `LeaveIsTakenOnce`; `RequestsNameTheirDay`, for each of the four ways a
  request is bound: sent, approved, found by the check, or there when the shift starts.
* `EarlyEndsAreAllowed`: `EarlyEndWasAllowed`, from `EarlyInv`: the end that has passed the
  check, and every session an employee has ended, is `Deserved` by its work or by something that
  permits it. It is needed because the check and the end are two transactions. The work
  until the time of the check is not changed by a break that begins or ends later
  (`BreakBegins`, `BreakEnds`), and what permits an end stays (`PermitStays`): a bound
  request keeps its session, and a revocation that comes later is dated later.
* `SettledDays`: `SettledDayStays`, the status of a past day changes only by a ruling of the
  management or by an end asked for on that day. The proof says what a step without these may
  still write there: a session left open may only become one that was closed at midnight or
  after the day (`LeftOpen`, `SettledSessions`), the attendance row keeps its entrance and its
  status, and its exit where no shift is (`SettledAttendance`), the approved requests stay what
  they were (`SettledRequests`); and the computation of the day reads none of the differences
  (`ClosedDayReads`, `SettledStep`). It needs `DatesInv`: a session is filed under the day it
  started. The property leaves out a day whose missing checkout was approved while its
  session stays open: the midnight job still changes what it counts as.

### `LeadIntakeProofs`

From `LeadIntakeAssumption` alone, for any threads, users, forms and requests, and whatever the
three lookups find: the assumption asks only that each of a call's and of the lookup's finds the form itself.

* `LocksDoNotDeadlock`: `OnlyForeignKeysCloseACircle`. Those of a circle that hold a lock are
  a circle. Of these a commit waits only if it is a website form's or an enquiry's
  (`CommitsThatWait`: a call holds the row it refers to, a desk's call waits for nobody). Without
  such a commit each waits for a lock, and holds those before it, so the one that awaits the last key
  waits for none of them. `LocksInv` says that locks exclude, are taken in order, and are all
  held once a request looks its number up.
* `LockedNumbers`, `EventsSavedOnce`, `NoLostEdit`: from `IntakeInv`, which adds what a request
  has found (`Promise`: the lead it will save stands `Apart` from every one there is) and what its
  edit has read (`EditOf`). Another thread could break these only by saving a clashing lead,
  and for that both would hold one lock. Leads that an edit renumbered are no longer claimed.

### `SignInAndAlertsProofs`

Sign-in, from `SignInAssumption` alone, for any requests in flight, tolerances and bounds. Every step
makes of each session one that `Follows` it.

* `TypeCorrect`; `OnlyTheLatestLoginIsOpen`: the login that begins a session closes all
  others in the same transaction, those whose day is over included.
* `ActiveTimeFits`: from `CountInv`, which adds that no session was seen in the future: a login
  reads its clock before the comparison, but dates what was seen after it.
* `PositionsLieInTheirSession`: from `PointsInv`: no position is further ahead of the clock,
  or of a login under way, than the tolerance.

Alerts, from `WorkloadAssumption` alone, for any threads, callers, leads and threshold:
`AlertsTypeCorrect`, `ChangesAreEvaluated`, `ChecksRepair`, all from `AlertsInv`.

* `ChangesAreEvaluated`: `EveryChangeIsEvaluated`. A step that changes the pending leads of a
  caller is a commit, and what it wrote has the caller among those its callbacks will evaluate,
  unless the save was compared with an older row (`Missed`); for every other caller the backlog is
  the same (`UntouchedBacklog`). The thread that takes a
  caller off its list writes the alert, or is on record as having written it from an old count.
  `TodoInv` adds that a thread with a count has a caller it counted for.
* `ChecksRepair`: `CheckRepairs`, from `AloneInv`: while a check is alone, every caller who can
  call is in order or still on its list, and what it has counted is still so.

Model-checked only: the three properties under fairness (`PendingClaimIsRecovered`,
`ForgottenSessionIsClosed`, `OverdueIsPenalised`). Liveness needs ENABLED, which TLAPS
does not handle here. Every other property of a run is stated by a theorem.

## 5. What is not modelled

Components with status `not_modelled` in `PROJECT.json`, and inside the modelled ones:

* queue and leads: the order of the queue and its service mapping (they only remove leads
  from it), retry counts, categories, the texts of history and audit rows, deletion of
  leads, the Django admin's free editing;
* shifts: positions and distances, the policy pages (`EmployeeShiftPolicyView`, branches), the
  leaderboard and the statistics over many days of `attendance_services.py`. Two forms of the
  web page fail at this commit before they save anything: `attendance_correction_submit`
  (the form does not take the `user` it is given) and `attendance_correction_admin_create`
  (an import that does not exist);
* hand-over: the deletion of accounts (it empties `forwarded_by`) and the creation of leads,
  which is in `LeadIntake`;
* points: manual adjustments, peer appreciation, points of walk-ins and of apostille
  services, and the reports;
* intake: signatures, rate limits, parsing and preview of files, stored upload sessions;
* alerts and pushes: resolved alerts, the summary page, marking an entry read, the five-minute mark
  against a repeated assignment push, the manual test push;
* sign-in: the attendance row a login writes, the collection state of positions and the live
  page, the photo reviews of check-ins (their endpoints answer 410), the retention job.

Row locks are modelled by atomicity, so the order in which handlers lock callers and leads is
not, except that `LeadIntake` has the locks of numbers, of the apostille service and of the
user who calls, and `WorkloadAlerts` those of leads and alerts. Recordings, chat, reports and configuration are not modelled: each is one row and an outside
service, or reads only. Most of the code no definition maps to is of that kind: pages,
serializers, exports, reports and scripts.

## 6. Plan

Done, in this order: `WebsiteLead`, `LeadOwnership`, `WorkSession`, `CounselorHandover`,
`PointsLedger`, `Reminders`, `ShiftPolicy`, `LeadIntake`, `SignIn`, `WorkloadAlerts`,
`PushDelivery`, `Timesheet`, each with its proofs.

Left:

1. An implementation of `Timesheet` by `ShiftPolicy`, whose breaks are cut out of the shift.
2. The row locks of leads in `LeadIntake`, and of the callers that bulk assignments and sweeps
   lock, for the deadlocks between these and calls.
3. An abstract specification of a push, delivered at most once, for `PushDelivery`.
4. Recordings and their files, staged imports, and the single-use socket ticket.
