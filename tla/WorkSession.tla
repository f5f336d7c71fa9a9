----------------------------- MODULE WorkSession -----------------------------
(***************************************************************************)
(* The shifts of one employee: work sessions, the activity segments and    *)
(* breaks they consist of, and the job that closes the ones left open      *)
(* over midnight (apps/activity/services.py and the endpoints of           *)
(* apps/activity/api/views.py, the mobile login, and the two pages of      *)
(* apps/web that close a session).  Employees do not share a row, so one   *)
(* is enough.                                                              *)
(*                                                                         *)
(* An endpoint reads the clock and looks its session up WITHOUT a lock,    *)
(* and only then locks the session (or, to start one, the user) and        *)
(* commits with the time it read: three steps of a request, between which  *)
(* other devices, managers and the midnight job take theirs.  The job      *)
(* reads its clock and its list of candidates in one step and handles each *)
(* candidate in a transaction of its own.                                  *)
(*                                                                         *)
(* Refusals by GPS, the eight-hour rule, inactive categories and break     *)
(* reasons are a request that is given up (Refuse), and so is a repeated   *)
(* end or switch, which answers without changing a row.  Categories, notes *)
(* and the attendance record are left out.                                 *)
(***************************************************************************)
EXTENDS Integers, Sequences, FiniteSets

CONSTANTS
    Devices,        \* the employee's phones and browsers: one request each
    Ops,            \* the operations they ask for
    Corrections,    \* saved MISSING_CHECKOUT requests awaiting review
    CorrectedDay,   \* the date each of them is for
    DayLength,      \* ticks from one local midnight to the next
    Horizon,        \* bound: the last tick
    MaxSessions,    \* bound: sessions ever started
    MaxChildren     \* bound: segments and breaks ever opened

AllOps == {"start", "login", "pause", "resume", "switch", "end"}
Time == 0..Horizon
Days == 0..Horizon
Sessions == 1..MaxSessions
NoSession == 0
NotEnded == -1

ASSUME WorkSessionAssumption ==
    /\ Ops \subseteq AllOps
    /\ DayLength \in Nat \ {0}
    /\ Horizon \in Nat
    /\ MaxSessions \in Nat
    /\ MaxChildren \in Nat
    /\ CorrectedDay \in [Corrections -> Days]

VARIABLES
    clock,
    status,         \* WorkSession.status; "NONE" until the row is created
    started,        \* WorkSession.started_at; its local date is WorkSession.date
    ended,          \* WorkSession.ended_at
    reason,         \* WorkSession.closure_reason
    children,       \* segments and breaks of the session, in order of creation
    request,        \* what each device has asked for, and how far that is
    recovery,       \* the run of the midnight job: its clock, its candidates
    correction      \* AttendanceCorrectionRequest: its status and its session

session == <<status, started, ended, reason, children>>
vars == <<clock, session, request, recovery, correction>>

OpenStatuses == {"ACTIVE", "PAUSED"}
ClosedStatuses == {"COMPLETED", "AUTO_CLOSED"}
Reasons == {"", "MANUAL", "MIDNIGHT_CUTOFF", "ADMIN_OVERRIDE"}

Child == [kind: {"segment", "break"}, from: Time, to: Time \cup {NotEnded}]
Request == [op: AllOps, at: Time, sid: Sessions \cup {NoSession}]
Idle == [op |-> "idle", at |-> 0, sid |-> NoSession]
NoRecovery == [at |-> 0, todo |-> {}]
Review == [status: {"PENDING", "APPROVED", "REJECTED"}, sid: Sessions \cup {NoSession}]

TypeOK ==
    /\ clock \in Time
    /\ status \in [Sessions -> OpenStatuses \cup ClosedStatuses \cup {"NONE"}]
    /\ started \in [Sessions -> Time]
    /\ ended \in [Sessions -> Time \cup {NotEnded}]
    /\ reason \in [Sessions -> Reasons]
    /\ children \in [Sessions -> Seq(Child)]
    /\ request \in [Devices -> Request \cup {Idle}]
    /\ recovery \in [at: Time, todo: SUBSET Sessions]
    /\ correction \in [Corrections -> Review]

Init ==
    /\ clock = 0
    /\ status = [s \in Sessions |-> "NONE"]
    /\ started = [s \in Sessions |-> 0]
    /\ ended = [s \in Sessions |-> NotEnded]
    /\ reason = [s \in Sessions |-> ""]
    /\ children = [s \in Sessions |-> <<>>]
    /\ request = [d \in Devices |-> Idle]
    /\ recovery = NoRecovery
    /\ correction = [k \in Corrections |-> [status |-> "PENDING", sid |-> NoSession]]

IsOpen(s) == status[s] \in OpenStatuses
OpenSessions == {s \in Sessions : IsOpen(s)}

\* The local midnight that follows a time.
Day(t) == t \div DayLength
MidnightAfter(t) == (Day(t) + 1) * DayLength
Cutoff(s) == MidnightAfter(started[s])

----------------------------------------------------------------------------
(* Segments and breaks                                                      *)

OpenChildren(ch) == {k \in DOMAIN ch : ch[k].to = NotEnded}

ChildCount == Cardinality(UNION {{s} \X DOMAIN children[s] : s \in Sessions})

\* What the open children of a session must be, by its status.
ValidChildren(st, ch) ==
    \/ /\ st = "ACTIVE"
       /\ \E k \in DOMAIN ch : OpenChildren(ch) = {k} /\ ch[k].kind = "segment"
    \/ /\ st = "PAUSED"
       /\ \E k \in DOMAIN ch : OpenChildren(ch) = {k} /\ ch[k].kind = "break"
    \/ /\ st \in ClosedStatuses \cup {"NONE"}
       /\ OpenChildren(ch) = {}

\* Mutant: an open break is not closed.
CloseOpenSegment(ch, at) ==
    [k \in DOMAIN ch |-> IF ch[k].to = NotEnded /\ ch[k].kind = "segment"
                         THEN [ch[k] EXCEPT !.to = at] ELSE ch[k]]

CloseOpen(ch, at) ==
    [k \in DOMAIN ch |-> IF ch[k].to = NotEnded THEN [ch[k] EXCEPT !.to = at] ELSE ch[k]]

\* Mutant: the next child begins when the request commits.
OpenedLate(kind, at) == [kind |-> kind, from |-> clock, to |-> NotEnded]

Opened(kind, at) == [kind |-> kind, from |-> at, to |-> NotEnded]

\* No open child, nor the session, begins after the time of the request.
NotBefore(s, at) ==
    /\ started[s] <= at
    /\ \A k \in OpenChildren(children[s]) : children[s][k].from <= at

----------------------------------------------------------------------------
(* A request of a device                                                    *)

LoginUnderWay == \E d \in Devices : request[d].op = "login"

\* The endpoint reads the clock.  A login reads it after taking the user row,
\* which it keeps through the face match until it commits.
Ask(d, op) ==
    /\ request[d] = Idle
    /\ op = "login" => ~LoginUnderWay
    /\ request' = [request EXCEPT ![d] = [op |-> op, at |-> clock, sid |-> NoSession]]
    /\ UNCHANGED <<clock, session, recovery, correction>>

\* The statuses in which an operation looks its session up.
FoundIn(op) ==
    CASE op \in {"pause", "switch"} -> {"ACTIVE"}
      [] op = "resume" -> {"PAUSED"}
      [] op = "end" -> OpenStatuses
      [] OTHER -> {}

\* It looks the session up, unlocked.
Find(d, s) ==
    /\ request[d].sid = NoSession
    /\ status[s] \in FoundIn(request[d].op)
    /\ request' = [request EXCEPT ![d].sid = s]
    /\ UNCHANGED <<clock, session, recovery, correction>>

\* It answers without changing a row.
Refuse(d) ==
    /\ request[d] # Idle
    /\ request' = [request EXCEPT ![d] = Idle]
    /\ UNCHANGED <<clock, session, recovery, correction>>

\* The request of d is for an operation on a session it has found.
Commits(d, op, s) ==
    /\ request[d].op = op
    /\ request[d].sid = s
    /\ request' = [request EXCEPT ![d] = Idle]

\* Mutant: the open session is looked for before the user row is locked.
MayStartUnlocked(d) == ~LoginUnderWay \/ request[d].op = "login"

\* Under the user row, which a login already has, no session is open.
MayStart(d) ==
    /\ LoginUnderWay => request[d].op = "login"
    /\ OpenSessions = {}

\* start_work_session, by the endpoint or at the end of a login.  Requests for
\* the day that have no session yet are bound to the new one.
Start(d, s) ==
    LET at == request[d].at IN
    /\ request[d].op \in {"start", "login"}
    /\ MayStart(d)
    /\ status[s] = "NONE"
    /\ \A r \in 1..(s - 1) : status[r] # "NONE"
    /\ ChildCount < MaxChildren
    /\ status' = [status EXCEPT ![s] = "ACTIVE"]
    /\ started' = [started EXCEPT ![s] = at]
    /\ children' = [children EXCEPT ![s] = <<Opened("segment", at)>>]
    /\ correction' = [k \in Corrections |->
                        IF correction[k].sid = NoSession /\ CorrectedDay[k] = Day(at)
                        THEN [correction[k] EXCEPT !.sid = s] ELSE correction[k]]
    /\ request' = [request EXCEPT ![d] = Idle]
    /\ UNCHANGED <<clock, ended, reason, recovery>>

\* Mutant: the open child may begin after the time of the request.
MayMoveOnUnordered(s, at, st) ==
    status[s] = st /\ ValidChildren(st, children[s])

\* A session in the right status, with the right open child, may go on to its
\* next child.
MayMoveOn(s, at, st) ==
    /\ status[s] = st
    /\ ValidChildren(st, children[s])
    /\ NotBefore(s, at)

\* The open child of s is closed and the next one opened, at the same time.
MoveOn(d, s, st, kind) ==
    LET at == request[d].at IN
    /\ MayMoveOn(s, at, st)
    /\ ChildCount < MaxChildren
    /\ children' = [children EXCEPT ![s] = Append(CloseOpen(@, at), Opened(kind, at))]
    /\ UNCHANGED <<clock, started, ended, reason, recovery, correction>>

Pause(d, s) ==
    /\ Commits(d, "pause", s)
    /\ MoveOn(d, s, "ACTIVE", "break")
    /\ status' = [status EXCEPT ![s] = "PAUSED"]

Resume(d, s) ==
    /\ Commits(d, "resume", s)
    /\ MoveOn(d, s, "PAUSED", "segment")
    /\ status' = [status EXCEPT ![s] = "ACTIVE"]

Switch(d, s) ==
    /\ Commits(d, "switch", s)
    /\ MoveOn(d, s, "ACTIVE", "segment")
    /\ UNCHANGED status

\* Mutant: a session that is closed already is closed again.
MayFinishTwice(s, at) == status[s] # "NONE" /\ NotBefore(s, at)

MayFinish(s, at) ==
    /\ IsOpen(s)
    /\ ValidChildren(status[s], children[s])
    /\ NotBefore(s, at)

\* end_work_session.
Finish(s, at, why) ==
    /\ MayFinish(s, at)
    /\ status' = [status EXCEPT ![s] = "COMPLETED"]
    /\ ended' = [ended EXCEPT ![s] = at]
    /\ reason' = [reason EXCEPT ![s] = why]
    /\ children' = [children EXCEPT ![s] = CloseOpen(@, at)]
    /\ UNCHANGED <<clock, started, recovery, correction>>

End(d, s) == Commits(d, "end", s) /\ Finish(s, request[d].at, "MANUAL")

\* A manager closes a session; the time is read after the session is locked.
AdminClose(s) == Finish(s, clock, "ADMIN_OVERRIDE") /\ UNCHANGED request

----------------------------------------------------------------------------
(* The midnight job                                                         *)

RecoverScan ==
    /\ recovery.todo = {}
    /\ OpenSessions # {}
    /\ recovery' = [at |-> clock, todo |-> OpenSessions]
    /\ UNCHANGED <<clock, session, request, correction>>

\* Every child begins before the cutoff and ends, if it has, neither before it
\* begins nor after the cutoff; no two that have ended overlap.
WithinDay(s) ==
    LET ch == children[s] IN
    /\ \A k \in DOMAIN ch :
         /\ started[s] <= ch[k].from /\ ch[k].from < Cutoff(s)
         /\ ch[k].to # NotEnded => ch[k].from <= ch[k].to /\ ch[k].to <= Cutoff(s)
    /\ \A j, k \in DOMAIN ch :
         j < k /\ ch[j].to # NotEnded => ch[j].to <= ch[k].from

\* Mutant: a session left on a break is reported as an anomaly.
MayAutoCloseActive(s, at) ==
    status[s] = "ACTIVE" /\ at > Cutoff(s) /\ WithinDay(s)

\* Mutant: the intervals are not validated.
MayAutoCloseAny(s, at) == IsOpen(s) /\ at > Cutoff(s)

MayAutoClose(s, at) ==
    /\ IsOpen(s)
    /\ at > Cutoff(s)
    /\ ValidChildren(status[s], children[s])
    /\ WithinDay(s)

\* One candidate: closed at its own midnight, or left as it is and skipped or reported.
RecoverOne(s) ==
    /\ s \in recovery.todo
    /\ recovery' = IF recovery.todo = {s} THEN NoRecovery
                    ELSE [recovery EXCEPT !.todo = @ \ {s}]
    /\ IF MayAutoClose(s, recovery.at)
       THEN /\ status' = [status EXCEPT ![s] = "AUTO_CLOSED"]
            /\ ended' = [ended EXCEPT ![s] = Cutoff(s)]
            /\ reason' = [reason EXCEPT ![s] = "MIDNIGHT_CUTOFF"]
            /\ children' = [children EXCEPT ![s] = CloseOpen(@, Cutoff(s))]
       ELSE UNCHANGED <<status, ended, reason, children>>
    /\ UNCHANGED <<clock, started, request, correction>>

----------------------------------------------------------------------------
(* Attendance corrections                                                   *)

\* The session a correction is about: its own, or the last of its day.
CorrectedSessions(k) ==
    IF correction[k].sid # NoSession THEN {correction[k].sid}
    ELSE LET day == {s \in Sessions : status[s] # "NONE" /\ Day(started[s]) = CorrectedDay[k]}
         IN  {s \in day : \A r \in day : started[r] <= started[s]}

\* A manager approves a missing checkout: the session's row gets the requested
\* end (not before its start: a database constraint), whatever its status, and
\* no segment or break is touched.
ApproveCheckout(k, s, at) ==
    /\ correction[k].status = "PENDING"
    /\ s \in CorrectedSessions(k)
    /\ started[s] <= at
    /\ correction' = [correction EXCEPT ![k].status = "APPROVED"]
    /\ status' = [status EXCEPT ![s] = "COMPLETED"]
    /\ ended' = [ended EXCEPT ![s] = at]
    /\ reason' = [reason EXCEPT ![s] = "ADMIN_OVERRIDE"]
    /\ UNCHANGED <<clock, started, children, request, recovery>>

\* A correction is rejected, or approved without an end or a session: only its
\* own row changes.
Decide(k, verdict) ==
    /\ correction[k].status = "PENDING"
    /\ correction' = [correction EXCEPT ![k].status = verdict]
    /\ UNCHANGED <<clock, session, request, recovery>>

----------------------------------------------------------------------------
Tick ==
    /\ clock < Horizon
    /\ clock' = clock + 1
    /\ UNCHANGED <<session, request, recovery, correction>>

RequestStep(d) ==
    \/ \E op \in Ops : Ask(d, op)
    \/ Refuse(d)
    \/ \E s \in Sessions :
          Find(d, s) \/ Start(d, s) \/ Pause(d, s) \/ Resume(d, s) \/ Switch(d, s) \/ End(d, s)

ReviewStep(k) ==
    \/ \E s \in Sessions, at \in Time : ApproveCheckout(k, s, at)
    \/ \E verdict \in {"APPROVED", "REJECTED"} : Decide(k, verdict)

Next ==
    \/ \E d \in Devices : RequestStep(d)
    \/ \E s \in Sessions : AdminClose(s) \/ RecoverOne(s)
    \/ RecoverScan
    \/ \E k \in Corrections : ReviewStep(k)
    \/ Tick

Spec == Init /\ [][Next]_vars

\* The scheduler keeps running the midnight job, and the job ends.
Fairness ==
    /\ WF_vars(Tick)
    /\ WF_vars(RecoverScan)
    /\ \A s \in Sessions : WF_vars(RecoverOne(s))

FairSpec == Spec /\ Fairness

----------------------------------------------------------------------------
(* Properties                                                               *)

\* Two phones, a login and a start button never open a second shift.
OneShiftAtATime == \A r, s \in OpenSessions : r = s

\* An active session has one open segment, a paused one one open break, a closed
\* one neither (validate_session_child_invariants).
ChildrenMatchStatus == \A s \in Sessions : ValidChildren(status[s], children[s])

\* The segments and breaks of a session tile it: the first begins with it, each
\* begins when the one before ends, none ends before it begins, and the last one
\* ends with the session.  Worked time and break time then add up to its length,
\* whichever order requests with older clocks commit in.
TimelineIsGapless ==
    \A s \in Sessions :
        LET ch == children[s] IN
        /\ (status[s] = "NONE") = (ch = <<>>)
        /\ ch # <<>> => ch[1].from = started[s] /\ ch[Len(ch)].to = ended[s]
        /\ \A k \in DOMAIN ch :
             /\ ch[k].to # NotEnded => ch[k].from <= ch[k].to
             /\ k > 1 => ch[k - 1].to = ch[k].from

\* A shift that has ended is never written again: not by a request that had found
\* it open, not by the midnight job whose list it was on, not by a manager.
FrozenStep ==
    \A s \in Sessions :
        status[s] \in ClosedStatuses =>
            /\ status'[s] = status[s] /\ ended'[s] = ended[s] /\ reason'[s] = reason[s]
            /\ children'[s] = children[s] /\ started'[s] = started[s]

FinishedSessionIsFrozen == [][FrozenStep]_vars

\* The midnight job ends a session at its own midnight, however late it runs and
\* whatever happened after that midnight; it never ends one whose day is not over.
AutoClosedAtMidnight ==
    \A s \in Sessions :
        status[s] = "AUTO_CLOSED" =>
            /\ ended[s] = Cutoff(s)
            /\ clock > Cutoff(s)
            /\ \A k \in DOMAIN children[s] : children[s][k].from < Cutoff(s)

\* A closed session is not opened again, even by those who do rewrite it.
ReopenStep == \A s \in Sessions : status[s] \in ClosedStatuses => status'[s] \in ClosedStatuses

ClosedStaysClosed == [][ReopenStep]_vars

\* The ticks that the closed segments, or the closed breaks, of a session stand for.
BookedTicks(ch, kind) ==
    LET booked == {k \in DOMAIN ch : ch[k].kind = kind /\ ch[k].to # NotEnded}
    IN  UNION {ch[k].from..(ch[k].to - 1) : k \in booked}

Doing(st) ==
    CASE st = "ACTIVE" -> "work" [] st = "PAUSED" -> "rest" [] st = "NONE" -> "none"
      [] OTHER -> "closed"

\* An open session is booked up to where its last child begins.
BookedUpTo(s) ==
    IF IsOpen(s) THEN children[s][Len(children[s])].from
    ELSE IF status[s] = "NONE" THEN 0 ELSE ended[s]

Sheet == INSTANCE Timesheet WITH
    doing <- [s \in Sessions |-> Doing(status[s])],
    begun <- started,
    upto <- [s \in Sessions |-> BookedUpTo(s)],
    work <- [s \in Sessions |-> BookedTicks(children[s], "segment")],
    rest <- [s \in Sessions |-> BookedTicks(children[s], "break")]

\* The rows of the shifts implement the timesheet: whatever the requests, managers
\* and the job write, in whatever order, every span is booked once, as what it was.
ImplementsTimesheet == Sheet!Spec

Overdue(s) == IsOpen(s) /\ clock > Cutoff(s)

\* A session that is open after its midnight and was not worked on since is
\* closed, after any outage of the scheduler.
ForgottenSessionIsClosed ==
    \A s \in Sessions : Overdue(s) /\ WithinDay(s) ~> ~IsOpen(s) \/ ~WithinDay(s)

=============================================================================
