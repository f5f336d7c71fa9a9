--------------------------------- MODULE SignIn ---------------------------------
(***************************************************************************)
(* The mobile sessions of one employee: enrolment photos and their review, *)
(* camera challenges, logins, heartbeats, logout, the job                  *)
(* expire_mobile_sessions, and the positions the phone reports             *)
(* (apps/accounts/api, apps/web/photo_views.py).                           *)
(*                                                                         *)
(* A login locks the employee's row, reads the clock, and compares faces   *)
(* for seconds before it commits: login is that transaction, and whoever   *)
(* else needs the row waits.  Every other request is authenticated without *)
(* a lock and locks the row later: authed holds the requests in between.   *)
(* What a login does to the day's attendance and shift is in WorkSession.  *)
(***************************************************************************)
EXTENDS Integers, Sequences, FiniteSets

CONSTANTS
    Devices,            \* requests in flight
    DayLength, Horizon, \* ticks between midnights, bound on the clock
    Life,               \* how long a challenge lives, 180 s
    Gap,                \* the longest time between heartbeats that counts, 90 s
    Tolerance,          \* how far ahead a phone's clock may be, 60 s
    MaxChallenges, MaxSessions, MaxPoints,  \* bounds on the rows
    MaxJobs             \* bound on the runs of the job under way at once

ASSUME SignInAssumption ==
    /\ DayLength \in Nat \ {0}
    /\ {Horizon, Life, Gap, Tolerance, MaxChallenges, MaxSessions, MaxPoints,
        MaxJobs} \subseteq Nat

Time == 0..Horizon
NextMidnight(t) == (t \div DayLength + 1) * DayLength
Clocks == 0..NextMidnight(Horizon)
Never == NextMidnight(Horizon) + 1
Idle == [challenge |-> 0, read |-> 0]

VARIABLES
    now,
    account,        \* User: registration_pending, is_active, exempt from photos
    enrolments,     \* the statuses of the ENROLL photo requests, in their order
    challenges,     \* AttendancePhotoChallenges
    sessions,       \* CallerSessions
    token,          \* the login whose Token exists, 0 when none does
    login,          \* the verification that holds the row, or Idle
    authed,         \* devices whose request has been authenticated
    job,            \* clocks of the runs of expire_mobile_sessions under way
    points          \* EmployeeLocationPoints: their session and recorded_at

photos == <<enrolments, challenges>>
vars == <<now, account, photos, sessions, token, login, authed, job, points>>

Account == [pending: BOOLEAN, active: BOOLEAN, exempt: BOOLEAN]
Challenge == [action: {"ENROLL", "IN"}, made: Time, used: BOOLEAN]
Session == [verified: Time, logged_in: Time, expires: Clocks, last_seen: Time,
            foreground: BOOLEAN, active: Nat, ended: Clocks \cup {Never},
            reason: {"", "LOGOUT", "REPLACED", "EXPIRED"}]

TypeOK ==
    /\ now \in Time
    /\ account \in Account
    /\ enrolments \in Seq({"PENDING", "APPROVED", "REJECTED"})
    /\ challenges \in Seq(Challenge)
    /\ sessions \in Seq(Session)
    /\ token \in 0..Len(sessions)
    /\ login \in [challenge: 0..Len(challenges), read: Time]
    /\ authed \subseteq Devices
    /\ job \subseteq Time
    /\ points \subseteq (DOMAIN sessions) \X Time

\* Signed up in the app, with a photo that waits, or created by an administrator.
Init ==
    /\ now = 0
    /\ \/ /\ account = [pending |-> TRUE, active |-> FALSE, exempt |-> FALSE]
          /\ enrolments = <<"PENDING">>
       \/ /\ account \in [pending: {FALSE}, active: {TRUE}, exempt: BOOLEAN]
          /\ enrolments = <<>>
    /\ challenges = <<>>
    /\ sessions = <<>>
    /\ token = 0
    /\ login = Idle
    /\ authed = {} /\ job = {} /\ points = {}

\* Nobody holds the employee's row.
RowIsFree == login = Idle

Enrolled == \E e \in DOMAIN enrolments : enrolments[e] = "APPROVED"
Waiting == \E e \in DOMAIN enrolments : enrolments[e] = "PENDING"
LatestWaits == enrolments # <<>> /\ enrolments[Len(enrolments)] = "PENDING"
NeedsPhoto == ~account.exempt /\ ~Enrolled

----------------------------------------------------------------------------
(* Challenges and enrolment                                                 *)

\* MobileLoginView: the password was right.  Older challenges are void.
AskLogin ==
    /\ RowIsFree
    /\ account.active \/ account.pending
    /\ ~(account.pending /\ account.exempt)
    /\ ~(LatestWaits /\ (account.pending \/ NeedsPhoto))
    /\ Len(challenges) < MaxChallenges
    /\ challenges' = Append([c \in DOMAIN challenges |-> [challenges[c] EXCEPT !.used = TRUE]],
                            [action |-> IF account.pending \/ NeedsPhoto THEN "ENROLL" ELSE "IN",
                             made |-> now, used |-> FALSE])
    /\ UNCHANGED <<now, account, enrolments, sessions, token, login, authed, job, points>>

\* MobileVerifyLoginView, up to the photo.
BeginVerify(c) ==
    /\ RowIsFree
    /\ ~challenges[c].used
    /\ now - challenges[c].made <= Life
    /\ account.active \/ account.pending
    /\ login' = [challenge |-> c, read |-> now]
    /\ UNCHANGED <<now, account, photos, sessions, token, authed, job, points>>

Answered == challenges[login.challenge]
UseChallenge == challenges' = [challenges EXCEPT ![login.challenge].used = TRUE]

\* The photo is no photo, or the worker dies: the challenge may be answered again.
AbortVerify ==
    /\ ~RowIsFree
    /\ login' = Idle
    /\ UNCHANGED <<now, account, photos, sessions, token, authed, job, points>>

\* No consent, no match, approved leave, or a login that is no longer possible.
RefuseVerify ==
    /\ ~RowIsFree
    /\ \/ Answered.action = "ENROLL"
       \/ account.pending \/ ~account.exempt
    /\ UseChallenge
    /\ login' = Idle
    /\ UNCHANGED <<now, account, enrolments, sessions, token, authed, job, points>>

Enrol ==
    /\ ~RowIsFree
    /\ Answered.action = "ENROLL" /\ ~Waiting
    /\ UseChallenge
    /\ enrolments' = Append(enrolments, "PENDING")
    /\ login' = Idle
    /\ UNCHANGED <<now, account, sessions, token, authed, job, points>>

\* photo_views.review: the first approval admits a new employee.
Review(e, st) ==
    /\ RowIsFree
    /\ enrolments[e] = "PENDING"
    /\ enrolments' = [enrolments EXCEPT ![e] = st]
    /\ account' = IF st = "APPROVED" /\ account.pending
                  THEN [account EXCEPT !.active = TRUE, !.pending = FALSE]
                  ELSE account
    /\ UNCHANGED <<now, challenges, sessions, token, login, authed, job, points>>

\* employee_edit: the account is (de)activated, or its role and capabilities change.
EditAccount(active, exempt) ==
    /\ RowIsFree
    /\ account' = [account EXCEPT !.active = active, !.exempt = exempt]
    /\ UNCHANGED <<now, photos, sessions, token, login, authed, job, points>>

----------------------------------------------------------------------------
(* Sessions                                                                 *)

IsOpen(s) == s.ended = Never
Earlier(t, u) == IF t <= u THEN t ELSE u

\* The time since the last sign of life, when it was short and in the foreground.
Seen(s, t) == IF s.foreground /\ s.last_seen <= t /\ t - s.last_seen <= Gap THEN t - s.last_seen ELSE 0

\* close_session: no session ends after its midnight.
Closed(s, t, reason) ==
    LET ended == Earlier(t, s.expires)
    IN [s EXCEPT !.active = @ + Seen(s, ended), !.ended = ended,
                 !.foreground = FALSE, !.reason = reason]

\* Mutant: a session that has run out is left to the job.
ReplacedUnlessExpired(t) ==
    [i \in DOMAIN sessions |->
        IF IsOpen(sessions[i]) /\ sessions[i].expires > t
        THEN Closed(sessions[i], t, "REPLACED") ELSE sessions[i]]

\* close_open_sessions
Replaced(t) ==
    [i \in DOMAIN sessions |->
        IF IsOpen(sessions[i])
        THEN Closed(sessions[i], t, IF sessions[i].expires <= t THEN "EXPIRED" ELSE "REPLACED")
        ELSE sessions[i]]

\* The rest of MobileVerifyLoginView: the session begins and ends its day with the
\* clock read before the comparison, its phone has been seen now.
SignIn ==
    /\ ~RowIsFree
    /\ Answered.action = "IN" /\ ~account.pending
    /\ account.exempt \/ Enrolled
    /\ Len(sessions) < MaxSessions
    /\ UseChallenge
    /\ sessions' = Append(Replaced(login.read),
         [verified |-> login.read, logged_in |-> now, expires |-> NextMidnight(login.read),
          last_seen |-> now, foreground |-> TRUE, active |-> 0, ended |-> Never, reason |-> ""])
    /\ token' = Len(sessions) + 1
    /\ login' = Idle
    /\ UNCHANGED <<now, account, enrolments, authed, job, points>>

\* The newest open session is looked at: it was verified and its day is not over.
Current(i) ==
    /\ IsOpen(sessions[i]) /\ sessions[i].expires > now
    /\ \A j \in DOMAIN sessions : IsOpen(sessions[j]) => j <= i

\* VerifiedSessionAuthentication, with the token of the latest login.
Authenticate(d) ==
    /\ d \notin authed
    /\ token # 0 /\ account.active /\ ~account.pending
    /\ \E i \in DOMAIN sessions : Current(i)
    /\ authed' = authed \cup {d}
    /\ UNCHANGED <<now, account, photos, sessions, token, login, job, points>>

\* Mutant: last_seen stays.
BeatenFromStart(s, foreground) ==
    [s EXCEPT !.active = @ + Seen(s, now), !.foreground = foreground]

Beaten(s, foreground) ==
    [s EXCEPT !.active = @ + Seen(s, now), !.last_seen = now, !.foreground = foreground]

\* MobileSessionView: any session of the employee may be named.
Heartbeat(d, i, foreground) ==
    /\ d \in authed /\ RowIsFree
    /\ IsOpen(sessions[i])
    /\ sessions' = [sessions EXCEPT ![i] = Beaten(@, foreground)]
    /\ authed' = authed \ {d}
    /\ UNCHANGED <<now, account, photos, token, login, job, points>>

Logout(d, i) ==
    /\ d \in authed /\ RowIsFree
    /\ IsOpen(sessions[i])
    /\ sessions' = [sessions EXCEPT ![i] = Closed(@, now, "LOGOUT")]
    /\ token' = 0
    /\ authed' = authed \ {d}
    /\ UNCHANGED <<now, account, photos, login, job, points>>

\* Mutant: as long as nobody has closed it.
LastedUntilClosed(s) == s.ended

\* When the session was over, or will be.
Lasted(s) == IF IsOpen(s) THEN s.expires ELSE Earlier(s.expires, s.ended)

\* MobileLocationView: under the current session, a position of this or an earlier one.
ReportPosition(d, i, t) ==
    /\ d \in authed /\ RowIsFree
    /\ \E j \in DOMAIN sessions : Current(j)
    /\ sessions[i].logged_in <= t /\ t < Lasted(sessions[i]) /\ t <= now + Tolerance
    /\ Cardinality(points) < MaxPoints
    /\ points' = points \cup {<<i, t>>}
    /\ authed' = authed \ {d}
    /\ UNCHANGED <<now, account, photos, sessions, token, login, job>>

\* A request that is refused, or only reads, or whose worker dies.
Leave(d) ==
    /\ d \in authed
    /\ authed' = authed \ {d}
    /\ UNCHANGED <<now, account, photos, sessions, token, login, job, points>>

\* expire_mobile_sessions lists the employee, and later takes the row.
ListExpired ==
    /\ \E i \in DOMAIN sessions : IsOpen(sessions[i]) /\ sessions[i].expires <= now
    /\ Cardinality(job) < MaxJobs
    /\ job' = job \cup {now}
    /\ UNCHANGED <<now, account, photos, sessions, token, login, authed, points>>

Expire(t) ==
    /\ RowIsFree
    /\ sessions' = [i \in DOMAIN sessions |->
                      IF IsOpen(sessions[i]) /\ sessions[i].expires <= t
                      THEN Closed(sessions[i], t, "EXPIRED") ELSE sessions[i]]
    /\ job' = job \ {t}
    /\ UNCHANGED <<now, account, photos, token, login, authed, points>>

Tick ==
    /\ now < Horizon
    /\ now' = now + 1
    /\ UNCHANGED <<account, photos, sessions, token, login, authed, job, points>>

----------------------------------------------------------------------------
LoginStep ==
    \/ AskLogin
    \/ \E c \in DOMAIN challenges : BeginVerify(c)
    \/ AbortVerify \/ RefuseVerify \/ Enrol \/ SignIn
    \/ \E e \in DOMAIN enrolments, st \in {"APPROVED", "REJECTED"} : Review(e, st)

RequestStep(d) ==
    \/ Authenticate(d)
    \/ \E i \in DOMAIN sessions :
         \/ \E foreground \in BOOLEAN : Heartbeat(d, i, foreground)
         \/ Logout(d, i)
         \/ \E t \in Time : ReportPosition(d, i, t)
    \/ Leave(d)

Next ==
    \/ LoginStep
    \/ \E d \in Devices : RequestStep(d)
    \/ \E active, exempt \in BOOLEAN : EditAccount(active, exempt)
    \/ ListExpired
    \/ \E t \in job : Expire(t)
    \/ Tick

Spec == Init /\ [][Next]_vars

----------------------------------------------------------------------------
(* Properties                                                               *)

\* Whatever logins, logouts and expiry jobs overlap, only the latest login can be
\* open, and then the token that authenticates is its own (views.py:172-189).
OneWayIn ==
    /\ \A i \in DOMAIN sessions : IsOpen(sessions[i]) => i = token
    /\ token \in {0, Len(sessions)}

\* The active time of a session is time between its login and its last sign of
\* life or its end: no heartbeat, closing or expiry counts a second twice
\* (views.py:247, session_service.py:12).
ActiveTimeIsCountedOnce ==
    \A i \in DOMAIN sessions :
        LET s == sessions[i]
        IN s.logged_in + s.active <= IF IsOpen(s) \/ s.ended < s.last_seen THEN s.last_seen ELSE s.ended

\* Positions sent late, after the session ended and another began, are of the time
\* of their session, up to the tolerance for a phone whose clock is ahead
\* ("Offline samples from an earlier session may be replayed only ... within that
\* session's lifetime", api/location.py:77).
PointsAreOfTheirSession ==
    \A p \in points :
        LET s == sessions[p[1]]
        IN /\ s.logged_in <= p[2] /\ p[2] < s.expires
           /\ ~IsOpen(s) => p[2] <= s.ended + Tolerance

=============================================================================
