------------------------------ MODULE ShiftPolicy ------------------------------
(***************************************************************************)
(* When an employee may end a shift early, and what their days count as:   *)
(* attendance requests and their review, policy exceptions, leave,         *)
(* holidays, and the attendance status derived from all of them            *)
(* (apps/activity/policy_services.py, apps/web/attendance_services.py,     *)
(* apps/web/workforce_views.py, apps/accounts/api/employee_views.py).      *)
(*                                                                         *)
(* One employee, who is on the shift workflow and uses the app, or checks  *)
(* in on the web page, and any reviewer allowed to review them.  A session *)
(* is what these rules read of it: its breaks, and when its children were  *)
(* closed; the order in which two requests reach one session is in         *)
(* WorkSession.  Ending a shift checks the policy and closes the session   *)
(* in two transactions, so it is two steps; every other operation commits  *)
(* once.  0 stands for no session.                                         *)
(***************************************************************************)
EXTENDS Integers, Sequences, FiniteSetsExt

CONSTANTS
    DayLength,              \* ticks of a day
    Horizon,                \* bound on the clock
    MinWork,                \* net work a shift needs, 8 hours in the code
    WeekOffs,               \* the Sundays
    Geofenced,              \* shift_geofence_enforced
    Asks,                   \* what requests say: [type, end, hours]
    EarlierAsks,            \* what an earlier request says, of the types the app does not send
    Windows,                \* rules and times exceptions are requested for
    Spans,                  \* first and last day leave is applied for
    MaxSessions, MaxBreaks, \* bounds on the sessions, and on the breaks of each
    MaxRecords              \* bound on requests, exceptions, leaves and holidays

Time == 0..Horizon
Never == Horizon + 1
Day(t) == t \div DayLength
Days == 0..Day(Horizon)
DayStart(d) == d * DayLength
DayEnd(d) == (d + 1) * DayLength

RequestType == {"EARLY_SHIFT_END", "MISSING_CHECKOUT", "LATE_ARRIVAL", "OTHER"}
Rule == {"START_SHIFT_GEOFENCE", "LUNCH_GEOFENCE", "END_SHIFT_GEOFENCE", "MIN_DURATION"}

\* A request or its end may name no time, and no net hours: Never.
Ask == [type: RequestType, end: Time \cup {Never}, hours: Time \cup {Never}]
Window == [rule: Rule, from: Time, until: Time]

ASSUME ShiftPolicyAssumption ==
    /\ DayLength \in Nat \ {0}
    /\ {Horizon, MinWork, MaxSessions, MaxBreaks, MaxRecords} \subseteq Nat
    /\ WeekOffs \subseteq Days
    /\ Geofenced \in BOOLEAN
    /\ Asks \cup EarlierAsks \subseteq Ask
    /\ Windows \subseteq {w \in Window : w.from < w.until}
    /\ Spans \subseteq {s \in Days \X Days : s[1] <= s[2]}

VARIABLES
    now,
    app,            \* bound: shifts are started with the app, or on the web page
    sessions,       \* WorkSessions, in the order they start
    attendance,     \* Attendance of each day
    requests,       \* AttendanceCorrectionRequests, in the order they are created
    exceptions,     \* PolicyExceptions, in the order they are created
    grants,         \* the approved ones, in the order of approved_at
    leaves,         \* LeaveRequests, in the order they are created
    holidays,
    ending          \* the shift end that passed the check: session and time

vars == <<now, app, sessions, attendance, requests, exceptions, grants, leaves, holidays, ending>>

Session == [date: Days, started: Time, ended: Time \cup {Never},
            status: {"ACTIVE", "PAUSED", "COMPLETED", "AUTO_CLOSED"},
            closure: {"NONE", "MANUAL", "ADMIN_OVERRIDE", "MIDNIGHT_CUTOFF"},
            breaks: SUBSET (Time \X (Time \cup {Never})),
            childEnd: Time \cup {Never}]
Check == [in: Time \cup {Never}, out: Time \cup {Never}, status: {"NONE", "PRESENT", "WEEK_OFF"}]
RequestRow == [ask: Ask, date: Days, session: Nat,
               status: {"PENDING", "APPROVED", "REJECTED", "DELETED"}, review: Nat]
ExceptionRow == [rule: Rule, from: Time, until: 0..DayEnd(Day(Horizon)),
                 active: BOOLEAN, revoked: Time \cup {Never},
                 source: {"REQUEST", "REVIEW"}]
LeaveRow == [span: Spans, status: {"PENDING", "APPROVED", "REJECTED", "CANCELLED"}]

TypeOK ==
    /\ now \in Time /\ app \in BOOLEAN
    /\ sessions \in Seq(Session)
    /\ attendance \in [Days -> Check]
    /\ requests \in Seq(RequestRow)
    /\ exceptions \in Seq(ExceptionRow)
    /\ grants \in Seq(DOMAIN exceptions)
    /\ leaves \in Seq(LeaveRow)
    /\ holidays \subseteq Days
    /\ ending = <<>> \/ ending \in (DOMAIN sessions) \X Time

Row(ask, d, i, st, review) ==
    [ask |-> ask, date |-> d, session |-> i, status |-> st, review |-> review]

Init ==
    /\ now = 0 /\ app \in BOOLEAN
    /\ sessions = <<>>
    /\ attendance = [d \in Days |-> [in |-> Never, out |-> Never, status |-> "NONE"]]
    /\ requests \in {<<>>} \cup {<<Row(a, 0, 0, "PENDING", 0)>> : a \in EarlierAsks}
    /\ exceptions = <<>> /\ grants = <<>> /\ leaves = <<>>
    /\ holidays = {}
    /\ ending = <<>>

\* What MaxRecords bounds: leaves and holidays count half.
Records ==
    2 * Len(requests) + 2 * Cardinality({i \in DOMAIN exceptions : exceptions[i].source = "REQUEST"})
        + Len(leaves) + Cardinality(holidays)

----------------------------------------------------------------------------
(* Net work                                                                 *)

IsOpen(s) == s.status \in {"ACTIVE", "PAUSED"}
OpenSessions == {i \in DOMAIN sessions : IsOpen(sessions[i])}

\* Ticks from the start to e that no break covers: the union of intervals is what
\* merge_intervals and total_interval_seconds measure.
Unbroken(s, e) == {t \in Time : s.started <= t /\ t < e /\ \A b \in s.breaks : ~(b[1] <= t /\ t < b[2])}

\* calculate_persisted_net_work_seconds: the time without breaks, bounded by the
\* segments when there are any.
WorkTicks(s, t) ==
    LET e == IF s.ended # Never THEN s.ended ELSE t
        worked == {x \in Unbroken(s, e) : x < s.childEnd}
    IN IF worked # {} THEN worked ELSE Unbroken(s, e)

NetWork(s, t) == Cardinality(WorkTicks(s, t))

\* The open break ends with the session; the open child is closed.
Closed(s, t, status, closure) ==
    [s EXCEPT !.ended = t, !.status = status, !.closure = closure, !.childEnd = t,
              !.breaks = {IF b[2] = Never THEN <<b[1], t>> ELSE b : b \in s.breaks}]

\* end_work_session and the midnight job refuse a time before the last child began.
MayClose(s, t) ==
    /\ IsOpen(s) /\ s.started <= t
    /\ \A b \in s.breaks : b[1] <= t /\ (b[2] = Never \/ b[2] <= t)

----------------------------------------------------------------------------
(* Policy                                                                   *)

\* get_active_policy_exception: those that apply at t, and the last one approved.
Usable(rule, t) ==
    {g \in DOMAIN grants :
        LET e == exceptions[grants[g]]
        IN e.rule = rule /\ e.active /\ e.revoked = Never /\ e.from <= t /\ t <= e.until}

LastUsable(rule, t) == exceptions[grants[Max(Usable(rule, t))]]

\* inside: the app sent a good fix within an office of the employee.
Located(rule, inside) == Geofenced => inside \/ Usable(rule, now) # {}

Approved(d) == {r \in DOMAIN requests : requests[r].date = d /\ requests[r].status = "APPROVED"}

\* Mutant: any approval of the day will do.
CoversAnyOfTheDay(i) ==
    LET C == {r \in Approved(sessions[i].date) : requests[r].ask.type = "EARLY_SHIFT_END"}
    IN IF C = {} THEN 0
       ELSE CHOOSE r \in C : \A q \in C : requests[q].review <= requests[r].review

\* The approved early end that covers the session, the last one reviewed first: one
\* that names it, or one that names none and is bound to it now.
Covers(i) ==
    LET C == {r \in Approved(sessions[i].date) :
                requests[r].ask.type = "EARLY_SHIFT_END" /\ requests[r].session \in {0, i}}
    IN IF C = {} THEN 0
       ELSE CHOOSE r \in C : \A q \in C : requests[q].review <= requests[r].review

\* An exception that no review made, as its reason says; only the last one approved
\* is asked.
Standalone(t) ==
    Usable("MIN_DURATION", t) # {} /\ LastUsable("MIN_DURATION", t).source # "REVIEW"

\* The duration rule of evaluate_protected_action, when r covers session i.
LongEnough(i, r) ==
    \/ NetWork(sessions[i], now) >= MinWork
    \/ /\ r # 0
       /\ requests[r].ask.end # Never => requests[r].ask.end <= now
       /\ requests[r].ask.hours # Never => requests[r].ask.hours <= NetWork(sessions[i], now)
    \/ r = 0 /\ Standalone(now)

----------------------------------------------------------------------------
(* The shift                                                                *)

\* Mutant: a request of any day is bound.
BoundWhatever(i, d) ==
    [r \in DOMAIN requests |->
        IF requests[r].session = 0 THEN [requests[r] EXCEPT !.session = i] ELSE requests[r]]

\* start_work_session binds the requests of its day that name no session.
BoundTo(i, d) ==
    [r \in DOMAIN requests |->
        IF requests[r].session = 0 /\ requests[r].date = d /\ requests[r].status # "DELETED"
        THEN [requests[r] EXCEPT !.session = i] ELSE requests[r]]

\* StartActivityView.
Start(inside) ==
    /\ app /\ OpenSessions = {} /\ Len(sessions) < MaxSessions
    /\ Located("START_SHIFT_GEOFENCE", inside)
    /\ LET d == Day(now)
       IN /\ attendance' = [attendance EXCEPT ![d].in = IF @ = Never THEN now ELSE @,
                                              ![d].status = IF @ = "NONE" THEN "PRESENT" ELSE @]
          /\ sessions' = Append(sessions,
                [date |-> d, started |-> now, ended |-> Never, status |-> "ACTIVE",
                 closure |-> "NONE", breaks |-> {}, childEnd |-> Never])
          /\ requests' = BoundTo(Len(sessions) + 1, d)
    /\ UNCHANGED <<now, app, exceptions, grants, leaves, holidays, ending>>

Pause(i) ==
    /\ sessions[i].status = "ACTIVE" /\ Cardinality(sessions[i].breaks) < MaxBreaks
    /\ sessions' = [sessions EXCEPT ![i].status = "PAUSED", ![i].breaks = @ \cup {<<now, Never>>}]
    /\ UNCHANGED <<now, app, attendance, requests, exceptions, grants, leaves, holidays, ending>>

Resume(i, inside) ==
    /\ sessions[i].status = "PAUSED"
    /\ Located("LUNCH_GEOFENCE", inside)
    /\ sessions' = [sessions EXCEPT ![i].status = "ACTIVE",
                        ![i].breaks = {IF b[2] = Never THEN <<b[1], now>> ELSE b : b \in @}]
    /\ UNCHANGED <<now, app, attendance, requests, exceptions, grants, leaves, holidays, ending>>

\* EndActivityView, to the answer of evaluate_protected_action, which binds the
\* request it finds, also when it then refuses.
AskEnd(i, inside) ==
    /\ IsOpen(sessions[i])
    /\ ending = <<>>
    /\ Located("END_SHIFT_GEOFENCE", inside)
    /\ LET short == NetWork(sessions[i], now) < MinWork
           r == IF short THEN Covers(i) ELSE 0
       IN /\ requests' = IF r = 0 THEN requests ELSE [requests EXCEPT ![r].session = i]
          /\ ending' = IF LongEnough(i, r) THEN <<i, now>> ELSE <<>>
    /\ UNCHANGED <<now, app, sessions, attendance, exceptions, grants, leaves, holidays>>

\* EndActivityView: end_work_session at the time the request came, or its refusal.
End ==
    /\ ending # <<>>
    /\ ending' = <<>>
    /\ LET i == ending[1]
           t == ending[2]
       IN IF MayClose(sessions[i], t)
          THEN /\ sessions' = [sessions EXCEPT ![i] = Closed(@, t, "COMPLETED", "MANUAL")]
               /\ attendance' = [attendance EXCEPT ![sessions[i].date].out = t]
          ELSE UNCHANGED <<sessions, attendance>>
    /\ UNCHANGED <<now, app, requests, exceptions, grants, leaves, holidays>>

AdminClose(i) ==
    /\ MayClose(sessions[i], now)
    /\ sessions' = [sessions EXCEPT ![i] = Closed(@, now, "COMPLETED", "ADMIN_OVERRIDE")]
    /\ UNCHANGED <<now, app, attendance, requests, exceptions, grants, leaves, holidays, ending>>

\* recover_overdue_sessions.
MidnightClose(i) ==
    LET t == DayEnd(sessions[i].date)
    IN /\ t <= now
       /\ MayClose(sessions[i], t)
       /\ sessions' = [sessions EXCEPT ![i] = Closed(@, t, "AUTO_CLOSED", "MIDNIGHT_CUTOFF")]
       /\ UNCHANGED <<now, app, attendance, requests, exceptions, grants, leaves, holidays, ending>>

\* attendance_action, for employees who check in on the web page.
CheckIn(weekOff) ==
    LET d == Day(now)
    IN /\ ~app
       /\ attendance[d].status = "NONE"
       /\ \A e \in Days : attendance[e].in # Never => attendance[e].out # Never
       /\ ~\E l \in DOMAIN leaves : leaves[l].status = "APPROVED" /\ d \in leaves[l].span[1]..leaves[l].span[2]
       /\ attendance' = [attendance EXCEPT ![d] =
                            IF weekOff THEN [@ EXCEPT !.status = "WEEK_OFF"]
                            ELSE [@ EXCEPT !.status = "PRESENT", !.in = now]]
       /\ UNCHANGED <<now, app, sessions, requests, exceptions, grants, leaves, holidays, ending>>

CheckOut ==
    /\ ~app
    /\ attendance[Day(now)].in # Never /\ attendance[Day(now)].out = Never
    /\ attendance' = [attendance EXCEPT ![Day(now)].out = now]
    /\ UNCHANGED <<now, app, sessions, requests, exceptions, grants, leaves, holidays, ending>>

----------------------------------------------------------------------------
(* Requests                                                                 *)

OnDay(d) == {i \in DOMAIN sessions : sessions[i].date = d}

\* The session of a day a request is about: the active one, or the last.
SessionOn(d) ==
    LET A == {i \in OnDay(d) : sessions[i].status = "ACTIVE"}
        C == IF A # {} THEN A ELSE OnDay(d)
    IN IF C = {} THEN 0 ELSE Max(C)

Reviews == Cardinality({r \in DOMAIN requests : requests[r].review # 0})

\* EmployeeAttendanceRequestView: the app may name the session.  The form of the web
\* page fails before it saves.
Submit(ask, d, i) ==
    /\ Records + 2 <= 2 * MaxRecords
    /\ ask.type \in {"EARLY_SHIFT_END", "LATE_ARRIVAL"}
    /\ ask.end # Never => Day(ask.end) = d
    /\ ~\E r \in DOMAIN requests :
            requests[r].date = d /\ requests[r].ask.type = ask.type /\ requests[r].status = "PENDING"
    /\ i = SessionOn(d) \/ i \in OnDay(d)
    /\ requests' = Append(requests, Row(ask, d, i, "PENDING", 0))
    /\ UNCHANGED <<now, app, sessions, attendance, exceptions, grants, leaves, holidays, ending>>

Withdraw(r) ==
    /\ requests[r].status = "PENDING"
    /\ requests' = [requests EXCEPT ![r].status = "DELETED"]
    /\ UNCHANGED <<now, app, sessions, attendance, exceptions, grants, leaves, holidays, ending>>

\* The exception an approved early end makes: from the time it names to the end of
\* its day.
MadeFor(ask, d) ==
    [rule |-> "MIN_DURATION", from |-> IF ask.end # Never THEN ask.end ELSE DayStart(d),
     until |-> DayEnd(d) - 1, active |-> TRUE, revoked |-> Never, source |-> "REVIEW"]

\* An approved missing checkout ends the session, whatever it was, at the time named.
CheckedOut(i, t) ==
    IF i = 0 \/ t = Never THEN sessions
    ELSE [sessions EXCEPT ![i].ended = t, ![i].status = "COMPLETED", ![i].closure = "ADMIN_OVERRIDE"]

Reject(r) ==
    /\ requests[r].status = "PENDING"
    /\ requests' = [requests EXCEPT ![r].status = "REJECTED", ![r].review = Reviews + 1]
    /\ UNCHANGED <<now, app, sessions, attendance, exceptions, grants, leaves, holidays, ending>>

\* attendance_correction_action.
Approve(r) ==
    LET ask == requests[r].ask
        d == requests[r].date
        bound == IF requests[r].session # 0 THEN requests[r].session ELSE SessionOn(d)
        last == IF OnDay(d) = {} THEN 0 ELSE Max(OnDay(d))
    IN
    /\ requests[r].status = "PENDING"
    /\ requests' = [requests EXCEPT ![r].status = "APPROVED", ![r].review = Reviews + 1,
                        ![r].session = IF ask.type = "EARLY_SHIFT_END" THEN bound ELSE @]
    /\ IF ask.type = "EARLY_SHIFT_END"
       THEN /\ exceptions' = Append(exceptions, MadeFor(ask, d))
            /\ grants' = Append(grants, Len(exceptions) + 1)
       ELSE UNCHANGED <<exceptions, grants>>
    /\ IF ask.type = "MISSING_CHECKOUT"
       THEN /\ sessions' = CheckedOut(IF requests[r].session # 0 THEN requests[r].session ELSE last, ask.end)
            /\ attendance' = IF attendance[d].status # "NONE" /\ ask.end < attendance[d].out
                             THEN [attendance EXCEPT ![d].out = ask.end] ELSE attendance
       ELSE UNCHANGED <<sessions, attendance>>
    /\ UNCHANGED <<now, app, leaves, holidays, ending>>

----------------------------------------------------------------------------
(* Exceptions, leave and holidays                                           *)

\* request_policy_exception, and with auto_approve its approval.
RequestException(w, approve) ==
    /\ Records + 2 <= 2 * MaxRecords
    /\ exceptions' = Append(exceptions,
          [rule |-> w.rule, from |-> w.from, until |-> w.until,
           active |-> TRUE, revoked |-> Never, source |-> "REQUEST"])
    /\ grants' = IF approve THEN Append(grants, Len(exceptions) + 1) ELSE grants
    /\ UNCHANGED <<now, app, sessions, attendance, requests, leaves, holidays, ending>>

\* grants without x.
Others(x) ==
    IF \A g \in DOMAIN grants : grants[g] # x THEN grants
    ELSE LET p == CHOOSE g \in DOMAIN grants : grants[g] = x
         IN [g \in 1..(Len(grants) - 1) |-> grants[IF g < p THEN g ELSE g + 1]]

\* approve_policy_exception; it does not take a revocation back.
ApproveException(x) ==
    /\ exceptions' = [exceptions EXCEPT ![x].active = TRUE]
    /\ grants' = Append(Others(x), x)
    /\ UNCHANGED <<now, app, sessions, attendance, requests, leaves, holidays, ending>>

\* Bound: an exception is revoked once.
RevokeException(x) ==
    /\ exceptions[x].revoked = Never
    /\ exceptions' = [exceptions EXCEPT ![x].active = FALSE, ![x].revoked = now]
    /\ UNCHANGED <<now, app, sessions, attendance, requests, grants, leaves, holidays, ending>>

Overlap(s, t) == s[1] <= t[2] /\ t[1] <= s[2]

\* LeaveForm.clean, under the lock on the employee.
Taken(s) ==
    \E l \in DOMAIN leaves : leaves[l].status \in {"PENDING", "APPROVED"} /\ Overlap(leaves[l].span, s)

ApplyForLeave(s) ==
    /\ Records < 2 * MaxRecords
    /\ Day(now) <= s[1]
    /\ ~Taken(s)
    /\ leaves' = Append(leaves, [span |-> s, status |-> "PENDING"])
    /\ UNCHANGED <<now, app, sessions, attendance, requests, exceptions, grants, holidays, ending>>

DecideLeave(l, st) ==
    /\ leaves[l].status = "PENDING"
    /\ leaves' = [leaves EXCEPT ![l].status = st]
    /\ UNCHANGED <<now, app, sessions, attendance, requests, exceptions, grants, holidays, ending>>

SetHoliday(d) ==
    /\ d \in holidays \/ Records < 2 * MaxRecords
    /\ holidays' = IF d \in holidays THEN holidays \ {d} ELSE holidays \cup {d}
    /\ UNCHANGED <<now, app, sessions, attendance, requests, exceptions, grants, leaves, ending>>

Tick ==
    /\ now < Horizon
    /\ now' = now + 1
    /\ UNCHANGED <<app, sessions, attendance, requests, exceptions, grants, leaves, holidays, ending>>

----------------------------------------------------------------------------
(* What a day counts as: calculate_daily_attendance_record                   *)

Least(a, b) == IF a <= b THEN a ELSE b
Clock(d) == IF d = Day(now) THEN now ELSE DayEnd(d)
FirstStart(d) ==
    IF OnDay(d) # {} THEN sessions[Min(OnDay(d))].started
    ELSE attendance[d].in

\* The breaks a corrected checkout deducts; an open one runs to the session's end.
BreakTicks(i, d) ==
    LET s == sessions[i]
        e == IF d = Day(now) THEN now
             ELSE IF s.ended = Never THEN s.started ELSE Least(s.ended, DayEnd(d))
    IN {x \in s.breaks \X Time : x[1][1] <= x[2] /\ x[2] < IF x[1][2] = Never THEN e ELSE x[1][2]}

\* Mutant: a session left open counts as under way on any day.
MissingIfClosedLate(d) ==
    \/ \E i \in OnDay(d) : sessions[i].closure = "MIDNIGHT_CUTOFF"
    \/ \E i \in OnDay(d) : sessions[i].ended # Never /\ Day(sessions[i].ended) > d
    \/ OnDay(d) = {} /\ attendance[d].in # Never /\ d # Day(now) /\ attendance[d].out = Never

\* Left open, closed by the midnight job, or ended on a later day.
Missing(d) ==
    \/ \E i \in OnDay(d) :
         \/ IsOpen(sessions[i]) /\ d < Day(now)
         \/ sessions[i].closure = "MIDNIGHT_CUTOFF"
         \/ sessions[i].ended # Never /\ Day(sessions[i].ended) > d
    \/ /\ OnDay(d) = {} /\ attendance[d].in # Never
       /\ IF attendance[d].out # Never THEN Day(attendance[d].out) > d ELSE d # Day(now)

UnderWay(d) ==
    \/ \E i \in OnDay(d) : IsOpen(sessions[i])
    \/ OnDay(d) = {} /\ attendance[d].in # Never /\ attendance[d].out = Never

Finished(d) ==
    \/ \E i \in OnDay(d) : ~IsOpen(sessions[i])
    \/ OnDay(d) # {} /\ \E r \in Approved(d) : requests[r].ask.type = "MISSING_CHECKOUT" /\ requests[r].ask.end # Never
    \/ OnDay(d) = {} /\ attendance[d].in # Never /\ attendance[d].out # Never /\ Day(attendance[d].out) <= d

\* Each session of the day counts for itself.
Recorded(d) ==
    IF OnDay(d) # {}
    THEN Cardinality(UNION {{i} \X WorkTicks(sessions[i], Clock(d)) : i \in OnDay(d)})
    ELSE IF attendance[d].in = Never THEN 0
    ELSE IF attendance[d].out # Never THEN Least(attendance[d].out, DayEnd(d)) - attendance[d].in
    ELSE IF d = Day(now) THEN now - attendance[d].in ELSE 0

\* An approved correction that states the work of the day: its net hours, or the end
\* of a missing checkout.
States(r, d) ==
    \/ requests[r].ask.type \in {"MISSING_CHECKOUT", "OTHER"} /\ requests[r].ask.hours # Never
    \/ /\ requests[r].ask.type = "MISSING_CHECKOUT"
       /\ FirstStart(d) < requests[r].ask.end /\ requests[r].ask.end # Never

Stated(r, d) ==
    IF requests[r].ask.hours # Never THEN requests[r].ask.hours
    ELSE LET gross == requests[r].ask.end - FirstStart(d)
             deducted == Cardinality(UNION {{i} \X BreakTicks(i, d) : i \in OnDay(d)})
         IN IF gross >= deducted THEN gross - deducted ELSE 0

\* Corrections are applied newest first, so the oldest one has the last word.
Worked(d) ==
    LET C == {r \in Approved(d) : States(r, d)}
    IN IF C = {} THEN Recorded(d) ELSE Stated(Min(C), d)

\* It reads is_active, not revoked_at.
Excused(d) ==
    \/ \E r \in Approved(d) : requests[r].ask.type \in {"EARLY_SHIFT_END", "OTHER"}
    \/ \E g \in DOMAIN grants :
         LET e == exceptions[grants[g]]
         IN e.rule = "MIN_DURATION" /\ e.active /\ Day(e.from) <= d /\ d <= Day(e.until)

CheckoutExcused(d) == \E r \in Approved(d) : requests[r].ask.type = "MISSING_CHECKOUT"
OnLeave(d) == \E l \in DOMAIN leaves : leaves[l].status = "APPROVED" /\ d \in leaves[l].span[1]..leaves[l].span[2]
WeekOff(d) == d \in WeekOffs \/ attendance[d].status = "WEEK_OFF"

DayStatus(d) ==
    CASE OnLeave(d) -> "LEAVE"
      [] ~OnLeave(d) /\ d \in holidays -> "HOLIDAY"
      [] OTHER ->
            IF Missing(d) /\ ~CheckoutExcused(d)
            THEN "MISSING_CHECKOUT"
            ELSE IF UnderWay(d) /\ d >= Day(now) THEN "ACTIVE_SHIFT"
            ELSE IF Finished(d)
            THEN IF Worked(d) >= MinWork \/ Excused(d) THEN "FULL_SHIFT"
                 ELSE IF WeekOff(d) THEN "WEEK_OFF" ELSE "SHORT_SHIFT"
            ELSE IF WeekOff(d) THEN "WEEK_OFF"
            ELSE IF d = Day(now) THEN "NOT_STARTED"
            ELSE IF d > Day(now) THEN "SCHEDULED" ELSE "ABSENT"

----------------------------------------------------------------------------
ShiftStep ==
    \/ \E inside \in BOOLEAN : Start(inside)
    \/ \E i \in DOMAIN sessions :
         \/ Pause(i) \/ AdminClose(i) \/ MidnightClose(i)
         \/ \E inside \in BOOLEAN : Resume(i, inside) \/ AskEnd(i, inside)
    \/ End
    \/ \E weekOff \in BOOLEAN : CheckIn(weekOff)
    \/ CheckOut

RequestStep ==
    \/ \E ask \in Asks, d \in Days :
         \E i \in 0..Len(sessions) : Submit(ask, d, i)
    \/ \E r \in DOMAIN requests : Withdraw(r) \/ Reject(r) \/ Approve(r)

PolicyStep ==
    \/ \E w \in Windows, approve \in BOOLEAN : RequestException(w, approve)
    \/ \E x \in DOMAIN exceptions : ApproveException(x) \/ RevokeException(x)
    \/ \E s \in Spans : ApplyForLeave(s)
    \/ \E l \in DOMAIN leaves, st \in {"APPROVED", "REJECTED", "CANCELLED"} : DecideLeave(l, st)
    \/ \E d \in Days : SetHoliday(d)

Next == ShiftStep \/ RequestStep \/ PolicyStep \/ Tick

Spec == Init /\ [][Next]_vars


----------------------------------------------------------------------------
(* Properties                                                               *)

\* A shift its employee ended before the required net work was allowed to end then:
\* by a reviewed request that names this very shift, its departure time and its net
\* hours, or by an exception in force at that time; also when the approval came after
\* the shift began, another shift of the day ended on it, or a break began between
\* the check and the end (evaluate_protected_action).
EndedOnRequest(i, r) ==
    /\ requests[r].status = "APPROVED" /\ requests[r].ask.type = "EARLY_SHIFT_END"
    /\ requests[r].session = i
    /\ requests[r].ask.end # Never => requests[r].ask.end <= sessions[i].ended
    /\ requests[r].ask.hours # Never => requests[r].ask.hours <= NetWork(sessions[i], now)

EndedOnException(i, g) ==
    LET e == exceptions[grants[g]]
    IN /\ e.rule = "MIN_DURATION" /\ e.source = "REQUEST"
       /\ e.from <= sessions[i].ended /\ sessions[i].ended <= e.until
       /\ sessions[i].ended <= e.revoked

EarlyEndWasAllowed ==
    \A i \in DOMAIN sessions :
        sessions[i].closure = "MANUAL" /\ NetWork(sessions[i], now) < MinWork =>
            \/ \E r \in DOMAIN requests : EndedOnRequest(i, r)
            \/ \E g \in DOMAIN grants : EndedOnException(i, g)

\* The shift a request is bound to, when it is sent, reviewed or checked, or when the
\* shift starts, is one of the day it is about.
RequestNamesItsDay ==
    \A r \in DOMAIN requests :
        requests[r].session # 0 => /\ requests[r].session \in DOMAIN sessions
                                   /\ sessions[requests[r].session].date = requests[r].date

\* No two leaves that wait or are approved share a day, however they are decided.
LeavesDoNotOverlap ==
    \A l, m \in DOMAIN leaves :
        l # m /\ {leaves[l].status, leaves[m].status} \subseteq {"PENDING", "APPROVED"}
            => ~Overlap(leaves[l].span, leaves[m].span)

Ruled == <<{r \in DOMAIN requests : requests[r].status = "APPROVED"}, exceptions, grants, leaves, holidays>>

\* What a past day counts as changes by a decision of the management, or when an end
\* asked for on that day commits after midnight: a shift that was left open is a
\* missing checkout before and after the midnight job or an administrator closes it,
\* unless a missing checkout is approved that did not end it.
SettledDayStays ==
    [][\A d \in Days :
        /\ d < Day(now)
        /\ Ruled' = Ruled
        /\ ~(ending # <<>> /\ Day(ending[2]) = d)
        /\ OnDay(d) \cap OpenSessions = {} \/ ~CheckoutExcused(d)
        => DayStatus(d)' = DayStatus(d)]_vars

=============================================================================
