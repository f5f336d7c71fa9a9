--------------------------- MODULE ShiftPolicyProofs ---------------------------
(***************************************************************************)
(* Theorems about ShiftPolicy for any clock, requests, windows and leave.  *)
(*                                                                         *)
(* The tables are taken one by one: which actions write a table, and what  *)
(* they keep of its rows.  An early end is then followed from the check    *)
(* that allowed it to the closed session: the permission it stood on is    *)
(* kept by every step in between, and so is the work done until its time.  *)
(* What a past day counts as is followed the same way: which of its rows a *)
(* step may still write, and that the computation reads none of that.      *)
(***************************************************************************)
EXTENDS ShiftPolicy, SequenceTheorems, FiniteSetTheorems, WellFoundedInduction, TLAPS

LEMMA SameInterval ==
    ASSUME NEW m \in Nat, NEW n \in Nat, 1..m = 1..n
    PROVE  m = n
<1>1. \A i \in Int : i \in 1..m <=> i \in 1..n
  OBVIOUS
<1>2. m > 0 => m \in 1..n
  BY <1>1
<1>3. n > 0 => n \in 1..m
  BY <1>1
<1> QED
  BY <1>2, <1>3

LEMMA Rows ==
    ASSUME NEW S, NEW s \in Seq(S)
    PROVE  /\ Len(s) \in Nat /\ DOMAIN s = 1..Len(s) /\ s \in [DOMAIN s -> S]
           /\ \A i \in DOMAIN s : s[i] \in S
<1>1. Len(s) \in Nat /\ DOMAIN s = 1..Len(s) /\ s \in [1..Len(s) -> S]
  BY LenProperties
<1> QED
  BY <1>1

LEMMA FunctionIsSeq ==
    ASSUME NEW S, NEW n \in Nat, NEW f \in [1..n -> S]
    PROVE  f \in Seq(S)
BY SeqDef, Zenon

LEMMA Mapped ==
    ASSUME NEW S, NEW T, NEW s \in Seq(S), NEW t \in [DOMAIN s -> T]
    PROVE  t \in Seq(T) /\ DOMAIN t = DOMAIN s /\ Len(t) = Len(s)
<1>1. Len(s) \in Nat /\ DOMAIN s = 1..Len(s)
  BY LenProperties
<1>2. t \in [1..Len(s) -> T]
  BY <1>1
<1>3. t \in Seq(T)
  BY <1>1, <1>2, FunctionIsSeq
<1>4. Len(t) \in Nat /\ DOMAIN t = 1..Len(t)
  BY <1>3, LenProperties
<1>5. 1..Len(t) = 1..Len(s)
  BY <1>2, <1>4
<1> QED
  BY <1>1, <1>3, <1>4, <1>5, SameInterval

\* One row is written.
LEMMA Written ==
    ASSUME NEW S, NEW s \in Seq(S), NEW i \in DOMAIN s, NEW x \in S
    PROVE  /\ [s EXCEPT ![i] = x] \in Seq(S) /\ DOMAIN [s EXCEPT ![i] = x] = DOMAIN s
           /\ Len([s EXCEPT ![i] = x]) = Len(s)
           /\ [s EXCEPT ![i] = x][i] = x
           /\ \A j \in DOMAIN s \ {i} : [s EXCEPT ![i] = x][j] = s[j]
<1> DEFINE t == [s EXCEPT ![i] = x]
<1>1. s \in [DOMAIN s -> S]
  BY Rows
<1>2. t \in [DOMAIN s -> S] /\ t[i] = x /\ \A j \in DOMAIN s \ {i} : t[j] = s[j]
  BY <1>1
<1> HIDE DEF t
<1>3. t \in Seq(S) /\ DOMAIN t = DOMAIN s /\ Len(t) = Len(s)
  BY <1>2, Mapped
<1> QED
  BY <1>2, <1>3 DEF t

LEMMA Appended ==
    ASSUME NEW S, NEW s \in Seq(S), NEW x \in S
    PROVE  /\ Append(s, x) \in Seq(S)
           /\ Len(s) \in Nat /\ Len(s) + 1 \notin DOMAIN s /\ DOMAIN s = 1..Len(s)
           /\ DOMAIN Append(s, x) = DOMAIN s \cup {Len(s) + 1}
           /\ \A i \in DOMAIN s : Append(s, x)[i] = s[i]
           /\ Append(s, x)[Len(s) + 1] = x
<1>1. Len(s) \in Nat /\ DOMAIN s = 1..Len(s)
  BY LenProperties
<1>2. /\ Append(s, x) \in Seq(S)
      /\ Len(Append(s, x)) = Len(s) + 1
      /\ \A i \in 1..Len(s) : Append(s, x)[i] = s[i]
      /\ Append(s, x)[Len(s) + 1] = x
  BY AppendProperties
<1>3. DOMAIN Append(s, x) = 1..(Len(s) + 1)
  BY <1>2, LenProperties
<1> QED
  BY <1>1, <1>2, <1>3

\* The last of a set of numbers that has a bound.
LEMMA HasLast ==
    ASSUME NEW K, K \subseteq Nat, K # {}, NEW h \in Nat, \A k \in K : k <= h
    PROVE  \E k \in K : \A m \in K : m <= k
<1> DEFINE T == {h - k : k \in K}
<1>1. T \subseteq Nat /\ T # {}
  <2>1. ASSUME NEW k \in K PROVE h - k \in Nat
    OBVIOUS
  <2>2. PICK k \in K : TRUE
    OBVIOUS
  <2>3. h - k \in T
    OBVIOUS
  <2> QED
    BY <2>1, <2>3
<1>2. PICK x \in T : \A y \in T : ~(<<y, x>> \in OpToRel(<, Nat))
  BY <1>1, NatLessThanWellFounded, WFMin, Zenon
<1>3. \A y \in T : ~(y < x)
  <2> HIDE DEF T
  <2> QED
    BY <1>1, <1>2 DEF OpToRel
<1>4. PICK k \in K : x = h - k
  BY <1>2
<1>5. ASSUME NEW m \in K PROVE m <= k
  <2>1. h - m \in T
    OBVIOUS
  <2>2. ~(h - m < h - k) /\ m \in Nat /\ k \in Nat
    BY <1>3, <1>4, <2>1
  <2> QED
    BY <2>2
<1> QED
  BY <1>5

LEMMA LastOne ==
    ASSUME NEW K, K \subseteq Nat, K # {}, NEW h \in Nat, \A k \in K : k <= h
    PROVE  Max(K) \in K
<1>1. PICK k \in K : \A m \in K : m <= k
  BY HasLast
<1>2. \A m \in K : k >= m
  BY <1>1
<1> QED
  BY <1>2 DEF Max

LEMMA FirstOne ==
    ASSUME NEW K, K \subseteq Nat, K # {}
    PROVE  Min(K) \in K
<1>1. PICK k \in K : \A m \in K : ~(<<m, k>> \in OpToRel(<, Nat))
  BY NatLessThanWellFounded, WFMin, Zenon
<1>2. \A m \in K : k <= m
  <2>1. \A m \in K : ~(m < k)
    BY <1>1 DEF OpToRel
  <2> QED
    BY <2>1
<1> QED
  BY <1>2 DEF Min

----------------------------------------------------------------------------
(* The clock                                                                *)

LEMMA Ticks ==
    /\ Time \subseteq Nat /\ Days \subseteq Nat /\ Never \in Nat /\ Horizon \in Nat
    /\ \A t \in Time : t < Never /\ t <= Horizon
    /\ \A t \in Nat : t <= Horizon => t \in Time
<1>1. Horizon \in Nat /\ DayLength \in Nat \ {0}
  BY ShiftPolicyAssumption
<1>2. Day(Horizon) \in Nat
  BY <1>1 DEF Day
<1> QED
  BY <1>1, <1>2 DEF Time, Days, Never

LEMMA DayType ==
    ASSUME NEW t \in Time
    PROVE  /\ Day(t) \in Days
           /\ DayStart(Day(t)) <= t /\ DayStart(Day(t)) \in Nat
           /\ t < DayEnd(Day(t)) /\ DayEnd(Day(t)) \in Nat
<1>1. t \in Nat /\ t <= Horizon /\ Horizon \in Nat /\ DayLength \in Nat \ {0}
  BY ShiftPolicyAssumption DEF Time
<1> QED
  BY <1>1 DEF Day, Days, DayStart, DayEnd

\* A day starts within the clock, and ends no later than its last day.
LEMMA DayBounds ==
    ASSUME NEW d \in Days
    PROVE  /\ DayStart(d) \in Time
           /\ DayEnd(d) \in Nat /\ DayEnd(d) # 0
           /\ DayEnd(d) <= DayEnd(Day(Horizon)) /\ DayEnd(Day(Horizon)) \in Nat
<1> DEFINE b == Day(Horizon)
<1>1. Horizon \in Time /\ DayLength \in Nat \ {0}
  BY ShiftPolicyAssumption DEF Time
<1>2. b \in Nat /\ b * DayLength <= Horizon /\ Horizon \in Nat
  BY <1>1, DayType, Ticks DEF DayStart
<1>3. d \in Nat /\ d <= b
  BY <1>2 DEF Days
<1> HIDE DEF b
<1>4. d * DayLength \in Nat /\ d * DayLength <= b * DayLength /\ b * DayLength \in Nat
  BY <1>1, <1>2, <1>3
<1>5. /\ (d + 1) * DayLength \in Nat /\ (d + 1) * DayLength # 0
      /\ (d + 1) * DayLength <= (b + 1) * DayLength /\ (b + 1) * DayLength \in Nat
  BY <1>1, <1>2, <1>3
<1>6. DayStart(d) \in Time
  BY <1>1, <1>2, <1>4, Ticks DEF DayStart
<1> QED
  BY <1>5, <1>6 DEF DayEnd, b

----------------------------------------------------------------------------
(* Who writes which table                                                   *)

WritesSessions ==
    \/ \E inside \in BOOLEAN : Start(inside)
    \/ \E i \in DOMAIN sessions : \/ Pause(i) \/ AdminClose(i) \/ MidnightClose(i)
                                  \/ \E inside \in BOOLEAN : Resume(i, inside)
    \/ End
    \/ \E r \in DOMAIN requests : Approve(r)

WritesAttendance ==
    \/ \E inside \in BOOLEAN : Start(inside)
    \/ End
    \/ \E weekOff \in BOOLEAN : CheckIn(weekOff)
    \/ CheckOut
    \/ \E r \in DOMAIN requests : Approve(r)

WritesRequests ==
    \/ \E inside \in BOOLEAN : Start(inside)
    \/ \E i \in DOMAIN sessions, inside \in BOOLEAN : AskEnd(i, inside)
    \/ \E ask \in Asks, d \in Days : \E i \in 0..Len(sessions) : Submit(ask, d, i)
    \/ \E r \in DOMAIN requests : Withdraw(r) \/ Reject(r) \/ Approve(r)

WritesExceptions ==
    \/ \E r \in DOMAIN requests : Approve(r)
    \/ \E w \in Windows, approve \in BOOLEAN : RequestException(w, approve)
    \/ \E x \in DOMAIN exceptions : ApproveException(x) \/ RevokeException(x)

WritesLeaves ==
    \/ \E s \in Spans : ApplyForLeave(s)
    \/ \E l \in DOMAIN leaves, st \in {"APPROVED", "REJECTED", "CANCELLED"} : DecideLeave(l, st)

WritesEnding ==
    \/ \E i \in DOMAIN sessions, inside \in BOOLEAN : AskEnd(i, inside)
    \/ End

OneWriter ==
    /\ sessions' = sessions \/ WritesSessions
    /\ attendance' = attendance \/ WritesAttendance
    /\ requests' = requests \/ WritesRequests
    /\ (exceptions' = exceptions /\ grants' = grants) \/ WritesExceptions
    /\ leaves' = leaves \/ WritesLeaves
    /\ ending' = ending \/ WritesEnding
    /\ now' = now \/ Tick
    /\ holidays' = holidays \/ \E d \in Days : SetHoliday(d)
    /\ app' = app

LEMMA Writers ==
    ASSUME [Next]_vars
    PROVE  OneWriter
<1> USE DEF OneWriter
<1>1. CASE ShiftStep
  <2>1. ASSUME NEW inside \in BOOLEAN, Start(inside) PROVE OneWriter
    BY <2>1 DEF Start, WritesSessions, WritesAttendance, WritesRequests
  <2>2. ASSUME NEW i \in DOMAIN sessions, Pause(i) \/ AdminClose(i) \/ MidnightClose(i) PROVE OneWriter
    BY <2>2 DEF Pause, AdminClose, MidnightClose, WritesSessions
  <2>3. ASSUME NEW i \in DOMAIN sessions, NEW inside \in BOOLEAN, Resume(i, inside) PROVE OneWriter
    BY <2>3 DEF Resume, WritesSessions
  <2>4. ASSUME NEW i \in DOMAIN sessions, NEW inside \in BOOLEAN, AskEnd(i, inside) PROVE OneWriter
    BY <2>4 DEF AskEnd, WritesRequests, WritesEnding
  <2>5. ASSUME End PROVE OneWriter
    BY <2>5 DEF End, WritesSessions, WritesAttendance, WritesEnding
  <2>6. ASSUME NEW weekOff \in BOOLEAN, CheckIn(weekOff) PROVE OneWriter
    BY <2>6 DEF CheckIn, WritesAttendance
  <2>7. ASSUME CheckOut PROVE OneWriter
    BY <2>7 DEF CheckOut, WritesAttendance
  <2> QED
    BY <1>1, <2>1, <2>2, <2>3, <2>4, <2>5, <2>6, <2>7 DEF ShiftStep
<1>2. CASE RequestStep
  <2>1. ASSUME NEW ask \in Asks, NEW d \in Days, NEW i \in 0..Len(sessions), Submit(ask, d, i)
        PROVE  OneWriter
    BY <2>1 DEF Submit, WritesRequests
  <2>2. ASSUME NEW r \in DOMAIN requests, Withdraw(r) \/ Reject(r) PROVE OneWriter
    BY <2>2 DEF Withdraw, Reject, WritesRequests
  <2>3. ASSUME NEW r \in DOMAIN requests, Approve(r) PROVE OneWriter
    BY <2>3 DEF Approve, WritesRequests, WritesSessions, WritesAttendance, WritesExceptions
  <2> QED
    BY <1>2, <2>1, <2>2, <2>3 DEF RequestStep
<1>3. CASE PolicyStep
  <2>1. ASSUME NEW w \in Windows, NEW approve \in BOOLEAN, RequestException(w, approve)
        PROVE  OneWriter
    BY <2>1 DEF RequestException, WritesExceptions
  <2>2. ASSUME NEW x \in DOMAIN exceptions, ApproveException(x) \/ RevokeException(x)
        PROVE  OneWriter
    BY <2>2 DEF ApproveException, RevokeException, WritesExceptions
  <2>3. ASSUME NEW s \in Spans, ApplyForLeave(s) PROVE OneWriter
    BY <2>3 DEF ApplyForLeave, WritesLeaves
  <2>4. ASSUME NEW l \in DOMAIN leaves, NEW st \in {"APPROVED", "REJECTED", "CANCELLED"},
               DecideLeave(l, st)
        PROVE  OneWriter
    BY <2>4 DEF DecideLeave, WritesLeaves
  <2>5. ASSUME NEW d \in Days, SetHoliday(d) PROVE OneWriter
    BY <2>5 DEF SetHoliday
  <2> QED
    BY <1>3, <2>1, <2>2, <2>3, <2>4, <2>5 DEF PolicyStep
<1>4. CASE Tick
  BY <1>4 DEF Tick
<1>5. CASE UNCHANGED vars
  BY <1>5 DEF vars
<1> QED
  BY <1>1, <1>2, <1>3, <1>4, <1>5 DEF Next

----------------------------------------------------------------------------
(* Sessions                                                                 *)

\* A session keeps its day and its start.
KeepsItsDay(s, t) == t.date = s.date /\ t.started = s.started

\* Every session is kept, on its day.
SessionsKept ==
    /\ sessions' \in Seq(Session)
    /\ DOMAIN sessions \subseteq DOMAIN sessions'
    /\ \A i \in DOMAIN sessions : KeepsItsDay(sessions[i], sessions'[i])

LEMMA OneKept ==
    ASSUME sessions \in Seq(Session), NEW i \in DOMAIN sessions, NEW x \in Session,
           KeepsItsDay(sessions[i], x), sessions' = [sessions EXCEPT ![i] = x]
    PROVE  SessionsKept
<1>1. /\ sessions' \in Seq(Session) /\ DOMAIN sessions' = DOMAIN sessions
      /\ sessions'[i] = x
      /\ \A j \in DOMAIN sessions \ {i} : sessions'[j] = sessions[j]
  BY Written
<1> QED
  BY <1>1 DEF SessionsKept, KeepsItsDay

LEMMA ClosedType ==
    ASSUME NEW s \in Session, NEW t \in Time,
           NEW status \in {"COMPLETED", "AUTO_CLOSED"},
           NEW closure \in {"MANUAL", "ADMIN_OVERRIDE", "MIDNIGHT_CUTOFF"}
    PROVE  Closed(s, t, status, closure) \in Session /\ KeepsItsDay(s, Closed(s, t, status, closure))
<1> DEFINE B == {IF b[2] = Never THEN <<b[1], t>> ELSE b : b \in s.breaks}
<1>1. B \in SUBSET (Time \X (Time \cup {Never}))
  BY DEF Session
<1>2. Closed(s, t, status, closure) =
          [s EXCEPT !.ended = t, !.status = status, !.closure = closure, !.childEnd = t, !.breaks = B]
  BY DEF Closed
<1> HIDE DEF B
<1> QED
  BY <1>1, <1>2 DEF Session, KeepsItsDay

LEMMA BrokenType ==
    ASSUME NEW s \in Session, NEW status \in {"ACTIVE", "PAUSED"},
           NEW B \in SUBSET (Time \X (Time \cup {Never}))
    PROVE  /\ [s EXCEPT !.status = status, !.breaks = B] \in Session
           /\ KeepsItsDay(s, [s EXCEPT !.status = status, !.breaks = B])
BY DEF Session, KeepsItsDay

LEMMA SessionsStep ==
    ASSUME TypeOK, [Next]_vars
    PROVE  SessionsKept
<1> USE DEF TypeOK
<1>0. sessions \in Seq(Session) /\ (\A i \in DOMAIN sessions : sessions[i] \in Session)
  BY Rows
<1>1. CASE sessions' = sessions
  BY <1>0, <1>1 DEF SessionsKept, KeepsItsDay
<1>2. ASSUME NEW inside \in BOOLEAN, Start(inside)
      PROVE  SessionsKept
  <2> DEFINE x == [date |-> Day(now), started |-> now, ended |-> Never, status |-> "ACTIVE",
                   closure |-> "NONE", breaks |-> {}, childEnd |-> Never]
  <2>1. x \in Session
    BY DayType DEF Session
  <2>2. sessions' = Append(sessions, x)
    BY <1>2 DEF Start
  <2> HIDE DEF x
  <2> QED
    BY <1>0, <2>1, <2>2, Appended DEF SessionsKept, KeepsItsDay
<1>3. ASSUME NEW i \in DOMAIN sessions, Pause(i)
      PROVE  SessionsKept
  <2> DEFINE B == sessions[i].breaks \cup {<<now, Never>>}
             x == [sessions[i] EXCEPT !.status = "PAUSED", !.breaks = B]
  <2>1. B \in SUBSET (Time \X (Time \cup {Never}))
    BY <1>0 DEF Session
  <2>2. sessions' = [sessions EXCEPT ![i] = x]
    BY <1>3 DEF Pause
  <2> HIDE DEF B
  <2>3. x \in Session /\ KeepsItsDay(sessions[i], x)
    BY <1>0, <2>1, BrokenType
  <2> HIDE DEF x
  <2> QED
    BY <1>0, <2>2, <2>3, OneKept
<1>4. ASSUME NEW i \in DOMAIN sessions, NEW inside \in BOOLEAN, Resume(i, inside)
      PROVE  SessionsKept
  <2> DEFINE B == {IF b[2] = Never THEN <<b[1], now>> ELSE b : b \in sessions[i].breaks}
             x == [sessions[i] EXCEPT !.status = "ACTIVE", !.breaks = B]
  <2>1. B \in SUBSET (Time \X (Time \cup {Never}))
    BY <1>0 DEF Session
  <2>2. sessions' = [sessions EXCEPT ![i] = x]
    BY <1>4 DEF Resume
  <2> HIDE DEF B
  <2>3. x \in Session /\ KeepsItsDay(sessions[i], x)
    BY <1>0, <2>1, BrokenType
  <2> HIDE DEF x
  <2> QED
    BY <1>0, <2>2, <2>3, OneKept
<1>5. ASSUME NEW i \in DOMAIN sessions, NEW t \in Time,
             NEW status \in {"COMPLETED", "AUTO_CLOSED"},
             NEW closure \in {"MANUAL", "ADMIN_OVERRIDE", "MIDNIGHT_CUTOFF"},
             sessions' = [sessions EXCEPT ![i] = Closed(@, t, status, closure)]
      PROVE  SessionsKept
  BY <1>0, <1>5, ClosedType, OneKept
<1>6. ASSUME NEW i \in DOMAIN sessions, AdminClose(i)
      PROVE  SessionsKept
  BY <1>5, <1>6 DEF AdminClose
<1>7. ASSUME NEW i \in DOMAIN sessions, MidnightClose(i)
      PROVE  SessionsKept
  <2>1. DayEnd(sessions[i].date) <= now /\ sessions[i].date \in Days
    BY <1>0, <1>7 DEF MidnightClose, Session
  <2>2. DayEnd(sessions[i].date) \in Nat /\ now \in Nat /\ now <= Horizon /\ Horizon \in Nat
    BY <2>1, DayBounds, Ticks
  <2>3. DayEnd(sessions[i].date) <= Horizon
    BY <2>1, <2>2
  <2>4. DayEnd(sessions[i].date) \in Time
    BY <2>2, <2>3, Ticks
  <2> QED
    BY <1>5, <1>7, <2>4 DEF MidnightClose
<1>8. CASE End
  <2>1. ending[1] \in DOMAIN sessions /\ ending[2] \in Time
    BY <1>8 DEF End
  <2>2. \/ sessions' = sessions
        \/ sessions' = [sessions EXCEPT ![ending[1]] = Closed(@, ending[2], "COMPLETED", "MANUAL")]
    BY <1>8 DEF End
  <2> QED
    BY <1>1, <1>5, <2>1, <2>2
<1>9. ASSUME NEW r \in DOMAIN requests, Approve(r)
      PROVE  SessionsKept
  <2>0. requests[r] \in RequestRow
    BY Rows
  <2>1. requests[r].ask.end \in Time \cup {Never}
    BY <2>0 DEF RequestRow, Ask
  <2>2. PICK i : sessions' = sessions \/ sessions' = CheckedOut(i, requests[r].ask.end)
    BY <1>9 DEF Approve
  <2>3. CASE sessions' = [sessions EXCEPT ![i].ended = requests[r].ask.end, ![i].status = "COMPLETED",
                                          ![i].closure = "ADMIN_OVERRIDE"]
             /\ requests[r].ask.end # Never
    <3>1. CASE i \in DOMAIN sessions
      <4> DEFINE x == [sessions[i] EXCEPT !.ended = requests[r].ask.end, !.status = "COMPLETED",
                                          !.closure = "ADMIN_OVERRIDE"]
      <4>0. sessions[i] \in Session /\ requests[r].ask.end \in Time
        BY <1>0, <2>1, <2>3, <3>1
      <4>1. x \in Session /\ KeepsItsDay(sessions[i], x)
        BY ONLY <4>0 DEF Session, KeepsItsDay
      <4>2. sessions' = [sessions EXCEPT ![i] = x]
        BY <2>3, <3>1
      <4> HIDE DEF x
      <4> QED
        BY <1>0, <3>1, <4>1, <4>2, OneKept
    <3>2. CASE i \notin DOMAIN sessions
      <4>1. sessions \in [DOMAIN sessions -> Session]
        BY <1>0, Rows
      <4>2. sessions' = sessions
        BY <2>3, <3>2, <4>1
      <4> QED
        BY <1>1, <4>2
    <3> QED
      BY <3>1, <3>2
  <2> QED
    BY <1>1, <2>2, <2>3 DEF CheckedOut
<1> QED
  BY <1>1, <1>2, <1>3, <1>4, <1>6, <1>7, <1>8, <1>9, Writers DEF OneWriter, WritesSessions

----------------------------------------------------------------------------
(* Requests                                                                 *)

\* The session request q is bound to is in s, on the day of q.
Names(q, s) ==
    q.session # 0 => q.session \in DOMAIN s /\ s[q.session].date = q.date

RowsInv ==
    \A r \in DOMAIN requests :
        Names(requests[r], sessions) /\ requests[r].review <= Len(requests) + 1

\* A request keeps what it asks, its session once it is bound, and its approval.
KeepsItsWord(q, p) ==
    /\ p.ask = q.ask /\ p.date = q.date
    /\ q.session # 0 => p.session = q.session
    /\ q.status = "APPROVED" => p.status = "APPROVED"

RequestsKept ==
    /\ requests' \in Seq(RequestRow)
    /\ DOMAIN requests \subseteq DOMAIN requests'
    /\ \A r \in DOMAIN requests : KeepsItsWord(requests[r], requests'[r])
    /\ \A r \in DOMAIN requests' :
          Names(requests'[r], sessions') /\ requests'[r].review <= Len(requests') + 1

LEMMA StillNames ==
    ASSUME SessionsKept, NEW q, Names(q, sessions)
    PROVE  Names(q, sessions')
BY DEF SessionsKept, Names, KeepsItsDay

LEMMA OneRequest ==
    ASSUME TypeOK, RowsInv, SessionsKept,
           NEW r \in DOMAIN requests, NEW x \in RequestRow,
           requests' = [requests EXCEPT ![r] = x],
           KeepsItsWord(requests[r], x), Names(x, sessions), x.review <= Len(requests) + 1
    PROVE  RequestsKept
<1>0. requests \in Seq(RequestRow)
  BY DEF TypeOK
<1>1. /\ requests' \in Seq(RequestRow) /\ DOMAIN requests' = DOMAIN requests
      /\ Len(requests') = Len(requests)
      /\ requests'[r] = x
      /\ \A q \in DOMAIN requests \ {r} : requests'[q] = requests[q]
  BY <1>0, Written
<1>2. ASSUME NEW q \in DOMAIN requests
      PROVE  /\ Names(requests'[q], sessions) /\ requests'[q].review <= Len(requests') + 1
             /\ KeepsItsWord(requests[q], requests'[q])
  BY <1>1 DEF RowsInv, KeepsItsWord
<1> QED
  BY <1>1, <1>2, StillNames DEF RequestsKept

\* The session a request is bound to when it is sent or reviewed is one of its day.
LEMMA SessionOnDay ==
    ASSUME sessions \in Seq(Session), NEW d \in Days
    PROVE  SessionOn(d) = 0 \/ SessionOn(d) \in OnDay(d)
<1> DEFINE A == {i \in OnDay(d) : sessions[i].status = "ACTIVE"}
           C == IF A # {} THEN A ELSE OnDay(d)
<1>1. Len(sessions) \in Nat /\ DOMAIN sessions = 1..Len(sessions)
  BY Rows
<1>2. C \subseteq OnDay(d) /\ OnDay(d) \subseteq 1..Len(sessions)
  BY <1>1 DEF OnDay
<1>3. SessionOn(d) = IF C = {} THEN 0 ELSE Max(C)
  BY DEF SessionOn
<1> HIDE DEF C
<1>4. CASE C # {}
  <2>1. C \subseteq Nat /\ \A k \in C : k <= Len(sessions)
    BY <1>1, <1>2
  <2>2. Max(C) \in C
    BY <1>1, <1>4, <2>1, LastOne
  <2> QED
    BY <1>2, <1>3, <1>4, <2>2
<1> QED
  BY <1>3, <1>4

\* The request that covers a session is one of the day that may be bound to it.
LEMMA CoversOne ==
    ASSUME TypeOK, RowsInv, NEW i \in DOMAIN sessions, Covers(i) # 0
    PROVE  /\ Covers(i) \in Approved(sessions[i].date)
           /\ requests[Covers(i)].ask.type = "EARLY_SHIFT_END"
           /\ requests[Covers(i)].session \in {0, i}
<1> DEFINE C == {r \in Approved(sessions[i].date) :
                    requests[r].ask.type = "EARLY_SHIFT_END" /\ requests[r].session \in {0, i}}
           K == {requests[r].review : r \in C}
           h == Len(requests) + 1
<1>1. Len(requests) \in Nat /\ \A r \in DOMAIN requests : requests[r] \in RequestRow
  BY Rows DEF TypeOK
<1>2. C \subseteq DOMAIN requests
  BY DEF Approved
<1>3. Covers(i) = IF C = {} THEN 0
                  ELSE CHOOSE r \in C : \A q \in C : requests[q].review <= requests[r].review
  BY DEF Covers
<1>4. C # {}
  BY <1>3
<1> HIDE DEF C
<1>5. K \subseteq Nat /\ K # {} /\ \A k \in K : k <= h
  BY <1>1, <1>2, <1>4 DEF RequestRow, RowsInv
<1>6. PICK k \in K : \A m \in K : m <= k
  <2> HIDE DEF K
  <2>1. h \in Nat
    BY <1>1
  <2> HIDE DEF h
  <2> QED
    BY <1>5, <2>1, HasLast
<1>7. PICK r \in C : k = requests[r].review
  OBVIOUS
<1>8. \A q \in C : requests[q].review <= requests[r].review
  BY <1>6, <1>7
<1>9. Covers(i) \in C
  BY <1>3, <1>4, <1>8
<1> QED
  BY <1>9 DEF C

LEMMA ReviewsBound ==
    ASSUME TypeOK
    PROVE  Reviews + 1 \in Nat /\ Reviews + 1 <= Len(requests) + 1
<1> DEFINE R == {r \in DOMAIN requests : requests[r].review # 0}
<1>1. Len(requests) \in Nat /\ DOMAIN requests = 1..Len(requests)
  BY Rows DEF TypeOK
<1>2. IsFiniteSet(1..Len(requests)) /\ Cardinality(1..Len(requests)) = Len(requests)
  <2>1. /\ IsFiniteSet(1..Len(requests))
        /\ Cardinality(1..Len(requests)) = IF 1 > Len(requests) THEN 0 ELSE Len(requests) - 1 + 1
    BY <1>1, FS_Interval
  <2> QED
    BY <1>1, <2>1
<1>3. R \subseteq 1..Len(requests)
  BY <1>1
<1>4. Cardinality(R) \in Nat /\ Cardinality(R) <= Len(requests)
  BY <1>2, <1>3, FS_Subset, FS_CardinalityType
<1> QED
  BY <1>1, <1>4 DEF Reviews

LEMMA RequestsStep ==
    ASSUME TypeOK, RowsInv, [Next]_vars
    PROVE  RequestsKept
<1>0. /\ requests \in Seq(RequestRow) /\ Len(requests) \in Nat
      /\ \A r \in DOMAIN requests : requests[r] \in RequestRow
      /\ sessions \in Seq(Session) /\ DOMAIN sessions = 1..Len(sessions) /\ Len(sessions) \in Nat
      /\ \A i \in DOMAIN sessions : sessions[i].date \in Days
      /\ SessionsKept
  <2>1. requests \in Seq(RequestRow) /\ sessions \in Seq(Session)
    BY DEF TypeOK
  <2>2. \A i \in DOMAIN sessions : sessions[i] \in Session
    BY <2>1, Rows
  <2>3. \A i \in DOMAIN sessions : sessions[i].date \in Days
    BY <2>2 DEF Session
  <2>4. \A r \in DOMAIN requests : requests[r] \in RequestRow
    BY <2>1, Rows
  <2> QED
    BY <2>1, <2>3, <2>4, Rows, SessionsStep
<1>1. CASE requests' = requests
  BY <1>0, <1>1, StillNames DEF RequestsKept, KeepsItsWord, RowsInv
<1>2. ASSUME NEW inside \in BOOLEAN, Start(inside)
      PROVE  RequestsKept
  <2> DEFINE n == Len(sessions) + 1
             T == [r \in DOMAIN requests |->
                      IF requests[r].session = 0 /\ requests[r].date = Day(now) /\ requests[r].status # "DELETED"
                      THEN [requests[r] EXCEPT !.session = n] ELSE requests[r]]
  <2>1. requests' = T /\ n # 0 /\ n \in Nat
    BY <1>0, <1>2 DEF Start, BoundTo
  <2>2. n \in DOMAIN sessions' /\ sessions'[n].date = Day(now)
    <3> DEFINE x == [date |-> Day(now), started |-> now, ended |-> Never, status |-> "ACTIVE",
                     closure |-> "NONE", breaks |-> {}, childEnd |-> Never]
    <3>1. x \in Session /\ sessions' = Append(sessions, x) /\ x.date = Day(now)
      BY <1>2, DayType DEF Start, Session, TypeOK
    <3> HIDE DEF x
    <3> QED
      BY <1>0, <3>1, Appended
  <2> HIDE DEF n
  <2>3. ASSUME NEW r \in DOMAIN requests
        PROVE  /\ T[r] \in RequestRow /\ T[r].review = requests[r].review
               /\ KeepsItsWord(requests[r], T[r])
               /\ Names(T[r], sessions')
    <3>0. requests[r] \in RequestRow /\ Names(requests[r], sessions')
      BY <1>0, StillNames DEF RowsInv
    <3>1. CASE requests[r].session = 0 /\ requests[r].date = Day(now) /\ requests[r].status # "DELETED"
      <4>1. T[r] = [requests[r] EXCEPT !.session = n]
        BY <3>1
      <4> QED
        BY <2>1, <2>2, <3>0, <3>1, <4>1 DEF RequestRow, KeepsItsWord, Names
    <3>2. CASE ~(requests[r].session = 0 /\ requests[r].date = Day(now) /\ requests[r].status # "DELETED")
      BY <3>0, <3>2 DEF KeepsItsWord
    <3> QED
      BY <3>1, <3>2
  <2>4. T \in [DOMAIN requests -> RequestRow]
    BY <2>3
  <2> HIDE DEF T
  <2>5. T \in Seq(RequestRow) /\ DOMAIN T = DOMAIN requests /\ Len(T) = Len(requests)
    BY <1>0, <2>4, Mapped
  <2> QED
    BY <1>0, <2>1, <2>3, <2>5 DEF RequestsKept, RowsInv
<1>3. ASSUME NEW i \in DOMAIN sessions, NEW inside \in BOOLEAN, AskEnd(i, inside)
      PROVE  RequestsKept
  <2>1. \/ requests' = requests
        \/ Covers(i) # 0 /\ requests' = [requests EXCEPT ![Covers(i)].session = i]
    BY <1>3 DEF AskEnd
  <2>2. CASE Covers(i) # 0 /\ requests' = [requests EXCEPT ![Covers(i)].session = i]
    <3> DEFINE r == Covers(i)
               x == [requests[r] EXCEPT !.session = i]
    <3>1. r \in DOMAIN requests /\ requests[r].date = sessions[i].date /\ requests[r].session \in {0, i}
      BY <2>2, CoversOne DEF Approved
    <3>2. requests' = [requests EXCEPT ![r].session = i]
      BY <2>2
    <3> HIDE DEF r
    <3>3. requests' = [requests EXCEPT ![r] = x]
      BY <3>2
    <3>4. i \in Nat /\ requests[r] \in RequestRow
      BY <1>0, <3>1
    <3>5. /\ x \in RequestRow /\ x.review = requests[r].review
          /\ KeepsItsWord(requests[r], x) /\ Names(x, sessions)
      BY <3>1, <3>4 DEF RequestRow, KeepsItsWord, Names
    <3> HIDE DEF x
    <3> QED
      BY <1>0, <3>1, <3>3, <3>5, OneRequest DEF RowsInv
  <2> QED
    BY <1>1, <2>1, <2>2
<1>4. ASSUME NEW ask \in Asks, NEW d \in Days, NEW i \in 0..Len(sessions), Submit(ask, d, i)
      PROVE  RequestsKept
  <2> DEFINE x == Row(ask, d, i, "PENDING", 0)
  <2>1. ask \in Ask
    BY ShiftPolicyAssumption
  <2>2. i = 0 \/ i \in OnDay(d)
    BY <1>0, <1>4, SessionOnDay DEF Submit
  <2>3. x \in RequestRow /\ x.review = 0 /\ Names(x, sessions)
    BY <1>0, <2>1, <2>2 DEF Row, RequestRow, Names, OnDay
  <2>4. requests' = Append(requests, x)
    BY <1>4 DEF Submit
  <2> HIDE DEF x
  <2>5. /\ requests' \in Seq(RequestRow) /\ Len(requests') \in Nat
        /\ Len(requests') = Len(requests) + 1
        /\ DOMAIN requests' = DOMAIN requests \cup {Len(requests) + 1}
        /\ \A r \in DOMAIN requests : requests'[r] = requests[r]
        /\ requests'[Len(requests) + 1] = x
    BY <1>0, <2>3, <2>4, Appended, AppendProperties
  <2>6. \A r \in DOMAIN requests : requests[r].review <= Len(requests) + 1 /\ requests[r].review \in Nat
    BY <1>0 DEF RowsInv, RequestRow
  <2>7. \A r \in DOMAIN requests' : requests'[r].review <= Len(requests') + 1
    BY <1>0, <2>3, <2>5, <2>6
  <2>8. \A r \in DOMAIN requests' : Names(requests'[r], sessions')
    BY <1>0, <2>3, <2>5, StillNames DEF RowsInv
  <2> QED
    BY <2>5, <2>7, <2>8 DEF RequestsKept, KeepsItsWord
<1>5. ASSUME NEW r \in DOMAIN requests, Withdraw(r)
      PROVE  RequestsKept
  <2> DEFINE x == [requests[r] EXCEPT !.status = "DELETED"]
  <2>1. requests' = [requests EXCEPT ![r] = x] /\ requests[r].status = "PENDING"
    BY <1>5 DEF Withdraw
  <2>2. requests[r] \in RequestRow /\ Names(requests[r], sessions)
    BY <1>0 DEF RowsInv
  <2>3. /\ x \in RequestRow /\ x.review = requests[r].review
        /\ KeepsItsWord(requests[r], x) /\ Names(x, sessions)
    BY <2>1, <2>2 DEF RequestRow, KeepsItsWord, Names
  <2> HIDE DEF x
  <2> QED
    BY <2>1, <2>3, <1>0, OneRequest DEF RowsInv
<1>6. ASSUME NEW r \in DOMAIN requests, Reject(r)
      PROVE  RequestsKept
  <2> DEFINE x == [requests[r] EXCEPT !.status = "REJECTED", !.review = Reviews + 1]
  <2>1. requests' = [requests EXCEPT ![r] = x] /\ requests[r].status = "PENDING"
    BY <1>6 DEF Reject
  <2>2. /\ requests[r] \in RequestRow /\ Names(requests[r], sessions)
        /\ Reviews + 1 \in Nat /\ Reviews + 1 <= Len(requests) + 1
    BY <1>0, ReviewsBound DEF RowsInv
  <2>3. /\ x \in RequestRow /\ x.review = Reviews + 1
        /\ KeepsItsWord(requests[r], x) /\ Names(x, sessions)
    BY <2>1, <2>2 DEF RequestRow, KeepsItsWord, Names
  <2> HIDE DEF x
  <2> QED
    BY <2>1, <2>2, <2>3, <1>0, OneRequest
<1>7. ASSUME NEW r \in DOMAIN requests, Approve(r)
      PROVE  RequestsKept
  <2> DEFINE q == requests[r]
             bound == IF q.session # 0 THEN q.session ELSE SessionOn(q.date)
             i == IF q.ask.type = "EARLY_SHIFT_END" THEN bound ELSE q.session
             x == [q EXCEPT !.status = "APPROVED", !.review = Reviews + 1, !.session = i]
  <2>1. requests' = [requests EXCEPT ![r] = x] /\ q.status = "PENDING"
    BY <1>7 DEF Approve
  <2>2. /\ q \in RequestRow /\ Names(q, sessions)
        /\ Reviews + 1 \in Nat /\ Reviews + 1 <= Len(requests) + 1
    BY <1>0, ReviewsBound DEF RowsInv
  <2>3. q.session \in Nat /\ q.date \in Days
    BY <2>2 DEF RequestRow
  <2>4. SessionOn(q.date) = 0 \/ SessionOn(q.date) \in OnDay(q.date)
    BY <1>0, <2>3, SessionOnDay
  <2>5. OnDay(q.date) \subseteq Nat
    BY <1>0 DEF OnDay
  <2>6. /\ i \in Nat /\ (q.session # 0 => i = q.session)
        /\ i # 0 => i \in DOMAIN sessions /\ sessions[i].date = q.date
    BY <2>2, <2>3, <2>4, <2>5 DEF Names, OnDay
  <2> HIDE DEF i
  <2>7. /\ x \in RequestRow /\ x.review = Reviews + 1
        /\ KeepsItsWord(q, x) /\ Names(x, sessions)
    BY <2>1, <2>2, <2>6 DEF RequestRow, KeepsItsWord, Names
  <2> HIDE DEF x
  <2> QED
    BY <2>1, <2>2, <2>7, <1>0, OneRequest
<1> QED
  BY <1>1, <1>2, <1>3, <1>4, <1>5, <1>6, <1>7, Writers DEF OneWriter, WritesRequests

----------------------------------------------------------------------------
(* Attendance                                                               *)

LEMMA DayWritten ==
    ASSUME attendance \in [Days -> Check], NEW d \in Days, NEW c \in Check,
           attendance' = [attendance EXCEPT ![d] = c]
    PROVE  attendance' \in [Days -> Check]
OBVIOUS

LEMMA OutWritten ==
    ASSUME attendance \in [Days -> Check], NEW d \in Days, NEW t \in Time \cup {Never},
           attendance' = [attendance EXCEPT ![d].out = t]
    PROVE  attendance' \in [Days -> Check]
<1> DEFINE c == [attendance[d] EXCEPT !.out = t]
<1>1. c \in Check
  BY DEF Check
<1>2. attendance' = [attendance EXCEPT ![d] = c]
  OBVIOUS
<1> QED
  BY <1>1, <1>2, DayWritten

LEMMA AttendanceStep ==
    ASSUME TypeOK, [Next]_vars
    PROVE  attendance' \in [Days -> Check]
<1>0. attendance \in [Days -> Check] /\ now \in Time /\ Day(now) \in Days
  BY DayType DEF TypeOK
<1>1. CASE attendance' = attendance
  BY <1>0, <1>1
<1>2. ASSUME NEW inside \in BOOLEAN, Start(inside)
      PROVE  attendance' \in [Days -> Check]
  <2> DEFINE d == Day(now)
             c == [attendance[d] EXCEPT !.in = IF @ = Never THEN now ELSE @,
                                        !.status = IF @ = "NONE" THEN "PRESENT" ELSE @]
  <2>1. c \in Check
    BY <1>0 DEF Check
  <2>2. attendance' = [attendance EXCEPT ![d] = c]
    BY <1>0, <1>2 DEF Start
  <2> QED
    BY <1>0, <2>1, <2>2, DayWritten
<1>3. CASE End
  <2>1. CASE attendance' = attendance
    BY <1>0, <2>1
  <2>2. CASE attendance' = [attendance EXCEPT ![sessions[ending[1]].date].out = ending[2]]
    <3>1. ending[1] \in DOMAIN sessions /\ ending[2] \in Time
      BY <1>3 DEF End, TypeOK
    <3>2. sessions[ending[1]].date \in Days
      <4>1. sessions[ending[1]] \in Session
        BY <3>1, Rows DEF TypeOK
      <4> QED
        BY <4>1 DEF Session
    <3> QED
      BY <1>0, <2>2, <3>1, <3>2, OutWritten
  <2> QED
    BY <1>3, <2>1, <2>2 DEF End
<1>4. ASSUME NEW weekOff \in BOOLEAN, CheckIn(weekOff)
      PROVE  attendance' \in [Days -> Check]
  <2> DEFINE d == Day(now)
             c == IF weekOff THEN [attendance[d] EXCEPT !.status = "WEEK_OFF"]
                  ELSE [attendance[d] EXCEPT !.status = "PRESENT", !.in = now]
  <2>1. c \in Check
    BY <1>0 DEF Check
  <2>2. attendance' = [attendance EXCEPT ![d] = c]
    BY <1>0, <1>4 DEF CheckIn
  <2> QED
    BY <1>0, <2>1, <2>2, DayWritten
<1>5. CASE CheckOut
  BY <1>0, <1>5, OutWritten DEF CheckOut
<1>6. ASSUME NEW r \in DOMAIN requests, Approve(r)
      PROVE  attendance' \in [Days -> Check]
  <2>1. requests[r] \in RequestRow
    BY Rows DEF TypeOK
  <2>2. requests[r].date \in Days /\ requests[r].ask.end \in Time \cup {Never}
    BY <2>1 DEF RequestRow, Ask
  <2>3. \/ attendance' = attendance
        \/ attendance' = [attendance EXCEPT ![requests[r].date].out = requests[r].ask.end]
    BY <1>6 DEF Approve
  <2> QED
    BY <1>0, <2>2, <2>3, OutWritten
<1> QED
  BY <1>1, <1>2, <1>3, <1>4, <1>5, <1>6, Writers DEF OneWriter, WritesAttendance

----------------------------------------------------------------------------
(* Exceptions                                                               *)

\* An exception keeps its terms; it may be revoked now.
KeepsItsTerms(e, f) ==
    /\ f.rule = e.rule /\ f.from = e.from /\ f.until = e.until /\ f.source = e.source
    /\ \/ f.revoked = e.revoked
       \/ e.revoked = Never /\ f.revoked = now

\* Every exception is kept, and so is every grant, though not in its place.
GrantsKept ==
    /\ exceptions' \in Seq(ExceptionRow)
    /\ grants' \in Seq(DOMAIN exceptions')
    /\ DOMAIN exceptions \subseteq DOMAIN exceptions'
    /\ \A x \in DOMAIN exceptions : KeepsItsTerms(exceptions[x], exceptions'[x])
    /\ \A g \in DOMAIN grants : \E h \in DOMAIN grants' : grants'[h] = grants[g]

LEMMA OthersKept ==
    ASSUME NEW x, grants \in Seq(DOMAIN exceptions)
    PROVE  /\ Others(x) \in Seq(DOMAIN exceptions)
           /\ \A g \in DOMAIN grants :
                 grants[g] # x => \E h \in DOMAIN Others(x) : Others(x)[h] = grants[g]
<1> DEFINE D == DOMAIN exceptions
           n == Len(grants)
<1>0. n \in Nat /\ DOMAIN grants = 1..n /\ grants \in [1..n -> D]
  BY LenProperties
<1>1. CASE \A g \in DOMAIN grants : grants[g] # x
  BY <1>1 DEF Others
<1>2. CASE ~\A g \in DOMAIN grants : grants[g] # x
  <2> DEFINE p == CHOOSE g \in DOMAIN grants : grants[g] = x
             f == [g \in 1..(n - 1) |-> grants[IF g < p THEN g ELSE g + 1]]
  <2>1. Others(x) = f
    BY <1>2 DEF Others
  <2>2. p \in 1..n /\ grants[p] = x
    BY <1>0, <1>2
  <2> HIDE DEF p, D, n
  <2> DEFINE m == n - 1
  <2>3. m \in Nat /\ m = n - 1
    BY <1>0, <2>2
  <2>4. ASSUME NEW g \in 1..(n - 1) PROVE (IF g < p THEN g ELSE g + 1) \in 1..n
    BY <1>0, <2>2
  <2>5. f \in [1..(n - 1) -> D]
    BY <1>0, <2>4
  <2> HIDE DEF m
  <2>6. f \in Seq(D)
    <3>1. f \in [1..m -> D]
      BY <2>3, <2>5
    <3> HIDE DEF f
    <3> QED
      BY <2>3, <3>1, FunctionIsSeq
  <2>7. ASSUME NEW g \in DOMAIN grants, grants[g] # x
        PROVE  \E h \in DOMAIN f : f[h] = grants[g]
    <3>1. g \in 1..n /\ g # p
      BY <1>0, <2>2, <2>7
    <3>2. CASE g < p
      <4>1. g \in 1..(n - 1)
        BY <1>0, <2>2, <3>1, <3>2
      <4> QED
        BY <3>2, <4>1
    <3>3. CASE g > p
      <4>1. g - 1 \in 1..(n - 1) /\ ~(g - 1 < p) /\ (g - 1) + 1 = g
        BY <1>0, <2>2, <3>1, <3>3
      <4>2. f[g - 1] = grants[g]
        BY <4>1
      <4> QED
        BY <4>1, <4>2
    <3> QED
      BY <1>0, <2>2, <3>1, <3>2, <3>3
  <2> HIDE DEF f
  <2> QED
    BY <2>1, <2>6, <2>7 DEF D
<1> QED
  BY <1>1, <1>2

LEMMA MoreGrants ==
    ASSUME grants \in Seq(DOMAIN exceptions), exceptions \in Seq(ExceptionRow),
           NEW e \in ExceptionRow, exceptions' = Append(exceptions, e),
           grants' = grants \/ grants' = Append(grants, Len(exceptions) + 1)
    PROVE  GrantsKept
<1> DEFINE n == Len(exceptions) + 1
<1>1. /\ exceptions' \in Seq(ExceptionRow) /\ DOMAIN exceptions' = DOMAIN exceptions \cup {n}
      /\ \A x \in DOMAIN exceptions : exceptions'[x] = exceptions[x]
  BY Appended
<1>2. grants \in Seq(DOMAIN exceptions')
  <2>1. Len(grants) \in Nat /\ DOMAIN grants = 1..Len(grants)
        /\ grants \in [1..Len(grants) -> DOMAIN exceptions]
    BY LenProperties
  <2>2. grants \in [DOMAIN grants -> DOMAIN exceptions']
    BY <1>1, <2>1
  <2> QED
    BY <2>2, Mapped
<1> HIDE DEF n
<1>3. CASE grants' = grants
  BY <1>1, <1>2, <1>3 DEF GrantsKept, KeepsItsTerms
<1>4. CASE grants' = Append(grants, n)
  <2>1. n \in DOMAIN exceptions'
    BY <1>1
  <2>2. /\ Append(grants, n) \in Seq(DOMAIN exceptions')
        /\ DOMAIN grants \subseteq DOMAIN Append(grants, n)
        /\ \A g \in DOMAIN grants : Append(grants, n)[g] = grants[g]
    BY <1>2, <2>1, Appended
  <2>3. /\ grants' \in Seq(DOMAIN exceptions')
        /\ \A g \in DOMAIN grants : g \in DOMAIN grants' /\ grants'[g] = grants[g]
    BY <1>4, <2>2
  <2> QED
    BY <1>1, <2>3 DEF GrantsKept, KeepsItsTerms
<1> QED
  BY <1>3, <1>4 DEF n

LEMMA ExceptionsStep ==
    ASSUME TypeOK, [Next]_vars
    PROVE  GrantsKept
<1>0. /\ exceptions \in Seq(ExceptionRow) /\ grants \in Seq(DOMAIN exceptions)
      /\ \A x \in DOMAIN exceptions : exceptions[x] \in ExceptionRow
      /\ now \in Time
  BY Rows DEF TypeOK
<1>1. CASE exceptions' = exceptions /\ grants' = grants
  BY <1>0, <1>1 DEF GrantsKept, KeepsItsTerms
<1>2. ASSUME NEW r \in DOMAIN requests, Approve(r)
      PROVE  GrantsKept
  <2> DEFINE e == MadeFor(requests[r].ask, requests[r].date)
  <2>1. requests[r] \in RequestRow
    BY Rows DEF TypeOK
  <2>2. requests[r].date \in Days /\ requests[r].ask.end \in Time \cup {Never}
    BY <2>1 DEF RequestRow, Ask
  <2>3. DayStart(requests[r].date) \in Time /\ DayEnd(requests[r].date) - 1 \in 0..DayEnd(Day(Horizon))
    BY <2>2, DayBounds
  <2>4. e \in ExceptionRow
    BY <2>2, <2>3 DEF MadeFor, ExceptionRow, Rule
  <2>5. \/ exceptions' = exceptions /\ grants' = grants
        \/ exceptions' = Append(exceptions, e) /\ grants' = Append(grants, Len(exceptions) + 1)
    BY <1>2 DEF Approve
  <2> HIDE DEF e
  <2> QED
    BY <1>0, <1>1, <2>4, <2>5, MoreGrants
<1>3. ASSUME NEW w \in Windows, NEW approve \in BOOLEAN, RequestException(w, approve)
      PROVE  GrantsKept
  <2> DEFINE e == [rule |-> w.rule, from |-> w.from, until |-> w.until,
                   active |-> TRUE, revoked |-> Never, source |-> "REQUEST"]
  <2>1. w \in Window
    BY ShiftPolicyAssumption
  <2>2. w.until \in 0..DayEnd(Day(Horizon))
    <3>1. w.until \in Nat /\ w.until <= Horizon
      BY <2>1, Ticks DEF Window
    <3>2. Horizon \in Nat /\ Horizon < DayEnd(Day(Horizon)) /\ DayEnd(Day(Horizon)) \in Nat
      BY Ticks, DayType
    <3> QED
      BY <3>1, <3>2
  <2>3. e \in ExceptionRow
    BY <2>1, <2>2 DEF ExceptionRow, Window
  <2>4. exceptions' = Append(exceptions, e)
        /\ (grants' = grants \/ grants' = Append(grants, Len(exceptions) + 1))
    BY <1>3 DEF RequestException
  <2> HIDE DEF e
  <2> QED
    BY <1>0, <2>3, <2>4, MoreGrants
<1>4. ASSUME NEW x \in DOMAIN exceptions, NEW e \in ExceptionRow,
             exceptions' = [exceptions EXCEPT ![x] = e], KeepsItsTerms(exceptions[x], e)
      PROVE  /\ exceptions' \in Seq(ExceptionRow) /\ DOMAIN exceptions' = DOMAIN exceptions
             /\ \A y \in DOMAIN exceptions : KeepsItsTerms(exceptions[y], exceptions'[y])
  <2>1. /\ exceptions' \in Seq(ExceptionRow) /\ DOMAIN exceptions' = DOMAIN exceptions
        /\ exceptions'[x] = e
        /\ \A y \in DOMAIN exceptions \ {x} : exceptions'[y] = exceptions[y]
    BY <1>0, <1>4, Written
  <2> QED
    BY <1>4, <2>1 DEF KeepsItsTerms
<1>5. ASSUME NEW x \in DOMAIN exceptions, ApproveException(x)
      PROVE  GrantsKept
  <2> DEFINE e == [exceptions[x] EXCEPT !.active = TRUE]
  <2>1. e \in ExceptionRow /\ KeepsItsTerms(exceptions[x], e)
    BY <1>0 DEF ExceptionRow, KeepsItsTerms
  <2>2. exceptions' = [exceptions EXCEPT ![x] = e]
    BY <1>5 DEF ApproveException
  <2> HIDE DEF e
  <2>3. /\ exceptions' \in Seq(ExceptionRow) /\ DOMAIN exceptions' = DOMAIN exceptions
        /\ \A y \in DOMAIN exceptions : KeepsItsTerms(exceptions[y], exceptions'[y])
    BY <1>4, <2>1, <2>2
  <2>4. /\ Others(x) \in Seq(DOMAIN exceptions)
        /\ \A g \in DOMAIN grants :
              grants[g] # x => \E h \in DOMAIN Others(x) : Others(x)[h] = grants[g]
    BY <1>0, OthersKept
  <2>5. grants' = Append(Others(x), x)
    BY <1>5 DEF ApproveException
  <2> DEFINE o == Others(x)
  <2> HIDE DEF o
  <2>6. o \in Seq(DOMAIN exceptions) /\ grants' = Append(o, x)
    BY <2>4, <2>5 DEF o
  <2>7. /\ grants' \in Seq(DOMAIN exceptions)
        /\ \A g \in DOMAIN o : g \in DOMAIN grants' /\ grants'[g] = o[g]
        /\ \E g \in DOMAIN grants' : grants'[g] = x
    BY <2>6, Appended
  <2>8. ASSUME NEW g \in DOMAIN grants PROVE \E h \in DOMAIN grants' : grants'[h] = grants[g]
    <3>1. CASE grants[g] = x
      BY <2>7, <3>1
    <3>2. CASE grants[g] # x
      <4>1. PICK h \in DOMAIN o : o[h] = grants[g]
        BY <2>4, <3>2 DEF o
      <4> QED
        BY <2>7, <4>1
    <3> QED
      BY <3>1, <3>2
  <2> QED
    BY <2>3, <2>7, <2>8 DEF GrantsKept
<1>6. ASSUME NEW x \in DOMAIN exceptions, RevokeException(x)
      PROVE  GrantsKept
  <2> DEFINE e == [exceptions[x] EXCEPT !.active = FALSE, !.revoked = now]
  <2>1. exceptions' = [exceptions EXCEPT ![x] = e] /\ grants' = grants /\ exceptions[x].revoked = Never
    BY <1>6 DEF RevokeException
  <2>2. e \in ExceptionRow /\ KeepsItsTerms(exceptions[x], e)
    BY <1>0, <2>1 DEF ExceptionRow, KeepsItsTerms
  <2> HIDE DEF e
  <2> QED
    BY <1>0, <1>4, <2>1, <2>2 DEF GrantsKept
<1> QED
  BY <1>1, <1>2, <1>3, <1>5, <1>6, Writers DEF OneWriter, WritesExceptions

----------------------------------------------------------------------------
(* Leave                                                                    *)

Counts(l) == l.status \in {"PENDING", "APPROVED"}

LEMMA LeavesStep ==
    ASSUME leaves \in Seq(LeaveRow), LeavesDoNotOverlap, [Next]_vars
    PROVE  leaves' \in Seq(LeaveRow) /\ LeavesDoNotOverlap'
<1>0. \A l \in DOMAIN leaves : leaves[l] \in LeaveRow
  BY Rows
<1>1. \A l, m \in DOMAIN leaves :
          l # m /\ Counts(leaves[l]) /\ Counts(leaves[m]) => ~Overlap(leaves[l].span, leaves[m].span)
  BY DEF LeavesDoNotOverlap, Counts
<1>2. CASE leaves' = leaves
  BY <1>2 DEF LeavesDoNotOverlap
<1>3. ASSUME NEW s \in Spans, ApplyForLeave(s)
      PROVE  leaves' \in Seq(LeaveRow) /\ LeavesDoNotOverlap'
  <2> DEFINE x == [span |-> s, status |-> "PENDING"]
             n == Len(leaves) + 1
  <2>1. leaves' = Append(leaves, x) /\ x \in LeaveRow /\ x.span = s
    BY <1>3 DEF ApplyForLeave, LeaveRow
  <2>2. \A l \in DOMAIN leaves :
            Counts(leaves[l]) => ~Overlap(leaves[l].span, s) /\ ~Overlap(s, leaves[l].span)
    BY <1>3 DEF ApplyForLeave, Taken, Counts, Overlap
  <2> HIDE DEF x
  <2>3. /\ leaves' \in Seq(LeaveRow) /\ DOMAIN leaves' = DOMAIN leaves \cup {n}
        /\ \A l \in DOMAIN leaves : leaves'[l] = leaves[l]
        /\ leaves'[n] = x
    BY <2>1, Appended
  <2> HIDE DEF n
  <2>4. ASSUME NEW l \in DOMAIN leaves', NEW m \in DOMAIN leaves', l # m,
               Counts(leaves'[l]), Counts(leaves'[m])
        PROVE  ~Overlap(leaves'[l].span, leaves'[m].span)
    <3>1. CASE l \in DOMAIN leaves /\ m \in DOMAIN leaves
      BY <1>1, <2>3, <2>4, <3>1
    <3>2. CASE l \in DOMAIN leaves /\ m = n
      BY <2>1, <2>2, <2>3, <2>4, <3>2
    <3>3. CASE l = n /\ m \in DOMAIN leaves
      BY <2>1, <2>2, <2>3, <2>4, <3>3
    <3> QED
      BY <2>3, <2>4, <3>1, <3>2, <3>3
  <2> QED
    BY <2>3, <2>4 DEF LeavesDoNotOverlap, Counts
<1>4. ASSUME NEW k \in DOMAIN leaves, NEW st \in {"APPROVED", "REJECTED", "CANCELLED"},
             DecideLeave(k, st)
      PROVE  leaves' \in Seq(LeaveRow) /\ LeavesDoNotOverlap'
  <2> DEFINE x == [leaves[k] EXCEPT !.status = st]
  <2>1. leaves' = [leaves EXCEPT ![k] = x] /\ Counts(leaves[k])
    BY <1>4 DEF DecideLeave, Counts
  <2>2. x \in LeaveRow /\ x.span = leaves[k].span
    BY <1>0 DEF LeaveRow
  <2> HIDE DEF x
  <2>3. /\ leaves' \in Seq(LeaveRow) /\ DOMAIN leaves' = DOMAIN leaves
        /\ leaves'[k] = x
        /\ \A l \in DOMAIN leaves \ {k} : leaves'[l] = leaves[l]
    BY <2>1, <2>2, Written
  <2>4. ASSUME NEW l \in DOMAIN leaves
        PROVE  leaves'[l].span = leaves[l].span /\ (Counts(leaves'[l]) => Counts(leaves[l]))
    BY <2>1, <2>2, <2>3
  <2> QED
    BY <1>1, <2>3, <2>4 DEF LeavesDoNotOverlap, Counts
<1> QED
  BY <1>2, <1>3, <1>4, Writers DEF OneWriter, WritesLeaves

----------------------------------------------------------------------------
(* Every step                                                               *)

LEMMA EndingStep ==
    ASSUME TypeOK, [Next]_vars
    PROVE  ending' = <<>> \/ ending' \in (DOMAIN sessions') \X Time
<1>1. DOMAIN sessions \subseteq DOMAIN sessions'
  BY SessionsStep DEF SessionsKept
<1>2. CASE ending' = ending
  BY <1>1, <1>2 DEF TypeOK
<1>3. ASSUME NEW i \in DOMAIN sessions, NEW inside \in BOOLEAN, AskEnd(i, inside)
      PROVE  ending' = <<>> \/ ending' \in (DOMAIN sessions') \X Time
  BY <1>1, <1>3 DEF AskEnd, TypeOK
<1>4. CASE End
  BY <1>4 DEF End
<1> QED
  BY <1>2, <1>3, <1>4, Writers DEF OneWriter, WritesEnding

DaysInv == TypeOK /\ RowsInv

LEMMA DaysInit ==
    ASSUME Init
    PROVE  DaysInv /\ LeavesDoNotOverlap
<1>0. 0 \in Time /\ 0 \in Days
  <2>1. 0 \in Time
    BY Ticks DEF Time
  <2>2. Day(0) \in Days
    BY <2>1, DayType
  <2>3. Day(0) = 0
    BY ShiftPolicyAssumption DEF Day
  <2> QED
    BY <2>1, <2>2, <2>3
<1>1. requests \in Seq(RequestRow) /\ RowsInv
  <2>1. CASE requests = <<>>
    BY <2>1 DEF RowsInv
  <2>2. ASSUME NEW a \in EarlierAsks, requests = <<Row(a, 0, 0, "PENDING", 0)>>
        PROVE  requests \in Seq(RequestRow) /\ RowsInv
    <3>1. Row(a, 0, 0, "PENDING", 0) \in RequestRow
      BY <1>0, ShiftPolicyAssumption DEF Row, RequestRow
    <3>2. requests \in Seq(RequestRow) /\ Len(requests) = 1 /\ DOMAIN requests = {1}
          /\ requests[1] = Row(a, 0, 0, "PENDING", 0)
      BY <2>2, <3>1
    <3> QED
      BY <3>2 DEF RowsInv, Names, Row
  <2> QED
    BY <2>1, <2>2 DEF Init
<1>2. attendance \in [Days -> Check]
  BY DEF Init, Check
<1>3. /\ sessions = <<>> /\ exceptions = <<>> /\ grants = <<>> /\ leaves = <<>>
      /\ now = 0 /\ app \in BOOLEAN /\ holidays = {} /\ ending = <<>>
  BY DEF Init
<1>4. /\ sessions \in Seq(Session) /\ exceptions \in Seq(ExceptionRow)
      /\ grants \in Seq(DOMAIN exceptions) /\ leaves \in Seq(LeaveRow)
  BY <1>3
<1>5. TypeOK
  BY <1>0, <1>1, <1>2, <1>3, <1>4 DEF TypeOK
<1>6. LeavesDoNotOverlap
  BY <1>3 DEF LeavesDoNotOverlap
<1> QED
  BY <1>1, <1>5, <1>6 DEF DaysInv

LEMMA DaysStep ==
    ASSUME DaysInv, LeavesDoNotOverlap, [Next]_vars
    PROVE  DaysInv' /\ LeavesDoNotOverlap'
<1>0. TypeOK /\ RowsInv
  BY DEF DaysInv
<1>1. /\ sessions' \in Seq(Session)
      /\ exceptions' \in Seq(ExceptionRow) /\ grants' \in Seq(DOMAIN exceptions')
  BY <1>0, SessionsStep, ExceptionsStep DEF SessionsKept, GrantsKept
<1>2. requests' \in Seq(RequestRow) /\ RowsInv'
  BY <1>0, RequestsStep DEF RequestsKept, RowsInv
<1>3. attendance' \in [Days -> Check]
  BY <1>0, AttendanceStep
<1>4. leaves' \in Seq(LeaveRow) /\ LeavesDoNotOverlap'
  BY <1>0, LeavesStep DEF TypeOK
<1>5. ending' = <<>> \/ ending' \in (DOMAIN sessions') \X Time
  BY <1>0, EndingStep
<1>6. now' \in Time
  <2>1. CASE now' = now
    BY <1>0, <2>1 DEF TypeOK
  <2>2. CASE Tick
    BY <1>0, <2>2, Ticks DEF TypeOK, Tick, Time
  <2> QED
    BY <2>1, <2>2, Writers DEF OneWriter
<1>7. holidays' \subseteq Days /\ app' \in BOOLEAN
  <2>1. ASSUME NEW d \in Days, SetHoliday(d) PROVE holidays' \subseteq Days
    BY <1>0, <2>1 DEF SetHoliday, TypeOK
  <2> QED
    BY <1>0, <2>1, Writers DEF OneWriter, TypeOK
<1> QED
  BY <1>1, <1>2, <1>3, <1>4, <1>5, <1>6, <1>7 DEF DaysInv, TypeOK

LEMMA DaysAlways == Spec => [](DaysInv /\ LeavesDoNotOverlap)
BY DaysInit, DaysStep, PTL DEF Spec

\* The variables keep their types, however the clock, the shifts and the reviews mix.
THEOREM TypeCorrect == Spec => []TypeOK
<1>1. DaysInv => TypeOK
  BY DEF DaysInv
<1> QED
  BY <1>1, DaysAlways, PTL

\* A request is only ever bound to a shift of the day it is about.
THEOREM RequestsNameTheirDay == Spec => []RequestNamesItsDay
<1>1. DaysInv => RequestNamesItsDay
  BY DEF DaysInv, RowsInv, Names, RequestNamesItsDay
<1> QED
  BY <1>1, DaysAlways, PTL

\* Leave that waits or is approved never overlaps other such leave.
THEOREM LeaveIsTakenOnce == Spec => []LeavesDoNotOverlap
BY DaysAlways, PTL

----------------------------------------------------------------------------
(* Early ends                                                               *)

\* An open session has no end; one its employee ended was closed when it ended.
Shape(s) ==
    /\ IsOpen(s) => s.ended = Never /\ s.childEnd = Never /\ s.closure = "NONE"
    /\ s.closure = "MANUAL" => s.ended \in Time /\ s.childEnd = s.ended

\* What an end of session i at t, after w ticks of work, may stand on.
ByRequest(q, i, t, w) ==
    /\ q.status = "APPROVED" /\ q.ask.type = "EARLY_SHIFT_END" /\ q.session = i
    /\ q.ask.end # Never => q.ask.end <= t
    /\ q.ask.hours # Never => q.ask.hours <= w

ByException(e, t) ==
    /\ e.rule = "MIN_DURATION" /\ e.source = "REQUEST"
    /\ e.from <= t /\ t <= e.until /\ t <= e.revoked

Permitted(i, t, w, rs, es, gs) ==
    \/ \E r \in DOMAIN rs : ByRequest(rs[r], i, t, w)
    \/ \E g \in DOMAIN gs : ByException(es[gs[g]], t)

Deserved(s, i, t, rs, es, gs) ==
    \/ Cardinality(Unbroken(s, t)) >= MinWork
    \/ Permitted(i, t, Cardinality(Unbroken(s, t)), rs, es, gs)

\* The shift end that passed the check, and every end it led to, is deserved: what it
\* stood on when it was checked still shows.
EarlyInv ==
    /\ \A i \in DOMAIN sessions : Shape(sessions[i])
    /\ \A i \in DOMAIN sessions :
          sessions[i].closure = "MANUAL" =>
              /\ sessions[i].ended <= now
              /\ Deserved(sessions[i], i, sessions[i].ended, requests, exceptions, grants)
    /\ ending # <<>> =>
          \A i \in {ending[1]}, t \in {ending[2]} :
              IsOpen(sessions[i]) => t <= now /\ Deserved(sessions[i], i, t, requests, exceptions, grants)

\* The work of an open session, and of one its employee ended.
LEMMA OpenWork ==
    ASSUME NEW s \in Session, Shape(s), IsOpen(s), NEW t \in Time
    PROVE  NetWork(s, t) = Cardinality(Unbroken(s, t))
<1>1. s.ended = Never /\ s.childEnd = Never
  BY DEF Shape
<1>2. \A x \in Unbroken(s, t) : x < Never
  BY Ticks DEF Unbroken
<1>3. {x \in Unbroken(s, t) : x < s.childEnd} = Unbroken(s, t)
  BY <1>1, <1>2
<1> QED
  BY <1>1, <1>3 DEF NetWork, WorkTicks

LEMMA EndedWork ==
    ASSUME NEW s \in Session, Shape(s), s.closure = "MANUAL", NEW t
    PROVE  NetWork(s, t) = Cardinality(Unbroken(s, s.ended))
<1>1. s.ended \in Time /\ s.childEnd = s.ended /\ s.ended # Never
  <2>1. s.ended \in Time /\ s.childEnd = s.ended
    BY DEF Shape
  <2>2. s.ended \in Nat /\ s.ended < Never /\ Never \in Nat
    BY <2>1, Ticks
  <2> QED
    BY <2>1, <2>2
<1>2. \A x \in Unbroken(s, s.ended) : x < s.ended
  BY DEF Unbroken
<1>3. {x \in Unbroken(s, s.ended) : x < s.childEnd} = Unbroken(s, s.ended)
  BY <1>1, <1>2
<1> QED
  BY <1>1, <1>3 DEF NetWork, WorkTicks

\* A break that begins or ends at u does not change the work before u.
LEMMA BreakBegins ==
    ASSUME NEW s \in Session, NEW p \in Session, NEW u \in Time, NEW t \in Time, t <= u,
           p.started = s.started, p.breaks = s.breaks \cup {<<u, Never>>}
    PROVE  Unbroken(p, t) = Unbroken(s, t)
<1>1. ASSUME NEW x \in Time, x < t
      PROVE  (\A b \in p.breaks : ~(b[1] <= x /\ x < b[2])) <=> (\A b \in s.breaks : ~(b[1] <= x /\ x < b[2]))
  <2>1. x \in Nat /\ t \in Nat /\ u \in Nat
    BY Ticks
  <2>2. ~(<<u, Never>>[1] <= x /\ x < <<u, Never>>[2])
    BY <1>1, <2>1
  <2> QED
    BY <2>2
<1> QED
  BY <1>1 DEF Unbroken

LEMMA BreakEnds ==
    ASSUME NEW s \in Session, NEW p \in Session, NEW u \in Time, NEW t \in Time, t <= u,
           p.started = s.started,
           p.breaks = {IF b[2] = Never THEN <<b[1], u>> ELSE b : b \in s.breaks}
    PROVE  Unbroken(p, t) = Unbroken(s, t)
<1> DEFINE Ends(b) == IF b[2] = Never THEN <<b[1], u>> ELSE b
           Covered(b, x) == b[1] <= x /\ x < b[2]
<1>0. s.breaks \subseteq Time \X (Time \cup {Never})
  BY DEF Session
<1>1. ASSUME NEW x \in Time, x < t, NEW b \in s.breaks
      PROVE  Covered(Ends(b), x) <=> Covered(b, x)
  <2>1. x \in Nat /\ t \in Nat /\ u \in Nat /\ x < u /\ x < Never
    BY <1>1, Ticks
  <2>2. CASE b[2] = Never
    <3>1. Ends(b) = <<b[1], u>>
      BY <2>2
    <3> QED
      BY <2>1, <2>2, <3>1
  <2>3. CASE b[2] # Never
    BY <2>3
  <2> QED
    BY <2>2, <2>3
<1>2. p.breaks = {Ends(b) : b \in s.breaks}
  OBVIOUS
<1> HIDE DEF Ends, Covered
<1>3. ASSUME NEW x \in Time, x < t
      PROVE  (\A b \in p.breaks : ~Covered(b, x)) <=> (\A b \in s.breaks : ~Covered(b, x))
  BY <1>1, <1>2, <1>3
<1> QED
  BY <1>3 DEF Unbroken, Covered

\* What an end stood on stays.
LEMMA PermitStays ==
    ASSUME TypeOK, RequestsKept, GrantsKept,
           NEW i \in DOMAIN sessions, NEW t \in Time, t <= now, NEW w,
           Permitted(i, t, w, requests, exceptions, grants)
    PROVE  Permitted(i, t, w, requests', exceptions', grants')
<1>1. i # 0
  <2>1. DOMAIN sessions = 1..Len(sessions)
    BY Rows DEF TypeOK
  <2> QED
    BY <2>1
<1>2. ASSUME NEW r \in DOMAIN requests, ByRequest(requests[r], i, t, w)
      PROVE  ByRequest(requests'[r], i, t, w) /\ r \in DOMAIN requests'
  BY <1>1, <1>2 DEF RequestsKept, KeepsItsWord, ByRequest
<1>3. ASSUME NEW g \in DOMAIN grants, ByException(exceptions[grants[g]], t)
      PROVE  \E h \in DOMAIN grants' : ByException(exceptions'[grants'[h]], t)
  <2>1. grants[g] \in DOMAIN exceptions
    BY Rows DEF TypeOK
  <2>2. KeepsItsTerms(exceptions[grants[g]], exceptions'[grants[g]])
    BY <2>1 DEF GrantsKept
  <2>3. ByException(exceptions'[grants[g]], t)
    BY <1>3, <2>2 DEF KeepsItsTerms, ByException
  <2>4. PICK h \in DOMAIN grants' : grants'[h] = grants[g]
    BY DEF GrantsKept
  <2> QED
    BY <2>3, <2>4
<1> QED
  BY <1>2, <1>3 DEF Permitted

LEMMA DeservedStays ==
    ASSUME TypeOK, RequestsKept, GrantsKept,
           NEW i \in DOMAIN sessions, NEW t \in Time, t <= now, NEW s, NEW p,
           Unbroken(p, t) = Unbroken(s, t),
           Deserved(s, i, t, requests, exceptions, grants)
    PROVE  Deserved(p, i, t, requests', exceptions', grants')
BY PermitStays DEF Deserved

\* How a step may move session i.
Moved(i) ==
    \/ sessions'[i] = sessions[i]
    \/ /\ IsOpen(sessions[i]) /\ IsOpen(sessions'[i])
       /\ \A t \in Time : t <= now => Unbroken(sessions'[i], t) = Unbroken(sessions[i], t)
    \/ ~IsOpen(sessions'[i]) /\ sessions'[i].closure # "MANUAL"
    \/ /\ End /\ ending # <<>> /\ ending[1] = i /\ IsOpen(sessions[i])
       /\ sessions'[i] = Closed(sessions[i], ending[2], "COMPLETED", "MANUAL")

AllMoved ==
    /\ \A i \in DOMAIN sessions : Moved(i)
    /\ \A i \in DOMAIN sessions' : Shape(sessions'[i])
    /\ \A i \in DOMAIN sessions' \ DOMAIN sessions : sessions'[i].closure # "MANUAL"

LEMMA OneMoved ==
    ASSUME sessions \in Seq(Session), \A j \in DOMAIN sessions : Shape(sessions[j]),
           NEW i \in DOMAIN sessions, NEW x \in Session, Shape(x),
           sessions' = [sessions EXCEPT ![i] = x],
           sessions'[i] = x => Moved(i)
    PROVE  AllMoved
<1>1. /\ DOMAIN sessions' = DOMAIN sessions
      /\ sessions'[i] = x
      /\ \A j \in DOMAIN sessions \ {i} : sessions'[j] = sessions[j]
  BY Written
<1>2. ASSUME NEW j \in DOMAIN sessions PROVE Moved(j) /\ Shape(sessions'[j])
  <2>1. CASE j = i
    BY <1>1, <2>1
  <2>2. CASE j # i
    BY <1>1, <2>2 DEF Moved
  <2> QED
    BY <2>1, <2>2
<1> QED
  BY <1>1, <1>2 DEF AllMoved

LEMMA ClosedShape ==
    ASSUME NEW s \in Session, NEW t \in Time, NEW status \in {"COMPLETED", "AUTO_CLOSED"},
           NEW closure \in {"MANUAL", "ADMIN_OVERRIDE", "MIDNIGHT_CUTOFF"}
    PROVE  LET p == Closed(s, t, status, closure)
           IN Shape(p) /\ ~IsOpen(p) /\ p.closure = closure
BY DEF Closed, Session, Shape, IsOpen

LEMMA MovesStep ==
    ASSUME TypeOK, \A i \in DOMAIN sessions : Shape(sessions[i]), [Next]_vars
    PROVE  AllMoved
<1>0. /\ sessions \in Seq(Session) /\ now \in Time
      /\ \A i \in DOMAIN sessions : sessions[i] \in Session /\ Shape(sessions[i])
  BY Rows DEF TypeOK
<1>1. CASE sessions' = sessions
  BY <1>0, <1>1 DEF AllMoved, Moved
<1>2. ASSUME NEW inside \in BOOLEAN, Start(inside)
      PROVE  AllMoved
  <2> DEFINE x == [date |-> Day(now), started |-> now, ended |-> Never, status |-> "ACTIVE",
                   closure |-> "NONE", breaks |-> {}, childEnd |-> Never]
  <2>1. x \in Session /\ Shape(x) /\ x.closure # "MANUAL"
    BY <1>0, DayType DEF Session, Shape
  <2>2. sessions' = Append(sessions, x)
    BY <1>2 DEF Start
  <2> HIDE DEF x
  <2>3. /\ DOMAIN sessions' = DOMAIN sessions \cup {Len(sessions) + 1}
        /\ \A i \in DOMAIN sessions : sessions'[i] = sessions[i]
        /\ sessions'[Len(sessions) + 1] = x
    BY <1>0, <2>1, <2>2, Appended
  <2> QED
    BY <1>0, <2>1, <2>3 DEF AllMoved, Moved
<1>3. ASSUME NEW i \in DOMAIN sessions, Pause(i)
      PROVE  AllMoved
  <2> DEFINE B == sessions[i].breaks \cup {<<now, Never>>}
             x == [sessions[i] EXCEPT !.status = "PAUSED", !.breaks = B]
  <2>1. B \in SUBSET (Time \X (Time \cup {Never}))
    BY <1>0 DEF Session
  <2>2. sessions' = [sessions EXCEPT ![i] = x] /\ IsOpen(sessions[i])
    BY <1>3 DEF Pause, IsOpen
  <2>3. x \in Session
    BY <1>0, <2>1, BrokenType
  <2>4. Shape(x) /\ IsOpen(x) /\ x.started = sessions[i].started /\ x.breaks = B
    BY <1>0, <2>2 DEF Session, Shape, IsOpen
  <2> HIDE DEF x
  <2>5. \A t \in Time : t <= now => Unbroken(x, t) = Unbroken(sessions[i], t)
    BY <1>0, <2>3, <2>4, BreakBegins
  <2> QED
    BY <1>0, <2>2, <2>3, <2>4, <2>5, OneMoved DEF Moved
<1>4. ASSUME NEW i \in DOMAIN sessions, NEW inside \in BOOLEAN, Resume(i, inside)
      PROVE  AllMoved
  <2> DEFINE B == {IF b[2] = Never THEN <<b[1], now>> ELSE b : b \in sessions[i].breaks}
             x == [sessions[i] EXCEPT !.status = "ACTIVE", !.breaks = B]
  <2>1. B \in SUBSET (Time \X (Time \cup {Never}))
    BY <1>0 DEF Session
  <2>2. sessions' = [sessions EXCEPT ![i] = x] /\ IsOpen(sessions[i])
    BY <1>4 DEF Resume, IsOpen
  <2>3. x \in Session
    BY <1>0, <2>1, BrokenType
  <2>4. Shape(x) /\ IsOpen(x) /\ x.started = sessions[i].started /\ x.breaks = B
    BY <1>0, <2>2 DEF Session, Shape, IsOpen
  <2> HIDE DEF x
  <2>5. \A t \in Time : t <= now => Unbroken(x, t) = Unbroken(sessions[i], t)
    BY <1>0, <2>3, <2>4, BreakEnds
  <2> QED
    BY <1>0, <2>2, <2>3, <2>4, <2>5, OneMoved DEF Moved
<1>5. ASSUME NEW i \in DOMAIN sessions, NEW t \in Time,
             NEW status \in {"COMPLETED", "AUTO_CLOSED"}, NEW closure \in {"ADMIN_OVERRIDE", "MIDNIGHT_CUTOFF"},
             sessions' = [sessions EXCEPT ![i] = Closed(@, t, status, closure)]
      PROVE  AllMoved
  <2> DEFINE x == Closed(sessions[i], t, status, closure)
  <2>1. x \in Session /\ Shape(x) /\ ~IsOpen(x) /\ x.closure # "MANUAL"
    BY <1>0, ClosedType, ClosedShape
  <2>2. sessions' = [sessions EXCEPT ![i] = x]
    BY <1>5
  <2> HIDE DEF x
  <2> QED
    BY <1>0, <2>1, <2>2, OneMoved DEF Moved
<1>6. ASSUME NEW i \in DOMAIN sessions, AdminClose(i)
      PROVE  AllMoved
  BY <1>0, <1>5, <1>6 DEF AdminClose
<1>7. ASSUME NEW i \in DOMAIN sessions, MidnightClose(i)
      PROVE  AllMoved
  <2>1. DayEnd(sessions[i].date) <= now /\ sessions[i].date \in Days
    BY <1>0, <1>7 DEF MidnightClose, Session
  <2>2. DayEnd(sessions[i].date) \in Nat /\ now \in Nat /\ now <= Horizon /\ Horizon \in Nat
    BY <1>0, <2>1, DayBounds, Ticks
  <2>3. DayEnd(sessions[i].date) <= Horizon
    BY <2>1, <2>2
  <2>4. DayEnd(sessions[i].date) \in Time
    BY <2>2, <2>3, Ticks
  <2> QED
    BY <1>5, <1>7, <2>4 DEF MidnightClose
<1>8. CASE End
  <2>1. ending[1] \in DOMAIN sessions /\ ending[2] \in Time /\ ending # <<>>
    BY <1>8 DEF End, TypeOK
  <2> DEFINE i == ending[1]
             x == Closed(sessions[i], ending[2], "COMPLETED", "MANUAL")
  <2>2. \/ sessions' = sessions
        \/ sessions' = [sessions EXCEPT ![i] = x] /\ IsOpen(sessions[i])
    BY <1>8 DEF End, MayClose
  <2>3. x \in Session /\ Shape(x)
    BY <1>0, <2>1, ClosedType, ClosedShape
  <2>4. sessions'[i] = x /\ IsOpen(sessions[i]) => Moved(i)
    BY <1>8, <2>1 DEF Moved
  <2> HIDE DEF x
  <2>5. CASE sessions' = [sessions EXCEPT ![i] = x] /\ IsOpen(sessions[i])
    BY <1>0, <2>1, <2>3, <2>4, <2>5, OneMoved
  <2> QED
    BY <1>1, <2>2, <2>5
<1>9. ASSUME NEW r \in DOMAIN requests, Approve(r)
      PROVE  AllMoved
  <2>0. requests[r] \in RequestRow
    BY Rows DEF TypeOK
  <2>1. requests[r].ask.end \in Time \cup {Never}
    BY <2>0 DEF RequestRow, Ask
  <2>2. PICK i : sessions' = sessions \/ sessions' = CheckedOut(i, requests[r].ask.end)
    BY <1>9 DEF Approve
  <2>3. CASE sessions' = [sessions EXCEPT ![i].ended = requests[r].ask.end, ![i].status = "COMPLETED",
                                          ![i].closure = "ADMIN_OVERRIDE"]
             /\ requests[r].ask.end # Never
    <3>1. CASE i \in DOMAIN sessions
      <4> DEFINE x == [sessions[i] EXCEPT !.ended = requests[r].ask.end, !.status = "COMPLETED",
                                          !.closure = "ADMIN_OVERRIDE"]
      <4>1. x \in Session /\ Shape(x) /\ ~IsOpen(x) /\ x.closure # "MANUAL"
        BY <1>0, <2>1, <2>3, <3>1 DEF Session, Shape, IsOpen
      <4>2. sessions' = [sessions EXCEPT ![i] = x]
        BY <2>3, <3>1
      <4> HIDE DEF x
      <4> QED
        BY <1>0, <3>1, <4>1, <4>2, OneMoved DEF Moved
    <3>2. CASE i \notin DOMAIN sessions
      <4>1. sessions \in [DOMAIN sessions -> Session]
        BY <1>0, Rows
      <4>2. sessions' = sessions
        BY <2>3, <3>2, <4>1
      <4> QED
        BY <1>1, <4>2
    <3> QED
      BY <3>1, <3>2
  <2> QED
    BY <1>1, <2>2, <2>3 DEF CheckedOut
<1> QED
  BY <1>1, <1>2, <1>3, <1>4, <1>6, <1>7, <1>8, <1>9, Writers DEF OneWriter, WritesSessions

\* The check of an end answers for what the end stands on.
LEMMA CheckedEnd ==
    ASSUME DaysInv, EarlyInv, NEW i \in DOMAIN sessions, NEW inside \in BOOLEAN,
           AskEnd(i, inside), RequestsKept
    PROVE  \/ ending' = <<>>
           \/ ending' = <<i, now>> /\ Deserved(sessions[i], i, now, requests', exceptions, grants)
<1> DEFINE s == sessions[i]
           short == NetWork(s, now) < MinWork
           c == IF short THEN Covers(i) ELSE 0
           w == Cardinality(Unbroken(s, now))
<1>0. /\ s \in Session /\ Shape(s) /\ IsOpen(s) /\ now \in Time
      /\ NetWork(s, now) = w
  <2>1. s \in Session /\ now \in Time
    BY Rows DEF DaysInv, TypeOK
  <2>2. Shape(s) /\ IsOpen(s)
    BY DEF EarlyInv, AskEnd
  <2> QED
    BY <2>1, <2>2, OpenWork
<1>1. /\ requests' = IF c = 0 THEN requests ELSE [requests EXCEPT ![c].session = i]
      /\ ending' = IF LongEnough(i, c) THEN <<i, now>> ELSE <<>>
  BY DEF AskEnd
<1>2. c # 0 => c = Covers(i)
  OBVIOUS
<1> HIDE DEF c, short
<1>3. ASSUME w >= MinWork
      PROVE  Deserved(s, i, now, requests', exceptions, grants)
  BY <1>3 DEF Deserved
<1>4. ASSUME c # 0, requests[c].ask.end # Never => requests[c].ask.end <= now,
             requests[c].ask.hours # Never => requests[c].ask.hours <= w
      PROVE  Deserved(s, i, now, requests', exceptions, grants)
  <2>1. /\ c \in DOMAIN requests /\ requests[c].status = "APPROVED"
        /\ requests[c].ask.type = "EARLY_SHIFT_END"
    BY <1>2, <1>4, CoversOne DEF Approved, DaysInv
  <2>2. requests[c] \in RequestRow /\ requests \in [DOMAIN requests -> RequestRow]
    BY <2>1, Rows DEF DaysInv, TypeOK
  <2>3. DOMAIN requests' = DOMAIN requests /\ requests'[c] = [requests[c] EXCEPT !.session = i]
    BY <1>1, <1>4, <2>1, <2>2
  <2>4. ByRequest(requests'[c], i, now, w)
    BY <1>4, <2>1, <2>2, <2>3 DEF ByRequest, RequestRow
  <2> QED
    BY <2>1, <2>3, <2>4 DEF Deserved, Permitted
<1>5. ASSUME Standalone(now)
      PROVE  Deserved(s, i, now, requests', exceptions, grants)
  <2> DEFINE U == Usable("MIN_DURATION", now)
  <2>0. Len(grants) \in Nat /\ DOMAIN grants = 1..Len(grants)
        /\ \A g \in DOMAIN grants : grants[g] \in DOMAIN exceptions
        /\ \A x \in DOMAIN exceptions : exceptions[x] \in ExceptionRow
    BY Rows DEF DaysInv, TypeOK
  <2>1. U \subseteq Nat /\ U # {} /\ U \subseteq DOMAIN grants /\ \A g \in U : g <= Len(grants)
    BY <1>5, <2>0 DEF Standalone, Usable
  <2>2. \A g \in U : LET e == exceptions[grants[g]]
                     IN /\ e.rule = "MIN_DURATION" /\ e.revoked = Never
                        /\ e.from <= now /\ now <= e.until
    BY DEF Usable
  <2>3. /\ LastUsable("MIN_DURATION", now) = exceptions[grants[Max(U)]]
        /\ LastUsable("MIN_DURATION", now).source # "REVIEW"
    BY <1>5 DEF LastUsable, Standalone
  <2> HIDE DEF U
  <2>4. PICK g \in U : g = Max(U)
    BY <2>0, <2>1, LastOne
  <2>5. exceptions[grants[g]].source # "REVIEW"
    BY <2>3, <2>4
  <2>6. exceptions[grants[g]] \in ExceptionRow
    BY <2>0, <2>1
  <2>7. now <= Never
    BY <1>0, Ticks
  <2>8. ByException(exceptions[grants[g]], now)
    BY <2>2, <2>5, <2>6, <2>7 DEF ByException, ExceptionRow
  <2> QED
    BY <2>1, <2>8 DEF Deserved, Permitted
<1>6. CASE LongEnough(i, c)
  <2> HIDE DEF w
  <2>0. \/ w >= MinWork
        \/ /\ c # 0
           /\ requests[c].ask.end # Never => requests[c].ask.end <= now
           /\ requests[c].ask.hours # Never => requests[c].ask.hours <= w
        \/ Standalone(now)
    BY <1>0, <1>6 DEF LongEnough
  <2>1. Deserved(s, i, now, requests', exceptions, grants)
    BY <1>3, <1>4, <1>5, <2>0
  <2> QED
    BY <1>1, <1>6, <2>1
<1> QED
  BY <1>1, <1>6

LEMMA EarlyStep ==
    ASSUME DaysInv, EarlyInv, [Next]_vars
    PROVE  EarlyInv'
<1>0. /\ TypeOK /\ RowsInv
      /\ \A i \in DOMAIN sessions : sessions[i] \in Session /\ Shape(sessions[i])
      /\ now \in Time
  BY Rows DEF DaysInv, EarlyInv, TypeOK
<1>1. SessionsKept /\ RequestsKept /\ GrantsKept /\ AllMoved
  BY <1>0, SessionsStep, RequestsStep, ExceptionsStep, MovesStep
<1>2. \A u \in Time : u <= now => u <= now'
  <2>1. CASE Tick
    BY <1>0, <2>1, Ticks DEF Tick
  <2> QED
    BY <2>1, Writers DEF OneWriter
<1>3. ASSUME NEW i \in DOMAIN sessions, NEW t \in Time, ending # <<>>, ending[1] = i, ending[2] = t,
             IsOpen(sessions[i])
      PROVE  t <= now /\ Deserved(sessions[i], i, t, requests, exceptions, grants)
  BY <1>3 DEF EarlyInv
<1>4. ASSUME NEW i \in DOMAIN sessions', sessions'[i].closure = "MANUAL"
      PROVE  /\ sessions'[i].ended <= now'
             /\ Deserved(sessions'[i], i, sessions'[i].ended, requests', exceptions', grants')
  <2>1. i \in DOMAIN sessions /\ Moved(i) /\ Shape(sessions'[i])
    BY <1>1, <1>4 DEF AllMoved
  <2>2. ~IsOpen(sessions'[i])
    BY <1>4, <2>1 DEF Shape
  <2>3. CASE sessions'[i] = sessions[i]
    <3>1. /\ sessions[i].ended \in Time /\ sessions[i].ended <= now
          /\ Deserved(sessions[i], i, sessions[i].ended, requests, exceptions, grants)
      BY <1>4, <2>1, <2>3 DEF EarlyInv, Shape
    <3>2. PICK t \in Time : t = sessions[i].ended
      BY <3>1
    <3>3. t <= now /\ t <= now' /\ Deserved(sessions[i], i, t, requests, exceptions, grants)
      BY <1>2, <3>1, <3>2
    <3>4. Deserved(sessions[i], i, t, requests', exceptions', grants')
      BY <1>0, <1>1, <2>1, <3>3, DeservedStays
    <3> QED
      BY <2>3, <3>2, <3>3, <3>4
  <2>4. CASE End /\ ending # <<>> /\ ending[1] = i /\ IsOpen(sessions[i])
             /\ sessions'[i] = Closed(sessions[i], ending[2], "COMPLETED", "MANUAL")
    <3>1. ending[2] \in Time
      BY <1>0, <2>4 DEF TypeOK
    <3>2. PICK t \in Time : t = ending[2]
      BY <3>1
    <3>3. t <= now /\ Deserved(sessions[i], i, t, requests, exceptions, grants)
      BY <1>3, <2>1, <2>4, <3>2
    <3> DEFINE p == Closed(sessions[i], t, "COMPLETED", "MANUAL")
    <3>4. /\ p \in Session /\ p.started = sessions[i].started /\ p.ended = t
          /\ p.breaks = {IF b[2] = Never THEN <<b[1], t>> ELSE b : b \in sessions[i].breaks}
      <4>1. p \in Session /\ KeepsItsDay(sessions[i], p)
        BY <1>0, <2>1, ClosedType
      <4>2. sessions[i] \in Session
        BY <1>0, <2>1
      <4>3. p.ended = t
            /\ p.breaks = {IF b[2] = Never THEN <<b[1], t>> ELSE b : b \in sessions[i].breaks}
        BY <4>2 DEF Closed, Session
      <4> QED
        BY <4>1, <4>3 DEF KeepsItsDay
    <3>5. p = sessions'[i]
      BY <2>4, <3>2
    <3> HIDE DEF p
    <3>6. t <= t
      BY Ticks
    <3>7. Unbroken(p, t) = Unbroken(sessions[i], t)
      BY <1>0, <2>1, <3>4, <3>6, BreakEnds
    <3>8. Deserved(p, i, t, requests', exceptions', grants')
      BY <1>0, <1>1, <2>1, <3>3, <3>7, DeservedStays
    <3> QED
      BY <1>2, <3>3, <3>4, <3>5, <3>8
  <2> QED
    BY <1>4, <2>1, <2>2, <2>3, <2>4 DEF Moved
<1>5. ASSUME ending' # <<>>
      PROVE  \A i \in {ending'[1]}, t \in {ending'[2]} :
                IsOpen(sessions'[i]) => /\ t <= now'
                                        /\ Deserved(sessions'[i], i, t, requests', exceptions', grants')
  <2>1. CASE ending' = ending
    <3>1. ending[1] \in DOMAIN sessions /\ ending[2] \in Time /\ ending # <<>>
      BY <1>0, <1>5, <2>1 DEF TypeOK
    <3>2. PICK i \in DOMAIN sessions : i = ending[1]
      BY <3>1
    <3>3. PICK t \in Time : t = ending[2]
      BY <3>1
    <3>4. ASSUME IsOpen(sessions'[i])
          PROVE  t <= now' /\ Deserved(sessions'[i], i, t, requests', exceptions', grants')
      <4>1. Moved(i) /\ Shape(sessions'[i])
        BY <1>1 DEF AllMoved, SessionsKept
      <4>2. ~End
        BY <2>1, <3>1 DEF End
      <4>3. /\ IsOpen(sessions[i])
            /\ \A u \in Time : u <= now => Unbroken(sessions'[i], u) = Unbroken(sessions[i], u)
        BY <3>4, <4>1, <4>2 DEF Moved
      <4>4. t <= now /\ Deserved(sessions[i], i, t, requests, exceptions, grants)
        BY <1>3, <3>1, <3>2, <3>3, <4>3
      <4>5. Unbroken(sessions'[i], t) = Unbroken(sessions[i], t)
        BY <4>3, <4>4
      <4>6. Deserved(sessions'[i], i, t, requests', exceptions', grants')
        BY <1>0, <1>1, <4>4, <4>5, DeservedStays
      <4> QED
        BY <1>2, <4>4, <4>6
    <3> QED
      BY <2>1, <3>2, <3>3, <3>4
  <2>2. ASSUME NEW i \in DOMAIN sessions, NEW inside \in BOOLEAN, AskEnd(i, inside)
        PROVE  \A j \in {ending'[1]}, t \in {ending'[2]} :
                  IsOpen(sessions'[j]) => /\ t <= now'
                                          /\ Deserved(sessions'[j], j, t, requests', exceptions', grants')
    <3>1. ending' = <<i, now>> /\ Deserved(sessions[i], i, now, requests', exceptions, grants)
      BY <1>1, <1>5, <2>2, CheckedEnd
    <3>2. sessions' = sessions /\ exceptions' = exceptions /\ grants' = grants /\ now' = now
      BY <2>2 DEF AskEnd
    <3>3. now <= now
      BY <1>0, Ticks
    <3> QED
      BY <3>1, <3>2, <3>3
  <2>3. CASE End
    BY <1>5, <2>3 DEF End
  <2> QED
    BY <2>1, <2>2, <2>3, Writers DEF OneWriter, WritesEnding
<1>6. \A i \in DOMAIN sessions' : Shape(sessions'[i])
  BY <1>1 DEF AllMoved
<1> QED
  BY <1>4, <1>5, <1>6 DEF EarlyInv

LEMMA EarlyInit == Init => EarlyInv
BY DEF Init, EarlyInv

LEMMA EarlyAlways == Spec => []EarlyInv
<1>1. Spec => []DaysInv
  BY DaysAlways, PTL
<1> QED
  BY <1>1, EarlyInit, EarlyStep, PTL DEF Spec

LEMMA EarlyEnds ==
    ASSUME DaysInv, EarlyInv
    PROVE  EarlyEndWasAllowed
<1> SUFFICES ASSUME NEW i \in DOMAIN sessions,
                    sessions[i].closure = "MANUAL", NetWork(sessions[i], now) < MinWork
             PROVE  \/ \E r \in DOMAIN requests : EndedOnRequest(i, r)
                    \/ \E g \in DOMAIN grants : EndedOnException(i, g)
  BY DEF EarlyEndWasAllowed
<1> DEFINE w == Cardinality(Unbroken(sessions[i], sessions[i].ended))
<1>1. /\ sessions[i] \in Session /\ Shape(sessions[i])
      /\ Deserved(sessions[i], i, sessions[i].ended, requests, exceptions, grants)
  BY Rows DEF DaysInv, TypeOK, EarlyInv
<1>2. NetWork(sessions[i], now) = w
  BY <1>1, EndedWork
<1>3. w \in Nat /\ MinWork \in Nat
  <2>1. IsFiniteSet(0..Horizon)
    BY Ticks, FS_Interval
  <2>2. Unbroken(sessions[i], sessions[i].ended) \subseteq 0..Horizon
    BY DEF Unbroken, Time
  <2> QED
    BY <2>1, <2>2, FS_Subset, FS_CardinalityType, ShiftPolicyAssumption
<1> HIDE DEF w
<1>4. ~(w >= MinWork)
  BY <1>2, <1>3
<1>5. Permitted(i, sessions[i].ended, w, requests, exceptions, grants)
  BY <1>1, <1>4 DEF Deserved, w
<1>6. ASSUME NEW r \in DOMAIN requests, ByRequest(requests[r], i, sessions[i].ended, w)
      PROVE  EndedOnRequest(i, r)
  BY <1>2, <1>6 DEF ByRequest, EndedOnRequest
<1>7. ASSUME NEW g \in DOMAIN grants, ByException(exceptions[grants[g]], sessions[i].ended)
      PROVE  EndedOnException(i, g)
  BY <1>7 DEF ByException, EndedOnException
<1> QED
  BY <1>5, <1>6, <1>7 DEF Permitted

\* A shift its employee ended early was allowed to end then, whatever was paused,
\* reviewed, approved or revoked between the check and the end, or after it.
THEOREM EarlyEndsAreAllowed == Spec => []EarlyEndWasAllowed
<1>1. Spec => []DaysInv
  BY DaysAlways, PTL
<1> QED
  BY <1>1, EarlyAlways, EarlyEnds, PTL

----------------------------------------------------------------------------
(* Settled days                                                             *)

\* A session is filed under the day it started.
DatesInv == \A i \in DOMAIN sessions : sessions[i].date = Day(sessions[i].started)

LEMMA NewSessions ==
    ASSUME TypeOK, [Next]_vars, NEW i \in DOMAIN sessions', i \notin DOMAIN sessions
    PROVE  sessions'[i].date = Day(now) /\ sessions'[i].started = now
<1> USE DEF TypeOK
<1>1. ASSUME NEW inside \in BOOLEAN, Start(inside)
      PROVE  sessions'[i].date = Day(now) /\ sessions'[i].started = now
  <2> DEFINE x == [date |-> Day(now), started |-> now, ended |-> Never, status |-> "ACTIVE",
                   closure |-> "NONE", breaks |-> {}, childEnd |-> Never]
  <2>1. x \in Session
    BY DayType DEF Session
  <2>2. sessions' = Append(sessions, x)
    BY <1>1 DEF Start
  <2> HIDE DEF x
  <2>3. sessions'[i] = x
    BY <2>1, <2>2, Appended
  <2> QED
    BY <2>3 DEF x
<1>2. \A f, j, y : DOMAIN [f EXCEPT ![j] = y] = DOMAIN f
  OBVIOUS
<1>3. ASSUME NEW j, DOMAIN sessions' # DOMAIN sessions
      PROVE  ~Pause(j) /\ ~AdminClose(j) /\ ~MidnightClose(j) /\ ~End /\ \A inside : ~Resume(j, inside)
  BY <1>3 DEF Pause, AdminClose, MidnightClose, End, Resume
<1>4. ASSUME NEW r, Approve(r)
      PROVE  DOMAIN sessions' = DOMAIN sessions
  BY <1>4 DEF Approve, CheckedOut
<1> QED
  BY <1>1, <1>3, <1>4, Writers DEF OneWriter, WritesSessions

LEMMA DatesStep ==
    ASSUME TypeOK, DatesInv, [Next]_vars
    PROVE  DatesInv'
<1>1. SessionsKept
  BY SessionsStep
<1> QED
  BY <1>1, NewSessions DEF DatesInv, SessionsKept, KeepsItsDay, Day

\* Days follow the clock.
LEMMA DaysInOrder ==
    ASSUME NEW t \in Time, NEW u \in Time, t <= u
    PROVE  Day(t) <= Day(u) /\ Day(t) \in Nat /\ Day(u) \in Nat
<1> DEFINE a == Day(t)  b == Day(u)
<1>1. /\ t \in Nat /\ u \in Nat /\ DayLength \in Nat \ {0} /\ a \in Nat /\ b \in Nat
  BY ShiftPolicyAssumption, DayType, Ticks
<1>2. a * DayLength <= t /\ u < (b + 1) * DayLength
  BY DayType DEF DayStart, DayEnd
<1> HIDE DEF a, b
<1>3. ASSUME b < a
      PROVE  FALSE
  <2>1. b + 1 <= a
    BY <1>1, <1>3
  <2>2. (b + 1) * DayLength <= a * DayLength
    BY <1>1, <2>1
  <2> QED
    BY <1>1, <1>2, <2>2
<1>4. a <= b
  BY <1>1, <1>3
<1> QED
  BY <1>1, <1>4 DEF a, b

\* A past day that nobody rules on in this step, and on which no end is under way.
Settled(d) ==
    /\ d \in Days /\ d < Day(now)
    /\ Ruled' = Ruled
    /\ ~(ending # <<>> /\ Day(ending[2]) = d)

\* A step makes of a session left open on a past day a missing checkout still.
LeftOpen(s, d) ==
    \/ IsOpen(s)
    \/ s.closure = "MIDNIGHT_CUTOFF"
    \/ s.ended # Never /\ Day(s.ended) > d

LEMMA NobodyApproves ==
    ASSUME TypeOK, NEW d, Settled(d), NEW r \in DOMAIN requests
    PROVE  ~Approve(r)
<1> SUFFICES ASSUME Approve(r)
             PROVE  FALSE
  OBVIOUS
<1>1. requests[r].status = "PENDING"
  BY DEF Approve
<1>2. requests[r] \in RequestRow /\ requests \in Seq(RequestRow)
  BY Rows DEF TypeOK
<1>3. r \in DOMAIN requests' /\ requests'[r].status = "APPROVED"
  BY <1>2 DEF Approve, RequestRow
<1> QED
  BY <1>1, <1>3 DEF Settled, Ruled

\* What a settled day has of sessions: those closed stay as they are, those left
\* open stay open or are closed as missing a checkout.
LEMMA SettledSessions ==
    ASSUME TypeOK, DatesInv, [Next]_vars, NEW d, Settled(d)
    PROVE  /\ OnDay(d)' = OnDay(d)
           /\ \A i \in OnDay(d) :
                 sessions'[i] = sessions[i] \/ (IsOpen(sessions[i]) /\ LeftOpen(sessions'[i], d))
<1>0. /\ sessions \in Seq(Session) /\ now \in Time /\ d \in Days /\ d < Day(now)
      /\ \A i \in DOMAIN sessions : sessions[i] \in Session
  BY Rows DEF TypeOK, Settled
<1>1. SessionsKept
  BY SessionsStep
<1>2. d \in Nat /\ Day(now) \in Nat /\ d # Day(now)
  <2>1. d \in Nat /\ Day(now) \in Nat
    BY <1>0, DayType, Ticks
  <2>2. \A m, n \in Nat : m < n => m # n
    OBVIOUS
  <2> QED
    BY <1>0, <2>1, <2>2
<1>3. OnDay(d)' = OnDay(d)
  BY <1>1, <1>2, NewSessions DEF SessionsKept, KeepsItsDay, OnDay
<1>4. SUFFICES ASSUME NEW i \in OnDay(d)
               PROVE  sessions'[i] = sessions[i] \/ (IsOpen(sessions[i]) /\ LeftOpen(sessions'[i], d))
  BY <1>3
<1>5. i \in DOMAIN sessions /\ sessions[i].date = d /\ sessions[i] \in Session
  BY <1>0, <1>4 DEF OnDay
<1>6. ASSUME NEW j \in DOMAIN sessions, NEW x \in Session, sessions' = [sessions EXCEPT ![j] = x],
             j = i => IsOpen(sessions[i]) /\ LeftOpen(x, d)
      PROVE  sessions'[i] = sessions[i] \/ (IsOpen(sessions[i]) /\ LeftOpen(sessions'[i], d))
  BY <1>0, <1>5, <1>6, Written
<1>7. ASSUME NEW inside \in BOOLEAN, Start(inside)
      PROVE  sessions'[i] = sessions[i]
  <2> DEFINE x == [date |-> Day(now), started |-> now, ended |-> Never, status |-> "ACTIVE",
                   closure |-> "NONE", breaks |-> {}, childEnd |-> Never]
  <2>1. x \in Session
    BY <1>0, DayType DEF Session
  <2>2. sessions' = Append(sessions, x)
    BY <1>7 DEF Start
  <2> HIDE DEF x
  <2> QED
    BY <1>0, <1>5, <2>1, <2>2, Appended
<1>8. ASSUME NEW j \in DOMAIN sessions, Pause(j) \/ \E inside \in BOOLEAN : Resume(j, inside)
      PROVE  sessions'[i] = sessions[i] \/ (IsOpen(sessions[i]) /\ LeftOpen(sessions'[i], d))
  <2>1. \E st \in {"ACTIVE", "PAUSED"} : \E B :
            sessions' = [sessions EXCEPT ![j].status = st, ![j].breaks = B]
    BY <1>8 DEF Pause, Resume
  <2>2. PICK st \in {"ACTIVE", "PAUSED"} : \E B :
            sessions' = [sessions EXCEPT ![j].status = st, ![j].breaks = B]
    BY <2>1
  <2>3. IsOpen(sessions[j])
    BY <1>8 DEF Pause, Resume, IsOpen
  <2>4. CASE j = i
    <3>1. sessions[i] \in Session /\ i \in DOMAIN sessions
      BY <1>5
    <3>2. sessions'[i].status = st
      BY <2>2, <2>4, <3>1 DEF Session
    <3> QED
      BY <2>3, <2>4, <3>2 DEF LeftOpen, IsOpen
  <2>5. CASE j # i
    BY <1>5, <2>2, <2>5
  <2> QED
    BY <2>4, <2>5
<1>9. ASSUME NEW j \in DOMAIN sessions, NEW t \in Time, MayClose(sessions[j], t), NEW st \in {"COMPLETED", "AUTO_CLOSED"},
             NEW closure \in {"MANUAL", "ADMIN_OVERRIDE", "MIDNIGHT_CUTOFF"},
             sessions' = [sessions EXCEPT ![j] = Closed(@, t, st, closure)],
             j = i => closure = "MIDNIGHT_CUTOFF" \/ Day(t) # d
      PROVE  sessions'[i] = sessions[i] \/ (IsOpen(sessions[i]) /\ LeftOpen(sessions'[i], d))
  <2>1. sessions[j] \in Session /\ Closed(sessions[j], t, st, closure) \in Session
    BY <1>0, ClosedType
  <2>2. ASSUME j = i
        PROVE  LeftOpen(Closed(sessions[j], t, st, closure), d)
    <3>1. Closed(sessions[j], t, st, closure).ended = t /\ Closed(sessions[j], t, st, closure).closure = closure
      BY <2>1 DEF Closed, Session
    <3>2. CASE closure = "MIDNIGHT_CUTOFF"
      BY <3>1, <3>2 DEF LeftOpen
    <3>3. CASE Day(t) # d
      <4>1. sessions[i].started \in Time /\ sessions[i].started <= t /\ d = Day(sessions[i].started)
        BY <1>5, <1>9, <2>2 DEF MayClose, Session, DatesInv
      <4>2. d <= Day(t) /\ d \in Nat /\ Day(t) \in Nat
        BY <4>1, DaysInOrder
      <4>3. Day(t) > d
        BY <3>3, <4>2
      <4>4. t # Never
        <5>1. t < Never /\ t \in Nat /\ Never \in Nat
          BY Ticks
        <5> QED
          BY <5>1
      <4> QED
        BY <3>1, <4>3, <4>4 DEF LeftOpen
    <3> QED
      BY <1>9, <2>2, <3>2, <3>3
  <2>3. j = i => IsOpen(sessions[i])
    BY <1>9 DEF MayClose
  <2>4. sessions' = [sessions EXCEPT ![j] = Closed(sessions[j], t, st, closure)]
    BY <1>9
  <2> QED
    BY <1>6, <2>1, <2>2, <2>3, <2>4
<1>10. ASSUME NEW j \in DOMAIN sessions, AdminClose(j)
       PROVE  sessions'[i] = sessions[i] \/ (IsOpen(sessions[i]) /\ LeftOpen(sessions'[i], d))
  BY <1>0, <1>2, <1>9, <1>10 DEF AdminClose
<1>11. ASSUME NEW j \in DOMAIN sessions, MidnightClose(j)
       PROVE  sessions'[i] = sessions[i] \/ (IsOpen(sessions[i]) /\ LeftOpen(sessions'[i], d))
  <2> DEFINE t == DayEnd(sessions[j].date)
  <2>1. t <= now /\ sessions[j].date \in Days
    BY <1>0, <1>11 DEF MidnightClose, Session
  <2>2. t \in Nat /\ now \in Nat /\ now <= Horizon /\ Horizon \in Nat
    BY <1>0, <2>1, DayBounds, Ticks
  <2>3. t \in Time
    BY <2>1, <2>2, Ticks
  <2>4. MayClose(sessions[j], t) /\ sessions' = [sessions EXCEPT ![j] = Closed(@, t, "AUTO_CLOSED", "MIDNIGHT_CUTOFF")]
    BY <1>11 DEF MidnightClose
  <2> HIDE DEF t
  <2> QED
    BY <1>9, <2>3, <2>4
<1>12. CASE End
  <2>1. ending[1] \in DOMAIN sessions /\ ending[2] \in Time /\ ending # <<>>
    BY <1>12 DEF End, TypeOK
  <2>2. Day(ending[2]) # d
    BY <2>1 DEF Settled
  <2>3. \/ sessions' = sessions
        \/ /\ MayClose(sessions[ending[1]], ending[2])
           /\ sessions' = [sessions EXCEPT ![ending[1]] = Closed(@, ending[2], "COMPLETED", "MANUAL")]
    BY <1>12 DEF End
  <2> QED
    BY <1>9, <2>1, <2>2, <2>3
<1> QED
  BY <1>7, <1>8, <1>10, <1>11, <1>12, NobodyApproves, Writers DEF OneWriter, WritesSessions


\* The attendance row of a settled day may get the end of a session of that day.
LEMMA SettledAttendance ==
    ASSUME TypeOK, [Next]_vars, NEW d, Settled(d)
    PROVE  /\ attendance'[d].in = attendance[d].in
           /\ attendance'[d].status = attendance[d].status
           /\ OnDay(d) = {} => attendance'[d].out = attendance[d].out
<1>0. attendance \in [Days -> Check] /\ d \in Days /\ d # Day(now)
  <2>1. now \in Time /\ d \in Days /\ d < Day(now)
    BY DEF TypeOK, Settled
  <2>2. d \in Nat /\ Day(now) \in Nat
    BY <2>1, DayType, Ticks
  <2>3. \A m, n \in Nat : m < n => m # n
    OBVIOUS
  <2> QED
    BY <2>1, <2>2, <2>3 DEF TypeOK
<1>1. ASSUME NEW inside \in BOOLEAN, Start(inside)
      PROVE  attendance'[d] = attendance[d]
  BY <1>0, <1>1 DEF Start
<1>2. ASSUME NEW weekOff \in BOOLEAN, CheckIn(weekOff) \/ CheckOut
      PROVE  attendance'[d] = attendance[d]
  BY <1>0, <1>2 DEF CheckIn, CheckOut
<1>3. CASE End
  <2>1. ending[1] \in DOMAIN sessions
    BY <1>3 DEF End, TypeOK
  <2>2. CASE sessions[ending[1]].date = d
    <3>1. OnDay(d) # {}
      BY <2>1, <2>2 DEF OnDay
    <3>2. attendance' = attendance \/ attendance' = [attendance EXCEPT ![d].out = ending[2]]
      BY <1>3, <2>2 DEF End
    <3>3. attendance[d] \in Check
      BY <1>0
    <3> QED
      BY <1>0, <3>1, <3>2, <3>3 DEF Check
  <2>3. CASE sessions[ending[1]].date # d
    BY <1>0, <1>3, <2>3 DEF End
  <2> QED
    BY <2>2, <2>3
<1> QED
  BY <1>1, <1>2, <1>3, NobodyApproves, Writers DEF OneWriter, WritesAttendance

\* And the requests approved for it are the same, asking for the same.
LEMMA SettledRequests ==
    ASSUME TypeOK, RowsInv, [Next]_vars, NEW d, Settled(d)
    PROVE  /\ Approved(d)' = Approved(d)
           /\ \A r \in Approved(d) : requests'[r].ask = requests[r].ask
<1>1. RequestsKept
  BY RequestsStep
<1>2. {r \in DOMAIN requests' : requests'[r].status = "APPROVED"}
        = {r \in DOMAIN requests : requests[r].status = "APPROVED"}
  BY DEF Settled, Ruled
<1> QED
  BY <1>1, <1>2 DEF RequestsKept, KeepsItsWord, Approved


\* What the status of a day reads, when its sessions are all closed.
LEMMA ClosedDayReads ==
    ASSUME sessions \in Seq(Session), requests \in Seq(RequestRow),
           NEW d \in Days, d # Day(now), d # Day(now)', OnDay(d)' = OnDay(d),
           \A i \in OnDay(d) : sessions'[i] = sessions[i] /\ ~IsOpen(sessions[i]),
           attendance'[d].in = attendance[d].in,
           OnDay(d) = {} => attendance'[d].out = attendance[d].out,
           Approved(d)' = Approved(d),
           \A r \in Approved(d) : requests'[r].ask = requests[r].ask
    PROVE  /\ Missing(d)' = Missing(d)
           /\ Finished(d)' = Finished(d)
           /\ Worked(d)' = Worked(d)
<1>1. Missing(d)' = Missing(d)
  BY DEF Missing, IsOpen
<1>2. Finished(d)' = Finished(d)
  BY DEF Finished, IsOpen
<1>3. FirstStart(d)' = FirstStart(d)
  <2>1. OnDay(d) # {} => Min(OnDay(d)) \in OnDay(d)
    <3>1. OnDay(d) \subseteq Nat
      BY Rows DEF OnDay
    <3> QED
      BY <3>1, FirstOne
  <2> QED
    BY <2>1 DEF FirstStart
<1>4. Recorded(d)' = Recorded(d)
  <2>1. \A i \in OnDay(d) : WorkTicks(sessions[i], Clock(d))' = WorkTicks(sessions[i], Clock(d))
    BY DEF WorkTicks, Unbroken, Clock
  <2>2. UNION {{i} \X WorkTicks(sessions[i], Clock(d)) : i \in OnDay(d)}'
          = UNION {{i} \X WorkTicks(sessions[i], Clock(d)) : i \in OnDay(d)}
    BY <2>1
  <2> QED
    BY <2>2 DEF Recorded
<1>5. \A r \in Approved(d) : States(r, d)' = States(r, d) /\ Stated(r, d)' = Stated(r, d)
  <2>1. \A i \in OnDay(d) : BreakTicks(i, d)' = BreakTicks(i, d)
    BY DEF BreakTicks
  <2>2. UNION {{i} \X BreakTicks(i, d) : i \in OnDay(d)}' = UNION {{i} \X BreakTicks(i, d) : i \in OnDay(d)}
    BY <2>1
  <2> QED
    BY <1>3, <2>2 DEF States, Stated
<1>6. Worked(d)' = Worked(d)
  <2> DEFINE C == {r \in Approved(d) : States(r, d)}
  <2>1. C' = C
    BY <1>5
  <2>2. C # {} => Min(C) \in Approved(d)
    <3>1. C \subseteq Nat
      BY Rows DEF Approved
    <3> QED
      BY <3>1, FirstOne
  <2>3. Worked(d) = IF C = {} THEN Recorded(d) ELSE Stated(Min(C), d)
    BY DEF Worked
  <2>4. Worked(d)' = IF C' = {} THEN Recorded(d)' ELSE Stated(Min(C), d)'
    BY <2>1 DEF Worked
  <2> HIDE DEF C
  <2> QED
    BY <1>4, <1>5, <2>1, <2>2, <2>3, <2>4
<1> QED
  BY <1>1, <1>2, <1>6


\* The status of a settled day, whose rulings, leave and holidays are the same.
LEMMA SettledStep ==
    ASSUME DaysInv, DatesInv, [Next]_vars, NEW d, Settled(d),
           OnDay(d) \cap OpenSessions = {} \/ ~CheckoutExcused(d)
    PROVE  DayStatus(d)' = DayStatus(d)
<1>0. TypeOK /\ RowsInv /\ d \in Days /\ sessions \in Seq(Session) /\ requests \in Seq(RequestRow)
  BY DEF DaysInv, TypeOK, Settled
<1>1. /\ d < Day(now) /\ d < Day(now)'
      /\ d # Day(now) /\ d # Day(now)' /\ ~(d >= Day(now)) /\ ~(d >= Day(now)')
      /\ ~(d > Day(now)) /\ ~(d > Day(now)')
  <2>1. now \in Time /\ now' \in Time /\ now <= now'
    <3>1. now \in Time
      BY <1>0 DEF TypeOK
    <3>2. CASE now' = now
      BY <3>1, <3>2, Ticks
    <3>3. CASE Tick
      BY <3>1, <3>3, Ticks DEF Tick, Time
    <3> QED
      BY <3>1, <3>2, <3>3, Writers DEF OneWriter
  <2>2. Day(now) <= Day(now') /\ Day(now) \in Nat /\ Day(now') \in Nat
    BY <2>1, DaysInOrder
  <2>3. d \in Nat /\ d < Day(now)
    BY <1>0, Ticks DEF Settled
  <2>4. \A k, m, n \in Nat : k < m /\ m <= n =>
            k < n /\ k # m /\ k # n /\ ~(k >= m) /\ ~(k >= n) /\ ~(k > m) /\ ~(k > n)
    OBVIOUS
  <2> QED
    BY <2>2, <2>3, <2>4 DEF Day
<1>2. /\ OnDay(d)' = OnDay(d)
      /\ \A i \in OnDay(d) :
            sessions'[i] = sessions[i] \/ (IsOpen(sessions[i]) /\ LeftOpen(sessions'[i], d))
  BY <1>0, SettledSessions
<1>3. /\ attendance'[d].in = attendance[d].in
      /\ attendance'[d].status = attendance[d].status
      /\ OnDay(d) = {} => attendance'[d].out = attendance[d].out
  BY <1>0, SettledAttendance
<1>4. /\ Approved(d)' = Approved(d)
      /\ \A r \in Approved(d) : requests'[r].ask = requests[r].ask
  BY <1>0, SettledRequests
<1>5. UNCHANGED <<exceptions, grants, leaves, holidays>>
  BY DEF Settled, Ruled
<1>6. /\ OnLeave(d)' = OnLeave(d) /\ (d \in holidays') = (d \in holidays)
      /\ Excused(d)' = Excused(d) /\ CheckoutExcused(d)' = CheckoutExcused(d)
      /\ WeekOff(d)' = WeekOff(d)
  BY <1>3, <1>4, <1>5 DEF OnLeave, Excused, CheckoutExcused, WeekOff, Day
<1>7. CASE OnDay(d) \cap OpenSessions = {}
  <2>1. \A i \in OnDay(d) : sessions'[i] = sessions[i] /\ ~IsOpen(sessions[i])
    BY <1>2, <1>7 DEF OpenSessions, OnDay
  <2>2. Missing(d)' = Missing(d) /\ Finished(d)' = Finished(d) /\ Worked(d)' = Worked(d)
    BY <1>0, <1>1, <1>2, <1>3, <1>4, <2>1, ClosedDayReads
  <2> QED
    BY <1>1, <1>6, <2>2 DEF DayStatus
<1>8. CASE OnDay(d) \cap OpenSessions # {} /\ ~CheckoutExcused(d)
  <2>1. PICK i \in OnDay(d) : IsOpen(sessions[i])
    BY <1>8 DEF OpenSessions
  <2>2. Missing(d) /\ Missing(d)'
    <3>1. LeftOpen(sessions[i], d) /\ LeftOpen(sessions'[i], d)
      BY <1>2, <2>1 DEF LeftOpen
    <3> QED
      BY <1>1, <1>2, <2>1, <3>1 DEF Missing, LeftOpen, IsOpen, Day
  <2> QED
    BY <1>6, <1>8, <2>2 DEF DayStatus
<1> QED
  BY <1>7, <1>8

\* What a past day counts as only changes by a decision of the management, or by an
\* end asked for on that day (apps/web/attendance_services.py:324).
THEOREM SettledDays == Spec => SettledDayStays
<1>1. Init => DatesInv
  BY DEF Init, DatesInv
<1>2. DaysInv /\ DatesInv /\ [Next]_vars => DatesInv'
  BY DatesStep DEF DaysInv
<1>3. DaysInv /\ DatesInv /\ [Next]_vars =>
        [\A d \in Days :
            /\ d < Day(now)
            /\ Ruled' = Ruled
            /\ ~(ending # <<>> /\ Day(ending[2]) = d)
            /\ OnDay(d) \cap OpenSessions = {} \/ ~CheckoutExcused(d)
            => DayStatus(d)' = DayStatus(d)]_vars
  BY SettledStep DEF Settled
<1> QED
  BY <1>1, <1>2, <1>3, DaysAlways, PTL DEF Spec, SettledDayStays


=============================================================================
