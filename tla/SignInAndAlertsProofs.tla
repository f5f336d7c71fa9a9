------------------------- MODULE SignInAndAlertsProofs --------------------------
(***************************************************************************)
(* Theorems about SignIn, for any devices, clock, tolerances and bounds,   *)
(* and about WorkloadAlerts, for any callers, leads, threshold, threads.   *)
(*                                                                         *)
(* Sign-in: every step makes of each session one that Follows it, and a    *)
(* login appends one: what a heartbeat and a closing do to one session is  *)
(* proved first, the invariants are then carried from step to step by      *)
(* Follows.                                                                *)
(*                                                                         *)
(* Alerts: what is claimed of one caller is carried over every step, and   *)
(* what a check that is alone has done so far is claimed of that check.    *)
(***************************************************************************)
EXTENDS SignIn, WorkloadAlerts, FiniteSetTheorems, FunctionTheorems,
        SequenceTheorems, TLAPS

Counted(s) ==
    s.logged_in + s.active <= IF IsOpen(s) \/ s.ended < s.last_seen THEN s.last_seen ELSE s.ended

\* What a step makes of the session s, when no clock it uses is behind t.
Follows(s, r, t) ==
    /\ r \in Session
    /\ r.logged_in = s.logged_in /\ r.expires = s.expires
    /\ r.last_seen = s.last_seen \/ r.last_seen = now
    /\ s.last_seen <= now /\ Counted(s) => Counted(r)
    /\ \/ r.ended = s.ended
       \/ IsOpen(s) /\ ~IsOpen(r) /\ (r.ended = s.expires \/ t <= r.ended)

LEMMA SameInterval ==
    ASSUME NEW m \in Nat, NEW n \in Nat, 1..m = 1..n
    PROVE  m = n
<1>1. \A i \in Int : i \in 1..m <=> i \in 1..n
  OBVIOUS
<1>2. m > 0 => m \in 1..n
  BY <1>1
<1>3. n > 0 => n \in 1..m
  BY <1>1
<1> QED
  BY <1>2, <1>3

LEMMA Mapped ==
    ASSUME NEW S, NEW s \in Seq(S), NEW t \in [DOMAIN s -> S]
    PROVE  t \in Seq(S) /\ DOMAIN t = DOMAIN s /\ Len(t) = Len(s)
<1>1. Len(s) \in Nat /\ DOMAIN s = 1..Len(s)
  BY LenProperties
<1>2. t \in [1..Len(s) -> S]
  BY <1>1
<1>3. t \in Seq(S)
  BY <1>1, <1>2, SeqDef, Zenon
<1>4. Len(t) \in Nat /\ DOMAIN t = 1..Len(t)
  BY <1>3, LenProperties
<1>5. 1..Len(t) = 1..Len(s)
  BY <1>2, <1>4
<1> QED
  BY <1>1, <1>3, <1>4, <1>5, SameInterval

LEMMA Appended ==
    ASSUME NEW S, NEW s \in Seq(S), NEW x \in S
    PROVE  /\ Append(s, x) \in Seq(S)
           /\ Len(s) \in Nat /\ Len(s) + 1 \notin DOMAIN s
           /\ DOMAIN s = 1..Len(s)
           /\ DOMAIN Append(s, x) = DOMAIN s \cup {Len(s) + 1}
           /\ \A i \in DOMAIN s : Append(s, x)[i] = s[i]
           /\ Append(s, x)[Len(s) + 1] = x
           /\ Len(Append(s, x)) = Len(s) + 1
<1>1. Len(s) \in Nat /\ DOMAIN s = 1..Len(s)
  BY LenProperties
<1>2. /\ Append(s, x) \in Seq(S)
      /\ Len(Append(s, x)) = Len(s) + 1
      /\ \A i \in 1..Len(s) : Append(s, x)[i] = s[i]
      /\ Append(s, x)[Len(s) + 1] = x
  BY AppendProperties
<1>3. DOMAIN Append(s, x) = 1..(Len(s) + 1)
  BY <1>2, LenProperties
<1> QED
  BY <1>1, <1>2, <1>3

----------------------------------------------------------------------------
(* The clock                                                                *)

LEMMA MidnightType ==
    ASSUME NEW t \in Time
    PROVE  NextMidnight(t) \in Clocks /\ t < NextMidnight(t)
<1> DEFINE a == t \div DayLength
<1> DEFINE b == Horizon \div DayLength
<1>1. t \in Nat /\ t <= Horizon /\ Horizon \in Nat /\ DayLength \in Nat \ {0}
  BY SignInAssumption DEF Time
<1>2. a \in Nat /\ b \in Nat /\ a <= b /\ t < (a + 1) * DayLength
  BY <1>1
<1> HIDE DEF a, b
<1>3. (a + 1) * DayLength \in Nat /\ (a + 1) * DayLength <= (b + 1) * DayLength
  BY <1>1, <1>2
<1>4. NextMidnight(t) = (a + 1) * DayLength /\ NextMidnight(Horizon) = (b + 1) * DayLength
  BY DEF NextMidnight, a, b
<1> QED
  BY <1>2, <1>3, <1>4 DEF Clocks

LEMMA Clock ==
    ASSUME NEW c \in Clocks
    PROVE  /\ c \in Nat /\ c # Never /\ Never \in Nat
           /\ \A k \in Nat : k <= c => k \in Clocks
<1>1. Horizon \in Time
  BY SignInAssumption DEF Time
<1>2. NextMidnight(Horizon) \in Nat
  BY <1>1, MidnightType DEF Clocks
<1> QED
  BY <1>2 DEF Clocks, Never

----------------------------------------------------------------------------
(* One session                                                              *)

LEMMA SessionFields ==
    ASSUME NEW s \in Session
    PROVE  /\ s.logged_in \in Nat /\ s.active \in Nat /\ s.last_seen \in Nat
           /\ s.expires \in Clocks /\ s.expires \in Nat /\ s.expires # Never
           /\ s.ended \in Nat /\ s.foreground \in BOOLEAN
<1>1. /\ s.logged_in \in Time /\ s.active \in Nat /\ s.last_seen \in Time
      /\ s.expires \in Clocks /\ s.ended \in Clocks \cup {Never} /\ s.foreground \in BOOLEAN
  BY DEF Session
<1>2. s.ended \in Nat
  BY <1>1, Clock
<1> QED
  BY <1>1, <1>2, Clock DEF Time

LEMMA SeenType ==
    ASSUME NEW s \in Session, NEW t \in Nat
    PROVE  /\ Seen(s, t) \in Nat
           /\ Seen(s, t) # 0 => Seen(s, t) = t - s.last_seen /\ s.last_seen <= t
BY SessionFields DEF Seen

\* Closing a session ends it, at its midnight or not before the clock t of who closes
\* it, and counts the time since its last sign of life at most once.
LEMMA ClosedFollows ==
    ASSUME NEW s \in Session, IsOpen(s), NEW t \in Time,
           NEW reason \in {"LOGOUT", "REPLACED", "EXPIRED"}
    PROVE  Follows(s, Closed(s, t, reason), t) /\ ~IsOpen(Closed(s, t, reason))
<1> DEFINE e == Earlier(t, s.expires)
<1> DEFINE r == Closed(s, t, reason)
<1>1. /\ s.logged_in \in Nat /\ s.active \in Nat /\ s.last_seen \in Nat
      /\ s.expires \in Clocks /\ s.expires \in Nat /\ t \in Nat
  BY SessionFields DEF Time
<1>2. e \in Clocks /\ e \in Nat /\ e # Never /\ (e = s.expires \/ e = t)
  <2>1. e \in Nat /\ e <= s.expires /\ (e = s.expires \/ e = t)
    BY <1>1 DEF Earlier
  <2>2. e \in Clocks
    BY <1>1, <2>1, Clock
  <2> QED
    BY <2>1, <2>2, Clock
<1>3. /\ Seen(s, e) \in Nat
      /\ Seen(s, e) # 0 => Seen(s, e) = e - s.last_seen /\ s.last_seen <= e
  BY <1>2, SeenType
<1>4. r = [s EXCEPT !.active = @ + Seen(s, e), !.ended = e, !.foreground = FALSE, !.reason = reason]
  BY DEF Closed
<1> HIDE DEF e, r
<1>5. s.active + Seen(s, e) \in Nat
  BY <1>1, <1>3
<1>6. r \in Session
  BY <1>2, <1>4, <1>5 DEF Session
<1>7. /\ r.logged_in = s.logged_in /\ r.expires = s.expires /\ r.last_seen = s.last_seen
      /\ r.active = s.active + Seen(s, e) /\ r.ended = e
  BY <1>4 DEF Session
<1>8. ~IsOpen(r)
  BY <1>2, <1>7 DEF IsOpen
<1>9. Counted(s) => Counted(r)
  <2> SUFFICES ASSUME s.logged_in + s.active <= s.last_seen
               PROVE  Counted(r)
    BY DEF Counted
  <2>1. CASE Seen(s, e) = 0
    BY <1>1, <1>2, <1>7, <1>8, <2>1 DEF Counted
  <2>2. CASE Seen(s, e) # 0
    BY <1>1, <1>2, <1>3, <1>7, <1>8, <2>2 DEF Counted
  <2> QED
    BY <2>1, <2>2
<1>10. r.ended = s.expires \/ t <= r.ended
  BY <1>1, <1>2, <1>7
<1> QED
  BY <1>6, <1>7, <1>8, <1>9, <1>10 DEF Follows, r

\* A heartbeat moves the last sign of life to now, and counts the time up to it.
LEMMA BeatenFollows ==
    ASSUME NEW s \in Session, IsOpen(s), now \in Time, NEW fg \in BOOLEAN, NEW t
    PROVE  Follows(s, Beaten(s, fg), t) /\ IsOpen(Beaten(s, fg))
<1> DEFINE r == Beaten(s, fg)
<1>1. s.logged_in \in Nat /\ s.active \in Nat /\ s.last_seen \in Nat /\ now \in Nat
  BY SessionFields DEF Time
<1>2. /\ Seen(s, now) \in Nat
      /\ Seen(s, now) # 0 => Seen(s, now) = now - s.last_seen /\ s.last_seen <= now
  BY <1>1, SeenType
<1>3. r = [s EXCEPT !.active = @ + Seen(s, now), !.last_seen = now, !.foreground = fg]
  BY DEF Beaten
<1> HIDE DEF r
<1>4. s.active + Seen(s, now) \in Nat
  BY <1>1, <1>2
<1>5. r \in Session
  BY <1>3, <1>4 DEF Session
<1>6. /\ r.logged_in = s.logged_in /\ r.expires = s.expires /\ r.last_seen = now
      /\ r.active = s.active + Seen(s, now) /\ r.ended = s.ended
  BY <1>3 DEF Session
<1>7. IsOpen(r)
  BY <1>6 DEF IsOpen
<1>8. s.last_seen <= now /\ Counted(s) => Counted(r)
  <2> SUFFICES ASSUME s.last_seen <= now, s.logged_in + s.active <= s.last_seen
               PROVE  s.logged_in + (s.active + Seen(s, now)) <= now
    BY <1>6, <1>7 DEF Counted
  <2> QED
    BY <1>1, <1>2
<1> QED
  BY <1>5, <1>6, <1>7, <1>8 DEF Follows, r

LEMMA SameFollows ==
    ASSUME NEW s \in Session, NEW t
    PROVE  Follows(s, s, t)
BY DEF Follows

----------------------------------------------------------------------------
(* The sessions of a step                                                   *)

\* Every session of now has the one that Follows it in ss.
Stepped(ss, t) ==
    /\ ss \in Seq(Session) /\ DOMAIN ss = DOMAIN sessions /\ Len(ss) = Len(sessions)
    /\ \A i \in DOMAIN sessions : Follows(sessions[i], ss[i], t)

LEMMA SessionRows ==
    ASSUME TypeOK
    PROVE  /\ sessions \in Seq(Session)
           /\ \A i \in DOMAIN sessions : sessions[i] \in Session
           /\ Len(sessions) \in Nat /\ DOMAIN sessions = 1..Len(sessions)
<1>1. sessions \in Seq(Session)
  BY DEF TypeOK
<1> QED
  BY <1>1, ElementOfSeq, LenProperties

LEMMA SteppedSame ==
    ASSUME TypeOK, NEW t
    PROVE  Stepped(sessions, t)
BY SessionRows, SameFollows DEF Stepped

\* One session is replaced by one that Follows it.
LEMMA SteppedOne ==
    ASSUME TypeOK, NEW i \in DOMAIN sessions, NEW r, NEW t, Follows(sessions[i], r, t)
    PROVE  /\ Stepped([sessions EXCEPT ![i] = r], t)
           /\ [sessions EXCEPT ![i] = r][i] = r
           /\ \A j \in DOMAIN sessions \ {i} : [sessions EXCEPT ![i] = r][j] = sessions[j]
<1> DEFINE ss == [sessions EXCEPT ![i] = r]
<1>1. sessions \in [DOMAIN sessions -> Session]
  BY SessionRows, LenProperties
<1>2. r \in Session
  BY DEF Follows
<1>3. ss \in [DOMAIN sessions -> Session]
  BY <1>1, <1>2
<1>4. ss[i] = r /\ \A j \in DOMAIN sessions \ {i} : ss[j] = sessions[j]
  BY <1>1
<1> HIDE DEF ss
<1>5. ss \in Seq(Session) /\ DOMAIN ss = DOMAIN sessions /\ Len(ss) = Len(sessions)
  BY <1>3, SessionRows, Mapped
<1>6. \A j \in DOMAIN sessions : Follows(sessions[j], ss[j], t)
  BY <1>4, SessionRows, SameFollows
<1> QED
  BY <1>4, <1>5, <1>6 DEF Stepped, ss

\* The open sessions that are due are closed, for whatever reason.
LEMMA SteppedAll ==
    ASSUME TypeOK, NEW t \in Time, NEW ss, DOMAIN ss = DOMAIN sessions,
           ss = [i \in DOMAIN sessions |-> ss[i]],
           \A i \in DOMAIN sessions :
               \/ ss[i] = sessions[i]
               \/ /\ IsOpen(sessions[i])
                  /\ \E why \in {"LOGOUT", "REPLACED", "EXPIRED"} : ss[i] = Closed(sessions[i], t, why)
    PROVE  Stepped(ss, t)
<1>1. \A i \in DOMAIN sessions : Follows(sessions[i], ss[i], t)
  <2> TAKE i \in DOMAIN sessions
  <2>1. sessions[i] \in Session
    BY SessionRows
  <2> QED
    BY <2>1, ClosedFollows, SameFollows
<1>2. ss \in [DOMAIN sessions -> Session]
  BY <1>1 DEF Follows
<1>3. ss \in Seq(Session) /\ DOMAIN ss = DOMAIN sessions /\ Len(ss) = Len(sessions)
  BY <1>2, SessionRows, Mapped
<1> QED
  BY <1>1, <1>3 DEF Stepped

LEMMA HeartbeatSteps ==
    ASSUME TypeOK, NEW d, NEW i \in DOMAIN sessions, NEW fg \in BOOLEAN, Heartbeat(d, i, fg)
    PROVE  Stepped(sessions', now) /\ \A j \in DOMAIN sessions : IsOpen(sessions'[j]) => IsOpen(sessions[j])
<1>1. now \in Time /\ sessions[i] \in Session
  BY SessionRows DEF TypeOK
<1>2. Follows(sessions[i], Beaten(sessions[i], fg), now)
  BY <1>1, BeatenFollows DEF Heartbeat
<1>3. sessions' = [sessions EXCEPT ![i] = Beaten(sessions[i], fg)]
  BY DEF Heartbeat
<1>4. Stepped(sessions', now)
  BY <1>2, <1>3, SteppedOne
<1> QED
  BY <1>4 DEF Stepped, Follows, IsOpen

\* A logout closes the session that is named, and no other changes.
LEMMA LogoutSteps ==
    ASSUME TypeOK, NEW d, NEW i \in DOMAIN sessions, Logout(d, i)
    PROVE  /\ Stepped(sessions', now)
           /\ ~IsOpen(sessions'[i])
           /\ \A j \in DOMAIN sessions \ {i} : sessions'[j] = sessions[j]
<1>1. now \in Time /\ sessions[i] \in Session
  BY SessionRows DEF TypeOK
<1>2. /\ Follows(sessions[i], Closed(sessions[i], now, "LOGOUT"), now)
      /\ ~IsOpen(Closed(sessions[i], now, "LOGOUT"))
  BY <1>1, ClosedFollows DEF Logout
<1>3. sessions' = [sessions EXCEPT ![i] = Closed(sessions[i], now, "LOGOUT")]
  BY DEF Logout
<1> QED
  BY <1>2, <1>3, SteppedOne

\* The job closes sessions whose midnight it has seen, at their midnight.
LEMMA ExpireSteps ==
    ASSUME TypeOK, NEW t \in job, Expire(t)
    PROVE  /\ Stepped(sessions', t)
           /\ \A i \in DOMAIN sessions :
                 /\ IsOpen(sessions'[i]) => IsOpen(sessions[i])
                 /\ sessions'[i].ended \in {sessions[i].ended, sessions[i].expires}
<1>1. t \in Time
  BY DEF TypeOK
<1>2. sessions' = [i \in DOMAIN sessions |->
                     IF IsOpen(sessions[i]) /\ sessions[i].expires <= t
                     THEN Closed(sessions[i], t, "EXPIRED") ELSE sessions[i]]
  BY DEF Expire
<1>3. Stepped(sessions', t)
  BY <1>1, <1>2, SteppedAll
<1>4. ASSUME NEW i \in DOMAIN sessions
      PROVE  sessions'[i].ended \in {sessions[i].ended, sessions[i].expires}
  <2>1. CASE IsOpen(sessions[i]) /\ sessions[i].expires <= t
    <3>1. sessions[i] \in Session /\ sessions'[i] = Closed(sessions[i], t, "EXPIRED")
      BY <1>2, <2>1, SessionRows
    <3>2. Earlier(t, sessions[i].expires) = sessions[i].expires
      BY <1>1, <2>1, <3>1, SessionFields DEF Earlier, Time
    <3>3. Closed(sessions[i], t, "EXPIRED").ended = Earlier(t, sessions[i].expires)
      BY <3>1 DEF Closed, Session
    <3> QED
      BY <3>1, <3>2, <3>3
  <2>2. CASE ~(IsOpen(sessions[i]) /\ sessions[i].expires <= t)
    BY <1>2, <2>2
  <2> QED
    BY <2>1, <2>2
<1>5. ASSUME NEW i \in DOMAIN sessions, IsOpen(sessions'[i]) PROVE IsOpen(sessions[i])
  BY <1>3, <1>5 DEF Stepped, Follows, IsOpen
<1> QED
  BY <1>3, <1>4, <1>5

\* A login closes the sessions that are open and appends its own.
LEMMA ReplacedSteps ==
    ASSUME TypeOK
    PROVE  /\ Stepped(Replaced(login.read), login.read)
           /\ \A i \in DOMAIN sessions : ~IsOpen(Replaced(login.read)[i])
<1> DEFINE t == login.read
<1>1. t \in Time
  BY DEF TypeOK
<1> HIDE DEF t
<1>2. Stepped(Replaced(t), t)
  BY <1>1, SteppedAll DEF Replaced
<1>3. \A i \in DOMAIN sessions : ~IsOpen(Replaced(t)[i])
  BY <1>1, SessionRows, ClosedFollows DEF Replaced
<1> QED
  BY <1>2, <1>3 DEF t

Fresh(s) ==
    /\ s \in Session /\ IsOpen(s)
    /\ s.logged_in = now /\ s.last_seen = now /\ s.active = 0

LEMMA SignInSteps ==
    ASSUME TypeOK, SignIn
    PROVE  /\ sessions' \in Seq(Session) /\ Len(sessions') = Len(sessions) + 1
           /\ DOMAIN sessions' = DOMAIN sessions \cup {Len(sessions) + 1}
           /\ Len(sessions) + 1 \notin DOMAIN sessions
           /\ \A i \in DOMAIN sessions :
                 Follows(sessions[i], sessions'[i], login.read) /\ ~IsOpen(sessions'[i])
           /\ Fresh(sessions'[Len(sessions) + 1])
<1> DEFINE ss == Replaced(login.read)
<1> DEFINE new == [verified |-> login.read, logged_in |-> now, expires |-> NextMidnight(login.read),
                   last_seen |-> now, foreground |-> TRUE, active |-> 0, ended |-> Never, reason |-> ""]
<1>1. sessions' = Append(ss, new)
  BY DEF SignIn
<1>2. login.read \in Time /\ now \in Time
  BY DEF TypeOK
<1>3. new \in Session
  BY <1>2, MidnightType DEF Session
<1>4. Fresh(new)
  BY <1>3 DEF Fresh, IsOpen
<1>5. Stepped(ss, login.read) /\ \A i \in DOMAIN sessions : ~IsOpen(ss[i])
  BY ReplacedSteps
<1> HIDE DEF ss, new
<1>6. ss \in Seq(Session) /\ DOMAIN ss = DOMAIN sessions /\ Len(ss) = Len(sessions)
  BY <1>5 DEF Stepped
<1>7. /\ Append(ss, new) \in Seq(Session) /\ Len(Append(ss, new)) = Len(ss) + 1
      /\ Len(ss) + 1 \notin DOMAIN ss
      /\ DOMAIN Append(ss, new) = DOMAIN ss \cup {Len(ss) + 1}
      /\ \A i \in DOMAIN ss : Append(ss, new)[i] = ss[i]
      /\ Append(ss, new)[Len(ss) + 1] = new
  BY <1>3, <1>6, Appended
<1>8. \A i \in DOMAIN sessions :
        Follows(sessions[i], sessions'[i], login.read) /\ ~IsOpen(sessions'[i])
  BY <1>1, <1>5, <1>6, <1>7 DEF Stepped
<1> QED
  BY <1>1, <1>4, <1>6, <1>7, <1>8

----------------------------------------------------------------------------
(* Types                                                                    *)

RestTyped ==
    /\ account \in Account
    /\ enrolments \in Seq({"PENDING", "APPROVED", "REJECTED"})
    /\ challenges \in Seq(Challenge)
    /\ login \in [challenge: 0..Len(challenges), read: Time]
    /\ authed \subseteq Devices
    /\ job \subseteq Time

SessionsTyped ==
    /\ sessions \in Seq(Session)
    /\ token \in 0..Len(sessions)
    /\ points \subseteq (DOMAIN sessions) \X Time

LEMMA TypeParts ==
    /\ TypeOK <=> now \in Time /\ RestTyped /\ SessionsTyped
    /\ TypeOK' <=> now' \in Time /\ RestTyped' /\ SessionsTyped'
BY DEF TypeOK, RestTyped, SessionsTyped

LEMMA ChallengeRows ==
    ASSUME RestTyped
    PROVE  /\ challenges \in [DOMAIN challenges -> Challenge]
           /\ Len(challenges) \in Nat /\ DOMAIN challenges = 1..Len(challenges)
<1>1. challenges \in Seq(Challenge)
  BY DEF RestTyped
<1> QED
  BY <1>1, LenProperties

LEMMA IdleTyped ==
    ASSUME NEW n \in Nat
    PROVE  Idle \in [challenge: 0..n, read: Time]
BY SignInAssumption DEF Idle, Time

\* The challenge of the login is answered, and the login is over.
LEMMA UsedTyped ==
    ASSUME RestTyped, UseChallenge, login' = Idle
    PROVE  challenges' \in Seq(Challenge) /\ login' \in [challenge: 0..Len(challenges'), read: Time]
<1>1. challenges' \in [DOMAIN challenges -> Challenge]
  BY ChallengeRows DEF UseChallenge, Challenge
<1>2. challenges \in Seq(Challenge)
  BY DEF RestTyped
<1>3. challenges' \in Seq(Challenge) /\ Len(challenges') \in Nat
  BY <1>1, <1>2, Mapped, LenProperties
<1> QED
  BY <1>3, IdleTyped

LEMMA AskTyped ==
    ASSUME RestTyped, now \in Time, AskLogin
    PROVE  RestTyped'
<1> DEFINE cs == [c \in DOMAIN challenges |-> [challenges[c] EXCEPT !.used = TRUE]]
<1> DEFINE new == [action |-> IF account.pending \/ NeedsPhoto THEN "ENROLL" ELSE "IN",
                   made |-> now, used |-> FALSE]
<1>1. new \in Challenge
  BY DEF Challenge
<1>2. cs \in [DOMAIN challenges -> Challenge]
  BY ChallengeRows DEF Challenge
<1>3. challenges' = Append(cs, new)
  BY DEF AskLogin
<1> HIDE DEF cs, new
<1>4. challenges \in Seq(Challenge)
  BY DEF RestTyped
<1>5. cs \in Seq(Challenge)
  BY <1>2, <1>4, Mapped
<1>6. challenges' \in Seq(Challenge) /\ Len(challenges') \in Nat
  BY <1>1, <1>3, <1>5, Appended, LenProperties
<1>7. login' \in [challenge: 0..Len(challenges'), read: Time]
  BY <1>6, IdleTyped DEF AskLogin, RowIsFree
<1> QED
  BY <1>6, <1>7 DEF RestTyped, AskLogin

LEMMA EnrolledTyped ==
    ASSUME RestTyped
    PROVE  /\ Append(enrolments, "PENDING") \in Seq({"PENDING", "APPROVED", "REJECTED"})
           /\ \A e \in DOMAIN enrolments, st \in {"APPROVED", "REJECTED"} :
                 [enrolments EXCEPT ![e] = st] \in Seq({"PENDING", "APPROVED", "REJECTED"})
<1> DEFINE S == {"PENDING", "APPROVED", "REJECTED"}
<1>1. enrolments \in Seq(S)
  BY DEF RestTyped
<1>2. enrolments \in [DOMAIN enrolments -> S]
  BY <1>1, LenProperties
<1>3. "PENDING" \in S
  OBVIOUS
<1>4. ASSUME NEW e \in DOMAIN enrolments, NEW st \in {"APPROVED", "REJECTED"}
      PROVE  [enrolments EXCEPT ![e] = st] \in Seq(S)
  <2>1. [enrolments EXCEPT ![e] = st] \in [DOMAIN enrolments -> S]
    BY <1>2
  <2> HIDE DEF S
  <2> QED
    BY <1>1, <2>1, Mapped
<1>5. Append(enrolments, "PENDING") \in Seq(S)
  <2> HIDE DEF S
  <2> QED
    BY <1>1, <1>3, Appended
<1> QED
  BY <1>4, <1>5

LEMMA LoginTyped ==
    ASSUME RestTyped, now \in Time, LoginStep
    PROVE  RestTyped'
<1>1. CASE AskLogin
  BY <1>1, AskTyped
<1>2. ASSUME NEW c \in DOMAIN challenges, BeginVerify(c) PROVE RestTyped'
  <2>1. c \in 0..Len(challenges)
    BY ChallengeRows
  <2> QED
    BY <1>2, <2>1 DEF BeginVerify, RestTyped, photos
<1>3. CASE AbortVerify
  <2>1. login' \in [challenge: 0..Len(challenges'), read: Time]
    BY <1>3, ChallengeRows, IdleTyped DEF AbortVerify, photos
  <2> QED
    BY <1>3, <2>1 DEF AbortVerify, RestTyped, photos
<1>4. CASE RefuseVerify
  BY <1>4, UsedTyped DEF RefuseVerify, RestTyped
<1>5. CASE Enrol
  BY <1>5, UsedTyped, EnrolledTyped DEF Enrol, RestTyped
<1>6. CASE SignIn
  BY <1>6, UsedTyped DEF SignIn, RestTyped
<1>7. ASSUME NEW e \in DOMAIN enrolments, NEW st \in {"APPROVED", "REJECTED"}, Review(e, st)
      PROVE  RestTyped'
  <2>1. account' \in Account
    BY <1>7 DEF Review, RestTyped, Account
  <2>2. enrolments' \in Seq({"PENDING", "APPROVED", "REJECTED"})
    BY <1>7, EnrolledTyped DEF Review
  <2> QED
    BY <1>7, <2>1, <2>2 DEF Review, RestTyped
<1> QED
  BY <1>1, <1>2, <1>3, <1>4, <1>5, <1>6, <1>7 DEF LoginStep

LEMMA RestStep ==
    ASSUME TypeOK, [Next]_vars
    PROVE  RestTyped'
<1>1. now \in Time /\ RestTyped
  BY TypeParts
<1>2. CASE LoginStep
  BY <1>1, <1>2, LoginTyped
<1>3. ASSUME NEW d \in Devices, RequestStep(d) PROVE RestTyped'
  <2>1. CASE Authenticate(d)
    BY <1>1, <2>1 DEF Authenticate, RestTyped, photos
  <2>2. ASSUME NEW i \in DOMAIN sessions, NEW fg \in BOOLEAN, Heartbeat(d, i, fg) PROVE RestTyped'
    BY <1>1, <2>2 DEF Heartbeat, RestTyped, photos
  <2>3. ASSUME NEW i \in DOMAIN sessions, Logout(d, i) PROVE RestTyped'
    BY <1>1, <2>3 DEF Logout, RestTyped, photos
  <2>4. ASSUME NEW i \in DOMAIN sessions, NEW t \in Time, ReportPosition(d, i, t) PROVE RestTyped'
    BY <1>1, <2>4 DEF ReportPosition, RestTyped, photos
  <2>5. CASE Leave(d)
    BY <1>1, <2>5 DEF Leave, RestTyped, photos
  <2> QED
    BY <1>3, <2>1, <2>2, <2>3, <2>4, <2>5 DEF RequestStep
<1>4. ASSUME NEW a \in BOOLEAN, NEW x \in BOOLEAN, EditAccount(a, x) PROVE RestTyped'
  <2>1. account' \in Account
    BY <1>1, <1>4 DEF EditAccount, RestTyped, Account
  <2> QED
    BY <1>1, <1>4, <2>1 DEF EditAccount, RestTyped, photos
<1>5. CASE ListExpired
  BY <1>1, <1>5 DEF ListExpired, RestTyped, photos
<1>6. ASSUME NEW t \in job, Expire(t) PROVE RestTyped'
  BY <1>1, <1>6 DEF Expire, RestTyped, photos
<1>7. CASE Tick
  BY <1>1, <1>7 DEF Tick, RestTyped, photos
<1>8. CASE UNCHANGED vars
  BY <1>1, <1>8 DEF vars, RestTyped, photos
<1> QED
  BY <1>2, <1>3, <1>4, <1>5, <1>6, <1>7, <1>8 DEF Next

----------------------------------------------------------------------------
(* The steps, by what they do to the sessions                               *)

\* Every step is one of these, for the sessions, the token and the points.
SessionsStay == UNCHANGED <<now, sessions, token, points, login>>
ClockMoves == now' \in Time /\ now <= now' /\ UNCHANGED <<sessions, token, points, login>>
LoginMoves == (login' = Idle \/ login'.read = now) /\ UNCHANGED <<now, sessions, token, points>>

LEMMA StepKinds ==
    ASSUME TypeOK, [Next]_vars
    PROVE  \/ SessionsStay \/ ClockMoves \/ LoginMoves \/ SignIn
           \/ \E d \in Devices, i \in DOMAIN sessions :
                \/ \E fg \in BOOLEAN : Heartbeat(d, i, fg)
                \/ Logout(d, i)
                \/ \E t \in Time : ReportPosition(d, i, t)
           \/ \E t \in job : Expire(t)
<1>1. CASE LoginStep
  <2>1. AskLogin => SessionsStay
    BY DEF AskLogin, SessionsStay
  <2>2. ASSUME NEW c \in DOMAIN challenges, BeginVerify(c) PROVE LoginMoves
    BY <2>2 DEF BeginVerify, LoginMoves
  <2>3. AbortVerify \/ RefuseVerify \/ Enrol => LoginMoves
    BY DEF AbortVerify, RefuseVerify, Enrol, LoginMoves
  <2>4. ASSUME NEW e \in DOMAIN enrolments, NEW st \in {"APPROVED", "REJECTED"}, Review(e, st)
        PROVE  SessionsStay
    BY <2>4 DEF Review, SessionsStay
  <2> QED
    BY <1>1, <2>1, <2>2, <2>3, <2>4 DEF LoginStep
<1>2. ASSUME NEW d \in Devices, RequestStep(d), ~SessionsStay
      PROVE  \E i \in DOMAIN sessions :
                \/ \E fg \in BOOLEAN : Heartbeat(d, i, fg)
                \/ Logout(d, i)
                \/ \E t \in Time : ReportPosition(d, i, t)
  BY <1>2 DEF RequestStep, Authenticate, Leave, SessionsStay
<1>3. ASSUME NEW a \in BOOLEAN, NEW x \in BOOLEAN, EditAccount(a, x) PROVE SessionsStay
  BY <1>3 DEF EditAccount, SessionsStay
<1>4. ListExpired => SessionsStay
  BY DEF ListExpired, SessionsStay
<1>5. Tick => ClockMoves
  BY SignInAssumption DEF TypeOK, Tick, ClockMoves, Time
<1>6. UNCHANGED vars => SessionsStay
  BY DEF vars, SessionsStay
<1> QED
  BY <1>1, <1>2, <1>3, <1>4, <1>5, <1>6 DEF Next

\* Sessions that Follow one by one keep the types.
LEMMA SteppedTyped ==
    ASSUME TypeOK, NEW t, Stepped(sessions', t), token' \in {0, token}, points' = points
    PROVE  SessionsTyped'
<1>1. token \in 0..Len(sessions) /\ Len(sessions) \in Nat
  BY SessionRows DEF TypeOK
<1>2. token' \in 0..Len(sessions')
  BY <1>1 DEF Stepped
<1> QED
  BY <1>2 DEF Stepped, SessionsTyped, TypeOK

LEMMA SessionsStep ==
    ASSUME TypeOK, [Next]_vars
    PROVE  now' \in Time /\ SessionsTyped'
<1>1. CASE SessionsStay
  BY <1>1 DEF SessionsStay, TypeOK, SessionsTyped
<1>2. CASE ClockMoves
  BY <1>2 DEF ClockMoves, TypeOK, SessionsTyped
<1>3. CASE LoginMoves
  BY <1>3 DEF LoginMoves, TypeOK, SessionsTyped
<1>4. CASE SignIn
  <2>1. token' = Len(sessions) + 1 /\ points' = points /\ now' = now
    BY <1>4 DEF SignIn
  <2>2. Len(sessions) \in Nat
    BY SessionRows
  <2>3. points' \subseteq (DOMAIN sessions') \X Time
    BY <1>4, <2>1, SignInSteps DEF TypeOK
  <2> QED
    BY <1>4, <2>1, <2>2, <2>3, SignInSteps DEF SessionsTyped, TypeOK
<1>5. ASSUME NEW d \in Devices, NEW i \in DOMAIN sessions, NEW fg \in BOOLEAN, Heartbeat(d, i, fg)
      PROVE  now' \in Time /\ SessionsTyped'
  <2>1. token' = token /\ points' = points /\ now' = now
    BY <1>5 DEF Heartbeat
  <2> QED
    BY <1>5, <2>1, HeartbeatSteps, SteppedTyped DEF TypeOK
<1>6. ASSUME NEW d \in Devices, NEW i \in DOMAIN sessions, Logout(d, i)
      PROVE  now' \in Time /\ SessionsTyped'
  <2>1. token' = 0 /\ points' = points /\ now' = now
    BY <1>6 DEF Logout
  <2> QED
    BY <1>6, <2>1, LogoutSteps, SteppedTyped DEF TypeOK
<1>7. ASSUME NEW d \in Devices, NEW i \in DOMAIN sessions, NEW t \in Time, ReportPosition(d, i, t)
      PROVE  now' \in Time /\ SessionsTyped'
  BY <1>7 DEF ReportPosition, TypeOK, SessionsTyped
<1>8. ASSUME NEW t \in job, Expire(t)
      PROVE  now' \in Time /\ SessionsTyped'
  <2>1. token' = token /\ points' = points /\ now' = now
    BY <1>8 DEF Expire
  <2> QED
    BY <1>8, <2>1, ExpireSteps, SteppedTyped DEF TypeOK
<1> QED
  BY <1>1, <1>2, <1>3, <1>4, <1>5, <1>6, <1>7, <1>8, StepKinds

LEMMA TypeStep ==
    ASSUME TypeOK, [Next]_vars
    PROVE  TypeOK'
BY RestStep, SessionsStep, TypeParts

LEMMA TypeInit ==
    ASSUME Init
    PROVE  TypeOK
<1>1. now \in Time /\ login \in [challenge: 0..Len(challenges), read: Time]
  <2>1. Len(challenges) = 0
    BY EmptySeq DEF Init
  <2> QED
    BY <2>1, IdleTyped, SignInAssumption DEF Init, Time
<1>2. challenges \in Seq(Challenge) /\ sessions \in Seq(Session)
  BY EmptySeq DEF Init
<1>3. enrolments \in Seq({"PENDING", "APPROVED", "REJECTED"})
  <2> DEFINE S == {"PENDING", "APPROVED", "REJECTED"}
  <2>1. <<>> \in Seq(S)
    BY EmptySeq
  <2>2. "PENDING" \in S
    OBVIOUS
  <2>3. <<"PENDING">> \in Seq(S)
    BY <2>2
  <2> QED
    BY <2>1, <2>3 DEF Init
<1>4. account \in Account
  <2>1. CASE account \in [pending: {FALSE}, active: {TRUE}, exempt: BOOLEAN]
    BY <2>1 DEF Account
  <2>2. CASE account = [pending |-> TRUE, active |-> FALSE, exempt |-> FALSE]
    BY <2>2 DEF Account
  <2> QED
    BY <2>1, <2>2 DEF Init
<1>5. token \in 0..Len(sessions)
  <2>1. Len(sessions) = 0
    BY EmptySeq DEF Init
  <2> QED
    BY <2>1 DEF Init
<1> QED
  BY <1>1, <1>2, <1>3, <1>4, <1>5 DEF Init, TypeOK

\* The variables keep their types: the token names a session, the login in progress
\* a challenge, and every position a session.
THEOREM TypeCorrect == Spec => []TypeOK
<1> QED
  BY TypeInit, TypeStep, PTL DEF Spec

----------------------------------------------------------------------------
(* One open session                                                         *)

\* Sessions that Follow, none opened, and the token kept.
LEMMA WayStays ==
    ASSUME TypeOK, OneWayIn, NEW t, Stepped(sessions', t), token' = token
    PROVE  OneWayIn'
BY DEF OneWayIn, Stepped, Follows, IsOpen

LEMMA WayStep ==
    ASSUME TypeOK, OneWayIn, [Next]_vars
    PROVE  OneWayIn'
<1>1. SessionsStay \/ ClockMoves \/ LoginMoves => OneWayIn'
  BY DEF SessionsStay, ClockMoves, LoginMoves, OneWayIn
<1>2. CASE SignIn
  BY <1>2, SignInSteps DEF SignIn, OneWayIn
<1>3. ASSUME NEW d \in Devices, NEW i \in DOMAIN sessions, NEW fg \in BOOLEAN, Heartbeat(d, i, fg)
      PROVE  OneWayIn'
  BY <1>3, HeartbeatSteps, WayStays DEF Heartbeat
<1>4. ASSUME NEW d \in Devices, NEW i \in DOMAIN sessions, Logout(d, i)
      PROVE  OneWayIn'
  <2>1. DOMAIN sessions' = DOMAIN sessions /\ Len(sessions') = Len(sessions) /\ token' = 0
    BY <1>4, LogoutSteps DEF Stepped, Logout
  <2>2. \A j \in DOMAIN sessions : ~IsOpen(sessions'[j])
    BY <1>4, LogoutSteps DEF OneWayIn, Logout
  <2> QED
    BY <2>1, <2>2 DEF OneWayIn
<1>5. ASSUME NEW d \in Devices, NEW i \in DOMAIN sessions, NEW t \in Time, ReportPosition(d, i, t)
      PROVE  OneWayIn'
  BY <1>5 DEF ReportPosition, OneWayIn
<1>6. ASSUME NEW t \in job, Expire(t) PROVE OneWayIn'
  BY <1>6, ExpireSteps, WayStays DEF Expire
<1> QED
  BY <1>1, <1>2, <1>3, <1>4, <1>5, <1>6, StepKinds

LEMMA WayInit ==
    ASSUME Init
    PROVE  OneWayIn
BY EmptySeq, LenProperties DEF Init, OneWayIn

\* Whatever logins, logouts and expiry jobs overlap, only the latest login can be
\* open, and then the token that authenticates is its own.
THEOREM OnlyTheLatestLoginIsOpen == Spec => []OneWayIn
<1>1. Init => TypeOK /\ OneWayIn
  BY TypeInit, WayInit
<1>2. TypeOK /\ OneWayIn /\ [Next]_vars => (TypeOK /\ OneWayIn)'
  BY TypeStep, WayStep
<1> QED
  BY <1>1, <1>2, PTL DEF Spec

----------------------------------------------------------------------------
(* Active time                                                              *)

\* With it: no sign of life is of a time to come.
CountInv == \A i \in DOMAIN sessions : Counted(sessions[i]) /\ sessions[i].last_seen <= now

LEMMA CountIsTheProperty ==
    CountInv => ActiveTimeIsCountedOnce
BY DEF CountInv, Counted, ActiveTimeIsCountedOnce

LEMMA CountFollows ==
    ASSUME NEW s \in Session, NEW r, NEW t, Follows(s, r, t), now \in Time,
           Counted(s), s.last_seen <= now
    PROVE  Counted(r) /\ r.last_seen <= now
BY SessionFields DEF Follows, Time

LEMMA CountStays ==
    ASSUME TypeOK, CountInv, NEW t, Stepped(sessions', t), now' = now
    PROVE  CountInv'
<1> SUFFICES ASSUME NEW i \in DOMAIN sessions
             PROVE  Counted(sessions'[i]) /\ sessions'[i].last_seen <= now
  BY DEF CountInv, Stepped
<1>1. sessions[i] \in Session /\ now \in Time /\ Follows(sessions[i], sessions'[i], t)
  BY SessionRows DEF TypeOK, Stepped
<1> QED
  BY <1>1, CountFollows DEF CountInv

LEMMA CountStep ==
    ASSUME TypeOK, CountInv, [Next]_vars
    PROVE  CountInv'
<1>1. SessionsStay \/ LoginMoves => CountInv'
  BY DEF SessionsStay, LoginMoves, CountInv
<1>2. CASE ClockMoves
  <2> SUFFICES ASSUME NEW i \in DOMAIN sessions PROVE sessions[i].last_seen <= now'
    BY <1>2 DEF ClockMoves, CountInv
  <2>1. sessions[i].last_seen \in Nat /\ now \in Nat /\ now' \in Nat
    BY <1>2, SessionRows, SessionFields DEF ClockMoves, TypeOK, Time
  <2> QED
    BY <1>2, <2>1 DEF CountInv, ClockMoves
<1>3. CASE SignIn
  <2>1. now' = now /\ now \in Time
    BY <1>3 DEF SignIn, TypeOK
  <2>2. ASSUME NEW i \in DOMAIN sessions
        PROVE  Counted(sessions'[i]) /\ sessions'[i].last_seen <= now
    <3>1. sessions[i] \in Session /\ Follows(sessions[i], sessions'[i], login.read)
      BY <1>3, SignInSteps, SessionRows
    <3> QED
      BY <2>1, <3>1, CountFollows DEF CountInv
  <2>3. ASSUME NEW s, Fresh(s) PROVE Counted(s) /\ s.last_seen <= now
    BY <2>1, <2>3 DEF Fresh, Counted, Time
  <2>4. Counted(sessions'[Len(sessions) + 1]) /\ sessions'[Len(sessions) + 1].last_seen <= now
    BY <1>3, <2>3, SignInSteps
  <2>5. \A i \in DOMAIN sessions' : i \in DOMAIN sessions \/ i = Len(sessions) + 1
    BY <1>3, SignInSteps
  <2> QED
    BY <2>1, <2>2, <2>4, <2>5 DEF CountInv
<1>4. ASSUME NEW d \in Devices, NEW i \in DOMAIN sessions, NEW fg \in BOOLEAN, Heartbeat(d, i, fg)
      PROVE  CountInv'
  BY <1>4, HeartbeatSteps, CountStays DEF Heartbeat
<1>5. ASSUME NEW d \in Devices, NEW i \in DOMAIN sessions, Logout(d, i)
      PROVE  CountInv'
  BY <1>5, LogoutSteps, CountStays DEF Logout
<1>6. ASSUME NEW d \in Devices, NEW i \in DOMAIN sessions, NEW t \in Time, ReportPosition(d, i, t)
      PROVE  CountInv'
  BY <1>6 DEF ReportPosition, CountInv
<1>7. ASSUME NEW t \in job, Expire(t) PROVE CountInv'
  BY <1>7, ExpireSteps, CountStays DEF Expire
<1> QED
  BY <1>1, <1>2, <1>3, <1>4, <1>5, <1>6, <1>7, StepKinds

LEMMA CountInit ==
    ASSUME Init
    PROVE  CountInv
BY EmptySeq, LenProperties DEF Init, CountInv

\* The active time of a session fits between its login and its last sign of life or
\* its end: heartbeats, closings and expiries count no second twice.
THEOREM ActiveTimeFits == Spec => []ActiveTimeIsCountedOnce
<1>1. Init => TypeOK /\ CountInv
  BY TypeInit, CountInit
<1>2. TypeOK /\ CountInv /\ [Next]_vars => (TypeOK /\ CountInv)'
  BY TypeStep, CountStep
<1> QED
  BY <1>1, <1>2, CountIsTheProperty, PTL DEF Spec

----------------------------------------------------------------------------
(* Positions                                                                *)

\* A position of time u lies in the session s.
Within(u, s) ==
    /\ s.logged_in <= u /\ u < s.expires
    /\ ~IsOpen(s) => u <= s.ended + Tolerance

\* With it: no position is ahead of the clock, nor of a login under way, by more than
\* the tolerance, so that a login that closes a session leaves none behind its end.
PointsInv ==
    \A p \in points :
        /\ Within(p[2], sessions[p[1]])
        /\ p[2] <= now + Tolerance
        /\ ~RowIsFree => p[2] <= login.read + Tolerance

LEMMA PointsIsTheProperty ==
    PointsInv => PointsAreOfTheirSession
BY DEF PointsInv, Within, PointsAreOfTheirSession

LEMMA WithinFollows ==
    ASSUME NEW s \in Session, NEW r, NEW t \in Time, Follows(s, r, t),
           NEW u \in Time, Within(u, s), u <= t + Tolerance
    PROVE  Within(u, r)
<1>1. /\ s.expires \in Nat /\ s.ended \in Nat /\ r.ended \in Nat /\ s.expires # Never
      /\ t \in Nat /\ u \in Nat /\ Tolerance \in Nat
  BY SessionFields, SignInAssumption DEF Follows, Time
<1>2. r.logged_in = s.logged_in /\ r.expires = s.expires
  BY DEF Follows
<1>3. CASE r.ended = s.ended
  BY <1>2, <1>3 DEF Within, IsOpen
<1>4. CASE r.ended = s.expires \/ t <= r.ended
  BY <1>1, <1>2, <1>4 DEF Within
<1> QED
  BY <1>3, <1>4 DEF Follows

LEMMA PointRows ==
    ASSUME TypeOK, NEW p \in points
    PROVE  /\ p[1] \in DOMAIN sessions /\ sessions[p[1]] \in Session
           /\ p[2] \in Time /\ p[2] \in Nat /\ now \in Time /\ now \in Nat /\ Tolerance \in Nat
           /\ login.read \in Time
BY SessionRows, SignInAssumption DEF TypeOK, Time

\* The sessions end at a clock no earlier than the positions, or at their midnight.
LEMMA PointsStay ==
    ASSUME TypeOK, PointsInv, Stepped(sessions', now),
           UNCHANGED <<now, points, login>>
    PROVE  PointsInv'
<1> SUFFICES ASSUME NEW p \in points PROVE Within(p[2], sessions'[p[1]])
  BY DEF PointsInv, RowIsFree
<1>1. Follows(sessions[p[1]], sessions'[p[1]], now)
  BY PointRows DEF Stepped
<1> QED
  BY <1>1, PointRows, WithinFollows DEF PointsInv

LEMMA PointsStep ==
    ASSUME TypeOK, PointsInv, [Next]_vars
    PROVE  PointsInv'
<1>1. CASE SessionsStay
  BY <1>1 DEF SessionsStay, PointsInv, RowIsFree
<1>2. CASE ClockMoves
  <2> SUFFICES ASSUME NEW p \in points PROVE p[2] <= now' + Tolerance
    BY <1>2 DEF ClockMoves, PointsInv, RowIsFree
  <2>1. now' \in Nat
    BY <1>2 DEF ClockMoves, Time
  <2> QED
    BY <1>2, <2>1, PointRows DEF ClockMoves, PointsInv
<1>3. CASE LoginMoves
  BY <1>3 DEF LoginMoves, PointsInv, RowIsFree
<1>4. CASE SignIn
  <2>1. points' = points /\ now' = now /\ RowIsFree' /\ ~RowIsFree
    BY <1>4 DEF SignIn, RowIsFree
  <2> SUFFICES ASSUME NEW p \in points PROVE Within(p[2], sessions'[p[1]])
    BY <2>1 DEF PointsInv
  <2>2. Follows(sessions[p[1]], sessions'[p[1]], login.read)
    BY <1>4, PointRows, SignInSteps
  <2>3. p[2] <= login.read + Tolerance
    BY <2>1 DEF PointsInv
  <2> QED
    BY <2>2, <2>3, PointRows, WithinFollows DEF PointsInv
<1>5. ASSUME NEW d \in Devices, NEW i \in DOMAIN sessions, NEW fg \in BOOLEAN, Heartbeat(d, i, fg)
      PROVE  PointsInv'
  BY <1>5, HeartbeatSteps, PointsStay DEF Heartbeat
<1>6. ASSUME NEW d \in Devices, NEW i \in DOMAIN sessions, Logout(d, i)
      PROVE  PointsInv'
  BY <1>6, LogoutSteps, PointsStay DEF Logout
<1>7. ASSUME NEW d \in Devices, NEW i \in DOMAIN sessions, NEW t \in Time, ReportPosition(d, i, t)
      PROVE  PointsInv'
  <2>1. /\ UNCHANGED <<now, sessions, login>> /\ points' = points \cup {<<i, t>>} /\ RowIsFree
        /\ sessions[i].logged_in <= t /\ t < Lasted(sessions[i]) /\ t <= now + Tolerance
    BY <1>7 DEF ReportPosition
  <2>2. /\ sessions[i].expires \in Nat /\ sessions[i].ended \in Nat
        /\ t \in Nat /\ Tolerance \in Nat
    BY SessionRows, SessionFields, SignInAssumption DEF Time
  <2>3. Within(t, sessions[i])
    BY <2>1, <2>2 DEF Within, Lasted, Earlier
  <2> QED
    BY <2>1, <2>3 DEF PointsInv, RowIsFree
<1>8. ASSUME NEW t \in job, Expire(t) PROVE PointsInv'
  <2>1. UNCHANGED <<now, points, login>>
    BY <1>8 DEF Expire
  <2>2. Stepped(sessions', t)
    BY <1>8, ExpireSteps
  <2>3. \A j \in DOMAIN sessions : sessions'[j].ended \in {sessions[j].ended, sessions[j].expires}
    BY <1>8, ExpireSteps
  <2>4. Stepped(sessions', now)
    BY <2>2, <2>3 DEF Stepped, Follows
  <2> QED
    BY <2>1, <2>4, PointsStay
<1> QED
  BY <1>1, <1>2, <1>3, <1>4, <1>5, <1>6, <1>7, <1>8, StepKinds

LEMMA PointsInit ==
    ASSUME Init
    PROVE  PointsInv
BY DEF Init, PointsInv

\* Positions sent late, after the session ended and another began, are of the time of
\* their session, up to the tolerance for a phone whose clock is ahead.
THEOREM PositionsLieInTheirSession == Spec => []PointsAreOfTheirSession
<1>1. Init => TypeOK /\ PointsInv
  BY TypeInit, PointsInit
<1>2. TypeOK /\ PointsInv /\ [Next]_vars => (TypeOK /\ PointsInv)'
  BY TypeStep, PointsStep
<1> QED
  BY <1>1, <1>2, PointsIsTheProperty, PTL DEF Spec

----------------------------------------------------------------------------
(* Workload alerts                                                          *)

\* A callback evaluates one caller at a time, and who has a count has a caller
\* to write it for.
TodoInv ==
    \A w \in Workers :
        /\ stage[w] = "callbacks" => Len(todo[w]) <= 1
        /\ count[w] # NotRead => todo[w] # <<>>

\* While a check is alone, all others rest, it knows who can call now, and each
\* of these is in order or still to come; what it counted is still so.
AloneInv ==
    \A w \in alone :
        /\ stage[w] \in {"check", "idle"}
        /\ \A v \in Workers \ {w} : stage[v] = "idle"
        /\ stage[w] = "check" =>
            /\ known[w] = able
            /\ ToSet(todo[w]) \subseteq able
            /\ \A c \in able : c \in ToSet(todo[w]) \/ InSync(c)
            /\ count[w] # NotRead => count[w] = PendingOf(lead, Head(todo[w]))

LEMMA SomeOfType ==
    ASSUME NEW S, NEW Row, NEW f
    PROVE  f \in SomeOf(S, Row) <=> DOMAIN f \subseteq S /\ f \in [DOMAIN f -> Row]
BY Zenon DEF SomeOf

LEMMA NoWritesType ==
    /\ DOMAIN NoWrites = {}
    /\ \A S, Row : NoWrites \in SomeOf(S, Row)
<1>1. DOMAIN NoWrites = {} /\ \A Row : NoWrites \in [DOMAIN NoWrites -> Row]
  BY DEF NoWrites
<1> QED
  BY <1>1, SomeOfType

\* Rows over all rows are all rows, over some rows they are some rows.
LEMMA OverAll ==
    ASSUME NEW S, NEW Row, NEW f \in SomeOf(S, Row), NEW g \in [S -> Row]
    PROVE  /\ Over(f, g) \in [S -> Row]
           /\ \A x \in S : Over(f, g)[x] = IF x \in DOMAIN f THEN f[x] ELSE g[x]
<1>1. DOMAIN f \subseteq S /\ f \in [DOMAIN f -> Row]
  BY SomeOfType
<1>2. DOMAIN f \cup DOMAIN g = S
  BY <1>1
<1> QED
  BY <1>1, <1>2 DEF Over

LEMMA OverSome ==
    ASSUME NEW S, NEW Row, NEW f \in SomeOf(S, Row), NEW g \in SomeOf(S, Row)
    PROVE  Over(f, g) \in SomeOf(S, Row)
<1>1. /\ DOMAIN f \subseteq S /\ f \in [DOMAIN f -> Row]
      /\ DOMAIN g \subseteq S /\ g \in [DOMAIN g -> Row]
  BY SomeOfType
<1>2. Over(f, g) \in [DOMAIN f \cup DOMAIN g -> Row]
  BY <1>1 DEF Over
<1> QED
  BY <1>1, <1>2, SomeOfType

LEMMA OneRow ==
    ASSUME NEW S, NEW Row, NEW x \in S, NEW row \in Row
    PROVE  /\ DOMAIN [y \in {x} |-> row] = {x}
           /\ [y \in {x} |-> row] \in SomeOf(S, Row)
<1>1. DOMAIN [y \in {x} |-> row] = {x} /\ [y \in {x} |-> row] \in [{x} -> Row]
  OBVIOUS
<1> QED
  BY <1>1, SomeOfType

\* A list of a finite set names all of it.
LEMMA ListsAll ==
    ASSUME NEW S, IsFiniteSet(S), NEW s \in SetToSeqs(S)
    PROVE  s \in Seq(S) /\ ToSet(s) = S
<1> DEFINE D == 1..Cardinality(S)
<1>1. Cardinality(S) \in Nat
  BY FS_CardinalityType
<1>2. IsFiniteSet(D) /\ Cardinality(D) = Cardinality(S)
  BY <1>1, FS_Interval
<1>3. s \in [D -> S] /\ \A i, j \in D : i # j => s[i] # s[j]
  BY DEF SetToSeqs
<1>4. s \in Injection(D, S)
  BY <1>3 DEF Injection, IsInjective
<1>5. s \in Surjection(D, S)
  BY <1>2, <1>4, FS_Injection
<1> QED
  BY <1>1, <1>3, <1>5 DEF Surjection, ToSet

\* The head of a list and the others.
LEMMA HeadAndTail ==
    ASSUME NEW S, NEW s \in Seq(S), s # <<>>
    PROVE  /\ Head(s) \in S /\ Tail(s) \in Seq(S)
           /\ ToSet(s) = {Head(s)} \cup ToSet(Tail(s))
<1>1. Len(s) \in Nat /\ Len(s) # 0 /\ DOMAIN s = 1..Len(s)
  BY EmptySeq, LenProperties
<1>2. Head(s) \in S /\ Head(s) = s[1] /\ 1 \in DOMAIN s
  BY <1>1, HeadTailProperties
<1>3. /\ Tail(s) \in Seq(S) /\ Len(Tail(s)) = Len(s) - 1
      /\ \A i \in 1..Len(Tail(s)) : Tail(s)[i] = s[i + 1]
  BY <1>1, HeadTailProperties
<1>4. DOMAIN Tail(s) = 1..(Len(s) - 1)
  BY <1>3, LenProperties
<1>5. ASSUME NEW x \in ToSet(s), x # s[1]
      PROVE  x \in ToSet(Tail(s))
  <2>1. PICK i \in 1..Len(s) : x = s[i]
    BY <1>1 DEF ToSet
  <2>2. i - 1 \in 1..(Len(s) - 1) /\ Tail(s)[i - 1] = s[i]
    BY <1>1, <1>3, <1>4, <1>5, <2>1
  <2> QED
    BY <1>4, <2>1, <2>2 DEF ToSet
<1>6. ASSUME NEW x \in ToSet(Tail(s))
      PROVE  x \in ToSet(s)
  <2>1. PICK i \in 1..(Len(s) - 1) : x = Tail(s)[i]
    BY <1>4 DEF ToSet
  <2>2. i + 1 \in 1..Len(s) /\ Tail(s)[i] = s[i + 1]
    BY <1>1, <1>3, <1>4, <2>1
  <2> QED
    BY <1>1, <2>1, <2>2 DEF ToSet
<1> QED
  BY <1>2, <1>3, <1>5, <1>6 DEF ToSet

LEMMA PendingType ==
    ASSUME NEW rows, NEW c
    PROVE  PendingOf(rows, c) \in 0..Cardinality(Leads)
<1>1. Cardinality(Leads) \in Nat
  BY WorkloadAssumption, FS_CardinalityType
<1> DEFINE T == {l \in Leads : rows[l].owner = c /\ rows[l].pending}
<1>2. IsFiniteSet(T) /\ Cardinality(T) <= Cardinality(Leads)
  BY WorkloadAssumption, FS_Subset
<1>3. Cardinality(T) \in Nat
  BY <1>2, FS_CardinalityType
<1> QED
  BY <1>1, <1>2, <1>3 DEF PendingOf

LEMMA AlertForType ==
    ASSUME NEW n \in 0..Cardinality(Leads)
    PROVE  AlertFor(n) \in Alert
BY DEF AlertFor, Alert

LEMMA TouchedType ==
    ASSUME NEW old \in Lead, NEW new \in Lead
    PROVE  Touched(old, new) \subseteq Callers
BY DEF Touched, Lead

\* What an evaluation writes is an alert, over one table or the other.
LEMMA EvaluatedType ==
    ASSUME AlertsTypeOK, NEW w \in Workers, NEW c \in Callers
    PROVE  /\ Written(w, c) \in Alert
           /\ Evaluated(w, c, alert) \in [Callers -> Alert]
           /\ Evaluated(w, c, written[w]) \in SomeOf(Callers, Alert)
<1>1. Written(w, c) \in Alert
  BY AlertForType DEF Written, AlertsTypeOK, Alert
<1>2. [x \in {c} |-> Written(w, c)] \in SomeOf(Callers, Alert)
  BY <1>1, OneRow
<1>4. alert \in [Callers -> Alert] /\ written[w] \in SomeOf(Callers, Alert)
  BY DEF AlertsTypeOK
<1>3. /\ Over([x \in {c} |-> Written(w, c)], alert) \in [Callers -> Alert]
      /\ Over([x \in {c} |-> Written(w, c)], written[w]) \in SomeOf(Callers, Alert)
  BY <1>2, <1>4, OverAll, OverSome
<1> QED
  BY <1>1, <1>3, <1>4 DEF Evaluated

\* What a save has in hand, and what it writes.
LEMMA SavedForm ==
    ASSUME AlertsTypeOK, NEW w \in Workers, Save(w)
    PROVE  /\ form[w].lead \in Leads /\ form[w].old \in Lead /\ form[w].new \in Lead
           /\ lead[form[w].lead] \in Lead /\ Updated(w) \in Lead
           /\ lead' \in [Leads -> Lead]
           /\ \A l \in Leads : lead'[l] = IF l = form[w].lead THEN Updated(w) ELSE lead[l]
           /\ Missed(w) \subseteq Touched(lead[form[w].lead], Updated(w))
<1>1. form[w] \in Form /\ lead \in [Leads -> Lead]
  BY DEF Save, AlertsTypeOK
<1>2. /\ form[w].lead \in Leads /\ form[w].old \in Lead /\ form[w].new \in Lead
      /\ lead[form[w].lead] \in Lead /\ form[w].new.pending \in BOOLEAN
  BY <1>1 DEF Form, Lead
<1>3. Updated(w) \in Lead
  BY <1>2 DEF Updated, Lead
<1>4. lead' = [lead EXCEPT ![form[w].lead] = Updated(w)]
  BY DEF Save
<1> QED
  BY <1>1, <1>2, <1>3, <1>4 DEF Missed

LEMMA AlertsTypeStep ==
    ASSUME AlertsTypeOK, TodoInv, [AlertsNext]_alertsVars
    PROVE  AlertsTypeOK'
<1> USE WorkloadAssumption
<1>0. CASE UNCHANGED alertsVars
  BY <1>0 DEF AlertsTypeOK, alertsVars, thread, bounds
<1>1. ASSUME NEW w \in Workers, NEW l \in Leads, NEW new \in Lead, NEW whole \in BOOLEAN,
             Peek(w, l, new, whole)
      PROVE  AlertsTypeOK'
  <2>1. [lead |-> l, old |-> lead[l], new |-> new, whole |-> whole] \in Form
    BY DEF AlertsTypeOK, Form
  <2> QED
    BY <1>1, <2>1 DEF AlertsTypeOK, Peek, BeginOther, Begin
<1>12. ASSUME NEW w \in Workers, Save(w)
       PROVE  AlertsTypeOK'
  <2>1. Touched(form[w].old, form[w].new) \subseteq Callers /\ Missed(w) \subseteq Callers
    BY <1>12, SavedForm, TouchedType
  <2> QED
    BY <1>12, <2>1, SavedForm DEF AlertsTypeOK, Save, bounds
<1>2. ASSUME NEW w \in Workers, NEW S \in SUBSET Leads, NEW c \in Callers,
             NEW reassign \in BOOLEAN, BulkAssign(w, S, c, reassign)
      PROVE  AlertsTypeOK'
  <2> DEFINE moved == Moved(S, c, reassign)
             earlier == {lead[l].owner : l \in moved} \ {NoCaller}
             rows == [l \in moved |-> [lead[l] EXCEPT !.owner = c]]
  <2>1. moved \subseteq Leads
    BY DEF Moved
  <2>2. earlier \subseteq Callers
    BY <2>1 DEF AlertsTypeOK, Lead
  <2>3. IsFiniteSet(earlier)
    BY <2>2, FS_Subset
  <2>4. \A order \in SetToSeqs(earlier) : <<c>> \o order \in Seq(Callers)
    <3> SUFFICES ASSUME NEW order \in SetToSeqs(earlier)
                 PROVE  <<c>> \o order \in Seq(Callers)
      OBVIOUS
    <3>1. order \in Seq(earlier)
      BY <2>3, ListsAll
    <3>2. order \in Seq(Callers)
      BY <2>2, <3>1
    <3> QED
      BY <3>2
  <2>5. rows \in [moved -> Lead] /\ DOMAIN rows = moved
    BY <2>1 DEF AlertsTypeOK, Lead
  <2>6. rows \in SomeOf(Leads, Lead)
    BY <2>1, <2>5, SomeOfType
  <2> HIDE DEF moved, earlier, rows
  <2>7. /\ saved' = [saved EXCEPT ![w] = rows]
        /\ \E order \in SetToSeqs(earlier) : todo' = [todo EXCEPT ![w] = <<c>> \o order]
        /\ known' = [known EXCEPT ![w] = able]
        /\ stage' = [stage EXCEPT ![w] = "tx"]
        /\ UNCHANGED <<lead, form, queued>>
        /\ BeginOther(w)
    BY <1>2 DEF BulkAssign, moved, earlier, rows
  <2> QED
    BY <2>4, <2>6, <2>7 DEF AlertsTypeOK, BeginOther, Begin
<1>3. ASSUME NEW w \in Workers, NEW l \in Leads, NEW pending \in BOOLEAN,
             NEW released \in BOOLEAN, Call(w, l, pending, released)
      PROVE  AlertsTypeOK'
  <2> DEFINE row == [owner |-> IF released THEN NoCaller ELSE lead[l].owner, pending |-> pending]
  <2>1. row \in Lead /\ lead[l].owner \in Callers
    BY <1>3 DEF AlertsTypeOK, Lead, Call
  <2>2. [x \in {l} |-> row] \in SomeOf(Leads, Lead)
    BY <2>1, OneRow
  <2>3. <<lead[l].owner>> \in Seq(Callers)
    BY <2>1
  <2> QED
    BY <1>3, <2>2, <2>3 DEF AlertsTypeOK, Call, BeginOther, Begin
<1>4. ASSUME NEW w \in Workers, StartCheck(w)
      PROVE  AlertsTypeOK'
  <2>1. IsFiniteSet(able)
    BY FS_Subset DEF AlertsTypeOK
  <2>2. \A order \in SetToSeqs(able) : order \in Seq(Callers)
    <3>1. \A order \in SetToSeqs(able) : order \in Seq(able)
      BY <2>1, ListsAll
    <3> QED
      BY <3>1 DEF AlertsTypeOK
  <2> QED
    BY <1>4, <2>2 DEF AlertsTypeOK, StartCheck, Begin
<1>5. ASSUME NEW w \in Workers, Read(w)
      PROVE  AlertsTypeOK'
  BY <1>5, PendingType DEF AlertsTypeOK, Read, bounds
<1>6. ASSUME NEW w \in Workers, NEW c \in Callers, Callback(w, c)
      PROVE  AlertsTypeOK'
  <2>1. <<c>> \in Seq(Callers)
    OBVIOUS
  <2> QED
    BY <1>6, <2>1 DEF AlertsTypeOK, Callback, bounds
<1>7. ASSUME NEW w \in Workers, Write(w)
      PROVE  AlertsTypeOK'
  <2> DEFINE c == Head(todo[w])
  <2>1. c \in Callers /\ Tail(todo[w]) \in Seq(Callers)
    BY <1>7, HeadAndTail DEF AlertsTypeOK, Write
  <2>2. /\ Evaluated(w, c, alert) \in [Callers -> Alert]
        /\ Evaluated(w, c, written[w]) \in SomeOf(Callers, Alert)
    BY <2>1, EvaluatedType
  <2>3. Drift(alert', {c}) \subseteq Callers
    BY <2>1 DEF AlertsTypeOK, Drift
  <2>4. stage[w] = "callbacks" => Tail(todo[w]) = <<>>
    <3>1. stage[w] = "callbacks" => Len(todo[w]) = 1
      <4>1. todo[w] \in Seq(Callers) /\ todo[w] # <<>>
        BY <1>7 DEF AlertsTypeOK, Write
      <4>2. Len(todo[w]) \in Nat \ {0}
        BY <4>1, EmptySeq
      <4>3. stage[w] = "callbacks" => Len(todo[w]) <= 1
        BY DEF TodoInv
      <4>4. \A n \in Nat \ {0} : n <= 1 => n = 1
        OBVIOUS
      <4> QED
        BY <4>2, <4>3, <4>4
    <3> QED
      BY <1>7, <2>1, <3>1, HeadTailProperties, EmptySeq DEF AlertsTypeOK, Write
  <2> HIDE DEF c
  <2>5. /\ stage[w] = "tx" => /\ written' = [written EXCEPT ![w] = Evaluated(w, c, @)]
                              /\ UNCHANGED <<alert, drifted>>
        /\ stage[w] # "tx" => /\ alert' = Evaluated(w, c, alert)
                              /\ drifted' = Drift(alert', {c})
                              /\ UNCHANGED written
        /\ todo[w] # <<>>
        /\ todo' = [todo EXCEPT ![w] = Tail(@)]
        /\ count' = [count EXCEPT ![w] = NotRead]
        /\ stage' = [stage EXCEPT ![w] = IF @ = "callbacks" /\ queued[w] = {} THEN "idle" ELSE @]
        /\ UNCHANGED <<lead, able, form, saved, queued, known, alone, bounds>>
    BY <1>7 DEF Write, c
  <2>6. /\ written' \in [Workers -> SomeOf(Callers, Alert)]
        /\ alert' \in [Callers -> Alert] /\ drifted' \subseteq Callers
    BY <2>2, <2>3, <2>5 DEF AlertsTypeOK
  <2>7. \A v \in Workers :
            /\ stage'[v] # "tx" => saved'[v] = NoWrites /\ written'[v] = NoWrites
            /\ stage'[v] # "callbacks" => queued'[v] = {}
            /\ stage'[v] \in {"idle", "form"} => todo'[v] = <<>>
            /\ stage'[v] = "form" => form'[v] \in Form
    BY <2>4, <2>5 DEF AlertsTypeOK
  <2> QED
    BY <2>1, <2>5, <2>6, <2>7 DEF AlertsTypeOK, bounds
<1>8. ASSUME NEW w \in Workers, Commit(w)
      PROVE  AlertsTypeOK'
  <2>1. saved[w] \in SomeOf(Leads, Lead) /\ written[w] \in SomeOf(Callers, Alert)
    BY DEF AlertsTypeOK
  <2>2. lead' \in [Leads -> Lead] /\ alert' \in [Callers -> Alert]
    BY <1>8, <2>1, OverAll DEF AlertsTypeOK, Commit
  <2>3. UNION {Touched(lead[l], saved[w][l]) : l \in DOMAIN saved[w]} \subseteq Callers
    BY <2>1, SomeOfType, TouchedType DEF AlertsTypeOK
  <2>4. Drift(alert', DOMAIN written[w]) \subseteq Callers
    BY <2>1, SomeOfType DEF AlertsTypeOK, Drift
  <2> QED
    BY <1>8, <2>2, <2>3, <2>4, NoWritesType DEF AlertsTypeOK, Commit, bounds
<1>9. ASSUME NEW w \in Workers, EndCheck(w)
      PROVE  AlertsTypeOK'
  <2>1. alert' \in [Callers -> Alert]
    BY <1>9 DEF AlertsTypeOK, EndCheck, Alert
  <2>2. drifted' \subseteq Callers
    BY <1>9 DEF AlertsTypeOK, EndCheck, Drift, Unlisted
  <2>3. queued[w] = {}
    BY <1>9 DEF AlertsTypeOK, EndCheck
  <2> QED
    BY <1>9, <2>1, <2>2, <2>3 DEF AlertsTypeOK, EndCheck, bounds
<1>10. ASSUME NEW w \in Workers, Rollback(w) \/ Crash(w)
       PROVE  AlertsTypeOK'
  <2>1. drifted' \subseteq Callers /\ accidents' \in 0..MaxAccidents /\ alone' \subseteq Workers
    BY <1>10, LenProperties DEF AlertsTypeOK, Rollback, Crash, ToSet
  <2>2. Drop(w)
    BY <1>10 DEF Rollback, Crash
  <2> QED
    BY <2>1, <2>2, NoWritesType DEF AlertsTypeOK, Drop
<1>11. ASSUME NEW c \in Callers, Switch(c)
       PROVE  AlertsTypeOK'
  BY <1>11 DEF AlertsTypeOK, Switch, thread
<1> QED
  BY <1>0, <1>1, <1>2, <1>3, <1>4, <1>5, <1>6, <1>7, <1>8, <1>9, <1>10, <1>11, <1>12
     DEF AlertsNext, Work

LEMMA TodoStep ==
    ASSUME AlertsTypeOK, TodoInv, [AlertsNext]_alertsVars
    PROVE  TodoInv'
<1> USE DEF TodoInv
<1>0. CASE UNCHANGED <<stage, todo, count>>
  BY <1>0
<1>1. ASSUME NEW w \in Workers, stage[w] = "idle", NEW s,
             todo' = [todo EXCEPT ![w] = s], stage' = [stage EXCEPT ![w] = "tx"], count' = count
      PROVE  TodoInv'
  <2>1. count[w] = NotRead
    BY <1>1 DEF AlertsTypeOK
  <2> QED
    BY <1>1, <2>1 DEF AlertsTypeOK
<1>2. ASSUME NEW w \in Workers, StartCheck(w)
      PROVE  TodoInv'
  <2>1. count[w] = NotRead
    BY <1>2 DEF StartCheck, Begin, AlertsTypeOK
  <2> QED
    BY <1>2, <2>1 DEF StartCheck, Begin, AlertsTypeOK
<1>3. ASSUME NEW w \in Workers, Save(w)
      PROVE  TodoInv'
  <2>1. todo[w] = <<>> /\ Len(<<>>) = 0
    BY <1>3 DEF Save, AlertsTypeOK
  <2> QED
    BY <1>3, <2>1 DEF Save, AlertsTypeOK
<1>12. ASSUME NEW w \in Workers, NEW l, NEW new, NEW whole, Peek(w, l, new, whole)
       PROVE  TodoInv'
  BY <1>12 DEF Peek, BeginOther, Begin, AlertsTypeOK
<1>4. ASSUME NEW w \in Workers, Read(w)
      PROVE  TodoInv'
  BY <1>4 DEF Read, AlertsTypeOK
<1>5. ASSUME NEW w \in Workers, NEW c \in Callers, Callback(w, c)
      PROVE  TodoInv'
  <2>1. Len(<<c>>) = 1 /\ <<c>> # <<>>
    OBVIOUS
  <2> QED
    BY <1>5, <2>1 DEF Callback, AlertsTypeOK
<1>6. ASSUME NEW w \in Workers, Write(w)
      PROVE  TodoInv'
  <2>1. todo[w] \in Seq(Callers) /\ todo[w] # <<>>
    BY <1>6 DEF Write, AlertsTypeOK
  <2>2. Len(Tail(todo[w])) = Len(todo[w]) - 1 /\ Len(todo[w]) \in Nat
    BY <2>1, HeadTailProperties, LenProperties
  <2>3. \A v \in Workers : stage'[v] = "callbacks" => stage[v] = "callbacks"
    BY <1>6 DEF Write, AlertsTypeOK
  <2> QED
    BY <1>6, <2>2, <2>3 DEF Write, AlertsTypeOK
<1>7. ASSUME NEW w \in Workers, Commit(w)
      PROVE  TodoInv'
  <2>1. todo[w] = <<>> /\ Len(<<>>) = 0
    BY <1>7 DEF Commit
  <2> QED
    BY <1>7, <2>1 DEF Commit, AlertsTypeOK
<1>8. ASSUME NEW w \in Workers, EndCheck(w) \/ Drop(w)
      PROVE  TodoInv'
  BY <1>8 DEF EndCheck, Drop, AlertsTypeOK
<1>9. ASSUME NEW w \in Workers, NEW S \in SUBSET Leads, NEW c \in Callers,
             NEW reassign \in BOOLEAN, BulkAssign(w, S, c, reassign)
      PROVE  TodoInv'
  <2>1. \E s : todo' = [todo EXCEPT ![w] = s]
    BY <1>9 DEF BulkAssign
  <2> QED
    BY <1>1, <1>9, <2>1 DEF BulkAssign, BeginOther, Begin
<1>10. ASSUME NEW w \in Workers, NEW l \in Leads, NEW pending \in BOOLEAN,
              NEW released \in BOOLEAN, Call(w, l, pending, released)
       PROVE  TodoInv'
  BY <1>1, <1>10 DEF Call, BeginOther, Begin
<1>11. ASSUME NEW c \in Callers, Switch(c)
       PROVE  UNCHANGED <<stage, todo, count>>
  BY <1>11 DEF Switch, thread
<1> QED
  BY <1>0, <1>2, <1>3, <1>4, <1>5, <1>6, <1>7, <1>8, <1>9, <1>10, <1>11, <1>12
     DEF AlertsNext, Work, Rollback, Crash, alertsVars, thread

\* A backlog counts the same unless a lead that changed touches its caller.
LEMMA UntouchedBacklog ==
    ASSUME NEW rows \in [Leads -> Lead], NEW rows2 \in [Leads -> Lead], NEW c \in Callers,
           \A l \in Leads : rows2[l] = rows[l] \/ c \notin Touched(rows[l], rows2[l])
    PROVE  PendingOf(rows2, c) = PendingOf(rows, c)
<1>1. ASSUME NEW l \in Leads
      PROVE  (rows2[l].owner = c /\ rows2[l].pending) <=> (rows[l].owner = c /\ rows[l].pending)
  BY WorkloadAssumption DEF Touched, Lead
<1>2. {l \in Leads : rows2[l].owner = c /\ rows2[l].pending}
        = {l \in Leads : rows[l].owner = c /\ rows[l].pending}
  BY <1>1
<1> QED
  BY <1>2 DEF PendingOf

\* Who waits for a callback of another thread goes on waiting.
AwaitedOf(w, c) == stage[w] = "callbacks" /\ (c \in queued[w] \/ c \in ToSet(todo[w]))

LEMMA EvaluatedStep ==
    ASSUME AlertsTypeOK, TodoInv, EveryChangeIsEvaluated, [AlertsNext]_alertsVars
    PROVE  EveryChangeIsEvaluated'
<1> SUFFICES ASSUME NEW c \in Callers
             PROVE  InSync(c)' \/ c \in drifted' \/ Awaited(c)'
  BY DEF EveryChangeIsEvaluated
<1> USE WorkloadAssumption DEF InSync
<1>c. InSync(c) \/ c \in drifted \/ \E w \in Workers : AwaitedOf(w, c)
  BY DEF EveryChangeIsEvaluated, Awaited, AwaitedOf
<1>a. Awaited(c)' <=> \E w \in Workers : AwaitedOf(w, c)'
  BY DEF Awaited, AwaitedOf
<1>0. ASSUME UNCHANGED <<lead, able, alert, drifted>>,
             \A w \in Workers : AwaitedOf(w, c) => AwaitedOf(w, c)'
      PROVE  InSync(c)' \/ c \in drifted' \/ Awaited(c)'
  BY <1>0, <1>c, <1>a DEF Right
<1>1. ASSUME NEW w \in Workers, Save(w)
      PROVE  InSync(c)' \/ c \in drifted' \/ Awaited(c)'
  <2> DEFINE f == form[w]
  <2>1. /\ f.lead \in Leads /\ lead' \in [Leads -> Lead] /\ lead \in [Leads -> Lead]
        /\ \A l \in Leads : lead'[l] = IF l = f.lead THEN Updated(w) ELSE lead[l]
    BY <1>1, SavedForm DEF AlertsTypeOK
  <2>2. /\ stage[w] = "form" /\ UNCHANGED <<able, alert>>
        /\ drifted' = drifted \cup Missed(w)
        /\ \A v \in Workers : AwaitedOf(v, c) => AwaitedOf(v, c)'
    BY <1>1 DEF Save, AwaitedOf, AlertsTypeOK
  <2>3. CASE c \in Touched(f.old, f.new)
    BY <1>1, <1>a, <2>3 DEF Save, AwaitedOf, AlertsTypeOK
  <2>4. CASE c \in Missed(w)
    BY <2>2, <2>4
  <2>5. CASE c \notin Touched(f.old, f.new) /\ c \notin Missed(w)
    <3>1. c \notin Touched(lead[f.lead], Updated(w))
      <4>1. CASE f.old = lead[f.lead]
        <5>1. /\ f.old \in Lead /\ f.new \in Lead
              /\ Updated(w) = IF f.whole THEN f.new ELSE [f.old EXCEPT !.pending = f.new.pending]
          BY <1>1, <4>1, SavedForm DEF Updated
        <5>2. /\ Updated(w).pending = f.new.pending
              /\ Updated(w).owner = f.new.owner \/ Updated(w).owner = f.old.owner
          BY <5>1 DEF Lead
        <5> HIDE DEF f
        <5> QED
          BY <2>5, <4>1, <5>2 DEF Touched
      <4>2. CASE f.old # lead[f.lead]
        BY <2>5, <4>2 DEF Missed
      <4> QED
        BY <4>1, <4>2
    <3>2. PendingOf(lead', c) = PendingOf(lead, c)
      <4> HIDE DEF f
      <4>1. \A l \in Leads : lead'[l] = lead[l] \/ c \notin Touched(lead[l], lead'[l])
        BY <2>1, <3>1
      <4> QED
        BY <2>1, <4>1, UntouchedBacklog
    <3> QED
      BY <3>2, <2>2, <1>c, <1>a DEF Right
  <2> QED
    BY <2>3, <2>4, <2>5
<1>2. ASSUME NEW w \in Workers,
             \/ \E l \in Leads, new \in Lead, whole \in BOOLEAN : Peek(w, l, new, whole)
             \/ \E S \in SUBSET Leads, d \in Callers, reassign \in BOOLEAN : BulkAssign(w, S, d, reassign)
             \/ \E l \in Leads, pending, released \in BOOLEAN : Call(w, l, pending, released)
             \/ StartCheck(w)
      PROVE  InSync(c)' \/ c \in drifted' \/ Awaited(c)'
  <2>1. /\ UNCHANGED <<lead, able, alert, drifted>>
        /\ stage[w] = "idle"
        /\ \A v \in Workers \ {w} : UNCHANGED <<stage[v], queued[v], todo[v]>>
    BY <1>2 DEF Peek, BulkAssign, Call, StartCheck, BeginOther, Begin, AlertsTypeOK
  <2> QED
    BY <1>0, <2>1 DEF AwaitedOf
<1>3. ASSUME NEW w \in Workers, Read(w)
      PROVE  InSync(c)' \/ c \in drifted' \/ Awaited(c)'
  BY <1>0, <1>3 DEF Read, AwaitedOf
<1>4. ASSUME NEW w \in Workers, NEW d \in Callers, Callback(w, d)
      PROVE  InSync(c)' \/ c \in drifted' \/ Awaited(c)'
  <2>1. ToSet(<<d>>) = {d} /\ ToSet(<<>>) = {}
    BY DEF ToSet
  <2> QED
    BY <1>0, <1>4, <2>1 DEF Callback, AwaitedOf, AlertsTypeOK
<1>5. ASSUME NEW w \in Workers, Write(w)
      PROVE  InSync(c)' \/ c \in drifted' \/ Awaited(c)'
  <2> DEFINE d == Head(todo[w])
  <2>1. todo[w] \in Seq(Callers) /\ todo[w] # <<>>
    BY <1>5 DEF Write, AlertsTypeOK
  <2>2. d \in Callers /\ Tail(todo[w]) \in Seq(Callers) /\ ToSet(todo[w]) = {d} \cup ToSet(Tail(todo[w]))
    BY <2>1, HeadAndTail
  <2>3. stage[w] = "callbacks" => ToSet(todo[w]) = {d}
    <3>1. Len(todo[w]) \in Nat /\ Len(Tail(todo[w])) = Len(todo[w]) - 1
      BY <2>1, HeadTailProperties, LenProperties
    <3>2. stage[w] = "callbacks" => Tail(todo[w]) = <<>>
      BY <2>1, <2>2, <3>1, EmptySeq DEF TodoInv
    <3>3. ToSet(<<>>) = {}
      BY DEF ToSet
    <3> QED
      BY <2>2, <3>2, <3>3
  <2> HIDE DEF d
  <2>4. \A v \in Workers : AwaitedOf(v, c) /\ (v # w \/ c # d \/ stage[w] = "tx") => AwaitedOf(v, c)'
    BY <1>5, <2>3 DEF Write, AwaitedOf, AlertsTypeOK
  <2>5. CASE stage[w] = "tx"
    BY <1>5, <1>0, <2>4, <2>5 DEF Write
  <2>6. CASE stage[w] # "tx"
    <3>1. /\ alert' = Evaluated(w, d, alert) /\ drifted' = Drift(alert', {d})
          /\ UNCHANGED <<lead, able>>
      BY <1>5, <2>6 DEF Write, d
    <3>2. CASE c = d
      BY <3>1, <3>2, <2>2 DEF Drift
    <3>3. CASE c # d
      <4>1. alert'[c] = alert[c]
        BY <3>1, <3>3, <2>2 DEF Evaluated, Over, AlertsTypeOK
      <4>2. c \in drifted => c \in drifted'
        BY <3>1, <3>3 DEF Drift
      <4> QED
        BY <4>1, <4>2, <3>1, <3>3, <2>4, <1>c, <1>a DEF Right
    <3> QED
      BY <3>2, <3>3
  <2> QED
    BY <2>5, <2>6
<1>6. ASSUME NEW w \in Workers, Commit(w)
      PROVE  InSync(c)' \/ c \in drifted' \/ Awaited(c)'
  <2>1. saved[w] \in SomeOf(Leads, Lead) /\ written[w] \in SomeOf(Callers, Alert)
    BY DEF AlertsTypeOK
  <2>2. /\ lead' \in [Leads -> Lead]
        /\ \A l \in Leads : lead'[l] = IF l \in DOMAIN saved[w] THEN saved[w][l] ELSE lead[l]
        /\ \A x \in Callers : alert'[x] = IF x \in DOMAIN written[w] THEN written[w][x] ELSE alert[x]
    <3>1. lead \in [Leads -> Lead] /\ alert \in [Callers -> Alert]
      BY DEF AlertsTypeOK
    <3>2. lead' = Over(saved[w], lead) /\ alert' = Over(written[w], alert)
      BY <1>6 DEF Commit
    <3> QED
      BY <2>1, <3>1, <3>2, OverAll
  <2>3. drifted' = Drift(alert', DOMAIN written[w]) /\ able' = able
    BY <1>6 DEF Commit
  <2>4. \A v \in Workers : AwaitedOf(v, c) => AwaitedOf(v, c)'
    BY <1>6 DEF Commit, AwaitedOf, AlertsTypeOK
  <2>5. CASE c \in DOMAIN written[w]
    BY <2>3, <2>5 DEF Drift
  <2>6. CASE \E l \in DOMAIN saved[w] : c \in Touched(lead[l], saved[w][l])
    <3>1. c \in queued'[w]
      BY <1>6, <2>6 DEF Commit, AlertsTypeOK
    <3>2. stage'[w] = "callbacks"
      BY <1>6, <3>1 DEF Commit, AlertsTypeOK
    <3> QED
      BY <1>a, <3>1, <3>2 DEF AwaitedOf
  <2>7. CASE c \notin DOMAIN written[w] /\ \A l \in DOMAIN saved[w] : c \notin Touched(lead[l], saved[w][l])
    <3>1. PendingOf(lead', c) = PendingOf(lead, c)
      <4>1. lead \in [Leads -> Lead] /\ DOMAIN saved[w] \subseteq Leads
        BY <2>1, SomeOfType DEF AlertsTypeOK
      <4>2. \A l \in Leads : lead'[l] = lead[l] \/ c \notin Touched(lead[l], lead'[l])
        BY <2>2, <2>7
      <4> QED
        BY <2>2, <4>1, <4>2, UntouchedBacklog
    <3>2. alert'[c] = alert[c] /\ (c \in drifted => c \in drifted')
      BY <2>2, <2>3, <2>7 DEF Drift
    <3> QED
      BY <3>1, <3>2, <2>3, <2>4, <1>c, <1>a DEF Right
  <2> QED
    BY <2>5, <2>6, <2>7
<1>7. ASSUME NEW w \in Workers, EndCheck(w)
      PROVE  InSync(c)' \/ c \in drifted' \/ Awaited(c)'
  <2>1. UNCHANGED <<lead, able>> /\ drifted' = Drift(alert', Unlisted(w))
    BY <1>7 DEF EndCheck
  <2>2. CASE c \in Unlisted(w)
    BY <2>1, <2>2 DEF Drift
  <2>3. CASE c \notin Unlisted(w)
    <3>1. alert'[c] = alert[c] /\ (c \in drifted => c \in drifted')
      BY <1>7, <2>1, <2>3 DEF EndCheck, Drift
    <3>2. \A v \in Workers : AwaitedOf(v, c) => AwaitedOf(v, c)'
      BY <1>7 DEF EndCheck, AwaitedOf, AlertsTypeOK
    <3> QED
      BY <2>1, <3>1, <3>2, <1>c, <1>a DEF Right
  <2> QED
    BY <2>2, <2>3
<1>8. ASSUME NEW w \in Workers, Rollback(w) \/ Crash(w)
      PROVE  InSync(c)' \/ c \in drifted' \/ Awaited(c)'
  <2>1. UNCHANGED <<lead, able, alert>> /\ drifted \subseteq drifted'
    BY <1>8 DEF Rollback, Crash, Drop
  <2>2. AwaitedOf(w, c) => c \in drifted'
    BY <1>8 DEF Rollback, Crash, AwaitedOf
  <2>3. \A v \in Workers \ {w} : AwaitedOf(v, c) => AwaitedOf(v, c)'
    BY <1>8 DEF Rollback, Crash, Drop, AwaitedOf, AlertsTypeOK
  <2> QED
    BY <2>1, <2>2, <2>3, <1>c, <1>a DEF Right
<1>9. ASSUME NEW d \in Callers, Switch(d)
      PROVE  InSync(c)' \/ c \in drifted' \/ Awaited(c)'
  <2>1. UNCHANGED <<lead, alert>> /\ drifted' = drifted \cup {d} /\ (c # d => (c \in able' <=> c \in able))
    BY <1>9 DEF Switch
  <2>2. \A v \in Workers : AwaitedOf(v, c) => AwaitedOf(v, c)'
    BY <1>9 DEF Switch, thread, AwaitedOf
  <2> QED
    BY <2>1, <2>2, <1>c, <1>a DEF Right
<1>10. CASE UNCHANGED alertsVars
  BY <1>10, <1>0 DEF alertsVars, thread, AwaitedOf
<1> QED
  BY <1>1, <1>2, <1>3, <1>4, <1>5, <1>6, <1>7, <1>8, <1>9, <1>10 DEF AlertsNext, Work


\* Of a check that is alone, the whole of what is claimed.
AloneOf(w) ==
    /\ stage[w] \in {"check", "idle"}
    /\ \A v \in Workers \ {w} : stage[v] = "idle"
    /\ stage[w] = "check" =>
        /\ known[w] = able
        /\ ToSet(todo[w]) \subseteq able
        /\ \A c \in able : c \in ToSet(todo[w]) \/ InSync(c)
        /\ count[w] # NotRead => count[w] = PendingOf(lead, Head(todo[w]))
    /\ stage[w] = "idle" => \A c \in Callers : InSync(c)

\* An alone check writes what is right of the caller at its head.
LEMMA AloneWrite ==
    ASSUME AlertsTypeOK, TodoInv, NEW w \in alone, AloneOf(w), stage[w] = "check", Write(w)
    PROVE  AloneOf(w)'
<1> DEFINE d == Head(todo[w])
<1>1. todo[w] \in Seq(Callers) /\ todo[w] # <<>> /\ w \in Workers
  BY DEF Write, AlertsTypeOK
<1>2. /\ d \in Callers /\ Tail(todo[w]) \in Seq(Callers)
      /\ ToSet(todo[w]) = {d} \cup ToSet(Tail(todo[w]))
  BY <1>1, HeadAndTail
<1>3. d \in able /\ known[w] = able
  BY <1>2 DEF AloneOf
<1>4. count[w] # NotRead /\ count[w] = PendingOf(lead, d)
  BY <1>3 DEF Write, Capable, AloneOf
<1> HIDE DEF d
<1>5. /\ alert' = Evaluated(w, d, alert)
      /\ todo' = [todo EXCEPT ![w] = Tail(@)]
      /\ count' = [count EXCEPT ![w] = NotRead]
      /\ stage' = stage
      /\ UNCHANGED <<lead, able, known>>
  BY DEF Write, d, AlertsTypeOK
<1>6. stage[w] # "tx" /\ DOMAIN written[w] = {}
  BY <1>1, NoWritesType DEF AlertsTypeOK
<1>7. Written(w, d) = Right(lead, able, d)
  BY <1>3, <1>4 DEF Written, Right
<1>8. /\ alert'[d] = Right(lead, able, d)
      /\ \A c \in Callers \ {d} : alert'[c] = alert[c]
  BY <1>2, <1>5, <1>6, <1>7 DEF Evaluated, Over, AlertsTypeOK
<1>9. \A c \in able : c \in ToSet(Tail(todo[w])) \/ InSync(c)'
  <2> SUFFICES ASSUME NEW c \in able, c \notin ToSet(Tail(todo[w]))
               PROVE  InSync(c)'
    OBVIOUS
  <2>1. alert'[c] = Right(lead, able, c)
    BY <1>2, <1>8 DEF AloneOf, InSync, AlertsTypeOK
  <2> QED
    BY <2>1, <1>5 DEF InSync, Right
<1> QED
  BY <1>1, <1>2, <1>5, <1>9 DEF AloneOf, AlertsTypeOK

\* At its end the listed are in order, and the others are cleared.
LEMMA AloneEnd ==
    ASSUME AlertsTypeOK, NEW w \in alone, AloneOf(w), EndCheck(w)
    PROVE  AloneOf(w)'
<1>1. w \in Workers /\ stage[w] = "check" /\ known[w] = able /\ ToSet(todo[w]) = {}
  BY DEF EndCheck, AloneOf, AlertsTypeOK, ToSet
<1>2. /\ alert' = [c \in Callers |-> IF c \in Unlisted(w) THEN NoAlert ELSE alert[c]]
      /\ stage' = [stage EXCEPT ![w] = "idle"]
      /\ UNCHANGED <<lead, able>>
  BY DEF EndCheck
<1>3. ASSUME NEW c \in Callers
      PROVE  alert'[c] = Right(lead, able, c)
  BY <1>1, <1>2 DEF Unlisted, AloneOf, InSync, Right
<1> QED
  BY <1>1, <1>2, <1>3 DEF AloneOf, AlertsTypeOK, InSync, Right

LEMMA AloneStep ==
    ASSUME AlertsTypeOK, TodoInv, AloneInv, CheckRepairs, [AlertsNext]_alertsVars
    PROVE  AloneInv' /\ CheckRepairs'
<1>a. \A w \in alone : AloneOf(w)
  BY DEF AloneInv, CheckRepairs, AloneOf
<1>b. SUFFICES \A w \in alone' : AloneOf(w)'
  BY DEF AloneInv, CheckRepairs, AloneOf
<1> USE WorkloadAssumption
<1>0. CASE alone' = {}
  BY <1>0
<1>1. ASSUME NEW v \in Workers, StartCheck(v), NEW w \in alone'
      PROVE  AloneOf(w)'
  <2>1. w = v /\ \A u \in Workers \ {w} : stage[u] = "idle"
    BY <1>1 DEF StartCheck
  <2>2. IsFiniteSet(able)
    BY FS_Subset DEF AlertsTypeOK
  <2>3. ToSet(todo'[w]) = able
    <3>1. PICK order \in SetToSeqs(able) : todo' = [todo EXCEPT ![w] = order]
      BY <1>1, <2>1 DEF StartCheck
    <3> QED
      BY <1>1, <2>1, <2>2, <3>1, ListsAll DEF AlertsTypeOK
  <2>4. count[w] = NotRead
    BY <1>1, <2>1 DEF TodoInv, StartCheck, Begin, AlertsTypeOK
  <2> QED
    BY <1>1, <2>1, <2>3, <2>4 DEF StartCheck, Begin, AloneOf, AlertsTypeOK
<1>2. ASSUME NEW v \in Workers, Work(v) \/ Crash(v), NEW w \in alone'
      PROVE  AloneOf(w)'
  <2>1. w \in alone /\ w \in Workers /\ AloneOf(w)
    BY <1>2, <1>a DEF Work, Save, Read, Callback, Write, Commit, EndCheck, Rollback, Crash, AlertsTypeOK
  <2>2. v = w /\ ~Crash(v)
    <3>1. CASE v # w
      <4>1. stage[v] = "idle" /\ todo[v] = <<>>
        BY <2>1, <3>1 DEF AloneOf, AlertsTypeOK
      <4> QED
        BY <1>2, <4>1 DEF Work, Save, Read, Callback, Write, Commit, EndCheck, Rollback, Crash
    <3>2. CASE Crash(w)
      BY <1>2, <3>2 DEF Crash
    <3> QED
      BY <3>1, <3>2
  <2>3. stage[w] \in {"check", "idle"} /\ (stage[w] = "idle" => todo[w] = <<>>)
    BY <2>1 DEF AloneOf, AlertsTypeOK
  <2>4. CASE Read(w)
    <3>1. stage[w] = "check"
      BY <2>3, <2>4 DEF Read
    <3>2. Over(saved[w], lead) = lead
      <4>1. saved[w] = NoWrites /\ lead \in [Leads -> Lead]
        BY <2>1, <3>1 DEF AlertsTypeOK
      <4>2. DOMAIN saved[w] = {} /\ DOMAIN lead = Leads
        BY <4>1, NoWritesType
      <4> QED
        BY <4>1, <4>2 DEF Over
    <3>3. /\ count' = [count EXCEPT ![w] = PendingOf(lead, Head(todo[w]))]
          /\ UNCHANGED <<lead, able, alert, stage, todo, known>>
      BY <2>4, <3>2 DEF Read
    <3> QED
      BY <2>1, <3>1, <3>3 DEF AloneOf, InSync, Right, AlertsTypeOK
  <2>5. CASE Write(w)
    <3>1. stage[w] = "check"
      BY <2>3, <2>5 DEF Write
    <3> QED
      BY <2>1, <2>5, <3>1, AloneWrite
  <2>6. CASE EndCheck(w)
    BY <2>1, <2>6, AloneEnd
  <2> QED
    BY <1>2, <2>2, <2>3, <2>4, <2>5, <2>6 DEF Work, Save, Callback, Commit, Rollback
<1>3. CASE UNCHANGED alertsVars
  BY <1>3, <1>a DEF alertsVars, thread, AloneOf, InSync, Right
<1>4. ASSUME NEW w \in Workers,
             \/ \E l \in Leads, new \in Lead, whole \in BOOLEAN : Peek(w, l, new, whole)
             \/ \E S \in SUBSET Leads, d \in Callers, reassign \in BOOLEAN : BulkAssign(w, S, d, reassign)
             \/ \E l \in Leads, pending, released \in BOOLEAN : Call(w, l, pending, released)
      PROVE  alone' = {}
  BY <1>4 DEF Peek, BulkAssign, Call, BeginOther
<1>5. ASSUME NEW c \in Callers, Switch(c)
      PROVE  alone' = {}
  BY <1>5 DEF Switch
<1> QED
  BY <1>0, <1>1, <1>2, <1>3, <1>4, <1>5 DEF AlertsNext

----------------------------------------------------------------------------

\* The inductive invariant of the alerts.
AlertsInv == AlertsTypeOK /\ TodoInv /\ EveryChangeIsEvaluated /\ AloneInv /\ CheckRepairs

LEMMA AlertsStart == AlertsInit => AlertsInv
<1> SUFFICES ASSUME AlertsInit PROVE AlertsInv
  OBVIOUS
<1> USE WorkloadAssumption DEF AlertsInit
<1>1. \A c \in Callers : Right(lead, able, c) \in Alert
  BY PendingType, AlertForType DEF Right, Alert
<1>2. alert \in [Callers -> Alert]
  BY <1>1
<1>3. saved \in [Workers -> SomeOf(Leads, Lead)] /\ written \in [Workers -> SomeOf(Callers, Alert)]
  BY NoWritesType
<1>4. AlertsTypeOK
  BY <1>2, <1>3 DEF AlertsTypeOK
<1>5. TodoInv /\ AloneInv /\ CheckRepairs
  BY DEF TodoInv, AloneInv, CheckRepairs
<1>6. EveryChangeIsEvaluated
  BY DEF EveryChangeIsEvaluated, InSync
<1> QED
  BY <1>4, <1>5, <1>6 DEF AlertsInv

THEOREM AlertsInvariant == AlertsSpec => []AlertsInv
<1>1. AlertsInv /\ [AlertsNext]_alertsVars => AlertsInv'
  BY AlertsTypeStep, TodoStep, EvaluatedStep, AloneStep DEF AlertsInv
<1> QED
  BY AlertsStart, <1>1, PTL DEF AlertsSpec

\* Every variable of the alerts keeps its type, a thread at rest has nothing to
\* do, and outside a transaction none has writes to show (apps/leads/workload.py:80).
THEOREM AlertsTypeCorrect == AlertsSpec => []AlertsTypeOK
<1>1. AlertsInv => AlertsTypeOK
  BY DEF AlertsInv
<1> QED
  BY AlertsInvariant, <1>1, PTL

\* Whoever has a wrong alert is about to be looked at, or was written from an
\* old count, or lost or won the role, or lost the process that would have
\* looked (apps/leads/signals.py:22), or owned a lead that changed between the
\* look at it and the save of a form (line 38).
THEOREM ChangesAreEvaluated == AlertsSpec => []EveryChangeIsEvaluated
<1>1. AlertsInv => EveryChangeIsEvaluated
  BY DEF AlertsInv
<1> QED
  BY AlertsInvariant, <1>1, PTL

\* A check nobody disturbed leaves every alert true (apps/leads/workload.py:231).
THEOREM ChecksRepair == AlertsSpec => []CheckRepairs
<1>1. AlertsInv => CheckRepairs
  BY DEF AlertsInv
<1> QED
  BY AlertsInvariant, <1>1, PTL

================================================================================
