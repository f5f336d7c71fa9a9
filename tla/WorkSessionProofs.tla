-------------------------- MODULE WorkSessionProofs --------------------------
(***************************************************************************)
(* Theorems about WorkSession for every set of devices and operations,     *)
(* every length of the day and every bound.                                *)
(*                                                                         *)
(* SessionStep says what any step does to the rows of one session: it      *)
(* leaves them alone, begins the session, moves it on, closes it or, when  *)
(* a correction is approved, amends it.  The invariants are proved from    *)
(* these five cases rather than from the actions, and so is the refinement *)
(* of the abstract Timesheet, where a move and a close are each a booking. *)
(***************************************************************************)
EXTENDS WorkSession, SequenceTheorems, TLAPS

LEMMA ConstantFacts ==
    /\ Horizon \in Nat /\ MaxSessions \in Nat /\ MaxChildren \in Nat
    /\ DayLength \in Nat /\ DayLength > 0
    /\ 0 \in Time /\ NotEnded \notin Time
    /\ Time \subseteq Nat /\ Sessions \subseteq Nat \ {NoSession}
BY WorkSessionAssumption DEF WorkSessionAssumption, Time, Sessions, NotEnded, NoSession

LEMMA ChildFacts ==
    ASSUME NEW ch \in Seq(Child)
    PROVE  /\ Len(ch) \in Nat /\ DOMAIN ch = 1..Len(ch)
           /\ \A k \in DOMAIN ch : ch[k] \in Child
           /\ \A k \in DOMAIN ch : ch[k].from \in Time
<1>1. Len(ch) \in Nat /\ DOMAIN ch = 1..Len(ch) /\ \A k \in DOMAIN ch : ch[k] \in Child
  BY LenProperties, ElementOfSeq
<1>2. \A c \in Child : c.from \in Time
  BY DEF Child
<1> QED
  BY <1>1, <1>2

\* Closing the open segments and breaks changes nothing but their end.
LEMMA CloseOpenFacts ==
    ASSUME NEW ch \in Seq(Child), NEW at \in Time
    PROVE  /\ CloseOpen(ch, at) \in Seq(Child)
           /\ Len(CloseOpen(ch, at)) = Len(ch)
           /\ DOMAIN CloseOpen(ch, at) = DOMAIN ch
           /\ OpenChildren(CloseOpen(ch, at)) = {}
           /\ \A k \in DOMAIN ch :
                 /\ CloseOpen(ch, at)[k].kind = ch[k].kind
                 /\ CloseOpen(ch, at)[k].from = ch[k].from
                 /\ CloseOpen(ch, at)[k].to = IF ch[k].to = NotEnded THEN at ELSE ch[k].to
<1> DEFINE closed == CloseOpen(ch, at)
<1>1. Len(ch) \in Nat /\ DOMAIN ch = 1..Len(ch) /\ \A k \in DOMAIN ch : ch[k] \in Child
  BY ChildFacts
<1>2. \A k \in DOMAIN ch :
        closed[k] = IF ch[k].to = NotEnded THEN [ch[k] EXCEPT !.to = at] ELSE ch[k]
  BY DEF CloseOpen
<1>3. \A k \in DOMAIN ch :
        /\ closed[k] \in Child
        /\ closed[k].kind = ch[k].kind /\ closed[k].from = ch[k].from
        /\ closed[k].to = IF ch[k].to = NotEnded THEN at ELSE ch[k].to
  BY <1>1, <1>2 DEF Child
<1>4. DOMAIN closed = 1..Len(ch) /\ closed = [k \in 1..Len(ch) |-> closed[k]]
  BY <1>1 DEF CloseOpen
<1>5. closed \in Seq(Child)
  <2>1. \A k \in 1..Len(ch) : closed[k] \in Child
    BY <1>1, <1>3
  <2> HIDE DEF closed
  <2> QED
    BY <1>1, <1>4, <2>1, IsASeq
<1>6. Len(closed) = Len(ch)
  BY <1>1, <1>4, <1>5, LenProperties
<1>7. OpenChildren(closed) = {}
  BY <1>1, <1>3, <1>4, ConstantFacts DEF OpenChildren
<1> QED
  BY <1>1, <1>3, <1>4, <1>5, <1>6, <1>7

\* What the sequence of segments and breaks is after the next one is opened.
LEMMA OpenedFacts ==
    ASSUME NEW ch \in Seq(Child), NEW at \in Time, NEW kind \in {"segment", "break"},
           OpenChildren(ch) = {}
    PROVE  LET new == Append(ch, Opened(kind, at)) IN
           /\ new \in Seq(Child)
           /\ Len(new) = Len(ch) + 1 /\ DOMAIN new = 1..(Len(ch) + 1)
           /\ new[Len(ch) + 1] = Opened(kind, at)
           /\ \A k \in DOMAIN ch : new[k] = ch[k]
           /\ OpenChildren(new) = {Len(ch) + 1}
<1> DEFINE new == Append(ch, Opened(kind, at))
<1>1. Opened(kind, at) \in Child
  BY DEF Opened, Child
<1>2. Len(ch) \in Nat /\ DOMAIN ch = 1..Len(ch)
  BY LenProperties
<1>3. /\ new \in Seq(Child)
      /\ Len(new) = Len(ch) + 1
      /\ \A k \in 1..Len(new) : new[k] = IF k <= Len(ch) THEN ch[k] ELSE Opened(kind, at)
  BY <1>1, <1>2, AppendProperties
<1>4. DOMAIN new = 1..(Len(ch) + 1)
  BY <1>3, LenProperties
<1> HIDE DEF new
<1>5. new[Len(ch) + 1] = Opened(kind, at) /\ \A k \in DOMAIN ch : new[k] = ch[k]
  BY <1>2, <1>3
<1>6. OpenChildren(new) = {Len(ch) + 1}
  BY <1>2, <1>4, <1>5 DEF OpenChildren, Opened
<1> QED
  BY <1>3, <1>4, <1>5, <1>6 DEF new

----------------------------------------------------------------------------
(* Types                                                                    *)

\* A cutoff that lies before a time of the model is a time of the model.
LEMMA CutoffType ==
    ASSUME TypeOK, NEW s \in Sessions, NEW at \in Time, at > Cutoff(s)
    PROVE  Cutoff(s) \in Time
<1>1. started[s] \in Nat
  BY ConstantFacts DEF TypeOK
<1>2. Day(started[s]) \in Nat
  BY <1>1, ConstantFacts DEF Day
<1>3. \A a \in Nat : a * DayLength \in Nat
  BY ConstantFacts
<1>4. Cutoff(s) \in Nat
  <2>1. Day(started[s]) + 1 \in Nat
    BY <1>2
  <2> QED
    BY <1>3, <2>1 DEF Cutoff, MidnightAfter
<1> QED
  BY <1>4, ConstantFacts DEF Time

LEMMA TypeInit == Init => TypeOK
<1> SUFFICES ASSUME Init PROVE TypeOK
  OBVIOUS
<1>1. /\ 0 \in Time /\ <<>> \in Seq(Child)
      /\ NoRecovery \in [at: Time, todo: SUBSET Sessions]
  BY ConstantFacts, EmptySeq DEF NoRecovery
<1>2. correction \in [Corrections -> Review]
  BY DEF Init, Review
<1>3. children \in [Sessions -> Seq(Child)]
  BY <1>1 DEF Init
<1> QED
  BY <1>1, <1>2, <1>3 DEF Init, TypeOK, Reasons

\* A request that is being answered has read a time of the model.
LEMMA RequestTime ==
    ASSUME TypeOK, NEW d \in Devices, request[d].op \in AllOps
    PROVE  request[d].at \in Time
BY DEF TypeOK, Request, Idle, AllOps

----------------------------------------------------------------------------
(* What a step does to the rows of a session                                *)

\* The step writes the row of s and its segments and breaks, and no other row.
Writes(s, st, from, to, why, ch) ==
    /\ status' = [status EXCEPT ![s] = st]
    /\ started' = [started EXCEPT ![s] = from]
    /\ ended' = [ended EXCEPT ![s] = to]
    /\ reason' = [reason EXCEPT ![s] = why]
    /\ children' = [children EXCEPT ![s] = ch]

Begins(s, at) ==
    /\ status[s] = "NONE" /\ OpenSessions = {}
    /\ Writes(s, "ACTIVE", at, ended[s], reason[s], <<Opened("segment", at)>>)

Moves(s, at, kind) ==
    /\ IsOpen(s) /\ ValidChildren(status[s], children[s]) /\ NotBefore(s, at)
    /\ status[s] = "PAUSED" => kind = "segment"
    /\ Writes(s, IF kind = "break" THEN "PAUSED" ELSE "ACTIVE", started[s], ended[s], reason[s],
              Append(CloseOpen(children[s], at), Opened(kind, at)))

Completes(s, at, why) ==
    /\ IsOpen(s) /\ ValidChildren(status[s], children[s]) /\ NotBefore(s, at)
    /\ Writes(s, "COMPLETED", started[s], at, why, CloseOpen(children[s], at))

AutoCloses(s) ==
    /\ s \in recovery.todo /\ MayAutoClose(s, recovery.at)
    /\ Writes(s, "AUTO_CLOSED", started[s], Cutoff(s), "MIDNIGHT_CUTOFF",
              CloseOpen(children[s], Cutoff(s)))

Amends(s, at) ==
    /\ started[s] <= at /\ \E k \in Corrections : s \in CorrectedSessions(k)
    /\ Writes(s, "COMPLETED", started[s], at, "ADMIN_OVERRIDE", children[s])

SessionStepOf(s) ==
    \/ AutoCloses(s)
    \/ \E at \in Time :
          \/ Begins(s, at)
          \/ Amends(s, at)
          \/ \E kind \in {"segment", "break"} : Moves(s, at, kind)
          \/ \E why \in Reasons : Completes(s, at, why)

\* Every step leaves all sessions alone or does one of the five things to one.
LEMMA SessionStep ==
    ASSUME TypeOK, [Next]_vars
    PROVE  UNCHANGED session \/ \E s \in Sessions : SessionStepOf(s)
<1> DEFINE Goal == UNCHANGED session \/ \E s \in Sessions : SessionStepOf(s)
<1>0. /\ \A s \in Sessions : status = [status EXCEPT ![s] = @]
      /\ \A s \in Sessions : started = [started EXCEPT ![s] = @]
      /\ \A s \in Sessions : ended = [ended EXCEPT ![s] = @]
      /\ \A s \in Sessions : reason = [reason EXCEPT ![s] = @]
      /\ \A s \in Sessions : children = [children EXCEPT ![s] = @]
  BY DEF TypeOK
<1>1. ASSUME NEW d \in Devices, NEW s \in Sessions, Start(d, s) PROVE Goal
  <2>1. request[d].at \in Time
    BY <1>1, RequestTime DEF Start, AllOps
  <2>2. Begins(s, request[d].at)
    BY <1>0, <1>1 DEF Start, MayStart, Begins, Writes
  <2> QED
    BY <2>1, <2>2 DEF SessionStepOf
<1>2. ASSUME NEW d \in Devices, NEW s \in Sessions, Pause(d, s) PROVE Goal
  <2>1. request[d].at \in Time
    BY <1>2, RequestTime DEF Pause, Commits, AllOps
  <2>2. Moves(s, request[d].at, "break")
    BY <1>0, <1>2 DEF Pause, MoveOn, MayMoveOn, Moves, Writes, IsOpen, OpenStatuses
  <2> QED
    BY <2>1, <2>2 DEF SessionStepOf
<1>3. ASSUME NEW d \in Devices, NEW s \in Sessions, Resume(d, s) PROVE Goal
  <2>1. request[d].at \in Time
    BY <1>3, RequestTime DEF Resume, Commits, AllOps
  <2>2. Moves(s, request[d].at, "segment")
    BY <1>0, <1>3 DEF Resume, MoveOn, MayMoveOn, Moves, Writes, IsOpen, OpenStatuses
  <2> QED
    BY <2>1, <2>2 DEF SessionStepOf
<1>4. ASSUME NEW d \in Devices, NEW s \in Sessions, Switch(d, s) PROVE Goal
  <2>1. request[d].at \in Time
    BY <1>4, RequestTime DEF Switch, Commits, AllOps
  <2>2. Moves(s, request[d].at, "segment")
    <3>1. status[s] = "ACTIVE" /\ status' = [status EXCEPT ![s] = "ACTIVE"]
      BY <1>0, <1>4 DEF Switch, MoveOn, MayMoveOn
    <3> QED
      BY <1>0, <1>4, <3>1 DEF Switch, MoveOn, MayMoveOn, Moves, Writes, IsOpen, OpenStatuses
  <2> QED
    BY <2>1, <2>2 DEF SessionStepOf
<1>5. ASSUME NEW s \in Sessions, NEW at \in Time, NEW why \in Reasons, Finish(s, at, why)
      PROVE  Goal
  <2>1. Completes(s, at, why)
    BY <1>0, <1>5 DEF Finish, MayFinish, Completes, Writes
  <2> QED
    BY <2>1 DEF SessionStepOf
<1>6. ASSUME NEW d \in Devices, NEW s \in Sessions, End(d, s) PROVE Goal
  <2>1. request[d].at \in Time
    BY <1>6, RequestTime DEF End, Commits, AllOps
  <2> QED
    BY <1>5, <1>6, <2>1 DEF End, Reasons
<1>7. ASSUME NEW s \in Sessions, AdminClose(s) PROVE Goal
  BY <1>5, <1>7 DEF AdminClose, Reasons, TypeOK
<1>8. ASSUME NEW s \in Sessions, RecoverOne(s) PROVE Goal
  <2>1. CASE MayAutoClose(s, recovery.at)
    <3>1. AutoCloses(s)
      BY <1>0, <1>8, <2>1 DEF RecoverOne, AutoCloses, Writes
    <3> QED
      BY <3>1 DEF SessionStepOf
  <2>2. CASE ~MayAutoClose(s, recovery.at)
    BY <1>8, <2>2 DEF RecoverOne, session
  <2> QED
    BY <2>1, <2>2
<1>9. ASSUME NEW k \in Corrections, NEW s \in Sessions, NEW at \in Time,
             ApproveCheckout(k, s, at)
      PROVE  Goal
  <2>1. Amends(s, at)
    BY <1>0, <1>9 DEF ApproveCheckout, Amends, Writes
  <2> QED
    BY <2>1 DEF SessionStepOf
<1>10. CASE \/ RecoverScan \/ Tick \/ UNCHANGED vars
            \/ \E d \in Devices : Refuse(d)
            \/ \E d \in Devices, op \in Ops : Ask(d, op)
            \/ \E d \in Devices, s \in Sessions : Find(d, s)
            \/ \E k \in Corrections, verdict \in {"APPROVED", "REJECTED"} : Decide(k, verdict)
  BY <1>10 DEF RecoverScan, Tick, vars, Refuse, Ask, Find, Decide
<1> QED
  BY <1>1, <1>2, <1>3, <1>4, <1>6, <1>7, <1>8, <1>9, <1>10 DEF Next, RequestStep, ReviewStep

LEMMA SessionTypeStep ==
    ASSUME TypeOK, [Next]_vars
    PROVE  /\ status' \in [Sessions -> OpenStatuses \cup ClosedStatuses \cup {"NONE"}]
           /\ started' \in [Sessions -> Time]
           /\ ended' \in [Sessions -> Time \cup {NotEnded}]
           /\ reason' \in [Sessions -> Reasons]
           /\ children' \in [Sessions -> Seq(Child)]
<1> DEFINE Typed == /\ status' \in [Sessions -> OpenStatuses \cup ClosedStatuses \cup {"NONE"}]
                    /\ started' \in [Sessions -> Time]
                    /\ ended' \in [Sessions -> Time \cup {NotEnded}]
                    /\ reason' \in [Sessions -> Reasons]
                    /\ children' \in [Sessions -> Seq(Child)]
<1>1. ASSUME NEW s \in Sessions, NEW st \in OpenStatuses \cup ClosedStatuses,
             NEW from \in Time, NEW to \in Time \cup {NotEnded}, NEW why \in Reasons,
             NEW ch \in Seq(Child), Writes(s, st, from, to, why, ch)
      PROVE  Typed
  BY <1>1 DEF TypeOK, Writes
<1>2. ASSUME NEW s \in Sessions
      PROVE  /\ status[s] \in OpenStatuses \cup ClosedStatuses \cup {"NONE"}
             /\ started[s] \in Time /\ ended[s] \in Time \cup {NotEnded}
             /\ reason[s] \in Reasons /\ children[s] \in Seq(Child)
  BY <1>2 DEF TypeOK
<1>3. ASSUME NEW s \in Sessions, NEW at \in Time, Begins(s, at) PROVE Typed
  <2>1. Opened("segment", at) \in Child
    BY DEF Opened, Child
  <2>2. <<Opened("segment", at)>> \in Seq(Child)
    BY <2>1
  <2> QED
    BY <1>1, <1>2, <1>3, <2>2 DEF Begins, OpenStatuses
<1>4. ASSUME NEW s \in Sessions, NEW at \in Time, NEW kind \in {"segment", "break"},
             Moves(s, at, kind)
      PROVE  Typed
  <2>1. Append(CloseOpen(children[s], at), Opened(kind, at)) \in Seq(Child)
    BY <1>2, CloseOpenFacts, OpenedFacts
  <2> QED
    BY <1>1, <1>2, <1>4, <2>1 DEF Moves, OpenStatuses
<1>5. ASSUME NEW s \in Sessions, NEW at \in Time, NEW why \in Reasons, Completes(s, at, why)
      PROVE  Typed
  BY <1>1, <1>2, <1>5, CloseOpenFacts DEF Completes, ClosedStatuses
<1>6. ASSUME NEW s \in Sessions, AutoCloses(s) PROVE Typed
  <2>1. recovery.at \in Time /\ recovery.at > Cutoff(s)
    BY <1>6 DEF AutoCloses, MayAutoClose, TypeOK
  <2>2. Cutoff(s) \in Time
    BY <2>1, CutoffType
  <2> QED
    BY <1>1, <1>2, <1>6, <2>2, CloseOpenFacts DEF AutoCloses, ClosedStatuses, Reasons
<1>7. ASSUME NEW s \in Sessions, NEW at \in Time, Amends(s, at) PROVE Typed
  BY <1>1, <1>2, <1>7 DEF Amends, ClosedStatuses, Reasons
<1>8. CASE UNCHANGED session
  BY <1>8 DEF session, TypeOK
<1> QED
  BY <1>3, <1>4, <1>5, <1>6, <1>7, <1>8, SessionStep DEF SessionStepOf

LEMMA TypeStep == TypeOK /\ [Next]_vars => TypeOK'
<1> SUFFICES ASSUME TypeOK, [Next]_vars PROVE TypeOK'
  OBVIOUS
<1> DEFINE Rest == /\ clock' \in Time
                   /\ request' \in [Devices -> Request \cup {Idle}]
                   /\ recovery' \in [at: Time, todo: SUBSET Sessions]
                   /\ correction' \in [Corrections -> Review]
<1>1. ASSUME NEW d \in Devices, NEW op \in Ops, Ask(d, op) PROVE Rest
  <2>1. [op |-> op, at |-> clock, sid |-> NoSession] \in Request
    BY WorkSessionAssumption DEF WorkSessionAssumption, TypeOK, Request
  <2> QED
    BY <1>1, <2>1 DEF Ask, TypeOK
<1>2. ASSUME NEW d \in Devices, NEW s \in Sessions, Find(d, s) PROVE Rest
  <2>1. request[d] \in Request
    BY <1>2 DEF Find, FoundIn, TypeOK, Idle
  <2>2. [request[d] EXCEPT !.sid = s] \in Request
    BY <2>1 DEF Request
  <2> QED
    BY <1>2, <2>2 DEF Find, TypeOK
<1>3. ASSUME NEW d \in Devices, NEW s \in Sessions, Start(d, s) PROVE Rest
  <2>1. \A k \in Corrections : correction[k] \in Review /\ [correction[k] EXCEPT !.sid = s] \in Review
    BY DEF TypeOK, Review
  <2>2. correction' \in [Corrections -> Review]
    BY <1>3, <2>1 DEF Start
  <2> QED
    BY <1>3, <2>2 DEF Start, TypeOK
<1>4. ASSUME NEW d \in Devices, NEW s \in Sessions,
             Pause(d, s) \/ Resume(d, s) \/ Switch(d, s) \/ End(d, s)
      PROVE  Rest
  BY <1>4 DEF Pause, Resume, Switch, End, Commits, MoveOn, Finish, TypeOK
<1>5. ASSUME NEW d \in Devices, Refuse(d) PROVE Rest
  BY <1>5 DEF Refuse, TypeOK
<1>6. ASSUME NEW s \in Sessions, AdminClose(s) PROVE Rest
  BY <1>6 DEF AdminClose, Finish, TypeOK
<1>7. ASSUME NEW s \in Sessions, RecoverOne(s) PROVE Rest
  BY <1>7, ConstantFacts DEF RecoverOne, NoRecovery, TypeOK
<1>8. ASSUME RecoverScan PROVE Rest
  <2>1. OpenSessions \subseteq Sessions
    BY DEF OpenSessions
  <2> QED
    BY <1>8, <2>1 DEF RecoverScan, TypeOK
<1>9. ASSUME NEW k \in Corrections, NEW s \in Sessions, NEW at \in Time,
             ApproveCheckout(k, s, at)
      PROVE  Rest
  BY <1>9 DEF ApproveCheckout, TypeOK, Review
<1>10. ASSUME NEW k \in Corrections, NEW verdict \in {"APPROVED", "REJECTED"},
              Decide(k, verdict)
       PROVE  Rest
  BY <1>10 DEF Decide, TypeOK, Review
<1>11. ASSUME Tick PROVE Rest
  <2>1. clock' \in Time
    BY <1>11, ConstantFacts DEF Tick, TypeOK, Time
  <2> QED
    BY <1>11, <2>1 DEF Tick, TypeOK
<1>12. ASSUME UNCHANGED vars PROVE Rest
  BY <1>12 DEF vars, TypeOK
<1> HIDE DEF Rest
<1>13. Rest
  <2>1. ASSUME NEW d \in Devices, RequestStep(d) PROVE Rest
    BY <1>1, <1>2, <1>3, <1>4, <1>5, <2>1 DEF RequestStep
  <2>2. ASSUME NEW k \in Corrections, ReviewStep(k) PROVE Rest
    BY <1>9, <1>10, <2>2 DEF ReviewStep
  <2> QED
    BY <1>6, <1>7, <1>8, <1>11, <1>12, <2>1, <2>2 DEF Next
<1> QED
  BY <1>13, SessionTypeStep DEF TypeOK, Rest

\* Every reachable state is well typed: in particular every end that is stored is
\* a time that the clock can show, the midnight of an automatic closure included.
THEOREM TypeCorrect == Spec => []TypeOK
BY TypeInit, TypeStep, PTL DEF Spec

----------------------------------------------------------------------------
(* One shift, and shifts that have ended                                    *)

\* Two starts, two logins or a login and a start never leave the employee with
\* two open shifts, whatever they looked up before the user row was locked.
THEOREM OneShift == Spec => []OneShiftAtATime
<1>1. Init => OneShiftAtATime
  BY DEF Init, OneShiftAtATime, OpenSessions, IsOpen, OpenStatuses
<1>2. TypeOK /\ OneShiftAtATime /\ [Next]_vars => OneShiftAtATime'
  <2> SUFFICES ASSUME TypeOK, OneShiftAtATime, [Next]_vars,
                      NEW q \in OpenSessions', NEW r \in OpenSessions'
               PROVE  q = r
    BY DEF OneShiftAtATime
  <2>1. CASE UNCHANGED session
    BY <2>1 DEF session, OneShiftAtATime, OpenSessions, IsOpen
  <2>2. ASSUME NEW s \in Sessions, NEW at \in Time, Begins(s, at) PROVE q = r
    BY <2>2 DEF Begins, Writes, OpenSessions, IsOpen, TypeOK
  <2>3. ASSUME NEW s \in Sessions, NEW at \in Time, NEW kind \in {"segment", "break"},
               Moves(s, at, kind)
        PROVE  q = r
    <3>1. OpenSessions' \subseteq OpenSessions
      BY <2>3 DEF Moves, Writes, OpenSessions, IsOpen, TypeOK
    <3> QED
      BY <3>1 DEF OneShiftAtATime
  <2>4. ASSUME NEW s \in Sessions,
               \/ AutoCloses(s)
               \/ \E at \in Time : Amends(s, at)
               \/ \E at \in Time, why \in Reasons : Completes(s, at, why)
        PROVE  q = r
    <3>1. OpenSessions' \subseteq OpenSessions
      BY <2>4 DEF AutoCloses, Amends, Completes, Writes, OpenSessions, IsOpen, OpenStatuses,
         TypeOK
    <3> QED
      BY <3>1 DEF OneShiftAtATime
  <2> QED
    BY <2>1, <2>2, <2>3, <2>4, SessionStep DEF SessionStepOf
<1> QED
  BY <1>1, <1>2, TypeCorrect, PTL DEF Spec

\* What a step may do to a session that has ended: nothing, or amend it.
LEMMA EndedStep ==
    ASSUME TypeOK, [Next]_vars, NEW r \in Sessions, status[r] \in ClosedStatuses
    PROVE  \/ /\ status'[r] = status[r] /\ started'[r] = started[r] /\ ended'[r] = ended[r]
              /\ reason'[r] = reason[r] /\ children'[r] = children[r]
           \/ \E at \in Time : Amends(r, at)
<1>1. CASE UNCHANGED session
  BY <1>1 DEF session
<1>2. ASSUME NEW s \in Sessions, SessionStepOf(s), s = r PROVE \E at \in Time : Amends(r, at)
  BY <1>2 DEF SessionStepOf, AutoCloses, MayAutoClose, Begins, Moves, Completes, IsOpen,
     OpenStatuses, ClosedStatuses
<1>3. ASSUME NEW s \in Sessions, SessionStepOf(s), s # r
      PROVE  /\ status'[r] = status[r] /\ started'[r] = started[r] /\ ended'[r] = ended[r]
             /\ reason'[r] = reason[r] /\ children'[r] = children[r]
  <2>1. \E st, from, to, why, ch : Writes(s, st, from, to, why, ch)
    BY <1>3 DEF SessionStepOf, AutoCloses, Begins, Moves, Completes, Amends
  <2> QED
    BY <1>3, <2>1 DEF Writes, TypeOK
<1> QED
  BY <1>1, <1>2, <1>3, SessionStep

\* No step opens a shift again once it has ended, not even the approval of a
\* correction, which does rewrite it.
THEOREM ClosedStays == Spec => ClosedStaysClosed
<1>1. TypeOK /\ [Next]_vars => [ReopenStep]_vars
  <2> SUFFICES ASSUME TypeOK, [Next]_vars, NEW s \in Sessions, status[s] \in ClosedStatuses
               PROVE  status'[s] \in ClosedStatuses
    BY DEF ReopenStep
  <2> QED
    BY EndedStep DEF Amends, Writes, ClosedStatuses, TypeOK
<1> QED
  BY <1>1, TypeCorrect, PTL DEF Spec, ClosedStaysClosed

\* While no correction awaits review, nobody writes to a shift that has ended: a
\* request that had found it open, the midnight job and a manager all read its
\* status again under the lock.
THEOREM Frozen ==
    ASSUME Corrections = {}
    PROVE  Spec => FinishedSessionIsFrozen
<1>1. TypeOK /\ [Next]_vars => [FrozenStep]_vars
  BY EndedStep DEF FrozenStep, Amends
<1> QED
  BY <1>1, TypeCorrect, PTL DEF Spec, FinishedSessionIsFrozen

----------------------------------------------------------------------------
(* The midnight job                                                         *)

\* The job never carries a time that the clock has not shown yet.
NoTimeTravel == recovery.at <= clock

LEMMA NoTimeTravelStep ==
    ASSUME TypeOK, NoTimeTravel, [Next]_vars
    PROVE  NoTimeTravel' /\ clock <= clock'
<1> USE ConstantFacts
<1>1. clock \in Nat /\ recovery.at \in Nat
  BY DEF TypeOK
<1>2. clock' = clock \/ clock' = clock + 1
  BY DEF Next, RequestStep, ReviewStep, Ask, Find, Refuse, Start, Pause, Resume, Switch, End,
     MoveOn, Finish, AdminClose, RecoverScan, RecoverOne, ApproveCheckout, Decide, Tick, vars
<1>3. recovery'.at = recovery.at \/ recovery'.at = 0 \/ recovery'.at = clock
  <2>1. CASE UNCHANGED recovery
    BY <2>1
  <2>2. CASE RecoverScan
    BY <2>2 DEF RecoverScan
  <2>3. ASSUME NEW s \in Sessions, RecoverOne(s)
        PROVE  recovery'.at = recovery.at \/ recovery'.at = 0
    BY <2>3 DEF RecoverOne, NoRecovery, TypeOK
  <2> QED
    BY <2>1, <2>2, <2>3
    DEF Next, RequestStep, ReviewStep, Ask, Find, Refuse, Start, Pause, Resume, Switch, End,
        MoveOn, Finish, AdminClose, ApproveCheckout, Decide, Tick, vars
<1> QED
  BY <1>1, <1>2, <1>3 DEF NoTimeTravel

LEMMA AutoClosedStep ==
    ASSUME TypeOK, NoTimeTravel, AutoClosedAtMidnight, [Next]_vars
    PROVE  AutoClosedAtMidnight'
<1> DEFINE Closed(r) == /\ ended'[r] = MidnightAfter(started'[r])
                        /\ clock' > MidnightAfter(started'[r])
                        /\ \A k \in DOMAIN children'[r] :
                              children'[r][k].from < MidnightAfter(started'[r])
<1>1. SUFFICES ASSUME NEW r \in Sessions, status'[r] = "AUTO_CLOSED" PROVE Closed(r)
  BY DEF AutoClosedAtMidnight, Cutoff, MidnightAfter, Day
<1>2. clock \in Nat /\ clock' \in Nat /\ clock <= clock' /\ recovery.at \in Nat
      /\ recovery.at <= clock
  BY NoTimeTravelStep, TypeStep, ConstantFacts DEF TypeOK, NoTimeTravel
<1>3. ASSUME status[r] = "AUTO_CLOSED", ended'[r] = ended[r], started'[r] = started[r],
             children'[r] = children[r]
      PROVE  Closed(r)
  <2>1. /\ ended[r] = Cutoff(r) /\ clock > Cutoff(r)
        /\ \A k \in DOMAIN children[r] : children[r][k].from < Cutoff(r)
    BY <1>3 DEF AutoClosedAtMidnight
  <2>2. Cutoff(r) \in Nat
    BY <2>1, CutoffType, ConstantFacts DEF TypeOK
  <2> QED
    BY <1>2, <1>3, <2>1, <2>2 DEF Cutoff
<1>4. CASE UNCHANGED session
  BY <1>1, <1>3, <1>4 DEF session
<1>5. ASSUME NEW s \in Sessions, SessionStepOf(s), s # r PROVE Closed(r)
  <2>1. \E st, from, to, why, ch : Writes(s, st, from, to, why, ch)
    BY <1>5 DEF SessionStepOf, AutoCloses, Begins, Moves, Completes, Amends
  <2> QED
    BY <1>1, <1>3, <1>5, <2>1 DEF Writes, TypeOK
<1>6. CASE AutoCloses(r)
  <2>1. /\ recovery.at > Cutoff(r) /\ WithinDay(r)
        /\ ended'[r] = Cutoff(r) /\ started'[r] = started[r]
        /\ children'[r] = CloseOpen(children[r], Cutoff(r))
    BY <1>6 DEF AutoCloses, MayAutoClose, Writes, TypeOK
  <2>2. Cutoff(r) \in Time /\ children[r] \in Seq(Child)
    BY <1>2, <2>1, CutoffType DEF TypeOK
  <2>3. \A k \in DOMAIN children'[r] : children'[r][k].from < Cutoff(r)
    BY <2>1, <2>2, CloseOpenFacts DEF WithinDay
  <2>4. clock' > Cutoff(r)
    <3>1. Cutoff(r) \in Nat /\ recovery.at > Cutoff(r)
      BY <2>1, <2>2, ConstantFacts
    <3> HIDE DEF Closed
    <3> QED
      BY <1>2, <3>1
  <2> QED
    BY <2>1, <2>3, <2>4 DEF Cutoff
<1>7. ASSUME SessionStepOf(r), ~AutoCloses(r) PROVE FALSE
  BY <1>1, <1>7 DEF SessionStepOf, Begins, Moves, Completes, Amends, Writes, TypeOK
<1> QED
  BY <1>4, <1>5, <1>6, <1>7, SessionStep

\* However late the job runs and whatever the devices did in between, a session it
\* closes ends at its own midnight, which has passed, and no segment or break of
\* it begins later; nothing that happens afterwards changes that.
THEOREM AutoClosed == Spec => []AutoClosedAtMidnight
<1>1. Init => NoTimeTravel /\ AutoClosedAtMidnight
  <2>1. Init => NoTimeTravel
    <3>1. Init => recovery = NoRecovery /\ clock = 0
      BY DEF Init
    <3>2. NoRecovery.at = 0
      BY DEF NoRecovery
    <3> QED
      BY <3>1, <3>2 DEF NoTimeTravel
  <2>2. Init => \A s \in Sessions : status[s] # "AUTO_CLOSED"
    BY DEF Init
  <2> QED
    BY <2>1, <2>2 DEF AutoClosedAtMidnight
<1>2. TypeOK /\ NoTimeTravel /\ AutoClosedAtMidnight /\ [Next]_vars
      => NoTimeTravel' /\ AutoClosedAtMidnight'
  BY NoTimeTravelStep, AutoClosedStep
<1> QED
  BY <1>1, <1>2, TypeCorrect, PTL DEF Spec

----------------------------------------------------------------------------
(* Segments and breaks                                                      *)

LEMMA FirstSegment ==
    ASSUME NEW at \in Time
    PROVE  LET ch == <<Opened("segment", at)>> IN
           /\ ch \in Seq(Child) /\ Len(ch) = 1 /\ DOMAIN ch = 1..1
           /\ ch[1] = Opened("segment", at) /\ OpenChildren(ch) = {1}
<1> DEFINE ch == <<Opened("segment", at)>>
<1>1. Opened("segment", at) \in Child /\ Opened("segment", at).to = NotEnded
  BY DEF Opened, Child
<1>2. ch \in Seq(Child) /\ Len(ch) = 1 /\ DOMAIN ch = 1..1 /\ ch[1] = Opened("segment", at)
  BY <1>1
<1>3. OpenChildren(ch) = {1}
  <2> HIDE DEF ch
  <2> QED
    BY <1>1, <1>2 DEF OpenChildren
<1> QED
  BY <1>2, <1>3

\* The end of the session was not amended: it has none, or no end is ever amended.
Unamended(s) == status[s] \in ClosedStatuses => Corrections = {}

\* A session that was not amended has the children its status calls for.
MatchInv == \A s \in Sessions : Unamended(s) => ValidChildren(status[s], children[s])

LEMMA MatchStep ==
    ASSUME TypeOK, MatchInv, [Next]_vars
    PROVE  MatchInv'
<1>1. SUFFICES ASSUME NEW r \in Sessions, status'[r] \in ClosedStatuses => Corrections = {}
               PROVE  ValidChildren(status'[r], children'[r])
  BY DEF MatchInv, Unamended, ValidChildren, OpenChildren
<1>2. /\ children[r] \in Seq(Child)
      /\ (status[r] \in ClosedStatuses => Corrections = {}) => ValidChildren(status[r], children[r])
  BY DEF MatchInv, Unamended, TypeOK
<1>3. CASE UNCHANGED session
  BY <1>1, <1>2, <1>3 DEF session
<1>4. ASSUME NEW s \in Sessions, SessionStepOf(s), s # r
      PROVE  status'[r] = status[r] /\ children'[r] = children[r]
  <2>1. \E st, from, to, why, ch : Writes(s, st, from, to, why, ch)
    BY <1>4 DEF SessionStepOf, AutoCloses, Begins, Moves, Completes, Amends
  <2> QED
    BY <1>4, <2>1 DEF Writes, TypeOK
<1>5. ASSUME NEW at \in Time, Begins(r, at) PROVE ValidChildren(status'[r], children'[r])
  <2>1. status'[r] = "ACTIVE" /\ children'[r] = <<Opened("segment", at)>>
    BY <1>5 DEF Begins, Writes, TypeOK
  <2>2. children'[r][1].kind = "segment" /\ 1 \in DOMAIN children'[r]
        /\ OpenChildren(children'[r]) = {1}
    BY <2>1, FirstSegment DEF Opened
  <2> QED
    BY <2>1, <2>2 DEF ValidChildren
<1>6. ASSUME NEW at \in Time, NEW kind \in {"segment", "break"}, Moves(r, at, kind)
      PROVE  ValidChildren(status'[r], children'[r])
  <2> DEFINE closed == CloseOpen(children[r], at)
  <2>1. /\ status'[r] = IF kind = "break" THEN "PAUSED" ELSE "ACTIVE"
        /\ children'[r] = Append(closed, Opened(kind, at))
    BY <1>6 DEF Moves, Writes, TypeOK
  <2>2. closed \in Seq(Child) /\ OpenChildren(closed) = {} /\ Len(closed) \in Nat
    BY <1>2, CloseOpenFacts, LenProperties
  <2> HIDE DEF closed
  <2>3. /\ Len(closed) + 1 \in DOMAIN children'[r]
        /\ children'[r][Len(closed) + 1].kind = kind
        /\ OpenChildren(children'[r]) = {Len(closed) + 1}
    <3>1. Opened(kind, at).kind = kind /\ Len(closed) + 1 \in 1..(Len(closed) + 1)
      BY <2>2 DEF Opened
    <3> QED
      BY <2>1, <2>2, <3>1, OpenedFacts
  <2> QED
    BY <2>1, <2>3 DEF ValidChildren
<1>7. ASSUME NEW at \in Time, status'[r] \in ClosedStatuses,
             children'[r] = CloseOpen(children[r], at)
      PROVE  ValidChildren(status'[r], children'[r])
  BY <1>2, <1>7, CloseOpenFacts DEF ValidChildren
<1>8. ASSUME NEW at \in Time, NEW why \in Reasons, Completes(r, at, why)
      PROVE  ValidChildren(status'[r], children'[r])
  BY <1>7, <1>8 DEF Completes, Writes, TypeOK, ClosedStatuses
<1>9. CASE AutoCloses(r)
  <2>1. Cutoff(r) \in Time
    BY <1>9, CutoffType DEF AutoCloses, MayAutoClose, TypeOK
  <2> QED
    BY <1>7, <1>9, <2>1 DEF AutoCloses, Writes, TypeOK, ClosedStatuses
<1>10. ASSUME NEW at \in Time, Amends(r, at) PROVE FALSE
  <2>1. status'[r] \in ClosedStatuses /\ Corrections # {}
    BY <1>10 DEF Amends, Writes, TypeOK, ClosedStatuses
  <2> QED
    BY <1>1, <2>1
<1> QED
  BY <1>1, <1>2, <1>3, <1>4, <1>5, <1>6, <1>8, <1>9, <1>10, SessionStep DEF SessionStepOf

LEMMA MatchInit == Init => MatchInv
<1>1. Init => \A s \in Sessions : status[s] = "NONE" /\ children[s] = <<>>
  BY DEF Init
<1>2. OpenChildren(<<>>) = {}
  BY DEF OpenChildren
<1> QED
  BY <1>1, <1>2 DEF MatchInv, ValidChildren

\* While no correction awaits review, a session always has the open segment or
\* break that its status calls for, and a closed one has neither: the endpoints
\* and the job, which all refuse a session where it is not so, keep it so.
THEOREM ChildrenMatch ==
    ASSUME Corrections = {}
    PROVE  Spec => []ChildrenMatchStatus
<1>1. Init => MatchInv
  BY MatchInit
<1>2. TypeOK /\ MatchInv /\ [Next]_vars => MatchInv'
  BY MatchStep
<1>3. MatchInv => ChildrenMatchStatus
  BY DEF MatchInv, Unamended, ChildrenMatchStatus
<1> QED
  BY <1>1, <1>2, <1>3, TypeCorrect, PTL DEF Spec

\* The segments and breaks of one session tile the time from its start to its end.
Tiled(from, to, ch) ==
    /\ ch # <<>> /\ ch[1].from = from /\ ch[Len(ch)].to = to
    /\ \A k \in DOMAIN ch :
         /\ ch[k].to # NotEnded => ch[k].from <= ch[k].to
         /\ k > 1 => ch[k - 1].to = ch[k].from

\* A session that has not ended has no end, and one that has begun and was not
\* amended is tiled: each child but the last has ended, because the next one begins
\* then.
TilingInv ==
    \A s \in Sessions :
        /\ status[s] = "NONE" => children[s] = <<>>
        /\ status[s] # "NONE" /\ Unamended(s) => Tiled(started[s], ended[s], children[s])
        /\ status[s] \notin ClosedStatuses => ended[s] = NotEnded

\* Closing the open child of a tiling, not before it begins, tiles up to that time.
LEMMA CloseTiling ==
    ASSUME NEW ch \in Seq(Child), NEW from \in Time, NEW at \in Time,
           Tiled(from, NotEnded, ch), \A k \in OpenChildren(ch) : ch[k].from <= at
    PROVE  Tiled(from, at, CloseOpen(ch, at))
<1> DEFINE closed == CloseOpen(ch, at)
<1>1. /\ Len(ch) \in Nat /\ DOMAIN ch = 1..Len(ch)
      /\ \A k \in DOMAIN ch : ch[k] \in Child /\ ch[k].from \in Time
  BY ChildFacts
<1>2. /\ closed \in Seq(Child) /\ Len(closed) = Len(ch) /\ DOMAIN closed = DOMAIN ch
      /\ \A k \in DOMAIN ch :
            /\ closed[k].from = ch[k].from
            /\ closed[k].to = IF ch[k].to = NotEnded THEN at ELSE ch[k].to
  BY CloseOpenFacts
<1> HIDE DEF closed
<1>3. Len(ch) > 0
  BY <1>1, EmptySeq DEF Tiled
<1>4. \A k \in DOMAIN ch : k > 1 => ch[k - 1].to # NotEnded
  BY <1>1, ConstantFacts DEF Tiled
<1>5. closed # <<>> /\ closed[1].from = from /\ closed[Len(closed)].to = at
  <2>1. 1 \in DOMAIN ch /\ Len(ch) \in DOMAIN ch
    BY <1>1, <1>3
  <2>2. closed # <<>>
    BY <1>2, <1>3, EmptySeq
  <2> QED
    BY <1>2, <2>1, <2>2 DEF Tiled
<1>6. ASSUME NEW k \in DOMAIN ch PROVE closed[k].from <= closed[k].to
  BY <1>2 DEF Tiled, OpenChildren
<1>7. ASSUME NEW k \in DOMAIN ch, k > 1 PROVE closed[k - 1].to = closed[k].from
  <2>1. k - 1 \in DOMAIN ch
    BY <1>1, <1>7
  <2> QED
    BY <1>2, <1>4, <1>7, <2>1 DEF Tiled
<1> QED
  BY <1>2, <1>5, <1>6, <1>7 DEF Tiled, closed

\* Opening a child at the end of a tiling tiles on from there.
LEMMA ExtendTiling ==
    ASSUME NEW ch \in Seq(Child), NEW from \in Time, NEW at \in Time,
           NEW kind \in {"segment", "break"}, Tiled(from, at, ch), OpenChildren(ch) = {}
    PROVE  Tiled(from, NotEnded, Append(ch, Opened(kind, at)))
<1> DEFINE new == Append(ch, Opened(kind, at))
<1>1. Len(ch) \in Nat /\ DOMAIN ch = 1..Len(ch)
  BY LenProperties
<1>2. /\ new \in Seq(Child)
      /\ Len(new) = Len(ch) + 1 /\ DOMAIN new = 1..(Len(ch) + 1)
      /\ new[Len(ch) + 1] = Opened(kind, at)
      /\ \A k \in DOMAIN ch : new[k] = ch[k]
  BY OpenedFacts
<1> HIDE DEF new
<1>3. Len(ch) > 0
  BY <1>1, EmptySeq DEF Tiled
<1>4. Opened(kind, at).from = at /\ Opened(kind, at).to = NotEnded
  BY DEF Opened
<1>5. new # <<>> /\ new[1].from = from /\ new[Len(new)].to = NotEnded
  <2>1. 1 \in DOMAIN ch
    BY <1>1, <1>3
  <2>2. new # <<>>
    BY <1>1, <1>2, EmptySeq
  <2> QED
    BY <1>2, <1>4, <2>1, <2>2 DEF Tiled
<1>6. ASSUME NEW k \in DOMAIN new, new[k].to # NotEnded PROVE new[k].from <= new[k].to
  <2>1. k \in DOMAIN ch
    BY <1>1, <1>2, <1>4, <1>6
  <2> QED
    BY <1>2, <1>6, <2>1 DEF Tiled
<1>7. ASSUME NEW k \in DOMAIN new, k > 1 PROVE new[k - 1].to = new[k].from
  <2>1. k - 1 \in DOMAIN ch
    BY <1>1, <1>2, <1>7
  <2>2. CASE k = Len(ch) + 1
    <3>1. k - 1 = Len(ch)
      BY <1>1, <2>2
    <3> QED
      BY <1>2, <1>4, <2>1, <2>2, <3>1 DEF Tiled
  <2>3. CASE k # Len(ch) + 1
    <3>1. k \in DOMAIN ch
      BY <1>1, <1>2, <2>3
    <3> QED
      BY <1>2, <1>7, <2>1, <3>1 DEF Tiled
  <2> QED
    BY <2>2, <2>3
<1> QED
  BY <1>5, <1>6, <1>7 DEF Tiled, new

LEMMA TilingStep ==
    ASSUME TypeOK, TilingInv, [Next]_vars
    PROVE  TilingInv'
<1> DEFINE Inv(r) == /\ status'[r] = "NONE" => children'[r] = <<>>
                     /\ status'[r] # "NONE" /\ (status'[r] \in ClosedStatuses => Corrections = {})
                          => Tiled(started'[r], ended'[r], children'[r])
                     /\ status'[r] \notin ClosedStatuses => ended'[r] = NotEnded
<1>1. SUFFICES ASSUME NEW r \in Sessions PROVE Inv(r)
  BY DEF TilingInv, Tiled, Unamended
<1>2. /\ started[r] \in Time /\ children[r] \in Seq(Child)
      /\ status[r] = "NONE" => children[r] = <<>>
      /\ status[r] # "NONE" /\ (status[r] \in ClosedStatuses => Corrections = {})
           => Tiled(started[r], ended[r], children[r])
      /\ status[r] \notin ClosedStatuses => ended[r] = NotEnded
  BY DEF TilingInv, TypeOK, Unamended
<1>3. CASE UNCHANGED session
  BY <1>2, <1>3 DEF session
<1>4. ASSUME NEW s \in Sessions, SessionStepOf(s), s # r PROVE Inv(r)
  <2>1. \E st, from, to, why, ch : Writes(s, st, from, to, why, ch)
    BY <1>4 DEF SessionStepOf, AutoCloses, Begins, Moves, Completes, Amends
  <2>2. /\ status'[r] = status[r] /\ started'[r] = started[r] /\ ended'[r] = ended[r]
        /\ children'[r] = children[r]
    BY <1>4, <2>1 DEF Writes, TypeOK
  <2> QED
    BY <1>2, <2>2
<1>5. ASSUME NEW at \in Time, Begins(r, at) PROVE Inv(r)
  <2>1. /\ status[r] = "NONE" /\ status'[r] = "ACTIVE" /\ started'[r] = at
        /\ ended'[r] = ended[r] /\ children'[r] = <<Opened("segment", at)>>
    BY <1>5 DEF Begins, Writes, TypeOK
  <2>2. Tiled(at, NotEnded, children'[r])
    BY <2>1, FirstSegment, EmptySeq DEF Tiled, Opened
  <2> QED
    BY <1>2, <2>1, <2>2 DEF ClosedStatuses
<1>6. ASSUME IsOpen(r)
      PROVE  ended[r] = NotEnded /\ Tiled(started[r], NotEnded, children[r])
  BY <1>2, <1>6 DEF IsOpen, OpenStatuses, ClosedStatuses
<1>7. ASSUME NEW at \in Time, NEW kind \in {"segment", "break"}, Moves(r, at, kind)
      PROVE  Inv(r)
  <2> DEFINE closed == CloseOpen(children[r], at)
  <2>1. /\ status'[r] = IF kind = "break" THEN "PAUSED" ELSE "ACTIVE"
        /\ started'[r] = started[r] /\ ended'[r] = ended[r]
        /\ children'[r] = Append(closed, Opened(kind, at))
        /\ IsOpen(r) /\ NotBefore(r, at)
    BY <1>7 DEF Moves, Writes, TypeOK
  <2>2. closed \in Seq(Child) /\ OpenChildren(closed) = {}
    BY <1>2, CloseOpenFacts
  <2>3. Tiled(started[r], at, closed)
    BY <1>2, <1>6, <2>1, CloseTiling DEF NotBefore
  <2> HIDE DEF closed
  <2>4. Tiled(started[r], NotEnded, children'[r])
    BY <1>2, <2>1, <2>2, <2>3, ExtendTiling
  <2> QED
    BY <1>6, <2>1, <2>4
<1>8. ASSUME NEW at \in Time, NEW why \in Reasons, Completes(r, at, why) PROVE Inv(r)
  <2>1. /\ status'[r] = "COMPLETED" /\ started'[r] = started[r] /\ ended'[r] = at
        /\ children'[r] = CloseOpen(children[r], at)
        /\ IsOpen(r) /\ NotBefore(r, at)
    BY <1>8 DEF Completes, Writes, TypeOK
  <2>2. Tiled(started[r], at, children'[r])
    BY <1>2, <1>6, <2>1, CloseTiling DEF NotBefore
  <2> QED
    BY <2>1, <2>2 DEF ClosedStatuses
<1>9. CASE AutoCloses(r)
  <2>1. /\ status'[r] = "AUTO_CLOSED" /\ started'[r] = started[r] /\ ended'[r] = Cutoff(r)
        /\ children'[r] = CloseOpen(children[r], Cutoff(r))
        /\ IsOpen(r) /\ WithinDay(r)
    BY <1>9 DEF AutoCloses, MayAutoClose, Writes, TypeOK
  <2>2. Cutoff(r) \in Time
    BY <1>9, CutoffType DEF AutoCloses, MayAutoClose, TypeOK
  <2>3. \A k \in OpenChildren(children[r]) : children[r][k].from <= Cutoff(r)
    <3>1. \A k \in DOMAIN children[r] : children[r][k].from \in Time
      BY <1>2, ChildFacts
    <3>2. \A k \in OpenChildren(children[r]) :
            k \in DOMAIN children[r] /\ children[r][k].from < Cutoff(r)
      BY <2>1 DEF WithinDay, OpenChildren
    <3>3. \A a, b \in Time : a < b => a <= b
      BY ConstantFacts
    <3> QED
      BY <2>2, <3>1, <3>2, <3>3
  <2>4. Tiled(started[r], Cutoff(r), children'[r])
    BY <1>2, <1>6, <2>1, <2>2, <2>3, CloseTiling
  <2> QED
    BY <2>1, <2>4 DEF ClosedStatuses
<1>10. ASSUME NEW at \in Time, Amends(r, at) PROVE Inv(r)
  <2>1. status'[r] = "COMPLETED" /\ Corrections # {}
    BY <1>10 DEF Amends, Writes, TypeOK
  <2> QED
    BY <2>1 DEF ClosedStatuses
<1> HIDE DEF Inv
<1>11. ASSUME SessionStepOf(r) PROVE Inv(r)
  BY <1>5, <1>7, <1>8, <1>9, <1>10, <1>11 DEF SessionStepOf
<1> QED
  BY <1>3, <1>4, <1>11, SessionStep

LEMMA TilingInit == Init => TilingInv
<1>1. Init => \A s \in Sessions :
                 status[s] = "NONE" /\ children[s] = <<>> /\ ended[s] = NotEnded
  BY DEF Init
<1> QED
  BY <1>1 DEF TilingInv, ClosedStatuses

\* While no correction awaits review, worked time and break time add up to the
\* length of the shift: its segments and breaks follow each other without a gap or
\* an overlap, in whichever order the requests of several devices commit.
THEOREM Gapless ==
    ASSUME Corrections = {}
    PROVE  Spec => []TimelineIsGapless
<1>1. Init => TilingInv
  BY TilingInit
<1>2. TypeOK /\ TilingInv /\ [Next]_vars => TilingInv'
  BY TilingStep
<1>3. TilingInv => TimelineIsGapless
  <2> SUFFICES ASSUME TilingInv, NEW s \in Sessions
               PROVE  /\ (status[s] = "NONE") = (children[s] = <<>>)
                      /\ children[s] # <<>> => Tiled(started[s], ended[s], children[s])
    BY DEF TimelineIsGapless, Tiled
  <2> QED
    BY DEF TilingInv, Unamended, Tiled
<1> QED
  BY <1>1, <1>2, <1>3, TypeCorrect, PTL DEF Spec

----------------------------------------------------------------------------
(* The timesheet                                                            *)

LEMMA BookedMember ==
    ASSUME NEW ch, NEW kind, NEW t
    PROVE  t \in BookedTicks(ch, kind)
           <=> \E k \in DOMAIN ch : /\ ch[k].kind = kind /\ ch[k].to # NotEnded
                                    /\ t \in ch[k].from..(ch[k].to - 1)
BY DEF BookedTicks

\* Closing the one open child, the last, books its time as what it was.
LEMMA CloseBooks ==
    ASSUME NEW ch \in Seq(Child), NEW at \in Time, NEW kind,
           OpenChildren(ch) = {Len(ch)}
    PROVE  BookedTicks(CloseOpen(ch, at), kind)
             = BookedTicks(ch, kind)
               \cup (IF ch[Len(ch)].kind = kind THEN ch[Len(ch)].from..(at - 1) ELSE {})
<1> DEFINE closed == CloseOpen(ch, at)
           last == Len(ch)
<1>1. /\ DOMAIN closed = DOMAIN ch
      /\ \A k \in DOMAIN ch :
            /\ closed[k].kind = ch[k].kind /\ closed[k].from = ch[k].from
            /\ closed[k].to = IF ch[k].to = NotEnded THEN at ELSE ch[k].to
  BY CloseOpenFacts
<1>2. /\ last \in DOMAIN ch /\ ch[last].to = NotEnded
      /\ \A k \in DOMAIN ch : ch[k].to = NotEnded => k = last
  BY DEF OpenChildren
<1>3. at # NotEnded
  BY ConstantFacts
<1>4. \A t : t \in BookedTicks(closed, kind)
             <=> \E k \in DOMAIN closed : /\ closed[k].kind = kind /\ closed[k].to # NotEnded
                                          /\ t \in closed[k].from..(closed[k].to - 1)
  BY BookedMember
<1>5. \A t : t \in BookedTicks(ch, kind)
             <=> \E k \in DOMAIN ch : /\ ch[k].kind = kind /\ ch[k].to # NotEnded
                                      /\ t \in ch[k].from..(ch[k].to - 1)
  BY BookedMember
<1> HIDE DEF closed, last
<1>6. \A t : t \in BookedTicks(closed, kind)
             <=> \/ t \in BookedTicks(ch, kind)
                 \/ ch[last].kind = kind /\ t \in ch[last].from..(at - 1)
  BY <1>1, <1>2, <1>3, <1>4, <1>5
<1> QED
  BY <1>6 DEF closed, last

\* An open child books nothing yet.
LEMMA OpeningBooksNothing ==
    ASSUME NEW ch \in Seq(Child), NEW at \in Time, NEW new \in {"segment", "break"}, NEW kind,
           OpenChildren(ch) = {}
    PROVE  BookedTicks(Append(ch, Opened(new, at)), kind) = BookedTicks(ch, kind)
<1> DEFINE longer == Append(ch, Opened(new, at))
<1>1. /\ DOMAIN longer = 1..(Len(ch) + 1) /\ longer[Len(ch) + 1] = Opened(new, at)
      /\ \A k \in DOMAIN ch : longer[k] = ch[k]
  BY OpenedFacts
<1>2. Len(ch) \in Nat /\ DOMAIN ch = 1..Len(ch)
  BY LenProperties
<1>3. longer[Len(ch) + 1].to = NotEnded
  BY <1>1 DEF Opened
<1> HIDE DEF longer
<1>4. \A k \in DOMAIN longer : longer[k].to # NotEnded => k \in DOMAIN ch
  BY <1>1, <1>2, <1>3
<1>5. DOMAIN ch \subseteq DOMAIN longer
  BY <1>1, <1>2
<1>6. \A t : t \in BookedTicks(longer, kind) <=> t \in BookedTicks(ch, kind)
  BY <1>1, <1>4, <1>5, BookedMember
<1> QED
  BY <1>6 DEF longer

\* The open child of an open session is its last, and of the kind of its status.
LEMMA LastIsOpen ==
    ASSUME TypeOK, MatchInv, TilingInv, NEW s \in Sessions, IsOpen(s)
    PROVE  LET ch == children[s] IN
           /\ Len(ch) \in DOMAIN ch /\ OpenChildren(ch) = {Len(ch)}
           /\ ch[Len(ch)].from \in Time
           /\ ch[Len(ch)].kind = IF status[s] = "PAUSED" THEN "break" ELSE "segment"
<1> DEFINE ch == children[s]
<1>1. ch \in Seq(Child) /\ status[s] \in {"ACTIVE", "PAUSED"}
  BY DEF TypeOK, IsOpen, OpenStatuses
<1>2. Tiled(started[s], NotEnded, ch) /\ ValidChildren(status[s], ch)
  BY <1>1 DEF TilingInv, MatchInv, Unamended, ClosedStatuses
<1> HIDE DEF ch
<1>3. Len(ch) \in DOMAIN ch
  BY <1>1, <1>2, ChildFacts, EmptySeq DEF Tiled
<1>4. Len(ch) \in OpenChildren(ch)
  BY <1>2, <1>3 DEF Tiled, OpenChildren
<1>5. PICK k \in DOMAIN ch : /\ OpenChildren(ch) = {k}
                             /\ ch[k].kind = IF status[s] = "PAUSED" THEN "break" ELSE "segment"
  BY <1>1, <1>2 DEF ValidChildren, ClosedStatuses
<1>6. k = Len(ch)
  BY <1>4, <1>5
<1>7. ch[Len(ch)].from \in Time
  BY <1>1, <1>3, ChildFacts
<1> QED
  BY <1>3, <1>5, <1>6, <1>7 DEF ch

\* Closing the open child at some time, and opening another or none, is a booking.
LEMMA ClosingIsBooking ==
    ASSUME TypeOK, MatchInv, TilingInv, NEW s \in Sessions, NEW at \in Time,
           IsOpen(s), \A k \in OpenChildren(children[s]) : children[s][k].from <= at,
           started'[s] = started[s], BookedUpTo(s)' = at,
           \A kind : BookedTicks(children'[s], kind) = BookedTicks(CloseOpen(children[s], at), kind)
    PROVE  Sheet!Book(s)
<1> DEFINE ch == children[s]
           last == ch[Len(ch)]
<1>1. /\ OpenChildren(ch) = {Len(ch)} /\ last.from \in Time /\ ch \in Seq(Child)
      /\ last.kind = IF status[s] = "PAUSED" THEN "break" ELSE "segment"
  BY LastIsOpen DEF TypeOK
<1>2. BookedUpTo(s) = last.from /\ last.from <= at
  BY <1>1 DEF BookedUpTo
<1>3. \A kind : BookedTicks(children'[s], kind)
                  = BookedTicks(ch, kind) \cup (IF last.kind = kind THEN last.from..(at - 1) ELSE {})
  BY <1>1, CloseBooks
<1>4. status[s] \in {"ACTIVE", "PAUSED"}
  BY DEF IsOpen, OpenStatuses
<1>5. /\ Doing(status[s]) = IF status[s] = "PAUSED" THEN "rest" ELSE "work"
      /\ Doing(status[s]) \in {"work", "rest"}
  BY <1>4 DEF Doing
<1> HIDE DEF ch, last
<1>6. /\ BookedTicks(children'[s], "segment")
           = BookedTicks(children[s], "segment")
             \cup (IF Doing(status[s]) = "work" THEN last.from..(at - 1) ELSE {})
      /\ BookedTicks(children'[s], "break")
           = BookedTicks(children[s], "break")
             \cup (IF Doing(status[s]) = "rest" THEN last.from..(at - 1) ELSE {})
  <2>1. ch = children[s]
    BY DEF ch
  <2> QED
    BY <1>1, <1>3, <1>4, <1>5, <2>1
<1> QED
  BY <1>2, <1>5, <1>6 DEF Sheet!Book, Sheet!Span, Sheet!Running

\* A correction is bound to a session that has begun.
BoundInv ==
    \A k \in Corrections : correction[k].sid # NoSession => status[correction[k].sid] # "NONE"

LEMMA BoundInit == Init => BoundInv
<1> DEFINE new == [status |-> "PENDING", sid |-> NoSession]
<1>1. ASSUME Init, NEW k \in Corrections PROVE correction[k].sid = NoSession
  <2>1. new.sid = NoSession
    OBVIOUS
  <2> HIDE DEF new
  <2>2. Init => correction = [j \in Corrections |-> new]
    BY DEF Init, new
  <2>3. correction[k] = new
    BY <1>1, <2>2
  <2> QED
    BY <2>1, <2>3
<1> QED
  BY <1>1 DEF BoundInv

LEMMA BoundStep ==
    ASSUME TypeOK, BoundInv, [Next]_vars
    PROVE  BoundInv'
<1>1. ASSUME NEW s \in Sessions, status[s] # "NONE" PROVE status'[s] # "NONE"
  BY <1>1, SessionStep
     DEF session, SessionStepOf, AutoCloses, Begins, Moves, Completes, Amends, Writes, TypeOK
<1>2. SUFFICES ASSUME NEW k \in Corrections, correction'[k].sid # NoSession
               PROVE  status'[correction'[k].sid] # "NONE"
  BY DEF BoundInv
<1>3. correction[k] \in Review
  BY DEF TypeOK
<1>4. CASE correction'[k].sid = correction[k].sid
  BY <1>1, <1>2, <1>3, <1>4 DEF BoundInv, Review
<1>5. ASSUME NEW d \in Devices, NEW s \in Sessions, Start(d, s)
      PROVE  \/ correction'[k].sid = correction[k].sid
             \/ correction'[k].sid = s /\ status'[s] = "ACTIVE"
  <2>1. status'[s] = "ACTIVE"
    BY <1>5 DEF Start, TypeOK
  <2>2. correction'[k] = correction[k] \/ correction'[k] = [correction[k] EXCEPT !.sid = s]
    BY <1>5 DEF Start
  <2> QED
    BY <1>3, <2>1, <2>2 DEF Review
<1>6. ASSUME NEW j \in Corrections, NEW verdict,
             correction' = [correction EXCEPT ![j].status = verdict]
      PROVE  correction'[k].sid = correction[k].sid
  BY <1>3, <1>6 DEF TypeOK, Review
<1>7. ASSUME NEW d \in Devices, RequestStep(d), ~\E s \in Sessions : Start(d, s)
      PROVE  correction' = correction
  BY <1>7 DEF RequestStep, Ask, Refuse, Find, Pause, Resume, Switch, End, MoveOn, Finish
<1>8. CASE RecoverScan \/ Tick \/ UNCHANGED vars
           \/ \E s \in Sessions : AdminClose(s) \/ RecoverOne(s)
  BY <1>4, <1>8 DEF RecoverScan, Tick, vars, AdminClose, Finish, RecoverOne
<1>9. ASSUME NEW j \in Corrections, ReviewStep(j)
      PROVE  correction'[k].sid = correction[k].sid
  BY <1>6, <1>9 DEF ReviewStep, ApproveCheckout, Decide
<1> QED
  BY <1>4, <1>5, <1>7, <1>8, <1>9 DEF Next

\* A correction is about a session that has begun.
LEMMA CorrectedBegun ==
    ASSUME BoundInv, NEW k \in Corrections, NEW s \in CorrectedSessions(k)
    PROVE  status[s] # "NONE"
BY DEF BoundInv, CorrectedSessions

LEMMA SheetStep ==
    ASSUME TypeOK, MatchInv, TilingInv, BoundInv, [Next]_vars
    PROVE  UNCHANGED Sheet!vars \/ Sheet!Turns \/ (Corrections # {} /\ Sheet!Amends)
<1>1. CASE UNCHANGED session
  BY <1>1 DEF session, Sheet!vars, BookedUpTo, IsOpen
<1>2. ASSUME NEW s \in Sessions, SessionStepOf(s) PROVE Sheet!OthersKeep(s)
  <2>1. PICK st, from, to, why, ch : Writes(s, st, from, to, why, ch)
    BY <1>2 DEF SessionStepOf, AutoCloses, Begins, Moves, Completes, Amends
  <2>2. ASSUME NEW r \in Sessions \ {s} PROVE Sheet!Keep(r)
    <3>1. /\ status'[r] = status[r] /\ started'[r] = started[r] /\ ended'[r] = ended[r]
          /\ children'[r] = children[r]
      BY <2>1 DEF Writes, TypeOK
    <3>2. BookedUpTo(r)' = BookedUpTo(r)
      BY <3>1 DEF BookedUpTo, IsOpen
    <3> QED
      BY <3>1, <3>2 DEF Sheet!Keep
  <2> QED
    BY <2>2 DEF Sheet!OthersKeep
<1>3. ASSUME NEW s \in Sessions, NEW at \in Time, Begins(s, at) PROVE Sheet!Begin(s)
  <2>1. /\ status[s] = "NONE" /\ OpenSessions = {} /\ status'[s] = "ACTIVE"
        /\ started'[s] = at /\ children'[s] = <<Opened("segment", at)>>
    BY <1>3 DEF Begins, Writes, TypeOK
  <2>2. \A r \in Sessions : status[r] \in ClosedStatuses \cup {"NONE"}
    BY <2>1 DEF OpenSessions, IsOpen, TypeOK
  <2>3. \A r \in Sessions : Doing(status[r]) \in {"none", "closed"}
    BY <2>2 DEF Doing, ClosedStatuses
  <2>4. BookedUpTo(s)' = at
    BY <2>1 DEF BookedUpTo, IsOpen, OpenStatuses, Opened
  <2>5. \A kind, t : t \notin BookedTicks(children'[s], kind)
    BY <2>1, BookedMember DEF Opened
  <2> QED
    BY <2>1, <2>3, <2>4, <2>5 DEF Sheet!Begin, Sheet!Running, Doing
<1>4. ASSUME NEW s \in Sessions, NEW at \in Time, NEW kind \in {"segment", "break"},
             Moves(s, at, kind)
      PROVE  Sheet!Turn(s)
  <2> DEFINE closed == CloseOpen(children[s], at)
  <2>1. /\ status'[s] = IF kind = "break" THEN "PAUSED" ELSE "ACTIVE"
        /\ started'[s] = started[s] /\ children'[s] = Append(closed, Opened(kind, at))
        /\ IsOpen(s) /\ NotBefore(s, at)
    BY <1>4 DEF Moves, Writes, TypeOK
  <2>2. closed \in Seq(Child) /\ OpenChildren(closed) = {} /\ Len(closed) \in Nat
    BY CloseOpenFacts, LenProperties DEF TypeOK
  <2> HIDE DEF closed
  <2>3. BookedUpTo(s)' = at
    <3>1. children'[s][Len(children'[s])].from = at
      BY <2>1, <2>2, OpenedFacts DEF Opened
    <3> QED
      BY <2>1, <3>1 DEF BookedUpTo, IsOpen, OpenStatuses
  <2>4. \A k : BookedTicks(children'[s], k) = BookedTicks(closed, k)
    BY <2>1, <2>2, OpeningBooksNothing
  <2>5. Sheet!Book(s)
    BY <2>1, <2>3, <2>4, ClosingIsBooking DEF NotBefore, closed
  <2>6. Doing(status'[s]) = IF kind = "break" THEN "rest" ELSE "work"
    BY <2>1 DEF Doing
  <2>7. Doing(status[s]) = "rest" => kind = "segment"
    BY <1>4 DEF Moves, Doing
  <2> QED
    BY <2>1, <2>5, <2>6, <2>7 DEF Sheet!Turn, Sheet!Running, Doing
<1>5. ASSUME NEW s \in Sessions, NEW at \in Time, IsOpen(s),
             \A k \in OpenChildren(children[s]) : children[s][k].from <= at,
             started'[s] = started[s], status'[s] \in ClosedStatuses, ended'[s] = at,
             children'[s] = CloseOpen(children[s], at)
      PROVE  Sheet!Close(s)
  <2>1. BookedUpTo(s)' = at
    BY <1>5 DEF BookedUpTo, IsOpen, OpenStatuses, ClosedStatuses
  <2>2. Sheet!Book(s)
    BY <1>5, <2>1, ClosingIsBooking
  <2> QED
    BY <1>5, <2>2 DEF Sheet!Close, Doing, ClosedStatuses
<1>6. ASSUME NEW s \in Sessions, NEW at \in Time, NEW why \in Reasons, Completes(s, at, why)
      PROVE  Sheet!Close(s)
  BY <1>5, <1>6 DEF Completes, Writes, NotBefore, TypeOK, ClosedStatuses
<1>7. ASSUME NEW s \in Sessions, AutoCloses(s) PROVE Sheet!Close(s)
  <2>1. Cutoff(s) \in Time
    BY <1>7, CutoffType DEF AutoCloses, MayAutoClose, TypeOK
  <2>2. \A k \in OpenChildren(children[s]) : children[s][k].from <= Cutoff(s)
    <3>1. \A k \in DOMAIN children[s] : children[s][k].from \in Time
      BY ChildFacts DEF TypeOK
    <3>2. \A k \in OpenChildren(children[s]) :
            k \in DOMAIN children[s] /\ children[s][k].from < Cutoff(s)
      BY <1>7 DEF AutoCloses, MayAutoClose, WithinDay, OpenChildren
    <3>3. \A a, b \in Time : a < b => a <= b
      BY ConstantFacts
    <3> QED
      BY <2>1, <3>1, <3>2, <3>3
  <2> QED
    BY <1>5, <1>7, <2>1, <2>2 DEF AutoCloses, MayAutoClose, Writes, TypeOK, ClosedStatuses
<1>8. ASSUME NEW s \in Sessions, NEW at \in Time, Amends(s, at)
      PROVE  Corrections # {} /\ Sheet!Amend(s)
  <2>1. /\ status'[s] = "COMPLETED" /\ started'[s] = started[s] /\ ended'[s] = at
        /\ children'[s] = children[s] /\ started[s] <= at /\ Corrections # {}
    BY <1>8 DEF Amends, Writes, TypeOK
  <2>2. BookedUpTo(s)' = at
    BY <2>1 DEF BookedUpTo, IsOpen, OpenStatuses
  <2>3. status[s] # "NONE"
    BY <1>8, CorrectedBegun DEF Amends
  <2>4. Doing(status[s]) # "none" /\ Doing(status'[s]) = "closed"
    BY <2>1, <2>3 DEF Doing
  <2> QED
    BY <2>1, <2>2, <2>4 DEF Sheet!Amend
<1>9. ASSUME NEW s \in Sessions, SessionStepOf(s)
      PROVE  \/ Sheet!Begin(s) \/ Sheet!Turn(s) \/ Sheet!Close(s)
             \/ Corrections # {} /\ Sheet!Amend(s)
  BY <1>3, <1>4, <1>6, <1>7, <1>8, <1>9 DEF SessionStepOf
<1> QED
  BY <1>1, <1>2, <1>9, SessionStep DEF Sheet!Turns, Sheet!Amends

\* The rows of the shifts implement the timesheet for any number of devices, managers
\* and corrections: requests that read their time early and commit late, and the job
\* that closes at a midnight long past, still book every span of a shift once, as the
\* work or the rest it was spent on; an approved missing checkout books nothing.
THEOREM TimesheetImplemented == Spec => ImplementsTimesheet
<1>1. Init => MatchInv /\ TilingInv /\ BoundInv
  BY MatchInit, TilingInit, BoundInit
<1>2. TypeOK /\ MatchInv /\ TilingInv /\ BoundInv /\ [Next]_vars
      => MatchInv' /\ TilingInv' /\ BoundInv'
  BY MatchStep, TilingStep, BoundStep
<1>3. Init => Sheet!Init
  <2>1. \A kind : BookedTicks(<<>>, kind) = {}
    BY BookedMember
  <2>2. ASSUME Init, NEW s \in Sessions
        PROVE  /\ Doing(status[s]) = "none" /\ BookedUpTo(s) = 0
               /\ \A kind : BookedTicks(children[s], kind) = {}
    BY <2>1, <2>2 DEF Init, BookedUpTo, IsOpen, OpenStatuses, Doing
  <2> QED
    BY <2>2 DEF Init, Sheet!Init
<1>4. TypeOK /\ MatchInv /\ TilingInv /\ BoundInv /\ [Next]_vars => [Sheet!Next]_Sheet!vars
  BY SheetStep DEF Sheet!Next
<1> QED
  BY <1>1, <1>2, <1>3, <1>4, TypeCorrect, PTL DEF Spec, ImplementsTimesheet, Sheet!Spec

\* A booking goes on from where the last one stopped.
LEMMA BookSpan ==
    ASSUME NEW b \in Int, NEW u \in Int, NEW v \in Int, b <= u, u <= v,
           NEW w, NEW r, w \cap r = {}, w \cup r = b..(u - 1),
           NEW w2, NEW r2,
           \/ w2 = w \cup (u..(v - 1)) /\ r2 = r
           \/ w2 = w /\ r2 = r \cup (u..(v - 1))
    PROVE  w2 \cap r2 = {} /\ w2 \cup r2 = b..(v - 1)
<1>1. (b..(u - 1)) \cap (u..(v - 1)) = {} /\ (b..(u - 1)) \cup (u..(v - 1)) = b..(v - 1)
  OBVIOUS
<1> QED
  BY <1>1

Types == \A s \in Sessions : started[s] \in Int /\ BookedUpTo(s) \in Int

LEMMA BookedUpToType ==
    ASSUME TypeOK, MatchInv, TilingInv, NEW s \in Sessions
    PROVE  started[s] \in Int /\ BookedUpTo(s) \in Int
<1>1. Time \subseteq Int /\ NotEnded \in Int /\ 0 \in Int
  BY DEF Time, NotEnded
<1>2. CASE IsOpen(s)
  BY <1>1, <1>2, LastIsOpen DEF BookedUpTo, TypeOK
<1>3. CASE ~IsOpen(s)
  BY <1>1, <1>3 DEF BookedUpTo, TypeOK
<1> QED
  BY <1>1, <1>2, <1>3 DEF TypeOK

\* What is booked of a session is booked once, and is all of it unless its end was
\* amended; no session is booked to before its start.
BookedOf(s) ==
    LET work == BookedTicks(children[s], "segment")
        rest == BookedTicks(children[s], "break")
    IN  /\ work \cap rest = {}
        /\ started[s] <= BookedUpTo(s)
        /\ (Doing(status[s]) = "closed" => Corrections = {})
             => work \cup rest = started[s]..(BookedUpTo(s) - 1)

Booked == \A s \in Sessions : BookedOf(s)

\* A step of the timesheet keeps what is booked in one piece.
LEMMA BookedStep ==
    ASSUME Types, Types', Booked,
           UNCHANGED Sheet!vars \/ Sheet!Turns \/ (Corrections # {} /\ Sheet!Amends)
    PROVE  Booked'
<1> DEFINE w(s) == BookedTicks(children[s], "segment")
           r(s) == BookedTicks(children[s], "break")
           Kept(s) == Doing(status[s]) = "closed" => Corrections = {}
<1>0. \A s \in Sessions : /\ started[s] \in Int /\ started'[s] \in Int
                          /\ BookedUpTo(s) \in Int /\ BookedUpTo(s)' \in Int
  BY DEF Types
<1>1. \A s \in Sessions : /\ w(s) \cap r(s) = {} /\ started[s] <= BookedUpTo(s)
                          /\ Kept(s) => w(s) \cup r(s) = started[s]..(BookedUpTo(s) - 1)
  BY DEF Booked, BookedOf
<1>2. ASSUME NEW s \in Sessions,
             w(s)' \cap r(s)' = {}, started'[s] <= BookedUpTo(s)',
             Kept(s)' => w(s)' \cup r(s)' = started'[s]..(BookedUpTo(s)' - 1)
      PROVE  BookedOf(s)'
  BY <1>2 DEF BookedOf
<1>3. ASSUME NEW s \in Sessions, Sheet!Begin(s) PROVE BookedOf(s)'
  <2>1. w(s)' = {} /\ r(s)' = {} /\ BookedUpTo(s)' = started'[s]
    BY <1>3 DEF Sheet!Begin
  <2> HIDE DEF w, r, Kept
  <2>2. started'[s]..(started'[s] - 1) = {} /\ started'[s] <= started'[s]
    BY <1>0
  <2> QED
    BY <1>2, <2>1, <2>2
<1>4. ASSUME NEW s \in Sessions, Sheet!Book(s) PROVE BookedOf(s)'
  <2>1. /\ started'[s] = started[s] /\ BookedUpTo(s) <= BookedUpTo(s)'
        /\ Doing(status[s]) \in {"work", "rest"}
        /\ w(s)' = w(s) \cup (IF Doing(status[s]) = "work"
                              THEN BookedUpTo(s)..(BookedUpTo(s)' - 1) ELSE {})
        /\ r(s)' = r(s) \cup (IF Doing(status[s]) = "rest"
                              THEN BookedUpTo(s)..(BookedUpTo(s)' - 1) ELSE {})
    BY <1>4 DEF Sheet!Book, Sheet!Span, Sheet!Running
  <2>2. /\ w(s) \cap r(s) = {} /\ w(s) \cup r(s) = started[s]..(BookedUpTo(s) - 1)
        /\ started[s] <= BookedUpTo(s)
    BY <1>1, <2>1
  <2> HIDE DEF w, r, Kept
  <2>3. \/ w(s)' = w(s) \cup (BookedUpTo(s)..(BookedUpTo(s)' - 1)) /\ r(s)' = r(s)
        \/ w(s)' = w(s) /\ r(s)' = r(s) \cup (BookedUpTo(s)..(BookedUpTo(s)' - 1))
    BY <2>1
  <2>4. w(s)' \cap r(s)' = {} /\ w(s)' \cup r(s)' = started[s]..(BookedUpTo(s)' - 1)
    BY <1>0, <2>1, <2>2, <2>3, BookSpan
  <2>5. started'[s] <= BookedUpTo(s)'
    BY <1>0, <2>1, <2>2
  <2> QED
    BY <1>2, <2>1, <2>4, <2>5
<1>5. ASSUME NEW s \in Sessions, Corrections # {}, Sheet!Amend(s) PROVE BookedOf(s)'
  <2>1. w(s)' = w(s) /\ r(s)' = r(s) /\ started'[s] <= BookedUpTo(s)' /\ ~Kept(s)'
    BY <1>5 DEF Sheet!Amend
  <2> HIDE DEF w, r, Kept
  <2> QED
    BY <1>1, <1>2, <2>1
<1>6. ASSUME NEW s \in Sessions, Sheet!Keep(s) \/ UNCHANGED Sheet!vars PROVE BookedOf(s)'
  <2>1. /\ started'[s] = started[s] /\ BookedUpTo(s)' = BookedUpTo(s)
        /\ w(s)' = w(s) /\ r(s)' = r(s) /\ Doing(status'[s]) = Doing(status[s])
    BY <1>6 DEF Sheet!Keep, Sheet!vars
  <2>2. Kept(s)' = Kept(s)
    BY <2>1
  <2> HIDE DEF w, r, Kept
  <2> QED
    BY <1>1, <1>2, <2>1, <2>2
<1> HIDE DEF w, r, Kept
<1>7. CASE Sheet!Turns
  BY <1>3, <1>4, <1>6, <1>7 DEF Sheet!Turns, Sheet!OthersKeep, Sheet!Turn, Sheet!Close, Booked
<1>8. CASE Corrections # {} /\ Sheet!Amends
  BY <1>5, <1>6, <1>8 DEF Sheet!Amends, Sheet!OthersKeep, Booked
<1> QED
  BY <1>6, <1>7, <1>8 DEF Booked

LEMMA BookedHolds == Spec => []Booked
<1>1. Init => MatchInv /\ TilingInv /\ BoundInv
  BY MatchInit, TilingInit, BoundInit
<1>2. TypeOK /\ MatchInv /\ TilingInv /\ BoundInv /\ [Next]_vars
      => MatchInv' /\ TilingInv' /\ BoundInv'
  BY MatchStep, TilingStep, BoundStep
<1>3. TypeOK /\ MatchInv /\ TilingInv => Types
  BY BookedUpToType DEF Types
<1>4. Init => Booked
  <2>1. \A kind : BookedTicks(<<>>, kind) = {}
    BY BookedMember
  <2>2. ASSUME Init, NEW s \in Sessions
        PROVE  /\ started[s] = 0 /\ BookedUpTo(s) = 0
               /\ \A kind : BookedTicks(children[s], kind) = {}
    BY <2>1, <2>2 DEF Init, BookedUpTo, IsOpen, OpenStatuses
  <2>3. 0..(0 - 1) = {} /\ 0 <= 0
    OBVIOUS
  <2> QED
    BY <2>2, <2>3 DEF Booked, BookedOf
<1>5. /\ TypeOK /\ MatchInv /\ TilingInv /\ BoundInv /\ Types /\ Types' /\ Booked
      /\ [Next]_vars
      => Booked'
  BY SheetStep, BookedStep
<1> QED
  BY <1>1, <1>2, <1>3, <1>4, <1>5, TypeCorrect, PTL DEF Spec

\* Worked and rested ticks of a shift never overlap, and together they are all of it up
\* to its last turn or its end, corrections that await review or are approved included;
\* only a shift whose end a correction has set may be longer or shorter than its books.
THEOREM NoTickTwice == Spec => []Sheet!NoTickBookedTwice
<1>1. Booked => Sheet!NoTickBookedTwice
  BY DEF Booked, BookedOf, Sheet!NoTickBookedTwice, Sheet!Span
<1> QED
  BY <1>1, BookedHolds, PTL

\* While no correction awaits review, every tick of a shift, from its start to the
\* last turn or to its end, is booked exactly once: as worked or as rested.
THEOREM EveryTickBooked ==
    ASSUME Corrections = {}
    PROVE  Spec => []Sheet!EveryTickBookedOnce
<1>1. Booked => Sheet!EveryTickBookedOnce
  BY DEF Booked, BookedOf, Sheet!EveryTickBookedOnce, Sheet!Span
<1> QED
  BY <1>1, BookedHolds, PTL

=============================================================================
