------------------------- MODULE RemindersAndPushProofs -------------------------
(***************************************************************************)
(* Theorems about Reminders, for any callers, numbers, dates and edits,    *)
(* and about PushDelivery, for any users, devices, events and batches.     *)
(*                                                                         *)
(* Reminders: every step rewrites rows in place, or also appends one:      *)
(* RowsStep says what it may do to a row, LedgerStep what it may add to    *)
(* the penalties.                                                          *)
(*                                                                         *)
(* Pushes: whatever says that an app is gone is older than the last        *)
(* registration of an app that is there, and what is left to send was not  *)
(* sent; both are carried over every step.                                 *)
(***************************************************************************)
EXTENDS Reminders, PushDelivery, SequenceTheorems, TLAPS

\* What no step changes in a row, and how a row may get its completion.
Same(f, g) == g.lead = f.lead /\ g.linked = f.linked /\ g.created = f.created
Dated(f, g) == g.completed = f.completed \/ g.completed = now \/ f.created <= g.completed

\* The rows fs come from the rows of now, one by one.
Rewritten(fs) ==
    /\ fs \in Seq(FollowUp)
    /\ DOMAIN fs = DOMAIN followups
    /\ \A i \in DOMAIN followups : Same(followups[i], fs[i]) /\ Dated(followups[i], fs[i])

\* And perhaps one more, made now.
Grown(fs) ==
    /\ fs \in Seq(FollowUp)
    /\ DOMAIN followups \subseteq DOMAIN fs
    /\ \A i \in DOMAIN followups : Same(followups[i], fs[i]) /\ Dated(followups[i], fs[i])
    /\ \A i \in DOMAIN fs \ DOMAIN followups : fs[i].created = now /\ fs[i].completed = Never
    /\ \A i, j \in DOMAIN fs \ DOMAIN followups : i = j

LEMMA SameInterval ==
    ASSUME NEW m \in Nat, NEW n \in Nat, 1..m = 1..n
    PROVE  m = n
<1>1. \A i \in Int : i \in 1..m <=> i \in 1..n
  OBVIOUS
<1>2. m > 0 => m \in 1..n
  BY <1>1
<1>3. n > 0 => n \in 1..m
  BY <1>1
<1> QED
  BY <1>2, <1>3

\* A sequence mapped row by row.
LEMMA Mapped ==
    ASSUME NEW S, NEW s \in Seq(S), NEW t \in [DOMAIN s -> S]
    PROVE  t \in Seq(S) /\ DOMAIN t = DOMAIN s /\ Len(t) = Len(s)
<1>1. Len(s) \in Nat /\ DOMAIN s = 1..Len(s)
  BY LenProperties
<1>2. t \in [1..Len(s) -> S]
  BY <1>1
<1>3. t \in Seq(S)
  BY <1>1, <1>2, SeqDef, Zenon
<1>4. Len(t) \in Nat /\ DOMAIN t = 1..Len(t)
  BY <1>3, LenProperties
<1>5. 1..Len(t) = 1..Len(s)
  BY <1>2, <1>4
<1> QED
  BY <1>1, <1>3, <1>4, <1>5, SameInterval

LEMMA Appended ==
    ASSUME NEW S, NEW s \in Seq(S), NEW x \in S
    PROVE  /\ Append(s, x) \in Seq(S)
           /\ Len(s) \in Nat /\ Len(s) + 1 \notin DOMAIN s
           /\ DOMAIN Append(s, x) = DOMAIN s \cup {Len(s) + 1}
           /\ \A i \in DOMAIN s : Append(s, x)[i] = s[i]
           /\ Append(s, x)[Len(s) + 1] = x
           /\ Len(Append(s, x)) = Len(s) + 1
<1>1. Len(s) \in Nat /\ DOMAIN s = 1..Len(s)
  BY LenProperties
<1>2. /\ Append(s, x) \in Seq(S)
      /\ Len(Append(s, x)) = Len(s) + 1
      /\ \A i \in 1..Len(s) : Append(s, x)[i] = s[i]
      /\ Append(s, x)[Len(s) + 1] = x
  BY AppendProperties
<1>3. DOMAIN Append(s, x) = 1..(Len(s) + 1)
  BY <1>2, LenProperties
<1> QED
  BY <1>1, <1>2, <1>3

----------------------------------------------------------------------------
(* The rows                                                                 *)

LEMMA RowTypes ==
    ASSUME TypeOK
    PROVE  /\ followups \in Seq(FollowUp)
           /\ \A i \in DOMAIN followups : followups[i] \in FollowUp
BY ElementOfSeq DEF TypeOK

LEMMA NewRow ==
    ASSUME TypeOK, NEW fs, Rewritten(fs), NEW f \in FollowUp, f.created = now, f.completed = Never
    PROVE  Grown(Append(fs, f)) /\ DOMAIN Append(fs, f) \ DOMAIN fs = {Len(fs) + 1}
<1>1. fs \in Seq(FollowUp)
  BY DEF Rewritten
<1>2. /\ Append(fs, f) \in Seq(FollowUp)
      /\ Len(fs) + 1 \notin DOMAIN fs
      /\ DOMAIN Append(fs, f) = DOMAIN fs \cup {Len(fs) + 1}
      /\ \A i \in DOMAIN fs : Append(fs, f)[i] = fs[i]
      /\ Append(fs, f)[Len(fs) + 1] = f
  BY <1>1, Appended
<1> QED
  BY <1>2 DEF Rewritten, Grown

LEMMA Unchanged ==
    ASSUME TypeOK
    PROVE  Rewritten(followups)
BY RowTypes DEF Rewritten, Same, Dated

LEMMA Whole ==
    ASSUME NEW fs, Rewritten(fs)
    PROVE  Grown(fs)
BY DEF Rewritten, Grown

\* The rows a call settles, before it makes its own reminder.
CallRows(c, l, linked, started, ended) ==
    LET settled == {i \in DOMAIN followups : Settles(followups[i], c, l, linked, started, ended)}
    IN [i \in DOMAIN followups |->
          IF i \in settled
          THEN [followups[i] EXCEPT !.status = "COMPLETED", !.completed = ended]
          ELSE followups[i]]

LEMMA CallRowsFacts ==
    ASSUME TypeOK, NEW c, NEW l, NEW linked, NEW started, NEW ended \in Time
    PROVE  Rewritten(CallRows(c, l, linked, started, ended))
<1> DEFINE g(i) == [followups[i] EXCEPT !.status = "COMPLETED", !.completed = ended]
           fs == CallRows(c, l, linked, started, ended)
<1>1. \A i \in DOMAIN followups :
        /\ fs[i] = followups[i] \/ (fs[i] = g(i) /\ Settles(followups[i], c, l, linked, started, ended))
  BY DEF CallRows
<1>2. \A i \in DOMAIN followups : g(i) \in FollowUp /\ Same(followups[i], g(i)) /\ g(i).completed = ended
  BY RowTypes DEF FollowUp, Status, Same
<1>3. \A i \in DOMAIN followups :
        fs[i] \in FollowUp /\ Same(followups[i], fs[i]) /\ Dated(followups[i], fs[i])
  BY <1>1, <1>2, RowTypes DEF Same, Dated, Settles
<1>4. fs \in [DOMAIN followups -> FollowUp]
  BY <1>3 DEF CallRows
<1> HIDE DEF fs, g
<1>5. fs \in Seq(FollowUp) /\ DOMAIN fs = DOMAIN followups
  BY <1>4, RowTypes, Mapped
<1> QED
  BY <1>3, <1>5 DEF Rewritten, fs

LEMMA CallStep ==
    ASSUME TypeOK, NEW c \in Callers, NEW l \in Leads, NEW t \in CallTimes, NEW create \in BOOLEAN,
           NEW callback \in Dates \cup {Never}, Call(c, l, t[1], t[2], create, callback)
    PROVE  /\ Grown(followups')
           /\ kept' \subseteq DOMAIN followups'
           /\ \/ missed' = missed
              \/ \E i \in DOMAIN followups' \ DOMAIN followups :
                    Overdue(followups', i, now) /\ missed' = missed \cup {i}
<1>1. t[2] \in Time /\ (callback # Never => callback \in Time) /\ now \in Time
  BY RemindersAssumption DEF TypeOK
<1> DEFINE linked == create \/ owner[l] # Unknown
           fs == CallRows(c, l, linked, t[1], t[2])
           settled == {i \in DOMAIN followups : Settles(followups[i], c, l, linked, t[1], t[2])}
<1>2. /\ followups' = IF callback = Never THEN fs
                      ELSE Append(fs, Reminder(l, linked, c, callback))
      /\ kept' = kept \cup {i \in settled : OnTime(fs[i])}
      /\ missed' = missed \cup {i \in DOMAIN followups' \ DOMAIN fs : Overdue(followups', i, now)}
  BY DEF Call, CallRows
<1>3. Rewritten(fs)
  BY <1>1, CallRowsFacts
<1>4. Grown(followups') /\ \A i, j \in DOMAIN followups' \ DOMAIN fs : i = j
  <2>1. CASE callback = Never
    BY <1>2, <1>3, <2>1, Whole
  <2>2. CASE callback # Never
    <3> DEFINE f == Reminder(l, linked, c, callback)
    <3>1. f \in FollowUp /\ f.created = now /\ f.completed = Never
      BY <1>1, <2>2 DEF Reminder, FollowUp, Status
    <3> HIDE DEF f
    <3>2. followups' = Append(fs, f)
      BY <1>2, <2>2 DEF f
    <3> QED
      BY <1>3, <3>1, <3>2, NewRow
  <2> QED
    BY <2>1, <2>2
<1>5. DOMAIN fs = DOMAIN followups
  BY <1>3 DEF Rewritten
<1> HIDE DEF fs, linked
<1>6. kept' \subseteq DOMAIN followups'
  BY <1>2, <1>4 DEF Grown, TypeOK
<1>7. \/ missed' = missed
      \/ \E i \in DOMAIN followups' \ DOMAIN followups :
            Overdue(followups', i, now) /\ missed' = missed \cup {i}
  <2>1. CASE \A i \in DOMAIN followups' \ DOMAIN fs : ~Overdue(followups', i, now)
    BY <1>2, <2>1
  <2>2. CASE \E i \in DOMAIN followups' \ DOMAIN fs : Overdue(followups', i, now)
    <3>1. PICK i \in DOMAIN followups' \ DOMAIN fs : Overdue(followups', i, now)
      BY <2>2
    <3>2. {k \in DOMAIN followups' \ DOMAIN fs : Overdue(followups', k, now)} = {i}
      BY <3>1, <1>4
    <3> QED
      BY <1>2, <1>5, <3>1, <3>2
  <2> QED
    BY <2>1, <2>2
<1> QED
  BY <1>4, <1>6, <1>7

LEMMA ScheduleStep ==
    ASSUME TypeOK, NEW l \in Leads, NEW at \in Dates, Schedule(l, at)
    PROVE  Grown(followups') /\ \E i \in DOMAIN followups' : Scored(followups', i, now)
<1> DEFINE f == Reminder(l, TRUE, owner[l], at)
<1>1. f \in FollowUp /\ f.created = now /\ f.completed = Never
  BY RemindersAssumption DEF Reminder, FollowUp, Status, TypeOK, Schedule
<1>2. followups' = Append(followups, f) /\ Scored(followups', Len(followups'), now)
  BY DEF Schedule
<1> HIDE DEF f
<1>3. Grown(followups')
  BY <1>1, <1>2, Unchanged, NewRow
<1>4. Len(followups') \in DOMAIN followups'
  BY <1>1, <1>2, Appended, RowTypes
<1> QED
  BY <1>2, <1>3, <1>4

LEMMA EditStep ==
    ASSUME TypeOK, NEW u, NEW i \in DOMAIN followups, NEW e \in Edits, Edit(u, i, e[1], e[2])
    PROVE  Rewritten(followups') /\ Scored(followups', i, now)
<1> DEFINE f == SavedAs(followups[i], e[1], e[2])
<1>1. e[1] \in Time /\ e[2] \in Status /\ now \in Time
  BY RemindersAssumption DEF TypeOK
<1>2. f \in FollowUp /\ Same(followups[i], f) /\ Dated(followups[i], f)
  BY <1>1, RowTypes DEF SavedAs, FollowUp, Status, Same, Dated
<1>3. followups' = [followups EXCEPT ![i] = f] /\ Scored(followups', i, now)
  BY DEF Edit
<1> HIDE DEF f
<1>4. /\ followups' \in [DOMAIN followups -> FollowUp]
      /\ \A k \in DOMAIN followups : Same(followups[k], followups'[k]) /\ Dated(followups[k], followups'[k])
  BY <1>2, <1>3, RowTypes DEF Same, Dated
<1>5. followups' \in Seq(FollowUp) /\ DOMAIN followups' = DOMAIN followups
  BY <1>4, RowTypes, Mapped
<1> QED
  BY <1>3, <1>4, <1>5 DEF Rewritten

LEMMA RemindStep ==
    ASSUME TypeOK, NEW i \in DOMAIN followups, Remind(i)
    PROVE  Rewritten(followups')
<1> DEFINE f == [followups[i] EXCEPT !.alerted = TRUE]
<1>1. f \in FollowUp /\ Same(followups[i], f) /\ Dated(followups[i], f)
  BY RowTypes DEF FollowUp, Same, Dated
<1>2. followups' = [followups EXCEPT ![i] = f]
  BY DEF Remind
<1> HIDE DEF f
<1>3. /\ followups' \in [DOMAIN followups -> FollowUp]
      /\ \A k \in DOMAIN followups : Same(followups[k], followups'[k]) /\ Dated(followups[k], followups'[k])
  BY <1>1, <1>2, RowTypes DEF Same, Dated
<1>4. followups' \in Seq(FollowUp) /\ DOMAIN followups' = DOMAIN followups
  BY <1>3, RowTypes, Mapped
<1> QED
  BY <1>3, <1>4 DEF Rewritten

\* What a step does to the rows and to the penalties.
LEMMA RowsStep ==
    ASSUME TypeOK, [Next]_vars
    PROVE  /\ Grown(followups')
           /\ \/ kept' \subseteq DOMAIN followups' /\ missed' = missed
              \/ /\ kept' \subseteq DOMAIN followups'
                 /\ \E i \in DOMAIN followups', t \in Int :
                      Overdue(followups', i, t) /\ missed' = missed \cup {i}
<1> DEFINE Ledger == \/ kept' \subseteq DOMAIN followups' /\ missed' = missed
                     \/ /\ kept' \subseteq DOMAIN followups'
                        /\ \E i \in DOMAIN followups', t \in Int :
                             Overdue(followups', i, t) /\ missed' = missed \cup {i}
<1>0. now \in Int /\ kept \subseteq DOMAIN followups /\ Rewritten(followups)
  BY RemindersAssumption, Unchanged DEF TypeOK, Time
<1>1. ASSUME Grown(followups'), NEW i \in DOMAIN followups', NEW t \in Int, Scored(followups', i, t)
      PROVE  Ledger
  BY <1>0, <1>1 DEF Scored, Grown
<1>2. ASSUME Grown(followups'), UNCHANGED ledger PROVE Ledger
  BY <1>0, <1>2 DEF ledger, Grown
<1>3. ASSUME NEW l \in Leads, LeadStep(l) PROVE Grown(followups') /\ Ledger
  <2>1. ASSUME NEW c \in Callers, NEW t \in CallTimes, NEW create \in BOOLEAN,
               NEW callback \in Dates \cup {Never}, Call(c, l, t[1], t[2], create, callback)
        PROVE  Grown(followups') /\ Ledger
    BY <1>0, <2>1, CallStep
  <2>2. ASSUME NEW at \in Dates, Schedule(l, at) PROVE Grown(followups') /\ Ledger
    BY <1>0, <1>1, <2>2, ScheduleStep
  <2>3. ASSUME NEW c \in Callers \cup {Nobody}, Assign(l, c) PROVE Grown(followups') /\ Ledger
    BY <1>0, <1>2, <2>3, Whole DEF Assign
  <2> QED
    BY <1>3, <2>1, <2>2, <2>3 DEF LeadStep
<1>4. ASSUME NEW i \in DOMAIN followups, FollowUpStep(i) PROVE Grown(followups') /\ Ledger
  <2>1. ASSUME NEW u \in Callers \cup {Nobody}, NEW e \in Edits, Edit(u, i, e[1], e[2])
        PROVE  Grown(followups') /\ Ledger
    <3>1. Rewritten(followups') /\ Scored(followups', i, now)
      BY <2>1, EditStep
    <3>2. i \in DOMAIN followups'
      BY <3>1 DEF Rewritten
    <3> QED
      BY <1>0, <1>1, <3>1, <3>2, Whole
  <2>2. CASE Remind(i)
    <3>1. Grown(followups')
      BY <2>2, RemindStep, Whole
    <3> QED
      BY <1>2, <2>2, <3>1 DEF Remind
  <2>3. ASSUME NEW began \in Time, Reconcile(i, began) PROVE Grown(followups') /\ Ledger
    <3>1. Grown(followups') /\ began \in Int
      BY <1>0, <2>3, Whole, RemindersAssumption DEF Reconcile, Time
    <3>2. Scored(followups', i, began) /\ i \in DOMAIN followups'
      BY <2>3 DEF Reconcile
    <3> QED
      BY <1>1, <3>1, <3>2
  <2> QED
    BY <1>4, <2>1, <2>2, <2>3 DEF FollowUpStep
<1>5. ASSUME UNCHANGED <<followups, ledger>> PROVE Grown(followups') /\ Ledger
  BY <1>0, <1>2, <1>5, Whole
<1> QED
  BY <1>3, <1>4, <1>5 DEF Next, SetActive, Tick, vars

----------------------------------------------------------------------------
(* Theorems                                                                 *)

LEMMA OwnersStep ==
    ASSUME TypeOK, [Next]_vars
    PROVE  /\ now' \in Time /\ now <= now'
           /\ active' \subseteq Callers
           /\ owner' \in [Leads -> Callers \cup {Unknown, Nobody}]
<1> USE RemindersAssumption DEF TypeOK, Time
<1>1. ASSUME NEW l \in Leads, LeadStep(l)
      PROVE  /\ now' = now /\ active' = active
             /\ owner' \in [Leads -> Callers \cup {Unknown, Nobody}]
  <2>1. ASSUME NEW c \in Callers, NEW t \in CallTimes, NEW create \in BOOLEAN,
               NEW callback \in Dates \cup {Never}, Call(c, l, t[1], t[2], create, callback)
        PROVE  UNCHANGED <<now, active>> /\ owner' \in [Leads -> Callers \cup {Unknown, Nobody}]
    <3>1. UNCHANGED <<now, active>> /\ owner' = IF create THEN [owner EXCEPT ![l] = c] ELSE owner
      BY <2>1 DEF Call
    <3> QED
      BY <3>1
  <2>2. ASSUME NEW at \in Dates, Schedule(l, at) PROVE UNCHANGED <<now, active, owner>>
    BY <2>2 DEF Schedule
  <2>3. ASSUME NEW c \in Callers \cup {Nobody}, Assign(l, c)
        PROVE  UNCHANGED <<now, active>> /\ owner' \in [Leads -> Callers \cup {Unknown, Nobody}]
    BY <2>3 DEF Assign
  <2> QED
    BY <1>1, <2>1, <2>2, <2>3 DEF LeadStep
<1>2. ASSUME NEW i \in DOMAIN followups, FollowUpStep(i)
      PROVE  now' = now /\ active' = active /\ owner' = owner
  BY <1>2 DEF FollowUpStep, Edit, Remind, Reconcile
<1>3. ASSUME NEW c \in Suspendable, SetActive(c)
      PROVE  now' = now /\ active' \subseteq Callers /\ owner' = owner
  BY <1>3 DEF SetActive
<1>4. ASSUME Tick PROVE now' \in Time /\ now <= now' /\ active' = active /\ owner' = owner
  BY <1>4 DEF Tick
<1> QED
  BY <1>1, <1>2, <1>3, <1>4 DEF Next, vars

\* Every variable of the reminders keeps its type, for any callers and leads.
THEOREM TypeCorrect == Spec => []TypeOK
<1>1. Init => TypeOK
  BY RemindersAssumption, EmptySeq DEF Init, TypeOK, Time
<1>2. TypeOK /\ [Next]_vars => TypeOK'
  <2> SUFFICES ASSUME TypeOK, [Next]_vars PROVE TypeOK'
    OBVIOUS
  <2>1. Grown(followups') /\ kept' \subseteq DOMAIN followups' /\ missed' \subseteq DOMAIN followups'
    BY RowsStep DEF Grown, TypeOK
  <2> QED
    BY <2>1, OwnersStep DEF TypeOK, Grown
<1> QED
  BY <1>1, <1>2, PTL DEF Spec

\* However calls, edits and the penalty job interleave, and however many of its
\* reminders are late, a lead costs its callers one penalty (score_followup).
THEOREM PenaltyOnce == Spec => []OnePenaltyPerLead
<1>1. Init => OnePenaltyPerLead
  BY DEF Init, OnePenaltyPerLead
<1>2. TypeOK /\ OnePenaltyPerLead /\ [Next]_vars => OnePenaltyPerLead'
  <2> SUFFICES ASSUME TypeOK, OnePenaltyPerLead, [Next]_vars,
                      NEW i \in missed', NEW j \in missed',
                      followups'[i].linked, followups'[j].linked,
                      followups'[i].lead = followups'[j].lead
               PROVE  i = j
    BY DEF OnePenaltyPerLead
  <2>1. \A k \in missed : Same(followups[k], followups'[k])
    BY RowsStep DEF Grown, TypeOK
  <2>2. CASE i \in missed /\ j \in missed
    BY <2>1, <2>2 DEF OnePenaltyPerLead, Same
  <2>3. CASE ~(i \in missed /\ j \in missed)
    <3>1. PICK n \in DOMAIN followups', t \in Int :
            Overdue(followups', n, t) /\ missed' = missed \cup {n}
      BY <2>3, RowsStep
    <3>2. \A k \in missed : ~(followups'[n].linked /\ followups'[k].linked
                               /\ followups'[k].lead = followups'[n].lead)
      BY <3>1 DEF Overdue
    <3> QED
      BY <2>3, <3>1, <3>2
  <2> QED
    BY <2>2, <2>3
<1> QED
  BY <1>1, <1>2, TypeCorrect, PTL DEF Spec

\* Rows are made in the past.
MadeInv == \A i \in DOMAIN followups : followups[i].created <= now

\* A reminder is completed after it was made, however late a call is reported and
\* however often the reminder is reopened (complete_due_followups_for_call).
THEOREM CompletedLater == Spec => []CompletedAfterItWasMade
<1>1. Init => MadeInv /\ CompletedAfterItWasMade
  BY DEF Init, MadeInv, CompletedAfterItWasMade
<1>2. TypeOK /\ MadeInv /\ CompletedAfterItWasMade /\ [Next]_vars
        => (MadeInv /\ CompletedAfterItWasMade)'
  <2> SUFFICES ASSUME TypeOK, MadeInv, CompletedAfterItWasMade, [Next]_vars,
                      NEW i \in DOMAIN followups'
               PROVE  /\ followups'[i].created <= now'
                      /\ followups'[i].completed # Never
                           => followups'[i].created <= followups'[i].completed
    BY DEF MadeInv, CompletedAfterItWasMade
  <2>1. now \in Int /\ now' \in Int /\ now <= now'
    BY OwnersStep, RemindersAssumption DEF TypeOK, Time
  <2>2. CASE i \in DOMAIN followups
    <3>1. Same(followups[i], followups'[i]) /\ Dated(followups[i], followups'[i])
      BY <2>2, RowsStep DEF Grown
    <3>2. followups[i].created <= now /\ followups[i].created \in Int
      BY <2>2, RowTypes, RemindersAssumption DEF MadeInv, FollowUp, Time
    <3> QED
      BY <2>1, <2>2, <3>1, <3>2 DEF Same, Dated, CompletedAfterItWasMade
  <2>3. CASE i \notin DOMAIN followups
    <3>1. followups'[i].created = now /\ followups'[i].completed = Never
      BY <2>3, RowsStep DEF Grown
    <3> QED
      BY <2>1, <3>1
  <2> QED
    BY <2>2, <2>3
<1> QED
  BY <1>1, <1>2, TypeCorrect, PTL DEF Spec

----------------------------------------------------------------------------
(* Pushes                                                                   *)

\* No stamp is of the future, and an active device has one.
StampInv ==
    /\ \A d \in Devices : seen[d] <= registrations /\ (isActive[d] => seen[d] # 0)
    /\ \A e \in Events : \A d \in DOMAIN composed[e] : composed[e][d] <= registrations
    /\ \A r \in receipts \cup asked : r.seen <= registrations

\* Whatever says that the app is gone, an answer under way, a receipt, or what
\* a check was told, speaks of an earlier registration than that of an app that
\* is registered now.
Outdated(d, then) == phone[d] = "registered" => seen[d] # then

GoneInv ==
    /\ \A e \in Events : \A d \in Gone(e) : Outdated(d, composed[e][d])
    /\ \A r \in receipts \cup asked : r.fate = "gone" => Outdated(r.device, r.seen)

\* Who is pushed to has an entry by then: the thread is past its commit, and
\* the devices it read belong to the audience and stay with their user.
EntryInv ==
    /\ \A e \in Events : stage[e] \in {"callback", "sending"} => Entries(e) \subseteq inbox
    /\ \A e \in Events : \A d \in DOMAIN composed[e] : user[d] \in Audience[e]
    /\ PushesGoToTheAudience

\* What is still to send was not sent yet.
OnceInv ==
    \A e \in Events, d \in Devices :
        d \in left[e] \/ stage[e] \in {"new", "tx", "callback"} => sent[<<e, d>>] = 0

LEMMA OnSomeOf ==
    ASSUME NEW S, NEW f
    PROVE  f \in OnSome(S) <=> DOMAIN f \subseteq Devices /\ f \in [DOMAIN f -> S]
BY Zenon DEF OnSome

LEMMA NoneOfThem ==
    /\ DOMAIN None = {}
    /\ \A S : None \in OnSome(S)
<1>1. DOMAIN None = {} /\ \A S : None \in [DOMAIN None -> S]
  BY DEF None
<1> QED
  BY <1>1, OnSomeOf

\* What changes of one event keeps the type of all.
LEMMA PushTypeStep ==
    ASSUME PushTypeOK, StampInv, [PushNext]_pushVars
    PROVE  PushTypeOK'
<1> USE PushAssumption
<1>0. CASE UNCHANGED pushVars
  BY <1>0 DEF PushTypeOK, pushVars, device, thread
<1>1. ASSUME NEW d \in Devices, NEW u \in Users, Register(d, u)
      PROVE  PushTypeOK'
  BY <1>1 DEF PushTypeOK, Register, thread
<1>2. ASSUME NEW d \in Devices, Remove(d) \/ Uninstall(d) \/ Install(d)
      PROVE  PushTypeOK'
  BY <1>2 DEF PushTypeOK, Remove, Uninstall, Install, thread
<1>3. ASSUME NEW e \in Events, Persist(e) \/ Commit(e) \/ Claim(e)
      PROVE  PushTypeOK'
  BY <1>3 DEF PushTypeOK, Persist, Commit, Claim, Go, Entries, device, thread
<1>4. ASSUME NEW e \in Events, Compose(e)
      PROVE  PushTypeOK'
  <2>1. Reached(e) \in OnSome(1..MaxRegistrations)
    <3> DEFINE S == {d \in Devices : isActive[d] /\ user[d] \in Audience[e]}
    <3>1. \A d \in S : d \in Devices /\ seen[d] \in 1..MaxRegistrations
      BY DEF PushTypeOK, StampInv
    <3>2. [d \in S |-> seen[d]] \in [S -> 1..MaxRegistrations]
      BY <3>1
    <3> QED
      BY <3>1, <3>2, OnSomeOf DEF Reached, Restrict
  <2>2. PICK f \in OnSome(1..MaxRegistrations) : composed' = [composed EXCEPT ![e] = f]
    BY <1>4, <2>1, NoneOfThem DEF Compose
  <2>3. DOMAIN f \subseteq Devices /\ left' = [left EXCEPT ![e] = DOMAIN f]
    BY <1>4, <2>2, OnSomeOf DEF Compose, PushTypeOK
  <2> QED
    BY <1>4, <2>2, <2>3, NoneOfThem DEF PushTypeOK, Compose, Go, device
<1>5. ASSUME NEW e \in Events, Send(e)
      PROVE  PushTypeOK'
  <2>1. PICK batch \in SUBSET left[e] : \E tickets \in [batch -> Tickets] :
            /\ air' = [air EXCEPT ![e] = tickets]
            /\ left' = [left EXCEPT ![e] = @ \ batch]
            /\ sent' = [p \in DOMAIN sent |->
                           IF p[1] = e /\ p[2] \in batch THEN sent[p] + 1 ELSE sent[p]]
    BY <1>5 DEF Send
  <2>4. PICK tickets \in [batch -> Tickets] : air' = [air EXCEPT ![e] = tickets]
    BY <2>1
  <2>2. DOMAIN tickets = batch /\ batch \subseteq Devices /\ tickets \in OnSome(Tickets)
    BY OnSomeOf DEF PushTypeOK
  <2>3. sent' \in [Events \X Devices -> Nat]
    BY <2>1 DEF PushTypeOK
  <2> QED
    BY <1>5, <2>1, <2>2, <2>3, <2>4 DEF PushTypeOK, Send, device
<1>6. ASSUME NEW e \in Events, NEW d \in Devices, Answer(e, d)
      PROVE  PushTypeOK'
  <2> DEFINE rest == Restrict(air[e], DOMAIN air[e] \ {d})
  <2>1. Accepted(e, d) \subseteq Receipt
    <3>1. d \in DOMAIN air[e] /\ composed[e][d] \in 1..MaxRegistrations
      BY <1>6, OnSomeOf DEF Answer, PushTypeOK
    <3> QED
      BY <3>1 DEF Accepted, Receipt
  <2>2. isActive' \in [Devices -> BOOLEAN]
    BY <1>6 DEF Answer, Deactivated, PushTypeOK
  <2>3. rest \in OnSome(Tickets) /\ DOMAIN rest \subseteq DOMAIN air[e]
    <3>1. DOMAIN air[e] \subseteq Devices /\ air[e] \in [DOMAIN air[e] -> Tickets]
      BY OnSomeOf DEF PushTypeOK
    <3>2. DOMAIN rest = DOMAIN air[e] \ {d} /\ rest \in [DOMAIN rest -> Tickets]
      BY <3>1 DEF Restrict
    <3> QED
      BY <3>1, <3>2, OnSomeOf
  <2>4. air[e] # None /\ air' = [air EXCEPT ![e] = rest]
    BY <1>6, NoneOfThem DEF Answer
  <2> HIDE DEF rest
  <2>5. \A x \in Events :
            /\ left'[x] \subseteq DOMAIN composed'[x]
            /\ DOMAIN air'[x] \subseteq DOMAIN composed'[x] \ left'[x]
            /\ stage'[x] # "sending" => left'[x] = {} /\ air'[x] = None
    BY <1>6, <2>3, <2>4 DEF PushTypeOK, Answer
  <2>6. air' \in [Events -> OnSome(Tickets)] /\ receipts' \subseteq Receipt
    BY <1>6, <2>1, <2>3, <2>4 DEF PushTypeOK, Answer
  <2> QED
    BY <1>6, <2>2, <2>5, <2>6 DEF PushTypeOK, Answer
<1>7. ASSUME NEW e \in Events, NoAnswer(e) \/ Finish(e) \/ Crash(e)
      PROVE  PushTypeOK'
  <2>1. CASE NoAnswer(e)
    BY <2>1, NoneOfThem DEF PushTypeOK, NoAnswer, device
  <2>2. CASE Finish(e)
    BY <2>2, NoneOfThem DEF PushTypeOK, Finish, Go, device
  <2>3. CASE Crash(e)
    BY <2>3, NoneOfThem DEF PushTypeOK, Crash, device
  <2> QED
    BY <1>7, <2>1, <2>2, <2>3
<1>8. ASSUME NEW r \in receipts, Fate(r) \/ Grow(r)
      PROVE  PushTypeOK'
  <2>1. receipts' \subseteq Receipt
    <3>1. \A f \in Tickets : [r EXCEPT !.fate = f] \in Receipt
      BY DEF PushTypeOK, Receipt
    <3>2. \A a \in {"due", "old"} : [r EXCEPT !.age = a] \in Receipt
      BY DEF PushTypeOK, Receipt
    <3>3. CASE Fate(r)
      <4>1. PICK f \in Tickets : receipts' = (receipts \ {r}) \cup {[r EXCEPT !.fate = f]}
        BY <3>3 DEF Fate, Tickets
      <4> QED
        BY <3>1, <4>1 DEF PushTypeOK
    <3>4. CASE Grow(r)
      BY <3>2, <3>4 DEF PushTypeOK, Grow
    <3> QED
      BY <1>8, <3>3, <3>4
  <2> QED
    BY <1>8, <2>1 DEF PushTypeOK, Fate, Grow, device, thread
<1>9. ASSUME NEW r \in asked, Settle(r)
      PROVE  PushTypeOK'
  <2>1. r.device \in Devices
    BY DEF PushTypeOK, Receipt
  <2>2. isActive' \in [Devices -> BOOLEAN]
    BY <1>9, <2>1 DEF PushTypeOK, Settle, Deactivated
  <2> QED
    BY <1>9, <2>2 DEF PushTypeOK, Settle, thread
<1>10. ASSUME Ask \/ GiveUp
       PROVE  PushTypeOK'
  BY <1>10 DEF PushTypeOK, Ask, Told, GiveUp, device, thread
<1> QED
  BY <1>0, <1>1, <1>2, <1>3, <1>4, <1>5, <1>6, <1>7, <1>8, <1>9, <1>10 DEF PushNext, Phones

----------------------------------------------------------------------------
(* Devices and receipts                                                     *)

\* What a step may do to a device: register it with a stamp of its own, or
\* leave stamp and user alone and register nothing.
DeviceStep(d) ==
    \/ /\ registrations' = registrations + 1 /\ seen'[d] = registrations + 1
       /\ isActive'[d] /\ user[d] \in {NoUser, user'[d]} /\ user'[d] \in Users
    \/ /\ seen'[d] = seen[d] /\ user'[d] = user[d]
       /\ isActive'[d] => isActive[d]
       /\ phone'[d] = "registered" => phone[d] = "registered"

\* And to what is known of tickets: a new receipt knows nothing yet, and only
\* a phone without the app makes one say so.
Remembers(r, s) ==
    /\ r.device = s.device /\ r.seen = s.seen
    /\ r.fate = "gone" => s.fate = "gone" \/ phone'[s.device] = "absent"

ReceiptStep(r) ==
    \/ \E s \in receipts \cup asked : Remembers(r, s)
    \/ \E e \in Events : \E d \in DOMAIN air[e] :
          r.device = d /\ r.seen = composed[e][d] /\ r.fate = "unknown"

LEMMA DeviceSteps ==
    ASSUME PushTypeOK, [PushNext]_pushVars
    PROVE  /\ registrations' \in {registrations, registrations + 1}
           /\ \A d \in Devices : DeviceStep(d)
<1>1. ASSUME NEW d \in Devices, NEW u \in Users, Register(d, u)
      PROVE  /\ registrations' = registrations + 1
             /\ \A x \in Devices : DeviceStep(x)
  BY <1>1 DEF PushTypeOK, Register, DeviceStep
<1>2. ASSUME NEW d \in Devices, Remove(d) \/ Uninstall(d) \/ Install(d)
      PROVE  /\ registrations' = registrations
             /\ \A x \in Devices : DeviceStep(x)
  BY <1>2 DEF PushTypeOK, Remove, Uninstall, Install, DeviceStep
<1>3. CASE UNCHANGED device
  BY <1>3 DEF device, DeviceStep
<1>4. ASSUME NEW e \in Events, NEW y \in Devices, Answer(e, y)
      PROVE  /\ registrations' = registrations
             /\ \A x \in Devices : DeviceStep(x)
  BY <1>4 DEF PushTypeOK, Answer, Deactivated, DeviceStep
<1>5. ASSUME NEW r \in asked, Settle(r)
      PROVE  /\ registrations' = registrations
             /\ \A x \in Devices : DeviceStep(x)
  <2>1. r.device \in Devices
    BY DEF PushTypeOK, Receipt
  <2> QED
    BY <1>5, <2>1 DEF PushTypeOK, Settle, Deactivated, DeviceStep
<1> QED
  BY <1>1, <1>2, <1>3, <1>4, <1>5
     DEF PushNext, Phones, pushVars, Persist, Commit, Compose, Send, NoAnswer,
         Finish, Crash, Claim, Fate, Grow, Ask, GiveUp

LEMMA ReceiptSteps ==
    ASSUME PushTypeOK, [PushNext]_pushVars, NEW r \in receipts' \cup asked'
    PROVE  ReceiptStep(r)
<1>1. CASE r \in receipts \cup asked
  BY <1>1 DEF ReceiptStep, Remembers
<1>2. ASSUME NEW e \in Events, NEW d \in Devices, Answer(e, d), r \notin receipts \cup asked
      PROVE  ReceiptStep(r)
  <2>1. r \in Accepted(e, d) /\ d \in DOMAIN air[e]
    BY <1>2 DEF Answer
  <2> QED
    BY <2>1 DEF Accepted, ReceiptStep
<1>3. ASSUME NEW s \in receipts, Fate(s) \/ Grow(s), r \notin receipts \cup asked
      PROVE  ReceiptStep(r)
  <2>1. s \in Receipt
    BY DEF PushTypeOK
  <2>2. r.device = s.device /\ r.seen = s.seen
    BY <1>3, <2>1 DEF Fate, Grow, Receipt
  <2>3. r.fate = "gone" => s.fate = "gone" \/ phone'[s.device] = "absent"
    BY <1>3, <2>1 DEF Fate, Grow, Receipt, device
  <2> QED
    BY <2>2, <2>3 DEF ReceiptStep, Remembers
<1>4. ASSUME NEW s \in asked, Settle(s)
      PROVE  r \in receipts \cup asked
  BY <1>4 DEF Settle
<1>5. Ask \/ GiveUp => r \in receipts \cup asked
  BY DEF Ask, Told, GiveUp
<1> QED
  BY <1>1, <1>2, <1>3, <1>4, <1>5
     DEF PushNext, Phones, pushVars, Register, Remove, Uninstall, Install, Persist, Commit,
         Compose, Send, NoAnswer, Finish, Crash, Claim

\* Only Compose chooses the devices.
LEMMA ComposedStep ==
    ASSUME PushTypeOK, [PushNext]_pushVars, NEW e \in Events
    PROVE  composed'[e] = composed[e] \/ Compose(e)
<1>1. ASSUME NEW x \in Events, NEW d \in Devices, Answer(x, d)
      PROVE  composed' = composed
  BY <1>1 DEF Answer
<1>2. ASSUME ~ \E x \in Events, d \in Devices : Answer(x, d)
      PROVE  composed'[e] = composed[e] \/ Compose(e)
  BY <1>2 DEF PushTypeOK, PushNext, Phones, pushVars, thread, Register, Remove, Uninstall,
     Install, Persist, Commit, Compose, Send, NoAnswer, Finish, Crash, Claim, Fate, Grow,
     Settle, Ask, GiveUp
<1> QED
  BY <1>1, <1>2

LEMMA StampStep ==
    ASSUME PushTypeOK, StampInv, [PushNext]_pushVars
    PROVE  StampInv'
<1> USE DEF PushTypeOK
<1>1. registrations \in Nat /\ registrations' \in {registrations, registrations + 1}
  BY DeviceSteps, PushAssumption
<1>2. \A d \in Devices : seen'[d] <= registrations' /\ (isActive'[d] => seen'[d] # 0)
  BY <1>1, DeviceSteps, PushAssumption DEF StampInv, DeviceStep
<1>3. ASSUME NEW e \in Events, NEW d \in DOMAIN composed'[e]
      PROVE  composed'[e][d] <= registrations'
  <2>1. CASE composed'[e] = composed[e]
    <3>1. composed[e][d] \in Nat /\ composed[e][d] <= registrations
      BY <2>1, <1>3, OnSomeOf, PushAssumption DEF StampInv
    <3> QED
      BY <2>1, <3>1, <1>1
  <2>2. CASE Compose(e)
    <3>1. d \in DOMAIN Reached(e) /\ composed'[e] = Reached(e)
      BY <2>2, <1>3, NoneOfThem DEF Compose
    <3>2. d \in Devices /\ composed'[e][d] = seen[d]
      BY <3>1 DEF Reached, Restrict
    <3> QED
      BY <3>2, <1>1, PushAssumption DEF StampInv
  <2>3. composed'[e] = composed[e] \/ Compose(e)
    BY ComposedStep
  <2> QED
    BY <2>1, <2>2, <2>3
<1>4. ASSUME NEW r \in receipts' \cup asked'
      PROVE  r.seen <= registrations'
  <2>1. r.seen <= registrations
    <3>1. CASE \E s \in receipts \cup asked : Remembers(r, s)
      BY <3>1 DEF Remembers, StampInv
    <3>2. ASSUME NEW e \in Events, NEW d \in DOMAIN air[e], r.seen = composed[e][d]
          PROVE  r.seen <= registrations
      <4>1. d \in DOMAIN composed[e]
        OBVIOUS
      <4> QED
        BY <3>2, <4>1 DEF StampInv
    <3> QED
      BY <3>1, <3>2, ReceiptSteps DEF ReceiptStep
  <2>2. r.seen \in Nat
    BY PushTypeStep, PushAssumption DEF Receipt
  <2> QED
    BY <1>1, <2>1, <2>2
<1> QED
  BY <1>2, <1>3, <1>4 DEF StampInv

\* An answer that calls an app gone was given while the phone had lost it.
LEMMA GoneStep ==
    ASSUME PushTypeOK, [PushNext]_pushVars, NEW e \in Events, NEW d \in Gone(e)'
    PROVE  \/ d \in Gone(e) /\ composed'[e][d] = composed[e][d]
           \/ phone'[d] = "absent"
<1>1. CASE air'[e] = air[e] /\ composed'[e] = composed[e]
  BY <1>1 DEF Gone
<1>2. CASE air'[e] = None
  BY <1>2, NoneOfThem DEF Gone
<1>3. CASE Compose(e)
  <2>1. air'[e] = None
    BY <1>3 DEF Compose, Go, PushTypeOK
  <2> QED
    BY <2>1, <1>2
<1>4. CASE Send(e)
  <2>1. air'[e] \in [DOMAIN air'[e] -> Tickets] /\ \A x \in DOMAIN air'[e] : air'[e][x] \in TicketFor(x)
    BY <1>4 DEF Send, PushTypeOK
  <2> QED
    BY <1>4, <2>1 DEF Gone, TicketFor, Send, device
<1>6. CASE \E x \in Devices : Answer(e, x)
  <2>1. PICK x \in Devices : Answer(e, x)
    BY <1>6
  <2>2. air'[e] = Restrict(air[e], DOMAIN air[e] \ {x}) /\ composed' = composed
    BY <2>1 DEF Answer, PushTypeOK
  <2> QED
    BY <2>2 DEF Gone, Restrict
<1>5. ASSUME ~ \E x \in Devices : Answer(e, x)
      PROVE  \/ air'[e] = air[e] /\ composed'[e] = composed[e]
             \/ air'[e] = None
             \/ Compose(e) \/ Send(e)
  <2>1. ASSUME NEW x \in Events \ {e}, NEW y \in Devices, Answer(x, y)
        PROVE  air'[e] = air[e] /\ composed'[e] = composed[e]
    <3>1. composed' = composed /\ \E f : air' = [air EXCEPT ![x] = f]
      BY <2>1 DEF Answer
    <3>2. DOMAIN air = Events
      BY DEF PushTypeOK
    <3> QED
      BY <3>1, <3>2
  <2>2. ASSUME ~ \E x \in Events, y \in Devices : Answer(x, y)
        PROVE  \/ air'[e] = air[e] /\ composed'[e] = composed[e]
               \/ air'[e] = None
               \/ Compose(e) \/ Send(e)
    <3> DEFINE Goal == \/ air'[e] = air[e] /\ composed'[e] = composed[e]
                       \/ air'[e] = None
                       \/ Compose(e) \/ Send(e)
    <3>1. ASSUME NEW x \in Events, \/ Persist(x) \/ Commit(x) \/ Compose(x) \/ Send(x)
                                   \/ NoAnswer(x) \/ Finish(x) \/ Crash(x) \/ Claim(x)
          PROVE  Goal
      <4>1. CASE x = e
        BY <3>1, <4>1 DEF PushTypeOK, thread, Persist, Commit, NoAnswer, Finish, Crash, Claim
      <4>2. CASE x # e
        <5>1. composed' = composed \/ \E f : composed' = [composed EXCEPT ![x] = f]
          BY <3>1 DEF thread, Persist, Commit, Compose, Send, NoAnswer, Finish, Crash, Claim
        <5>2. air' = air \/ \E f : air' = [air EXCEPT ![x] = f]
          BY <3>1 DEF thread, Persist, Commit, Compose, Send, NoAnswer, Finish, Crash, Claim
        <5>3. DOMAIN air = Events /\ DOMAIN composed = Events
          BY DEF PushTypeOK
        <5> QED
          BY <4>2, <5>1, <5>2, <5>3
      <4> QED
        BY <4>1, <4>2
    <3>2. CASE UNCHANGED <<air, composed>>
      BY <3>2
    <3>3. \/ UNCHANGED <<air, composed>>
          \/ \E x \in Events : \/ Persist(x) \/ Commit(x) \/ Compose(x) \/ Send(x)
                              \/ NoAnswer(x) \/ Finish(x) \/ Crash(x) \/ Claim(x)
      BY <2>2 DEF PushNext, Phones, pushVars, thread, Register, Remove, Uninstall, Install,
         Fate, Grow, Settle, Ask, GiveUp
    <3> QED
      BY <3>1, <3>2, <3>3
  <2> QED
    BY <1>5, <2>1, <2>2
<1> QED
  BY <1>1, <1>2, <1>3, <1>4, <1>5, <1>6

\* A new registration is later than everything said before it.
LEMMA OutdatedStays ==
    ASSUME PushTypeOK, [PushNext]_pushVars, NEW d \in Devices,
           NEW then \in Nat, then <= registrations, Outdated(d, then)
    PROVE  Outdated(d, then)'
<1>1. registrations \in Nat
  BY PushAssumption DEF PushTypeOK
<1> QED
  BY <1>1, DeviceSteps DEF DeviceStep, Outdated

LEMMA GoneInvStep ==
    ASSUME PushTypeOK, StampInv, GoneInv, [PushNext]_pushVars
    PROVE  GoneInv'
<1>1. ASSUME NEW e \in Events, NEW d \in Gone(e)'
      PROVE  Outdated(d, composed[e][d])'
  <2>1. CASE phone'[d] = "absent"
    BY <2>1 DEF Outdated
  <2>2. CASE d \in Gone(e) /\ composed'[e][d] = composed[e][d]
    <3>1. d \in DOMAIN composed[e] /\ d \in Devices
      BY <2>2, OnSomeOf DEF Gone, PushTypeOK
    <3>2. composed[e][d] \in Nat /\ composed[e][d] <= registrations
      BY <3>1, OnSomeOf, PushAssumption DEF PushTypeOK, StampInv
    <3>3. Outdated(d, composed[e][d])
      BY <2>2 DEF GoneInv
    <3> QED
      BY <2>2, <3>1, <3>2, <3>3, OutdatedStays DEF Outdated
  <2> QED
    BY <2>1, <2>2, GoneStep
<1>2. ASSUME NEW r \in receipts' \cup asked', r.fate = "gone"
      PROVE  Outdated(r.device, r.seen)'
  <2>1. PICK s \in receipts \cup asked : Remembers(r, s)
    BY <1>2, ReceiptSteps DEF ReceiptStep
  <2>2. s.device \in Devices /\ s.seen \in Nat /\ s.seen <= registrations
    BY PushAssumption DEF PushTypeOK, Receipt, StampInv
  <2>3. CASE s.fate = "gone"
    BY <2>1, <2>2, <2>3, OutdatedStays DEF GoneInv, Remembers, Outdated
  <2>4. CASE phone'[s.device] = "absent"
    BY <2>1, <2>4 DEF Remembers, Outdated
  <2> QED
    BY <1>2, <2>1, <2>3, <2>4 DEF Remembers
<1> QED
  BY <1>1, <1>2 DEF GoneInv

\* Only a removal, or an answer about the present registration, switches off.
LEMMA ReachedStep ==
    ASSUME PushTypeOK, GoneInv, RegisteredPhonesAreReached, [PushNext]_pushVars
    PROVE  RegisteredPhonesAreReached'
<1> USE DEF RegisteredPhonesAreReached
<1>1. CASE UNCHANGED <<phone, isActive>>
  BY <1>1
<1>2. ASSUME NEW d \in Devices, Phones(d)
      PROVE  RegisteredPhonesAreReached'
  BY <1>2 DEF PushTypeOK, Phones, Register, Remove, Uninstall, Install
<1>3. ASSUME NEW e \in Events, NEW x \in Devices, Answer(e, x)
      PROVE  RegisteredPhonesAreReached'
  <2> SUFFICES ASSUME NEW d \in Devices, phone'[d] = "registered"
               PROVE  isActive'[d]
    OBVIOUS
  <2>1. isActive[d] /\ phone[d] = "registered"
    BY <1>3 DEF Answer
  <2>2. d \in Gone(e) => seen[d] # composed[e][d]
    BY <2>1 DEF GoneInv, Outdated
  <2>3. isActive' = isActive \/ (x \in Gone(e) /\ isActive' = Deactivated(x, composed[e][x]))
    BY <1>3 DEF Answer
  <2>4. Deactivated(x, composed[e][x])[d] = IF x = d THEN isActive[d] /\ seen[d] # composed[e][d]
                                            ELSE isActive[d]
    BY DEF Deactivated, PushTypeOK
  <2> QED
    BY <2>1, <2>2, <2>3, <2>4
<1>4. ASSUME NEW r \in asked, Settle(r)
      PROVE  RegisteredPhonesAreReached'
  <2> SUFFICES ASSUME NEW d \in Devices, phone'[d] = "registered"
               PROVE  isActive'[d]
    OBVIOUS
  <2>1. isActive[d] /\ phone[d] = "registered"
    BY <1>4 DEF Settle
  <2>2. r.device = d /\ r.fate = "gone" => seen[d] # r.seen
    BY <2>1 DEF GoneInv, Outdated
  <2>3. isActive' = isActive \/ (r.fate = "gone" /\ isActive' = Deactivated(r.device, r.seen))
    BY <1>4 DEF Settle
  <2>4. Deactivated(r.device, r.seen)[d] = IF r.device = d THEN isActive[d] /\ seen[d] # r.seen
                                           ELSE isActive[d]
    BY DEF Deactivated, PushTypeOK
  <2> QED
    BY <2>1, <2>2, <2>3, <2>4
<1> QED
  BY <1>1, <1>2, <1>3, <1>4
     DEF PushNext, pushVars, device, Persist, Commit, Compose, Send, NoAnswer, Finish, Crash,
         Claim, Fate, Grow, Ask, GiveUp

----------------------------------------------------------------------------
(* What is sent                                                             *)

LEMMA SentStep ==
    ASSUME PushTypeOK, [PushNext]_pushVars,
           NEW e \in Events, NEW d \in Devices, sent'[<<e, d>>] > 0
    PROVE  sent[<<e, d>>] > 0 \/ (Send(e) /\ d \in left[e])
<1>1. sent' = sent \/ \E x \in Events : Send(x)
  BY DEF PushNext, Phones, pushVars, thread, Register, Remove, Uninstall, Install, Persist,
         Commit, Compose, Send, Answer, NoAnswer, Finish, Crash, Claim, Fate, Grow, Settle, Ask, GiveUp
<1>2. ASSUME NEW x \in Events, Send(x)
      PROVE  sent'[<<e, d>>] = sent[<<e, d>>] \/ (Send(e) /\ d \in left[e])
  <2>1. PICK batch \in SUBSET left[x] :
            sent' = [p \in DOMAIN sent |->
                        IF p[1] = x /\ p[2] \in batch THEN sent[p] + 1 ELSE sent[p]]
    BY <1>2 DEF Send
  <2>2. <<e, d>> \in DOMAIN sent
    BY DEF PushTypeOK
  <2> QED
    BY <1>2, <2>1, <2>2
<1> QED
  BY <1>1, <1>2

LEMMA InboxStep ==
    ASSUME [PushNext]_pushVars
    PROVE  inbox \subseteq inbox'
BY DEF PushNext, Phones, pushVars, thread, Register, Remove, Uninstall, Install,
       Persist, Commit, Compose, Send, Answer, NoAnswer, Finish, Crash, Claim, Fate, Grow,
       Settle, Ask, GiveUp

LEMMA EntryStep ==
    ASSUME PushTypeOK, EntryInv, [PushNext]_pushVars
    PROVE  EntryInv'
<1>1. inbox \subseteq inbox'
  BY InboxStep
<1>2. \A d \in Devices : user'[d] = user[d] \/ (user[d] = NoUser /\ user'[d] \in Users)
  BY DeviceSteps DEF DeviceStep
<1>3. ASSUME NEW e \in Events, stage'[e] \in {"callback", "sending"}
      PROVE  Entries(e) \subseteq inbox'
  <2>1. CASE stage[e] \in {"callback", "sending"}
    BY <1>1, <2>1 DEF EntryInv
  <2>2. CASE Commit(e)
    BY <2>2 DEF Commit
  <2>3. stage'[e] = stage[e] \/ Commit(e) \/ stage[e] = "callback" \/ stage'[e] \in {"tx", "done"}
    BY DEF PushTypeOK, PushNext, Phones, pushVars, thread, Go, Register, Remove, Uninstall, Install,
         Persist, Commit, Compose, Send, Answer, NoAnswer, Finish, Crash, Claim, Fate, Grow,
         Settle, Ask, GiveUp
  <2> QED
    BY <1>3, <2>1, <2>2, <2>3
<1>4. ASSUME NEW e \in Events, NEW d \in DOMAIN composed'[e]
      PROVE  user'[d] \in Audience[e]
  <2>1. CASE composed'[e] = composed[e]
    <3>1. d \in Devices /\ user[d] \in Audience[e]
      BY <2>1, <1>4, OnSomeOf DEF PushTypeOK, EntryInv
    <3> QED
      BY <3>1, <1>2, PushAssumption
  <2>2. CASE Compose(e)
    <3>1. d \in DOMAIN Reached(e) /\ user' = user
      BY <2>2, <1>4, NoneOfThem DEF Compose, PushTypeOK, device
    <3> QED
      BY <3>1 DEF Reached, Restrict
  <2>3. composed'[e] = composed[e] \/ Compose(e)
    BY ComposedStep
  <2> QED
    BY <2>1, <2>2, <2>3
<1>5. ASSUME NEW e \in Events, NEW d \in Devices, sent'[<<e, d>>] > 0
      PROVE  user'[d] \in Audience[e]
  <2>1. user[d] \in Audience[e]
    BY <1>5, SentStep DEF EntryInv, PushesGoToTheAudience, PushTypeOK
  <2> QED
    BY <2>1, <1>2, PushAssumption
<1> QED
  BY <1>3, <1>4, <1>5 DEF EntryInv, PushesGoToTheAudience, Entries

LEMMA HaveEntryStep ==
    ASSUME PushTypeOK, EntryInv, PushesHaveTheirEntry, [PushNext]_pushVars
    PROVE  PushesHaveTheirEntry'
<1> SUFFICES ASSUME NEW e \in Events \ Website, NEW d \in Devices, sent'[<<e, d>>] > 0
             PROVE  <<e, user'[d]>> \in inbox'
  BY DEF PushesHaveTheirEntry
<1>1. user[d] \in Audience[e]
  BY SentStep DEF EntryInv, PushesGoToTheAudience, PushTypeOK
<1>2. user'[d] = user[d]
  BY <1>1, DeviceSteps, PushAssumption DEF DeviceStep
<1>3. CASE sent[<<e, d>>] > 0
  BY <1>2, <1>3, InboxStep DEF PushesHaveTheirEntry
<1>4. CASE Send(e)
  BY <1>1, <1>2, <1>4, InboxStep DEF Send, EntryInv, Entries
<1> QED
  BY <1>3, <1>4, SentStep

\* A thread writes nothing to Expo before its commit, and each device once.
LEMMA OnceStep ==
    ASSUME PushTypeOK, OnceInv, NoPushTwice, [PushNext]_pushVars
    PROVE  OnceInv' /\ NoPushTwice'
<1>0. DOMAIN sent = Events \X Devices
  BY DEF PushTypeOK
<1>1. ASSUME NEW e \in Events, Send(e)
      PROVE  OnceInv' /\ NoPushTwice'
  <2>1. PICK batch \in SUBSET left[e] :
            /\ left' = [left EXCEPT ![e] = @ \ batch]
            /\ sent' = [p \in DOMAIN sent |->
                           IF p[1] = e /\ p[2] \in batch THEN sent[p] + 1 ELSE sent[p]]
    BY <1>1 DEF Send
  <2>2. stage' = stage /\ stage[e] = "sending"
    BY <1>1 DEF Send
  <2>3. ASSUME NEW x \in Events, NEW d \in Devices
        PROVE  /\ sent'[<<x, d>>] = IF x = e /\ d \in batch THEN sent[<<x, d>>] + 1
                                    ELSE sent[<<x, d>>]
               /\ d \in left'[x] => d \in left[x] /\ (x # e \/ d \notin batch)
    BY <1>0, <2>1 DEF PushTypeOK
  <2>4. OnceInv'
    BY <2>2, <2>3 DEF OnceInv
  <2>5. ASSUME NEW x \in Events, NEW d \in Devices
        PROVE  sent'[<<x, d>>] <= 1
    BY <1>0, <2>1, <2>3 DEF OnceInv, NoPushTwice, PushTypeOK
  <2>6. DOMAIN sent' = Events \X Devices
    BY <1>0, <2>1
  <2> QED
    BY <2>4, <2>5, <2>6 DEF NoPushTwice
<1>2. ASSUME NEW e \in Events,
             Persist(e) \/ Commit(e) \/ Compose(e) \/ Finish(e) \/ Crash(e)
      PROVE  OnceInv'
  BY <1>2 DEF OnceInv, PushTypeOK, Persist, Commit, Compose, Finish, Crash, Go
<1>3. CASE UNCHANGED <<stage, left, sent>>
  BY <1>3 DEF OnceInv, NoPushTwice
<1>4. sent' = sent => NoPushTwice'
  BY DEF NoPushTwice
<1> QED
  BY <1>1, <1>2, <1>3, <1>4
     DEF PushNext, Phones, pushVars, thread, Register, Remove, Uninstall, Install, Persist,
         Commit, Compose, Answer, NoAnswer, Finish, Crash, Claim, Fate, Grow, Settle, Ask, GiveUp

----------------------------------------------------------------------------
(* The theorems about pushes                                                *)

PushInv ==
    /\ PushTypeOK /\ StampInv /\ GoneInv /\ EntryInv /\ OnceInv
    /\ RegisteredPhonesAreReached /\ PushesHaveTheirEntry /\ NoPushTwice

LEMMA PushInvariant == PushSpec => []PushInv
<1>1. PushInit => PushInv
  <2> SUFFICES ASSUME PushInit
               PROVE  PushInv
    OBVIOUS
  <2> USE PushAssumption DEF PushInit
  <2>1. DOMAIN None = {} /\ None \in OnSome(1..MaxRegistrations) /\ None \in OnSome(Tickets)
    BY NoneOfThem
  <2>2. PushTypeOK
    BY <2>1 DEF PushTypeOK
  <2>3. StampInv /\ GoneInv
    BY <2>1 DEF StampInv, GoneInv, Gone, Outdated
  <2>4. EntryInv /\ OnceInv
    BY <2>1 DEF EntryInv, PushesGoToTheAudience, OnceInv
  <2>5. RegisteredPhonesAreReached /\ PushesHaveTheirEntry /\ NoPushTwice
    BY DEF RegisteredPhonesAreReached, PushesHaveTheirEntry, NoPushTwice
  <2> QED
    BY <2>2, <2>3, <2>4, <2>5 DEF PushInv
<1>2. PushInv /\ [PushNext]_pushVars => PushInv'
  BY PushTypeStep, StampStep, GoneInvStep, EntryStep, OnceStep, ReachedStep, HaveEntryStep
     DEF PushInv
<1> QED
  BY <1>1, <1>2, PTL DEF PushSpec

\* Every variable keeps its type; in particular a batch is on its way only
\* while its event is being sent, and never holds a device still to send to.
THEOREM PushTypeCorrect == PushSpec => []PushTypeOK
<1>1. PushInv => PushTypeOK
  BY DEF PushInv
<1> QED
  BY <1>1, PushInvariant, PTL

\* However late a ticket or a receipt says that the app is gone, it never
\* switches off a device that has registered again since
\* (apps/accounts/push_notifications.py: deactivate_unregistered).
THEOREM RegisteredAreReached == PushSpec => []RegisteredPhonesAreReached
<1>1. PushInv => RegisteredPhonesAreReached
  BY DEF PushInv
<1> QED
  BY <1>1, PushInvariant, PTL

\* Whatever rolls back or dies, a push of an inbox entry was sent only after
\* the entry was committed (apps/notifications/team_events.py:15).
THEOREM EntriesComeFirst == PushSpec => []PushesHaveTheirEntry
<1>1. PushInv => PushesHaveTheirEntry
  BY DEF PushInv
<1> QED
  BY <1>1, PushInvariant, PTL

\* Expo is given the push of an event for a device once at most, whatever
\* answers are lost and whatever size the batches have.
THEOREM PushedOnce == PushSpec => []NoPushTwice
<1>1. PushInv => NoPushTwice
  BY DEF PushInv
<1> QED
  BY <1>1, PushInvariant, PTL

\* Nobody an event is not for gets its push, though devices are registered,
\* removed and asked for by other accounts while it is on its way.
THEOREM AudienceOnly == PushSpec => []PushesGoToTheAudience
<1>1. PushInv => PushesGoToTheAudience
  BY DEF PushInv, EntryInv
<1> QED
  BY <1>1, PushInvariant, PTL

================================================================================
