-------------------------- MODULE WebsiteLeadProofs --------------------------
(***************************************************************************)
(* Theorems about WebsiteLead for every set of leads, callers, sweeps and  *)
(* edit requests, every timeout and every cooldown.                        *)
(*                                                                         *)
(* TypeOK needs no strengthening.  ClaimInv relates the columns of the     *)
(* availability row to each other; it survives the full-row edits.         *)
(* OwnerInv relates that row to the lead's; it needs that nobody edits     *)
(* through a full-row save and that no account is deleted.                 *)
(***************************************************************************)
EXTENDS WebsiteLead, TLAPS

LEMMA ConstantFacts ==
    /\ AgeCap \in Nat /\ AgeCap > 0
    /\ CallerRole \subseteq Callers /\ Removable \subseteq Callers
    /\ Outcomes \subseteq Statuses /\ EditStatuses \subseteq Statuses
    /\ Pending \in Statuses /\ "CALL_BACK" \in Statuses
    /\ \A o \in RetryOutcomes : Delay[o] \in Nat /\ Delay[o] > 0
BY WebsiteLeadAssumption DEF WebsiteLeadAssumption, AgeCap, Statuses, AllOutcomes,
   WebsiteOutcomes, RetryOutcomes, Pending

\* Giving a set of leads back keeps every column it touches in its type.
LEMMA UnclaimType ==
    ASSUME TypeOK, NEW S, Unclaim(S)
    PROVE  /\ assigned_caller' \in [Leads -> Owners] /\ stamp' \in [Leads -> BOOLEAN]
           /\ claimed_by' \in [Leads -> Owners] /\ claimed' \in [Leads -> BOOLEAN]
           /\ age' \in [Leads -> 0..AgeCap] /\ call_started' \in [Leads -> BOOLEAN]
           /\ attempted' \in [Leads -> SUBSET (Owners \cup DeskStaff)]
           /\ last_logged' \in [Leads -> Owners]
<1>1. 0 \in 0..AgeCap /\ Nobody \in Owners
  BY ConstantFacts DEF Owners
<1> QED
  BY <1>1 DEF TypeOK, Unclaim

LEMMA TypeInit == Init => TypeOK
<1>1. 0 \in 0..AgeCap /\ Nobody \in Owners /\ 0 \in 0..MaxLag
  BY ConstantFacts, WebsiteLeadAssumption DEF Owners, WebsiteLeadAssumption
<1> QED
  BY <1>1, ConstantFacts DEF Init, TypeOK, NoSweep, Sweep

LEMMA TypeStep == TypeOK /\ [Next]_vars => TypeOK'
<1> SUFFICES ASSUME TypeOK, [Next]_vars PROVE TypeOK'
  OBVIOUS
<1> USE ConstantFacts
<1>1. ASSUME NEW c \in Callers, NEW l \in Leads, Claim(c, l) PROVE TypeOK'
  <2>1. edit' \in [Editors -> EditSession \cup {NoEdit}]
    BY <1>1 DEF Claim, TypeOK, EditSession
  <2> QED
    BY <1>1, <2>1 DEF Claim, TypeOK, Owners
<1>2. ASSUME NEW c \in Callers, NEW l \in Leads, MarkCallStarted(c, l) PROVE TypeOK'
  BY <1>2 DEF MarkCallStarted, TypeOK, leadRow, related
<1>3. ASSUME NEW c \in Callers, NEW l \in Leads, Release(c, l) PROVE TypeOK'
  BY <1>3, UnclaimType DEF Release, TypeOK
<1>4. ASSUME NEW c \in Callers, NEW l \in Leads, NEW o \in Outcomes,
             NEW recent \in BOOLEAN, NEW ended \in BOOLEAN, NEW callback \in BOOLEAN,
             NEW completes \in BOOLEAN, RecordCall(c, l, o, recent, ended, callback, completes)
      PROVE  TypeOK'
  <2>1. RemindersAfterCall(c, l, o, callback, completes) \in SUBSET Reminders
    BY DEF RemindersAfterCall, TypeOK, Reminders
  <2>2. /\ status' \in [Leads -> Statuses]
        /\ open_call' \in [Leads -> BOOLEAN]
        /\ reminder' \in [Leads -> SUBSET Reminders]
        /\ gone' \subseteq Callers /\ sweep' \in [Sweepers -> Sweep]
        /\ edit' \in [Editors -> EditSession \cup {NoEdit}]
    BY <1>4, <2>1 DEF RecordCall, TypeOK
  <2>3. CASE GivesBack(c, l, o, callback)
    <3>1. Unclaim({l}) /\ cooldown' = [cooldown EXCEPT ![l] = Delay[o]]
      BY <1>4, <2>3 DEF RecordCall
    <3>2. Delay[o] \in Nat
      BY <2>3 DEF GivesBack
    <3> QED
      BY <2>2, <3>1, <3>2, UnclaimType DEF TypeOK
  <2>4. CASE ~GivesBack(c, l, o, callback)
    <3>1. NoteCall(c, l, recent) /\ UNCHANGED <<assigned_caller, stamp, claimRow, last_logged>>
      BY <1>4, <2>4 DEF RecordCall
    <3> QED
      BY <2>2, <3>1 DEF TypeOK, NoteCall, claimRow, Owners
  <2> QED
    BY <2>3, <2>4
<1>5. ASSUME NEW l \in Leads, NEW m \in DeskStaff, NEW o \in Outcomes,
             NEW recent \in BOOLEAN, NEW ended \in BOOLEAN, NEW callback \in BOOLEAN,
             DeskCall(m, l, o, recent, ended, callback)
      PROVE  TypeOK'
  <2>1. assigned_caller[l] # Nobody => <<assigned_caller[l], "later">> \in Reminders
    BY DEF TypeOK, Owners, Reminders
  <2>2. reminder' \in [Leads -> SUBSET Reminders]
    BY <1>5, <2>1 DEF DeskCall, TypeOK
  <2> QED
    BY <1>5, <2>2 DEF DeskCall, NoteCall, TypeOK, claimRow
<1>6. ASSUME NEW l \in Leads, ScheduleFollowUp(l) PROVE TypeOK'
  BY <1>6 DEF ScheduleFollowUp, TypeOK, claimRow, Owners, Reminders
<1>7. ASSUME NEW l \in Leads, NEW c \in Callers, NEW reassign \in BOOLEAN,
             BulkAssign(c, l, reassign)
      PROVE  TypeOK'
  BY <1>7 DEF BulkAssign, TypeOK, claimRow, Owners
<1>8. ASSUME NEW l \in Leads, EditLead(l) PROVE TypeOK'
  BY <1>8 DEF EditLead, TypeOK, claimRow, related
<1>9. ASSUME NEW s \in Sweepers, SweepScan(s) PROVE TypeOK'
  <2>1. 0 \in 0..MaxLag
    BY WebsiteLeadAssumption DEF WebsiteLeadAssumption
  <2> QED
    BY <1>9, <2>1 DEF SweepScan, TypeOK, Sweep, leadRow, claimRow, related
<1>10. ASSUME NEW s \in Sweepers, NEW skipped, SweepCommit(s, skipped) PROVE TypeOK'
  <2>1. sweep' \in [Sweepers -> Sweep]
    <3>1. NoSweep \in Sweep
      BY WebsiteLeadAssumption DEF NoSweep, Sweep, WebsiteLeadAssumption
    <3> QED
      BY <1>10, <3>1 DEF SweepCommit, TypeOK
  <2>2. cooldown' \in [Leads -> Nat]
    BY <1>10 DEF SweepCommit, TypeOK
  <2>3. PICK S : Unclaim(S)
    BY <1>10 DEF SweepCommit
  <2> QED
    BY <1>10, <2>1, <2>2, <2>3, UnclaimType DEF SweepCommit, TypeOK
<1>11. ASSUME NEW e \in Editors, NEW l \in Leads, EditRead(e, l) PROVE TypeOK'
  BY <1>11 DEF EditRead, TypeOK, EditSession, leadRow, claimRow, related
<1>12. ASSUME NEW e \in Editors, EditSave(e) PROVE TypeOK'
  <2>1. edit[e] \in EditSession
    BY <1>12 DEF EditSave, TypeOK
  <2> QED
    BY <1>12, <2>1 DEF EditSave, TypeOK, EditSession, claimRow, related
<1>17. ASSUME NEW e \in Editors, FollowUpSave(e) PROVE TypeOK'
  <2>1. edit[e] \in EditSession /\ <<edit[e].owner, "later">> \in Reminders
    BY <1>17 DEF FollowUpSave, TypeOK, EditSession, Owners, Reminders
  <2> QED
    BY <1>17, <2>1 DEF FollowUpSave, TypeOK, claimRow
<1>13. ASSUME NEW c \in Removable, DeleteCaller(c) PROVE TypeOK'
  BY <1>13 DEF DeleteCaller, TypeOK, Owners
<1>14. CASE Tick
  <2>1. age' \in [Leads -> 0..AgeCap]
    BY <1>14 DEF Tick, TypeOK
  <2>2. cooldown' \in [Leads -> Nat]
    BY <1>14 DEF Tick, TypeOK, CoolDown
  <2>3. sweep' \in [Sweepers -> Sweep]
    <3>1. SUFFICES ASSUME NEW s \in Sweepers, sweep[s].open
                   PROVE  [sweep[s] EXCEPT !.lag = @ + 1] \in Sweep
      BY <1>14 DEF Tick, TypeOK
    <3>2. sweep[s] \in Sweep /\ sweep[s].lag < MaxLag /\ MaxLag \in Nat
      BY <1>14, <3>1, WebsiteLeadAssumption DEF Tick, TypeOK, WebsiteLeadAssumption
    <3> QED
      BY <3>2 DEF Sweep
  <2> QED
    BY <1>14, <2>1, <2>2, <2>3 DEF Tick, TypeOK, leadRow, related
<1>15. ASSUME NEW c \in Callers, NEW l \in Leads, ReminderFallsDue(c, l) PROVE TypeOK'
  <2>1. reminder' \in [Leads -> SUBSET Reminders]
    BY <1>15 DEF ReminderFallsDue, TypeOK, Reminders
  <2> QED
    BY <1>15, <2>1 DEF ReminderFallsDue, TypeOK, leadRow, claimRow
<1>16. CASE UNCHANGED vars
  BY <1>16 DEF vars, leadRow, claimRow, related, TypeOK
<1> QED
  BY <1>1, <1>2, <1>3, <1>4, <1>5, <1>6, <1>7, <1>8, <1>9, <1>10, <1>11, <1>12,
     <1>13, <1>14, <1>15, <1>16, <1>17
  DEF Next, CallerStep, ManagerStep, SweepStep, EditStep

\* Every reachable state is well typed: in particular no claim ages past its cap
\* and no cooldown falls below zero.
THEOREM TypeCorrect == Spec => []TypeOK
BY TypeInit, TypeStep, PTL DEF Spec


----------------------------------------------------------------------------
(* The availability row                                                     *)

LEMMA ClaimInvInit == Init => ClaimInv
BY DEF Init, ClaimInv

LEMMA ClaimInvStep == TypeOK /\ ClaimInv /\ [Next]_vars => ClaimInv'
<1> SUFFICES ASSUME TypeOK, ClaimInv, [Next]_vars PROVE ClaimInv'
  OBVIOUS
<1> USE ConstantFacts
<1>1. ASSUME NEW c \in Callers, NEW l \in Leads, Claim(c, l) PROVE ClaimInv'
  BY <1>1 DEF Claim, MayClaim, ClaimInv, TypeOK
<1>2. ASSUME NEW c \in Callers, NEW l \in Leads, MarkCallStarted(c, l) PROVE ClaimInv'
  BY <1>2 DEF MarkCallStarted, HoldsClaim, ClaimInv, TypeOK, related
<1>3. ASSUME NEW c \in Callers, NEW l \in Leads, Release(c, l) PROVE ClaimInv'
  BY <1>3 DEF Release, Unclaim, ClaimInv, TypeOK
<1>4. ASSUME NEW c \in Callers, NEW l \in Leads, NEW o \in Outcomes,
             NEW recent \in BOOLEAN, NEW ended \in BOOLEAN, NEW callback \in BOOLEAN,
             NEW completes \in BOOLEAN, RecordCall(c, l, o, recent, ended, callback, completes)
      PROVE  ClaimInv'
  <2>1. CASE GivesBack(c, l, o, callback)
    <3>1. Unclaim({l}) /\ cooldown' = [cooldown EXCEPT ![l] = Delay[o]]
      BY <1>4, <2>1 DEF RecordCall
    <3> QED
      BY <3>1 DEF Unclaim, ClaimInv, TypeOK
  <2>2. CASE ~GivesBack(c, l, o, callback)
    <3>1. NoteCall(c, l, recent) /\ UNCHANGED claimRow /\ (recent => claimed[l])
      BY <1>4, <2>2 DEF RecordCall
    <3> QED
      BY <3>1 DEF NoteCall, claimRow, ClaimInv, TypeOK
  <2> QED
    BY <2>1, <2>2
<1>5. ASSUME NEW l \in Leads, NEW m \in DeskStaff, NEW o \in Outcomes,
             NEW recent \in BOOLEAN, NEW ended \in BOOLEAN, NEW callback \in BOOLEAN,
             DeskCall(m, l, o, recent, ended, callback)
      PROVE  ClaimInv'
  BY <1>5 DEF DeskCall, NoteCall, claimRow, ClaimInv, TypeOK
<1>6. ASSUME NEW s \in Sweepers, NEW skipped, SweepCommit(s, skipped) PROVE ClaimInv'
  BY <1>6 DEF SweepCommit, Unclaim, ClaimInv, TypeOK
<1>7. ASSUME NEW c \in Removable, DeleteCaller(c) PROVE ClaimInv'
  BY <1>7 DEF DeleteCaller, ClaimInv, TypeOK
<1>8. CASE Tick
  BY <1>8 DEF Tick, CoolDown, related, ClaimInv, TypeOK
<1>9. CASE UNCHANGED <<claimRow, attempted>>
  BY <1>9 DEF claimRow, ClaimInv
<1>10. CASE UNCHANGED vars
  BY <1>10, <1>9 DEF vars, related
<1>11. ASSUME NEW l \in Leads,
              ScheduleFollowUp(l) \/ EditLead(l)
              \/ (\E c \in Callers, reassign \in BOOLEAN : BulkAssign(c, l, reassign))
              \/ (\E c \in Callers : ReminderFallsDue(c, l))
              \/ (\E e \in Editors : EditRead(e, l))
       PROVE  ClaimInv'
  BY <1>11, <1>9 DEF ScheduleFollowUp, EditLead, BulkAssign, ReminderFallsDue, EditRead, related
<1>12. ASSUME NEW e \in Editors, EditSave(e) \/ FollowUpSave(e) PROVE ClaimInv'
  BY <1>12, <1>9 DEF EditSave, FollowUpSave, related
<1>13. ASSUME NEW s \in Sweepers, SweepScan(s) PROVE ClaimInv'
  BY <1>13, <1>9 DEF SweepScan, related
<1> QED
  BY <1>1, <1>2, <1>3, <1>4, <1>5, <1>6, <1>7, <1>8, <1>10, <1>11, <1>12, <1>13
  DEF Next, CallerStep, ManagerStep, SweepStep, EditStep

LEMMA ClaimInvHolds == Spec => [](TypeOK /\ ClaimInv)
BY TypeInit, TypeStep, ClaimInvInit, ClaimInvStep, PTL DEF Spec

\* A lead that may be claimed, is not closed and has no unfinished call is in the
\* queue of every caller, whatever claims, calls, edits and deletions it has seen.
THEOREM FreeLeadOffered == Spec => []FreeLeadIsOffered
<1>1. TypeOK /\ ClaimInv => FreeLeadIsOffered
  BY DEF TypeOK, ClaimInv, FreeLeadIsOffered, MayClaim, InQueue
<1> QED
  BY <1>1, ClaimInvHolds, PTL


\* How a claim can end: the three hand-backs are the only steps that clear it, and
\* each says under which condition it does.
LEMMA ClaimEnds ==
    ASSUME TypeOK, [Next]_vars, NEW l \in Leads, claimed[l], ~claimed'[l]
    PROVE  \/ \E c \in Callers : MayRelease(c, l) /\ cooldown'[l] = 0
           \/ \E s \in Sweepers : StillStale(s, l) /\ cooldown'[l] = 0
           \/ \E c \in Callers, o \in Outcomes, callback \in BOOLEAN :
                 /\ GivesBack(c, l, o, callback)
                 /\ cooldown'[l] = Delay[o] /\ status'[l] = o
<1>1. ASSUME NEW c \in Callers, NEW k \in Leads, Release(c, k)
      PROVE  MayRelease(c, l) /\ cooldown'[l] = 0
  BY <1>1 DEF Release, Unclaim, TypeOK
<1>2. ASSUME NEW s \in Sweepers, NEW skipped, SweepCommit(s, skipped)
      PROVE  StillStale(s, l) /\ cooldown'[l] = 0
  BY <1>2 DEF SweepCommit, Unclaim, TypeOK
<1>3. ASSUME NEW c \in Callers, NEW k \in Leads, NEW o \in Outcomes,
             NEW recent \in BOOLEAN, NEW ended \in BOOLEAN, NEW callback \in BOOLEAN,
             NEW completes \in BOOLEAN, RecordCall(c, k, o, recent, ended, callback, completes)
      PROVE  GivesBack(c, l, o, callback) /\ cooldown'[l] = Delay[o] /\ status'[l] = o
  <2>1. CASE GivesBack(c, k, o, callback)
    <3>1. Unclaim({k}) /\ cooldown' = [cooldown EXCEPT ![k] = Delay[o]]
          /\ status' = [status EXCEPT ![k] = o]
      BY <1>3, <2>1 DEF RecordCall
    <3> QED
      BY <3>1, <2>1 DEF Unclaim, TypeOK
  <2>2. CASE ~GivesBack(c, k, o, callback)
    <3>1. claimed' = claimed
      BY <1>3, <2>2 DEF RecordCall, claimRow
    <3> QED
      BY <3>1
  <2> QED
    BY <2>1, <2>2
<1>4. ASSUME NEW c \in Callers, NEW k \in Leads, Claim(c, k) PROVE FALSE
  BY <1>4 DEF Claim, TypeOK
<1>5. CASE UNCHANGED claimed
  BY <1>5
<1>6. ASSUME NEW k \in Leads,
             \/ \E c \in Callers : MarkCallStarted(c, k) \/ ReminderFallsDue(c, k)
             \/ ScheduleFollowUp(k) \/ EditLead(k)
             \/ \E c \in Callers, reassign \in BOOLEAN : BulkAssign(c, k, reassign)
             \/ \E e \in Editors : EditRead(e, k)
             \/ \E m \in DeskStaff, o \in Outcomes, recent, ended, callback \in BOOLEAN :
                   DeskCall(m, k, o, recent, ended, callback)
      PROVE  UNCHANGED claimed
  BY <1>6 DEF MarkCallStarted, ReminderFallsDue, ScheduleFollowUp, EditLead, BulkAssign,
     EditRead, DeskCall, claimRow
<1>7. (\E s \in Sweepers : SweepScan(s)) \/ (\E e \in Editors : EditSave(e) \/ FollowUpSave(e))
      \/ (\E c \in Removable : DeleteCaller(c)) \/ Tick \/ UNCHANGED vars
      => UNCHANGED claimed
  BY DEF SweepScan, EditSave, FollowUpSave, DeleteCaller, Tick, vars, claimRow
<1> QED
  BY <1>1, <1>2, <1>3, <1>4, <1>5, <1>6, <1>7
  DEF Next, CallerStep, ManagerStep, SweepStep, EditStep

\* A called claim ends only with the retry outcome of its own caller: neither a
\* release nor a sweep, however old its candidate list, takes the lead away in
\* mid-call.  Edits, deletions and desk calls included.
THEOREM CalledClaimKept == Spec => CalledClaimIsNotTakenBack
<1>1. TypeOK /\ [Next]_vars => CalledClaimStep
  <2> SUFFICES ASSUME TypeOK, [Next]_vars, NEW l \in Leads, claimed[l], ~claimed'[l],
                      call_started[l] \/ claimed_by[l] \in attempted[l]
               PROVE  cooldown'[l] > 0 /\ status'[l] \in RetryOutcomes
    BY DEF CalledClaimStep
  <2>1. ~ \E c \in Callers : MayRelease(c, l)
    BY DEF MayRelease, HoldsClaim
  <2>2. ~ \E s \in Sweepers : StillStale(s, l)
    BY DEF StillStale
  <2>3. PICK c \in Callers, o \in Outcomes, callback \in BOOLEAN :
           GivesBack(c, l, o, callback) /\ cooldown'[l] = Delay[o] /\ status'[l] = o
    BY <2>1, <2>2, ClaimEnds
  <2> QED
    BY <2>3, ConstantFacts DEF GivesBack
<1> QED
  BY <1>1, TypeCorrect, PTL DEF Spec, CalledClaimIsNotTakenBack

\* Who may get a lead that cools down, and how.
LEMMA CoolingOwner ==
    ASSUME TypeOK, ClaimInv, [Next]_vars, NEW l \in Leads, cooldown[l] > 0,
           assigned_caller'[l] \notin {Nobody, assigned_caller[l]}
    PROVE  \/ \E c \in Callers, reassign \in BOOLEAN : BulkAssign(c, l, reassign)
           \/ \E e \in Editors : EditSave(e) /\ edit[e].lead = l
<1>1. \A S : Unclaim(S) => assigned_caller'[l] \in {Nobody, assigned_caller[l]}
  BY DEF Unclaim
<1>2. ASSUME NEW c \in Callers, NEW k \in Leads, NEW o \in Outcomes,
             NEW recent \in BOOLEAN, NEW ended \in BOOLEAN, NEW callback \in BOOLEAN,
             NEW completes \in BOOLEAN,
             RecordCall(c, k, o, recent, ended, callback, completes)
      PROVE  FALSE
  BY <1>1, <1>2 DEF RecordCall
<1>3. ASSUME NEW c \in Callers, NEW k \in Leads, Claim(c, k) PROVE FALSE
  BY <1>3 DEF Claim, MayClaim, TypeOK
<1>4. ~ \/ \E s \in Sweepers : SweepStep(s)
        \/ \E c \in Callers, k \in Leads : Release(c, k)
  BY <1>1 DEF SweepStep, SweepScan, SweepCommit, Release, leadRow
<1>5. ASSUME NEW k \in Leads,
             \/ \E c \in Callers : MarkCallStarted(c, k) \/ ReminderFallsDue(c, k)
             \/ ScheduleFollowUp(k) \/ EditLead(k)
             \/ \E e \in Editors : EditRead(e, k)
             \/ \E m \in DeskStaff, o \in Outcomes, recent, ended, callback \in BOOLEAN :
                   DeskCall(m, k, o, recent, ended, callback)
      PROVE  FALSE
  BY <1>5 DEF MarkCallStarted, ReminderFallsDue, ScheduleFollowUp, EditLead, EditRead,
     DeskCall, leadRow
<1>6. ~ \/ Tick \/ UNCHANGED vars
        \/ \E e \in Editors : FollowUpSave(e)
        \/ \E c \in Removable : DeleteCaller(c)
  BY DEF Tick, vars, FollowUpSave, DeleteCaller, leadRow
<1>7. ASSUME NEW c \in Callers, NEW k \in Leads, NEW reassign \in BOOLEAN,
             BulkAssign(c, k, reassign)
      PROVE  k = l
  BY <1>7 DEF BulkAssign, TypeOK
<1>8. ASSUME NEW e \in Editors, EditSave(e)
      PROVE  edit[e].lead = l
  BY <1>8 DEF EditSave, TypeOK
<1> QED
  BY <1>2, <1>3, <1>4, <1>5, <1>6, <1>7, <1>8
  DEF Next, CallerStep, ManagerStep, EditStep

\* The cooldown itself: only the clock changes it, and the row of the queue
\* stays unclaimed.
LEMMA CoolingRow ==
    ASSUME TypeOK, ClaimInv, [Next]_vars, NEW l \in Leads, cooldown[l] > 0
    PROVE  /\ cooldown'[l] # cooldown[l] => Tick /\ cooldown'[l] = cooldown[l] - 1
           /\ ~claimed'[l]
<1> DEFINE Goal == /\ cooldown'[l] # cooldown[l] => Tick /\ cooldown'[l] = cooldown[l] - 1
                   /\ ~claimed'[l]
<1>1. cooldown[l] \in Nat /\ cooldown[l] # 0 /\ ~claimed[l]
  BY DEF TypeOK, ClaimInv
<1>2. CASE cooldown'[l] = cooldown[l] /\ (claimed'[l] => claimed[l])
  BY <1>1, <1>2
<1>3. ASSUME NEW c \in Callers, NEW k \in Leads, Release(c, k) PROVE Goal
  <2>1. k # l
    BY <1>1, <1>3 DEF Release, MayRelease, HoldsClaim
  <2> QED
    BY <1>2, <1>3, <2>1 DEF Release, Unclaim, TypeOK
<1>4. ASSUME NEW s \in Sweepers, NEW skipped, SweepCommit(s, skipped) PROVE Goal
  BY <1>1, <1>2, <1>4 DEF SweepCommit, StillStale, Unclaim, TypeOK
<1>5. ASSUME NEW c \in Callers, NEW k \in Leads, NEW o \in Outcomes,
             NEW recent \in BOOLEAN, NEW ended \in BOOLEAN, NEW callback \in BOOLEAN,
             NEW completes \in BOOLEAN,
             RecordCall(c, k, o, recent, ended, callback, completes)
      PROVE  Goal
  <2>1. CASE GivesBack(c, k, o, callback)
    <3>1. Unclaim({k}) /\ cooldown' = [cooldown EXCEPT ![k] = Delay[o]]
      BY <1>5, <2>1 DEF RecordCall
    <3>2. k # l
      BY <1>1, <2>1 DEF GivesBack, OutcomeApplies, HoldsClaim
    <3> QED
      BY <1>2, <3>1, <3>2 DEF Unclaim, TypeOK
  <2>2. CASE ~GivesBack(c, k, o, callback)
    BY <1>2, <1>5, <2>2 DEF RecordCall, claimRow
  <2> QED
    BY <2>1, <2>2
<1>6. ASSUME NEW c \in Callers, NEW k \in Leads, Claim(c, k) PROVE Goal
  <2>1. k # l
    BY <1>1, <1>6 DEF Claim, MayClaim
  <2> QED
    BY <1>2, <1>6, <2>1 DEF Claim, TypeOK
<1>7. CASE Tick
  BY <1>1, <1>7 DEF Tick, CoolDown, TypeOK
<1>8. ASSUME NEW k \in Leads,
             \/ \E c \in Callers : MarkCallStarted(c, k) \/ ReminderFallsDue(c, k)
             \/ ScheduleFollowUp(k) \/ EditLead(k)
             \/ \E c \in Callers, reassign \in BOOLEAN : BulkAssign(c, k, reassign)
             \/ \E e \in Editors : EditRead(e, k)
             \/ \E m \in DeskStaff, o \in Outcomes, recent, ended, callback \in BOOLEAN :
                   DeskCall(m, k, o, recent, ended, callback)
      PROVE  Goal
  BY <1>2, <1>8 DEF MarkCallStarted, ReminderFallsDue, ScheduleFollowUp, EditLead,
     BulkAssign, EditRead, DeskCall, claimRow
<1>9. (\E s \in Sweepers : SweepScan(s)) \/ (\E e \in Editors : EditSave(e) \/ FollowUpSave(e))
      \/ (\E c \in Removable : DeleteCaller(c)) \/ UNCHANGED vars
      => Goal
  BY <1>2 DEF SweepScan, EditSave, FollowUpSave, DeleteCaller, vars, claimRow
<1> QED
  BY <1>3, <1>4, <1>5, <1>6, <1>7, <1>8, <1>9
  DEF Next, CallerStep, ManagerStep, SweepStep, EditStep

\* While a retried lead cools down only the clock shortens the cooldown, nobody
\* claims the lead, it is shown only to its owner and to a caller with a reminder
\* due, and it gets an owner only from a bulk assignment or an older row saved by
\* a form (apps/leads/outcomes.py:47).  Edits and deletions included.
THEOREM CooldownRuns == Spec => CooldownRunsItsCourse
<1>1. TypeOK /\ ClaimInv /\ [Next]_vars => CooldownStep
  <2> SUFFICES ASSUME TypeOK, ClaimInv, [Next]_vars PROVE CooldownStep
    OBVIOUS
  <2>1. ASSUME NEW l \in Leads, cooldown[l] > 0, NEW c \in CallerRole, InQueue(c, l)
        PROVE  assigned_caller[l] = c \/ <<c, "due">> \in reminder[l]
    BY <2>1 DEF InQueue, TypeOK
  <2> QED
    BY <2>1, CoolingOwner, CoolingRow DEF CooldownStep
<1> QED
  BY <1>1, ClaimInvHolds, PTL DEF Spec, CooldownRunsItsCourse


----------------------------------------------------------------------------
(* The two rows together, while nobody saves a full lead row               *)

LEMMA OwnerInvInit == Init => OwnerInv
BY DEF Init, OwnerInv

LEMMA OwnerInvStep ==
    ASSUME Editors = {}
    PROVE  TypeOK /\ OwnerInv /\ [Next]_vars => OwnerInv'
<1> SUFFICES ASSUME TypeOK, OwnerInv, [Next]_vars PROVE OwnerInv'
  OBVIOUS
<1>1. ASSUME NEW c \in Callers, NEW l \in Leads, Claim(c, l) PROVE OwnerInv'
  <2>1. c # Nobody
    BY WebsiteLeadAssumption DEF WebsiteLeadAssumption
  <2> QED
    BY <1>1, <2>1 DEF Claim, MayClaim, OwnerInv, TypeOK
<1>2. ASSUME NEW c \in Callers, NEW l \in Leads, Release(c, l) PROVE OwnerInv'
  BY <1>2 DEF Release, Unclaim, OwnerInv, TypeOK
<1>3. ASSUME NEW s \in Sweepers, NEW skipped, SweepCommit(s, skipped) PROVE OwnerInv'
  BY <1>3 DEF SweepCommit, Unclaim, OwnerInv, TypeOK
<1>4. ASSUME NEW c \in Callers, NEW l \in Leads, NEW o \in Outcomes,
             NEW recent \in BOOLEAN, NEW ended \in BOOLEAN, NEW callback \in BOOLEAN,
             NEW completes \in BOOLEAN, RecordCall(c, l, o, recent, ended, callback, completes)
      PROVE  OwnerInv'
  <2>1. CASE GivesBack(c, l, o, callback)
    <3>1. Unclaim({l}) /\ gone' = gone
      BY <1>4, <2>1 DEF RecordCall
    <3> QED
      BY <3>1 DEF Unclaim, OwnerInv, TypeOK
  <2>2. CASE ~GivesBack(c, l, o, callback)
    <3>1. UNCHANGED <<assigned_caller, stamp, claimRow, last_logged, gone>>
      BY <1>4, <2>2 DEF RecordCall
    <3> QED
      BY <3>1 DEF claimRow, OwnerInv
  <2> QED
    BY <2>1, <2>2
<1>5. ASSUME NEW l \in Leads, NEW c \in Callers, NEW reassign \in BOOLEAN,
             BulkAssign(c, l, reassign)
      PROVE  OwnerInv'
  <2>1. c # Nobody
    BY WebsiteLeadAssumption DEF WebsiteLeadAssumption
  <2> QED
    BY <1>5, <2>1 DEF BulkAssign, claimRow, OwnerInv, TypeOK
<1>6. ASSUME NEW c \in Removable, DeleteCaller(c) PROVE OwnerInv'
  BY <1>6 DEF DeleteCaller, OwnerInv, TypeOK
<1>7. CASE UNCHANGED <<assigned_caller, stamp, claimed, claimed_by, last_logged, gone>>
  BY <1>7 DEF OwnerInv
<1>8. ASSUME NEW l \in Leads,
             \/ \E c \in Callers : MarkCallStarted(c, l) \/ ReminderFallsDue(c, l)
             \/ ScheduleFollowUp(l) \/ EditLead(l)
             \/ \E m \in DeskStaff, o \in Outcomes, recent, ended, callback \in BOOLEAN :
                   DeskCall(m, l, o, recent, ended, callback)
      PROVE  OwnerInv'
  BY <1>7, <1>8 DEF MarkCallStarted, ReminderFallsDue, ScheduleFollowUp, EditLead, DeskCall,
     leadRow, claimRow, related
<1>9. (\E s \in Sweepers : SweepScan(s)) \/ Tick \/ UNCHANGED vars => OwnerInv'
  BY <1>7 DEF SweepScan, Tick, vars, leadRow, claimRow, related
<1> QED
  BY <1>1, <1>2, <1>3, <1>4, <1>5, <1>6, <1>8, <1>9
  DEF Next, CallerStep, ManagerStep, SweepStep

LEMMA OwnerInvHolds ==
    ASSUME Editors = {}
    PROVE  Spec => [](TypeOK /\ ClaimInv /\ OwnerInv)
<1>1. TypeOK /\ OwnerInv /\ [Next]_vars => OwnerInv'
  BY OwnerInvStep
<1> QED
  BY <1>1, ClaimInvHolds, OwnerInvInit, PTL DEF Spec

\* Without full-row saves, the claim in the availability row and the assignment in
\* the lead row agree, account deletions included.
THEOREM ClaimAgrees ==
    ASSUME Editors = {}
    PROVE  Spec => []ClaimAndAssignmentAgree
<1>1. OwnerInv => ClaimAndAssignmentAgree
  BY DEF OwnerInv, ClaimAndAssignmentAgree
<1> QED
  BY <1>1, OwnerInvHolds, PTL

\* Without full-row saves, the history always ends with the current owner.
THEOREM HistoryMatches ==
    ASSUME Editors = {}
    PROVE  Spec => []HistoryMatchesOwner
<1>1. OwnerInv => HistoryMatchesOwner
  BY DEF OwnerInv, HistoryMatchesOwner
<1> QED
  BY <1>1, OwnerInvHolds, PTL


\* The ways a lead's owner can change.
LEMMA OwnerMoves ==
    ASSUME Editors = {}, TypeOK, [Next]_vars, NEW l \in Leads,
           assigned_caller'[l] # assigned_caller[l]
    PROVE  \/ \E c \in Callers : Claim(c, l)
           \/ \E c \in Callers : Release(c, l)
           \/ \E s \in Sweepers :
                 StillStale(s, l) /\ assigned_caller'[l] = Nobody /\ cooldown'[l] = 0
           \/ \E c \in Callers, o \in Outcomes, callback \in BOOLEAN :
                 /\ GivesBack(c, l, o, callback)
                 /\ assigned_caller'[l] = Nobody /\ cooldown'[l] = Delay[o]
           \/ \E c \in Callers, reassign \in BOOLEAN : BulkAssign(c, l, reassign)
           \/ \E c \in Removable : DeleteCaller(c) /\ assigned_caller[l] = c
<1>1. ASSUME NEW c \in Callers, NEW k \in Leads,
             \/ Claim(c, k) \/ Release(c, k)
             \/ \E reassign \in BOOLEAN : BulkAssign(c, k, reassign)
      PROVE  k = l
  BY <1>1 DEF Claim, Release, BulkAssign, Unclaim, TypeOK
<1>2. ASSUME NEW s \in Sweepers, NEW skipped, SweepCommit(s, skipped)
      PROVE  StillStale(s, l) /\ assigned_caller'[l] = Nobody /\ cooldown'[l] = 0
  BY <1>2 DEF SweepCommit, Unclaim, TypeOK
<1>3. ASSUME NEW c \in Callers, NEW k \in Leads, NEW o \in Outcomes,
             NEW recent \in BOOLEAN, NEW ended \in BOOLEAN, NEW callback \in BOOLEAN,
             NEW completes \in BOOLEAN, RecordCall(c, k, o, recent, ended, callback, completes)
      PROVE  /\ GivesBack(c, l, o, callback)
             /\ assigned_caller'[l] = Nobody /\ cooldown'[l] = Delay[o]
  <2>1. /\ GivesBack(c, k, o, callback) /\ Unclaim({k})
        /\ cooldown' = [cooldown EXCEPT ![k] = Delay[o]]
    BY <1>3 DEF RecordCall
  <2> QED
    BY <2>1 DEF Unclaim, TypeOK
<1>4. ASSUME NEW c \in Removable, DeleteCaller(c) PROVE assigned_caller[l] = c
  BY <1>4 DEF DeleteCaller, TypeOK
<1>5. assigned_caller' # assigned_caller
  OBVIOUS
<1>6. ~ \/ \E c \in Callers, k \in Leads : MarkCallStarted(c, k) \/ ReminderFallsDue(c, k)
        \/ \E k \in Leads : ScheduleFollowUp(k) \/ EditLead(k)
        \/ \E k \in Leads, m \in DeskStaff, o \in Outcomes, recent, ended, callback \in BOOLEAN :
              DeskCall(m, k, o, recent, ended, callback)
        \/ \E s \in Sweepers : SweepScan(s)
        \/ Tick
        \/ UNCHANGED vars
  BY <1>5 DEF MarkCallStarted, ReminderFallsDue, ScheduleFollowUp, EditLead, DeskCall,
     SweepScan, Tick, vars, leadRow
<1>7. CASE \E c \in Callers, k \in Leads : CallerStep(c, k)
  BY <1>1, <1>3, <1>6, <1>7 DEF CallerStep
<1>8. CASE \E k \in Leads : ManagerStep(k)
  BY <1>1, <1>6, <1>8 DEF ManagerStep
<1>9. CASE \E s \in Sweepers : SweepStep(s)
  BY <1>2, <1>6, <1>9 DEF SweepStep
<1>10. ~Tick /\ ~UNCHANGED vars /\ ~(\E e \in Editors : EditStep(e))
  BY <1>6
<1>11. Next
  BY <1>10
<1>12. CASE \E c \in Removable : DeleteCaller(c)
  BY <1>4, <1>12
<1> QED
  BY <1>7, <1>8, <1>9, <1>10, <1>11, <1>12 DEF Next

\* Without full-row saves, an owned lead passes to another caller only by a manual
\* assignment: two claims can never both win it.
THEOREM OwnedLeadKept ==
    ASSUME Editors = {}
    PROVE  Spec => OwnedLeadChangesHandsByAssignment
<1>1. TypeOK /\ [Next]_vars => HandOverStep
  <2> SUFFICES ASSUME TypeOK, [Next]_vars, NEW l \in Leads, assigned_caller[l] # Nobody,
                      assigned_caller'[l] \notin {Nobody, assigned_caller[l]}
               PROVE  ~stamp'[l]
    BY DEF HandOverStep
  <2>1. ASSUME NEW c \in Callers, Claim(c, l) PROVE FALSE
    BY <2>1 DEF Claim, MayClaim
  <2>2. ASSUME NEW c \in Callers, Release(c, l) PROVE FALSE
    BY <2>2 DEF Release, Unclaim
  <2>3. ASSUME NEW c \in Removable, DeleteCaller(c), assigned_caller[l] = c PROVE FALSE
    BY <2>3 DEF DeleteCaller
  <2>4. ASSUME NEW c \in Callers, NEW reassign \in BOOLEAN, BulkAssign(c, l, reassign)
        PROVE  ~stamp'[l]
    BY <2>4 DEF BulkAssign, TypeOK
  <2> QED
    BY <2>1, <2>2, <2>3, <2>4, OwnerMoves
<1> QED
  BY <1>1, TypeCorrect, PTL DEF Spec, OwnedLeadChangesHandsByAssignment

\* Without full-row saves, a manual assignment is undone only by its owner's own
\* release or by deleting the owner's account.
THEOREM ManualOwnerKept ==
    ASSUME Editors = {}
    PROVE  Spec => ManualOwnerIsKept
<1>1. TypeOK /\ [Next]_vars => ManualOwnerStep
  <2> SUFFICES ASSUME TypeOK, [Next]_vars, NEW l \in Leads, assigned_caller[l] # Nobody,
                      ~stamp[l], assigned_caller'[l] = Nobody
               PROVE  assigned_caller[l] \in gone' \/ Release(assigned_caller[l], l)
    BY DEF ManualOwnerStep
  <2>1. ASSUME NEW c \in Callers, Claim(c, l) PROVE FALSE
    BY <2>1 DEF Claim, MayClaim
  <2>2. ASSUME NEW c \in Callers, Release(c, l) PROVE Release(assigned_caller[l], l)
    <3>1. assigned_caller[l] = c
      BY <2>2 DEF Release, MayRelease, HoldsClaim
    <3> QED
      BY <2>2, <3>1
  <2>3. ASSUME NEW s \in Sweepers, StillStale(s, l) PROVE FALSE
    BY <2>3 DEF StillStale
  <2>4. ASSUME NEW c \in Callers, NEW o \in Outcomes, NEW callback \in BOOLEAN,
               GivesBack(c, l, o, callback)
        PROVE  FALSE
    BY <2>4 DEF GivesBack, OutcomeApplies
  <2>5. ASSUME NEW c \in Callers, NEW reassign \in BOOLEAN, BulkAssign(c, l, reassign)
        PROVE  FALSE
    <3>1. c # Nobody
      BY WebsiteLeadAssumption DEF WebsiteLeadAssumption
    <3> QED
      BY <2>5, <3>1 DEF BulkAssign, TypeOK
  <2>6. ASSUME NEW c \in Removable, DeleteCaller(c), assigned_caller[l] = c
        PROVE  assigned_caller[l] \in gone'
    BY <2>6 DEF DeleteCaller
  <2> QED
    BY <2>1, <2>2, <2>3, <2>4, <2>5, <2>6, OwnerMoves
<1> QED
  BY <1>1, TypeCorrect, PTL DEF Spec, ManualOwnerIsKept


----------------------------------------------------------------------------
(* The website queue implements LeadOwnership                               *)

\* While its owner stays, a lead's claim only moves forward.
LEMMA OwnerStays ==
    ASSUME Editors = {}, Removable = {}, TypeOK, ClaimInv, [Next]_vars, NEW l \in Leads,
           assigned_caller'[l] = assigned_caller[l]
    PROVE  /\ stamp'[l] = stamp[l]
           /\ call_started[l] => call_started'[l]
           /\ attempted[l] \subseteq attempted'[l]
           /\ cooldown'[l] <= cooldown[l]
<1>1. ASSUME NEW c \in Callers, NEW k \in Leads, Claim(c, k) \/ Release(c, k)
      PROVE  k # l
  <2>1. c # Nobody
    BY WebsiteLeadAssumption DEF WebsiteLeadAssumption
  <2> QED
    BY <1>1, <2>1 DEF Claim, MayClaim, Release, MayRelease, HoldsClaim, Unclaim, TypeOK
<1>2. ASSUME NEW c \in Callers, NEW k \in Leads, Claim(c, k)
      PROVE  UNCHANGED <<stamp[l], call_started[l], attempted[l], cooldown[l]>>
  BY <1>1, <1>2 DEF Claim, TypeOK
<1>3. ASSUME NEW c \in Callers, NEW k \in Leads, Release(c, k)
      PROVE  UNCHANGED <<stamp[l], call_started[l], attempted[l], cooldown[l]>>
  BY <1>1, <1>3 DEF Release, Unclaim, TypeOK
<1>4. ASSUME NEW s \in Sweepers, NEW skipped, SweepCommit(s, skipped)
      PROVE  UNCHANGED <<stamp[l], call_started[l], attempted[l], cooldown[l]>>
  BY <1>4 DEF SweepCommit, StillStale, Unclaim, TypeOK
<1>5. ASSUME NEW c \in Callers, NEW k \in Leads, NEW o \in Outcomes,
             NEW recent \in BOOLEAN, NEW ended \in BOOLEAN, NEW callback \in BOOLEAN,
             NEW completes \in BOOLEAN, RecordCall(c, k, o, recent, ended, callback, completes)
      PROVE  /\ UNCHANGED <<stamp[l], call_started[l], cooldown[l]>>
             /\ attempted[l] \subseteq attempted'[l]
  <2>1. CASE GivesBack(c, k, o, callback)
    <3>1. Unclaim({k}) /\ cooldown' = [cooldown EXCEPT ![k] = Delay[o]] /\ assigned_caller[k] = c
      BY <1>5, <2>1 DEF RecordCall
    <3>2. c # Nobody
      BY WebsiteLeadAssumption DEF WebsiteLeadAssumption
    <3>3. k # l
      BY <3>1, <3>2 DEF Unclaim, TypeOK
    <3> QED
      BY <3>1, <3>3 DEF Unclaim, TypeOK
  <2>2. CASE ~GivesBack(c, k, o, callback)
    <3>1. NoteCall(c, k, recent) /\ UNCHANGED <<stamp, claimRow>>
      BY <1>5, <2>2 DEF RecordCall
    <3> QED
      BY <3>1 DEF NoteCall, claimRow, TypeOK
  <2> QED
    BY <2>1, <2>2
<1>6. ASSUME NEW k \in Leads, NEW m \in DeskStaff, NEW o \in Outcomes,
             NEW recent \in BOOLEAN, NEW ended \in BOOLEAN, NEW callback \in BOOLEAN,
             DeskCall(m, k, o, recent, ended, callback)
      PROVE  /\ UNCHANGED <<stamp[l], call_started[l], cooldown[l]>>
             /\ attempted[l] \subseteq attempted'[l]
  BY <1>6 DEF DeskCall, NoteCall, claimRow, TypeOK
<1>7. ASSUME NEW k \in Leads, NEW c \in Callers, NEW reassign \in BOOLEAN,
             BulkAssign(c, k, reassign)
      PROVE  UNCHANGED <<stamp[l], call_started[l], attempted[l], cooldown[l]>>
  <2>1. k # l
    BY <1>7 DEF BulkAssign, TypeOK
  <2> QED
    BY <1>7, <2>1 DEF BulkAssign, claimRow, TypeOK
<1>8. ASSUME NEW c \in Callers, NEW k \in Leads, MarkCallStarted(c, k)
      PROVE  /\ UNCHANGED <<stamp[l], attempted[l], cooldown[l]>>
             /\ call_started[l] => call_started'[l]
  BY <1>8 DEF MarkCallStarted, leadRow, related, TypeOK
<1>9. CASE Tick
  <2>1. cooldown'[l] <= cooldown[l]
    BY <1>9 DEF Tick, CoolDown, TypeOK
  <2> QED
    BY <1>9, <2>1 DEF Tick, leadRow, related, TypeOK
<1>10. CASE UNCHANGED <<stamp, call_started, attempted, cooldown>>
  BY <1>10 DEF TypeOK
<1>11. ASSUME NEW k \in Leads,
              \/ \E c \in Callers : ReminderFallsDue(c, k)
              \/ ScheduleFollowUp(k) \/ EditLead(k)
       PROVE  UNCHANGED <<stamp, call_started, attempted, cooldown>>
  BY <1>11 DEF ReminderFallsDue, ScheduleFollowUp, EditLead, leadRow, claimRow, related
<1>12. (\E s \in Sweepers : SweepScan(s)) \/ UNCHANGED vars
       => UNCHANGED <<stamp, call_started, attempted, cooldown>>
  BY DEF SweepScan, vars, leadRow, claimRow, related
<1>13. cooldown[l] <= cooldown[l]
  BY DEF TypeOK
<1>14. CASE \E c \in Callers, k \in Leads : CallerStep(c, k)
  BY <1>2, <1>3, <1>5, <1>8, <1>10, <1>11, <1>13, <1>14 DEF CallerStep
<1>15. CASE \E k \in Leads : ManagerStep(k)
  BY <1>6, <1>7, <1>10, <1>11, <1>13, <1>15 DEF ManagerStep
<1>16. CASE \E s \in Sweepers : SweepStep(s)
  BY <1>4, <1>10, <1>12, <1>13, <1>16 DEF SweepStep
<1> QED
  BY <1>9, <1>10, <1>12, <1>14, <1>15, <1>16 DEF Next


NobodyGone == gone = {}

LEMMA NobodyGoneStep ==
    ASSUME Removable = {}
    PROVE  NobodyGone /\ [Next]_vars => NobodyGone'
<1> SUFFICES ASSUME gone = {}, [Next]_vars PROVE gone' = gone
  BY DEF NobodyGone
<1>1. ASSUME NEW c \in Callers, NEW l \in Leads, CallerStep(c, l) PROVE gone' = gone
  BY <1>1 DEF CallerStep, Claim, MarkCallStarted, Release, RecordCall, ReminderFallsDue
<1>2. ASSUME NEW l \in Leads, ManagerStep(l) PROVE gone' = gone
  BY <1>2 DEF ManagerStep, DeskCall, ScheduleFollowUp, BulkAssign, EditLead
<1>3. ASSUME NEW s \in Sweepers, SweepStep(s) PROVE gone' = gone
  BY <1>3 DEF SweepStep, SweepScan, SweepCommit
<1>4. ASSUME NEW e \in Editors, EditStep(e) PROVE gone' = gone
  BY <1>4 DEF EditStep, EditRead, EditSave, FollowUpSave
<1>5. Tick \/ UNCHANGED vars => gone' = gone
  BY DEF Tick, vars
<1> QED
  BY <1>1, <1>2, <1>3, <1>4, <1>5 DEF Next

\* One lead's part of a step.
LEMMA OwnershipStep ==
    ASSUME Editors = {}, Removable = {}, TypeOK, TypeOK', ClaimInv, OwnerInv, OwnerInv', gone = {},
           gone' = {}, [Next]_vars, NEW l \in Leads
    PROVE  \/ Ownership!Take(l) \/ Ownership!Dial(l) \/ Ownership!HandBack(l)
           \/ Ownership!Retry(l) \/ Ownership!Warm(l) \/ Ownership!Assign(l)
           \/ Ownership!Stay(l)
<1> DEFINE p == OwnershipPhase(l)
<1>1. /\ [k \in Leads |-> OwnershipPhase(k)][l] = p
      /\ [k \in Leads |-> OwnershipPhase(k)]'[l] = p'
  OBVIOUS
<1>2. /\ Ownership!Take(l) <=> p = "free" /\ p' = "claimed" /\ assigned_caller'[l] \in Callers
      /\ Ownership!Dial(l) <=> p = "claimed" /\ p' = "calling"
                               /\ assigned_caller'[l] = assigned_caller[l]
      /\ Ownership!HandBack(l) <=> p \in {"claimed", "manual"} /\ p' = "free"
                                   /\ assigned_caller'[l] = Nobody
      /\ Ownership!Retry(l) <=> p \in {"claimed", "calling"} /\ p' = "cooling"
                                /\ assigned_caller'[l] = Nobody
      /\ Ownership!Warm(l) <=> p = "cooling" /\ p' = "free" /\ assigned_caller'[l] = Nobody
      /\ Ownership!Assign(l) <=> p' = "manual"
                                 /\ assigned_caller'[l] \in Callers \ {assigned_caller[l]}
      /\ Ownership!Stay(l) <=> p' = p /\ assigned_caller'[l] = assigned_caller[l]
  BY <1>1 DEF Ownership!Take, Ownership!Dial, Ownership!HandBack, Ownership!Retry,
     Ownership!Warm, Ownership!Assign, Ownership!Stay, Ownership!Move
<1>3. /\ assigned_caller[l] = Nobody => p = IF cooldown[l] > 0 THEN "cooling" ELSE "free"
      /\ assigned_caller[l] # Nobody /\ ~stamp[l] => p = "manual"
      /\ assigned_caller[l] # Nobody /\ stamp[l] =>
           p = IF call_started[l] \/ assigned_caller[l] \in attempted[l]
               THEN "calling" ELSE "claimed"
  BY DEF OwnershipPhase
<1>4. /\ assigned_caller'[l] = Nobody => p' = IF cooldown'[l] > 0 THEN "cooling" ELSE "free"
      /\ assigned_caller'[l] # Nobody /\ ~stamp'[l] => p' = "manual"
      /\ assigned_caller'[l] # Nobody /\ stamp'[l] =>
           p' = IF call_started'[l] \/ assigned_caller'[l] \in attempted'[l]
                THEN "calling" ELSE "claimed"
  BY DEF OwnershipPhase
<1>5. Nobody \notin Callers
  BY WebsiteLeadAssumption DEF WebsiteLeadAssumption
<1> HIDE DEF p
<1>6. ASSUME NEW c \in Callers, Claim(c, l) PROVE Ownership!Take(l)
  <2>1. assigned_caller[l] = Nobody /\ cooldown[l] = 0 /\ attempted[l] = {}
    BY <1>6 DEF Claim, MayClaim, ClaimInv
  <2>2. /\ assigned_caller'[l] = c /\ stamp'[l] = TRUE /\ call_started'[l] = FALSE
        /\ attempted'[l] = {}
    BY <1>6, <2>1 DEF Claim, TypeOK
  <2> QED
    BY <2>1, <2>2, <1>2, <1>3, <1>4, <1>5
<1>7. ASSUME NEW c \in Callers, Release(c, l) PROVE Ownership!HandBack(l)
  <2>1. /\ assigned_caller[l] = c /\ ~call_started[l] /\ c \notin attempted[l]
        /\ assigned_caller'[l] = Nobody /\ cooldown'[l] = 0
    BY <1>7 DEF Release, MayRelease, HoldsClaim, Unclaim, TypeOK
  <2> QED
    BY <2>1, <1>2, <1>3, <1>4, <1>5
<1>8. ASSUME NEW s \in Sweepers, StillStale(s, l), assigned_caller'[l] = Nobody, cooldown'[l] = 0
      PROVE  Ownership!HandBack(l)
  <2>1. assigned_caller[l] # Nobody /\ stamp[l] /\ ~call_started[l] /\ attempted[l] = {}
    BY <1>8 DEF StillStale
  <2> QED
    BY <2>1, <1>2, <1>3, <1>4, <1>8
<1>9. ASSUME NEW c \in Callers, NEW o \in Outcomes, NEW callback \in BOOLEAN,
             GivesBack(c, l, o, callback), assigned_caller'[l] = Nobody,
             cooldown'[l] = Delay[o]
      PROVE  Ownership!Retry(l)
  <2>1. assigned_caller[l] = c /\ stamp[l] /\ Delay[o] > 0
    BY <1>9, ConstantFacts DEF GivesBack, OutcomeApplies, HoldsClaim
  <2> QED
    BY <2>1, <1>2, <1>3, <1>4, <1>5, <1>9
<1>10. ASSUME NEW c \in Callers, NEW reassign \in BOOLEAN, BulkAssign(c, l, reassign)
       PROVE  Ownership!Assign(l)
  <2>1. assigned_caller[l] # c /\ assigned_caller'[l] = c /\ stamp'[l] = FALSE
    BY <1>10 DEF BulkAssign, TypeOK
  <2> QED
    BY <2>1, <1>2, <1>4, <1>5
<1>11. CASE assigned_caller'[l] # assigned_caller[l]
  BY <1>6, <1>7, <1>8, <1>9, <1>10, <1>11, OwnerMoves
<1>12. CASE assigned_caller'[l] = assigned_caller[l]
  <2>1. /\ stamp'[l] = stamp[l]
        /\ call_started[l] => call_started'[l]
        /\ attempted[l] \subseteq attempted'[l]
        /\ cooldown'[l] <= cooldown[l]
        /\ cooldown[l] \in Nat /\ cooldown'[l] \in Nat
    BY <1>12, OwnerStays DEF TypeOK
  <2>2. CASE assigned_caller[l] = Nobody
    BY <1>2, <1>3, <1>4, <1>12, <2>1, <2>2
  <2>3. CASE assigned_caller[l] # Nobody
    BY <1>2, <1>3, <1>4, <1>12, <2>1, <2>3
  <2> QED
    BY <2>2, <2>3
<1> QED
  BY <1>11, <1>12

\* Without full-row saves and account deletions, the website queue implements
\* LeadOwnership: however claims, calls, sweeps and assignments interleave, every
\* lead lives the life drawn there.
THEOREM OwnershipImplemented ==
    ASSUME Editors = {}, Removable = {}
    PROVE  Spec => ImplementsOwnership
<1>1. Init => Ownership!Init
  BY DEF Init, Ownership!Init, OwnershipPhase
<1>2. Init => NobodyGone
  BY DEF Init, NobodyGone
<1>3. NobodyGone /\ [Next]_vars => NobodyGone'
  BY NobodyGoneStep
<1>4. /\ TypeOK /\ TypeOK' /\ ClaimInv /\ OwnerInv /\ OwnerInv' /\ NobodyGone /\ NobodyGone'
      /\ [Next]_vars
      => [Ownership!Next]_Ownership!vars
  BY OwnershipStep DEF Ownership!Next, NobodyGone
<1>5. Spec => [](TypeOK /\ ClaimInv /\ OwnerInv)
  BY OwnerInvHolds
<1> QED
  BY <1>1, <1>2, <1>3, <1>4, <1>5, PTL DEF Spec, ImplementsOwnership, Ownership!Spec

=============================================================================
