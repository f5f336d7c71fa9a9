-------------------------- MODULE PointsLedgerProofs --------------------------
(***************************************************************************)
(* Theorems about PointsLedger for any callers, numbers, calls, step and   *)
(* cap of the bonus.                                                       *)
(*                                                                         *)
(* The saved calls only grow, by one call at the end, and a saved call is  *)
(* never rewritten.  Each property compares an entry of the ledger, or a   *)
(* call, with the calls saved so far, so it is inductive beside the types. *)
(***************************************************************************)
EXTENDS PointsLedger, SequenceTheorems, FiniteSetTheorems, TLAPS

LEMMA Appended ==
    ASSUME NEW S, NEW s \in Seq(S), NEW x \in S
    PROVE  /\ Append(s, x) \in Seq(S)
           /\ Len(s) \in Nat /\ Len(s) + 1 \notin DOMAIN s
           /\ DOMAIN s = 1..Len(s)
           /\ DOMAIN Append(s, x) = DOMAIN s \cup {Len(s) + 1}
           /\ \A i \in DOMAIN s : Append(s, x)[i] = s[i]
           /\ Append(s, x)[Len(s) + 1] = x
<1>1. Len(s) \in Nat /\ DOMAIN s = 1..Len(s)
  BY LenProperties
<1>2. /\ Append(s, x) \in Seq(S)
      /\ Len(Append(s, x)) = Len(s) + 1
      /\ \A i \in 1..Len(s) : Append(s, x)[i] = s[i]
      /\ Append(s, x)[Len(s) + 1] = x
  BY AppendProperties
<1>3. DOMAIN Append(s, x) = 1..(Len(s) + 1)
  BY <1>2, LenProperties
<1> QED
  BY <1>1, <1>2, <1>3

\* Whole steps of dials are counted, and none of none.
LEMMA StepsOfDials ==
    ASSUME NEW n \in Nat
    PROVE  n \div CallsPerStep \in Nat /\ 0 \div CallsPerStep = 0
BY PointsLedgerAssumption

LEMMA TierType ==
    ASSUME NEW n \in Nat
    PROVE  DailyTier(n) \in 0..DailyCap /\ DailyTier(0) = 0
<1>1. DailyCap \in Nat
  BY PointsLedgerAssumption
<1> QED
  BY <1>1, StepsOfDials DEF DailyTier

LEMMA DialsAreCounted ==
    ASSUME NEW cs \in Seq(CallRow), NEW c, NEW d
    PROVE  Cardinality(DialsOn(cs, c, d)) \in Nat
<1>1. Len(cs) \in Nat /\ DOMAIN cs = 1..Len(cs)
  BY LenProperties
<1>2. IsFiniteSet(DOMAIN cs)
  BY <1>1, FS_Interval
<1>3. DialsOn(cs, c, d) \in SUBSET DOMAIN cs
  BY DEF DialsOn
<1> QED
  BY <1>2, <1>3, FS_Subset, FS_CardinalityType

LEMMA Rows ==
    ASSUME TypeOK
    PROVE  /\ calls \in Seq(CallRow)
           /\ \A i \in DOMAIN calls : /\ calls[i] \in CallRow
                                      /\ calls[i].of \in Submission
<1>1. calls \in Seq(CallRow)
  BY DEF TypeOK
<1>2. \A i \in DOMAIN calls : calls[i] \in CallRow
  BY <1>1, ElementOfSeq, LenProperties
<1> QED
  BY <1>1, <1>2, PointsLedgerAssumption DEF CallRow

\* A call that is saved becomes the last row, of the type of a row.
LEMMA SavedRow ==
    ASSUME TypeOK, NEW s \in Submissions, Submit(s)
    PROVE  /\ calls' = Append(calls, [of |-> s, linked |-> Linked(s), class |-> Classified(s)])
           /\ [of |-> s, linked |-> Linked(s), class |-> Classified(s)] \in CallRow
<1>1. Linked(s) \in BOOLEAN /\ Classified(s) \in Class
  BY DEF Linked, Creates, Classified, Class
<1> QED
  BY <1>1 DEF Submit, CallRow

----------------------------------------------------------------------------
(* Types                                                                    *)

LEMMA BonusType ==
    ASSUME TypeOK, NEW cs \in Seq(CallRow), NEW s
    PROVE  DailyPaid(cs, s) \in [Callers -> [Days -> 0..DailyCap]]
<1>1. bonus \in [Callers -> [Days -> 0..DailyCap]]
  BY DEF TypeOK
<1>2. DailyTier(Cardinality(DialsOn(cs, s.caller, Day(s.started)))) \in 0..DailyCap
  BY DialsAreCounted, TierType
<1> QED
  BY <1>1, <1>2 DEF DailyPaid

LEMMA InterestType ==
    ASSUME TypeOK, NEW l \in Leads, NEW c \in Callers, NEW k
    PROVE  InterestPaid(l, c, k) \in [Leads -> Entry \cup {NoEntry}]
<1>1. interest \in [Leads -> Entry \cup {NoEntry}]
  BY DEF TypeOK
<1>2. [caller |-> c, points |-> IF k = "OWN" THEN 15 ELSE 30] \in Entry
  BY DEF Entry
<1> QED
  BY <1>1, <1>2 DEF InterestPaid

LEMMA TypeSubmit ==
    ASSUME TypeOK, NEW s \in Submissions, Submit(s)
    PROVE  TypeOK'
<1>1. s \in Submission
  BY PointsLedgerAssumption
<1>2. s.caller \in Callers /\ s.lead \in Leads /\ s.course \in Courses \cup {NoCourse}
  BY <1>1 DEF Submission
<1>3. calls' \in Seq(CallRow)
  <2> DEFINE row == [of |-> s, linked |-> Linked(s), class |-> Classified(s)]
  <2>1. calls \in Seq(CallRow)
    BY DEF TypeOK
  <2>2. row \in CallRow /\ calls' = Append(calls, row)
    BY SavedRow
  <2> HIDE DEF row
  <2> QED
    BY <2>1, <2>2, Appended
<1>4. bonus' \in [Callers -> [Days -> 0..DailyCap]]
  BY <1>3, BonusType DEF Submit
<1>5. interest' \in [Leads -> Entry \cup {NoEntry}]
  BY <1>2, InterestType DEF Submit
<1>6. owner' \in [Leads -> Callers \cup {Unknown, Nobody}]
  BY <1>2 DEF TypeOK, Submit
<1>7. preferred' \in [Leads -> Courses \cup {NoCourse}]
  BY <1>2 DEF TypeOK, Submit, PreferredThen
<1>8. interested' \subseteq Leads
  BY <1>2 DEF TypeOK, Submit
<1>9. now' \in Time /\ active' \subseteq Callers
  BY DEF TypeOK, Submit
<1> QED
  BY <1>3, <1>4, <1>5, <1>6, <1>7, <1>8, <1>9 DEF TypeOK

LEMMA TypeRescore ==
    ASSUME TypeOK, NEW i \in DOMAIN calls, Rescore(i)
    PROVE  TypeOK'
<1>1. calls[i].of.caller \in Callers /\ calls[i].of.lead \in Leads
  BY Rows DEF Submission
<1>2. calls' \in Seq(CallRow) /\ calls \in Seq(CallRow)
  BY Rows DEF Rescore
<1>3. bonus' \in [Callers -> [Days -> 0..DailyCap]]
  BY <1>2, BonusType DEF Rescore
<1>4. interest' \in [Leads -> Entry \cup {NoEntry}]
  BY <1>1, InterestType DEF Rescore, TypeOK
<1> QED
  BY <1>2, <1>3, <1>4 DEF TypeOK, Rescore, lead

LEMMA TypeLead ==
    ASSUME TypeOK, NEW l \in Leads, LeadStep(l)
    PROVE  TypeOK'
<1>1. CASE Backfill(l)
  <2>1. [caller |-> owner[l], points |-> 0] \in Entry
    BY <1>1 DEF Backfill, Entry
  <2>2. interest' \in [Leads -> Entry \cup {NoEntry}]
    BY <1>1, <2>1 DEF Backfill, TypeOK
  <2> QED
    BY <1>1, <2>2 DEF Backfill, TypeOK, lead
<1>2. ASSUME NEW c \in Callers \cup {Nobody}, Assign(l, c) PROVE TypeOK'
  BY <1>2 DEF Assign, TypeOK, ledger
<1>3. CASE EditLead(l)
  BY <1>3 DEF EditLead, TypeOK, ledger
<1> QED
  BY <1>1, <1>2, <1>3 DEF LeadStep

LEMMA TypeOther ==
    ASSUME TypeOK
    PROVE  /\ \A c \in Suspendable : SetActive(c) => TypeOK'
           /\ Tick => TypeOK'
           /\ UNCHANGED vars => TypeOK'
<1>1. ASSUME NEW c \in Suspendable, SetActive(c) PROVE TypeOK'
  BY <1>1, PointsLedgerAssumption DEF SetActive, TypeOK, lead, ledger
<1>2. ASSUME Tick PROVE TypeOK'
  <2>1. now' \in Time
    BY <1>2, PointsLedgerAssumption DEF Tick, TypeOK, Time
  <2> QED
    BY <1>2, <2>1 DEF Tick, TypeOK, lead, ledger
<1>3. ASSUME UNCHANGED vars PROVE TypeOK'
  BY <1>3 DEF vars, TypeOK, lead, ledger
<1> QED
  BY <1>1, <1>2, <1>3

LEMMA TypeStep ==
    ASSUME TypeOK, [Next]_vars
    PROVE  TypeOK'
BY TypeSubmit, TypeRescore, TypeLead, TypeOther DEF Next

LEMMA TypeInit ==
    ASSUME Init
    PROVE  TypeOK
<1>1. calls \in Seq(CallRow)
  BY EmptySeq DEF Init
<1>2. bonus \in [Callers -> [Days -> 0..DailyCap]]
  BY PointsLedgerAssumption DEF Init
<1>3. now \in Time
  BY PointsLedgerAssumption DEF Init, Time
<1> QED
  BY <1>1, <1>2, <1>3 DEF Init, TypeOK

\* The variables keep their types: the daily bonus of a day stays within the cap,
\* whatever the number of calls.
THEOREM TypeCorrect == Spec => []TypeOK
<1> QED
  BY TypeInit, TypeStep, PTL DEF Spec

----------------------------------------------------------------------------
(* What a saved call leaves as it was                                       *)

\* The last row of calls' is the saved call, the others are those of before.
LEMMA OneMoreRow ==
    ASSUME TypeOK, NEW s \in Submissions, Submit(s)
    PROVE  \E n \in Nat :
               /\ n \notin DOMAIN calls /\ DOMAIN calls' = DOMAIN calls \cup {n}
               /\ \A i \in DOMAIN calls : i < n /\ calls'[i] = calls[i]
               /\ calls'[n] = [of |-> s, linked |-> Linked(s), class |-> Classified(s)]
<1> DEFINE row == [of |-> s, linked |-> Linked(s), class |-> Classified(s)]
<1>1. calls \in Seq(CallRow)
  BY DEF TypeOK
<1>2. row \in CallRow /\ calls' = Append(calls, row)
  BY SavedRow
<1> HIDE DEF row
<1> DEFINE n == Len(calls) + 1
<1>3. /\ n \in Nat /\ n \notin DOMAIN calls
      /\ DOMAIN calls' = DOMAIN calls \cup {n}
      /\ \A i \in DOMAIN calls : i < n /\ calls'[i] = calls[i]
      /\ calls'[n] = row
  BY <1>1, <1>2, Appended
<1> HIDE DEF n
<1> QED
  BY <1>3 DEF row

----------------------------------------------------------------------------
(* The daily bonus                                                          *)

\* Paying the day of a call leaves the entries of other days and callers alone.
LEMMA PaysOneDay ==
    ASSUME TypeOK, NEW cs \in Seq(CallRow), NEW s,
           NEW c \in Callers, NEW d \in Days
    PROVE  DailyPaid(cs, s)[c][d] =
             IF c = s.caller /\ d = Day(s.started)
             THEN DailyTier(Cardinality(DialsOn(cs, c, d))) ELSE bonus[c][d]
<1>1. bonus \in [Callers -> [Days -> 0..DailyCap]]
  BY DEF TypeOK
<1> QED
  BY <1>1 DEF DailyPaid

LEMMA BonusSubmit ==
    ASSUME TypeOK, TypeOK', BonusMatchesCalls, NEW s \in Submissions, Submit(s)
    PROVE  BonusMatchesCalls'
<1> SUFFICES ASSUME NEW c \in Callers, NEW d \in Days
             PROVE  bonus'[c][d] = DailyTier(Cardinality(DialsOn(calls', c, d)))
  BY DEF BonusMatchesCalls
<1>1. calls' \in Seq(CallRow) /\ bonus' = DailyPaid(calls', s)
  BY DEF TypeOK, Submit
<1>2. CASE c = s.caller /\ d = Day(s.started)
  BY <1>1, <1>2, PaysOneDay
<1>3. CASE ~(c = s.caller /\ d = Day(s.started))
  <2>1. bonus'[c][d] = bonus[c][d]
    BY <1>1, <1>3, PaysOneDay
  <2>2. DialsOn(calls', c, d) = DialsOn(calls, c, d)
    <3>1. PICK n \in Nat :
             /\ n \notin DOMAIN calls /\ DOMAIN calls' = DOMAIN calls \cup {n}
             /\ \A i \in DOMAIN calls : i < n /\ calls'[i] = calls[i]
             /\ calls'[n] = [of |-> s, linked |-> Linked(s), class |-> Classified(s)]
      BY OneMoreRow
    <3>2. calls'[n].of = s
      BY <3>1
    <3> QED
      BY <1>3, <3>1, <3>2 DEF DialsOn
  <2> QED
    BY <2>1, <2>2 DEF BonusMatchesCalls
<1> QED
  BY <1>2, <1>3

LEMMA BonusRescore ==
    ASSUME TypeOK, BonusMatchesCalls, NEW i \in DOMAIN calls, Rescore(i)
    PROVE  BonusMatchesCalls'
<1>1. calls \in Seq(CallRow) /\ calls' = calls /\ bonus' = DailyPaid(calls, calls[i].of)
  BY DEF TypeOK, Rescore
<1> QED
  BY <1>1, PaysOneDay DEF BonusMatchesCalls

LEMMA BonusOther ==
    ASSUME BonusMatchesCalls, UNCHANGED <<calls, bonus>>
    PROVE  BonusMatchesCalls'
BY DEF BonusMatchesCalls

LEMMA OthersKeepBonus ==
    /\ \A l \in Leads : LeadStep(l) => UNCHANGED <<calls, bonus>>
    /\ \A c \in Suspendable : SetActive(c) => UNCHANGED <<calls, bonus>>
    /\ Tick => UNCHANGED <<calls, bonus>>
    /\ UNCHANGED vars => UNCHANGED <<calls, bonus>>
BY DEF LeadStep, Backfill, Assign, EditLead, SetActive, Tick, vars, ledger

LEMMA BonusStep ==
    ASSUME TypeOK, BonusMatchesCalls, [Next]_vars
    PROVE  BonusMatchesCalls'
BY TypeStep, BonusSubmit, BonusRescore, BonusOther, OthersKeepBonus DEF Next

LEMMA BonusInit ==
    ASSUME Init
    PROVE  BonusMatchesCalls
<1>1. \A c, d : DialsOn(calls, c, d) = {}
  BY EmptySeq, LenProperties DEF Init, DialsOn
<1>2. DailyTier(Cardinality({})) = 0
  BY FS_EmptySet, TierType
<1> QED
  BY <1>1, <1>2 DEF Init, BonusMatchesCalls

\* The daily bonus of a caller is the tier of the calls made that day, in whatever
\* order they are reported, on whatever later day and however often.
THEOREM BonusOfTheDay == Spec => []BonusMatchesCalls
<1>1. Init => TypeOK /\ BonusMatchesCalls
  BY TypeInit, BonusInit
<1>2. TypeOK /\ BonusMatchesCalls /\ [Next]_vars => (TypeOK /\ BonusMatchesCalls)'
  BY TypeStep, BonusStep
<1> QED
  BY <1>1, <1>2, PTL DEF Spec

----------------------------------------------------------------------------
(* Copies of a call                                                         *)

\* A call that is in the ledger's calls is recognised when it comes again.
LEMMA CopyIsSaved ==
    ASSUME TypeOK, NEW s \in Submissions, NEW i \in DOMAIN calls, calls[i].of = s
    PROVE  Saved(s)
<1>1. s \in Submission
  BY PointsLedgerAssumption
<1>2. s.event = NoEvent => Contents(s) = s
  BY <1>1 DEF Contents, Submission
<1> QED
  BY <1>2 DEF Saved

LEMMA SavedOnceStep ==
    ASSUME TypeOK, CallIsSavedOnce, [Next]_vars
    PROVE  CallIsSavedOnce'
<1>1. ASSUME NEW s \in Submissions, Submit(s) PROVE CallIsSavedOnce'
  <2>1. PICK n \in Nat :
           /\ n \notin DOMAIN calls /\ DOMAIN calls' = DOMAIN calls \cup {n}
           /\ \A i \in DOMAIN calls : i < n /\ calls'[i] = calls[i]
           /\ calls'[n] = [of |-> s, linked |-> Linked(s), class |-> Classified(s)]
    BY <1>1, OneMoreRow
  <2>2. calls'[n].of = s
    BY <2>1
  <2>3. \A i \in DOMAIN calls : calls[i].of # s
    BY <1>1, CopyIsSaved DEF Submit
  <2> QED
    BY <2>1, <2>2, <2>3 DEF CallIsSavedOnce
<1>2. ASSUME UNCHANGED calls PROVE CallIsSavedOnce'
  BY <1>2 DEF CallIsSavedOnce
<1>3. ASSUME NEW i \in DOMAIN calls, Rescore(i) PROVE UNCHANGED calls
  BY <1>3 DEF Rescore
<1> QED
  BY <1>1, <1>2, <1>3, OthersKeepBonus DEF Next

LEMMA SavedOnceInit ==
    ASSUME Init
    PROVE  CallIsSavedOnce
BY EmptySeq, LenProperties DEF Init, CallIsSavedOnce

\* A call that is reported again, with its event id or without one, after any
\* change of its lead, is saved once.
THEOREM SavedOnce == Spec => []CallIsSavedOnce
<1>1. Init => TypeOK /\ CallIsSavedOnce
  BY TypeInit, SavedOnceInit
<1>2. TypeOK /\ CallIsSavedOnce /\ [Next]_vars => (TypeOK /\ CallIsSavedOnce)'
  BY TypeStep, SavedOnceStep
<1> QED
  BY <1>1, <1>2, PTL DEF Spec

----------------------------------------------------------------------------
(* The points of a lead                                                     *)

Reward(k) == IF k = "OWN" THEN 15 ELSE 30

\* What InterestPaysTheFirstCall says of one lead, its entry e and the calls cs.
Earned(cs, i, l) ==
    i \in DOMAIN cs /\ cs[i].linked /\ cs[i].of.lead = l /\ cs[i].class \in {"OWN", "OTHER"}

PaysFirst(cs, e, l) ==
    /\ e = NoEntry => \A i : ~Earned(cs, i, l)
    /\ e # NoEntry /\ e.points > 0 =>
         \E i : /\ Earned(cs, i, l)
                /\ \A j : Earned(cs, j, l) => i <= j
                /\ e.caller = cs[i].of.caller /\ e.points = Reward(cs[i].class)

LEMMA LeadByLead ==
    /\ InterestPaysTheFirstCall <=> \A l \in Leads : PaysFirst(calls, interest[l], l)
    /\ InterestPaysTheFirstCall' <=> \A l \in Leads : PaysFirst(calls', interest'[l], l)
BY Zenon DEF InterestPaysTheFirstCall, PaysFirst, Earned, Qualified, Reward

\* Entries that stay, or are entered for no points, with the same calls.
LEMMA EntryStays ==
    ASSUME NEW l \in Leads, PaysFirst(calls, interest[l], l), calls' = calls,
           \/ interest'[l] = interest[l]
           \/ interest'[l] # NoEntry /\ interest'[l].points = 0
    PROVE  PaysFirst(calls', interest'[l], l)
BY DEF PaysFirst

\* A call is interested in its course: it has a lead when it is compared with one.
LEMMA ComparedIsLinked ==
    ASSUME NEW s \in Submissions, Classified(s) \in {"OWN", "OTHER"}
    PROVE  Linked(s)
BY DEF Classified, Linked, Creates

\* The call that is saved, seen from one lead.
LEMMA InterestSubmit ==
    ASSUME TypeOK, NEW s \in Submissions, Submit(s),
           NEW l \in Leads, PaysFirst(calls, interest[l], l)
    PROVE  PaysFirst(calls', interest'[l], l)
<1>1. PICK n \in Nat :
         /\ n \notin DOMAIN calls /\ DOMAIN calls' = DOMAIN calls \cup {n}
         /\ \A i \in DOMAIN calls : i < n /\ calls'[i] = calls[i]
         /\ calls'[n] = [of |-> s, linked |-> Linked(s), class |-> Classified(s)]
  BY OneMoreRow
<1>2. calls'[n].of = s /\ calls'[n].linked = Linked(s) /\ calls'[n].class = Classified(s)
  BY <1>1
<1>3. \A i \in DOMAIN calls : Earned(calls', i, l) <=> Earned(calls, i, l)
  BY <1>1 DEF Earned
<1>4. Earned(calls', n, l) <=> s.lead = l /\ Classified(s) \in {"OWN", "OTHER"}
  BY <1>1, <1>2, ComparedIsLinked DEF Earned
<1>5. \A i : Earned(calls', i, l) => i \in DOMAIN calls \/ i = n
  BY <1>1 DEF Earned
<1>6. \A i : Earned(calls, i, l) => i \in DOMAIN calls
  BY DEF Earned
<1>7. interest \in [Leads -> Entry \cup {NoEntry}] /\ s.lead \in Leads
  BY PointsLedgerAssumption DEF TypeOK, Submission
<1>8. interest' = InterestPaid(s.lead, s.caller, Classified(s))
  BY DEF Submit
<1>9. CASE interest[l] = NoEntry /\ s.lead = l /\ Classified(s) \in {"OWN", "OTHER"}
  <2>1. interest'[l] = [caller |-> s.caller, points |-> Reward(Classified(s))]
    BY <1>7, <1>8, <1>9 DEF InterestPaid, Reward
  <2>2. interest'[l].caller = s.caller /\ interest'[l].points = Reward(Classified(s))
    BY <2>1
  <2>3. interest'[l] # NoEntry
    BY <2>1, <1>7, PointsLedgerAssumption DEF Submission, Reward
  <2>4. \A j : Earned(calls', j, l) => j = n
    BY <1>3, <1>5, <1>9 DEF PaysFirst
  <2>5. Earned(calls', n, l) /\ n <= n
    BY <1>4, <1>9
  <2> QED
    BY <1>2, <2>2, <2>3, <2>4, <2>5 DEF PaysFirst
<1>10. CASE ~(interest[l] = NoEntry /\ s.lead = l /\ Classified(s) \in {"OWN", "OTHER"})
  <2>1. interest'[l] = interest[l]
    BY <1>7, <1>8, <1>10 DEF InterestPaid
  <2>2. CASE interest[l] = NoEntry
    BY <1>3, <1>4, <1>5, <1>10, <2>1, <2>2 DEF PaysFirst
  <2>3. CASE interest[l] # NoEntry /\ interest[l].points > 0
    <3>1. PICK i : /\ Earned(calls, i, l)
                   /\ \A j : Earned(calls, j, l) => i <= j
                   /\ interest[l].caller = calls[i].of.caller
                   /\ interest[l].points = Reward(calls[i].class)
      BY <2>3 DEF PaysFirst
    <3>2. i \in DOMAIN calls /\ i < n /\ i <= n /\ calls'[i] = calls[i]
      BY <1>1, <1>6, <3>1, Rows, LenProperties
    <3>3. Earned(calls', i, l) /\ \A j : Earned(calls', j, l) => i <= j
      BY <1>3, <1>5, <3>1, <3>2
    <3> QED
      BY <2>1, <2>3, <3>1, <3>2, <3>3 DEF PaysFirst
  <2>4. CASE interest[l] # NoEntry /\ ~(interest[l].points > 0)
    BY <2>1, <2>4 DEF PaysFirst
  <2> QED
    BY <2>2, <2>3, <2>4
<1> QED
  BY <1>9, <1>10

\* A call that is scored again was paid for, or earned nothing.
LEMMA InterestRescore ==
    ASSUME TypeOK, NEW i \in DOMAIN calls, Rescore(i),
           \A l \in Leads : PaysFirst(calls, interest[l], l)
    PROVE  interest' = interest
<1>1. calls[i].of.lead \in Leads
  BY Rows DEF Submission
<1>2. calls[i].linked /\ calls[i].class \in {"OWN", "OTHER"}
        => interest[calls[i].of.lead] # NoEntry
  BY <1>1 DEF PaysFirst, Earned
<1> QED
  BY <1>2 DEF Rescore, InterestPaid

LEMMA InterestStep ==
    ASSUME TypeOK, InterestPaysTheFirstCall, [Next]_vars
    PROVE  InterestPaysTheFirstCall'
<1> SUFFICES ASSUME NEW l \in Leads PROVE PaysFirst(calls', interest'[l], l)
  BY LeadByLead
<1>1. \A m \in Leads : PaysFirst(calls, interest[m], m)
  BY LeadByLead
<1>2. ASSUME NEW s \in Submissions, Submit(s) PROVE PaysFirst(calls', interest'[l], l)
  BY <1>1, <1>2, InterestSubmit
<1>3. ASSUME UNCHANGED <<calls, interest>> PROVE PaysFirst(calls', interest'[l], l)
  BY <1>1, <1>3, EntryStays
<1>4. ASSUME NEW i \in DOMAIN calls, Rescore(i) PROVE UNCHANGED <<calls, interest>>
  BY <1>1, <1>4, InterestRescore DEF Rescore
<1>5. ASSUME NEW m \in Leads, Backfill(m) PROVE PaysFirst(calls', interest'[l], l)
  <2>1. calls' = calls /\ interest \in [Leads -> Entry \cup {NoEntry}]
    BY <1>5 DEF Backfill, TypeOK
  <2>2. [caller |-> owner[m], points |-> 0] # NoEntry
    BY <1>5, PointsLedgerAssumption DEF Backfill
  <2>3. \/ interest'[l] = interest[l]
        \/ interest'[l] = [caller |-> owner[m], points |-> 0]
    BY <1>5, <2>1 DEF Backfill
  <2> QED
    BY <1>1, <2>1, <2>2, <2>3, EntryStays
<1>6. ASSUME NEW m \in Leads, LeadStep(m) PROVE PaysFirst(calls', interest'[l], l)
  BY <1>3, <1>5, <1>6 DEF LeadStep, Assign, EditLead, ledger
<1>7. ASSUME NEW c \in Suspendable, SetActive(c) PROVE UNCHANGED <<calls, interest>>
  BY <1>7 DEF SetActive, ledger
<1>8. ASSUME Tick PROVE UNCHANGED <<calls, interest>>
  BY <1>8 DEF Tick, ledger
<1>9. ASSUME UNCHANGED vars PROVE UNCHANGED <<calls, interest>>
  BY <1>9 DEF vars, ledger
<1> QED
  BY <1>2, <1>3, <1>4, <1>6, <1>7, <1>8, <1>9 DEF Next

LEMMA InterestInit ==
    ASSUME Init
    PROVE  InterestPaysTheFirstCall
<1>1. \A i, l : ~Earned(calls, i, l)
  BY EmptySeq, LenProperties DEF Init, Earned
<1>2. \A l \in Leads : interest[l] = NoEntry
  BY DEF Init
<1> QED
  BY <1>1, <1>2, LeadByLead DEF PaysFirst

\* Interest in a lead is paid to the caller whose call first said it, at that call's
\* course, whoever the lead belongs to later and however often calls are scored again.
THEOREM InterestPaidToTheFirst == Spec => []InterestPaysTheFirstCall
<1>1. Init => TypeOK /\ InterestPaysTheFirstCall
  BY TypeInit, InterestInit
<1>2. TypeOK /\ InterestPaysTheFirstCall /\ [Next]_vars
        => (TypeOK /\ InterestPaysTheFirstCall)'
  BY TypeStep, InterestStep
<1> QED
  BY <1>1, <1>2, PTL DEF Spec

=============================================================================
