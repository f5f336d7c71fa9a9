----------------------- MODULE CounselorHandoverProofs -----------------------
(***************************************************************************)
(* Theorems about CounselorHandover for any leads, accounts and requests.  *)
(*                                                                         *)
(* Each of the three tables is written by one or two actions only          *)
(* (AssignmentsStep, NotesStep, AdmissionsStep); the other proofs go by    *)
(* these cases.                                                            *)
(***************************************************************************)
EXTENDS CounselorHandover, SequenceTheorems, TLAPS

USE DEF lead

LEMMA AssignmentsStep ==
    ASSUME [Next]_vars
    PROVE  assignments' = assignments \/ \E r \in Requests : Forward(r)
<1>1. ASSUME NEW r \in Requests, RequestStep(r) PROVE assignments' = assignments \/ Forward(r)
  BY <1>1 DEF RequestStep, Refuse, SaveNote, RequestAdmission, AskForward, AskNote, AskAdmission,
     Receives
<1>2. ASSUME NEW l \in Leads, LeadStep(l) PROVE assignments' = assignments
  BY <1>2 DEF LeadStep, Outcome, Admit, GiveBack, BulkAssign, ReassignCreated, AssignCaller
<1> QED
  BY <1>1, <1>2 DEF Next, vars, SetActive, Review

LEMMA NotesStep ==
    ASSUME [Next]_vars
    PROVE  notes' = notes \/ \E r \in Requests : SaveNote(r)
<1>1. ASSUME NEW r \in Requests, RequestStep(r) PROVE notes' = notes \/ SaveNote(r)
  BY <1>1 DEF RequestStep, Refuse, Forward, RequestAdmission, AskForward, AskNote, AskAdmission,
     Receives
<1>2. ASSUME NEW l \in Leads, LeadStep(l) PROVE notes' = notes
  BY <1>2 DEF LeadStep, Outcome, Admit, GiveBack, BulkAssign, ReassignCreated, AssignCaller
<1> QED
  BY <1>1, <1>2 DEF Next, vars, SetActive, Review

LEMMA AdmissionsStep ==
    ASSUME [Next]_vars
    PROVE  \/ admissions' = admissions
           \/ \E r \in Requests : RequestAdmission(r)
           \/ \E i \in 1..MaxAdmissions, decision \in Decisions : Review(i, decision)
<1>1. ASSUME NEW r \in Requests, RequestStep(r)
      PROVE  admissions' = admissions \/ RequestAdmission(r)
  BY <1>1 DEF RequestStep, Refuse, Forward, SaveNote, AskForward, AskNote, AskAdmission, Receives
<1>2. ASSUME NEW l \in Leads, LeadStep(l) PROVE admissions' = admissions
  BY <1>2 DEF LeadStep, Outcome, Admit, GiveBack, BulkAssign, ReassignCreated, AssignCaller
<1> QED
  BY <1>1, <1>2 DEF Next, vars, SetActive

\* What a request may become: it is received, answered or left alone.
LEMMA PendingStep ==
    ASSUME [Next]_vars
    PROVE  \/ pending' = pending
           \/ \E r \in Requests : Answered(r)
           \/ \E r \in Requests, l \in Leads, u \in Callers, to \in Counselors :
                 AskForward(r, l, u, to)
           \/ \E r \in Requests, l \in Leads, u \in Counselors, n \in Nths :
                 \/ \E event \in Events : AskNote(r, l, u, n, event)
                 \/ AskAdmission(r, l, u, n)
BY DEF Next, vars, RequestStep, LeadStep, Refuse, Forward, SaveNote, RequestAdmission, Outcome,
   Admit, GiveBack, BulkAssign, ReassignCreated, AssignCaller, SetActive, Review

LEMMA SameInterval ==
    ASSUME NEW m \in Nat, NEW n \in Nat, 1..m = 1..n
    PROVE  m = n
<1>1. \A i \in Int : i \in 1..m <=> i \in 1..n
  OBVIOUS
<1>2. m > 0 => m \in 1..n
  BY <1>1
<1>3. n > 0 => n \in 1..m
  BY <1>1
<1> QED
  BY <1>2, <1>3

LatestActive(as) == \A k \in 1..Len(as) : as[k].is_active <=> k = Len(as)

\* A new assignment is appended; the others keep their counselor, and end if only
\* the last of them was active.
LEMMA ReplacedFacts ==
    ASSUME NEW as \in Seq(Assignment), NEW u \in Callers, NEW to \in Counselors
    PROVE  /\ Replaced(as, u, to) \in Seq(Assignment)
           /\ Len(as) \in Nat /\ DOMAIN as = 1..Len(as)
           /\ Len(Replaced(as, u, to)) = Len(as) + 1
           /\ DOMAIN Replaced(as, u, to) = 1..(Len(as) + 1)
           /\ \A n \in 1..Len(as) :
                 /\ Replaced(as, u, to)[n].counselor = as[n].counselor
                 /\ LatestActive(as) => Replaced(as, u, to)[n].is_active = FALSE
           /\ Replaced(as, u, to)[Len(as) + 1] =
                 [counselor |-> to, forwarded_by |-> u, is_active |-> TRUE]
<1> DEFINE current == {n \in DOMAIN as :
                          as[n].is_active /\ \A k \in DOMAIN as : as[k].is_active => k <= n}
           ended == [n \in DOMAIN as |-> [as[n] EXCEPT !.is_active = @ /\ n \notin current]]
           new == [counselor |-> to, forwarded_by |-> u, is_active |-> TRUE]
<1>1. Len(as) \in Nat /\ DOMAIN as = 1..Len(as) /\ \A n \in DOMAIN as : as[n] \in Assignment
  BY LenProperties, ElementOfSeq
<1>2. \A n \in DOMAIN as :
        /\ ended[n] \in Assignment
        /\ ended[n].counselor = as[n].counselor
        /\ LatestActive(as) => ended[n].is_active = FALSE
  <2> SUFFICES ASSUME NEW n \in DOMAIN as
               PROVE  /\ ended[n] \in Assignment
                      /\ ended[n].counselor = as[n].counselor
                      /\ LatestActive(as) => ended[n].is_active = FALSE
    OBVIOUS
  <2>1. as[n] \in Assignment /\ ended[n] = [as[n] EXCEPT !.is_active = @ /\ n \notin current]
    BY <1>1
  <2>2. ASSUME LatestActive(as), as[n].is_active
        PROVE  n \in current
    <3>0. n \in 1..Len(as) /\ \A k \in 1..Len(as) : as[k].is_active => k = Len(as)
      BY <1>1, <2>2, Zenon DEF LatestActive
    <3>1. n = Len(as) /\ \A k \in 1..Len(as) : as[k].is_active => k = n
      BY <2>2, <3>0, Zenon
    <3>2. \A k \in 1..Len(as) : as[k].is_active => k <= n
      <4>1. \A k \in 1..Len(as) : k <= k
        OBVIOUS
      <4> QED
        BY <3>1, <4>1, Zenon
    <3> QED
      BY <1>1, <2>2, <3>2
  <2> HIDE DEF current, ended
  <2> QED
    BY <2>1, <2>2 DEF Assignment
<1>3. new \in Assignment
  BY DEF Assignment
<1>4. ended \in [1..Len(as) -> Assignment]
  BY <1>1, <1>2
<1>5. Replaced(as, u, to) = Append(ended, new)
  BY DEF Replaced
<1> HIDE DEF current, ended, new
<1>6. ended \in Seq(Assignment) /\ Len(ended) = Len(as)
  <2>1. ended \in Seq(Assignment)
    BY <1>1, <1>4, SeqDef, Zenon
  <2>2. Len(ended) \in Nat /\ DOMAIN ended = 1..Len(ended)
    BY <2>1, LenProperties
  <2>3. 1..Len(ended) = 1..Len(as)
    BY <1>4, <2>2
  <2>4. Len(ended) = Len(as)
    BY <1>1, <2>2, <2>3, SameInterval
  <2> QED
    BY <2>1, <2>4
<1>7. /\ Append(ended, new) \in Seq(Assignment)
      /\ Len(Append(ended, new)) = Len(ended) + 1
      /\ \A n \in 1..Len(ended) : Append(ended, new)[n] = ended[n]
      /\ Append(ended, new)[Len(ended) + 1] = new
  <2>1. ended \in Seq(Assignment)
    BY <1>6
  <2> QED
    BY <1>3, <2>1, AppendProperties
<1>8. DOMAIN Append(ended, new) = 1..(Len(as) + 1)
  BY <1>1, <1>7, <1>6, LenProperties
<1>9. \A n \in 1..Len(as) : Replaced(as, u, to)[n] = ended[n]
  BY <1>5, <1>6, <1>7
<1> QED
  BY <1>1, <1>9, <1>2, <1>5, <1>7, <1>8, <1>6 DEF new

\* The request in flight, by what it is.
LEMMA PendingTypes ==
    ASSUME TypeOK, NEW r \in Requests
    PROVE  /\ pending[r].op = "forward" => pending[r] \in ForwardRequest
           /\ pending[r].op = "note" => pending[r] \in NoteRequest
           /\ pending[r].op = "admission" => pending[r] \in AdmissionAsked
BY DEF TypeOK, Received, ForwardRequest, NoteRequest, AdmissionAsked, NoRequest

----------------------------------------------------------------------------
(* Types                                                                    *)

\* A forward writes assignments, within the bound.
LEMMA ForwardType ==
    ASSUME TypeOK, NEW r \in Requests, Forward(r)
    PROVE  /\ assignments' \in [Leads -> Seq(Assignment)]
           /\ \A l \in Leads : Len(assignments'[l]) <= MaxAssignments
<1> DEFINE l == pending[r].lead
           new == Replaced(assignments[l], pending[r].user, pending[r].to)
<1>1. l \in Leads /\ pending[r].user \in Callers /\ pending[r].to \in Counselors
  BY PendingTypes DEF Forward, ForwardRequest
<1>2. assignments[l] \in Seq(Assignment) /\ Len(assignments[l]) < MaxAssignments
  BY <1>1 DEF TypeOK, Forward
<1>3. new \in Seq(Assignment) /\ Len(new) = Len(assignments[l]) + 1 /\ Len(assignments[l]) \in Nat
  BY <1>1, <1>2, ReplacedFacts
<1>4. assignments' = assignments \/ assignments' = [assignments EXCEPT ![l] = new]
  BY DEF Forward
<1> HIDE DEF l, new
<1>5. MaxAssignments \in Nat
  BY CounselorHandoverAssumption DEF CounselorHandoverAssumption
<1>6. Len(new) <= MaxAssignments
  BY <1>2, <1>3, <1>5
<1> QED
  BY <1>1, <1>3, <1>4, <1>6 DEF TypeOK

LEMMA SaveNoteType ==
    ASSUME TypeOK, NEW r \in Requests, SaveNote(r)
    PROVE  notes' \in Seq(Note)
<1> DEFINE new == [lead |-> pending[r].lead, nth |-> pending[r].nth,
                   counselor |-> pending[r].user, event |-> pending[r].event]
<1>1. new \in Note
  BY PendingTypes DEF SaveNote, NoteRequest, Note
<1>2. notes \in Seq(Note)
  BY DEF TypeOK
<1>3. notes' = notes \/ notes' = Append(notes, new)
  BY DEF SaveNote
<1> HIDE DEF new
<1> QED
  BY <1>1, <1>2, <1>3, AppendProperties

LEMMA RequestAdmissionType ==
    ASSUME TypeOK, NEW r \in Requests, RequestAdmission(r)
    PROVE  /\ RequestedUnder(pending[r]) \in Admission
           /\ admissions' \in Seq(Admission)
           /\ Len(admissions) \in Nat /\ DOMAIN admissions = 1..Len(admissions)
           /\ DOMAIN admissions' = 1..(Len(admissions) + 1)
           /\ \A i \in DOMAIN admissions : admissions'[i] = admissions[i]
           /\ \A i \in DOMAIN admissions' \ DOMAIN admissions :
                 /\ i = Len(admissions) + 1
                 /\ admissions'[i].lead = pending[r].lead
                 /\ admissions'[i].nth = pending[r].nth
                 /\ admissions'[i].counselor = pending[r].user
<1>1. RequestedUnder(pending[r]) \in Admission
  BY PendingTypes DEF RequestAdmission, RequestedUnder, AdmissionAsked, Admission
<1>2. /\ admissions \in Seq(Admission)
      /\ Len(admissions) \in Nat /\ DOMAIN admissions = 1..Len(admissions)
  BY LenProperties DEF TypeOK
<1>3. admissions' = Append(admissions, RequestedUnder(pending[r]))
  BY DEF RequestAdmission
<1>4. /\ admissions' \in Seq(Admission)
      /\ Len(admissions') = Len(admissions) + 1
      /\ \A i \in 1..Len(admissions) : admissions'[i] = admissions[i]
      /\ admissions'[Len(admissions) + 1] = RequestedUnder(pending[r])
  BY <1>1, <1>2, <1>3, AppendProperties
<1>5. DOMAIN admissions' = 1..(Len(admissions) + 1)
  BY <1>4, LenProperties
<1>6. \A i \in DOMAIN admissions' \ DOMAIN admissions : i = Len(admissions) + 1
  BY <1>2, <1>5
<1>7. /\ RequestedUnder(pending[r]).lead = pending[r].lead
      /\ RequestedUnder(pending[r]).nth = pending[r].nth
      /\ RequestedUnder(pending[r]).counselor = pending[r].user
  BY DEF RequestedUnder
<1> QED
  BY <1>1, <1>2, <1>4, <1>5, <1>6, <1>7

LEMMA ReviewType ==
    ASSUME TypeOK, NEW i, NEW decision \in Decisions, Review(i, decision)
    PROVE  /\ admissions' \in Seq(Admission)
           /\ DOMAIN admissions' = DOMAIN admissions
           /\ i \in DOMAIN admissions /\ IsPending(i)
           /\ \A j \in DOMAIN admissions :
                 /\ j # i => admissions'[j] = admissions[j]
                 /\ admissions'[j].lead = admissions[j].lead
                 /\ admissions'[j].nth = admissions[j].nth
                 /\ admissions'[j].counselor = admissions[j].counselor
           /\ admissions'[i].status = decision
<1>1. /\ admissions \in Seq(Admission)
      /\ Len(admissions) \in Nat /\ DOMAIN admissions = 1..Len(admissions)
      /\ \A j \in DOMAIN admissions : admissions[j] \in Admission
  BY LenProperties, ElementOfSeq DEF TypeOK
<1>2. /\ i \in DOMAIN admissions /\ IsPending(i)
      /\ admissions' = [admissions EXCEPT ![i] = [admissions[i] EXCEPT !.status = decision]]
  BY DEF Review, Reviewable
<1>3. [admissions[i] EXCEPT !.status = decision] \in Admission
  BY <1>1, <1>2 DEF Admission
<1>4. admissions' \in Seq(Admission)
  BY <1>1, <1>2, <1>3, ExceptSeq
<1>5. DOMAIN admissions' = DOMAIN admissions
  BY <1>2
<1>6. admissions'[i] = [admissions[i] EXCEPT !.status = decision]
  BY <1>2
<1>7. admissions'[i].status = decision
  BY <1>1, <1>2, <1>6 DEF Admission
<1>8. \A j \in DOMAIN admissions : j # i => admissions'[j] = admissions[j]
  BY <1>2
<1>9. /\ admissions'[i].lead = admissions[i].lead
      /\ admissions'[i].nth = admissions[i].nth
      /\ admissions'[i].counselor = admissions[i].counselor
  BY <1>1, <1>2, <1>6 DEF Admission
<1> QED
  BY <1>2, <1>4, <1>5, <1>7, <1>8, <1>9

LEMMA PendingType ==
    ASSUME TypeOK, [Next]_vars
    PROVE  pending' \in [Requests -> Received \cup {NoRequest}]
<1>1. ASSUME NEW r \in Requests, Answered(r) PROVE pending' \in [Requests -> Received \cup {NoRequest}]
  BY <1>1 DEF TypeOK, Answered
<1>2. ASSUME NEW r \in Requests, NEW l \in Leads, NEW u \in Callers, NEW to \in Counselors,
             AskForward(r, l, u, to)
      PROVE  pending' \in [Requests -> Received \cup {NoRequest}]
  BY <1>2 DEF TypeOK, AskForward, Receives, Received, ForwardRequest
<1>3. ASSUME NEW r \in Requests, NEW l \in Leads, NEW u \in Counselors, NEW n \in Nths,
             NEW event \in Events, AskNote(r, l, u, n, event)
      PROVE  pending' \in [Requests -> Received \cup {NoRequest}]
  BY <1>3 DEF TypeOK, AskNote, Receives, Received, NoteRequest
<1>4. ASSUME NEW r \in Requests, NEW l \in Leads, NEW u \in Counselors, NEW n \in Nths,
             AskAdmission(r, l, u, n)
      PROVE  pending' \in [Requests -> Received \cup {NoRequest}]
  BY <1>4 DEF TypeOK, AskAdmission, Receives, Received, AdmissionAsked
<1>5. CASE pending' = pending
  BY <1>5 DEF TypeOK
<1> QED
  BY <1>1, <1>2, <1>3, <1>4, <1>5, PendingStep

LEMMA LeadType ==
    ASSUME TypeOK, [Next]_vars
    PROVE  /\ assigned_caller' \in [Leads -> Callers \cup {Nobody}]
           /\ status' \in [Leads -> Statuses]
           /\ active' \subseteq People
<1>1. CASE UNCHANGED <<lead, active>>
  BY <1>1 DEF TypeOK
<1>2. ASSUME NEW l \in Leads, LeadStep(l)
      PROVE  /\ assigned_caller' \in [Leads -> Callers \cup {Nobody}]
             /\ status' \in [Leads -> Statuses]
             /\ active' = active
  BY <1>2 DEF TypeOK, LeadStep, Outcome, Admit, GiveBack, BulkAssign, ReassignCreated, AssignCaller, Statuses
<1>3. ASSUME NEW u \in Suspendable, SetActive(u)
      PROVE  /\ UNCHANGED lead
             /\ active' \subseteq People
  BY <1>3, CounselorHandoverAssumption DEF TypeOK, SetActive, CounselorHandoverAssumption
<1>4. ASSUME NEW r \in Requests, RequestStep(r) PROVE UNCHANGED <<lead, active>>
  BY <1>4 DEF RequestStep, Refuse, Forward, SaveNote, RequestAdmission, AskForward, AskNote,
     AskAdmission, Receives
<1>5. ASSUME NEW i, NEW decision, Review(i, decision) PROVE UNCHANGED <<lead, active>>
  BY <1>5 DEF Review
<1>6. CASE UNCHANGED vars
  BY <1>6, <1>1 DEF vars
<1> QED
  BY <1>1, <1>2, <1>3, <1>4, <1>5, <1>6 DEF Next, TypeOK

LEMMA TypeStep ==
    ASSUME TypeOK, [Next]_vars
    PROVE  TypeOK'
<1>1. /\ assignments' \in [Leads -> Seq(Assignment)]
      /\ \A l \in Leads : Len(assignments'[l]) <= MaxAssignments
  BY AssignmentsStep, ForwardType DEF TypeOK
<1>2. notes' \in Seq(Note)
  BY NotesStep, SaveNoteType DEF TypeOK
<1>3. admissions' \in Seq(Admission)
  BY AdmissionsStep, RequestAdmissionType, ReviewType DEF TypeOK
<1> QED
  BY <1>1, <1>2, <1>3, PendingType, LeadType DEF TypeOK

\* Every variable keeps its type, whatever the requests in flight had read.
THEOREM TypeCorrect == Spec => []TypeOK
<1>1. Init => TypeOK
  <2> SUFFICES ASSUME Init PROVE TypeOK
    OBVIOUS
  <2>1. MaxAssignments \in Nat
    BY CounselorHandoverAssumption DEF CounselorHandoverAssumption
  <2>2. /\ assignments \in [Leads -> Seq(Assignment)]
        /\ \A l \in Leads : Len(assignments[l]) <= MaxAssignments
    BY <2>1 DEF Init
  <2>3. notes \in Seq(Note) /\ admissions \in Seq(Admission)
    BY DEF Init
  <2> QED
    BY <2>2, <2>3 DEF Init, TypeOK, Statuses
<1>2. TypeOK /\ [Next]_vars => TypeOK'
  BY TypeStep
<1> QED
  BY <1>1, <1>2, PTL DEF Spec

----------------------------------------------------------------------------
(* Assignments                                                              *)

\* A lead's assignments change by a forward of its caller only, which ends those
\* there are and adds one.
LEMMA ForwardFacts ==
    ASSUME TypeOK, [Next]_vars, NEW l \in Leads, assignments'[l] # assignments[l]
    PROVE  /\ Len(assignments[l]) \in Nat /\ DOMAIN assignments[l] = 1..Len(assignments[l])
           /\ Len(assignments'[l]) = Len(assignments[l]) + 1
           /\ DOMAIN assignments'[l] = 1..(Len(assignments[l]) + 1)
           /\ \A n \in 1..Len(assignments[l]) :
                 /\ assignments'[l][n].counselor = assignments[l][n].counselor
                 /\ OneCounselorAtATime => assignments'[l][n].is_active = FALSE
           /\ \E u \in Callers, to \in Counselors :
                 /\ MayForward(u, l)
                 /\ to \in active
                 /\ assignments'[l][Len(assignments[l]) + 1] =
                       [counselor |-> to, forwarded_by |-> u, is_active |-> TRUE]
<1>1. PICK r \in Requests : Forward(r)
  BY AssignmentsStep
<1>2. /\ pending[r].lead \in Leads
      /\ pending[r].user \in Callers /\ pending[r].to \in Counselors
  BY <1>1, PendingTypes DEF Forward, ForwardRequest
<1>3. /\ assignments' # assignments
      /\ assignments' = [assignments EXCEPT ![pending[r].lead] =
                            Replaced(assignments[pending[r].lead], pending[r].user, pending[r].to)]
  BY <1>1 DEF Forward
<1>4. l = pending[r].lead
  BY <1>2, <1>3 DEF TypeOK
<1>5. PICK u \in Callers, to \in Counselors :
        /\ MayForward(u, l)
        /\ to \in active
        /\ assignments'[l] = Replaced(assignments[l], u, to)
  <2>1. MayForward(pending[r].user, l) /\ pending[r].to \in active
    BY <1>1, <1>4 DEF Forward
  <2>2. assignments'[l] = Replaced(assignments[l], pending[r].user, pending[r].to)
    BY <1>3, <1>4 DEF TypeOK
  <2> QED
    BY <1>2, <2>1, <2>2
<1>6. assignments[l] \in Seq(Assignment)
  BY DEF TypeOK
<1>7. /\ Len(assignments[l]) \in Nat /\ DOMAIN assignments[l] = 1..Len(assignments[l])
      /\ Len(Replaced(assignments[l], u, to)) = Len(assignments[l]) + 1
      /\ DOMAIN Replaced(assignments[l], u, to) = 1..(Len(assignments[l]) + 1)
      /\ \A n \in 1..Len(assignments[l]) :
            /\ Replaced(assignments[l], u, to)[n].counselor = assignments[l][n].counselor
            /\ OneCounselorAtATime => Replaced(assignments[l], u, to)[n].is_active = FALSE
      /\ Replaced(assignments[l], u, to)[Len(assignments[l]) + 1] =
            [counselor |-> to, forwarded_by |-> u, is_active |-> TRUE]
  <2>1. OneCounselorAtATime => LatestActive(assignments[l])
    <3>1. DOMAIN assignments[l] = 1..Len(assignments[l])
      BY <1>6, LenProperties
    <3> QED
      BY <3>1, Zenon DEF OneCounselorAtATime, LatestActive
  <2> QED
    BY <1>6, <2>1, ReplacedFacts
<1> QED
  BY <1>5, <1>7

\* Whatever happens, a lead that was forwarded has one counselor, and every
\* earlier assignment has ended.
THEOREM OneCounselor == Spec => []OneCounselorAtATime
<1>1. Init => OneCounselorAtATime
  BY DEF Init, OneCounselorAtATime
<1>2. TypeOK /\ OneCounselorAtATime /\ [Next]_vars => OneCounselorAtATime'
  <2> SUFFICES ASSUME TypeOK, OneCounselorAtATime, [Next]_vars, NEW l \in Leads,
                      NEW n \in DOMAIN assignments'[l]
               PROVE  assignments'[l][n].is_active <=> n = Len(assignments'[l])
    BY DEF OneCounselorAtATime
  <2>1. CASE assignments'[l] = assignments[l]
    BY <2>1 DEF OneCounselorAtATime
  <2>2. CASE assignments'[l] # assignments[l]
    <3>1. /\ Len(assignments[l]) \in Nat
          /\ Len(assignments'[l]) = Len(assignments[l]) + 1
          /\ n \in 1..(Len(assignments[l]) + 1)
      BY <2>2, ForwardFacts
    <3>2. CASE n \in 1..Len(assignments[l])
      <4>1. assignments'[l][n].is_active = FALSE
        BY <2>2, <3>2, ForwardFacts
      <4>2. n < Len(assignments[l]) + 1
        BY <3>1, <3>2
      <4>3. n # Len(assignments'[l])
        BY <3>1, <4>2
      <4> QED
        BY <4>1, <4>3
    <3>3. CASE n = Len(assignments[l]) + 1
      <4>1. PICK u \in Callers, to \in Counselors :
              assignments'[l][Len(assignments[l]) + 1] =
                 [counselor |-> to, forwarded_by |-> u, is_active |-> TRUE]
        BY <2>2, ForwardFacts
      <4>2. assignments'[l][n].is_active = TRUE
        BY <3>3, <4>1
      <4> QED
        BY <3>1, <3>3, <4>2
    <3> QED
      BY <3>1, <3>2, <3>3
  <2> QED
    BY <2>1, <2>2
<1> QED
  BY <1>1, <1>2, TypeCorrect, PTL DEF Spec

\* Whoever asked for it, a lead goes to another counselor by its caller of that
\* moment only, while it may be forwarded, and to an active account.
THEOREM ForwardedByCaller == Spec => ForwardedByItsCaller
<1>1. TypeOK /\ [Next]_vars => ForwardedStep
  <2> SUFFICES ASSUME TypeOK, [Next]_vars, NEW l \in Leads, assignments'[l] # assignments[l]
               PROVE  LET new == assignments'[l][Len(assignments'[l])] IN
                      /\ new.forwarded_by = assigned_caller[l]
                      /\ status[l] = "FORWARDABLE"
                      /\ new.counselor \in active
    BY DEF ForwardedStep
  <2>1. Len(assignments'[l]) = Len(assignments[l]) + 1
    BY ForwardFacts
  <2>2. PICK u \in Callers, to \in Counselors :
          /\ MayForward(u, l)
          /\ to \in active
          /\ assignments'[l][Len(assignments[l]) + 1] =
                [counselor |-> to, forwarded_by |-> u, is_active |-> TRUE]
    BY ForwardFacts
  <2> QED
    BY <2>1, <2>2 DEF MayForward
<1> QED
  BY <1>1, TypeCorrect, PTL DEF Spec, ForwardedByItsCaller

----------------------------------------------------------------------------
(* Notes and admission requests                                             *)

\* IsAssignmentOf(n, u, l) in the next state, for any n, u and l.
StaysAssignmentOf(n, u, l) == n \in DOMAIN assignments'[l] /\ assignments'[l][n].counselor = u

\* An assignment keeps its lead, its place and its counselor.
LEMMA AssignmentsKept ==
    ASSUME TypeOK, [Next]_vars, NEW l \in Leads, NEW u, NEW n, IsAssignmentOf(n, u, l)
    PROVE  StaysAssignmentOf(n, u, l)
<1>1. CASE assignments'[l] = assignments[l]
  BY <1>1 DEF IsAssignmentOf, StaysAssignmentOf
<1>2. CASE assignments'[l] # assignments[l]
  <2>1. /\ Len(assignments[l]) \in Nat /\ DOMAIN assignments[l] = 1..Len(assignments[l])
        /\ DOMAIN assignments'[l] = 1..(Len(assignments[l]) + 1)
        /\ \A k \in 1..Len(assignments[l]) :
              assignments'[l][k].counselor = assignments[l][k].counselor
    BY <1>2, ForwardFacts
  <2> QED
    BY <2>1 DEF IsAssignmentOf, StaysAssignmentOf
<1> QED
  BY <1>1, <1>2

\* A request that was let in goes with an assignment of its user, as does what
\* has been saved.
WorkInv ==
    /\ WorkNamesItsCounselor
    /\ \A r \in Requests :
          pending[r].op \in {"note", "admission"} =>
              IsAssignmentOf(pending[r].nth, pending[r].user, pending[r].lead)

LEMMA PendingWork ==
    ASSUME TypeOK, WorkInv, [Next]_vars, NEW r \in Requests,
           pending'[r].op \in {"note", "admission"}
    PROVE  StaysAssignmentOf(pending'[r].nth, pending'[r].user, pending'[r].lead)
<1>1. CASE pending'[r] = pending[r]
  <2>1. pending[r].lead \in Leads
    BY <1>1, PendingTypes DEF NoteRequest, AdmissionAsked
  <2> QED
    BY <1>1, <2>1, AssignmentsKept DEF WorkInv
<1>2. ASSUME NEW q \in Requests, Answered(q) PROVE pending'[r] = pending[r]
  BY <1>2 DEF Answered, NoRequest, TypeOK
<1>3. ASSUME NEW q \in Requests, NEW l \in Leads, NEW u \in Callers, NEW to \in Counselors,
             AskForward(q, l, u, to)
      PROVE  pending'[r] = pending[r]
  BY <1>3 DEF AskForward, Receives, TypeOK
<1>4. ASSUME NEW q \in Requests, NEW l \in Leads, NEW u \in Counselors, NEW n \in Nths,
             \/ \E event \in Events : AskNote(q, l, u, n, event)
             \/ AskAdmission(q, l, u, n),
             pending'[r] # pending[r]
      PROVE  StaysAssignmentOf(pending'[r].nth, pending'[r].user, pending'[r].lead)
  <2>1. /\ pending'[r].lead = l /\ pending'[r].user = u /\ pending'[r].nth = n
        /\ assignments' = assignments
    BY <1>4 DEF AskNote, AskAdmission, Receives, TypeOK
  <2>2. IsAssignmentOf(n, u, l)
    BY <1>4 DEF AskNote, AskAdmission, HasLead, ActiveAssignments, IsAssignmentOf
  <2> QED
    BY <2>1, <2>2 DEF IsAssignmentOf, StaysAssignmentOf
<1>5. CASE pending' = pending
  BY <1>5, <1>1
<1> QED
  BY <1>1, <1>2, <1>3, <1>4, <1>5, PendingStep

\* The rows of both tables are about leads.
LEMMA RowTypes ==
    ASSUME TypeOK
    PROVE  /\ \A i \in DOMAIN notes : notes[i].lead \in Leads
           /\ \A i \in DOMAIN admissions : admissions[i].lead \in Leads
<1>1. /\ notes \in Seq(Note) /\ DOMAIN notes = 1..Len(notes)
      /\ admissions \in Seq(Admission) /\ DOMAIN admissions = 1..Len(admissions)
  BY LenProperties DEF TypeOK
<1>2. \A i \in DOMAIN notes : notes[i] \in Note
  BY <1>1, ElementOfSeq
<1>3. \A i \in DOMAIN admissions : admissions[i] \in Admission
  BY <1>1, ElementOfSeq
<1> QED
  BY <1>2, <1>3 DEF Note, Admission

\* A note that is saved is appended, with what its request has read.
LEMMA SaveNoteFacts ==
    ASSUME TypeOK, NEW r \in Requests, SaveNote(r), notes' # notes
    PROVE  /\ Inserts(pending[r].user, pending[r].event)
           /\ Len(notes) \in Nat /\ DOMAIN notes = 1..Len(notes)
           /\ DOMAIN notes' = 1..(Len(notes) + 1)
           /\ \A i \in DOMAIN notes : notes'[i] = notes[i]
           /\ \A i \in DOMAIN notes' \ DOMAIN notes :
                 /\ i = Len(notes) + 1
                 /\ notes'[i].lead = pending[r].lead
                 /\ notes'[i].nth = pending[r].nth
                 /\ notes'[i].counselor = pending[r].user
                 /\ notes'[i].event = pending[r].event
<1> DEFINE new == [lead |-> pending[r].lead, nth |-> pending[r].nth,
                   counselor |-> pending[r].user, event |-> pending[r].event]
<1>1. new \in Note
  BY PendingTypes DEF SaveNote, NoteRequest, Note
<1>2. notes \in Seq(Note) /\ Len(notes) \in Nat /\ DOMAIN notes = 1..Len(notes)
  BY LenProperties DEF TypeOK
<1>3. notes' = Append(notes, new) /\ Inserts(pending[r].user, pending[r].event)
  BY DEF SaveNote
<1> HIDE DEF new
<1>4. /\ notes' \in Seq(Note)
      /\ Len(notes') = Len(notes) + 1
      /\ \A i \in 1..Len(notes) : notes'[i] = notes[i]
      /\ notes'[Len(notes) + 1] = new
  <2>1. notes \in Seq(Note)
    BY <1>2
  <2> QED
    BY <1>1, <1>3, <2>1, AppendProperties
<1>5. DOMAIN notes' = 1..(Len(notes) + 1)
  BY <1>4, LenProperties
<1>6. \A i \in DOMAIN notes' \ DOMAIN notes : i = Len(notes) + 1
  BY <1>2, <1>5
<1>7. /\ new.lead = pending[r].lead /\ new.nth = pending[r].nth
      /\ new.counselor = pending[r].user /\ new.event = pending[r].event
  BY DEF new
<1> QED
  BY <1>2, <1>3, <1>4, <1>5, <1>6, <1>7

LEMMA WorkStep ==
    ASSUME TypeOK, WorkInv, [Next]_vars
    PROVE  WorkInv'
<1>1. ASSUME NEW i \in DOMAIN notes'
      PROVE  StaysAssignmentOf(notes'[i].nth, notes'[i].counselor, notes'[i].lead)
  <2>1. ASSUME i \in DOMAIN notes, notes'[i] = notes[i]
        PROVE  StaysAssignmentOf(notes'[i].nth, notes'[i].counselor, notes'[i].lead)
    <3>1. notes[i].lead \in Leads
      BY <2>1, RowTypes
    <3> QED
      BY <2>1, <3>1, AssignmentsKept DEF WorkInv, WorkNamesItsCounselor
  <2>2. CASE notes' = notes
    BY <2>1, <2>2
  <2>3. ASSUME NEW r \in Requests, SaveNote(r), notes' # notes
        PROVE  StaysAssignmentOf(notes'[i].nth, notes'[i].counselor, notes'[i].lead)
    <3>1. CASE i \in DOMAIN notes
      BY <2>1, <2>3, <3>1, SaveNoteFacts
    <3>2. CASE i \notin DOMAIN notes
      <4>1. /\ notes'[i].lead = pending[r].lead
            /\ notes'[i].nth = pending[r].nth
            /\ notes'[i].counselor = pending[r].user
        BY <2>3, <3>2, SaveNoteFacts
      <4>2. /\ IsAssignmentOf(pending[r].nth, pending[r].user, pending[r].lead)
            /\ pending[r].lead \in Leads
        BY <2>3, PendingTypes DEF SaveNote, WorkInv, NoteRequest
      <4> QED
        BY <4>1, <4>2, AssignmentsKept
    <3> QED
      BY <3>1, <3>2
  <2> QED
    BY <2>2, <2>3, NotesStep
<1>2. ASSUME NEW i \in DOMAIN admissions'
      PROVE  StaysAssignmentOf(admissions'[i].nth, admissions'[i].counselor, admissions'[i].lead)
  <2>1. ASSUME i \in DOMAIN admissions,
               admissions'[i].lead = admissions[i].lead,
               admissions'[i].nth = admissions[i].nth,
               admissions'[i].counselor = admissions[i].counselor
        PROVE  StaysAssignmentOf(admissions'[i].nth, admissions'[i].counselor, admissions'[i].lead)
    <3>1. admissions[i].lead \in Leads
      BY <2>1, RowTypes
    <3> QED
      BY <2>1, <3>1, AssignmentsKept DEF WorkInv, WorkNamesItsCounselor
  <2>2. CASE admissions' = admissions
    BY <2>1, <2>2
  <2>3. ASSUME NEW r \in Requests, RequestAdmission(r)
        PROVE  StaysAssignmentOf(admissions'[i].nth, admissions'[i].counselor, admissions'[i].lead)
    <3>1. CASE i \in DOMAIN admissions
      BY <2>1, <2>3, <3>1, RequestAdmissionType
    <3>2. CASE i \notin DOMAIN admissions
      <4>1. /\ admissions'[i].lead = pending[r].lead
            /\ admissions'[i].nth = pending[r].nth
            /\ admissions'[i].counselor = pending[r].user
        BY <2>3, <3>2, RequestAdmissionType
      <4>2. /\ IsAssignmentOf(pending[r].nth, pending[r].user, pending[r].lead)
            /\ pending[r].lead \in Leads
        BY <2>3, PendingTypes DEF RequestAdmission, WorkInv, AdmissionAsked
      <4> QED
        BY <4>1, <4>2, AssignmentsKept
    <3> QED
      BY <3>1, <3>2
  <2>4. ASSUME NEW j \in 1..MaxAdmissions, NEW decision \in Decisions, Review(j, decision)
        PROVE  StaysAssignmentOf(admissions'[i].nth, admissions'[i].counselor, admissions'[i].lead)
    BY <2>1, <2>4, ReviewType
  <2> QED
    BY <2>2, <2>3, <2>4, AdmissionsStep
<1> QED
  BY <1>1, <1>2, PendingWork DEF WorkInv, WorkNamesItsCounselor, IsAssignmentOf, StaysAssignmentOf

\* However the lead moved while they were in flight, notes and admission requests
\* are filed under an assignment of their author on their lead.
THEOREM WorkNamesCounselor == Spec => []WorkNamesItsCounselor
<1>1. Init => WorkInv
  BY DEF Init, WorkInv, WorkNamesItsCounselor, NoRequest
<1>2. TypeOK /\ WorkInv /\ [Next]_vars => WorkInv'
  BY WorkStep
<1>3. WorkInv => WorkNamesItsCounselor
  BY DEF WorkInv
<1> QED
  BY <1>1, <1>2, <1>3, TypeCorrect, PTL DEF Spec

\* A note that is sent twice, also at the same time, is saved once.
THEOREM NoteOnce == Spec => []NoteSavedOnce
<1>1. Init => NoteSavedOnce
  BY DEF Init, NoteSavedOnce
<1>2. TypeOK /\ NoteSavedOnce /\ [Next]_vars => NoteSavedOnce'
  <2> SUFFICES ASSUME TypeOK, NoteSavedOnce, [Next]_vars, notes' # notes,
                      NEW i \in DOMAIN notes', NEW j \in DOMAIN notes',
                      notes'[i].counselor = notes'[j].counselor,
                      notes'[i].event = notes'[j].event, notes'[i].event # NoEvent
               PROVE  i = j
    BY DEF NoteSavedOnce
  <2>1. PICK r \in Requests : SaveNote(r)
    BY NotesStep
  <2>2. \A k \in DOMAIN notes :
          notes[k].event # NoEvent =>
              ~(notes[k].counselor = pending[r].user /\ notes[k].event = pending[r].event)
    BY <2>1, SaveNoteFacts DEF Inserts, Saved
  <2>3. \A k \in DOMAIN notes' \ DOMAIN notes :
          /\ k = Len(notes) + 1
          /\ notes'[k].counselor = pending[r].user
          /\ notes'[k].event = pending[r].event
    BY <2>1, SaveNoteFacts
  <2>4. \A k \in DOMAIN notes : notes'[k] = notes[k]
    BY <2>1, SaveNoteFacts
  <2> QED
    BY <2>2, <2>3, <2>4 DEF NoteSavedOnce
<1> QED
  BY <1>1, <1>2, TypeCorrect, PTL DEF Spec

----------------------------------------------------------------------------
(* Review                                                                   *)

\* Two counselors of one lead, one after the other, never have two requests
\* waiting on it.
THEOREM OnePending == Spec => []OnePendingRequest
<1>1. Init => OnePendingRequest
  BY DEF Init, OnePendingRequest
<1>2. TypeOK /\ OnePendingRequest /\ [Next]_vars => OnePendingRequest'
  <2> SUFFICES ASSUME TypeOK, OnePendingRequest, [Next]_vars,
                      NEW i \in DOMAIN admissions', NEW j \in DOMAIN admissions',
                      admissions'[i].status = "PENDING", admissions'[j].status = "PENDING",
                      admissions'[i].lead = admissions'[j].lead
               PROVE  i = j
    BY DEF OnePendingRequest, IsPending
  <2>1. CASE admissions' = admissions
    BY <2>1 DEF OnePendingRequest, IsPending
  <2>2. ASSUME NEW r \in Requests, RequestAdmission(r) PROVE i = j
    <3>1. \A k \in DOMAIN admissions :
            admissions[k].lead = pending[r].lead => admissions[k].status # "PENDING"
      BY <2>2 DEF RequestAdmission, MayRequest, IsPending
    <3>2. \A k \in DOMAIN admissions' \ DOMAIN admissions :
            k = Len(admissions) + 1 /\ admissions'[k].lead = pending[r].lead
      BY <2>2, RequestAdmissionType
    <3>3. \A k \in DOMAIN admissions : admissions'[k] = admissions[k]
      BY <2>2, RequestAdmissionType
    <3> QED
      BY <3>1, <3>2, <3>3 DEF OnePendingRequest, IsPending
  <2>3. ASSUME NEW k \in 1..MaxAdmissions, NEW decision \in Decisions, Review(k, decision)
        PROVE  i = j
    <3>1. decision # "PENDING"
      BY DEF Decisions
    <3>2. i # k /\ j # k
      BY <2>3, <3>1, ReviewType
    <3> QED
      BY <2>3, <3>2, ReviewType DEF OnePendingRequest, IsPending
  <2> QED
    BY <2>1, <2>2, <2>3, AdmissionsStep
<1> QED
  BY <1>1, <1>2, TypeCorrect, PTL DEF Spec

\* No second review, and nothing else, changes a reviewed request.
THEOREM ReviewFinal == Spec => ReviewIsFinal
<1>1. TypeOK /\ [Next]_vars => ReviewStep
  <2> SUFFICES ASSUME TypeOK, [Next]_vars, NEW i \in DOMAIN admissions
               PROVE  /\ i \in DOMAIN admissions'
                      /\ ~IsPending(i) => admissions'[i] = admissions[i]
    BY DEF ReviewStep
  <2>1. CASE admissions' = admissions
    BY <2>1
  <2>2. ASSUME NEW r \in Requests, RequestAdmission(r)
        PROVE  i \in DOMAIN admissions' /\ admissions'[i] = admissions[i]
    BY <2>2, RequestAdmissionType
  <2>3. ASSUME NEW k \in 1..MaxAdmissions, NEW decision \in Decisions, Review(k, decision)
        PROVE  /\ i \in DOMAIN admissions'
               /\ ~IsPending(i) => admissions'[i] = admissions[i]
    BY <2>3, ReviewType
  <2> QED
    BY <2>1, <2>2, <2>3, AdmissionsStep
<1> QED
  BY <1>1, TypeCorrect, PTL DEF Spec, ReviewIsFinal

\* Once a lead has been admitted, no request in flight asks for its admission.
THEOREM AdmittedNotAskedFor == Spec => AdmittedLeadIsNotAskedFor
<1>1. TypeOK /\ [Next]_vars => NewAdmissionStep
  <2> SUFFICES ASSUME TypeOK, [Next]_vars, NEW i \in DOMAIN admissions' \ DOMAIN admissions
               PROVE  status[admissions'[i].lead] # "ADMISSION_DONE"
    BY DEF NewAdmissionStep
  <2>1. PICK r \in Requests : RequestAdmission(r)
    BY AdmissionsStep, ReviewType
  <2>2. admissions'[i].lead = pending[r].lead
    BY <2>1, RequestAdmissionType
  <2> QED
    BY <2>1, <2>2 DEF RequestAdmission, MayRequest
<1> QED
  BY <1>1, TypeCorrect, PTL DEF Spec, AdmittedLeadIsNotAskedFor

=============================================================================
