---------------------------- MODULE LeadIntakeProofs ----------------------------
(***************************************************************************)
(* Theorems about LeadIntake for any threads, users, forms and requests.   *)
(*                                                                         *)
(* A thread that has looked its number up holds all the locks it wants     *)
(* until it commits.  Whatever it promised itself then (Promise: no lead   *)
(* clashes with the one it will save) another thread could only break by   *)
(* saving a clashing lead, and for that both would hold one lock.          *)
(***************************************************************************)
EXTENDS LeadIntake, SequenceTheorems, WellFoundedInduction, TLAPS

Single == {"WEBSITE", "CALL"} \cup Enquiries

LEMMA SameInterval ==
    ASSUME NEW m \in Nat, NEW n \in Nat, 1..m = 1..n
    PROVE  m = n
<1>1. \A i \in Int : i \in 1..m <=> i \in 1..n
  OBVIOUS
<1>2. m > 0 => m \in 1..n
  BY <1>1
<1>3. n > 0 => n \in 1..m
  BY <1>1
<1> QED
  BY <1>2, <1>3

LEMMA Mapped ==
    ASSUME NEW S, NEW T, NEW s \in Seq(S), NEW t \in [DOMAIN s -> T]
    PROVE  t \in Seq(T) /\ DOMAIN t = DOMAIN s /\ Len(t) = Len(s)
<1>1. Len(s) \in Nat /\ DOMAIN s = 1..Len(s)
  BY LenProperties
<1>2. t \in [1..Len(s) -> T]
  BY <1>1
<1>3. t \in Seq(T)
  BY <1>1, <1>2, SeqDef, Zenon
<1>4. Len(t) \in Nat /\ DOMAIN t = 1..Len(t)
  BY <1>3, LenProperties
<1>5. 1..Len(t) = 1..Len(s)
  BY <1>2, <1>4
<1> QED
  BY <1>1, <1>3, <1>4, <1>5, SameInterval

\* The last of a set of numbers that has a bound.
LEMMA HasLast ==
    ASSUME NEW K, K \subseteq Int, K # {}, NEW h \in Int, \A k \in K : k <= h
    PROVE  \E k \in K : \A m \in K : m <= k
<1> DEFINE T == {h - k : k \in K}
<1>1. T \subseteq Nat /\ T # {}
  <2>1. ASSUME NEW k \in K PROVE h - k \in Nat
    OBVIOUS
  <2>2. PICK k \in K : TRUE
    OBVIOUS
  <2>3. h - k \in T
    OBVIOUS
  <2> QED
    BY <2>1, <2>3
<1>2. PICK x \in T : \A y \in T : ~(<<y, x>> \in OpToRel(<, Nat))
  BY <1>1, NatLessThanWellFounded, WFMin, Zenon
<1>3. \A y \in T : ~(y < x)
  <2> HIDE DEF T
  <2> QED
    BY <1>1, <1>2 DEF OpToRel
<1>4. PICK k \in K : x = h - k
  BY <1>2
<1>5. ASSUME NEW m \in K PROVE m <= k
  <2>1. h - m \in T
    OBVIOUS
  <2>2. ~(h - m < h - k) /\ m \in Int /\ k \in Int
    BY <1>3, <1>4, <2>1
  <2> QED
    BY <2>2
<1> QED
  BY <1>5

----------------------------------------------------------------------------
(* Jobs and locks                                                           *)

LEMMA JobParts ==
    ASSUME NEW j \in Jobs
    PROVE  /\ j.kind \in Kinds /\ j.forms \in Seq(Forms) /\ j.event \in Events \cup {NoEvent}
           /\ j.apostille \in BOOLEAN
           /\ j.kind \in Enquiries <=> j.event # NoEvent
           /\ j # Idle
           /\ j.kind \in Single => j.forms[1] \in Forms /\ j.forms = <<j.forms[1]>>
           /\ j.kind \in Calls => j.user \in Users /\ ~j.apostille
           /\ j.kind \in Enquiries => j.user \in Users
           /\ j.kind = "WEBSITE" => j.user = NoUser
<1>1. j \in Job
  BY LeadIntakeAssumption
<1>2. /\ j.kind \in Kinds /\ j.forms \in Seq(Forms) /\ j.event \in Events \cup {NoEvent}
      /\ j.user \in Users \cup {NoUser} /\ j.apostille \in BOOLEAN
  BY <1>1 DEF Job
<1>3. ASSUME j.kind \in Single PROVE j.forms[1] \in Forms /\ j.forms = <<j.forms[1]>>
  <2>1. Len(j.forms) = 1
    BY <1>3, LeadIntakeAssumption DEF Single, Calls
  <2> QED
    BY <1>2, <2>1, ElementOfSeq
<1> QED
  BY <1>1, <1>2, <1>3, LeadIntakeAssumption

LEMMA KeysAreNumbers ==
    /\ Keys \subseteq Int /\ ServiceRow \in Keys
    /\ \A u \in Users : u \in Keys /\ u < ServiceRow
    /\ \A f \in Forms : f \in Keys /\ ServiceRow < f
BY LeadIntakeAssumption DEF Keys, ServiceRow

LEMMA WantsKeys ==
    ASSUME NEW j \in Jobs
    PROVE  /\ Wants(j) \subseteq Keys
           /\ j.kind \in Single => j.forms[1] \in Wants(j)
           /\ j.kind \in Calls => j.user \in Wants(j)
           /\ ServiceRow \in Wants(j) <=> j.kind \in Enquiries
           /\ j.kind = "CALL" => Variants[j.forms[1]] \subseteq Wants(j)
           /\ j.kind = "DESK" => Wants(j) = {j.user}
           /\ Wants(j) # {} => j.kind \in {"WEBSITE"} \cup Calls \cup Enquiries
           /\ \A u \in Users : u \in Wants(j) => j.kind \in Calls /\ j.user = u
<1> USE DEF Wants, Single, Calls, Enquiries
<1>1. j.kind \in Single => j.forms[1] \in Forms
  BY JobParts
<1>2. j.kind = "CALL" => Variants[j.forms[1]] \subseteq Forms /\ j.forms[1] \in Variants[j.forms[1]]
  BY <1>1, LeadIntakeAssumption
<1>3. j.kind \in {"CALL", "DESK"} => j.user \in Users
  BY JobParts
<1>4. Wants(j) \subseteq Keys
  BY <1>1, <1>2, <1>3 DEF Keys
<1>5. j.kind \in Single => j.forms[1] \in Wants(j)
  BY <1>2
<1>6. ServiceRow \in Wants(j) <=> j.kind \in Enquiries
  BY <1>1, <1>2, <1>3, KeysAreNumbers
<1>7. \A u \in Users : u \in Wants(j) => j.kind \in Calls /\ j.user = u
  BY <1>1, <1>2, <1>3, KeysAreNumbers
<1> QED
  BY <1>4, <1>5, <1>6, <1>7

----------------------------------------------------------------------------
(* Which leads may stand beside each other                                  *)

\* A lead made in one way may be followed by one made in another.
Apart(b1, f1, b2, f2) ==
    b1 \in Locking /\ b2 \in Locking =>
        /\ f1 # f2
        /\ b2 = "CALL" => f1 \notin Variants[f2]
        /\ b1 = "CALL" /\ b2 # "CALL" /\ f2 \in Variants[f1] => f1 \notin Found[f2]

LEMMA UniqueIsApart ==
    LockedNumbersAreUnique <=>
        \A i, k \in DOMAIN leads :
            i < k => Apart(leads[i].by, leads[i].form, leads[k].by, leads[k].form)
BY DEF LockedNumbersAreUnique, Apart

\* Requests that want no common lock make leads that may stand beside each other.
LEMMA DisjointApart ==
    ASSUME NEW j \in Jobs, NEW k \in Jobs, j.kind \in Single, k.kind \in Single,
           Wants(j) \cap Wants(k) = {}
    PROVE  Apart(j.kind, j.forms[1], k.kind, k.forms[1])
<1>1. j.forms[1] \in Wants(j) /\ k.forms[1] \in Wants(k)
  BY WantsKeys
<1>2. j.kind = "CALL" => k.forms[1] \notin Variants[j.forms[1]]
  BY <1>1, WantsKeys
<1>3. k.kind = "CALL" => j.forms[1] \notin Variants[k.forms[1]]
  BY <1>1, WantsKeys
<1> QED
  BY <1>1, <1>2, <1>3 DEF Apart

\* Leads that are made without a lock are no concern of this property.
LEMMA UnlockedApart ==
    ASSUME NEW b1, NEW f1, NEW b2, NEW f2, b1 \notin Locking \/ b2 \notin Locking
    PROVE  Apart(b1, f1, b2, f2)
BY DEF Apart

----------------------------------------------------------------------------
(* Types                                                                    *)

LEMMA LeadRows ==
    ASSUME TypeOK
    PROVE  /\ leads \in Seq(Lead) /\ leads \in [DOMAIN leads -> Lead]
           /\ Len(leads) \in Nat /\ DOMAIN leads = 1..Len(leads)
           /\ \A i \in DOMAIN leads : leads[i] \in Lead /\ leads[i].form \in Forms
<1>1. leads \in Seq(Lead)
  BY DEF TypeOK
<1>2. Len(leads) \in Nat /\ DOMAIN leads = 1..Len(leads) /\ leads \in [1..Len(leads) -> Lead]
  BY <1>1, LenProperties
<1> QED
  BY <1>1, <1>2 DEF Lead

LEMMA MadeRows ==
    ASSUME TypeOK, NEW w \in Workers
    PROVE  /\ made[w] \in Seq(Forms) /\ left[w] \in Seq(Forms)
           /\ DOMAIN made[w] = 1..Len(made[w]) /\ Len(made[w]) \in Nat
           /\ \A n \in DOMAIN made[w] : made[w][n] \in Forms
           /\ made[w] # <<>> => 1 \in DOMAIN made[w]
<1>1. made[w] \in Seq(Forms) /\ left[w] \in Seq(Forms)
  BY DEF TypeOK
<1>2. DOMAIN made[w] = 1..Len(made[w]) /\ Len(made[w]) \in Nat
  BY <1>1, LenProperties
<1>3. \A n \in DOMAIN made[w] : made[w][n] \in Forms
  BY <1>1, <1>2, ElementOfSeq
<1>4. made[w] # <<>> => Len(made[w]) # 0
  BY <1>1, EmptySeq
<1> QED
  BY <1>1, <1>2, <1>3, <1>4

LEMMA NewLeadType ==
    ASSUME NEW j \in Jobs, NEW f \in Forms
    PROVE  NewLead(j, f) \in Lead
BY JobParts DEF NewLead, Lead

\* What a request that is done adds to the leads.
LEMMA CreateRows ==
    ASSUME TypeOK, NEW w \in Workers, Create(w)
    PROVE  /\ job[w] \in Jobs
           /\ leads' \in Seq(Lead) /\ DOMAIN leads \subseteq DOMAIN leads'
           /\ \A i \in DOMAIN leads : leads'[i] = leads[i]
           /\ \A i \in DOMAIN leads' \ DOMAIN leads :
                 /\ \A k \in DOMAIN leads : ~(i < k)
                 /\ \E n \in DOMAIN made[w] : leads'[i] = NewLead(job[w], made[w][n])
           /\ (\A n \in DOMAIN made[w] : n = 1)
                 => \A i, k \in DOMAIN leads' \ DOMAIN leads : i = k
<1> DEFINE new == [n \in DOMAIN made[w] |-> NewLead(job[w], made[w][n])]
<1>1. job[w] \in Jobs
  BY DEF TypeOK, Create, MayCommit, Done
<1>2. new \in [DOMAIN made[w] -> Lead]
  BY <1>1, MadeRows, NewLeadType
<1>3. leads' = leads \o new /\ \A n \in DOMAIN made[w] : new[n] = NewLead(job[w], made[w][n])
  BY DEF Create
<1> HIDE DEF new
<1>4. new \in Seq(Lead) /\ DOMAIN new = DOMAIN made[w] /\ Len(new) = Len(made[w])
  BY <1>2, MadeRows, Mapped
<1>5. /\ leads' \in Seq(Lead) /\ Len(leads') = Len(leads) + Len(new)
      /\ \A i \in 1..(Len(leads) + Len(new)) :
            leads'[i] = IF i <= Len(leads) THEN leads[i] ELSE new[i - Len(leads)]
  BY <1>3, <1>4, LeadRows, ConcatProperties
<1>6. DOMAIN leads' = 1..(Len(leads) + Len(new)) /\ Len(new) \in Nat /\ DOMAIN new = 1..Len(new)
  BY <1>4, <1>5, LenProperties
<1>7. DOMAIN leads \subseteq DOMAIN leads' /\ \A i \in DOMAIN leads : leads'[i] = leads[i]
  BY <1>5, <1>6, LeadRows
<1>8. \A i \in DOMAIN leads' \ DOMAIN leads :
        /\ i - Len(leads) \in DOMAIN made[w] /\ leads'[i] = new[i - Len(leads)] /\ i \in Int
        /\ \A k \in DOMAIN leads : ~(i < k)
  BY <1>4, <1>5, <1>6, LeadRows
<1>9. \A i \in DOMAIN leads' \ DOMAIN leads :
        \E n \in DOMAIN made[w] : leads'[i] = NewLead(job[w], made[w][n])
  BY <1>3, <1>8
<1>10. ASSUME \A n \in DOMAIN made[w] : n = 1, NEW i \in DOMAIN leads' \ DOMAIN leads,
              NEW k \in DOMAIN leads' \ DOMAIN leads
       PROVE  i = k
  <2>1. i - Len(leads) = 1 /\ k - Len(leads) = 1 /\ i \in Int /\ k \in Int /\ Len(leads) \in Int
    BY <1>8, <1>10, LeadRows
  <2> QED
    BY <2>1
<1> QED
  BY <1>1, <1>5, <1>7, <1>8, <1>9, <1>10

LEMMA EditRows ==
    ASSUME TypeOK, NEW w \in Workers, SaveEdit(w)
    PROVE  /\ job[w] \in Jobs /\ job[w].kind = "EDIT" /\ made[w][1] \in Forms
           /\ leads' \in Seq(Lead) /\ DOMAIN leads' = DOMAIN leads
           /\ \A i \in DOMAIN leads \ {edit[w].lead} : leads'[i] = leads[i]
           /\ edit[w].lead \in DOMAIN leads =>
                 /\ leads'[edit[w].lead] = Edited(leads[edit[w].lead], w)
                 /\ leads'[edit[w].lead].form = made[w][1]
                 /\ leads'[edit[w].lead].by = "EDIT"
                 /\ leads'[edit[w].lead].event =
                      IF leads[edit[w].lead].event = NoEvent THEN job[w].event
                      ELSE leads[edit[w].lead].event
                 /\ leads'[edit[w].lead].revision = edit[w].revision + 1
                 /\ leads'[edit[w].lead].saves = leads[edit[w].lead].saves + 1
<1> DEFINE e == edit[w].lead
<1>1. job[w] \in Jobs /\ job[w].kind = "EDIT" /\ made[w] # <<>>
  BY DEF TypeOK, SaveEdit, MayCommit, Done
<1>2. made[w][1] \in Forms /\ job[w].event \in Events \cup {NoEvent}
  BY <1>1, MadeRows, JobParts
<1>3. edit[w].revision + 1 \in Nat
  BY DEF TypeOK
<1>4. leads' = [leads EXCEPT ![e] = Edited(leads[e], w)]
  BY DEF SaveEdit
<1>5. ASSUME NEW l \in Lead
      PROVE  /\ Edited(l, w) \in Lead
             /\ Edited(l, w).form = made[w][1] /\ Edited(l, w).by = "EDIT"
             /\ Edited(l, w).event = IF l.event = NoEvent THEN job[w].event ELSE l.event
             /\ Edited(l, w).revision = edit[w].revision + 1
             /\ Edited(l, w).saves = l.saves + 1
  <2> DEFINE ev == IF l.event = NoEvent THEN job[w].event ELSE l.event
  <2>1. ev \in Events \cup {NoEvent} /\ l.saves + 1 \in Nat /\ "EDIT" \in Kinds
    BY <1>2 DEF Lead, Kinds, Enquiries
  <2>2. Edited(l, w) = [l EXCEPT !.form = made[w][1], !.by = "EDIT", !.event = ev,
                                 !.revision = edit[w].revision + 1, !.saves = l.saves + 1]
    BY DEF Edited, Lead
  <2> HIDE DEF ev
  <2>3. Edited(l, w) \in Lead
    BY <1>2, <1>3, <2>1, <2>2 DEF Lead
  <2>4. /\ Edited(l, w).form = made[w][1] /\ Edited(l, w).by = "EDIT" /\ Edited(l, w).event = ev
        /\ Edited(l, w).revision = edit[w].revision + 1 /\ Edited(l, w).saves = l.saves + 1
    BY <2>2 DEF Lead
  <2> QED
    BY <2>3, <2>4 DEF ev
<1> HIDE DEF e
<1>6. leads' \in [DOMAIN leads -> Lead]
  <2>1. CASE e \in DOMAIN leads
    BY <1>4, <1>5, <2>1, LeadRows
  <2>2. CASE e \notin DOMAIN leads
    BY <1>4, <2>2, LeadRows
  <2> QED
    BY <2>1, <2>2
<1>7. leads' \in Seq(Lead) /\ DOMAIN leads' = DOMAIN leads
  BY <1>6, LeadRows, Mapped
<1>8. \A i \in DOMAIN leads \ {e} : leads'[i] = leads[i]
  BY <1>4, LeadRows
<1>9. e \in DOMAIN leads => leads'[e] = Edited(leads[e], w) /\ leads[e] \in Lead
  BY <1>4, LeadRows
<1> QED
  BY <1>1, <1>2, <1>5, <1>7, <1>8, <1>9 DEF e

LEMMA RewriteRows ==
    ASSUME TypeOK, NEW i \in DOMAIN leads, NEW f \in Forms, Rewrite(i, f)
    PROVE  /\ leads' \in Seq(Lead) /\ DOMAIN leads' = DOMAIN leads
           /\ leads'[i].by = "REWRITE"
           /\ \A k \in DOMAIN leads \ {i} : leads'[k] = leads[k]
           /\ \A k \in DOMAIN leads : /\ leads'[k].event = leads[k].event
                                      /\ leads'[k].revision = leads[k].revision
                                      /\ leads'[k].saves = leads[k].saves
                                      /\ leads'[k].apostille = leads[k].apostille
<1>1. leads' = [leads EXCEPT ![i] = [leads[i] EXCEPT !.form = f, !.by = "REWRITE"]]
  BY LeadRows DEF Rewrite, Lead
<1>2. [leads[i] EXCEPT !.form = f, !.by = "REWRITE"] \in Lead
  BY LeadRows DEF Lead
<1>3. leads' \in [DOMAIN leads -> Lead]
  BY <1>1, <1>2, LeadRows
<1>4. leads' \in Seq(Lead) /\ DOMAIN leads' = DOMAIN leads
  BY <1>3, LeadRows, Mapped
<1> QED
  BY <1>1, <1>4, LeadRows DEF Lead

LEMMA LeaveTyped ==
    ASSUME TypeOK, NEW w \in Workers, Leave(w), leads' \in Seq(Lead)
    PROVE  TypeOK'
<1>1. <<>> \in Seq(Forms)
  BY EmptySeq
<1> QED
  BY <1>1 DEF TypeOK, Leave, NoEdit

LEMMA ServeTyped ==
    ASSUME TypeOK, NEW w \in Workers, NEW j \in Jobs, NEW e \in [lead: Nat, revision: Nat],
           Serve(w, j, e)
    PROVE  TypeOK'
<1>1. <<>> \in Seq(Forms) /\ j.forms \in Seq(Forms) /\ j # Idle
  BY EmptySeq, JobParts
<1>2. begun' \in 0..MaxRequests
  BY LeadIntakeAssumption DEF Serve, TypeOK
<1>3. left' \in [Workers -> Seq(Forms)] /\ made' \in [Workers -> Seq(Forms)]
  BY <1>1 DEF Serve, TypeOK
<1>4. /\ job' \in [Workers -> Jobs \cup {Idle}] /\ edit' \in [Workers -> [lead: Nat, revision: Nat]]
      /\ held' \in [Workers -> SUBSET Keys] /\ leads' \in Seq(Lead)
  BY DEF Serve, TypeOK
<1>5. \A v \in Workers : job'[v] = Idle => held'[v] = {}
  BY <1>1 DEF Serve, TypeOK
<1> QED
  BY <1>2, <1>3, <1>4, <1>5 DEF TypeOK

LEMMA TypeStep ==
    ASSUME TypeOK, [Next]_vars
    PROVE  TypeOK'
<1> SUFFICES ASSUME Next PROVE TypeOK'
  BY DEF vars, thread, TypeOK
<1>8. ASSUME NEW i \in DOMAIN leads, NEW f \in Forms, Rewrite(i, f) PROVE TypeOK'
  <2>1. leads' \in Seq(Lead)
    BY <1>8, RewriteRows
  <2>2. begun' \in 0..MaxRequests
    BY <1>8, LeadIntakeAssumption DEF Rewrite, TypeOK
  <2> QED
    BY <1>8, <2>1, <2>2 DEF Rewrite, thread, TypeOK
<1> SUFFICES ASSUME NEW w \in Workers, Step(w) PROVE TypeOK'
  BY <1>8 DEF Next
<1>1. ASSUME NEW j \in Jobs, Begin(w, j) PROVE TypeOK'
  <2>1. NoEdit \in [lead: Nat, revision: Nat]
    BY DEF NoEdit
  <2> QED
    BY <1>1, <2>1, ServeTyped DEF Begin
<1>2. ASSUME NEW j \in Jobs, NEW i \in DOMAIN leads, NEW r \in 0..MaxRequests, BeginEdit(w, j, i, r)
      PROVE  TypeOK'
  <2>1. [lead |-> i, revision |-> r] \in [lead: Nat, revision: Nat]
    BY LeadRows, LeadIntakeAssumption
  <2> QED
    BY <1>2, <2>1, ServeTyped DEF BeginEdit
<1>3. ASSUME NEW k \in Keys, Lock(w, k) PROVE TypeOK'
  <2>1. held' \in [Workers -> SUBSET Keys]
    BY <1>3 DEF Lock, TypeOK
  <2>2. \A v \in Workers : job'[v] = Idle => held'[v] = {}
    BY <1>3 DEF Lock, TypeOK
  <2> QED
    BY <1>3, <2>1, <2>2 DEF Lock, TypeOK
<1>4. CASE Look(w)
  <2>1. left[w] \in Seq(Forms) /\ left[w] # <<>> /\ made[w] \in Seq(Forms)
    BY <1>4, MadeRows DEF Look
  <2>2. Head(left[w]) \in Forms /\ Tail(left[w]) \in Seq(Forms)
    BY <2>1, HeadTailProperties
  <2>3. Append(made[w], Head(left[w])) \in Seq(Forms)
    BY <2>1, <2>2, AppendProperties
  <2>4. left' \in [Workers -> Seq(Forms)]
    BY <1>4, <2>2 DEF Look, TypeOK
  <2>5. made' \in [Workers -> Seq(Forms)]
    BY <1>4, <2>3 DEF Look, TypeOK
  <2> QED
    BY <1>4, <2>4, <2>5 DEF Look, TypeOK
<1>5. CASE Create(w)
  BY <1>5, CreateRows, LeaveTyped DEF Create
<1>6. CASE SaveEdit(w)
  BY <1>6, EditRows, LeaveTyped DEF SaveEdit
<1>7. CASE Crash(w)
  BY <1>7, LeadRows, LeaveTyped DEF Crash
<1> QED
  BY <1>1, <1>2, <1>3, <1>4, <1>5, <1>6, <1>7 DEF Step

LEMMA TypeInit ==
    ASSUME Init
    PROVE  TypeOK
<1>1. <<>> \in Seq(Forms) /\ leads \in Seq(Lead)
  BY EmptySeq DEF Init
<1> QED
  BY <1>1, LeadIntakeAssumption DEF Init, TypeOK, NoEdit

\* The variables keep their types, and a thread that serves no request holds no lock.
THEOREM TypeCorrect == Spec => []TypeOK
<1> QED
  BY TypeInit, TypeStep, PTL DEF Spec

----------------------------------------------------------------------------
(* Threads: their locks, and how far they are                               *)

\* A lock has one holder.
Mutex == \A v, w \in Workers : v # w => held[v] \cap held[w] = {}

\* The locks a request holds are the first of those it wants.
Ordered(w) ==
    /\ held[w] \subseteq Wants(job[w])
    /\ \A k \in held[w], m \in Wants(job[w]) : m < k => m \in held[w]

\* A request with one phone has yet to look it up, or holds its locks.
Phase(w) ==
    \/ left[w] = <<job[w].forms[1]>> /\ made[w] = <<>>
    \/ left[w] = <<>> /\ held[w] = Wants(job[w]) /\ made[w] \in {<<>>, <<job[w].forms[1]>>}

ThreadInv(w) ==
    /\ job[w] = Idle => made[w] = <<>>
    /\ job[w] # Idle => Ordered(w)
    /\ job[w] # Idle /\ job[w].kind \in Single => Phase(w)

LocksInv == Mutex /\ \A w \in Workers : ThreadInv(w)

\* What a step changes of the threads, thread by thread.
Untouched(w) ==
    job'[w] = job[w] /\ held'[w] = held[w] /\ left'[w] = left[w] /\ made'[w] = made[w] /\ edit'[w] = edit[w]

LEMMA UntouchedInv ==
    ASSUME NEW w \in Workers, ThreadInv(w), Untouched(w)
    PROVE  ThreadInv(w)'
BY DEF ThreadInv, Ordered, Phase, Untouched

LEMMA LeaveThreads ==
    ASSUME TypeOK, NEW w \in Workers, Leave(w)
    PROVE  /\ job'[w] = Idle /\ held'[w] = {} /\ made'[w] = <<>>
           /\ \A v \in Workers \ {w} : Untouched(v)
BY DEF TypeOK, Leave, Untouched

LEMMA LeaveLocks ==
    ASSUME TypeOK, LocksInv, NEW w \in Workers, Leave(w)
    PROVE  LocksInv'
<1>1. \A v \in Workers : held'[v] \subseteq held[v]
  BY LeaveThreads DEF Untouched
<1>2. Mutex'
  BY <1>1 DEF LocksInv, Mutex
<1>3. ThreadInv(w)'
  BY LeaveThreads DEF ThreadInv
<1>4. \A v \in Workers \ {w} : ThreadInv(v)'
  BY LeaveThreads, UntouchedInv DEF LocksInv
<1> QED
  BY <1>2, <1>3, <1>4 DEF LocksInv

LEMMA ServeThreads ==
    ASSUME TypeOK, NEW w \in Workers, NEW j, NEW e, Serve(w, j, e)
    PROVE  /\ job'[w] = j /\ held'[w] = {} /\ left'[w] = j.forms /\ made'[w] = <<>> /\ edit'[w] = e
           /\ \A v \in Workers \ {w} : Untouched(v)
BY DEF TypeOK, Serve, Untouched

LEMMA ServeLocks ==
    ASSUME TypeOK, LocksInv, NEW w \in Workers, NEW j \in Jobs, NEW e, Serve(w, j, e)
    PROVE  LocksInv'
<1>1. held' = held
  BY DEF Serve
<1>2. Mutex'
  BY <1>1 DEF LocksInv, Mutex
<1>3. ThreadInv(w)'
  <2>1. Ordered(w)'
    BY ServeThreads DEF Ordered
  <2>2. j.kind \in Single => Phase(w)'
    BY ServeThreads, JobParts DEF Phase
  <2> QED
    BY <2>1, <2>2, ServeThreads DEF ThreadInv
<1>4. \A v \in Workers \ {w} : ThreadInv(v)'
  BY ServeThreads, UntouchedInv DEF LocksInv
<1> QED
  BY <1>2, <1>3, <1>4 DEF LocksInv

LEMMA LockThreads ==
    ASSUME TypeOK, NEW w \in Workers, NEW k, Lock(w, k)
    PROVE  /\ job' = job /\ left' = left /\ made' = made /\ edit' = edit
           /\ held'[w] = held[w] \cup {k} /\ \A v \in Workers \ {w} : held'[v] = held[v]
           /\ \A v \in Workers \ {w} : Untouched(v)
BY DEF TypeOK, Lock, Untouched

LEMMA LockLocks ==
    ASSUME TypeOK, LocksInv, NEW w \in Workers, NEW k \in Keys, Lock(w, k)
    PROVE  LocksInv'
<1>1. Mutex'
  BY LockThreads DEF LocksInv, Mutex, Lock
<1>2. ThreadInv(w)'
  <2>1. job[w] # Idle /\ job[w] \in Jobs /\ Due(w, k) /\ ThreadInv(w)
    BY DEF Lock, TypeOK, LocksInv
  <2>2. Ordered(w)'
    <3>1. k \in Wants(job[w]) \ held[w] /\ Wants(job[w]) \subseteq Int
      BY <2>1, WantsKeys, KeysAreNumbers DEF Due
    <3>2. \A m \in Wants(job[w]) : m < k => m \in held[w]
      BY <2>1, <3>1 DEF Due, InOrder
    <3> QED
      BY <2>1, <3>1, <3>2, LockThreads DEF Ordered, ThreadInv
  <2>3. job[w].kind \in Single => Phase(w)'
    <3>1. job[w].kind \in Single => left[w] = <<job[w].forms[1]>> /\ made[w] = <<>>
      BY <2>1 DEF ThreadInv, Phase, Due
    <3> QED
      BY <3>1, LockThreads DEF Phase
  <2> QED
    BY <2>1, <2>2, <2>3, LockThreads DEF ThreadInv
<1>3. \A v \in Workers \ {w} : ThreadInv(v)'
  BY LockThreads, UntouchedInv DEF LocksInv
<1> QED
  BY <1>1, <1>2, <1>3 DEF LocksInv

LEMMA LookThreads ==
    ASSUME TypeOK, NEW w \in Workers, Look(w)
    PROVE  /\ job' = job /\ held' = held /\ edit' = edit /\ leads' = leads
           /\ left'[w] = Tail(left[w])
           /\ made'[w] = IF Passes(w, Head(left[w])) THEN Append(made[w], Head(left[w])) ELSE made[w]
           /\ \A v \in Workers \ {w} : Untouched(v)
BY DEF TypeOK, Look, Untouched

\* The lookup of a request with one phone.
LEMMA LookOne ==
    ASSUME TypeOK, LocksInv, NEW w \in Workers, Look(w), job[w].kind \in Single
    PROVE  /\ left'[w] = <<>> /\ held[w] = Wants(job[w]) /\ made[w] = <<>>
           /\ made'[w] = IF Passes(w, job[w].forms[1]) THEN <<job[w].forms[1]>> ELSE <<>>
<1>1. Phase(w) /\ left[w] # <<>> /\ held[w] = Wants(job[w])
  BY DEF Look, LocksInv, ThreadInv
<1>2. left[w] = <<job[w].forms[1]>> /\ made[w] = <<>>
  BY <1>1 DEF Phase
<1>3. Head(left[w]) = job[w].forms[1] /\ Tail(left[w]) = <<>>
  BY <1>2
<1>4. Append(made[w], job[w].forms[1]) = <<job[w].forms[1]>>
  BY <1>2
<1> QED
  BY <1>1, <1>2, <1>3, <1>4, LookThreads

LEMMA LookLocks ==
    ASSUME TypeOK, LocksInv, NEW w \in Workers, Look(w)
    PROVE  LocksInv'
<1>1. Mutex'
  BY LookThreads DEF LocksInv, Mutex
<1>2. ThreadInv(w)'
  <2>1. job[w] # Idle /\ ThreadInv(w) /\ job'[w] = job[w] /\ held'[w] = held[w]
    BY LookThreads DEF Look, LocksInv
  <2>2. Ordered(w)'
    BY <2>1 DEF ThreadInv, Ordered
  <2>3. job[w].kind \in Single => Phase(w)'
    BY <2>1, LookOne DEF Phase
  <2> QED
    BY <2>1, <2>2, <2>3 DEF ThreadInv
<1>3. \A v \in Workers \ {w} : ThreadInv(v)'
  BY LookThreads, UntouchedInv DEF LocksInv
<1> QED
  BY <1>1, <1>2, <1>3 DEF LocksInv

LEMMA LocksStep ==
    ASSUME TypeOK, LocksInv, [Next]_vars
    PROVE  LocksInv'
<1>1. CASE UNCHANGED vars
  <2>1. \A w \in Workers : Untouched(w)
    BY <1>1 DEF vars, thread, Untouched
  <2>2. held' = held
    BY <1>1 DEF vars, thread
  <2> QED
    BY <2>1, <2>2, UntouchedInv DEF LocksInv, Mutex
<1>2. ASSUME NEW w \in Workers, Step(w) PROVE LocksInv'
  <2>1. ASSUME NEW j \in Jobs, Begin(w, j) PROVE LocksInv'
    BY <2>1, ServeLocks DEF Begin
  <2>2. ASSUME NEW j \in Jobs, NEW i, NEW r, BeginEdit(w, j, i, r) PROVE LocksInv'
    BY <2>2, ServeLocks DEF BeginEdit
  <2>3. Create(w) \/ SaveEdit(w) \/ Crash(w) => Leave(w)
    BY DEF Create, SaveEdit, Crash
  <2> QED
    BY <1>2, <2>1, <2>2, <2>3, LockLocks, LookLocks, LeaveLocks DEF Step
<1>3. ASSUME NEW i \in DOMAIN leads, NEW f \in Forms, Rewrite(i, f) PROVE LocksInv'
  <2>1. (\A w \in Workers : Untouched(w)) /\ held' = held
    BY <1>3 DEF Rewrite, thread, Untouched
  <2> QED
    BY <2>1, UntouchedInv DEF LocksInv, Mutex
<1> QED
  BY <1>1, <1>2, <1>3 DEF Next

LEMMA LocksInit ==
    ASSUME Init
    PROVE  LocksInv
BY DEF Init, LocksInv, Mutex, ThreadInv

\* Who waits for a key that another holds, and whether both have a request.
LEMMA Waiting ==
    ASSUME TypeOK, LocksInv, NEW w \in Workers, NEW v \in Workers, Waits(w, v)
    PROVE  /\ v # w /\ held[v] # {}
           /\ job[v] \in Jobs /\ Ordered(v) /\ job[w] \in Jobs /\ Ordered(w)
<1>1. v # w /\ held[v] # {} /\ job[w] # Idle
  BY DEF Waits, Checks, Due, Done
<1> QED
  BY <1>1 DEF TypeOK, LocksInv, ThreadInv

\* A desk's call that holds its lock waits for nobody.
LEMMA DeskWaitsForNobody ==
    ASSUME TypeOK, LocksInv, NEW w \in Workers, NEW v \in Workers, Waits(w, v),
           held[w] # {}
    PROVE  job[w].kind # "DESK"
<1> SUFFICES ASSUME job[w].kind = "DESK" PROVE FALSE
  OBVIOUS
<1>1. /\ v # w /\ job[w] \in Jobs /\ held[w] = Wants(job[w]) /\ Wants(job[w]) = {job[w].user}
      /\ ~job[w].apostille
  <2>1. v # w /\ job[w] \in Jobs /\ held[w] \subseteq Wants(job[w])
    BY Waiting DEF Ordered
  <2>2. Wants(job[w]) = {job[w].user} /\ ~job[w].apostille
    BY <2>1, WantsKeys, JobParts DEF Calls
  <2> QED
    BY <2>1, <2>2
<1>2. Checks(w, v)
  BY <1>1 DEF Waits, Due
<1>3. job[w].user \in held[v]
  BY <1>1, <1>2 DEF Checks, Refers
<1> QED
  BY <1>1, <1>3 DEF LocksInv, Mutex

\* Of those that hold a lock, only the commits of website forms and of enquiries
\* wait for a row that another holds.
LEMMA CommitsThatWait ==
    ASSUME TypeOK, LocksInv, NEW w \in Workers, NEW v \in Workers, Checks(w, v),
           held[w] # {}, job[v].kind # "DESK"
    PROVE  ClosesACircle(w, v)
<1>1. Waits(w, v) /\ held[w] = Wants(job[w])
  BY DEF Waits, Checks, Done
<1>2. /\ job[v] \in Jobs /\ held[v] \subseteq Wants(job[v]) /\ job[w] \in Jobs
      /\ held[v] \cap Wants(job[w]) = {}
  BY <1>1, Waiting DEF Ordered, LocksInv, Mutex
<1>3. PICK k \in Refers(w) : k \in Wants(job[v]) /\ k \notin Wants(job[w])
  BY <1>2 DEF Checks
<1>4. k \in {job[w].user, ServiceRow} /\ (k = ServiceRow => job[w].apostille) /\ k # NoUser
  BY <1>3 DEF Refers
<1>5. job[w].kind \in {"WEBSITE"} \cup Calls \cup Enquiries
  BY <1>1, <1>2, WantsKeys
<1>6. job[w].kind \notin Calls
  BY <1>2, <1>3, <1>4, WantsKeys, JobParts
<1>7. CASE job[w].kind = "WEBSITE"
  <2>1. k = ServiceRow
    BY <1>2, <1>4, <1>7, JobParts
  <2> QED
    BY <1>2, <1>3, <1>7, <2>1, WantsKeys DEF ClosesACircle
<1>8. CASE job[w].kind \in Enquiries
  <2>1. k = job[w].user /\ k \in Users
    BY <1>2, <1>3, <1>4, <1>8, WantsKeys, JobParts
  <2>2. job[v].kind \in Calls /\ job[v].user = k
    BY <1>2, <1>3, <2>1, WantsKeys
  <2> QED
    BY <1>8, <2>1, <2>2 DEF ClosesACircle, Calls
<1> QED
  BY <1>5, <1>6, <1>7, <1>8

\* Those of a circle that hold a lock are a circle.  Unless a foreign key closes it,
\* each waits for a lock, and wants a later key than those it holds: whoever holds
\* the last key that is waited for waits for a later one.
LEMMA NoOtherCircle ==
    ASSUME TypeOK, LocksInv
    PROVE  OnlyForeignKeysCloseACircle
<1> SUFFICES ASSUME NEW group \in (SUBSET Workers) \ {{}},
                    \A w \in group : \E v \in group : Waits(w, v),
                    \A w, v \in group : ~ClosesACircle(w, v)
             PROVE  FALSE
  BY Zenon DEF OnlyForeignKeysCloseACircle
<1>0. group # {} /\ group \subseteq Workers
  OBVIOUS
<1> DEFINE ring == {w \in group : held[w] # {}}
           K == {k \in Keys : \E w, v \in ring : job[w] # Idle /\ Due(w, k) /\ k \in held[v]}
<1>1. ASSUME NEW w \in group
      PROVE  \E v \in ring : Waits(w, v)
  <2>1. PICK v \in group : Waits(w, v)
    OBVIOUS
  <2> QED
    BY <1>0, <2>1, Waiting
<1>2. ASSUME NEW w \in ring
      PROVE  \E v \in ring, k \in K : job[w] # Idle /\ Due(w, k) /\ k \in held[v]
  <2>1. PICK v \in ring : Waits(w, v)
    BY <1>1
  <2>2. PICK u \in ring : Waits(v, u)
    BY <1>1
  <2>3. job[v].kind # "DESK"
    BY <1>0, <2>2, DeskWaitsForNobody
  <2>4. ~Checks(w, v)
    BY <1>0, <2>3, CommitsThatWait
  <2>5. PICK k \in held[v] : Due(w, k) /\ job[w] # Idle
    BY <2>1, <2>4 DEF Waits
  <2>6. k \in Keys
    BY <1>0 DEF TypeOK
  <2> QED
    BY <2>5, <2>6
<1>3. K # {} /\ K \subseteq Int
  <2>1. PICK w \in ring : TRUE
    BY <1>0, <1>1
  <2> QED
    BY <1>2, <2>1, KeysAreNumbers
<1>4. \E h \in Int : \A k \in Keys : k <= h
  <2>1. CASE Forms = {}
    BY <2>1, KeysAreNumbers DEF Keys, ServiceRow
  <2>2. CASE Forms # {}
    <3>1. PICK last \in Forms : \A f \in Forms : f <= last
      BY <2>2, LeadIntakeAssumption
    <3>2. last \in Int /\ ServiceRow \in Int /\ ServiceRow < last
      BY KeysAreNumbers DEF ServiceRow
    <3>3. ASSUME NEW k \in Keys PROVE k <= last
      <4>1. k \in Int /\ (k \in Forms \/ k <= ServiceRow)
        BY KeysAreNumbers DEF Keys, ServiceRow
      <4> QED
        BY <3>1, <3>2, <4>1
    <3> QED
      BY <3>2, <3>3
  <2> QED
    BY <2>1, <2>2
<1>5. PICK k \in K : \A m \in K : m <= k
  <2>1. PICK h \in Int : \A k \in Keys : k <= h
    BY <1>4
  <2>2. \A k \in K : k <= h
    BY <2>1
  <2> HIDE DEF K
  <2> QED
    BY <1>3, <2>2, HasLast
<1>6. PICK v \in ring : k \in held[v]
  OBVIOUS
<1>7. PICK m \in K : Due(v, m) /\ job[v] # Idle
  BY <1>2
<1>8. Ordered(v) /\ m \in Wants(job[v]) \ held[v] /\ k \in Int /\ m \in Int
  BY <1>0, <1>3, <1>7 DEF LocksInv, ThreadInv, Due
<1>9. ~(m < k) /\ m # k
  BY <1>6, <1>8 DEF Ordered
<1> QED
  BY <1>5, <1>8, <1>9

\* When transactions wait for each other in a circle, it is closed by the foreign key of
\* a website form that names the service an enquiry holds, or of an enquiry by somebody
\* whose call is being saved: the locks that are taken on purpose close none.
THEOREM LocksDoNotDeadlock == Spec => []OnlyForeignKeysCloseACircle
<1>1. Init => TypeOK /\ LocksInv
  BY TypeInit, LocksInit
<1>2. TypeOK /\ LocksInv /\ [Next]_vars => (TypeOK /\ LocksInv)'
  BY TypeStep, LocksStep
<1>3. TypeOK /\ LocksInv => OnlyForeignKeysCloseACircle
  BY NoOtherCircle
<1> QED
  BY <1>1, <1>2, <1>3, PTL DEF Spec

----------------------------------------------------------------------------
(* The promises of the lookups                                              *)

\* The lead an edit is for.
EditOf(w) == job[w] # Idle /\ job[w].kind = "EDIT" => edit[w].lead \in DOMAIN leads

\* While a request waits to save what it looked up, nothing it was told goes stale.
PhonePromise(w) ==
    \A i \in DOMAIN leads :
        Apart(leads[i].by, leads[i].form, job[w].kind, job[w].forms[1])

EventPromise(w) ==
    /\ job[w].kind = "APOSTILLE" => ~Saved(job[w].event)
    /\ job[w].kind = "EDIT" =>
         /\ edit[w].revision = leads[edit[w].lead].revision
         /\ leads[edit[w].lead].event = NoEvent => ~Saved(job[w].event)

Promise(w) ==
    job[w] # Idle /\ job[w].kind \in Single /\ made[w] # <<>> => PhonePromise(w) /\ EventPromise(w)

RowsInv == LockedNumbersAreUnique /\ OneLeadPerEvent /\ RevisionCountsSaves

IntakeInv == LocksInv /\ RowsInv /\ \A w \in Workers : EditOf(w) /\ Promise(w)

\* Two requests that are done with their locks want none in common.
LEMMA DoneApart ==
    ASSUME TypeOK, LocksInv, NEW v \in Workers, NEW w \in Workers, v # w,
           job[v] # Idle, job[v].kind \in Single, made[v] # <<>>,
           job[w] # Idle, job[w].kind \in Single, made[w] # <<>>
    PROVE  /\ Wants(job[v]) \cap Wants(job[w]) = {}
           /\ made[v] = <<job[v].forms[1]>>
           /\ Apart(job[w].kind, job[w].forms[1], job[v].kind, job[v].forms[1])
           /\ job[v].kind \in Enquiries => job[w].kind \notin Enquiries
<1>1. Phase(v) /\ Phase(w) /\ job[v] \in Jobs /\ job[w] \in Jobs
  BY DEF LocksInv, ThreadInv, TypeOK
<1>2. held[v] = Wants(job[v]) /\ held[w] = Wants(job[w]) /\ made[v] = <<job[v].forms[1]>>
  BY <1>1 DEF Phase
<1>3. Wants(job[v]) \cap Wants(job[w]) = {}
  BY <1>2 DEF LocksInv, Mutex
<1> QED
  BY <1>1, <1>2, <1>3, DisjointApart, WantsKeys

\* What a request saves when it is done, one lead of its phone or none.
LEMMA CreateOne ==
    ASSUME TypeOK, LocksInv, NEW w \in Workers, Create(w), job[w].kind \in Single
    PROVE  /\ \A i \in DOMAIN leads' \ DOMAIN leads :
                 made[w] # <<>> /\ leads'[i] = NewLead(job[w], job[w].forms[1])
           /\ \A i, k \in DOMAIN leads' \ DOMAIN leads : i = k
<1>1. Phase(w)
  BY DEF LocksInv, ThreadInv, Create, MayCommit, Done
<1>2. made[w] \in {<<>>, <<job[w].forms[1]>>}
  BY <1>1 DEF Phase
<1>3. \A n \in DOMAIN made[w] : n = 1 /\ made[w] # <<>> /\ made[w][n] = job[w].forms[1]
  BY <1>2
<1> QED
  BY <1>3, CreateRows

----------------------------------------------------------------------------
(* The rows                                                                 *)

LEMMA NewLeadParts ==
    ASSUME NEW j, NEW f
    PROVE  /\ NewLead(j, f).form = f /\ NewLead(j, f).by = j.kind /\ NewLead(j, f).event = j.event
           /\ NewLead(j, f).revision = NewLead(j, f).saves
BY DEF NewLead

LEMMA RowsCreate ==
    ASSUME TypeOK, TypeOK', IntakeInv, NEW w \in Workers, Create(w)
    PROVE  RowsInv'
<1> DEFINE new == DOMAIN leads' \ DOMAIN leads
<1>1. /\ job[w] \in Jobs /\ job[w] # Idle
      /\ job[w].kind = "EDIT" => made[w] = <<>>
      /\ DOMAIN leads \subseteq DOMAIN leads' /\ \A i \in DOMAIN leads : leads'[i] = leads[i]
      /\ \A i \in new : \E f : leads'[i] = NewLead(job[w], f)
  BY CreateRows DEF Create, MayCommit, Done
<1>2. ASSUME NEW i \in new
      PROVE  /\ leads'[i].by = job[w].kind /\ leads'[i].event = job[w].event
             /\ leads'[i].revision = leads'[i].saves
             /\ job[w].kind \in Single =>
                  /\ leads'[i].form = job[w].forms[1] /\ made[w] # <<>> /\ job[w].kind # "EDIT"
                  /\ PhonePromise(w) /\ EventPromise(w)
  <2>1. PICK f : leads'[i] = NewLead(job[w], f)
    BY <1>1
  <2>2. ASSUME job[w].kind \in Single
        PROVE  /\ leads'[i].form = job[w].forms[1] /\ made[w] # <<>>
               /\ PhonePromise(w) /\ EventPromise(w)
    <3>1. made[w] # <<>> /\ leads'[i] = NewLead(job[w], job[w].forms[1])
      BY <2>2, CreateOne DEF IntakeInv
    <3> QED
      BY <1>1, <2>2, <3>1, NewLeadParts DEF IntakeInv, Promise
  <2> QED
    BY <1>1, <2>1, <2>2, NewLeadParts
<1>3. job[w].kind \in Single => \A i, k \in new : i = k
  BY CreateOne DEF IntakeInv
<1>4. job[w].kind \notin Single => job[w].kind \notin Locking
  BY DEF Single, Locking, Enquiries
<1>5. ASSUME NEW i \in new, NEW k \in DOMAIN leads
      PROVE  Apart(leads[k].by, leads[k].form, leads'[i].by, leads'[i].form)
  BY <1>2, <1>4, UnlockedApart DEF PhonePromise
<1>6. ASSUME NEW i \in new, NEW k \in new, i # k
      PROVE  Apart(leads'[i].by, leads'[i].form, leads'[k].by, leads'[k].form)
  BY <1>2, <1>3, <1>4, <1>6, UnlockedApart
<1>7. \A i, k \in DOMAIN leads :
        i < k => Apart(leads[i].by, leads[i].form, leads[k].by, leads[k].form)
  BY UniqueIsApart DEF IntakeInv, RowsInv
<1>8. LockedNumbersAreUnique'
  <2>1. ASSUME NEW i \in DOMAIN leads', NEW k \in DOMAIN leads', i < k
        PROVE  Apart(leads'[i].by, leads'[i].form, leads'[k].by, leads'[k].form)
    <3>1. CASE i \in DOMAIN leads /\ k \in DOMAIN leads
      BY <1>1, <1>7, <2>1, <3>1
    <3>2. CASE i \in new /\ k \in DOMAIN leads
      BY <2>1, <3>2, CreateRows
    <3>3. CASE i \in DOMAIN leads /\ k \in new
      BY <1>1, <1>5, <3>3
    <3>4. CASE i \in new /\ k \in new
      <4>1. i # k
        BY <2>1, LeadRows DEF TypeOK
      <4> QED
        BY <1>6, <3>4, <4>1
    <3> QED
      BY <3>1, <3>2, <3>3, <3>4
  <2> QED
    BY <2>1 DEF LockedNumbersAreUnique, Apart
<1>9. OneLeadPerEvent'
  <2> SUFFICES ASSUME NEW i \in DOMAIN leads', NEW k \in DOMAIN leads', i # k,
                      leads'[i].event # NoEvent
               PROVE  leads'[i].event # leads'[k].event
    BY DEF OneLeadPerEvent
  <2>1. \A h \in new : leads'[h].event # NoEvent =>
            job[w].kind = "APOSTILLE" /\ job[w].kind \in Single /\ EventPromise(w)
    <3>1. \A h \in new : leads'[h].event # NoEvent => job[w].kind \in Enquiries
      BY <1>1, <1>2, JobParts
    <3> QED
      BY <1>2, <3>1 DEF Enquiries, Single
  <2>2. CASE i \in DOMAIN leads /\ k \in DOMAIN leads
    BY <1>1, <2>2 DEF IntakeInv, RowsInv, OneLeadPerEvent
  <2>3. CASE i \in new /\ k \in DOMAIN leads
    BY <1>1, <1>2, <2>1, <2>3 DEF EventPromise, Saved
  <2>4. CASE i \in DOMAIN leads /\ k \in new
    BY <1>1, <1>2, <2>1, <2>4 DEF EventPromise, Saved
  <2>5. CASE i \in new /\ k \in new
    BY <1>3, <2>1, <2>5
  <2> QED
    BY <2>2, <2>3, <2>4, <2>5
<1>10. RevisionCountsSaves'
  BY <1>1, <1>2 DEF IntakeInv, RowsInv, RevisionCountsSaves
<1> QED
  BY <1>8, <1>9, <1>10 DEF RowsInv

LEMMA RowsEdit ==
    ASSUME TypeOK, IntakeInv, NEW w \in Workers, SaveEdit(w)
    PROVE  RowsInv'
<1> DEFINE e == edit[w].lead
<1>1. /\ job[w] \in Jobs /\ job[w] # Idle /\ job[w].kind = "EDIT" /\ made[w] # <<>>
      /\ job[w].kind \in Single
  BY EditRows DEF SaveEdit, MayCommit, Done, Single, Enquiries
<1>2. e \in DOMAIN leads /\ leads[e] \in Lead
  BY <1>1, LeadRows DEF IntakeInv, EditOf
<1>3. EventPromise(w)
  BY <1>1 DEF IntakeInv, Promise
<1>4. /\ DOMAIN leads' = DOMAIN leads
      /\ \A i \in DOMAIN leads \ {e} : leads'[i] = leads[i]
      /\ leads'[e].by = "EDIT"
      /\ leads'[e].event = IF leads[e].event = NoEvent THEN job[w].event ELSE leads[e].event
      /\ leads'[e].revision = edit[w].revision + 1
      /\ leads'[e].saves = leads[e].saves + 1
  BY <1>2, EditRows
<1> HIDE DEF e
<1>5. LockedNumbersAreUnique'
  BY <1>4 DEF LockedNumbersAreUnique, IntakeInv, RowsInv, Locking
<1>6. ASSUME NEW k \in DOMAIN leads \ {e}, leads[k].event # NoEvent \/ leads'[e].event # NoEvent
      PROVE  leads[k].event # leads'[e].event
  <2>1. CASE leads[e].event = NoEvent
    <3>1. ~Saved(job[w].event)
      BY <1>1, <1>3, <2>1 DEF EventPromise, e
    <3> QED
      BY <1>4, <2>1, <3>1 DEF Saved
  <2>2. CASE leads[e].event # NoEvent
    BY <1>2, <1>4, <2>2 DEF IntakeInv, RowsInv, OneLeadPerEvent
  <2> QED
    BY <2>1, <2>2
<1>7. OneLeadPerEvent'
  <2> SUFFICES ASSUME NEW i \in DOMAIN leads', NEW k \in DOMAIN leads', i # k,
                      leads'[i].event # NoEvent
               PROVE  leads'[i].event # leads'[k].event
    BY DEF OneLeadPerEvent
  <2>1. CASE i # e /\ k # e
    BY <1>4, <2>1 DEF IntakeInv, RowsInv, OneLeadPerEvent
  <2>2. CASE i = e
    BY <1>4, <1>6, <2>2
  <2>3. CASE k = e
    BY <1>4, <1>6, <2>3
  <2> QED
    BY <2>1, <2>2, <2>3
<1>8. RevisionCountsSaves'
  <2>1. edit[w].revision = leads[e].revision /\ leads[e].revision = leads[e].saves
    BY <1>1, <1>2, <1>3 DEF EventPromise, IntakeInv, RowsInv, RevisionCountsSaves, e
  <2> QED
    BY <1>4, <2>1 DEF IntakeInv, RowsInv, RevisionCountsSaves
<1> QED
  BY <1>5, <1>7, <1>8 DEF RowsInv

\* A form written over a lead's is nobody's that locked it.
LEMMA RowsRewrite ==
    ASSUME TypeOK, RowsInv, NEW i \in DOMAIN leads, NEW f \in Forms, Rewrite(i, f)
    PROVE  RowsInv'
<1>1. LockedNumbersAreUnique'
  BY RewriteRows DEF LockedNumbersAreUnique, RowsInv, Locking
<1>2. OneLeadPerEvent' /\ RevisionCountsSaves'
  BY RewriteRows DEF OneLeadPerEvent, RevisionCountsSaves, RowsInv
<1> QED
  BY <1>1, <1>2 DEF RowsInv

----------------------------------------------------------------------------
(* The promises hold until the request is done                              *)

\* A thread that goes on with the same request, while the leads stay.
LEMMA PromiseStays ==
    ASSUME NEW v \in Workers, EditOf(v), Promise(v), leads' = leads,
           job'[v] = job[v], edit'[v] = edit[v], made'[v] = made[v]
    PROVE  EditOf(v)' /\ Promise(v)'
<1>1. EditOf(v)'
  BY DEF EditOf
<1>2. PhonePromise(v) => PhonePromise(v)'
  BY DEF PhonePromise
<1>3. EventPromise(v) => EventPromise(v)'
  BY DEF EventPromise, Saved
<1> QED
  BY <1>1, <1>2, <1>3 DEF Promise

\* A lead's form is written over: its events and revisions stay.
LEMMA PromiseRewrite ==
    ASSUME TypeOK, NEW i \in DOMAIN leads, NEW f \in Forms, Rewrite(i, f),
           NEW v \in Workers, EditOf(v), Promise(v)
    PROVE  EditOf(v)' /\ Promise(v)'
<1>1. job' = job /\ edit' = edit /\ made' = made
  BY DEF Rewrite, thread
<1>2. EditOf(v)'
  BY <1>1, RewriteRows DEF EditOf
<1>3. PhonePromise(v) => PhonePromise(v)'
  BY <1>1, RewriteRows DEF PhonePromise, Apart, Locking
<1>4. \A x : Saved(x)' => Saved(x)
  BY RewriteRows DEF Saved
<1>5. job[v] # Idle /\ EventPromise(v) => EventPromise(v)'
  BY <1>1, <1>4, RewriteRows DEF EventPromise, EditOf
<1> QED
  BY <1>1, <1>2, <1>3, <1>5 DEF Promise

LEMMA PromiseOfIdle ==
    ASSUME NEW v \in Workers, job'[v] = Idle
    PROVE  EditOf(v)' /\ Promise(v)'
BY DEF EditOf, Promise

\* Another request saves new leads: the two hold different locks.
LEMMA PromiseCreate ==
    ASSUME TypeOK, IntakeInv, NEW w \in Workers, Create(w), NEW v \in Workers, v # w
    PROVE  EditOf(v)' /\ Promise(v)'
<1> DEFINE new == DOMAIN leads' \ DOMAIN leads
<1>1. /\ job[w] \in Jobs /\ job[w] # Idle
      /\ DOMAIN leads \subseteq DOMAIN leads'
      /\ \A i \in DOMAIN leads : leads'[i] = leads[i]
      /\ \A i \in new : \E f : leads'[i] = NewLead(job[w], f)
      /\ job[w].kind = "EDIT" => made[w] = <<>>
  <2>1. job[w] # Idle /\ (job[w].kind = "EDIT" => made[w] = <<>>)
    BY DEF Create, MayCommit, Done
  <2>2. /\ job[w] \in Jobs /\ DOMAIN leads \subseteq DOMAIN leads'
        /\ \A i \in DOMAIN leads : leads'[i] = leads[i]
    BY CreateRows
  <2>3. \A i \in new : \E f : leads'[i] = NewLead(job[w], f)
    BY CreateRows, Zenon
  <2> QED
    BY <2>1, <2>2, <2>3
<1>2. Untouched(v)
  BY LeaveThreads DEF Create
<1>3. LocksInv /\ EditOf(v) /\ Promise(v) /\ ThreadInv(v)
  BY DEF IntakeInv, LocksInv
<1>4. EditOf(v)'
  BY <1>1, <1>2, <1>3 DEF EditOf, Untouched
<1>6. ASSUME job[v] # Idle, job[v].kind \in Single, made[v] # <<>>
      PROVE  PhonePromise(v)' /\ EventPromise(v)'
  <2>1. PhonePromise(v) /\ EventPromise(v)
    BY <1>3, <1>6 DEF Promise
  <2>2. ASSUME NEW i \in new
        PROVE  /\ Apart(leads'[i].by, leads'[i].form, job[v].kind, job[v].forms[1])
               /\ job[v].kind \in Enquiries => leads'[i].event = NoEvent
    <3>1. leads'[i].by = job[w].kind /\ leads'[i].event = job[w].event
      BY <1>1, NewLeadParts
    <3>2. CASE job[w].kind \in Single
      <4>1. made[w] # <<>> /\ leads'[i].form = job[w].forms[1]
        BY <1>3, <3>2, CreateOne, NewLeadParts
      <4>2. /\ Apart(job[w].kind, job[w].forms[1], job[v].kind, job[v].forms[1])
            /\ job[v].kind \in Enquiries => job[w].kind \notin Enquiries
        BY <1>1, <1>3, <1>6, <3>2, <4>1, DoneApart
      <4> QED
        BY <1>1, <3>1, <4>1, <4>2, JobParts
    <3>3. CASE job[w].kind \notin Single
      <4>1. job[w].kind \notin Locking /\ job[w].kind \notin Enquiries
        BY <3>3 DEF Single, Locking, Enquiries
      <4> QED
        BY <1>1, <3>1, <4>1, UnlockedApart, JobParts
    <3> QED
      BY <3>2, <3>3
  <2>3. PhonePromise(v)'
    <3> SUFFICES ASSUME NEW i \in DOMAIN leads'
                 PROVE  Apart(leads'[i].by, leads'[i].form, job[v].kind, job[v].forms[1])
      BY <1>2 DEF PhonePromise, Untouched
    <3>1. CASE i \in DOMAIN leads
      BY <1>1, <2>1, <3>1 DEF PhonePromise
    <3>2. CASE i \in new
      BY <2>2, <3>2
    <3> QED
      BY <3>1, <3>2
  <2>4. job[v].kind \in Enquiries => \A x : x # NoEvent /\ ~Saved(x) => ~Saved(x)'
    BY <1>1, <2>2 DEF Saved
  <2>6. job[v].kind \in Enquiries => job[v].event # NoEvent
    BY <1>6, JobParts DEF TypeOK
  <2>5. EventPromise(v)'
    <3>1. CASE job[v].kind = "APOSTILLE"
      BY <1>2, <2>1, <2>4, <2>6, <3>1 DEF EventPromise, Untouched, Enquiries
    <3>2. CASE job[v].kind = "EDIT"
      <4>1. leads'[edit[v].lead] = leads[edit[v].lead]
        BY <1>1, <1>3, <1>6, <3>2 DEF EditOf
      <4> QED
        BY <1>2, <2>1, <2>4, <2>6, <3>2, <4>1 DEF EventPromise, Untouched, Enquiries
    <3>3. CASE job[v].kind \notin {"APOSTILLE", "EDIT"}
      BY <1>2, <3>3 DEF EventPromise, Untouched
    <3> QED
      BY <3>1, <3>2, <3>3
  <2> QED
    BY <2>3, <2>5
<1> QED
  BY <1>2, <1>4, <1>6 DEF Promise, Untouched

\* Another request edits a lead, and holds the service row alone.
LEMMA PromiseEdit ==
    ASSUME TypeOK, IntakeInv, NEW w \in Workers, SaveEdit(w), NEW v \in Workers, v # w
    PROVE  EditOf(v)' /\ Promise(v)'
<1> DEFINE e == edit[w].lead
<1>1. /\ job[w] \in Jobs /\ job[w] # Idle /\ job[w].kind = "EDIT" /\ made[w] # <<>>
      /\ job[w].kind \in Single /\ job[w].kind \in Enquiries
  BY EditRows DEF SaveEdit, MayCommit, Done, Single, Enquiries
<1>2. Untouched(v)
  BY LeaveThreads DEF SaveEdit
<1>3. LocksInv /\ EditOf(v) /\ Promise(v) /\ e \in DOMAIN leads
  BY <1>1 DEF IntakeInv, EditOf
<1>4. /\ DOMAIN leads' = DOMAIN leads
      /\ \A i \in DOMAIN leads \ {e} : leads'[i] = leads[i]
      /\ leads'[e].by = "EDIT"
  BY <1>3, EditRows
<1> HIDE DEF e
<1>5. EditOf(v)'
  BY <1>2, <1>3, <1>4 DEF EditOf, Untouched
<1>6. ASSUME job[v] # Idle, job[v].kind \in Single, made[v] # <<>>
      PROVE  PhonePromise(v)' /\ EventPromise(v)'
  <2>1. PhonePromise(v)
    BY <1>3, <1>6 DEF Promise
  <2>2. job[v].kind \notin Enquiries
    BY <1>1, <1>3, <1>6, DoneApart
  <2>3. PhonePromise(v)'
    BY <1>2, <1>4, <2>1 DEF PhonePromise, Untouched, Apart, Locking
  <2>4. EventPromise(v)'
    BY <1>2, <2>2 DEF EventPromise, Untouched, Enquiries
  <2> QED
    BY <2>3, <2>4
<1> QED
  BY <1>2, <1>5, <1>6 DEF Promise, Untouched

----------------------------------------------------------------------------
(* The lookup makes the promises                                            *)

LEMMA LookPhone ==
    ASSUME TypeOK, NEW w \in Workers, job[w] # Idle, job[w].kind \in Single,
           Passes(w, job[w].forms[1])
    PROVE  PhonePromise(w)
<1>1. job[w] \in Jobs /\ job[w].forms[1] \in Forms
  BY JobParts DEF TypeOK
<1>2. CASE job[w].kind = "CALL"
  BY <1>1, <1>2, LeadIntakeAssumption DEF Passes, Calls, PhonePromise, Apart
<1>3. CASE job[w].kind \in {"WEBSITE", "APOSTILLE"}
  <2>1. New(job[w].forms[1])
    BY <1>3 DEF Passes, Calls
  <2> QED
    BY <1>1, <1>3, <2>1, LeadIntakeAssumption DEF New, Known, PhonePromise, Apart
<1>4. CASE job[w].kind = "EDIT"
  BY <1>4 DEF PhonePromise, Apart, Locking
<1> QED
  BY <1>2, <1>3, <1>4 DEF Single, Enquiries

LEMMA LookEvent ==
    ASSUME NEW w \in Workers, job[w] # Idle, job[w].kind \in Single,
           Passes(w, job[w].forms[1])
    PROVE  EventPromise(w)
BY DEF Passes, Accepts, EventPromise

LEMMA LookPromise ==
    ASSUME TypeOK, IntakeInv, NEW w \in Workers, Look(w)
    PROVE  EditOf(w)' /\ Promise(w)'
<1>1. /\ job[w] # Idle /\ leads' = leads /\ job'[w] = job[w] /\ edit'[w] = edit[w]
      /\ EditOf(w) /\ LocksInv
  BY LookThreads DEF Look, IntakeInv
<1>2. EditOf(w)'
  BY <1>1 DEF EditOf
<1>3. ASSUME job[w].kind \in Single, made'[w] # <<>>
      PROVE  PhonePromise(w)' /\ EventPromise(w)'
  <2>1. Passes(w, job[w].forms[1])
    BY <1>1, <1>3, LookOne
  <2>2. PhonePromise(w) /\ EventPromise(w)
    BY <1>1, <1>3, <2>1, LookPhone, LookEvent
  <2>3. PhonePromise(w)'
    BY <1>1, <2>2 DEF PhonePromise
  <2>4. EventPromise(w)'
    BY <1>1, <2>2 DEF EventPromise, Saved
  <2> QED
    BY <2>3, <2>4
<1> QED
  BY <1>1, <1>2, <1>3 DEF Promise

----------------------------------------------------------------------------
(* The steps together                                                       *)

LEMMA RowsStay ==
    ASSUME RowsInv, leads' = leads
    PROVE  RowsInv'
BY DEF RowsInv, LockedNumbersAreUnique, OneLeadPerEvent, RevisionCountsSaves

LEMMA ServePromise ==
    ASSUME TypeOK, IntakeInv, NEW w \in Workers, NEW j \in Jobs, NEW e, Serve(w, j, e),
           j.kind = "EDIT" => e.lead \in DOMAIN leads
    PROVE  RowsInv' /\ \A v \in Workers : EditOf(v)' /\ Promise(v)'
<1>1. leads' = leads
  BY DEF Serve
<1>2. EditOf(w)' /\ Promise(w)'
  BY <1>1, ServeThreads DEF EditOf, Promise
<1>3. \A v \in Workers \ {w} : EditOf(v)' /\ Promise(v)'
  BY <1>1, ServeThreads, PromiseStays DEF Untouched, IntakeInv
<1> QED
  BY <1>1, <1>2, <1>3, RowsStay DEF IntakeInv

LEMMA IntakeStep ==
    ASSUME TypeOK, IntakeInv, [Next]_vars
    PROVE  IntakeInv'
<1>1. TypeOK' /\ LocksInv'
  BY TypeStep, LocksStep DEF IntakeInv
<1> SUFFICES RowsInv' /\ \A v \in Workers : EditOf(v)' /\ Promise(v)'
  BY <1>1 DEF IntakeInv
<1>2. CASE UNCHANGED vars
  <2>1. leads' = leads /\ job' = job /\ edit' = edit /\ made' = made
    BY <1>2 DEF vars, thread
  <2> QED
    BY <2>1, RowsStay, PromiseStays DEF IntakeInv
<1>3. ASSUME NEW w \in Workers, Step(w)
      PROVE  RowsInv' /\ \A v \in Workers : EditOf(v)' /\ Promise(v)'
  <2>1. ASSUME NEW j \in Jobs, Begin(w, j)
        PROVE  RowsInv' /\ \A v \in Workers : EditOf(v)' /\ Promise(v)'
    BY <2>1, ServePromise DEF Begin
  <2>2. ASSUME NEW j \in Jobs, NEW i \in DOMAIN leads, NEW r, BeginEdit(w, j, i, r)
        PROVE  RowsInv' /\ \A v \in Workers : EditOf(v)' /\ Promise(v)'
    <3> DEFINE e == [lead |-> i, revision |-> r]
    <3>1. e.lead = i
      OBVIOUS
    <3>2. Serve(w, j, e) /\ j.kind = "EDIT"
      BY <2>2 DEF BeginEdit
    <3> HIDE DEF e
    <3> QED
      BY <3>1, <3>2, ServePromise
  <2>3. ASSUME NEW k \in Keys, Lock(w, k)
        PROVE  RowsInv' /\ \A v \in Workers : EditOf(v)' /\ Promise(v)'
    <3>1. leads' = leads /\ job' = job /\ edit' = edit /\ made' = made
      BY <2>3 DEF Lock
    <3> QED
      BY <3>1, RowsStay, PromiseStays DEF IntakeInv
  <2>4. CASE Look(w)
    <3>1. leads' = leads /\ \A v \in Workers \ {w} : Untouched(v)
      BY <2>4, LookThreads
    <3>2. \A v \in Workers \ {w} : EditOf(v)' /\ Promise(v)'
      BY <3>1, PromiseStays DEF Untouched, IntakeInv
    <3> QED
      BY <2>4, <3>1, <3>2, LookPromise, RowsStay DEF IntakeInv
  <2>5. CASE Create(w)
    <3>1. EditOf(w)' /\ Promise(w)'
      BY <2>5, LeaveThreads, PromiseOfIdle DEF Create
    <3> QED
      BY <1>1, <2>5, <3>1, RowsCreate, PromiseCreate
  <2>6. CASE SaveEdit(w)
    <3>1. EditOf(w)' /\ Promise(w)'
      BY <2>6, LeaveThreads, PromiseOfIdle DEF SaveEdit
    <3> QED
      BY <1>1, <2>6, <3>1, RowsEdit, PromiseEdit
  <2>7. CASE Crash(w)
    <3>1. EditOf(w)' /\ Promise(w)' /\ leads' = leads
      BY <2>7, LeaveThreads, PromiseOfIdle DEF Crash
    <3>2. \A v \in Workers \ {w} : EditOf(v)' /\ Promise(v)'
      BY <2>7, <3>1, LeaveThreads, PromiseStays DEF Crash, Untouched, IntakeInv
    <3> QED
      BY <3>1, <3>2, RowsStay DEF IntakeInv
  <2> QED
    BY <1>3, <2>1, <2>2, <2>3, <2>4, <2>5, <2>6, <2>7 DEF Step
<1>4. ASSUME NEW i \in DOMAIN leads, NEW f \in Forms, Rewrite(i, f)
      PROVE  RowsInv' /\ \A v \in Workers : EditOf(v)' /\ Promise(v)'
  BY <1>4, RowsRewrite, PromiseRewrite DEF IntakeInv
<1> QED
  BY <1>2, <1>3, <1>4 DEF Next

LEMMA IntakeInit ==
    ASSUME Init
    PROVE  IntakeInv
<1>1. DOMAIN leads = {}
  BY EmptySeq, LenProperties DEF Init
<1>2. RowsInv
  BY <1>1 DEF RowsInv, LockedNumbersAreUnique, OneLeadPerEvent, RevisionCountsSaves
<1>3. \A w \in Workers : EditOf(w) /\ Promise(w)
  BY DEF Init, EditOf, Promise
<1> QED
  BY <1>2, <1>3, LocksInit DEF IntakeInv

\* The rows are as they should be, and every thread's promise holds.
LEMMA Intake == Spec => [](TypeOK /\ IntakeInv)
<1>1. Init => TypeOK /\ IntakeInv
  BY TypeInit, IntakeInit
<1>2. TypeOK /\ IntakeInv /\ [Next]_vars => (TypeOK /\ IntakeInv)'
  BY TypeStep, IntakeStep
<1> QED
  BY <1>1, <1>2, PTL DEF Spec

\* Of two leads made by requests that lock their phone, and not renumbered since, the
\* later is never one its maker would have taken for the earlier.
THEOREM LockedNumbers == Spec => []LockedNumbersAreUnique
<1>1. TypeOK /\ IntakeInv => LockedNumbersAreUnique
  BY DEF IntakeInv, RowsInv
<1> QED
  BY <1>1, Intake, PTL

\* An enquiry's identifier is saved on one lead only, however often the request is
\* resent, crashes, or runs twice at once, and whatever was edited meanwhile.
THEOREM EventsSavedOnce == Spec => []OneLeadPerEvent
<1>1. TypeOK /\ IntakeInv => OneLeadPerEvent
  BY DEF IntakeInv, RowsInv
<1> QED
  BY <1>1, Intake, PTL

\* No edit of an enquiry is overwritten by one that had not seen it.
THEOREM NoLostEdit == Spec => []RevisionCountsSaves
<1>1. TypeOK /\ IntakeInv => RevisionCountsSaves
  BY DEF IntakeInv, RowsInv
<1> QED
  BY <1>1, Intake, PTL

=============================================================================
