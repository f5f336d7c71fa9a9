------------------------------- MODULE LeadIntake -------------------------------
(***************************************************************************)
(* How leads come into being, and the phone locks that should keep one     *)
(* lead per number: the website form (apps/leads/public_intake.py), calls  *)
(* to unknown numbers (apps/calls/phone.py, apps/calls/api/views.py),      *)
(* apostille enquiries (apps/leads/api/apostille_views.py), counselors'    *)
(* single and batch forms (apps/leads/api/counselor_views.py), and the     *)
(* unchecked ways: files and pasted numbers (apps/leads/services.py), the  *)
(* managers' form, walk-in admissions, demo requests, and edits of a lead. *)
(*                                                                         *)
(* A request is a transaction of a server thread: it takes its locks one   *)
(* by one, looks each of its numbers up in what is committed then, and     *)
(* commits, when its locks fall.  A crash, or the database ending a        *)
(* deadlock, leaves nothing of it; the client sends the request again.     *)
(*                                                                         *)
(* Foreign keys are deferred: the commit share-locks the rows its inserts  *)
(* name, so it waits for others that hold one of them for update.          *)
(*                                                                         *)
(* A number is written in several forms (10 digits; 0, 91, 0091 in front). *)
(* Calls, the lookup of duplicates and counselors' forms each know some of *)
(* them.  What else a request writes (submission rows, history, owner,     *)
(* audit) has no part in another's decision.                               *)
(***************************************************************************)
EXTENDS Integers, Sequences

CONSTANTS
    Workers,            \* server threads
    Forms,              \* phones as digits, numbered in the order of the strings
    Variants,           \* the forms a call to one locks, and takes for it
    Found,              \* the forms the lookup of one finds
    Local,              \* the forms a counselor's query for one finds
    Users, NoUser,
    Jobs,               \* the requests clients send, and send again
    Events, NoEvent,    \* client_event_id
    Idle,
    MaxRequests         \* bound on the requests begun

ServiceRow == 0         \* the APOSTILLE Service
Keys == Users \cup {ServiceRow} \cup Forms

\* A DESK call is one by somebody who is not capable of a caller's work.
Calls == {"CALL", "DESK"}
Enquiries == {"APOSTILLE", "EDIT"}
Kinds == {"WEBSITE", "COUNSELOR", "PASTE", "OFFICE"} \cup Calls \cup Enquiries
Job == [kind: Kinds, user: Users \cup {NoUser}, apostille: BOOLEAN,
        forms: Seq(Forms), event: Events \cup {NoEvent}]

\* Keys are numbered in the order in which they are taken: users, service, phones.
ASSUME LeadIntakeAssumption ==
    /\ Forms \subseteq {f \in Int : f > ServiceRow}
    /\ Users \subseteq {u \in Int : u < ServiceRow}
    /\ Forms # {} => \E last \in Forms : \A f \in Forms : f <= last
    /\ {Variants, Found, Local} \subseteq [Forms -> SUBSET Forms]
    /\ \A f \in Forms : f \in Variants[f] /\ f \in Found[f]
    /\ Jobs \subseteq Job
    /\ \A j \in Jobs : /\ j.kind \in {"WEBSITE"} \cup Calls \cup Enquiries => Len(j.forms) = 1
                       /\ j.kind \in Enquiries <=> j.event # NoEvent
                       /\ j.kind \in Calls \cup Enquiries => j.user # NoUser
                       /\ j.kind = "WEBSITE" => j.user = NoUser
                       /\ j.kind \in Enquiries => j.apostille
                       /\ j.kind \in Calls => ~j.apostille
    /\ NoEvent \notin Events
    /\ NoUser \notin Int
    /\ Idle \notin Job
    /\ MaxRequests \in Nat

VARIABLES
    leads,      \* the Leads in the order of their keys
    job,        \* the request a thread serves, or Idle
    held,       \* the locks its transaction holds
    left,       \* the phones it has still to look up
    made,       \* the phones it will save
    edit,       \* the lead an edit is for, and the revision its form was read at
    begun

thread == <<job, held, left, made, edit>>
vars == <<leads, thread, begun>>

\* by says who wrote the form; saves counts the enquiries saved on a lead, revision
\* is what the row says.
Lead == [form: Forms, by: Kinds \cup {"REWRITE"}, apostille: BOOLEAN,
         event: Events \cup {NoEvent}, revision: Nat, saves: Nat]
NoEdit == [lead |-> 0, revision |-> 0]

TypeOK ==
    /\ leads \in Seq(Lead)
    /\ job \in [Workers -> Jobs \cup {Idle}]
    /\ held \in [Workers -> SUBSET Keys]
    /\ \A w \in Workers : job[w] = Idle => held[w] = {}
    /\ left \in [Workers -> Seq(Forms)]
    /\ made \in [Workers -> Seq(Forms)]
    /\ edit \in [Workers -> [lead: Nat, revision: Nat]]
    /\ begun \in 0..MaxRequests

Init ==
    /\ leads = <<>>
    /\ job = [w \in Workers |-> Idle]
    /\ held = [w \in Workers |-> {}]
    /\ left = [w \in Workers |-> <<>>]
    /\ made = [w \in Workers |-> <<>>]
    /\ edit = [w \in Workers |-> NoEdit]
    /\ begun = 0

----------------------------------------------------------------------------
(* The locks                                                                *)

\* Mutants: a call locks its own form only; enquiries leave the service row.
WantsOwnForm(j) ==
    CASE j.kind = "WEBSITE" -> {j.forms[1]}
      [] j.kind = "CALL" -> {j.user, j.forms[1]}
      [] j.kind = "DESK" -> {j.user}
      [] j.kind \in Enquiries -> {ServiceRow, j.forms[1]}
      [] OTHER -> {}
WantsPhones(j) ==
    CASE j.kind \in {"WEBSITE"} \cup Enquiries -> {j.forms[1]}
      [] j.kind = "CALL" -> {j.user} \cup Variants[j.forms[1]]
      [] j.kind = "DESK" -> {j.user}
      [] OTHER -> {}

\* Every call locks its caller; only callers' calls lock the phone.
Wants(j) ==
    CASE j.kind = "WEBSITE" -> {j.forms[1]}
      [] j.kind = "CALL" -> {j.user} \cup Variants[j.forms[1]]
      [] j.kind = "DESK" -> {j.user}
      [] j.kind \in Enquiries -> {ServiceRow, j.forms[1]}
      [] OTHER -> {}

\* Mutant: the form that was dialled first, then its variants.
FirstAsDialled(j) ==
    {p \in Wants(j) \X Wants(j) : p[2] # j.forms[1] /\ (p[1] = j.forms[1] \/ p[1] < p[2])}

\* p[1] is taken before p[2]: a row first, then the variants in their order.
InOrder(j) == {p \in Wants(j) \X Wants(j) : p[1] < p[2]}

Due(w, k) ==
    /\ k \in Wants(job[w]) \ held[w]
    /\ \A m \in Wants(job[w]) : <<m, k>> \in InOrder(job[w]) => m \in held[w]

Lock(w, k) ==
    /\ job[w] # Idle
    /\ Due(w, k)
    /\ \A v \in Workers : k \notin held[v]
    /\ held' = [held EXCEPT ![w] = @ \cup {k}]
    /\ UNCHANGED <<leads, job, left, made, edit, begun>>

----------------------------------------------------------------------------
(* The requests                                                             *)

Serve(w, j, e) ==
    /\ job[w] = Idle
    /\ begun < MaxRequests
    /\ begun' = begun + 1
    /\ job' = [job EXCEPT ![w] = j]
    /\ left' = [left EXCEPT ![w] = j.forms]
    /\ made' = [made EXCEPT ![w] = <<>>]
    /\ edit' = [edit EXCEPT ![w] = e]
    /\ UNCHANGED <<leads, held>>

Begin(w, j) == j.kind # "EDIT" /\ Serve(w, j, NoEdit)

\* Any lead for the apostille service, whoever made it: it may have no details
\* yet.  The form was read now or before.
BeginEdit(w, j, i, r) ==
    /\ j.kind = "EDIT"
    /\ leads[i].apostille
    /\ r <= leads[i].revision
    /\ Serve(w, j, [lead |-> i, revision |-> r])

Known(i, f) == leads[i].form \in Found[f]
Saved(e) == \E i \in DOMAIN leads : leads[i].event = e

\* find_duplicate_lead answers the first lead it finds.
First(f) == CHOOSE i \in DOMAIN leads : Known(i, f) /\ \A k \in DOMAIN leads : Known(k, f) => i <= k
New(f) == ~\E i \in DOMAIN leads : Known(i, f)

\* Mutant: a new enquiry only asks for the number.
AcceptsAnyEvent(j) == TRUE

\* An enquiry's identifier was not used: a replay answers the lead it saved.
Accepts(j) == ~Saved(j.event)

\* Counselors ask for the last ten digits too, and see what the batch made.
Unseen(w, f) ==
    LET sought == Found[f] \cup Local[f]
    IN  /\ \A i \in DOMAIN leads : leads[i].form \notin sought
        /\ \A n \in DOMAIN made[w] : made[w][n] \notin sought

\* Does the lookup of f let the request of w save it?
Passes(w, f) ==
    LET j == job[w]
        i == edit[w].lead
    IN  CASE j.kind = "WEBSITE" -> New(f)
          [] j.kind \in Calls -> ~\E l \in DOMAIN leads : leads[l].form \in Variants[f]
          [] j.kind = "APOSTILLE" -> Accepts(j) /\ New(f)
          [] j.kind = "EDIT" -> /\ edit[w].revision = leads[i].revision
                                /\ New(f) \/ First(f) = i
                                /\ leads[i].event = NoEvent => Accepts(j)
          [] j.kind = "COUNSELOR" -> Unseen(w, f)
          [] OTHER -> TRUE

Look(w) ==
    /\ job[w] # Idle
    /\ held[w] = Wants(job[w])
    /\ left[w] # <<>>
    /\ left' = [left EXCEPT ![w] = Tail(@)]
    /\ made' = IF Passes(w, Head(left[w]))
                 THEN [made EXCEPT ![w] = Append(@, Head(left[w]))]
                 ELSE made
    /\ UNCHANGED <<leads, job, held, edit, begun>>

\* The transaction ends, and its locks with it.
Leave(w) ==
    /\ job' = [job EXCEPT ![w] = Idle]
    /\ held' = [held EXCEPT ![w] = {}]
    /\ left' = [left EXCEPT ![w] = <<>>]
    /\ made' = [made EXCEPT ![w] = <<>>]
    /\ edit' = [edit EXCEPT ![w] = NoEdit]
    /\ UNCHANGED begun

\* An apostille enquiry has details from the start.
NewLead(j, f) ==
    [form |-> f, by |-> j.kind, apostille |-> j.apostille, event |-> j.event,
     revision |-> IF j.kind = "APOSTILLE" THEN 1 ELSE 0,
     saves |-> IF j.kind = "APOSTILLE" THEN 1 ELSE 0]

Done(w) ==
    /\ job[w] # Idle
    /\ held[w] = Wants(job[w])
    /\ left[w] = <<>>

\* The rows that what a request inserts refers to: who did it, and the service.  The
\* website and calls insert a row for a lead they found, too.
Refers(w) ==
    LET j == job[w]
    IN  {k \in {j.user} \cup {ServiceRow} :
            /\ made[w] # <<>> \/ j.kind \in {"WEBSITE"} \cup Calls
            /\ k = ServiceRow => j.apostille
            /\ k # NoUser}

\* Does the commit of w wait for a row that v holds?
Checks(w, v) == Done(w) /\ v # w /\ Refers(w) \cap held[v] # {}

MayCommit(w) == Done(w) /\ \A v \in Workers : ~Checks(w, v)

Create(w) ==
    /\ MayCommit(w)
    /\ job[w].kind # "EDIT" \/ made[w] = <<>>
    /\ leads' = leads \o [n \in DOMAIN made[w] |-> NewLead(job[w], made[w][n])]
    /\ Leave(w)

\* The details read under the locks, with their revision plus one.
Edited(l, w) ==
    [l EXCEPT !.form = made[w][1], !.by = "EDIT",
              !.event = IF @ = NoEvent THEN job[w].event ELSE @,
              !.revision = edit[w].revision + 1,
              !.saves = @ + 1]

SaveEdit(w) ==
    /\ MayCommit(w)
    /\ job[w].kind = "EDIT" /\ made[w] # <<>>
    /\ leads' = [leads EXCEPT ![edit[w].lead] = Edited(@, w)]
    /\ Leave(w)

\* The process dies, or the database ends a deadlock with it.
Crash(w) == job[w] # Idle /\ Leave(w) /\ UNCHANGED leads

\* A caller's or a manager's form writes any phone over a lead's; it waits for an
\* edit that has locked the lead.
Rewrite(i, f) ==
    /\ begun < MaxRequests
    /\ begun' = begun + 1
    /\ \A w \in Workers : edit[w].lead = i => left[w] # <<>>
    /\ leads' = [leads EXCEPT ![i].form = f, ![i].by = "REWRITE"]
    /\ UNCHANGED thread

Step(w) ==
    \/ \E j \in Jobs : \/ Begin(w, j)
                       \/ \E i \in DOMAIN leads : \E r \in 0..MaxRequests : BeginEdit(w, j, i, r)
    \/ \E k \in Keys : Lock(w, k)
    \/ Look(w)
    \/ Create(w)
    \/ SaveEdit(w)
    \/ Crash(w)

Next ==
    \/ \E w \in Workers : Step(w)
    \/ \E i \in DOMAIN leads, f \in Forms : Rewrite(i, f)

Spec == Init /\ [][Next]_vars

----------------------------------------------------------------------------
(* Properties                                                               *)

Locking == {"WEBSITE", "CALL", "APOSTILLE"}

\* Of two leads made by requests that lock their phone, and not renumbered since,
\* the later is never one its maker would have taken for the earlier: not in the
\* same form; no call's form beside one of its variants; and beside a call's, no
\* variant of it whose lookup finds the call's form.  The lookup and the insert
\* are apart, so this is the work of the locks: the website and enquiries hold
\* one form, a call holds all it knows (calls/phone.py:48, public_intake.py:33).
LockedNumbersAreUnique ==
    \A i, k \in DOMAIN leads :
        LET f == leads[i].form
            g == leads[k].form
        IN  i < k /\ leads[i].by \in Locking /\ leads[k].by \in Locking =>
                /\ f # g
                /\ leads[k].by = "CALL" => f \notin Variants[g]
                /\ leads[i].by = "CALL" /\ leads[k].by # "CALL" /\ g \in Variants[f] =>
                       f \notin Found[g]

\* A client_event_id is saved on one lead only, however often the request is
\* resent, crashes, or runs twice at once, and whatever was edited meanwhile:
\* the lead may have another number when the retry comes
\* (apps/leads/api/apostille_views.py:105, 134).
OneLeadPerEvent ==
    \A i, k \in DOMAIN leads :
        i # k /\ leads[i].event # NoEvent => leads[i].event # leads[k].event

\* No edit of an enquiry is overwritten by one that had not seen it: as many
\* revisions as saves (apps/leads/api/apostille_views.py:128).
RevisionCountsSaves ==
    \A i \in DOMAIN leads : leads[i].revision = leads[i].saves

Waits(w, v) ==
    \/ job[w] # Idle /\ \E k \in held[v] : Due(w, k)
    \/ Checks(w, v)

\* The commits that can close a circle: a website form's that names the service an
\* enquiry holds, an enquiry's that names its user, who is calling.
ClosesACircle(w, v) ==
    /\ Checks(w, v)
    /\ \/ job[w].kind = "WEBSITE" /\ job[v].kind \in Enquiries
       \/ job[w].kind \in Enquiries /\ job[v].kind = "CALL" /\ job[v].user = job[w].user

\* The locks that transactions take are taken in one order (calls/phone.py:54):
\* when some wait for each other in a circle, and the database has to end one, it
\* is closed by a foreign key, of a website form for the service of an enquiry
\* (public_intake.py:101, apostille_views.py:94), or of an enquiry by somebody
\* whose call is being saved (apostille_views.py:116, calls/api/views.py:51).
OnlyForeignKeysCloseACircle ==
    \A group \in (SUBSET Workers) \ {{}} :
        (\A w \in group : \E v \in group : Waits(w, v)) =>
            \E w, v \in group : ClosesACircle(w, v)

================================================================================
