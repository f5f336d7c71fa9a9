----------------------------- MODULE WorkloadAlerts -----------------------------
(***************************************************************************)
(* The low-workload alerts of callers (apps/leads/workload.py) and what    *)
(* keeps them: the signals of Lead (apps/leads/signals.py), bulk           *)
(* assignment (apps/leads/services.py:633), calls                          *)
(* (apps/calls/api/views.py:195) and the check_caller_workload command.    *)
(*                                                                         *)
(* A thread changes leads in a transaction.  A bulk assignment and a call  *)
(* lock them first, and evaluate the callers inside it; every save queues  *)
(* evaluations that run after the commit, one by one, each a transaction   *)
(* of its own.  Forms lock nothing: whom to evaluate is found by comparing *)
(* with the row before the save, which another's commit may change while   *)
(* the save waits.  An evaluation counts the pending leads, then locks the *)
(* caller's open alert and writes: these are two steps.                    *)
(*                                                                         *)
(* The database is PostgreSQL: others' uncommitted writes are not seen, a  *)
(* written row is locked to the end of the transaction, the insert of a    *)
(* second open alert waits for the first, and of transactions that wait in *)
(* a circle one is rolled back.                                            *)
(*                                                                         *)
(* An open alert is the count it shows (the leads suggested follow from    *)
(* it); resolved ones are never read again.  A deleted lead, or one not    *)
(* yet made, is one without owner that is not pending.                     *)
(***************************************************************************)
EXTENDS Integers, FiniteSets, Sequences, SequencesExt

CONSTANTS
    Callers, NoCaller,
    Leads,
    Threshold,          \* CALLER_WORKLOAD_LOW_THRESHOLD
    Workers,            \* server threads, and the command's process
    NoAlert, NotRead, NoForm,
    MaxOperations,      \* bound on saves, assignments, calls and checks
    MaxAccidents        \* bound on employees losing or gaining the role, and
                        \* on processes that die before their callbacks

ASSUME WorkloadAssumption ==
    /\ NoCaller \notin Callers
    /\ IsFiniteSet(Callers) /\ IsFiniteSet(Leads)
    /\ Threshold \in Nat
    /\ NoAlert \notin Nat /\ NotRead \notin Nat
    /\ MaxOperations \in Nat /\ MaxAccidents \in Nat

VARIABLES
    lead,       \* what is committed of the leads
    able,       \* is_caller_capable
    alert,      \* the open alert of each caller, committed
    stage,      \* what a thread does
    form,       \* the save of one lead it is about to make
    saved,      \* the leads its transaction wrote, and holds locked
    written,    \* the open alerts its transaction wrote, and holds locked
    todo,       \* callers it has to evaluate, in order
    queued,     \* callers its on_commit callbacks will evaluate
    known,      \* callers it loaded that could call then
    count,      \* the pending leads it read for the first of todo
    drifted,    \* history: callers whose alert was last written from an old count
    alone,      \* history: the thread whose check had the system for itself
    operations, accidents

thread == <<stage, form, saved, written, todo, queued, known, count>>
bounds == <<operations, accidents>>
alertsVars == <<lead, able, alert, thread, drifted, alone, bounds>>

Lead == [owner: Callers \cup {NoCaller}, pending: BOOLEAN]
\* The row a save was compared with, the row it has in hand, and whether it writes
\* the whole of it or the status only.
Form == [lead: Leads, old: Lead, new: Lead, whole: BOOLEAN]
Alert == 0..Cardinality(Leads) \cup {NoAlert}

\* The rows a transaction wrote, over those that are committed.
Over(rows, committed) ==
    [x \in DOMAIN rows \cup DOMAIN committed |-> IF x \in DOMAIN rows THEN rows[x] ELSE committed[x]]

SomeOf(S, Row) == UNION {[T -> Row] : T \in SUBSET S}
NoWrites == [x \in {} |-> NoAlert]

AlertsTypeOK ==
    /\ lead \in [Leads -> Lead]
    /\ able \subseteq Callers
    /\ alert \in [Callers -> Alert]
    /\ stage \in [Workers -> {"idle", "form", "tx", "callbacks", "check"}]
    /\ form \in [Workers -> Form \cup {NoForm}]
    /\ saved \in [Workers -> SomeOf(Leads, Lead)]
    /\ written \in [Workers -> SomeOf(Callers, Alert)]
    /\ \A w \in Workers :
        /\ stage[w] = "form" => form[w] \in Form
        /\ stage[w] # "tx" => saved[w] = NoWrites /\ written[w] = NoWrites
        /\ stage[w] # "callbacks" => queued[w] = {}
        /\ stage[w] \in {"idle", "form"} => todo[w] = <<>>
    /\ todo \in [Workers -> Seq(Callers)]
    /\ queued \in [Workers -> SUBSET Callers]
    /\ known \in [Workers -> SUBSET Callers]
    /\ count \in [Workers -> 0..Cardinality(Leads) \cup {NotRead}]
    /\ drifted \subseteq Callers
    /\ alone \subseteq Workers
    /\ operations \in 0..MaxOperations
    /\ accidents \in 0..MaxAccidents

\* get_caller_pending_lead_count
PendingOf(rows, c) == Cardinality({l \in Leads : rows[l].owner = c /\ rows[l].pending})

\* What an evaluation of c leaves: nothing open, or an alert with the count.
AlertFor(n) == IF n <= Threshold THEN n ELSE NoAlert
Right(rows, who, c) == IF c \in who THEN AlertFor(PendingOf(rows, c)) ELSE NoAlert

\* Every caller was just evaluated.
AlertsInit ==
    /\ lead \in [Leads -> Lead]
    /\ able = Callers
    /\ alert = [c \in Callers |-> Right(lead, able, c)]
    /\ stage = [w \in Workers |-> "idle"]
    /\ form = [w \in Workers |-> NoForm]
    /\ saved = [w \in Workers |-> NoWrites]
    /\ written = [w \in Workers |-> NoWrites]
    /\ todo = [w \in Workers |-> <<>>]
    /\ queued = [w \in Workers |-> {}]
    /\ known = [w \in Workers |-> {}]
    /\ count = [w \in Workers |-> NotRead]
    /\ drifted = {}
    /\ alone = {}
    /\ operations = 0 /\ accidents = 0

----------------------------------------------------------------------------
(* Transactions                                                             *)

LockedLead(l) == \E v \in Workers : l \in DOMAIN saved[v]

\* Mutant: only the new owner is evaluated.
NewOwnerTouched(old, new) == {new.owner} \ {NoCaller}

\* The callers a saved lead makes the signals evaluate.
Touched(old, new) ==
    (IF old.owner # new.owner THEN {old.owner, new.owner}
     ELSE IF old.pending # new.pending THEN {new.owner}
     ELSE {}) \ {NoCaller}

Begin(w) ==
    /\ stage[w] = "idle"
    /\ operations < MaxOperations
    /\ operations' = operations + 1
    /\ UNCHANGED <<able, alert, written, count, drifted, accidents>>

\* Whatever begins beside a check, or after it, ends its being alone.
BeginOther(w) == Begin(w) /\ alone' = {}

\* One lead is made, edited, claimed, released or deleted: the row before it is read,
\* without a lock.  The row in hand may be an older one.
Peek(w, l, new, whole) ==
    /\ BeginOther(w)
    /\ form' = [form EXCEPT ![w] = [lead |-> l, old |-> lead[l], new |-> new, whole |-> whole]]
    /\ stage' = [stage EXCEPT ![w] = "form"]
    /\ UNCHANGED <<lead, saved, todo, queued, known>>

Updated(w) ==
    LET f == form[w]
    IN  IF f.whole THEN f.new ELSE [lead[f.lead] EXCEPT !.pending = f.new.pending]

\* The callers whose backlog a save changes behind the row it was compared with.
Missed(w) ==
    LET f == form[w]
    IN  IF f.old = lead[f.lead] THEN {}
        ELSE Touched(lead[f.lead], Updated(w)) \ Touched(f.old, f.new)

\* The save waits for a lock on the row, then commits.
Save(w) ==
    LET f == form[w]
    IN  /\ stage[w] = "form"
        /\ ~LockedLead(f.lead)
        /\ lead' = [lead EXCEPT ![f.lead] = Updated(w)]
        /\ drifted' = drifted \cup Missed(w)
        /\ queued' = [queued EXCEPT ![w] = Touched(f.old, f.new)]
        /\ stage' = [stage EXCEPT ![w] = IF Touched(f.old, f.new) = {} THEN "idle" ELSE "callbacks"]
        /\ form' = [form EXCEPT ![w] = NoForm]
        /\ UNCHANGED <<able, alert, saved, written, todo, known, count, alone, bounds>>

Moved(S, c, reassign) ==
    {l \in S : lead[l].owner = NoCaller \/ (reassign /\ lead[l].owner # c)}

\* The new caller is evaluated first, the earlier ones in any order.
BulkAssign(w, S, c, reassign) ==
    LET moved == Moved(S, c, reassign)
        earlier == {lead[l].owner : l \in moved} \ {NoCaller}
    IN  /\ BeginOther(w)
        /\ c \in able
        /\ \A l \in S : ~LockedLead(l)
        /\ moved # {}
        /\ saved' = [saved EXCEPT ![w] = [l \in moved |-> [lead[l] EXCEPT !.owner = c]]]
        /\ \E order \in SetToSeqs(earlier) : todo' = [todo EXCEPT ![w] = <<c>> \o order]
        /\ known' = [known EXCEPT ![w] = able]
        /\ stage' = [stage EXCEPT ![w] = "tx"]
        /\ UNCHANGED <<lead, form, queued>>

\* A call's outcome sets the lead's status, whoever called; that of a website lead to
\* be tried again then takes the lead from its caller.
Call(w, l, pending, released) ==
    /\ BeginOther(w)
    /\ released => ~pending
    /\ ~LockedLead(l)
    /\ lead[l].owner # NoCaller
    /\ saved' = [saved EXCEPT ![w] = [x \in {l} |->
                    [owner |-> IF released THEN NoCaller ELSE lead[l].owner, pending |-> pending]]]
    /\ todo' = [todo EXCEPT ![w] = <<lead[l].owner>>]
    /\ known' = [known EXCEPT ![w] = able]
    /\ stage' = [stage EXCEPT ![w] = "tx"]
    /\ UNCHANGED <<lead, form, queued>>

\* check_caller_workload lists the callers, evaluates them as it loaded them.
StartCheck(w) ==
    /\ Begin(w)
    /\ alone' = {v \in {w} : \A u \in Workers \ {w} : stage[u] = "idle"}
    /\ \E order \in SetToSeqs(able) : todo' = [todo EXCEPT ![w] = order]
    /\ known' = [known EXCEPT ![w] = able]
    /\ stage' = [stage EXCEPT ![w] = "check"]
    /\ UNCHANGED <<lead, form, saved, queued>>

----------------------------------------------------------------------------
(* Evaluations                                                              *)

Others(w) == Workers \ {w}
LockedAlert(w, c) == \E v \in Others(w) : c \in DOMAIN written[v]

\* A callback loads its caller now, a transaction and the check did before.
Capable(w, c) == c \in (IF stage[w] = "callbacks" THEN able ELSE known[w])

Read(w) ==
    /\ todo[w] # <<>>
    /\ count[w] = NotRead
    /\ Capable(w, Head(todo[w]))
    /\ count' = [count EXCEPT ![w] = PendingOf(Over(saved[w], lead), Head(todo[w]))]
    /\ UNCHANGED <<lead, able, alert, stage, form, saved, written, todo, queued, known, drifted, alone, bounds>>

Callback(w, c) ==
    /\ stage[w] = "callbacks"
    /\ todo[w] = <<>>
    /\ c \in queued[w]
    /\ queued' = [queued EXCEPT ![w] = @ \ {c}]
    /\ todo' = [todo EXCEPT ![w] = <<c>>]
    /\ UNCHANGED <<lead, able, alert, stage, form, saved, written, known, count, drifted, alone, bounds>>

\* Some row is in the way: an open alert to lock, or one to insert beside.
\* A count above the threshold only looks, and sees what is committed.
Seeks(w, c) == (count[w] # NotRead /\ count[w] <= Threshold) \/ alert[c] # NoAlert

Waits(w, v) ==
    /\ todo[w] # <<>>
    /\ count[w] # NotRead \/ ~Capable(w, Head(todo[w]))
    /\ Head(todo[w]) \in DOMAIN written[v]
    /\ Seeks(w, Head(todo[w]))

MayWrite(w, c) == ~(Seeks(w, c) /\ LockedAlert(w, c))

\* Opened, updated in place or resolved.
Written(w, c) == IF count[w] = NotRead THEN NoAlert ELSE AlertFor(count[w])

Evaluated(w, c, rows) ==
    LET seen == IF c \in DOMAIN written[w] THEN written[w][c] ELSE alert[c]
    IN  IF seen = NoAlert /\ Written(w, c) = NoAlert THEN rows
        ELSE Over([x \in {c} |-> Written(w, c)], rows)

\* Alerts that become visible with values nobody would write now.
Drift(rows, who) ==
    {c \in who : rows[c] # Right(lead', able, c)} \cup
    (drifted \ who)

Write(w) ==
    LET c == Head(todo[w])
    IN  /\ todo[w] # <<>>
        /\ count[w] # NotRead \/ ~Capable(w, c)
        /\ MayWrite(w, c)
        /\ UNCHANGED <<lead, able, form, saved, queued, known, alone, bounds>>
        /\ IF stage[w] = "tx"
             THEN /\ written' = [written EXCEPT ![w] = Evaluated(w, c, @)]
                  /\ UNCHANGED <<alert, drifted>>
             ELSE /\ alert' = Evaluated(w, c, alert)
                  /\ drifted' = Drift(alert', {c})
                  /\ UNCHANGED written
        /\ todo' = [todo EXCEPT ![w] = Tail(@)]
        /\ count' = [count EXCEPT ![w] = NotRead]
        /\ stage' = [stage EXCEPT ![w] =
                        IF @ = "callbacks" /\ queued[w] = {} THEN "idle" ELSE @]

\* The locks fall, and the callbacks of the saves run.
Commit(w) ==
    /\ stage[w] = "tx"
    /\ todo[w] = <<>>
    /\ lead' = Over(saved[w], lead)
    /\ alert' = Over(written[w], alert)
    /\ drifted' = Drift(alert', DOMAIN written[w])
    /\ saved' = [saved EXCEPT ![w] = NoWrites]
    /\ written' = [written EXCEPT ![w] = NoWrites]
    /\ queued' = [queued EXCEPT ![w] = UNION {Touched(lead[l], saved[w][l]) : l \in DOMAIN saved[w]}]
    /\ stage' = [stage EXCEPT ![w] = IF queued'[w] = {} THEN "idle" ELSE "callbacks"]
    /\ UNCHANGED <<able, form, todo, known, count, alone, bounds>>

\* Mutant: the check evaluates its list and nobody else.
Nobody(w) == {}

\* The check resolves the alerts of everyone it did not list.
Unlisted(w) == {c \in Callers \ known[w] : alert[c] # NoAlert}

EndCheck(w) ==
    /\ stage[w] = "check"
    /\ todo[w] = <<>>
    /\ \A c \in Unlisted(w) : ~LockedAlert(w, c)
    /\ alert' = [c \in Callers |-> IF c \in Unlisted(w) THEN NoAlert ELSE alert[c]]
    /\ stage' = [stage EXCEPT ![w] = "idle"]
    /\ UNCHANGED lead
    /\ drifted' = Drift(alert', Unlisted(w))
    /\ UNCHANGED <<able, form, saved, written, todo, queued, known, count, alone, bounds>>

Drop(w) ==
    /\ form' = [form EXCEPT ![w] = NoForm]
    /\ saved' = [saved EXCEPT ![w] = NoWrites]
    /\ written' = [written EXCEPT ![w] = NoWrites]
    /\ todo' = [todo EXCEPT ![w] = <<>>]
    /\ queued' = [queued EXCEPT ![w] = {}]
    /\ count' = [count EXCEPT ![w] = NotRead]
    /\ stage' = [stage EXCEPT ![w] = "idle"]
    /\ UNCHANGED <<lead, able, alert, known, operations>>

InACircle(w) ==
    \E group \in SUBSET Workers :
        w \in group /\ \A v \in group : \E u \in group \ {v} : Waits(v, u)

\* The database picks a victim of the deadlock, and its changes are lost.
Rollback(w) ==
    /\ stage[w] = "tx"
    /\ InACircle(w)
    /\ Drop(w)
    /\ UNCHANGED <<drifted, alone, accidents>>

\* The process dies; what it committed stays, its callbacks are lost.
Crash(w) ==
    /\ stage[w] # "idle"
    /\ accidents < MaxAccidents
    /\ accidents' = accidents + 1
    /\ drifted' = IF stage[w] = "callbacks" THEN drifted \cup queued[w] \cup ToSet(todo[w])
                  ELSE drifted
    /\ alone' = alone \ {w}
    /\ Drop(w)

\* An employee's role, capability or account is changed: nothing is evaluated.
Switch(c) ==
    /\ accidents < MaxAccidents
    /\ accidents' = accidents + 1
    /\ able' = IF c \in able THEN able \ {c} ELSE able \cup {c}
    /\ drifted' = drifted \cup {c}
    /\ alone' = {}
    /\ UNCHANGED <<lead, alert, thread, operations>>

Work(w) ==
    \/ Save(w)
    \/ Read(w)
    \/ \E c \in Callers : Callback(w, c)
    \/ Write(w)
    \/ Commit(w)
    \/ EndCheck(w)
    \/ Rollback(w)

AlertsNext ==
    \/ \E w \in Workers :
        \/ \E l \in Leads, new \in Lead, whole \in BOOLEAN : Peek(w, l, new, whole)
        \/ \E S \in SUBSET Leads, c \in Callers, reassign \in BOOLEAN : BulkAssign(w, S, c, reassign)
        \/ \E l \in Leads, pending, released \in BOOLEAN : Call(w, l, pending, released)
        \/ StartCheck(w)
        \/ Work(w)
        \/ Crash(w)
    \/ \E c \in Callers : Switch(c)

AlertsSpec == AlertsInit /\ [][AlertsNext]_alertsVars

----------------------------------------------------------------------------
(* Properties                                                               *)

InSync(c) == alert[c] = Right(lead, able, c)

\* Will a callback still look at c?
Awaited(c) ==
    \E w \in Workers : stage[w] = "callbacks" /\ (c \in queued[w] \/ c \in ToSet(todo[w]))

\* Every change of a backlog is followed by an evaluation of everybody it
\* touches: an alert that is wrong, and that nobody is about to look at, was
\* written from a count that was old by then, or a role changed, or the
\* process died before its callbacks (apps/leads/signals.py:4, 22, 76), or a
\* form was saved over a row that had changed since it was compared (line 38).
EveryChangeIsEvaluated == \A c \in Callers : InSync(c) \/ c \in drifted \/ Awaited(c)

\* A check that had the system for itself leaves every alert true, whatever
\* went wrong before it: dropped callbacks, roles that changed, old counts
\* (apps/leads/workload.py:231).
CheckRepairs == \A w \in alone : stage[w] = "idle" => \A c \in Callers : InSync(c)

================================================================================
