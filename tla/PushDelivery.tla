----------------------------- MODULE PushDelivery -----------------------------
(***************************************************************************)
(* What reaches employees' phones: the device registry                     *)
(* (apps/accounts/api/push_views.py), the inbox and the pushes of team     *)
(* events, due reminders, assigned and new website leads                   *)
(* (apps/notifications/team_events.py, apps/accounts/push_notifications.py)*)
(* and the receipts the check_push_receipts command asks for.              *)
(*                                                                         *)
(* An event's rows are saved in a transaction; the pushes leave after its  *)
(* commit, batch after batch, in the same thread.  Expo answers each batch *)
(* with tickets, and tells the fate of a ticket only when asked later.     *)
(* Between any two of these steps phones lose the app, get it back and     *)
(* register again.                                                         *)
(*                                                                         *)
(* Who an event is for is fixed; a device is its token; a registration     *)
(* time is the number of the registration.                                 *)
(***************************************************************************)
EXTENDS Integers, FiniteSets, Functions

CONSTANTS
    Users, Devices,
    Events, Website,    \* the events, and those that offer a website lead
    Audience,           \* the users an event is for
    BatchSize,          \* 100; 1 for an assignment
    AskLimit,           \* 1000 receipts a check asks for
    NoUser,
    MaxRegistrations    \* bound on the registrations

ASSUME PushAssumption ==
    /\ Website \subseteq Events
    /\ Audience \in [Events -> SUBSET Users]
    /\ BatchSize \in Nat \ {0} /\ AskLimit \in Nat \ {0}
    /\ NoUser \notin Users
    /\ MaxRegistrations \in Nat

VARIABLES
    phone,          \* external: has the phone the app, and did the app register?
    user, isActive, seen,    \* the PushDevice of a token
    registrations,
    stage,          \* of the thread that serves an event
    inbox,          \* Notification rows, committed
    composed,       \* the devices an event's thread read, as they were then
    left,           \* those it has still to send to
    air,            \* the batch on its way, with the tickets Expo makes of it
    offered,        \* website events whose lead is still unclaimed
    sent,           \* how often Expo was given the push of an event for a device
    receipts,       \* PushReceipt rows
    asked           \* the receipts a running check got an answer for

device == <<phone, user, isActive, seen, registrations>>
thread == <<stage, inbox, composed, left, air, sent>>
pushVars == <<device, thread, offered, receipts, asked>>

Tickets == {"ok", "gone", "failed"}

\* age: under 15 minutes, under 24 hours, older; fate: what became of the push.
Receipt == [event: Events, device: Devices, seen: 1..MaxRegistrations,
            age: {"young", "due", "old"}, fate: Tickets \cup {"unknown"}]

\* What is known of some of the devices, or of none.
OnSome(S) == UNION {[D -> S] : D \in SUBSET Devices}

None == [d \in {} |-> 0]

PushTypeOK ==
    /\ phone \in [Devices -> {"absent", "installed", "registered"}]
    /\ user \in [Devices -> Users \cup {NoUser}]
    /\ isActive \in [Devices -> BOOLEAN]
    /\ seen \in [Devices -> 0..MaxRegistrations]
    /\ registrations \in 0..MaxRegistrations
    /\ stage \in [Events -> {"new", "tx", "callback", "sending", "done"}]
    /\ inbox \subseteq Events \X Users
    /\ composed \in [Events -> OnSome(1..MaxRegistrations)]
    /\ left \in [Events -> SUBSET Devices]
    /\ air \in [Events -> OnSome(Tickets)]
    /\ \A e \in Events :
        /\ left[e] \subseteq DOMAIN composed[e]
        /\ DOMAIN air[e] \subseteq DOMAIN composed[e] \ left[e]
        /\ stage[e] # "sending" => left[e] = {} /\ air[e] = None
    /\ offered \subseteq Website
    /\ sent \in [Events \X Devices -> Nat]
    /\ receipts \subseteq Receipt
    /\ asked \subseteq Receipt

PushInit ==
    /\ phone = [d \in Devices |-> "installed"]
    /\ user = [d \in Devices |-> NoUser]
    /\ isActive = [d \in Devices |-> FALSE]
    /\ seen = [d \in Devices |-> 0]
    /\ registrations = 0
    /\ stage = [e \in Events |-> "new"]
    /\ inbox = {}
    /\ composed = [e \in Events |-> None]
    /\ left = [e \in Events |-> {}]
    /\ air = [e \in Events |-> None]
    /\ offered = Website
    /\ sent = [p \in Events \X Devices |-> 0]
    /\ receipts = {}
    /\ asked = {}

----------------------------------------------------------------------------
(* Devices                                                                  *)

\* Mutant: a token moves to the account that asks for it.
RegisterAnyone(d, u) ==
    /\ phone[d] # "absent"
    /\ registrations < MaxRegistrations
    /\ registrations' = registrations + 1
    /\ user' = [user EXCEPT ![d] = u]
    /\ isActive' = [isActive EXCEPT ![d] = TRUE]
    /\ seen' = [seen EXCEPT ![d] = registrations + 1]
    /\ phone' = [phone EXCEPT ![d] = "registered"]
    /\ UNCHANGED <<thread, offered, receipts, asked>>

\* A token stays with its first account: anyone else is refused with 409.
Register(d, u) ==
    /\ phone[d] # "absent"
    /\ user[d] \in {NoUser, u}
    /\ registrations < MaxRegistrations
    /\ registrations' = registrations + 1
    /\ user' = [user EXCEPT ![d] = u]
    /\ isActive' = [isActive EXCEPT ![d] = TRUE]
    /\ seen' = [seen EXCEPT ![d] = registrations + 1]
    /\ phone' = [phone EXCEPT ![d] = "registered"]
    /\ UNCHANGED <<thread, offered, receipts, asked>>

\* The employee takes the device off the list.
Remove(d) ==
    /\ user[d] # NoUser
    /\ isActive' = [isActive EXCEPT ![d] = FALSE]
    /\ phone' = [phone EXCEPT ![d] = IF @ = "registered" THEN "installed" ELSE @]
    /\ UNCHANGED <<user, seen, registrations, thread, offered, receipts, asked>>

Uninstall(d) ==
    /\ phone[d] # "absent"
    /\ phone' = [phone EXCEPT ![d] = "absent"]
    /\ UNCHANGED <<user, isActive, seen, registrations, thread, offered, receipts, asked>>

Install(d) ==
    /\ phone[d] = "absent"
    /\ phone' = [phone EXCEPT ![d] = "installed"]
    /\ UNCHANGED <<user, isActive, seen, registrations, thread, offered, receipts, asked>>

\* Mutant: whatever registered since.
AnyRegistration(d, then) == [isActive EXCEPT ![d] = FALSE]

\* deactivate_unregistered: only the registration the push was sent to.
Deactivated(d, then) == [isActive EXCEPT ![d] = @ /\ seen[d] # then]

----------------------------------------------------------------------------
(* Sending                                                                  *)

Go(e, from, to) ==
    /\ stage[e] = from
    /\ stage' = [stage EXCEPT ![e] = to]

\* An offer leaves nothing in the inbox: whoever is first takes the lead.
Entries(e) == IF e \in Website THEN {} ELSE {e} \X Audience[e]

\* The active devices of those an event is for, and when each registered.
Reached(e) == Restrict(seen, {d \in Devices : isActive[d] /\ user[d] \in Audience[e]})

\* The rows of the inbox are written, or the lead of a website event is.
Persist(e) ==
    /\ Go(e, "new", "tx")
    /\ UNCHANGED <<device, inbox, composed, left, air, sent, offered, receipts, asked>>

Commit(e) ==
    /\ Go(e, "tx", "callback")
    /\ inbox' = inbox \cup Entries(e)
    /\ UNCHANGED <<device, composed, left, air, sent, offered, receipts, asked>>

\* Mutant: the devices are read, and pushed to, before the commit.
ComposeAtOnce(e) ==
    /\ stage[e] \in {"tx", "callback"}
    /\ stage' = [stage EXCEPT ![e] = "sending"]
    /\ composed' = [composed EXCEPT ![e] = Reached(e)]
    /\ left' = [left EXCEPT ![e] = DOMAIN composed'[e]]
    /\ UNCHANGED <<device, inbox, air, sent, offered, receipts, asked>>

\* A website lead that was claimed meanwhile is not offered.
Compose(e) ==
    /\ Go(e, "callback", "sending")
    /\ composed' = [composed EXCEPT ![e] =
           IF e \in Website \ offered THEN None
           ELSE Reached(e)]
    /\ left' = [left EXCEPT ![e] = DOMAIN composed'[e]]
    /\ UNCHANGED <<device, inbox, air, sent, offered, receipts, asked>>

\* Expo refuses a phone it knows to have lost the app; it may not know yet.
TicketFor(d) == {"ok", "failed"} \cup (IF phone[d] = "absent" THEN {"gone"} ELSE {})

Send(e) ==
    /\ stage[e] = "sending" /\ air[e] = None
    /\ e \in Website => e \in offered
    /\ \E batch \in SUBSET left[e] :
        /\ Cardinality(batch) = IF Cardinality(left[e]) < BatchSize
                                  THEN Cardinality(left[e]) ELSE BatchSize
        /\ batch # {}
        /\ \E tickets \in [batch -> Tickets] :
            /\ \A d \in batch : tickets[d] \in TicketFor(d)
            /\ air' = [air EXCEPT ![e] = tickets]
        /\ left' = [left EXCEPT ![e] = @ \ batch]
        /\ sent' = [p \in DOMAIN sent |->
                       IF p[1] = e /\ p[2] \in batch THEN sent[p] + 1 ELSE sent[p]]
    /\ UNCHANGED <<device, stage, inbox, composed, offered, receipts, asked>>

Gone(e) == {d \in DOMAIN air[e] : air[e][d] = "gone"}

\* What is kept of a ticket Expo took, with the registration the push was for.
Accepted(e, d) ==
    IF air[e][d] = "ok"
    THEN {[event |-> e, device |-> d, seen |-> composed[e][d], age |-> "young", fate |-> "unknown"]}
    ELSE {}

\* One ticket of the batch is kept, or deactivates its device; each is a write of its
\* own.
Answer(e, d) ==
    /\ d \in DOMAIN air[e]
    /\ isActive' = IF d \in Gone(e) THEN Deactivated(d, composed[e][d]) ELSE isActive
    /\ receipts' = receipts \cup Accepted(e, d)
    /\ air' = [air EXCEPT ![e] = Restrict(@, DOMAIN @ \ {d})]
    /\ UNCHANGED <<phone, user, seen, registrations, stage, inbox, composed, left, sent, offered, asked>>

\* Mutant: a batch without an answer is sent again.
Resend(e) ==
    /\ air[e] # None
    /\ \A d \in DOMAIN air[e] : sent[<<e, d>>] < 2
    /\ left' = [left EXCEPT ![e] = @ \cup DOMAIN air[e]]
    /\ air' = [air EXCEPT ![e] = None]
    /\ UNCHANGED <<device, stage, inbox, composed, sent, offered, receipts, asked>>

\* The request timed out, its answer makes no sense or a ticket cannot be stored: what
\* is left of the batch is given up.
NoAnswer(e) ==
    /\ air[e] # None
    /\ air' = [air EXCEPT ![e] = None]
    /\ UNCHANGED <<device, stage, inbox, composed, left, sent, offered, receipts, asked>>

\* Everything is sent, or the lead was claimed between two batches.
Finish(e) ==
    /\ air[e] = None
    /\ left[e] = {} \/ e \in Website \ offered
    /\ Go(e, "sending", "done")
    /\ left' = [left EXCEPT ![e] = {}]
    /\ UNCHANGED <<device, inbox, composed, air, sent, offered, receipts, asked>>

\* A rollback, or the end of the process: what was not sent never is.
Crash(e) ==
    /\ stage[e] \in {"tx", "callback", "sending"}
    /\ stage' = [stage EXCEPT ![e] = "done"]
    /\ left' = [left EXCEPT ![e] = {}]
    /\ air' = [air EXCEPT ![e] = None]
    /\ UNCHANGED <<device, inbox, composed, sent, offered, receipts, asked>>

Claim(e) ==
    /\ stage[e] # "new"
    /\ e \in offered
    /\ offered' = offered \ {e}
    /\ UNCHANGED <<device, thread, receipts, asked>>

----------------------------------------------------------------------------
(* Receipts                                                                 *)

\* External: the push reaches the phone, or finds no app, or Expo fails.
Fate(r) ==
    /\ r.fate = "unknown"
    /\ \E f \in {"failed", IF phone[r.device] = "absent" THEN "gone" ELSE "ok"} :
           receipts' = (receipts \ {r}) \cup {[r EXCEPT !.fate = f]}
    /\ UNCHANGED <<device, thread, offered, asked>>

Grow(r) ==
    /\ r.age # "old"
    /\ receipts' = (receipts \ {r}) \cup {[r EXCEPT !.age = IF @ = "young" THEN "due" ELSE "old"]}
    /\ UNCHANGED <<device, thread, offered, asked>>

\* What Expo knows nothing of yet is kept for another check.
Told(S) == {r \in S : r.fate # "unknown"}

\* Receipts of a day are dropped; Expo is asked for those due.
Ask ==
    /\ asked = {}
    /\ receipts' = {r \in receipts : r.age # "old"}
    /\ \E S \in SUBSET {r \in receipts : r.age = "due"} :
        /\ S = {r \in receipts : r.age = "due"} \/ Cardinality(S) = AskLimit
        /\ Cardinality(S) <= AskLimit
        /\ asked' = Told(S)
    /\ UNCHANGED <<device, thread, offered>>

\* An age does not change what a receipt is: ticket_id is.
SameTicket(r, s) == r.event = s.event /\ r.device = s.device

Settle(r) ==
    /\ r \in asked
    /\ isActive' = IF r.fate = "gone" THEN Deactivated(r.device, r.seen) ELSE isActive
    /\ receipts' = {s \in receipts : ~SameTicket(r, s)}
    /\ asked' = asked \ {r}
    /\ UNCHANGED <<phone, user, seen, registrations, thread, offered>>

\* The network fails, or the command dies: the rest waits for another check.
GiveUp ==
    /\ asked # {}
    /\ asked' = {}
    /\ UNCHANGED <<device, thread, offered, receipts>>

Phones(d) == (\E u \in Users : Register(d, u)) \/ Remove(d) \/ Uninstall(d) \/ Install(d)

PushNext ==
    \/ \E d \in Devices : Phones(d)
    \/ \E e \in Events :
        \/ Persist(e) \/ Commit(e) \/ Compose(e)
        \/ Send(e) \/ NoAnswer(e) \/ Finish(e)
        \/ \E d \in Devices : Answer(e, d)
        \/ Crash(e) \/ Claim(e)
    \/ \E r \in receipts : Fate(r) \/ Grow(r)
    \/ \E r \in asked : Settle(r)
    \/ Ask
    \/ GiveUp

PushSpec == PushInit /\ [][PushNext]_pushVars

----------------------------------------------------------------------------
(* Properties                                                               *)

\* An app that registered, and was not removed since, is pushed to: no ticket
\* and no receipt of a push sent before, when the phone had lost the app,
\* switches it off, however late it comes (docs/website-lead-push.md:
\* "protects a re-registered device from stale receipts").
RegisteredPhonesAreReached == \A d \in Devices : phone[d] = "registered" => isActive[d]

\* A push that tells of an inbox entry never leaves before the entry is
\* committed, so a rollback leaves no push that opens nothing
\* (apps/notifications/team_events.py:15).
PushesHaveTheirEntry ==
    \A e \in Events \ Website, d \in Devices :
        sent[<<e, d>>] > 0 => <<e, user[d]>> \in inbox

\* A phone never rings twice for one event, although a batch whose answer is
\* lost may well have been delivered (docs/website-lead-push.md: "avoids
\* retrying an ambiguously accepted send").
NoPushTwice == \A p \in DOMAIN sent : sent[p] <= 1

\* Nobody an event is not for gets its push: the devices of its audience are
\* read once and pushed to batch by batch, and a token that another account
\* asks for meanwhile stays with its first one
\* (apps/accounts/api/push_views.py:27).
PushesGoToTheAudience ==
    \A e \in Events, d \in Devices : sent[<<e, d>>] > 0 => user[d] \in Audience[e]

================================================================================
