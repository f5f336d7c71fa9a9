------------------------------ MODULE Timesheet ------------------------------
(***************************************************************************)
(* What the shifts of an employee promise, whatever the devices, managers  *)
(* and the midnight job do at the same time: at most one shift runs, it    *)
(* turns between work and rest, and each turn books all the time since the *)
(* last one, up to a time that is never earlier, as what it was spent on.  *)
(* A closed shift is never booked on again; a manager may amend when it    *)
(* ended, which leaves the books as they are.                              *)
(*                                                                         *)
(*         Begin          Turn                 Close                       *)
(*   none -------> work <------> rest    work, rest ------> closed         *)
(*                                                                         *)
(*   work, rest, closed - Amend -> closed                                  *)
(*                                                                         *)
(* Where a turn gets its time from, and how late it is entered, is left    *)
(* open.                                                                   *)
(***************************************************************************)
EXTENDS Integers

CONSTANT Sessions

VARIABLES
    doing,      \* "none", "work", "rest" or "closed"
    begun,      \* when the shift began
    upto,       \* the time up to which it is booked
    work,       \* the ticks booked as work
    rest        \* the ticks booked as rest

vars == <<doing, begun, upto, work, rest>>

Running == {"work", "rest"}

\* The ticks from t until u.
Span(t, u) == t..(u - 1)

Init ==
    /\ doing = [s \in Sessions |-> "none"]
    /\ begun = [s \in Sessions |-> 0]
    /\ upto = [s \in Sessions |-> 0]
    /\ work = [s \in Sessions |-> {}]
    /\ rest = [s \in Sessions |-> {}]

Begin(s) ==
    /\ doing[s] = "none"
    /\ \A r \in Sessions : doing[r] \notin Running
    /\ doing'[s] = "work"
    /\ upto'[s] = begun'[s]
    /\ work'[s] = {} /\ rest'[s] = {}

\* The time since the last turn goes to what it was spent on.
Book(s) ==
    /\ doing[s] \in Running
    /\ begun'[s] = begun[s]
    /\ upto[s] <= upto'[s]
    /\ work'[s] = work[s] \cup (IF doing[s] = "work" THEN Span(upto[s], upto'[s]) ELSE {})
    /\ rest'[s] = rest[s] \cup (IF doing[s] = "rest" THEN Span(upto[s], upto'[s]) ELSE {})

\* To rest, back to work, or from one piece of work to the next.
Turn(s) ==
    /\ Book(s)
    /\ doing'[s] \in IF doing[s] = "rest" THEN {"work"} ELSE Running

Close(s) == Book(s) /\ doing'[s] = "closed"

Keep(s) ==
    /\ doing'[s] = doing[s] /\ begun'[s] = begun[s] /\ upto'[s] = upto[s]
    /\ work'[s] = work[s] /\ rest'[s] = rest[s]

\* A manager sets the end of a shift that ran or was closed, and books nothing.
Amend(s) ==
    /\ doing[s] # "none" /\ doing'[s] = "closed"
    /\ begun'[s] = begun[s] /\ begun[s] <= upto'[s]
    /\ work'[s] = work[s] /\ rest'[s] = rest[s]

OthersKeep(s) == \A r \in Sessions \ {s} : Keep(r)

Turns == \E s \in Sessions : (Begin(s) \/ Turn(s) \/ Close(s)) /\ OthersKeep(s)

Amends == \E s \in Sessions : Amend(s) /\ OthersKeep(s)

Next == Turns \/ Amends

Spec == Init /\ [][Next]_vars

\* Worked and rested time never overlap, and together they are the whole shift,
\* unless its end was amended.
NoTickBookedTwice ==
    \A s \in Sessions :
        /\ work[s] \cap rest[s] = {}
        /\ doing[s] # "closed" => work[s] \cup rest[s] = Span(begun[s], upto[s])

\* So they are where no end is ever amended.
EveryTickBookedOnce ==
    \A s \in Sessions :
        /\ work[s] \cap rest[s] = {}
        /\ work[s] \cup rest[s] = Span(begun[s], upto[s])

=============================================================================
