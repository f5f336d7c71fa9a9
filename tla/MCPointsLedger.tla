---------------------------- MODULE MCPointsLedger ----------------------------
(* PointsLedger on small instances.                                         *)
EXTENDS PointsLedger

CONSTANTS c, d, l1, l2, mbbs, bds

Plain(who, event, at) ==
    [caller |-> who, event |-> event, lead |-> l1, started |-> at, ended |-> at,
     interested |-> FALSE, course |-> NoCourse, create |-> FALSE]

\* Calls of one day, with and without an event id, to one number and one that
\* makes a lead of another, and an Interested call of the other caller.
SomeCalls ==
    {Plain(c, "e1", 0),
     [Plain(c, NoEvent, 0) EXCEPT !.interested = TRUE, !.course = mbbs],
     [Plain(c, "e2", 1) EXCEPT !.lead = l2, !.course = bds, !.create = TRUE],
     [Plain(d, "e1", 1) EXCEPT !.interested = TRUE, !.course = bds, !.ended = 2]}

=============================================================================
