----------------------------- MODULE MCShiftPolicy -----------------------------
(* ShiftPolicy on small instances.                                          *)
EXTENDS ShiftPolicy

Asked(type, end, hours) == [type |-> type, end |-> end, hours |-> hours]

\* An early end from the second tick on, one for net hours, and a late arrival.
SomeAsks ==
    {Asked("EARLY_SHIFT_END", 1, Never), Asked("EARLY_SHIFT_END", Never, 1),
     Asked("LATE_ARRIVAL", Never, Never)}

\* A missing checkout, and a correction of the net hours.
SomeEarlierAsks == {Asked("MISSING_CHECKOUT", 1, Never), Asked("OTHER", Never, 2)}

SomeWindows ==
    {[rule |-> "MIN_DURATION", from |-> 0, until |-> 1],
     [rule |-> "END_SHIFT_GEOFENCE", from |-> 1, until |-> 2]}

SomeSpans == {<<0, 0>>, <<0, 1>>}

=============================================================================
