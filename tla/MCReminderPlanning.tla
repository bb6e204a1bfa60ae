-------------------------- MODULE MCReminderPlanning --------------------------
(* ReminderPlanning for TLC: quiet hours inside the modelled time, rules of  *)
(* every kind around them.                                                   *)
EXTENDS ReminderPlanning

QuietHours == {2, 3}
Alone == [kind |-> "task", start |-> 3, boundary |-> 3]
Early == [kind |-> "task", start |-> 1, boundary |-> NoBoundary]
Meeting == [kind |-> "event", start |-> 2, boundary |-> 3]

AllTasks == {Alone, Early, Meeting}
Exact(moments) ==
  [exact: {TRUE}, at: moments, explicit: BOOLEAN, respect: BOOLEAN, user: {TRUE}]
Relative ==
  [exact: {FALSE}, at: {-1, 0}, explicit: {FALSE}, respect: {TRUE}, user: BOOLEAN]
SomeRules == Exact(0 .. 5) \cup Relative
TwoSnoozes == {2, 5}
LateSnooze == {5}
=============================================================================
