-------------------------- MODULE MCReminderDelivery --------------------------
(* ReminderDelivery for TLC: one or three rows, two handlers, and for each   *)
(* question the task and the disturbances that make it interesting.          *)
EXTENDS ReminderDelivery, TLC

CONSTANTS h1, h2

OneHandler == {h1}
TwoHandlers == {h1, h2}
Symmetry == Permutations(Workers)
NoQuiet == {}
OneMinute == {1}
TwoMinutes == {2}
TwoRows == {1, 2}
ThreeRows == {1, 2, 3}

(* An ordinary task, due a minute after its reminder, and nothing else. *)
Ordinary ==
  [importance |-> "normal", firstAt |-> 1, dueAt |-> 2, briefingAt |-> 0,
   rows |-> {1, 2}, crashes |-> 0, faults |-> 0, edits |-> 0, kinds |-> {}]

(* The occurrence is closed, reopened and rescheduled under the handlers:   *)
(* twice with one row, and with two rows once or without a new plan.        *)
Edited ==
  LET All == {"close", "reopen", "reschedule"}
  IN {[Ordinary EXCEPT !.rows = {1}, !.edits = 2, !.kinds = All],
      [Ordinary EXCEPT !.edits = 1, !.kinds = All],
      [Ordinary EXCEPT !.edits = 2, !.kinds = All \ {"reschedule"}]}

(* The account is disabled and restored, the reminder withdrawn or muted. *)
Accounted ==
  [Ordinary EXCEPT !.edits = 2,
                   !.kinds = {"withdraw", "disable", "restore", "snooze", "mute"}]

(* A crash and a failing call, anywhere. *)
Failing == [Ordinary EXCEPT !.crashes = 1, !.faults = 1]

(* A critical task at its deadline, with the digest at its last moment. *)
Overdue ==
  [Ordinary EXCEPT !.importance = "critical", !.firstAt = 0, !.dueAt = 0,
                   !.briefingAt = 2, !.rows = Rows]

(* A critical task where a call may fail once, the one that names the next  *)
(* contact to the queue among them.                                         *)
Unarmed ==
  [Overdue EXCEPT !.firstAt = 2, !.dueAt = 2, !.rows = {1, 2}, !.faults = 1]

Disturbances == Edited \cup {Accounted, Failing, Overdue, Unarmed}

(* One reminder, to follow it to its end; and a critical one in the slot of *)
(* a digest, with the contact that follows it, where a call may fail.       *)
Alone == {[Failing EXCEPT !.rows = {1}],
          [Overdue EXCEPT !.rows = {1, 2}, !.briefingAt = 0, !.faults = 1]}

(* Telegram answers 429 once. *)
RateLimited == {[Ordinary EXCEPT !.faults = 1]}

(* A critical task reminded of at its deadline, the very slot of a digest.  *)
SameMoment == {[Overdue EXCEPT !.briefingAt = 0]}
=============================================================================
