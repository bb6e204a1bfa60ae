-------------------------- MODULE NotificationPolicy --------------------------
(***************************************************************************)
(* The notification policy of core/reminder-planning.ts: when a contact    *)
(* may be made, and whether it may still be made at all.  The program      *)
(* evaluates it twice for one contact, once when the delivery row is       *)
(* planned and again when a worker is about to send it, so the two         *)
(* verdicts have to fit together.                                          *)
(*                                                                         *)
(* Time is in minutes, the resolution quiet hours have.  A contact is a    *)
(* record                                                                  *)
(*   intended     the moment the rule names,                               *)
(*   kind         "task" or "event",                                       *)
(*   boundary     for a task its start, else its deadline; for an event    *)
(*                its end, else its start; or NoBoundary,                  *)
(*   respect      TRUE when the rule respects quiet hours,                 *)
(*   snoozedUntil the end of the recipient's snooze, 0 for none,           *)
(*   attempted    TRUE when a send of this delivery has already failed.    *)
(***************************************************************************)
EXTENDS Integers

CONSTANTS
  Quiet,        \* the minutes inside the recipient's quiet hours
  QuietSearch,  \* how far the end of quiet hours is looked for (36 h)
  Grace,        \* IMMEDIATE_DELIVERY_GRACE_MS
  MaxDeferral   \* MAX_DEFERRED_DELIVERY_MS

ASSUME PolicyAssumption ==
  /\ Quiet \subseteq Nat
  /\ QuietSearch \in Nat
  /\ Grace \in Nat
  /\ MaxDeferral \in Nat

NoBoundary == -1

(* Verdicts: the contact may be made, one of the three reasons to suppress  *)
(* it, or "error" where the code throws.                                    *)
Suppressions == {"snooze_stale", "quiet_stale", "no_longer_applicable"}
Verdicts == {"ok", "error"} \cup Suppressions

IsQuietAt(t) == t \in Quiet

(* Where a scan minute by minute from t stops: at most one minute. *)
QuietEnds(t) ==
  {u \in t .. (t + QuietSearch) : u \notin Quiet /\ t .. (u - 1) \subseteq Quiet}

NextNonQuietMinute(t) == CHOOSE u \in QuietEnds(t) : TRUE

(* Mutant: the event is compared with the moment the rule named. *)
StaleAsIntended(c, at) ==
  c.kind = "event" /\ c.boundary # NoBoundary /\ c.intended > c.boundary

StaleForEvent(c, at) ==
  c.kind = "event" /\ c.boundary # NoBoundary /\ at > c.boundary

Later(a, b) == IF a >= b THEN a ELSE b

(* Snooze is applied first: it is stronger than a quiet-hours bypass. *)
Snoozed(c) == Later(c.intended, c.snoozedUntil)

(* Mutant: a snooze that ends in quiet hours ends there. *)
QuietDefersIntended(c) == c.respect /\ IsQuietAt(c.intended)

QuietDefers(c) == c.respect /\ IsQuietAt(Snoozed(c))

(* Quiet hours may delay a task's reminder but not past the task itself. *)
CappedAtTask(c) ==
  /\ c.kind = "task"
  /\ c.boundary # NoBoundary
  /\ Snoozed(c) <= c.boundary
  /\ NextNonQuietMinute(Snoozed(c)) > c.boundary

(* The moment the contact is put off to, before lateness is judged. *)
DeferredTo(c, now) ==
  IF ~QuietDefers(c) THEN Snoozed(c)
  ELSE IF CappedAtTask(c) THEN Later(c.boundary, now)
  ELSE NextNonQuietMinute(Snoozed(c))

(* applyNotificationPolicy: the moment it schedules, and its verdict.  The  *)
(* scan for the end of quiet hours throws when it finds none.               *)
Outcome(verdict, at) == [verdict |-> verdict, at |-> at]

(* Mutant: lateness is measured from the moment the rule named. *)
PolicyFromIntended(c, now) ==
  LET at == DeferredTo(c, now) IN
  IF Snoozed(c) > c.intended /\ StaleForEvent(c, Snoozed(c))
    THEN Outcome("snooze_stale", Snoozed(c))
  ELSE IF QuietDefers(c) /\ QuietEnds(Snoozed(c)) = {}
    THEN Outcome("error", now)
  ELSE IF QuietDefers(c) /\ StaleForEvent(c, at)
    THEN Outcome("quiet_stale", at)
  ELSE IF at - c.intended > MaxDeferral \/ (now - c.intended > Grace /\ ~c.attempted)
    THEN Outcome("no_longer_applicable", now)
  ELSE Outcome("ok", Later(at, now))

Policy(c, now) ==
  LET at == DeferredTo(c, now) IN
  IF Snoozed(c) > c.intended /\ StaleForEvent(c, Snoozed(c))
    THEN Outcome("snooze_stale", Snoozed(c))
  ELSE IF QuietDefers(c) /\ QuietEnds(Snoozed(c)) = {}
    THEN Outcome("error", now)
  ELSE IF QuietDefers(c) /\ StaleForEvent(c, at)
    THEN Outcome("quiet_stale", at)
  ELSE IF at - c.intended > MaxDeferral \/ (now - at > Grace /\ ~c.attempted)
    THEN Outcome("no_longer_applicable", now)
  ELSE Outcome("ok", Later(at, now))

=============================================================================
