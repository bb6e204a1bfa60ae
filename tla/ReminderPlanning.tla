--------------------------- MODULE ReminderPlanning ---------------------------
(***************************************************************************)
(* Planning the reminders of one occurrence (core/reminder-planning.ts):   *)
(* every active rule names a moment, the notification policy moves or      *)
(* refuses it, and contacts too close to each other are merged.  Around    *)
(* the algorithm, the life of a plan: an edit of the rules or of the task  *)
(* cancels it and asks for another (needsReminderRebuild), a rebuild makes *)
(* it, and meanwhile time passes and notifications are snoozed, which the  *)
(* plan made before does not know.                                         *)
(*                                                                         *)
(* A rule is [exact, at, explicit, respect, user]: an exact moment, or one *)
(* relative to the start of the task; set by the user or by default;       *)
(* respecting quiet hours or not; a reminder or a follow-up.               *)
(***************************************************************************)
EXTENDS NotificationPolicy, SequencesExt

CONSTANTS
  Gap,      \* MINIMUM_CONTACT_GAP_MINUTES
  Rules,    \* bound: the rules there may be
  Tasks,    \* bound: the tasks, as [kind, start, boundary]
  Snoozes,  \* bound: the moments a snooze may end at
  MaxRules, \* bound: rules of the occurrence
  Horizon   \* bound: the last moment

RuleType == [exact: BOOLEAN, at: Int, explicit: BOOLEAN, respect: BOOLEAN, user: BOOLEAN]
TaskType == [kind: {"task", "event"}, start: Int, boundary: Int]

ASSUME PlanningAssumption ==
  /\ Gap \in Nat
  /\ Rules \subseteq RuleType
  /\ Tasks \subseteq TaskType
  /\ Snoozes \subseteq Nat
  /\ MaxRules \in Nat
  /\ Horizon \in Nat

VARIABLES
  now,     \* the clock
  task,    \* what the occurrence is about
  rules,   \* its active rules
  snoozed, \* notificationsSnoozedUntil
  asked,   \* needsReminderRebuild
  rated,   \* the candidates of the last plan: rule index -> moment, verdict
  plan,    \* the rule indexes that became rows, in order
  planned  \* when that plan was made, and under which snooze

vars == <<now, task, rules, snoozed, asked, rated, plan, planned>>
-----------------------------------------------------------------------------
(* resolveReminderIntent. *)
Intent(t, r) == IF r.exact THEN r.at ELSE t.start + r.at

(* A reminder at the very start of an event says nothing the event does not. *)
IsAtEventStart(t, r) == t.kind = "event" /\ r.user /\ Intent(t, r) = t.start

Contact(t, r, until) ==
  [intended |-> Intent(t, r), kind |-> t.kind, boundary |-> t.boundary,
   respect |-> r.respect, snoozedUntil |-> until, attempted |-> FALSE]

(* Each rule's contact, with the verdict of the policy at that time. *)
Rated(t, rs, until, at) ==
  [i \in {j \in DOMAIN rs : ~IsAtEventStart(t, rs[j])} |->
     Policy(Contact(t, rs[i], until), at)]

(* The candidates by moment; rules of one moment keep their order. *)
Before(c, i, j) == c[i].at < c[j].at \/ (c[i].at = c[j].at /\ i < j)

InOrder(c) ==
  CHOOSE s \in [1 .. Cardinality(DOMAIN c) -> DOMAIN c] :
    \A m, n \in DOMAIN s : m < n => Before(c, s[m], s[n])

Explicit(rs, i) == rs[i].explicit

TooClose(c, merged, i) ==
  /\ merged # <<>>
  /\ c[i].verdict = "ok" /\ c[Last(merged)].verdict = "ok"
  /\ c[i].at - c[Last(merged)].at < Gap

(* Mutant: the later one is kept whoever asked for the earlier. *)
JoinedLater(c, rs, merged, i) ==
  IF TooClose(c, merged, i) THEN Append(Front(merged), i) ELSE Append(merged, i)

(* Of two contacts that are too close the later is kept, unless it would    *)
(* replace what the user asked for.  A refused contact is kept as such.     *)
Joined(c, rs, merged, i) ==
  IF ~TooClose(c, merged, i) THEN Append(merged, i)
  ELSE IF Explicit(rs, Last(merged)) /\ ~Explicit(rs, i) THEN merged
  ELSE Append(Front(merged), i)

(* One candidate joins after another. *)
Merge(c, rs) ==
  LET order == InOrder(c)
      merged[n \in 0 .. Len(order)] ==
        IF n = 0 THEN <<>> ELSE Joined(c, rs, merged[n - 1], order[n])
  IN merged[Len(order)]
-----------------------------------------------------------------------------
NoPlan == <<>>

Init ==
  /\ now = 0
  /\ task \in Tasks
  /\ rules = <<>>
  /\ snoozed = 0
  /\ asked = FALSE
  /\ rated = NoPlan /\ plan = NoPlan
  /\ planned = [at |-> 0, until |-> 0]

(* Mutant: the rows of the old plan stay. *)
AskOnly == asked' = TRUE /\ rated' = NoPlan /\ UNCHANGED plan

(* Every edit cancels the rows of the old plan in its own transaction.      *)
Ask == asked' = TRUE /\ rated' = NoPlan /\ plan' = NoPlan

(* changeReminderInTx: a reminder is added, ... *)
AddRule(r) ==
  /\ Len(rules) < MaxRules
  /\ rules' = Append(rules, r)
  /\ Ask
  /\ UNCHANGED <<now, task, snoozed, planned>>

(* ... and rescheduleOccurrenceInTx: the task moves, its rules stay. *)
Reschedule(t) ==
  /\ t # task
  /\ task' = t
  /\ Ask
  /\ UNCHANGED <<now, rules, snoozed, planned>>

(* rebuildOccurrence: a rule the policy cannot judge makes it fail whole.   *)
Rebuild ==
  LET c == Rated(task, rules, snoozed, now) IN
  /\ asked
  /\ \A i \in DOMAIN c : c[i].verdict # "error"
  /\ asked' = FALSE
  /\ rated' = c
  /\ plan' = Merge(c, rules)
  /\ planned' = [at |-> now, until |-> snoozed]
  /\ UNCHANGED <<now, task, rules, snoozed>>

(* A settings change does not touch the plan. *)
Snooze(t) ==
  /\ t > now
  /\ t # snoozed
  /\ snoozed' = t
  /\ UNCHANGED <<now, task, rules, asked, rated, plan, planned>>

Tick ==
  /\ now < Horizon
  /\ now' = now + 1
  /\ UNCHANGED <<task, rules, snoozed, asked, rated, plan, planned>>

Next ==
  \/ \E r \in Rules : AddRule(r)
  \/ \E t \in Tasks : Reschedule(t)
  \/ Rebuild
  \/ \E t \in Snoozes : Snooze(t)
  \/ Tick

Spec == Init /\ [][Next]_vars
-----------------------------------------------------------------------------
TypeOK ==
  /\ now \in 0 .. Horizon
  /\ task \in Tasks
  /\ rules \in Seq(Rules)
  /\ snoozed \in Snoozes \cup {0}
  /\ asked \in BOOLEAN
  /\ DOMAIN rated \subseteq DOMAIN rules
  /\ \A n \in DOMAIN plan : plan[n] \in DOMAIN rated
  /\ planned \in [at: 0 .. Horizon, until: Snoozes \cup {0}]

(* The candidates that may be made, and what the policy looked at. *)
Allowed == {i \in DOMAIN rated : rated[i].verdict = "ok"}
ContactOf(i) == Contact(task, rules[i], planned.until)
ToCome(i) == rated[i].at > planned.at

(* A contact planned for later lies in quiet hours only if its rule says so *)
(* or the task itself does: the reminder then comes with the task and not   *)
(* the morning after.                                                       *)
QuietIsKept ==
  \A i \in Allowed :
    ToCome(i) /\ rules[i].respect /\ IsQuietAt(rated[i].at)
      => task.kind = "task" /\ rated[i].at = task.boundary

(* Neither a snooze nor quiet hours put a reminder of an event off beyond   *)
(* the event.                                                               *)
DeferralStopsAtEvent ==
  \A i \in Allowed :
    /\ task.kind = "event" /\ task.boundary # NoBoundary
    /\ rated[i].at > task.boundary
    => rated[i].at = planned.at \/ rated[i].at = Intent(task, rules[i])

(* Planning and delivery "reach the same verdict": a contact that was not   *)
(* already late when it was planned is still allowed, and due, when a       *)
(* worker gets to it no later than Grace after its moment, whatever the     *)
(* deferral had been.                                                       *)
DeliveryAgrees ==
  \A i \in Allowed :
    /\ ToCome(i) /\ snoozed = planned.until
    /\ now \in rated[i].at .. (rated[i].at + Grace)
    /\ now - Intent(task, rules[i]) <= MaxDeferral
    => Policy(ContactOf(i), now) = Outcome("ok", now)

Contacts == {i \in Allowed : \E n \in DOMAIN plan : plan[n] = i}

(* What the user asked for is displaced only by what the user asked for: an *)
(* explicit reminder is planned, or another explicit one after it is, each  *)
(* step of the way closer than the gap.                                     *)
ExplicitIsHeard ==
  \A i \in Allowed : rules[i].explicit =>
    \E j \in Contacts :
      /\ rules[j].explicit
      /\ rated[j].at - rated[i].at \in 0 .. (Gap * Len(rules))

(* No two contacts of a plan are closer than the gap: they "read as one     *)
(* nagging contact" (reminder-defaults.ts).                                 *)
GapIsKept ==
  \A i, j \in Contacts :
    i # j => rated[j].at - rated[i].at \notin 0 .. (Gap - 1)
=============================================================================
