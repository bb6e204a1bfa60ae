----------------------------- MODULE ReminderRebuild -----------------------------
(* The planned reminders of one date.  A change of the date or of its rules     *)
(* withdraws the deliveries and leaves a flag; a rebuild, after the commit or   *)
(* in the loop over flagged rows, reads the date, then its rules, and in a      *)
(* transaction of its own replaces the deliveries by a new plan and drops the   *)
(* flag.  Nothing keeps two rebuilds, or a rebuild and a change, apart.         *)
(* Sources: reminders/reminder-scheduling.service.ts, reminder-rebuild.         *)
(* service.ts; rescheduleOccurrenceInTx, changeReminderInTx and the completion  *)
(* of actions/action-mutations.repository.ts; undo of action-group.repository.  *)
EXTENDS Naturals, FiniteSets

CONSTANTS
  Moments,     \* when the date may be; the default rule follows it
  Explicit,    \* reminders the user may ask for, each at a moment of its own
  FollowUps,   \* the reminders a snooze may make
  Workers,     \* rebuilds that may be under way at a time
  Loop,        \* the one of the loop
  LastVersion, \* bound: the versions of the date
  Scenarios    \* what may happen, and how often

ReminderRules == Explicit \cup FollowUps \cup {"default", "escalation"}
Versions == 0 .. LastVersion

(* overlap: a change may come while a rebuild is under way; kinds: the changes  *)
(* there may be; changes, undos, quiets (mute, withdrawal or snooze), crashes:  *)
(* bounds; overdue: an escalation is armed.                                     *)
Scenario ==
  [overlap: BOOLEAN, overdue: BOOLEAN, changes: Nat, undos: Nat, quiets: Nat,
   crashes: Nat, kinds: SUBSET {"reschedule", "add", "replace", "clear", "close"}]

VARIABLES
  scenario,
  date,       \* the row of task_occurrences and its active rules
  rows,       \* reminder_deliveries by rule, version in the key, and moment
  worker,     \* rebuilds under way: their step and what they have read
  due,        \* rebuilds that commits have left to be begun
  journal,    \* the last change, for Undo
  raced,      \* history: a change or a crash came while a rebuild was under
              \* way, and none has begun alone and done its work since
  spent       \* counters for the bounds

vars == <<scenario, date, rows, worker, due, journal, raced, spent>>

(* A delivery is keyed by rule, version of the date and the moment it is for;   *)
(* those planned with the date, by a snooze or by an escalation have version 0. *)
(* "withdrawn" is a delivery the user cancelled in the list; "closed" and       *)
(* "muted" are the two reasons a delivery is suppressed for.                    *)
OwnMoment == "own"
Keys == ReminderRules \X Versions \X (Moments \cup {OwnMoment})
Row == {"none", "pending", "cancelled", "withdrawn", "closed", "muted"}
DateType ==
  [open: BOOLEAN, at: Moments, version: Versions, flagged: BOOLEAN,
   muted: BOOLEAN, rules: SUBSET (Explicit \cup FollowUps)]
Worker ==
  [pc: {"idle", "read", "rules", "replace"}, seen: DateType, plan: SUBSET Keys,
   cancels: SUBSET Keys]

PlanOfUnversioned(seen, rules) ==
  (IF seen.muted THEN {} ELSE {<<"default", 1, seen.at>>})
    \cup {<<r, 1, OwnMoment>> : r \in rules}
(* What planReminders makes of the date and its rules: the default rule counts  *)
(* from the date's moment, unless the user has turned the defaults off.         *)
PlanOf(seen, rules) ==
  (IF seen.muted THEN {} ELSE {<<"default", seen.version, seen.at>>})
    \cup {<<r, seen.version, OwnMoment>> : r \in rules}

FirstMoment == CHOOSE m \in Moments : TRUE
NewDate == [open |-> TRUE, at |-> FirstMoment, version |-> 1,
            flagged |-> FALSE, muted |-> FALSE, rules |-> {}]
Resting == [pc |-> "idle", seen |-> NewDate, plan |-> {}, cancels |-> {}]
NoJournal == [kind |-> "none", before |-> NewDate, post |-> 0]

Init ==
  /\ scenario \in Scenarios
  /\ date = NewDate
  /\ rows = [k \in Keys |->
       IF \/ k = <<"default", 0, FirstMoment>>
          \/ scenario.overdue /\ k = <<"escalation", 0, OwnMoment>>
       THEN "pending" ELSE "none"]
  /\ worker = [w \in Workers |-> Resting]
  /\ due = 0 /\ journal = NoJournal /\ raced = "no"
  /\ spent = [changes |-> 0, undos |-> 0, quiets |-> 0, crashes |-> 0]
-----------------------------------------------------------------------------
Spend(what) ==
  /\ spent[what] < scenario[what]
  /\ spent' = [spent EXCEPT ![what] = @ + 1]
Resolve(keys, status) == [k \in Keys |-> IF k \in keys THEN status ELSE rows[k]]
Pending == {k \in Keys : rows[k] = "pending"}
OfRules(set) == {k \in Keys : k[1] \in set}
UnderWay == {w \in Workers : worker[w].pc # "idle"}
Admitted == scenario.overlap \/ UnderWay = {}
Race == raced' = IF UnderWay # {} THEN "yes" ELSE raced

(* A rebuild reads the date: a closed one only loses its flag.                  *)
ReadDate(w) ==
  /\ worker[w].pc = "idle"
  /\ IF w = Loop THEN date.flagged /\ due' = due ELSE due > 0 /\ due' = due - 1
  /\ IF date.open
     THEN /\ worker' = [worker EXCEPT ![w] = [Resting EXCEPT !.pc = "read", !.seen = date]]
          /\ date' = date
     ELSE /\ date' = [date EXCEPT !.flagged = FALSE]
          /\ worker' = worker
  /\ raced' = IF raced = "yes" /\ UnderWay = {} THEN "healing" ELSE raced
  /\ UNCHANGED <<scenario, rows, journal, spent>>

(* Its rules, which may be newer than the date it has read.                     *)
ReadRules(w) ==
  /\ worker[w].pc = "read"
  /\ worker' = [worker EXCEPT ![w].pc = "rules", ![w].plan = PlanOf(worker[w].seen, date.rules)]
  /\ UNCHANGED <<scenario, date, rows, due, journal, raced, spent>>

(* The transaction: it cancels what is pending and committed when the update    *)
(* runs, an armed escalation excepted ...                                       *)
CancelLive(w) ==
  /\ worker[w].pc = "rules"
  /\ worker' = [worker EXCEPT ![w].pc = "replace", ![w].cancels = Pending \ OfRules({"escalation"})]
  /\ UNCHANGED <<scenario, date, rows, due, journal, raced, spent>>

(* ... and commits with the new plan and without the flag.  A key that is       *)
(* already there breaks the unique index, and the transaction with it.          *)
Taken(w) == {k \in worker[w].plan : rows[k] # "none"}
Replace(w) ==
  /\ worker[w].pc = "replace"
  /\ worker' = [worker EXCEPT ![w] = Resting]
  /\ IF Taken(w) # {} THEN UNCHANGED <<rows, date, raced>>
     ELSE /\ rows' = [k \in Keys |->
               IF k \in worker[w].plan THEN "pending"
               ELSE IF k \in worker[w].cancels /\ rows[k] = "pending" THEN "cancelled"
               ELSE rows[k]]
          /\ date' = [date EXCEPT !.flagged = FALSE]
          /\ raced' = IF raced = "healing" THEN "no" ELSE raced
  /\ UNCHANGED <<scenario, due, journal, spent>>
-----------------------------------------------------------------------------
(* Changes of the date, each one transaction that checks its version.  A        *)
(* reschedule withdraws everything and retires the follow-up; a change of the   *)
(* user's reminders turns the default ones off, unless it adds one.             *)
Rescheduled(at) ==
  [date EXCEPT !.at = at, !.version = @ + 1, !.flagged = TRUE, !.rules = @ \ FollowUps]
RemindedUnflagged(mode, rule) == [
  date EXCEPT !.version = @ + 1, !.muted = @ \/ mode # "add",
     !.rules = (IF mode = "add" THEN @ ELSE @ \ Explicit)
                 \cup (IF mode = "clear" THEN {} ELSE {rule})]
Reminded(mode, rule) ==
  [date EXCEPT !.version = @ + 1, !.flagged = TRUE, !.muted = @ \/ mode # "add",
     !.rules = (IF mode = "add" THEN @ ELSE @ \ Explicit)
                 \cup (IF mode = "clear" THEN {} ELSE {rule})]
Change(kind, after, resolution) ==
  /\ Admitted /\ date.open /\ date.version < LastVersion
  /\ kind \in scenario.kinds /\ Spend("changes")
  /\ date' = after
  /\ rows' = Resolve(Pending, resolution)
  /\ journal' = [kind |-> kind, before |-> date, post |-> after.version]
  /\ Race
  /\ UNCHANGED <<scenario, worker>>
Reschedule(at) ==
  /\ at # date.at
  /\ Change("reschedule", Rescheduled(at), "cancelled") /\ due' = due + 1
ChangeReminder(mode, rule) ==
  /\ rule \notin date.rules
  /\ Change(mode, Reminded(mode, rule), "cancelled") /\ due' = due + 1
(* A date that is done: nothing to rebuild.                                     *)
Close ==
  /\ Change("close", [date EXCEPT !.open = FALSE, !.version = @ + 1], "closed")
  /\ due' = due

(* Undo puts the date back as the journal has it, whether the defaults were     *)
(* muted included, and asks for a rebuild; the undo of a completion brings the  *)
(* suppressed deliveries back instead.                                          *)
UndoChange ==
  /\ Admitted /\ Spend("undos")
  /\ journal.kind # "none" /\ date.version = journal.post /\ date.version < LastVersion
  /\ LET closed == journal.kind = "close"
         rules == IF journal.kind = "reschedule" THEN date.rules ELSE journal.before.rules
     IN /\ date' = [journal.before EXCEPT !.version = date.version + 1, !.rules = rules,
                                          !.flagged = @ \/ ~closed]
        /\ rows' = IF closed
             THEN [k \in Keys |-> IF rows[k] = "closed" THEN "pending" ELSE rows[k]]
             ELSE IF journal.kind = "reschedule" THEN rows ELSE Resolve(Pending, "cancelled")
        /\ due' = IF closed THEN due ELSE due + 1
  /\ journal' = NoJournal /\ Race
  /\ UNCHANGED <<scenario, worker>>

(* muteDefaultReminders: neither the version nor the flag changes.              *)
Mute ==
  /\ Admitted /\ Spend("quiets") /\ ~date.muted /\ date.open
  /\ date' = [date EXCEPT !.muted = TRUE]
  /\ rows' = Resolve(Pending \cap OfRules({"default"}), "muted")
  /\ Race
  /\ UNCHANGED <<scenario, worker, due, journal>>
(* cancelUpcoming: one delivery, not the rule that made it.                     *)
Withdraw(k) ==
  /\ Admitted /\ Spend("quiets") /\ k \in Pending
  /\ rows' = Resolve({k}, "withdrawn")
  /\ Race
  /\ UNCHANGED <<scenario, date, worker, due, journal>>
(* scheduleSystemFollowUp: a snooze replaces the follow-up there is.            *)
Snooze(rule) ==
  /\ Admitted /\ Spend("quiets") /\ date.open
  /\ rule \notin date.rules /\ rows[<<rule, 0, OwnMoment>>] = "none"
  /\ date' = [date EXCEPT !.rules = (@ \ FollowUps) \cup {rule}]
  /\ rows' = [Resolve(Pending \cap OfRules(date.rules \cap FollowUps), "cancelled")
                EXCEPT ![<<rule, 0, OwnMoment>>] = "pending"]
  /\ Race
  /\ UNCHANGED <<scenario, worker, due, journal>>

Crash ==
  /\ Spend("crashes")
  /\ worker' = [w \in Workers |-> Resting] /\ due' = 0
  /\ Race
  /\ UNCHANGED <<scenario, date, rows, journal>>

Next ==
  \/ \E w \in Workers : ReadDate(w) \/ ReadRules(w) \/ CancelLive(w) \/ Replace(w)
  \/ \E at \in Moments : Reschedule(at)
  \/ \E mode \in {"add", "replace", "clear"}, rule \in Explicit : ChangeReminder(mode, rule)
  \/ Close \/ UndoChange \/ Mute
  \/ \E k \in Keys : Withdraw(k)
  \/ \E rule \in FollowUps : Snooze(rule)
  \/ Crash

(* The loop ticks for ever, and a rebuild that has begun runs to its end.       *)
Fairness ==
  \A w \in Workers :
    WF_vars(ReadDate(w)) /\ WF_vars(ReadRules(w)) /\ WF_vars(CancelLive(w)) /\ WF_vars(Replace(w))
Spec == Init /\ [][Next]_vars /\ Fairness
-----------------------------------------------------------------------------
TypeOK ==
  /\ scenario \in Scenarios \cap Scenario /\ date \in DateType /\ rows \in [Keys -> Row]
  /\ worker \in [Workers -> Worker] /\ due \in Nat /\ raced \in {"no", "yes", "healing"}

(* The contacts that are planned, as rule and moment, and those that should be. *)
Planned == {<<k[1], k[3]>> : k \in Pending \ OfRules({"escalation"})}
Wanted == {<<k[1], k[3]>> : k \in PlanOf(date, date.rules)}
Withdrawn == {<<k[1], k[3]>> : k \in {j \in Keys : rows[j] = "withdrawn"}}

(* A date whose flag is down and that no rebuild is working on has exactly the  *)
(* reminders its rules ask for, each once, less those the user withdrew one by  *)
(* one; only a change that came while a rebuild was under way can leave others. *)
PlanIsCurrent ==
  date.open /\ ~date.flagged /\ UnderWay = {} /\ raced = "no" =>
    /\ Planned \subseteq Wanted /\ Wanted \subseteq Planned \cup Withdrawn
    /\ \A j, k \in Pending : j[1] = k[1] /\ j[3] = k[3] => j = k

(* A flag is not left standing: the date is planned again, or closed.           *)
FlagIsServed == date.flagged ~> ~date.flagged
=============================================================================
