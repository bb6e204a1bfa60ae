------------------------------ MODULE UndatedTask ------------------------------
(* A task without a date: what contacts the user about it is the planning       *)
(* review, one rule with one delivery, or a reminder of the user's own on the   *)
(* task, for which the review steps aside.  A rebuild, after a commit or in the *)
(* loop, reads the task, then its rules, and replaces the review.               *)
(* Sources: reminders/reminder-scheduling.service.ts (rebuildFuzzyTask and the  *)
(* functions around it); the task steps of actions/action-mutations.repository. *)
(* ts; undo of actions/action-group.repository.ts.                              *)
EXTENDS Naturals, FiniteSets

CONSTANTS
  Own,         \* reminders the user may put on the task
  Covering,    \* those within the merge window of the review
  Workers,     \* rebuilds that may be under way at a time
  Loop,        \* the one of the loop
  LastReview,  \* bound: review rules ever made
  Scenarios    \* what may happen, and how often

Scenario ==
  [overlap: BOOLEAN, kinds: SUBSET {"add", "replace", "clear", "date", "cancel", "close"},
   undoes: SUBSET {"add", "replace", "clear", "date", "cancel", "close"},
   changes: Nat, undos: Nat, crashes: Nat]

VARIABLES
  scenario,
  task,      \* the row of tasks: status, whether it has a date, version
  reviews,   \* the planning_review rules by number, each with its delivery
  own,       \* the explicit rules, each with its delivery
  past,      \* the moment of the review and of the reminders is over
  worker,    \* rebuilds under way: their step and what they have read
  due,       \* rebuilds that commits have left to be begun
  journal,   \* the last change, for Undo
  raced,     \* history: a change or a rebuild came while one was under way,
             \* or a crash took one away
  spent      \* counters for the bounds

vars == <<scenario, task, reviews, own, past, worker, due, journal, raced, spent>>

Ids == 1 .. LastReview
Delivery == {"none", "pending", "sent", "cancelled", "suppressed"}
Rule == [active: BOOLEAN, delivery: Delivery]
NoRule == [active |-> FALSE, delivery |-> "none"]
Live == [active |-> TRUE, delivery |-> "pending"]
TaskType == [status: {"active", "closed", "cancelled"}, dated: BOOLEAN, version: Nat]
Resting == [pc |-> "idle", task |-> [status |-> "active", dated |-> FALSE, version |-> 1],
            existing |-> {}, covered |-> FALSE, unplanned |-> {}]
NoJournal == [kind |-> "none", task |-> Resting.task, post |-> 0, retired |-> {},
              before |-> {}, inserted |-> {}]

Reviewing == {i \in Ids : reviews[i].active}
Asked == {r \in Own : own[r].active}
Covered == Asked \cap Covering # {}
UnderWay == {w \in Workers : worker[w].pc # "idle"}
Admitted == scenario.overlap \/ UnderWay = {}
Spend(what) ==
  /\ spent[what] < scenario[what]
  /\ spent' = [spent EXCEPT ![what] = @ + 1]

Init ==
  /\ scenario \in Scenarios
  /\ task = Resting.task
  /\ reviews = [i \in Ids |-> IF i = 1 THEN Live ELSE NoRule]
  /\ own = [r \in Own |-> NoRule]
  /\ past = FALSE
  /\ worker = [w \in Workers |-> Resting]
  /\ due = 0 /\ journal = NoJournal /\ raced = FALSE
  /\ spent = [changes |-> 0, undos |-> 0, crashes |-> 0]
-----------------------------------------------------------------------------
LeftBehindUnplanned ==
  /\ task.status = "active" /\ ~task.dated
  /\ \E r \in Asked : own[r].delivery = "none"
(* reconcileFuzzyReviews takes an active task without a date that has no active *)
(* review, or a reminder of the user's that was never planned.                  *)
LeftBehind ==
  /\ task.status = "active" /\ ~task.dated
  /\ Reviewing = {} \/ \E r \in Asked : own[r].delivery = "none"

(* rebuildFuzzyTask: the task and the reviews there are ...                     *)
ReadTask(w) ==
  /\ worker[w].pc = "idle"
  /\ IF w = Loop THEN LeftBehind /\ due' = due ELSE due > 0 /\ due' = due - 1
  /\ worker' = [worker EXCEPT ![w] =
       [Resting EXCEPT !.pc = "rules", !.task = task, !.existing = Reviewing]]
  /\ raced' = (raced \/ UnderWay # {})
  /\ UNCHANGED <<scenario, task, reviews, own, past, journal, spent>>

(* ... the user's own reminders, and which of them have no delivery yet ...     *)
ReadRules(w) ==
  /\ worker[w].pc = "rules"
  /\ worker' = [worker EXCEPT ![w].pc = "replace", ![w].covered = Covered,
       ![w].unplanned = IF worker[w].task.status = "active"
                        THEN {r \in Asked : own[r].delivery = "none"} ELSE {}]
  /\ UNCHANGED <<scenario, task, reviews, own, past, due, journal, raced, spent>>

(* ... a transaction that takes the reviews it has read away and makes a new    *)
(* one, if by what it has read the task wants one ...                           *)
Withdraw(i) ==
  [active |-> FALSE,
   delivery |-> IF reviews[i].delivery = "pending" THEN "cancelled" ELSE reviews[i].delivery]
Wanted(seen) == seen.task.status = "active" /\ ~seen.task.dated /\ ~seen.covered
Fresh == {i \in Ids : reviews[i] = NoRule}
Next1 == CHOOSE i \in Fresh : \A j \in Fresh : i <= j
ReplaceReview(w) ==
  /\ worker[w].pc = "replace"
  /\ Wanted(worker[w]) => Fresh # {}
  /\ reviews' = [i \in Ids |->
       IF i \in worker[w].existing THEN Withdraw(i)
       ELSE IF Wanted(worker[w]) /\ i = Next1 THEN Live ELSE reviews[i]]
  /\ worker' = [worker EXCEPT ![w].pc = "own"]
  /\ UNCHANGED <<scenario, task, own, past, due, journal, raced, spent>>

(* ... and planTaskLevelReminders, an insert that leaves a key alone that is    *)
(* already there, with the rule it was for possibly gone by now.                *)
PlanOwn(w) ==
  /\ worker[w].pc = "own"
  /\ own' = [r \in Own |->
       IF r \in worker[w].unplanned /\ own[r].delivery = "none"
       THEN [own[r] EXCEPT !.delivery = "pending"] ELSE own[r]]
  /\ worker' = [worker EXCEPT ![w] = Resting]
  /\ UNCHANGED <<scenario, task, reviews, past, due, journal, raced, spent>>
-----------------------------------------------------------------------------
Commit(kind, after, retired, before, inserted) ==
  /\ Admitted /\ task.status = "active"
  /\ kind \in scenario.kinds /\ Spend("changes")
  /\ task' = [after EXCEPT !.version = task.version + 1]
  /\ journal' = [kind |-> kind, task |-> task, post |-> task.version + 1,
                 retired |-> retired, before |-> before, inserted |-> inserted]
  /\ raced' = (raced \/ UnderWay # {})

RetireRuleOnly ==
  reviews' = [i \in Ids |-> [reviews[i] EXCEPT !.active = FALSE]]
(* retirePlanningReview; what comes back with an undo is what it suppressed.    *)
Retire ==
  reviews' = [i \in Ids |->
    IF ~reviews[i].active THEN reviews[i]
    ELSE [active |-> FALSE, delivery |->
            IF reviews[i].delivery = "pending" THEN "suppressed" ELSE reviews[i].delivery]]

(* changeTaskReminderInTx: add, replace or clear the user's own reminders.      *)
ChangeReminder(mode, rule) ==
  /\ ~task.dated /\ own[rule] = NoRule
  /\ LET before == IF mode = "add" THEN {} ELSE Asked
         inserted == IF mode = "clear" THEN {} ELSE {rule}
     IN /\ Commit(mode, task, {}, before, inserted)
        /\ own' = [r \in Own |->
             IF r \in inserted THEN [active |-> TRUE, delivery |-> "none"]
             ELSE IF r \in before
                  THEN [active |-> FALSE, delivery |->
                          IF own[r].delivery = "pending" THEN "cancelled" ELSE own[r].delivery]
                  ELSE own[r]]
  /\ due' = due + 1
  /\ UNCHANGED <<scenario, reviews, past, worker>>

(* concretiseTaskInTx gives the task a date, whose reminders are its own.       *)
GiveDate ==
  /\ ~task.dated /\ Commit("date", [task EXCEPT !.dated = TRUE], Reviewing, {}, {})
  /\ Retire
  /\ UNCHANGED <<scenario, own, past, worker, due>>
(* cancelTaskInTx retires the review, completeTaskInTx leaves it to the         *)
(* delivery to find the task closed.                                            *)
CancelTask ==
  /\ Commit("cancel", [task EXCEPT !.status = "cancelled"], Reviewing, {}, {})
  /\ Retire
  /\ UNCHANGED <<scenario, own, past, worker, due>>
CompleteTask ==
  /\ ~task.dated /\ Commit("close", [task EXCEPT !.status = "closed"], {}, {}, {})
  /\ UNCHANGED <<scenario, reviews, own, past, worker, due>>

(* Undo of a task: the row as it was; inserted rules go, with their deliveries; *)
(* retired reviews come back, those whose moment is ahead with their delivery;  *)
(* the user's own rules come back; and a rebuild, except after a completion.    *)
UndoChange ==
  /\ Admitted /\ journal.kind \in scenario.undoes /\ Spend("undos")
  /\ task.version = journal.post
  /\ task' = [journal.task EXCEPT !.version = task.version + 1]
  /\ reviews' = [i \in Ids |->
       IF i \notin journal.retired THEN reviews[i]
       ELSE [active |-> TRUE, delivery |->
               IF reviews[i].delivery = "suppressed" /\ ~past THEN "pending"
               ELSE reviews[i].delivery]]
  /\ own' = [r \in Own |->
       IF r \in journal.inserted THEN NoRule
       ELSE IF r \in journal.before THEN [own[r] EXCEPT !.active = TRUE] ELSE own[r]]
  /\ due' = IF journal.kind = "close" THEN due ELSE due + 1
  /\ journal' = NoJournal /\ raced' = (raced \/ UnderWay # {})
  /\ UNCHANGED <<scenario, past, worker>>

(* The moment comes: what is pending is sent, or suppressed for a task that is  *)
(* no longer active.                                                            *)
Deliver ==
  LET Out(row) ==
        IF row.delivery # "pending" THEN row
        ELSE [row EXCEPT !.delivery = IF task.status = "active" THEN "sent" ELSE "suppressed"]
  IN /\ ~past /\ past' = TRUE
     /\ reviews' = [i \in Ids |-> Out(reviews[i])]
     /\ own' = [r \in Own |-> Out(own[r])]
     /\ UNCHANGED <<scenario, task, worker, due, journal, raced, spent>>

Crash ==
  /\ Spend("crashes")
  /\ worker' = [w \in Workers |-> Resting] /\ due' = 0
  /\ raced' = (raced \/ due > 0 \/ UnderWay # {})
  /\ UNCHANGED <<scenario, task, reviews, own, past, journal>>

Next ==
  \/ \E w \in Workers : ReadTask(w) \/ ReadRules(w) \/ ReplaceReview(w) \/ PlanOwn(w)
  \/ \E mode \in {"add", "replace", "clear"}, rule \in Own : ChangeReminder(mode, rule)
  \/ GiveDate \/ CancelTask \/ CompleteTask \/ UndoChange
  \/ Deliver \/ Crash

Fairness ==
  \A w \in Workers :
    /\ WF_vars(ReadTask(w)) /\ WF_vars(ReadRules(w))
    /\ WF_vars(ReplaceReview(w)) /\ WF_vars(PlanOwn(w))
Spec == Init /\ [][Next]_vars /\ Fairness
-----------------------------------------------------------------------------
TypeOK ==
  /\ scenario \in Scenarios \cap Scenario /\ task \in TaskType /\ past \in BOOLEAN /\ due \in Nat
  /\ reviews \in [Ids -> Rule] /\ own \in [Own -> Rule] /\ raced \in BOOLEAN

Idle == due = 0 /\ UnderWay = {} /\ ~LeftBehind
Undated == task.status = "active" /\ ~task.dated

(* As long as no rebuild overlapped another or a change, the user gets one      *)
(* contact in the minute of the review: one review and no reminder beside it,   *)
(* or, once no rebuild is left to run, none at all for a task that has a date.  *)
ContactIsSingle ==
  ~raced =>
    /\ Cardinality({i \in Ids : reviews[i].delivery = "pending"}) <= 1
    /\ Idle /\ (Covered \/ ~Undated) /\ task.status # "closed" =>
         \A i \in Ids : reviews[i].delivery # "pending"

(* An active task without a date whose review is ahead is never forgotten: it   *)
(* has, or comes to have, a review or a reminder of the user's own, through     *)
(* crashes and undone changes.                                                  *)
Contacted ==
  \/ \E i \in Ids : reviews[i].delivery \in {"pending", "sent"}
  \/ \E r \in Own : own[r].delivery \in {"pending", "sent"}
ContactComes == [](Undated /\ ~past => <>(Contacted \/ ~Undated))

(* Undo comment: whatever reminder was active before the change comes back, so  *)
(* one that is active has not stayed cancelled when the rebuild is done.        *)
RestoredRemindersReturn ==
  Idle /\ Undated => \A r \in Asked : own[r].delivery # "cancelled"
=============================================================================
