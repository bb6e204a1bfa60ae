------------------------------- MODULE WeekPool -------------------------------
(***************************************************************************)
(* The week pool: tasks with no date and one-offs whose day has passed,    *)
(* the few that are taken for the coming week, and the tap that gives one  *)
(* of them today's date (web-week.controller.ts, core/week-plan.ts,        *)
(* tasks.repository).  Several devices of one user tap at once: a request  *)
(* reads the pool in one query and writes in a later transaction, so what  *)
(* it read may be gone.                                                    *)
(*                                                                         *)
(* Day 1 is a Monday.  A mark names the Monday of the week it is for.      *)
(***************************************************************************)
EXTENDS Integers, FiniteSets

CONSTANTS
  Scenarios \* bound: tasks, devices, limit, days and what may be spent

VARIABLES
  scenario, \* [tasks, devices, limit, days, taps, takes, undos, closes]
  today,    \* the local day
  tasks,    \* the rows of the tasks and of their only live date
  requests, \* what each device is in the middle of
  journal,  \* the action group that can be undone
  spent     \* how much of each bound is used

vars == <<scenario, today, tasks, requests, journal, spent>>

None == 0
Nobody == "nobody"
DaysAWeek == 7

Weekday(day) == ((day - 1) % DaysAWeek) + 1
MondayOf(day) == day + 1 - Weekday(day)

(* A pick made on Sunday is for the week that starts tomorrow. *)
TargetWeek(day) == IF Weekday(day) = DaysAWeek THEN MondayOf(day + 1) ELSE MondayOf(day)
PreviousWeek(day) == TargetWeek(day) - DaysAWeek
IsLive(mark, day) == mark = TargetWeek(day)
IsStale(mark, day) == mark = PreviousWeek(day)

TaskRow ==
  [status: {"active", "closed"}, dateless: BOOLEAN, late: BOOLEAN, day: Nat,
   pick: Int, version: Nat, dateVersion: Nat]
Resting == [step |-> "none", verb |-> "none", task |-> Nobody, week |-> None, day |-> None,
            read |-> None, version |-> None, dateVersion |-> None]
NoJournal == [task |-> Nobody, before |-> None, version |-> None, dateVersion |-> None]

(* POOL_MEMBERSHIP, of an active task. *)
InPool(row) == row.status = "active" /\ (row.dateless \/ row.late)
Pool == {t \in DOMAIN tasks : InPool(tasks[t])}
Taken(week) == {t \in Pool : tasks[t].pick = week}
-----------------------------------------------------------------------------
Init ==
  /\ scenario \in Scenarios
  /\ today = scenario.first
  /\ tasks = [t \in DOMAIN scenario.tasks |->
                [status |-> "active", dateless |-> scenario.tasks[t] = "dateless",
                 late |-> scenario.tasks[t] = "missed",
                 day |-> IF scenario.tasks[t] = "missed" THEN today - 1 ELSE None,
                 pick |-> None, version |-> 1, dateVersion |-> 1]]
  /\ requests = [d \in scenario.devices |-> Resting]
  /\ journal = NoJournal
  /\ spent = [kind \in {"taps", "takes", "undos", "closes"} |-> 0]

Spend(kind) == spent[kind] < scenario[kind] /\ spent' = [spent EXCEPT ![kind] = @ + 1]
Idle(d) == requests[d].step = "none"

(* setPicked reads the pool; a mark that is already as asked is answered *)
(* with no write, and so is a task that is not there.                    *)
Toggling(t, verb) ==
  [step |-> "toggle", verb |-> verb, task |-> t, week |-> TargetWeek(today), day |-> None,
   read |-> Cardinality(Taken(TargetWeek(today))), version |-> None, dateVersion |-> None]
ReadsPool(d, t, verb) ==
  /\ Idle(d) /\ Spend("taps")
  /\ t \in Pool
  /\ IsLive(tasks[t].pick, today) # (verb = "pick")
  /\ requests' = [requests EXCEPT ![d] = Toggling(t, verb)]
  /\ UNCHANGED <<scenario, today, tasks, journal>>

(* togglePickedForWeek: the workspace is held, so the count is current. *)
FullAsRead(d) == requests[d].read >= scenario.limit
Full(d) == Cardinality(Taken(requests[d].week)) >= scenario.limit

Toggles(d) ==
  LET r == requests[d] IN
  /\ r.step = "toggle"
  /\ tasks' = IF r.task \notin Pool THEN tasks
              ELSE IF tasks[r.task].pick = r.week
                   THEN [tasks EXCEPT ![r.task].pick = None]
              ELSE IF Full(d) THEN tasks
                   ELSE [tasks EXCEPT ![r.task].pick = r.week]
  /\ requests' = [requests EXCEPT ![d] = Resting]
  /\ UNCHANGED <<scenario, today, journal, spent>>

(* takeToday: the row is in the pool and at the version the screen showed. *)
Taking(t) ==
  [step |-> "take", verb |-> "take", task |-> t, week |-> None, day |-> today, read |-> None,
   version |-> tasks[t].version,
   dateVersion |-> IF tasks[t].dateless THEN None ELSE tasks[t].dateVersion]
TakeReads(d, t) ==
  /\ Idle(d) /\ Spend("takes")
  /\ t \in Pool
  /\ requests' = [requests EXCEPT ![d] = Taking(t)]
  /\ UNCHANGED <<scenario, today, tasks, journal>>

(* concretise_task wants a dateless task, reschedule_occurrence the date it   *)
(* was read with; both change the task, and only the first clears the mark.   *)
MovableAnyVersion(row, r) ==
  row.status = "active" /\ (r.dateVersion = None => row.dateless)
Movable(row, r) ==
  /\ row.status = "active"
  /\ IF r.dateVersion = None THEN row.dateless /\ row.version = r.version
                             ELSE ~row.dateless /\ row.dateVersion = r.dateVersion
MovedTo(row, day) ==
  [row EXCEPT !.dateless = FALSE, !.late = FALSE, !.day = day,
              !.version = @ + 1, !.dateVersion = @ + 1,
              !.pick = IF row.dateless THEN None ELSE @]
TakeApplies(d) ==
  LET r == requests[d]
      row == tasks[r.task]
      moved == MovedTo(row, r.day)
  IN /\ r.step = "take"
     /\ requests' = [requests EXCEPT ![d] = Resting]
     /\ IF Movable(row, r)
        THEN /\ tasks' = [tasks EXCEPT ![r.task] = moved]
             /\ journal' = [task |-> r.task, before |-> row, version |-> moved.version,
                            dateVersion |-> moved.dateVersion]
        ELSE UNCHANGED <<tasks, journal>>
     /\ UNCHANGED <<scenario, today, spent>>

(* The undo puts the journaled columns back; the mark is none of them. *)
PutBack(before, row) ==
  [before EXCEPT !.version = row.version + 1, !.dateVersion = row.dateVersion + 1,
                 !.pick = row.pick]
Undoes ==
  LET row == tasks[journal.task]
      back == PutBack(journal.before, row)
  IN /\ journal.task # Nobody /\ Spend("undos")
     /\ journal' = NoJournal
     /\ tasks' = IF row.version = journal.version /\ row.dateVersion = journal.dateVersion
                 THEN [tasks EXCEPT ![journal.task] = back] ELSE tasks
     /\ UNCHANGED <<scenario, today, requests>>

(* The date is closed on another screen. *)
Closes(t) ==
  /\ Spend("closes")
  /\ tasks[t].status = "active"
  /\ tasks' = [tasks EXCEPT ![t].status = "closed", ![t].version = @ + 1]
  /\ UNCHANGED <<scenario, today, requests, journal>>

NewDay ==
  /\ today < scenario.first + scenario.days
  /\ today' = today + 1
  /\ UNCHANGED <<scenario, tasks, requests, journal, spent>>

(* The maintenance loop marks a date whose day is over (markOccurrenceOverdue). *)
FallsBehind(t) ==
  /\ tasks[t].status = "active" /\ ~tasks[t].dateless /\ ~tasks[t].late
  /\ tasks[t].day < today
  /\ tasks' = [tasks EXCEPT ![t].late = TRUE, ![t].dateVersion = @ + 1]
  /\ UNCHANGED <<scenario, today, requests, journal, spent>>

Next ==
  \/ \E d \in DOMAIN requests, t \in DOMAIN tasks, verb \in {"pick", "release"} :
       ReadsPool(d, t, verb)
  \/ \E d \in DOMAIN requests : Toggles(d) \/ TakeApplies(d)
  \/ \E d \in DOMAIN requests, t \in DOMAIN tasks : TakeReads(d, t)
  \/ \E t \in DOMAIN tasks : Closes(t) \/ FallsBehind(t)
  \/ Undoes
  \/ NewDay

Spec == Init /\ [][Next]_vars
-----------------------------------------------------------------------------
(* What the week screen and the cards make of the marks. *)
PoolRow(t) == [picked |-> IsLive(tasks[t].pick, today), stale |-> IsStale(tasks[t].pick, today),
               late |-> tasks[t].late]
PickRank(t) == IF PoolRow(t).late THEN 0 ELSE IF PoolRow(t).stale THEN 1 ELSE 2
TakenNotStarted == Cardinality(Taken(PreviousWeek(today)))
MorningTaken == {t \in DOMAIN tasks : tasks[t].status = "active" /\ IsLive(tasks[t].pick, today)}

TypeOK ==
  /\ scenario \in Scenarios
  /\ tasks \in [DOMAIN scenario.tasks -> TaskRow]
  /\ \A d \in DOMAIN requests : requests[d].step \in {"none", "toggle", "take"}

Weeks == {TargetWeek(day) : day \in scenario.first .. scenario.first + scenario.days}

(* Two taps that arrive together do not both take the last place of a week,  *)
(* a mark is only made for the week that was the coming one at the tap, and  *)
(* two screens that put the same row on today move it once: the second finds *)
(* another version and changes nothing (togglePickedForWeek, takeToday).     *)
TapsDoNotCollide ==
  /\ \A t \in DOMAIN tasks, week \in Weeks :
       tasks[t].pick # week /\ tasks'[t].pick = week =>
         /\ Cardinality(Taken(week)') <= scenario.limit
         /\ \E d \in DOMAIN requests : requests[d].week = week
  /\ \A d \in DOMAIN requests :
       requests[d].step = "take" /\ requests'[d].step = "none" /\ tasks' # tasks =>
         tasks[requests[d].task].version = requests[d].version
TapsKeepTheWeek == [][TapsDoNotCollide]_vars

(* "A POST that released a task because it happened to be picked would make *)
(* the app's checkbox unusable the moment two taps raced", says the comment *)
(* of setPicked: a request to pick never releases.                          *)
VerbsAreKept ==
  [][\A d \in DOMAIN requests, t \in DOMAIN tasks :
       requests[d].verb = "pick" /\ requests[d].task = t /\ Toggles(d) =>
         tasks'[t].pick # None \/ tasks[t].pick = None]_vars
=============================================================================
