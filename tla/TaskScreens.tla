------------------------------ MODULE TaskScreens ------------------------------
(***************************************************************************)
(* One task on the web client's screen and the writes that leave it         *)
(* (web/src/screens/tasks/detail.tsx, reschedule-sheet.tsx,                *)
(* api/tasks/web-tasks.service.ts, the checks of action-validation.ts and  *)
(* the transactions of action-mutations.repository.ts), beside the same    *)
(* person writing from the chat and the loop that opens and closes dates.  *)
(*                                                                         *)
(* A tap sends the version the screen had; the server resolves the id, has *)
(* the write validated and then applies it, and others write in between.   *)
(* Texts are left out; a checklist is one box.                             *)
(***************************************************************************)
EXTENDS Integers, FiniteSets

CONSTANTS
  Scenarios \* bound: the task, what may be tapped and how often things happen

VARIABLES
  scenario, \* [kind, event, timed, link, kinds, chat, slots, dates, taps, looks, chats, days, faults]
  task,     \* [status, version, dated, box]
  dates,    \* [id -> [status, version]]; the ids are in the order of their times
  view,     \* what the screen shows
  requests, \* the writes on their way
  spent     \* how much of each bound is used

vars == <<scenario, task, dates, view, requests, spent>>

None == 0
Bounds == {"taps", "looks", "chats", "days", "faults"}
TaskStatuses == {"active", "paused", "closed", "cancelled"}
DateStatuses == {"none", "scheduled", "open", "in_progress", "done", "skipped", "cancelled",
                 "withheld", "elapsed"}
Over == {"done", "skipped", "cancelled", "withheld"}
Terminal == Over \cup {"elapsed"}
Live == {"scheduled", "open", "in_progress"}
(* A date a paused series took away is cancelled with a reason of its own: "withheld". *)
Slots == 1 .. scenario.slots
Ids == 1 .. scenario.dates
IsSeries == scenario.kind = "series"
Dates == {d \in Ids : dates[d].status # "none"}
NextId == Cardinality(Dates) + 1

OfTask == {"edit", "tick", "untick", "pause", "resume"}
OfState == {"started", "seen", "skipped", "cancelled", "done"}
OfRepeat == {"endSeries", "moveSeries"}
Moves == {"move", "someday"}
Kinds == OfTask \cup OfState \cup OfRepeat \cup Moves

Unsent == [step |-> "none", kind |-> "none", of |-> None, version |-> None,
           shown |-> [task |-> None, date |-> None, version |-> None],
           target |-> [task |-> None, date |-> None], answer |-> "none"]
-----------------------------------------------------------------------------
(* findCurrentOccurrence: what is under way, then what is open, then the next. *)
Rank(status) == CASE status = "in_progress" -> 0 [] status = "open" -> 1
                  [] status = "scheduled" -> 2 [] OTHER -> 3
Before(d, e) == \/ Rank(dates[d].status) < Rank(dates[e].status)
                \/ Rank(dates[d].status) = Rank(dates[e].status) /\ d <= e
CurrentDate ==
  LET candidates == {d \in Dates : dates[d].status \in Live \cup {"elapsed"}}
  IN IF candidates = {} THEN None
     ELSE CHOOSE d \in candidates : \A e \in candidates : Before(d, e)

StatusOf(d) == IF d = None THEN "none" ELSE dates[d].status
VersionOf(d) == IF d = None THEN None ELSE dates[d].version

(* resolveTarget: an id of a task or of a date. *)
Named(id) == IF id = None THEN CurrentDate ELSE id
Shown(d) == [status |-> task.status, task |-> task.version, box |-> task.box,
             date |-> d, version |-> VersionOf(d), dateStatus |-> StatusOf(d)]

Init ==
  /\ scenario \in Scenarios
  /\ task = [status |-> "active", version |-> 1, dated |-> scenario.kind # "dateless",
             box |-> FALSE]
  /\ dates = [d \in Ids |->
       [status |-> IF d <= (CASE IsSeries -> 2 [] scenario.kind = "oneoff" -> 1 [] OTHER -> 0)
                   THEN "scheduled" ELSE "none", version |-> 1]]
  /\ view = Shown(Named(scenario.link))
  /\ requests = [i \in Slots |-> Unsent]
  /\ spent = [b \in Bounds |-> 0]

Spend(b) == spent[b] < scenario[b] /\ spent' = [spent EXCEPT ![b] = @ + 1]
-----------------------------------------------------------------------------
(* What the screen lets be tapped. *)
CanAct == view.status = "active" /\ view.date # None /\ view.dateStatus \notin Over
MayTap(kind) ==
  CASE kind \in {"edit", "tick"} -> TRUE
    [] kind = "untick" -> view.box
    [] kind = "started" -> CanAct /\ view.dateStatus # "in_progress"
    [] kind \in {"seen", "done", "cancelled"} -> CanAct
    [] kind = "skipped" -> CanAct /\ IsSeries /\ ~scenario.event
    [] kind = "endSeries" -> CanAct /\ IsSeries
    [] kind \in {"move", "someday"} -> view.status = "active"
    [] kind = "moveSeries" -> view.status = "active" /\ IsSeries
    [] kind = "pause" -> view.status = "active" /\ IsSeries
    [] kind = "resume" -> view.status = "paused"

(* The version that travels: the sheet sends that of the date, whatever is moved. *)
SentVersionOfTask(kind) == view.task
SentVersion(kind) ==
  IF kind \in OfTask \cup {"endSeries"} \/ view.date = None THEN view.task ELSE view.version

Asked(kind) ==
  [step |-> "sent", kind |-> kind, of |-> IF kind \in OfTask THEN None ELSE view.date,
   version |-> SentVersion(kind),
   shown |-> [task |-> view.task, date |-> view.date, version |-> view.version],
   target |-> Unsent.target, answer |-> Unsent.answer]
Taps(kind) ==
  /\ kind \in scenario.kinds /\ MayTap(kind) /\ Spend("taps")
  /\ LET free == {i \in Slots : requests[i].step = "none"}
     IN /\ free # {}
        /\ requests' = [requests EXCEPT ![CHOOSE i \in free : \A j \in free : i <= j] =
                          Asked(kind)]
  /\ UNCHANGED <<scenario, task, dates, view>>

(* The task is read again: the reload of the notice, the refetch after a write. *)
Loads ==
  /\ Spend("looks")
  /\ view' = Shown(Named(scenario.link))
  /\ UNCHANGED <<scenario, task, dates, requests>>
-----------------------------------------------------------------------------
(* The write itself, as its transaction leaves the task and its dates. *)
Bump(row, status) == [row EXCEPT !.status = status, !.version = @ + 1]
TaskBumped == [task EXCEPT !.version = @ + 1]
DateTo(d, status) == dates' = [dates EXCEPT ![d] = Bump(@, status)]
AllTo(from, status) ==
  dates' = [d \in Ids |-> IF dates[d].status \in from THEN Bump(dates[d], status) ELSE dates[d]]

Transitions ==
  [scheduled |-> {"open", "in_progress", "done", "skipped", "cancelled", "elapsed"},
   open |-> {"in_progress", "done", "skipped", "cancelled", "elapsed", "scheduled"},
   in_progress |-> {"done", "skipped", "cancelled", "open", "scheduled"},
   elapsed |-> {"done"}]
MayBecome(d, status) ==
  dates[d].status \in DOMAIN Transitions /\ status \in Transitions[dates[d].status]

(* A date that closes closes a task that does not repeat. *)
Closes(d, status, taskStatus) ==
  /\ MayBecome(d, status) /\ DateTo(d, status)
  /\ task' = IF IsSeries THEN task ELSE Bump(task, taskStatus)

(* liveOccurrence: the date a "done" closes is looked up again in the transaction, *)
(* the earliest by its clock time; dates without one come in any order.            *)
LiveDates == {d \in Dates : dates[d].status \in Live \cup {"elapsed"}}
Earliest(d) == d \in LiveDates /\ (scenario.timed => \A e \in LiveDates : d <= e)
CompleteTask ==
  /\ task.status = "active"
  /\ IF LiveDates # {} THEN \E d \in LiveDates : Earliest(d) /\ Closes(d, "done", "closed")
     ELSE task' = Bump(task, "closed") /\ UNCHANGED dates

(* A box that is ticked stays ticked when the list that is sent has it unticked. *)
KeptTick(sent) == sent \/ task.box
Checklist(sent) ==
  task' = [TaskBumped EXCEPT !.box = KeptTick(sent)] /\ UNCHANGED dates

Answers(d, status) == MayBecome(d, status) /\ DateTo(d, status) /\ UNCHANGED task

MoveDate(d) ==
  /\ dates[d].status \notin Terminal /\ DateTo(d, "scheduled")
  /\ task' = IF IsSeries THEN task ELSE TaskBumped
Someday(d) ==
  /\ dates[d].status \notin Terminal /\ ~IsSeries /\ DateTo(d, "cancelled")
  /\ task' = [TaskBumped EXCEPT !.dated = FALSE]
GiveDate ==
  /\ task.status = "active" /\ ~task.dated /\ ~IsSeries /\ NextId \in Ids
  /\ task' = [TaskBumped EXCEPT !.dated = TRUE]
  /\ dates' = [dates EXCEPT ![NextId].status = "scheduled"]

(* changeSeriesInTx: the dates to come are taken away, all of them by a cancellation. *)
ChangeSeries(kind) ==
  /\ IsSeries
  /\ kind = "resume" => task.status = "paused"
  /\ task' = Bump(task, CASE kind = "pause" -> "paused" [] kind = "resume" -> "active"
                          [] kind = "endSeries" -> "cancelled" [] OTHER -> task.status)
  /\ CASE kind = "pause" -> AllTo({"scheduled"}, "withheld")
       [] kind = "moveSeries" -> AllTo({"scheduled"}, "cancelled")
       [] kind = "endSeries" -> AllTo(Live, "cancelled")
       [] kind = "resume" -> AllTo({"withheld"}, "scheduled")

Writes(kind, d) ==
  CASE kind = "edit" -> task' = TaskBumped /\ UNCHANGED dates
    [] kind = "tick" -> Checklist(TRUE)
    [] kind = "untick" -> Checklist(FALSE)
    [] kind \in {"pause", "resume"} \cup OfRepeat -> ChangeSeries(kind)
    [] kind = "started" -> d # None /\ Answers(d, "in_progress")
    [] kind = "seen" -> d # None /\ Answers(d, "open")
    [] kind = "skipped" -> d # None /\ ~scenario.event /\ IsSeries /\ Closes(d, "skipped", "active")
    [] kind = "cancelled" -> d # None /\ Closes(d, "cancelled", "cancelled")
    [] kind = "done" -> CompleteTask
    [] kind = "move" -> IF d # None THEN MoveDate(d) ELSE GiveDate
    [] kind = "someday" -> d # None /\ Someday(d)
-----------------------------------------------------------------------------
(* resolveTarget: the row the id names, read before anything is checked. *)
Resolved(r) ==
  [r EXCEPT !.step = "resolved", !.target = [task |-> task.version, date |-> Named(r.of)]]
Resolves(i) ==
  /\ requests[i].step = "sent"
  /\ requests' = [requests EXCEPT ![i] = Resolved(requests[i])]
  /\ UNCHANGED <<scenario, task, dates, view, spent>>

Ended(r, answer) == [r EXCEPT !.step = "answered", !.answer = answer]
Ends(i, answer) == requests' = [requests EXCEPT ![i] = Ended(requests[i], answer)]

(* What the version that was sent is compared with. *)
AddressesTask(r) == r.kind \in OfTask \cup OfRepeat \/ r.target.date = None
IsFresh(r) ==
  IF AddressesTask(r) THEN task.version = r.version
  ELSE /\ dates[r.target.date].version = r.version
       /\ r.kind \notin {"started", "seen"} => task.version = r.target.task
HasNoRow(r) == r.kind \in OfState /\ r.target.date = None
IsOver(r) ==
  \/ r.kind \in {"skipped", "cancelled"} /\ dates[r.target.date].status \in Terminal
  \/ r.kind = "move" /\ r.target.date = None /\ (IsSeries \/ task.dated)
  \/ r.kind \in Moves /\ r.target.date # None /\ dates[r.target.date].status \in Over
  \/ r.kind = "someday" /\ (IsSeries \/ r.target.date = None)
  \/ r.kind = "done" /\ task.status # "active"

(* A stale version is a conflict before the state is looked at, except that the date  *)
(* to skip or cancel is looked at before the version of its task, and the series that *)
(* cannot go to "someday" before that of its date.                                    *)
IsRefused(r) ==
  \/ HasNoRow(r)
  \/ /\ IsOver(r)
     /\ \/ IsFresh(r)
        \/ r.kind \in {"skipped", "cancelled"} /\ dates[r.target.date].version = r.version
        \/ r.kind = "someday" /\ r.target.date # None /\ IsSeries /\ task.version = r.target.task

(* validateResolvedAction, acknowledge.  Date and task are read by two statements and *)
(* here at once: what changes in between ends as if it came before both, or after.    *)
Validates(i) ==
  LET r == requests[i] IN
  /\ r.step = "resolved"
  /\ IF IsRefused(r) THEN Ends(i, "rule")
     ELSE IF ~IsFresh(r) THEN Ends(i, "conflict")
     ELSE requests' = [requests EXCEPT ![i].step = "validated"]
  /\ UNCHANGED <<scenario, task, dates, view, spent>>

(* The transaction compares the version of the row it writes once more: a "done" that *)
(* of the task, the rest that of what the request addresses.                          *)
StillFreshUnchecked(r) == TRUE
StillFresh(r) ==
  IF AddressesTask(r) THEN task.version = r.version
  ELSE IF r.kind = "done" THEN task.version = r.target.task
  ELSE dates[r.target.date].version = r.version
Applies(i) ==
  LET r == requests[i] IN
  /\ r.step = "validated"
  /\ \/ StillFresh(r) /\ Writes(r.kind, r.target.date) /\ Ends(i, "done")
     \/ /\ Ends(i, IF StillFresh(r) THEN "rule" ELSE "conflict")
        /\ StillFresh(r) => ~ENABLED Writes(r.kind, r.target.date)
        /\ UNCHANGED <<task, dates>>
  /\ UNCHANGED <<scenario, view, spent>>

(* The connection breaks at the commit, which may have landed: "unavailable". *)
ConnectionBreaks(i) ==
  LET r == requests[i] IN
  /\ r.step = "validated" /\ Spend("faults")
  /\ \/ StillFresh(r) /\ Writes(r.kind, r.target.date)
     \/ UNCHANGED <<task, dates>>
  /\ Ends(i, "unavailable")
  /\ UNCHANGED <<scenario, view>>

(* The answer: a success has the screen read again, a conflict shows the notice. *)
Receives(i) ==
  /\ requests[i].step = "answered"
  /\ requests' = [requests EXCEPT ![i] = Unsent]
  /\ UNCHANGED <<scenario, task, dates, view, spent>>
-----------------------------------------------------------------------------
(* The chat writes through the same transactions, with what it has just read. *)
ChatWrites(kind, d) ==
  /\ kind \in scenario.chat /\ Spend("chats")
  /\ kind \notin OfTask \cup OfRepeat \cup {"done"} => d = CurrentDate
  /\ Writes(kind, d)
  /\ UNCHANGED <<scenario, view, requests>>

(* A series without dates to come gets a new one; a date comes, and an event passes. *)
Refills ==
  /\ IsSeries /\ task.status = "active" /\ NextId \in Ids
  /\ \A d \in Dates : dates[d].status # "scheduled"
  /\ dates' = [dates EXCEPT ![NextId].status = "scheduled"]
  /\ UNCHANGED <<scenario, task, view, requests, spent>>

Opens(d) ==
  /\ dates[d].status = "scheduled" /\ Spend("days")
  /\ DateTo(d, "open")
  /\ UNCHANGED <<scenario, task, view, requests>>

Elapses(d) ==
  /\ scenario.event /\ dates[d].status \in {"scheduled", "open"} /\ Spend("days")
  /\ Closes(d, "elapsed", "closed")
  /\ UNCHANGED <<scenario, view, requests>>

Next ==
  \/ \E kind \in Kinds : Taps(kind)
  \/ Loads \/ Refills
  \/ \E i \in Slots : \/ Resolves(i) \/ Validates(i) \/ Applies(i)
                      \/ ConnectionBreaks(i) \/ Receives(i)
  \/ \E kind \in Kinds, d \in Dates \cup {None} : ChatWrites(kind, d)
  \/ \E d \in Dates : Opens(d) \/ Elapses(d)

Spec == Init /\ [][Next]_vars
-----------------------------------------------------------------------------
TypeOK ==
  /\ scenario \in Scenarios
  /\ task \in [status : TaskStatuses, version : Nat, dated : BOOLEAN, box : BOOLEAN]
  /\ dates \in [Ids -> [status : DateStatuses, version : Nat]]
  /\ view.date \in Dates \cup {None}
  /\ \A i \in Slots : /\ requests[i].kind \in Kinds \cup {"none"}
                      /\ requests[i].step \in {"none", "sent", "resolved", "validated", "answered"}

(* The dates a step changed are the date the screen showed, as it showed it; a write *)
(* about the whole task finds the task as the screen showed it.                      *)
AsShown(r) ==
  /\ r.kind \in OfTask \cup OfRepeat \/ r.shown.date = None => r.shown.task = task.version
  /\ r.kind \in OfState \cup Moves =>
       \A d \in Ids : dates'[d] # dates[d] => d = r.shown.date /\ dates[d].version = r.shown.version
Writing(i) == /\ requests[i].step = "validated" /\ requests'[i].step = "answered"
              /\ task' # task \/ dates' # dates

(* Whatever the chat and the loops do between a tap and its transaction, a write  *)
(* changes the date or the task the screen showed, at the version it showed, and  *)
(* nothing it had not seen (web-tasks.service.apply). The sheet's move of a task  *)
(* or of a whole repeat, and a "done", do not keep to it.                         *)
Careless(r) ==
  \/ r.kind = "moveSeries"
  \/ r.kind \in Moves /\ r.shown.date = None
  \/ r.kind = "done"
LandsAsShown ==
  \A i \in Slots : Writing(i) /\ ~Careless(requests[i]) => AsShown(requests[i])
WritesLandAsShown == [][LandsAsShown]_vars

Moved(r) ==
  \/ r.shown.task # task.version
  \/ r.shown.date # None /\ r.shown.version # dates[r.shown.date].version
  \/ r.shown.date = None /\ r.target.date # None

(* "A 409 means the row moved": a write is refused as a conflict only when the task *)
(* or the date has changed since the screen read it, or a date has come. The move   *)
(* of a whole repeat is left to SeriesCanBeMoved.                                   *)
ConflictMeansMoved ==
  \A i \in Slots : requests[i].answer = "conflict" /\ requests[i].kind # "moveSeries" =>
    Moved(requests[i])
SeriesCanBeMoved ==
  \A i \in Slots : requests[i].answer = "conflict" => Moved(requests[i])

(* "`done` and `skipped` are always about the one date in front of the user": a *)
(* date another write left alone is not closed by a "done" meant for the next.  *)
DoneClosesTheDateShown ==
  [][\A i \in Slots : Writing(i) /\ requests[i].kind = "done" =>
       \A d \in Ids : dates'[d] # dates[d] => d = requests[i].shown.date]_vars

(* "Every write carries the version it read", the moves of the sheet included. *)
MovesAreNotBlind ==
  [][\A i \in Slots : Writing(i) /\ requests[i].kind \in Moves \cup {"moveSeries"} =>
       AsShown(requests[i])]_vars

(* "A checklist is replaced wholesale": what a write of the list leaves stored is *)
(* the list that was sent.                                                        *)
ChecklistIsReplaced ==
  [][\A i \in Slots : Writing(i) /\ requests[i].kind = "untick" => ~task'.box]_vars
=============================================================================
