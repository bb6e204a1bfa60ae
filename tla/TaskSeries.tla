------------------------------- MODULE TaskSeries -------------------------------
(* One recurring task and its dates.  The refill, run every six hours and after *)
(* a change, reads the series, the dates there are, and only then inserts the   *)
(* missing ones; meanwhile the user pauses, resumes, edits, cancels or undoes,  *)
(* answers single dates, and the lifecycle loop opens and expires them.         *)
(* Sources: tasks/recurrence-maintenance.service.ts, occurrence-maintenance.    *)
(* service.ts, tasks.service.ts, tasks.repository.ts; changeSeriesInTx of       *)
(* actions/action-mutations.repository.ts; undo of action-group.repository.ts;  *)
(* core/series-policy.ts, core/lifecycle.ts, core/occurrence.ts.                *)
EXTENDS Naturals, FiniteSets

CONSTANTS
  Rules,      \* the definitions a series may have
  First,      \* the one it is created with
  DatesOf,    \* the days of each rule, the excluded ones taken out
  Ahead,      \* how many days the refill looks ahead (30 in the code)
  LastDay,    \* bound: the last day
  LastRevision,  \* bound: the last revision of the series
  Loop, After,  \* the refill of the loop and the one after a change
  Scenarios   \* what may happen, and how often

Day == 0 .. LastDay
Refills == {Loop, After}

(* timed: dates have a moment, else they are whole days; deadline: whole days   *)
(* that are due; expires: a missed date is skipped the day after; overlap: a    *)
(* refill may be under way while the series changes; ops, answers, undos,       *)
(* crashes: what the user may do, and bounds.                                   *)
Scenario ==
  [timed: BOOLEAN, deadline: BOOLEAN, expires: BOOLEAN, overlap: BOOLEAN,
   ops: SUBSET {"pause", "resume", "edit", "cancel"}, changes: Nat,
   edits: Nat, answers: Nat, undos: Nat, crashes: Nat]

(* A rule has days, and what may happen is a scenario.                          *)
ASSUME SeriesAssumption ==
  /\ First \in Rules /\ DatesOf \in [Rules -> SUBSET Day]
  /\ LastDay \in Nat /\ LastRevision \in Nat \ {0} /\ Ahead \in Nat
  /\ Scenarios \subseteq Scenario

VARIABLES
  scenario, today,
  series,    \* the row of tasks: status, rule, revision and version
  dates,     \* task_occurrences by revision and day; none where there is none
  refill,    \* refills under way: their step and what they have read
  scan,      \* the date the lifecycle loop has read, with the version read
  after,     \* a change has committed and its refill has not begun
  journal,   \* the last change of the series, for Undo
  spent      \* counters for the bounds

vars == <<scenario, today, series, dates, refill, scan, after, journal, spent>>

Revisions == 1 .. LastRevision
Slots == Revisions \X Day
Live == {"scheduled", "open", "in_progress"}
Statuses == Live \cup {"none", "done", "skipped", "cancelled"}
Reasons == {"", "paused", "edited", "cancelled", "undone", "expired"}

(* reminds: nothing planned, a rebuild asked for, or deliveries planned.        *)
(* mark is history: the refill that made the date had read an earlier version   *)
(* of the series; the date was once in progress; or a resume brought it back    *)
(* after an edit had given the series another rule.                             *)
DateType ==
  [status: Statuses, reason: Reasons, version: Nat, overdue: BOOLEAN,
   reminds: {"none", "due", "planned"}, mark: {"", "late", "begun", "older"}]
SeriesType ==
  [status: {"active", "paused", "cancelled"}, rule: Rules,
   revision: Revisions, version: Nat]
NoDate == [status |-> "none", reason |-> "", version |-> 0, overdue |-> FALSE,
           reminds |-> "none", mark |-> ""]
NoJournal == [op |-> "none", series |-> [status |-> "active", rule |-> First,
              revision |-> 1, version |-> 1], dates |-> [s \in Slots |-> NoDate],
              touched |-> {}, post |-> [s \in Slots |-> 0], until |-> 0]

Resting == [pc |-> "idle", seen |-> NoJournal.series, now |-> 0, missing |-> {}]
-----------------------------------------------------------------------------
(* Boundaries of a date: its moment, or the end of its day.                     *)
OnDay(s) == s[2]
StillFuture(s) == IF scenario.timed THEN OnDay(s) > today ELSE OnDay(s) >= today
IsLive(s) == dates[s].status \in Live
SetStatus(row, status, reason) ==
  [row EXCEPT !.status = status, !.reason = reason, !.version = @ + 1]

(* buildRecurringOccurrences: the days of the rule from now to the horizon; one *)
(* not yet due is scheduled, and a deadline series has its first open at once.  *)
Projected(seen, now) ==
  {<<seen.revision, d>> : d \in {e \in DatesOf[seen.rule] : now <= e /\ e <= now + Ahead}}
IsFirst(s, seen, now) == \A t \in Projected(seen, now) : OnDay(s) <= OnDay(t)
ProjectedStatus(s, seen, now) ==
  IF OnDay(s) > now /\ ~(scenario.deadline /\ IsFirst(s, seen, now))
  THEN "scheduled" ELSE "open"
NewDate(s, seen, now) ==
  [NoDate EXCEPT !.status = ProjectedStatus(s, seen, now), !.version = 1,
                 !.reminds = "planned",
                 !.mark = IF seen.version = series.version THEN "" ELSE "late"]

Init ==
  /\ scenario \in Scenarios
  /\ today = 0
  /\ series = [status |-> "active", rule |-> First, revision |-> 1, version |-> 1]
  /\ dates = [s \in Slots |->
       IF s \in Projected(series, 0) THEN NewDate(s, series, 0) ELSE NoDate]
  /\ refill = [w \in Refills |-> Resting]
  /\ scan = {}
  /\ after = FALSE
  /\ journal = NoJournal
  /\ spent = [changes |-> 0, edits |-> 0, answers |-> 0, undos |-> 0, crashes |-> 0]
-----------------------------------------------------------------------------
Spend(what) ==
  /\ spent[what] < scenario[what]
  /\ spent' = [spent EXCEPT ![what] = @ + 1]
SpendChange(op) ==
  /\ spent.changes < scenario.changes
  /\ op = "edit" => spent.edits < scenario.edits /\ series.revision < LastRevision
  /\ spent' = [spent EXCEPT !.changes = @ + 1, !.edits = IF op = "edit" THEN @ + 1 ELSE @]
Calm == scenario.overlap \/ \A w \in Refills : refill[w].pc = "idle"

(* runTick and reconcileTask: an active series, as it is at this moment.  The   *)
(* excluded dates, which refillTask reads by a second statement, are part of    *)
(* the rule: a change between the two is one after both, which makes the dates  *)
(* `late` too.                                                                  *)
BeginRefill(w) ==
  /\ refill[w].pc = "idle"
  /\ w = After => after
  /\ after' = (after /\ w # After)
  /\ refill' = [refill EXCEPT ![w] =
       IF series.status = "active"
       THEN [pc |-> "seen", seen |-> series, now |-> today, missing |-> {}]
       ELSE Resting]
  /\ UNCHANGED <<scenario, today, series, dates, scan, journal, spent>>

(* The dates of the revision there are, whatever their status.                  *)
ExistingLive(revision) == {s \in Slots : s[1] = revision /\ IsLive(s)}
Existing(revision) ==
  {s \in Slots : s[1] = revision /\ dates[s].status # "none"}
ReadExisting(w) ==
  /\ refill[w].pc = "seen"
  /\ LET seen == refill[w].seen
         missing == Projected(seen, refill[w].now) \ Existing(seen.revision)
     IN refill' = [refill EXCEPT ![w] =
          IF missing = {} THEN Resting
          ELSE [@ EXCEPT !.pc = "insert", !.missing = missing]]
  /\ UNCHANGED <<scenario, today, series, dates, scan, after, journal, spent>>

(* One transaction; a date another refill has put there meanwhile breaks the    *)
(* unique index, and the whole insert with it.                                  *)
Insert(w) ==
  /\ refill[w].pc = "insert"
  /\ LET r == refill[w]
         clash == \E s \in r.missing : dates[s].status # "none"
     IN dates' = IF clash THEN dates
                 ELSE [s \in Slots |->
                   IF s \in r.missing THEN NewDate(s, r.seen, r.now) ELSE dates[s]]
  /\ refill' = [refill EXCEPT ![w] = Resting]
  /\ UNCHANGED <<scenario, today, series, scan, after, journal, spent>>
-----------------------------------------------------------------------------
(* changeSeriesInTx.  A pause and an edit take away the dates still ahead but   *)
(* one in progress, a cancel every date; a resume brings back those a pause     *)
(* took.  Their deliveries are cancelled either way.                            *)
TakenScheduled(op, s) ==
  CASE op \in {"pause", "edit"} -> dates[s].status = "scheduled" /\ StillFuture(s)
    [] op = "cancel" -> IsLive(s)
    [] OTHER -> FALSE
TakenByPause(op, s) ==
  CASE op = "pause" -> IsLive(s) /\ StillFuture(s) /\ dates[s].status # "in_progress"
    [] op = "cancel" -> IsLive(s)
    [] OTHER -> FALSE
Taken(op, s) ==
  CASE op \in {"pause", "edit"} ->
         IsLive(s) /\ StillFuture(s) /\ dates[s].status # "in_progress"
    [] op = "cancel" -> IsLive(s)
    [] OTHER -> FALSE
Revived(op, s) ==
  /\ op = "resume"
  /\ dates[s].status = "cancelled" /\ dates[s].reason = "paused"
  /\ StillFuture(s)
ReasonOf(op) ==
  CASE op = "pause" -> "paused" [] op = "edit" -> "edited" [] OTHER -> "cancelled"
RestoredStatus == IF scenario.deadline THEN "open" ELSE "scheduled"
Changed(op, s) ==
  [SetStatus(dates[s],
             IF op = "resume" THEN RestoredStatus ELSE "cancelled",
             IF op = "resume" THEN "" ELSE ReasonOf(op))
     EXCEPT !.reminds = "none",
            !.mark = IF op = "resume" /\ dates[s].mark = "" /\ s[1] # series.revision
                     THEN "older" ELSE dates[s].mark]

(* seriesOperationState, and who may ask: the app pauses an active series and   *)
(* resumes a paused one; an edit or a cancel may name a paused series too.      *)
Allowed(op) ==
  /\ op \in scenario.ops
  /\ series.status \in (CASE op = "pause" -> {"active"} [] op = "resume" -> {"paused"}
                          [] OTHER -> {"active", "paused"})
StatusOfOp(op) == IF op = "edit" THEN series.status ELSE op
StatusAfter(op) ==
  CASE op = "pause" -> "paused" [] op = "resume" -> "active"
    [] op = "cancel" -> "cancelled" [] OTHER -> series.status
Reconciles(op) == op = "resume" \/ (op = "edit" /\ series.status = "active")

ChangeSeries(op, rule) ==
  /\ Calm
  /\ Allowed(op) /\ SpendChange(op)
  /\ (op = "edit") = (rule # series.rule)
  /\ LET touched == {s \in Slots : Taken(op, s) \/ Revived(op, s)}
         changed == [s \in Slots |-> IF s \in touched THEN Changed(op, s) ELSE dates[s]]
     IN /\ dates' = changed
        /\ journal' = IF op = "resume" THEN NoJournal
             ELSE [op |-> op, series |-> series, dates |-> dates, touched |-> touched,
                   post |-> [s \in Slots |-> changed[s].version], until |-> today + 1]
  /\ series' = [series EXCEPT !.status = StatusAfter(op), !.rule = rule,
                              !.version = @ + 1,
                              !.revision = IF op = "edit" THEN @ + 1 ELSE @]
  /\ after' = (after \/ Reconciles(op))
  /\ UNCHANGED <<scenario, today, refill, scan>>

(* Undo: nothing the change touched has changed since; the dates come back with *)
(* a rebuild of their reminders, and then every live date of another revision   *)
(* is taken away, unless one of them has been touched.                          *)
Unchanged ==
  /\ series.version = journal.series.version + 1
  /\ \A s \in journal.touched : dates[s].version = journal.post[s]
PutBack ==
  [s \in Slots |->
     IF s \notin journal.touched THEN dates[s]
     ELSE [journal.dates[s] EXCEPT !.version = dates[s].version + 1,
             !.reminds = "due", !.mark = dates[s].mark]]
NewerNone(rows) == {}
Newer(rows) ==
  {s \in Slots : s[1] # journal.series.revision /\ rows[s].status \in Live}
Withdrawn(rows, newer) ==
  [s \in Slots |->
     IF s \in newer THEN [SetStatus(rows[s], "cancelled", "undone") EXCEPT !.reminds = "none"]
     ELSE rows[s]]
UndoChange ==
  /\ Calm
  /\ journal.op # "none" /\ Spend("undos")
  /\ Unchanged
  /\ LET newer == Newer(PutBack)
     IN /\ \A s \in newer : PutBack[s].version = 1 /\ PutBack[s].status # "in_progress"
        /\ dates' = Withdrawn(PutBack, newer)
  /\ series' = [journal.series EXCEPT !.version = series.version + 1]
  /\ journal' = NoJournal
  /\ after' = TRUE
  /\ UNCHANGED <<scenario, today, refill, scan>>

(* The reminders the undo asked for; a series that is not active has none.      *)
Rebuild(s) ==
  /\ dates[s].reminds = "due"
  /\ dates' = [dates EXCEPT ![s].reminds =
       IF series.status = "active" /\ IsLive(s) THEN "planned" ELSE "none"]
  /\ UNCHANGED <<scenario, today, series, refill, scan, after, journal, spent>>
-----------------------------------------------------------------------------
(* What the user answers to a date: transitions of core/occurrence.ts.          *)
Answers ==
  {<<"scheduled", "done">>, <<"open", "done">>, <<"in_progress", "done">>,
   <<"open", "skipped">>, <<"scheduled", "skipped">>, <<"in_progress", "skipped">>,
   <<"scheduled", "in_progress">>, <<"open", "in_progress">>,
   <<"in_progress", "open">>}
Answer(s, status) ==
  /\ series.status \in {"active", "paused"}
  /\ <<dates[s].status, status>> \in Answers
  /\ Spend("answers")
  /\ LET row == dates[s] IN
       dates' = [dates EXCEPT ![s] =
         [SetStatus(row, status, row.reason) EXCEPT
            !.reminds = IF status \in Live THEN row.reminds ELSE "none",
            !.mark = IF status = "in_progress" /\ row.mark # "late" THEN "begun" ELSE row.mark]]
  /\ UNCHANGED <<scenario, today, series, refill, scan, after, journal>>

(* The lifecycle loop reads the live dates of an active series, and applies its *)
(* decision to each one that has not changed since; rows do not depend on each  *)
(* other, so one is followed at a time.                                         *)
Expired(s) == scenario.expires /\ today > OnDay(s)
Opens(s) == ~Expired(s) /\ dates[s].status = "scheduled" /\ OnDay(s) <= today
Overdue(s) ==
  ~Expired(s) /\ ~Opens(s) /\ scenario.deadline /\ ~dates[s].overdue /\ today > OnDay(s)
ScanDate(s) ==
  /\ scan = {} /\ series.status = "active" /\ IsLive(s)
  /\ Expired(s) \/ Opens(s) \/ Overdue(s)
  /\ scan' = {<<s, dates[s].version>>}
  /\ UNCHANGED <<scenario, today, series, dates, refill, after, journal, spent>>
Decided(s) ==
  IF Expired(s) THEN [SetStatus(dates[s], "skipped", "expired") EXCEPT !.reminds = "none"]
  ELSE IF Opens(s) THEN SetStatus(dates[s], "open", dates[s].reason)
  ELSE [dates[s] EXCEPT !.overdue = TRUE, !.version = @ + 1]
Maintain(s) ==
  /\ scan # {} /\ s \in {read[1] : read \in scan}
  /\ scan' = {}
  /\ dates' = IF <<s, dates[s].version>> \in scan THEN [dates EXCEPT ![s] = Decided(s)] ELSE dates
  /\ UNCHANGED <<scenario, today, series, refill, after, journal, spent>>
-----------------------------------------------------------------------------
NewDay ==
  /\ today < LastDay
  /\ today' = today + 1
  /\ journal' = IF today' > journal.until THEN NoJournal ELSE journal
  /\ UNCHANGED <<scenario, series, dates, refill, scan, after, spent>>

(* The process stops: what was in memory is gone.                               *)
Crash ==
  /\ Spend("crashes")
  /\ refill' = [w \in Refills |-> Resting]
  /\ scan' = {} /\ after' = FALSE
  /\ UNCHANGED <<scenario, today, series, dates, journal>>

Next ==
  \/ \E w \in Refills : BeginRefill(w) \/ ReadExisting(w) \/ Insert(w)
  \/ \E op \in {"pause", "resume", "cancel", "edit"}, rule \in Rules : ChangeSeries(op, rule)
  \/ UndoChange
  \/ \E s \in Slots : Rebuild(s) \/ \E status \in Statuses : Answer(s, status)
  \/ \E s \in Slots : ScanDate(s) \/ Maintain(s)
  \/ NewDay
  \/ Crash

(* The loops tick for ever and a request runs to its end; what a crash drops is *)
(* left to the loop.                                                            *)
Fairness ==
  /\ \A w \in Refills : WF_vars(BeginRefill(w)) /\ WF_vars(ReadExisting(w)) /\ WF_vars(Insert(w))
  /\ \A s \in Slots : WF_vars(Rebuild(s))
Spec == Init /\ [][Next]_vars /\ Fairness
-----------------------------------------------------------------------------
(* Every variable has its type.                                                 *)
TypeOK ==
  /\ scenario \in Scenarios \cap Scenario /\ today \in Day /\ series \in SeriesType
  /\ dates \in [Slots -> DateType]
  /\ refill \in [Refills -> [pc: {"idle", "seen", "insert"}, seen: SeriesType,
                            now: Day, missing: SUBSET Slots]]
  /\ scan \subseteq Slots \X Nat /\ after \in BOOLEAN

(* A series that is paused has no date ahead, and a cancelled one no date at    *)
(* all, except a date in progress when it was paused and one that a refill made *)
(* which had read the series before: the pause cannot see its insert.           *)
StoppedIsQuiet ==
  \A s \in Slots : IsLive(s) =>
    /\ series.status = "paused" /\ StillFuture(s) => dates[s].mark \in {"late", "begun"}
    /\ series.status = "cancelled" => dates[s].mark = "late"

(* The dates ahead are those of the rule the series has now, under the same two *)
(* exceptions and for what a resume brings back: an edit and its undo leave no  *)
(* date of the other rule behind.                                               *)
DatesFollowTheRule ==
  \A s \in Slots : IsLive(s) /\ StillFuture(s) =>
    s[1] = series.revision \/ dates[s].mark # ""

(* An undo loses no date the series had before the change under the rule it had *)
(* then, unless it has been answered since, and leaves none of another rule.    *)
Kept(s) == journal.dates[s].status \in Live => dates'[s].status \in Live \cup {"done", "skipped"}
ExactUndo ==
  spent'.undos # spent.undos =>
    \A s \in Slots :
      /\ s[1] = journal.series.revision => Kept(s)
      /\ dates'[s].status \in Live => s[1] = journal.series.revision
UndoIsExact == [][ExactUndo]_vars

(* "Every future occurrence is dropped and rebuilt from the new rule", says the *)
(* report of an edit (applied-report.ts): a resume brings the old ones back.    *)
EditDropsDates ==
  \A s \in Slots : IsLive(s) /\ StillFuture(s) =>
    s[1] = series.revision \/ dates[s].mark \in {"late", "begun"}

(* "Every advertised Undo represents a truthful rollback" (CODE_REVIEW.md): an  *)
(* undo takes away what is left of the dates of a rule before the last.         *)
TruthfulUndo == spent'.undos # spent.undos => \A s \in Slots : Kept(s)

(* A series that stays active has every date of its rule up to the horizon,     *)
(* live or answered, whatever a crash cut off and whichever refill lost.        *)
Filled ==
  \A s \in Projected(series, today) :
    StillFuture(s) => dates[s].status \in Live \cup {"done", "skipped"}
SeriesIsFilled == <>[](series.status = "active") => <>[]Filled

(* A live date ahead of an active series has its reminders, or a rebuild of     *)
(* them asked for.                                                              *)
FutureDatesRemind ==
  series.status = "active" =>
    \A s \in Slots : IsLive(s) /\ StillFuture(s) => dates[s].reminds # "none"
=============================================================================
