----------------------------- MODULE Schedules -----------------------------
(***************************************************************************)
(* From words to instants: a request (a day, a clock time, a repeat) is     *)
(* compiled into a definition, a series is projected into dates a horizon   *)
(* ahead and refilled as the days pass, single dates and whole series are   *)
(* moved, and the minute loop opens and expires what has come.              *)
(* Sources: core/timezone.ts, core/local-schedule.ts, core/recurrence.ts,   *)
(* core/recurrence-input.ts, core/task-policy.ts, core/lifecycle.ts,        *)
(* core/reschedule.ts, core/telegram-ux.ts, actions/action-conversion.ts,   *)
(* actions/action-mutations.repository.ts, api/tasks/web-tasks.service.ts,  *)
(* web/src/screens/tasks/when-editor.tsx.                                   *)
(*                                                                         *)
(* Days are numbered from 2026-01-01; an instant and a local time are a     *)
(* number of half hours. A zone is an offset that changes once.             *)
(***************************************************************************)
EXTENDS Integers, FiniteSetsExt, SequencesExt

CONSTANTS Scenarios, HorizonDays, LastMonth

VARIABLES scenario, now, task, rows, filled, outcome, edits
vars == <<scenario, now, task, rows, filled, outcome, edits>>

None == -1
Day == 48

(* What a story is given: a zone, a clock, and requests for a time.         *)
IsZone(z) == z.at \in Int /\ z.before \in Int /\ z.after \in Int
IsWhen(w) ==
  /\ w.mode \in {"exact", "date", "deadline", "fuzzy"}
  /\ w.date \in Int /\ w.time \in Int /\ w.duration \in Nat
IsScenario(s) ==
  /\ IsZone(s.zone) /\ s.start \in Nat /\ s.step \in Nat /\ s.edits \in Nat
  /\ s.morning \in Int /\ s.evening \in Int
  /\ s.choices \subseteq {"1h", "evening", "tomorrow"}
  /\ IsWhen(s.request.when)
  /\ (\A w \in s.dates : IsWhen(w)) /\ (\A q \in s.moves : IsWhen(q.when))

---------------------------------------------------------------------------
(* The calendar. *)

Weekday(d) == ((d + 3) % 7) + 1
Monday(d) == d - (Weekday(d) - 1)
MonthLength(m) ==
  IF m % 12 = 1 THEN IF (2026 + (m \div 12)) % 4 = 0 THEN 29 ELSE 28
  ELSE IF m % 12 \in {3, 5, 8, 10} THEN 30 ELSE 31
MonthStart ==
  LET start[m \in 0..LastMonth] == IF m = 0 THEN 0 ELSE start[m - 1] + MonthLength(m - 1)
  IN start
MonthIndex(d) == Max({m \in 0..LastMonth : MonthStart[m] <= d})
DayOfMonth(d) == d - MonthStart[MonthIndex(d)] + 1

---------------------------------------------------------------------------
(* Local time and instants. *)

OffsetAt(z, u) == IF u < z.at THEN z.before ELSE z.after
LocalAt(z, u) == u + OffsetAt(z, u)
LocalDateAt(z, u) == LocalAt(z, u) \div Day
LocalTimeAt(z, u) == LocalAt(z, u) % Day

(* Four corrections by the offset.                                          *)
Candidate(z, n) ==
  LET Near(c) == c + n - LocalAt(z, c)
  IN Near(Near(Near(Near(n))))
(* The neighbours a common change of clocks apart, and the later times of   *)
(* the same day within four hours.                                          *)
Exact(z, n, c) == {u \in {c + k : k \in {0, -2, 2, -4, 4}} : LocalAt(z, u) = n}
Later(z, d, n, c) ==
  {u \in (c - 8)..(c + 8) : LocalDateAt(z, u) = d /\ LocalAt(z, u) >= n}
Nearest(z, later) == {v \in later : \A w \in later : LocalAt(z, v) <= LocalAt(z, w)}
Mapped(exact, nearest) ==
  IF exact # {} THEN [ok |-> TRUE, at |-> Min(exact), adjusted |-> FALSE]
  ELSE IF nearest # {} THEN [ok |-> TRUE, at |-> Min(nearest), adjusted |-> TRUE]
  ELSE [ok |-> FALSE, at |-> None, adjusted |-> FALSE]
MappedAround(z, d, n, c) == Mapped(Exact(z, n, c), Nearest(z, Later(z, d, n, c)))

(* A mutated form: a local time the zone skips moves back, not forward.     *)
localDateTimeToUtcBack(z, d, t) ==
  LET n == d * Day + t
      c == Candidate(z, n)
      earlier == {u \in (c - 8)..(c + 8) : LocalDateAt(z, u) = d /\ LocalAt(z, u) <= n}
  IN Mapped(Exact(z, n, c), {v \in earlier : v = Max(earlier)})

localDateTimeToUtc(z, d, t) == MappedAround(z, d, d * Day + t, Candidate(z, d * Day + t))

Instant(z, d, t) == localDateTimeToUtc(z, d, t).at

---------------------------------------------------------------------------
(* A request and its definition. *)

NoTimes == [start |-> None, end |-> None, date |-> None, due |-> None,
            dueDate |-> None, review |-> None]

Compiled(w, at, look) ==
  LET timed(mode, times) == [ok |-> at.ok, mode |-> mode, times |-> times]
  IN CASE w.mode = "exact" /\ w.duration > 0 ->
            timed("window", [NoTimes EXCEPT !.start = at.at, !.end = at.at + w.duration])
       [] w.mode = "exact" /\ w.duration = 0 ->
            timed("point", [NoTimes EXCEPT !.start = at.at])
       [] w.mode = "date" ->
            [ok |-> TRUE, mode |-> "window", times |-> [NoTimes EXCEPT !.date = w.date]]
       [] w.mode = "deadline" /\ w.time # None ->
            timed("deadline", [NoTimes EXCEPT !.due = at.at])
       [] w.mode = "deadline" /\ w.time = None ->
            [ok |-> TRUE, mode |-> "deadline", times |-> [NoTimes EXCEPT !.dueDate = w.date]]
       [] w.mode = "fuzzy" ->
            [ok |-> look.ok, mode |-> "fuzzy", times |-> [NoTimes EXCEPT !.review = look.at]]
(* compileWhen: the time of a request; ok is FALSE where it throws.         *)
CompileWhen(z, w, reviewTime) ==
  Compiled(w, localDateTimeToUtc(z, w.date, w.time),
           localDateTimeToUtc(z, w.date, reviewTime))

(* The checkpoint of a task without a date: the morning, or soon when the   *)
(* morning of that day is gone.                                             *)
ReviewTime(w) ==
  LET z == scenario.zone
      soon == LocalTimeAt(z, now) + 2
  IN IF w.mode = "fuzzy" /\ w.date = LocalDateAt(z, now)
        /\ scenario.morning <= LocalTimeAt(z, now) /\ soon < Day
     THEN soon ELSE scenario.morning

AnchorDate(z, mode, x) ==
  IF mode \in {"point", "window"}
  THEN IF x.start # None THEN LocalDateAt(z, x.start) ELSE x.date
  ELSE IF x.due # None THEN LocalDateAt(z, x.due) ELSE x.dueDate

NoRule == [freq |-> "none", interval |-> 1, byDay |-> {}, byMonthDay |-> {},
           until |-> None, skip |-> {}]

(* compileStructuredRecurrence: the rule of a repeat; the accepted ones.    *)
RuleOf(r) ==
  [freq |-> IF r.freq = "daily" /\ r.weekdays # {} /\ r.interval = 1
            THEN "weekly" ELSE r.freq,
   interval |-> r.interval, byDay |-> r.weekdays, byMonthDay |-> r.monthDays,
   until |-> r.until, skip |-> r.skip]
RuleStands(rule, startsOn) ==
  /\ rule.byDay # {} => rule.freq = "weekly"
  /\ rule.byMonthDay # {} => rule.freq = "monthly"
  /\ rule.until # None => rule.until >= startsOn
  /\ \A d \in rule.skip : d >= startsOn /\ (rule.until # None => d <= rule.until)

Recurring(def) == def.rule.freq # "none"

(* validateTaskDefinition: what a compiled definition can still fail.       *)
Valid(z, def) ==
  LET x == def.times
  IN /\ def.kind = "event" => def.mode \in {"point", "window"}
     /\ def.mode = "window" /\ x.start # None => x.end > x.start
     /\ def.mode = "point" => x.start # None /\ x.end = None
     /\ def.mode = "deadline" => ~(def.critical /\ x.due = None)
     /\ def.mode = "fuzzy" => def.kind = "task"
     /\ Recurring(def) =>
          /\ def.mode # "fuzzy"
          /\ RuleStands(def.rule, AnchorDate(z, def.mode, x))
          /\ def.kind = "task" => def.missed # "none"

(* validateNewTaskTiming, validateOneTimeTaskTiming: no time already gone.  *)
InTime(z, x) ==
  /\ \A u \in {x.start, x.end, x.due, x.review} \ {None} : u >= now
  /\ \A d \in {x.date, x.dueDate} \ {None} : d >= LocalDateAt(z, now)

MissPolicy(req, mode) ==
  IF req.repeat.freq = "none" \/ req.kind = "event" THEN "none"
  ELSE IF req.repeat.missed # "none" THEN req.repeat.missed
  ELSE IF mode = "deadline" THEN "carry_over" ELSE "expire"

(* taskDefinitionFromBody: an event with no set time loses the label.       *)
DefinedAt(z, req, s) ==
  LET kind == IF req.kind = "event" /\ s.mode \notin {"point", "window"} THEN "task" ELSE req.kind
      rule == IF req.repeat.freq = "none" THEN NoRule ELSE RuleOf(req.repeat)
      def == [kind |-> kind, critical |-> req.critical, mode |-> s.mode, times |-> s.times,
              rule |-> rule, missed |-> MissPolicy([req EXCEPT !.kind = kind], s.mode)]
  IN [ok |-> s.ok /\ Valid(z, def) /\ InTime(z, s.times), def |-> def]
DefinitionOf(z, req) == DefinedAt(z, req, CompileWhen(z, req.when, ReviewTime(req.when)))

(* seriesDefinitionFromReschedule: the caller's definition is read without  *)
(* the skipped dates (taskDefinitionFromRow's second argument is left out). *)
SeriesDefinedAt(z, req, s) ==
  LET rule == IF req.repeat.freq = "none" THEN [task.rule EXCEPT !.skip = {}]
              ELSE RuleOf(req.repeat)
      def == [task EXCEPT !.times = s.times, !.rule = rule,
                !.missed = IF task.kind = "event" THEN "none"
                           ELSE IF req.repeat.missed # "none" THEN req.repeat.missed
                           ELSE @]
  IN [ok |-> s.ok /\ s.mode = task.mode /\ Valid(z, def), def |-> def]
SeriesDefinition(z, req) ==
  SeriesDefinedAt(z, req, CompileWhen(z, req.when, ReviewTime(req.when)))

---------------------------------------------------------------------------
(* The dates of a rule and what each of them carries.  A rule with several     *)
(* times a day (BYTIME) is not modelled: one date a day.                       *)

(* A mutated form: the weeks of an interval are counted from the first date.*)
RecurrenceDatesFromSeed(rule, seed, through) ==
  LET days == IF rule.byDay = {} THEN {Weekday(seed)} ELSE rule.byDay
      weekly == {seed + 7 * rule.interval * k + ((d - Weekday(seed)) % 7) :
                   k \in 0..((through - seed) \div (7 * rule.interval)), d \in days}
      months == {m \in MonthIndex(seed)..MonthIndex(through) :
                   (m - MonthIndex(seed)) % rule.interval = 0}
      monthDays == IF rule.byMonthDay = {} THEN {DayOfMonth(seed)} ELSE rule.byMonthDay
      all == CASE rule.freq = "daily" ->
                    {seed + rule.interval * k : k \in 0..((through - seed) \div rule.interval)}
               [] rule.freq = "weekly" -> weekly
               [] rule.freq = "monthly" -> {MonthStart[m] + d - 1 : m \in months, d \in monthDays}
  IN {d \in all : d >= seed /\ d <= through}

RecurrenceDates(rule, seed, through) ==
  LET days == IF rule.byDay = {} THEN {Weekday(seed)} ELSE rule.byDay
      weeks == {w \in 0..((through - Monday(seed)) \div 7) : w % rule.interval = 0}
      months == {m \in MonthIndex(seed)..MonthIndex(through) :
                   (m - MonthIndex(seed)) % rule.interval = 0}
      monthDays == IF rule.byMonthDay = {} THEN {DayOfMonth(seed)} ELSE rule.byMonthDay
      all == CASE rule.freq = "daily" ->
                    {seed + rule.interval * k : k \in 0..((through - seed) \div rule.interval)}
               [] rule.freq = "weekly" -> {Monday(seed) + 7 * w + d - 1 : w \in weeks, d \in days}
               [] rule.freq = "monthly" ->
                    {MonthStart[md[1]] + md[2] - 1 :
                       md \in {md \in months \X monthDays : md[2] <= MonthLength(md[1])}}
  IN {d \in all : d >= seed /\ d <= through}

Shifted(z, u, anchor, d) ==
  IF u = None THEN [ok |-> TRUE, at |-> None, adjusted |-> FALSE]
  ELSE localDateTimeToUtc(z, d + LocalDateAt(z, u) - anchor, LocalTimeAt(z, u))

(* statusForProjection *)
StatusOf(z, x, key) ==
  IF x.start # None THEN IF x.start > now THEN "scheduled" ELSE "open"
  ELSE LET day == IF x.date # None THEN x.date ELSE key
       IN IF day # None /\ day > LocalDateAt(z, now) THEN "scheduled" ELSE "open"

(* buildProjectionForDate *)
Projected(x, by, at) ==
  [ok |-> \A f \in DOMAIN at : at[f].ok,
   adjusted |-> \E f \in DOMAIN at : at[f].adjusted,
   times |-> [start |-> at["start"].at, end |-> at["end"].at, due |-> at["due"].at,
              review |-> None,
              date |-> IF x.date = None THEN None ELSE x.date + by,
              dueDate |-> IF x.dueDate = None THEN None ELSE x.dueDate + by]]
Projection(z, def, anchor, d) ==
  Projected(def.times, d - anchor,
            [f \in {"start", "end", "due"} |-> Shifted(z, def.times[f], anchor, d)])

(* A mutated form: a timed date expires at its own start.                   *)
ExpiryAtStart(z, def, p, next) ==
  IF def.missed # "expire" THEN None
  ELSE IF p.times.end # None THEN p.times.end
  ELSE IF p.times.due # None THEN p.times.due
  ELSE p.times.start

(* applyExpiry: the end, the deadline, or the start of the next date.       *)
Expiry(z, def, p, next) ==
  IF def.missed # "expire" THEN None
  ELSE IF p.times.end # None THEN p.times.end
  ELSE IF p.times.due # None THEN p.times.due
  ELSE IF p.times.dueDate # None THEN Instant(z, p.times.dueDate + 1, 0)
  ELSE IF next.times.start # None THEN next.times.start
  ELSE None

Row(key, status, x, expires, adjusted) ==
  [key |-> key, status |-> status, times |-> x, expires |-> expires,
   adjusted |-> adjusted, overdue |-> FALSE, moved |-> FALSE]

(* buildRecurringOccurrences: the dates an interval past the horizon, and   *)
(* the rows up to it; ok is FALSE where one of them cannot be mapped, which *)
(* throws.                                                                  *)
Today == LocalDateAt(scenario.zone, now)
Extension(rule) ==
  LET ahead == Today + HorizonDays + CASE rule.freq = "daily" -> rule.interval
                                       [] rule.freq = "weekly" -> 7 * rule.interval
                                       [] rule.freq = "monthly" -> 370 * rule.interval
  IN IF rule.until # None THEN Min({rule.until, ahead}) ELSE ahead
DatesOf(rule, seed, through) ==
  IF through < seed \/ through < Today THEN {}
  ELSE RecurrenceDates(rule, seed, through) \ rule.skip
BuiltFrom(z, def, of) ==
  LET After(d) == {e \in DOMAIN of : e > d}
      Next(d) == IF After(d) # {} THEN of[Min(After(d))] ELSE [times |-> NoTimes]
      visible == {d \in DOMAIN of : d \in Today..(Today + HorizonDays)}
      first == def.mode = "deadline" /\ def.times.start = None /\ def.times.date = None
      Status(d) == IF first /\ d = Min(visible) THEN "open" ELSE StatusOf(z, of[d].times, d)
  IN [ok |-> \A d \in DOMAIN of : of[d].ok,
      rows |-> {Row(d, Status(d), of[d].times, Expiry(z, def, of[d], Next(d)), of[d].adjusted) :
                  d \in visible}]
Built(z, def) ==
  LET seed == AnchorDate(z, def.mode, def.times)
  IN BuiltFrom(z, def, [d \in DatesOf(def.rule, seed, Extension(def.rule)) |->
                          Projection(z, def, seed, d)])

(* buildOneTimeOccurrence *)
BuiltOnce(z, def) ==
  IF def.mode = "fuzzy" THEN {}
  ELSE {Row(None, StatusOf(z, def.times, None), def.times, None, FALSE)}

---------------------------------------------------------------------------
(* Moving a date. *)

(* quickRescheduleSchedule: the three buttons of a card.                    *)
ScheduledAt(mode, x, at) ==
  CASE mode = "deadline" -> [NoTimes EXCEPT !.due = at]
    [] mode = "window" ->
         [NoTimes EXCEPT !.start = at,
            !.end = at + IF x.start # None /\ x.end # None THEN Max({1, x.end - x.start}) ELSE 2]
    [] OTHER -> [NoTimes EXCEPT !.start = at]
Quick(z, choice, mode, x) ==
  LET today == LocalDateAt(z, now)
      evening == Instant(z, today, scenario.evening)
      source == IF mode = "deadline" THEN x.due ELSE x.start
      clock == IF source # None THEN LocalTimeAt(z, source) ELSE scenario.morning
  IN CASE choice = "1h" -> ScheduledAt(mode, x, now + 2)
       [] choice = "evening" ->
            ScheduledAt(mode, x, IF evening > now THEN evening
                                 ELSE Instant(z, today + 1, scenario.evening))
       [] choice = "tomorrow" ->
            IF mode = "deadline" /\ x.due = None THEN [NoTimes EXCEPT !.dueDate = today + 1]
            ELSE IF mode # "deadline" /\ x.start = None /\ x.date # None
            THEN [NoTimes EXCEPT !.date = today + 1]
            ELSE ScheduledAt(mode, x, Instant(z, today + 1, clock))

(* whenFromRescheduleFields: instants written back as a day and a clock.    *)
WhenOf(z, x) ==
  LET w(mode, date, time, duration) ==
        [mode |-> mode, date |-> date, time |-> time, duration |-> duration]
  IN IF x.start # None
     THEN w("exact", LocalDateAt(z, x.start), LocalTimeAt(z, x.start),
            IF x.end # None THEN Max({0, x.end - x.start}) ELSE 0)
     ELSE IF x.date # None THEN w("date", x.date, None, 0)
     ELSE IF x.due # None THEN w("deadline", LocalDateAt(z, x.due), LocalTimeAt(z, x.due), 0)
     ELSE w("deadline", x.dueDate, None, 0)

(* draftFromSchedule, whenFromDraft: the editor of the app keeps the two    *)
(* clock times of a window and computes its length from them.               *)
DraftOf(z, x) ==
  IF x.start # None /\ x.end # None
  THEN LET between == LocalTimeAt(z, x.end) - LocalTimeAt(z, x.start)
       IN [WhenOf(z, x) EXCEPT !.duration = IF between > 0 THEN between ELSE between + Day]
  ELSE IF x.start # None THEN WhenOf(z, x)
  ELSE IF x.due # None \/ x.dueDate # None THEN WhenOf(z, [x EXCEPT !.date = None])
  ELSE WhenOf(z, x)

(* rescheduledDefinition, rescheduleOccurrenceInTx: the times and the       *)
(* status of the row are written, its expiresAt is not.                     *)
MovedTo(z, row, s) ==
  LET def == [task EXCEPT !.mode = s.mode, !.times = s.times]
      status == StatusOf(z, s.times, None)
  IN [ok |-> s.ok /\ s.mode # "fuzzy" /\ Valid(z, def)
             /\ (~Recurring(task) => InTime(z, s.times)),
      row |-> [row EXCEPT !.status = status, !.times = s.times,
                          !.overdue = FALSE, !.moved = TRUE]]
Moved(z, row, w) == MovedTo(z, row, CompileWhen(z, w, ReviewTime(w)))

---------------------------------------------------------------------------
(* The lifecycle of a row. *)

Live(row) == row.status \in {"scheduled", "open"}
Expires(row) ==
  /\ task.kind = "task" /\ Recurring(task) /\ task.missed = "expire"
  /\ row.expires # None /\ now >= row.expires
Elapses(row) ==
  LET boundary == IF row.times.end # None THEN row.times.end ELSE row.times.start
  IN task.kind = "event" /\ boundary # None /\ now > boundary
Opens(row) == row.status = "scheduled" /\ StatusOf(scenario.zone, row.times, row.key) = "open"
GoesOverdue(row) ==
  /\ task.kind = "task" /\ task.mode = "deadline" /\ ~row.overdue
  /\ \/ row.times.due # None /\ now >= row.times.due
     \/ row.times.dueDate # None /\ LocalDateAt(scenario.zone, now) > row.times.dueDate
(* A row without a start, a day or a key never opens: none is scheduled.    *)
Aged(row) ==
  IF Expires(row) THEN [row EXCEPT !.status = "skipped"]
  ELSE IF Elapses(row) THEN [row EXCEPT !.status = "elapsed"]
  ELSE IF Opens(row) THEN [row EXCEPT !.status = "open"]
  ELSE IF GoesOverdue(row) THEN [row EXCEPT !.overdue = TRUE]
  ELSE row

---------------------------------------------------------------------------
NoTask == [kind |-> "none", critical |-> FALSE, mode |-> "none", times |-> NoTimes,
           rule |-> NoRule, missed |-> "none"]

Init ==
  /\ scenario \in Scenarios
  /\ now = scenario.start /\ task = NoTask /\ rows = {} /\ filled = {}
  /\ outcome = "none" /\ edits = 0

(* createTasks: what is refused says so; what cannot be projected throws.   *)
Create ==
  LET z == scenario.zone
      d == DefinitionOf(z, scenario.request)
      built == IF Recurring(d.def) THEN Built(z, d.def) ELSE [ok |-> TRUE, rows |-> BuiltOnce(z, d.def)]
  IN /\ outcome = "none"
     /\ IF ~d.ok THEN outcome' = "refused" /\ UNCHANGED <<task, rows, filled>>
        ELSE IF ~built.ok THEN outcome' = "failed" /\ UNCHANGED <<task, rows, filled>>
        ELSE /\ task' = d.def /\ rows' = built.rows /\ filled' = {Today} /\ outcome' = "made"
     /\ UNCHANGED <<scenario, now, edits>>

(* refillTask: the missing keys of the current revision.                    *)
Refill ==
  LET built == Built(scenario.zone, task)
  IN /\ outcome \in {"made", "stuck"} /\ Recurring(task) /\ Today \notin filled
     /\ IF ~built.ok THEN outcome' = "stuck" /\ UNCHANGED <<rows, filled>>
        ELSE /\ rows' = rows \cup {r \in built.rows : r.key \notin {q.key : q \in rows}}
             /\ filled' = filled \cup {Today} /\ outcome' = "made"
     /\ UNCHANGED <<scenario, now, task, edits>>

Edit == edits < scenario.edits /\ edits' = edits + 1

(* changeSeriesInTx (edit) and the reconciliation after its commit: a new   *)
(* revision; the rows of the old one are no longer looked at.               *)
MoveSeries(req) ==
  LET d == SeriesDefinition(scenario.zone, req)
      built == Built(scenario.zone, d.def)
  IN /\ outcome = "made" /\ Recurring(task) /\ d.ok /\ Edit
     /\ task' = d.def
     /\ IF built.ok THEN rows' = built.rows /\ filled' = {Today} /\ outcome' = "made"
        ELSE rows' = {} /\ filled' = {} /\ outcome' = "stuck"
     /\ UNCHANGED <<scenario, now>>

(* rescheduleOccurrenceInTx *)
MoveDate(r, w) ==
  LET m == Moved(scenario.zone, r, w)
  IN /\ Live(r) /\ m.ok /\ Edit
     /\ rows' = (rows \ {r}) \cup {m.row}
     /\ task' = IF Recurring(task) THEN task
                ELSE [task EXCEPT !.mode = CompileWhen(scenario.zone, w, 0).mode, !.times = m.row.times]
     /\ UNCHANGED <<scenario, now, filled, outcome>>

MoveTyped == \E r \in rows, w \in scenario.dates : MoveDate(r, w)
MovePreset ==
  \E r \in rows, c \in scenario.choices :
    LET z == scenario.zone
    IN Live(r) /\ MoveDate(r, WhenOf(z, Quick(z, c, task.mode, r.times)))
MoveDraft ==
  \E r \in rows :
    scenario.drafts /\ ~Recurring(task) /\ MoveDate(r, DraftOf(scenario.zone, r.times))

(* A dateless task is given a time (concretiseTaskInTx).                    *)
Concretise ==
  \E w \in scenario.dates :
    LET z == scenario.zone
        s == CompileWhen(z, w, ReviewTime(w))
        def == [task EXCEPT !.mode = s.mode, !.times = s.times]
    IN /\ task.mode = "fuzzy" /\ s.ok /\ s.mode # "fuzzy"
       /\ Valid(z, def) /\ InTime(z, s.times) /\ Edit
       /\ task' = def /\ rows' = BuiltOnce(z, def)
       /\ UNCHANGED <<scenario, now, filled, outcome>>

(* evaluateOccurrenceLifecycle: one pass of the minute loop; what it does   *)
(* to one row does not depend on the others.                                *)
Tick ==
  LET aged == {IF Live(r) THEN Aged(r) ELSE r : r \in rows}
  IN /\ aged # rows /\ rows' = aged
     /\ UNCHANGED <<scenario, now, task, filled, outcome, edits>>

Pass ==
  /\ outcome # "none" /\ now < scenario.until
  /\ now' = now + scenario.step
  /\ UNCHANGED <<scenario, task, rows, filled, outcome, edits>>

Next ==
  \/ Create \/ Refill \/ (\E q \in scenario.moves : MoveSeries(q))
  \/ MoveTyped \/ MovePreset \/ MoveDraft \/ Concretise \/ Tick \/ Pass

Spec == Init /\ [][Next]_vars

---------------------------------------------------------------------------
TypeOK ==
  /\ scenario \in Scenarios /\ now \in Nat /\ edits \in 0..scenario.edits
  /\ outcome \in {"none", "refused", "failed", "made", "stuck"}
  /\ task.mode \in {"none", "point", "window", "deadline", "fuzzy"}
  /\ \A r \in rows : r.status \in {"scheduled", "open", "skipped", "elapsed"}

(* A date stands on the rule of the series.                                 *)
OnRule(d) ==
  LET seed == AnchorDate(scenario.zone, task.mode, task.times)
      rule == task.rule
  IN /\ d >= seed /\ (rule.until # None => d <= rule.until) /\ d \notin rule.skip
     /\ CASE rule.freq = "daily" -> (d - seed) % rule.interval = 0
          [] rule.freq = "weekly" ->
               /\ Weekday(d) \in IF rule.byDay = {} THEN {Weekday(seed)} ELSE rule.byDay
               /\ ((Monday(d) - Monday(seed)) \div 7) % rule.interval = 0
          [] rule.freq = "monthly" ->
               /\ DayOfMonth(d) \in IF rule.byMonthDay = {} THEN {DayOfMonth(seed)} ELSE rule.byMonthDay
               /\ (MonthIndex(d) - MonthIndex(seed)) % rule.interval = 0

(* Whatever days the series was filled on, its rows are exactly the dates   *)
(* of the rule those days look ahead to: none is missed between two         *)
(* horizons, none is made twice and none that the rule excludes             *)
(* (buildRecurringOccurrences, refillTask).                                 *)
SeriesIsComplete ==
  (outcome \in {"made", "stuck"} /\ Recurring(task)) =>
    /\ {r.key : r \in rows} =
         {d \in UNION {f..(f + HorizonDays) : f \in filled} : OnRule(d)}
    /\ Cardinality({r.key : r \in rows}) = Cardinality(rows)

(* Through a change of clocks a date nobody moved keeps the hour of its     *)
(* series, or stands at the first instant after the hours the zone skips;   *)
(* it comes after every earlier date, and it is not expired before it       *)
(* begins nor after the next date has begun (projectExactField,             *)
(* localDateTimeToUtc, applyExpiry).                                        *)
ClockIsKept ==
  LET z == scenario.zone
      kept == {r \in rows : ~r.moved /\ r.times.start # None /\ Recurring(task)}
      hour == LocalTimeAt(z, task.times.start)
  IN /\ \A r \in kept :
          /\ LocalDateAt(z, r.times.start) = r.key
          /\ \/ LocalTimeAt(z, r.times.start) = hour
             \/ r.adjusted /\ r.times.start = z.at
          /\ r.expires # None => r.expires > r.times.start
     /\ \A r, s \in kept : r.key < s.key =>
          /\ r.times.start < s.times.start
          /\ (r.expires # None /\ r.times.end = None) => r.expires <= s.times.start

(* A date the user moved is not skipped before the time it was moved to:    *)
(* "occurrence-level completion, skip, cancel and reschedule".              *)
MovedDateIsKept ==
  \A r \in rows :
    (r.moved /\ r.status = "skipped" /\ r.times.start # None) => now >= r.times.start

(* A move of the series that names no new repeat leaves the skipped dates   *)
(* skipped (seriesDefinitionFromReschedule keeps them).                     *)
SkippedStaySkipped ==
  (\A q \in scenario.moves : q.repeat.freq = "none") =>
    \A r \in rows : r.key \notin scenario.request.repeat.skip

(* A timed date that has a successor on the rule knows when it expires.     *)
ExpiryIsKnown ==
  \A r \in rows :
    (task.missed = "expire" /\ task.mode = "point"
     /\ \E d \in (r.key + 1)..(r.key + 2 * HorizonDays) : OnRule(d)) => r.expires # None

(* A local time that comes twice is the first of the two, and one that      *)
(* never comes is the first instant after the gap.                          *)
LocalTimesAreMapped ==
  LET z == scenario.zone
      w == scenario.request.when
      n == w.date * Day + w.time
      showing == {u \in (n - 60)..(n + 60) : LocalAt(z, u) = n}
      m == localDateTimeToUtc(z, w.date, w.time)
  IN m.ok /\ m.at = IF showing # {} THEN Min(showing) ELSE z.at

(* The editor opens on the schedule the task already has.                   *)
DraftIsFaithful ==
  \A r \in rows : DraftOf(scenario.zone, r.times) = WhenOf(scenario.zone, r.times)

(* A preset lands on the time its button shows.                             *)
PresetLandsAsShown ==
  \A r \in rows, c \in scenario.choices :
    LET z == scenario.zone
        shown == Quick(z, c, task.mode, r.times)
        m == Moved(z, r, WhenOf(z, shown))
    IN m.ok => m.row.times = shown
=============================================================================
