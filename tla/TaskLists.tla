------------------------------ MODULE TaskLists ------------------------------
(***************************************************************************)
(* What the list screens and the morning card make of the rows of a        *)
(* workspace (core/task-list-view.ts, tasks.repository, tasks.service,     *)
(* briefing-content.service): which rows a window of days holds, which     *)
(* lines they collapse into, in what order, what a page of them is, what   *)
(* only the badge counts, and what the card repeats.                       *)
(*                                                                         *)
(* A row is a task with one of its live dates, or a dateless one.  Time is *)
(* in half days, LocalDay names the day an instant falls on in a zone.     *)
(***************************************************************************)
EXTENDS Integers, Sequences, FiniteSets, FiniteSetsExt

CONSTANTS
  Scenarios, \* bound: the workspaces there may be, as [rows, now, zone]
  PageSizes, \* bound: lines of a page
  Pages      \* bound: the pages that are asked for

VARIABLES scenario, asked, shown
vars == <<scenario, asked, shown>>

None == -1
Never == 1000
HalfDays == 2

(* A zone is the half days its clock is ahead. *)
LocalDay(at, zone) == (at + zone) \div HalfDays

ScreenLimit == 50
ReviewLimit == 20
CardLines == 6
PickLines == 8
Importances == <<"critical", "required", "normal">>
Rank(importance) == CHOOSE i \in 1 .. 3 : Importances[i] = importance

Scopes == {"overdue", "today", "week", "month", "all", "nodate"}
ScopeDays == [today |-> 0, week |-> 7, month |-> 31]

(* Fields a row has; those of a date are None where the row has none. *)
RowFields ==
  {"id", "title", "importance", "series", "mode", "zone", "review", "dated",
   "overdue", "start", "end", "day", "due", "dueDay", "done", "pick"}

(* A row as the database has it: a date has a time or a day it is planned for *)
(* or due on (compileLocalSchedule), and every day comes after the first one. *)
IsTime(at, zone) == at = None \/ (at \in Nat /\ LocalDay(at, zone) \in Nat)
IsRow(r) ==
  /\ DOMAIN r = RowFields
  /\ r.id \in Int /\ r.zone \in Int
  /\ r.importance \in {Importances[i] : i \in 1 .. 3}
  /\ r.series \in BOOLEAN /\ r.dated \in BOOLEAN /\ r.overdue \in BOOLEAN
  /\ IsTime(r.start, r.zone) /\ IsTime(r.end, r.zone) /\ IsTime(r.due, r.zone)
  /\ IsTime(r.review, r.zone) /\ IsTime(r.done, r.zone)
  /\ r.day \in Nat \cup {None} /\ r.dueDay \in Nat \cup {None}
  /\ r.dated => {r.start, r.day, r.due, r.dueDay} # {None}
IsWorkspace(s) ==
  /\ \A r \in s.rows : IsRow(r)
  /\ \A r, q \in s.rows : r.id = q.id => r = q
  /\ s.now \in Nat /\ s.zone \in Int /\ LocalDay(s.now, s.zone) \in Nat
-----------------------------------------------------------------------------
(* Lists are sorted by keys of numbers, the last one telling rows apart. *)
KeyBefore(a, b) ==
  \E i \in DOMAIN a : a[i] < b[i] /\ \A j \in 1 .. i - 1 : a[j] = b[j]
Ahead(S, key, x) == {y \in S : KeyBefore(key[y], key[x])}
Sorted(S, key) ==
  [i \in 1 .. Cardinality(S) |-> CHOOSE x \in S : Cardinality(Ahead(S, key, x)) = i - 1]
First(s, n) == SubSeq(s, 1, IF Len(s) < n THEN Len(s) ELSE n)
Elements(s) == {s[i] : i \in DOMAIN s}
NullsLast(at) == IF at = None THEN Never ELSE at

(* occurrenceLocalDate: planned before due, an instant before a day. *)
LocalDate(row) ==
  CASE ~row.dated -> None
    [] row.dated /\ row.start # None -> LocalDay(row.start, row.zone)
    [] row.dated /\ row.start = None /\ row.day # None -> row.day
    [] row.dated /\ row.start = None /\ row.day = None /\ row.due # None ->
         LocalDay(row.due, row.zone)
    [] OTHER -> row.dueDay

(* occurrenceFallsOnLocalDate, without the flag, which answers for every day. *)
Covers(row, date) ==
  \/ row.day = date \/ row.dueDay = date
  \/ row.start # None /\ LocalDay(row.start, row.zone) = date
  \/ row.due # None /\ LocalDay(row.due, row.zone) = date
  \/ row.mode = "window" /\ row.end # None /\ LocalDay(row.end, row.zone) = date
FallsOn(row, date) == row.overdue \/ Covers(row, date)

RowTime(row) ==
  CASE row.start # None -> row.start
    [] row.start = None /\ row.due # None -> row.due
    [] row.start = None /\ row.due = None -> NullsLast(row.review)

IsStale(row, today) == LocalDate(row) # None /\ LocalDate(row) < today
IsPast(row, today) == row.overdue \/ IsStale(row, today)

(* A past row stays in every window of days: nothing unclosed is dropped. *)
ScopeMatchesTodayOnly(row, scope, today) ==
  \/ scope = "all"
  \/ scope = "nodate" /\ LocalDate(row) = None
  \/ scope = "overdue" /\ IsPast(row, today)
  \/ /\ scope \in DOMAIN ScopeDays
     /\ LocalDate(row) # None
     /\ LocalDate(row) >= today
     /\ LocalDate(row) <= today + ScopeDays[scope]
ScopeMatches(row, scope, today) ==
  \/ scope = "all"
  \/ scope = "nodate" /\ LocalDate(row) = None
  \/ scope \notin {"all", "nodate"} /\ IsPast(row, today)
  \/ /\ scope \in DOMAIN ScopeDays
     /\ LocalDate(row) # None
     /\ LocalDate(row) <= today + ScopeDays[scope]

(* One line for everything with the same title.  It is about the nearest row *)
(* that is not past, or else the latest past one.                            *)
GroupOf(rows, today) ==
  LET sorted == Sorted(rows, [r \in rows |-> <<RowTime(r), r.id>>])
      ahead  == {i \in DOMAIN sorted : ~IsPast(sorted[i], today)}
      past   == DOMAIN sorted \ ahead
      lead   == sorted[IF ahead # {} THEN Min(ahead) ELSE Max(past)]
      ranks  == {Rank(r.importance) : r \in rows}
  IN [title |-> lead.title, importance |-> Importances[Min(ranks)], rows |-> sorted,
      lead |-> lead, series |-> \E r \in rows : r.series,
      pastCount |-> Cardinality(past)]

(* compareGroups: past lines first, then the day, then importance, the hour. *)
GroupKey(group, today) ==
  <<IF IsPast(group.lead, today) THEN 0 ELSE 1, NullsLast(LocalDate(group.lead)),
    Rank(group.importance), RowTime(group.lead), group.lead.id>>
Titled(rows, title) == {r \in rows : r.title = title}
GroupsOf(rows, today) == {GroupOf(Titled(rows, r.title), today) : r \in rows}
Groups(rows, today) ==
  Sorted(GroupsOf(rows, today), [g \in GroupsOf(rows, today) |-> GroupKey(g, today)])

Count(rows, today) == Len(Groups(rows, today))
InScope(rows, scope, today) == {r \in rows : ScopeMatches(r, scope, today)}
ScopeCounts(rows, today) ==
  [scope \in Scopes |-> Count(InScope(rows, scope, today), today)]

(* A page past the end shows the last one. *)
Paginate(items, page, size) ==
  LET pages   == Max({1, (Len(items) + size - 1) \div size})
      current == Min({page, pages - 1})
  IN [items |-> First(SubSeq(items, current * size + 1, Len(items)), size),
      page |-> current, pages |-> pages,
      rest |-> Max({0, Len(items) - current * size - size})]
-----------------------------------------------------------------------------
(* The queries. *)
Actionable(rows) == {r \in rows : r.dated /\ r.done = None}
Fuzzy(rows) == {r \in rows : ~r.dated /\ r.mode = "fuzzy"}
FuzzyKeys(rows) == [r \in rows |-> <<Rank(r.importance), NullsLast(r.review), r.id>>]
FirstFuzzy(rows, n) == Elements(First(Sorted(rows, FuzzyKeys(rows)), n))
FuzzyForScreen(rows) == FirstFuzzy(Fuzzy(rows), ScreenLimit)
FuzzyReviews(rows, date) ==
  FirstFuzzy({r \in Fuzzy(rows) : r.review # None /\ LocalDay(r.review, r.zone) = date},
             ReviewLimit)
CompletedOn(rows, date) == {r \in rows : r.done # None /\ LocalDay(r.done, r.zone) = date}

ScreenRows(rows) == Actionable(rows) \cup FuzzyForScreen(rows)

Listed(rows, scope, today) ==
  [groups |-> Groups(InScope(ScreenRows(rows), scope, today), today),
   counts |-> ScopeCounts(ScreenRows(rows), today)]

(* Today is the day itself; what is dated before it is counted, not listed. *)
TodayRows(rows, date) == {r \in Actionable(rows) : Covers(r, date)}
StaleRows(rows, date) == {r \in Actionable(rows) : IsStale(r, date) /\ ~Covers(r, date)}
TodayListed(rows, date) ==
  [groups |-> Groups(TodayRows(rows, date) \cup FuzzyReviews(rows, date), date),
   stale |-> Count(StaleRows(rows, date), date),
   completed |-> Cardinality(CompletedOn(rows, date))]

(* isOverdueForDisplay: the flag today, the date for an earlier day, in the *)
(* zone of the row itself.                                                  *)
ReadsOverdue(row, now) ==
  row.overdue \/ (LocalDate(row) # None /\ LocalDate(row) < LocalDay(now, row.zone))

Presented(group, now) ==
  [title |-> group.title, importance |-> group.importance, pastCount |-> group.pastCount,
   leadIndex |-> CHOOSE i \in DOMAIN group.rows : group.rows[i] = group.lead,
   rows |-> [i \in DOMAIN group.rows |->
               [id |-> group.rows[i].id, localDate |-> LocalDate(group.rows[i]),
                overdue |-> group.rows[i].dated /\ ReadsOverdue(group.rows[i], now)]]]

(* The morning card: the day's rows and the overdue ones, the important first, *)
(* and the tasks taken for the week.                                           *)
Morning(rows, date, week) ==
  LET relevant == {r \in Actionable(rows) : FallsOn(r, date)}
      ordered  == Sorted(relevant, [r \in relevant |-> <<Rank(r.importance), r.id>>])
      picked   == {r \in rows : r.pick = week}
      taken    == Sorted(picked, [r \in picked |-> <<r.id>>])
  IN [lines |-> First(ordered, CardLines), more |-> Max({0, Len(ordered) - CardLines}),
      taken |-> First(taken, PickLines), hasContent |-> relevant # {} \/ taken # <<>>]
-----------------------------------------------------------------------------
Today == LocalDay(scenario.now, scenario.zone)

Init == scenario \in Scenarios /\ asked = <<>> /\ shown = <<>>

(* WebTasksService.list. *)
AskList(scope, page, size) ==
  LET listed == Listed(scenario.rows, scope, Today)
      view   == Paginate(listed.groups, page, size)
  IN /\ asked = <<>>
     /\ asked' = <<"list", scope, page, size>>
     /\ shown' = [groups |-> [i \in DOMAIN view.items |-> Presented(view.items[i], scenario.now)],
                  counts |-> listed.counts, page |-> view.page, rest |-> view.rest,
                  total |-> Len(listed.groups)]
     /\ UNCHANGED scenario

(* WebTasksService.today. *)
AskToday(page, size) ==
  LET listed == TodayListed(scenario.rows, Today)
      view   == Paginate(listed.groups, page, size)
  IN /\ asked = <<>>
     /\ asked' = <<"today", "today", page, size>>
     /\ shown' = [groups |-> [i \in DOMAIN view.items |-> Presented(view.items[i], scenario.now)],
                  stale |-> listed.stale, completed |-> listed.completed,
                  page |-> view.page, rest |-> view.rest, total |-> Len(listed.groups)]
     /\ UNCHANGED scenario

(* BriefingContentService.build, the morning card. *)
AskMorning ==
  /\ asked = <<>>
  /\ asked' = <<"morning", "today", 0, 0>>
  /\ shown' = Morning(scenario.rows, Today, scenario.week)
  /\ UNCHANGED scenario

Next ==
  \/ \E scope \in Scopes, page \in Pages, size \in PageSizes : AskList(scope, page, size)
  \/ \E page \in Pages, size \in PageSizes : AskToday(page, size)
  \/ AskMorning
  \/ asked # <<>> /\ UNCHANGED vars

Spec == Init /\ [][Next]_vars
-----------------------------------------------------------------------------
TypeOK ==
  /\ scenario \in Scenarios
  /\ IsWorkspace(scenario)
  /\ asked # <<>> => asked[2] \in Scopes

Ids(rows) == {r.id : r \in rows}
RowsOf(groups) == UNION {{groups[i].rows[j].id : j \in DOMAIN groups[i].rows} : i \in DOMAIN groups}
AllOf(scope) == Listed(scenario.rows, scope, Today).groups

(* Nothing unclosed falls between the screens: a live row that is past is in  *)
(* every window of days, a row of the day or before it is on Today's screen   *)
(* or behind its badge, and the morning card repeats exactly the day and what *)
(* is overdue (filterByScope, listTodayGrouped, BriefingContentService).      *)
NothingFallsBetween ==
  LET live == Actionable(scenario.rows)
      today == TodayListed(scenario.rows, Today)
      stale == StaleRows(scenario.rows, Today)
  IN asked # <<>> =>
       /\ \A scope \in Scopes \ {"nodate"} :
            Ids({r \in live : IsPast(r, Today)}) \subseteq RowsOf(AllOf(scope))
       /\ Ids({r \in live : LocalDate(r) <= Today})
            \subseteq RowsOf(today.groups) \cup Ids(stale)
       /\ asked[1] = "morning" =>
            shown.more + Len(shown.lines) =
              Cardinality({r \in live : Covers(r, Today) \/ r.overdue})

(* The windows nest, each badge is the number of lines its tab shows, every   *)
(* row has one line, past lines come before the others, and the pages of a    *)
(* tab are the tab (scopeCounts, groupTaskRows, compareGroups, paginate).     *)
TabsAreConsistent ==
  asked # <<>> /\ asked[1] = "list" =>
    LET groups == AllOf(asked[2])
        past   == {i \in DOMAIN groups : IsPast(groups[i].lead, Today)}
        pageOf(k) == Paginate(groups, k, asked[4]).items
        pages  == Paginate(groups, 0, asked[4]).pages
    IN /\ shown.total = shown.counts[asked[2]]
       /\ shown.counts["overdue"] <= shown.counts["today"]
       /\ shown.counts["today"] <= shown.counts["week"]
       /\ shown.counts["week"] <= shown.counts["month"]
       /\ shown.counts["month"] <= shown.counts["all"]
       /\ \A i, j \in DOMAIN groups : i \in past /\ j \notin past => i < j
       /\ \A i, j \in DOMAIN groups :
            i # j => RowsOf(<<groups[i]>>) \cap RowsOf(<<groups[j]>>) = {}
       /\ Elements(groups) = UNION {Elements(pageOf(k)) : k \in 0 .. pages - 1}
       /\ shown.rest + Len(shown.groups) + shown.page * asked[4] = Len(groups)

(* What the badge counts as past reads as overdue on the line, unless the    *)
(* date is in another zone than the user (isPastRow, isOverdueForDisplay).   *)
PastReadsOverdue ==
  asked # <<>> =>
    \A r \in Actionable(scenario.rows) :
      IsPast(r, Today) /\ r.zone = scenario.zone => ReadsOverdue(r, scenario.now)
=============================================================================
