-------------------------------- MODULE MCWeb --------------------------------
(* Web for TLC: for each part the small stories that make it interesting.       *)
EXTENDS Web, TLC

ThreeRows == [a |-> "dateless", b |-> "missed", c |-> "dateless"]
MCWeekScenarios ==
  {[tasks |-> ThreeRows, devices |-> {"d", "e"}, limit |-> 2, first |-> 6, days |-> 1,
    taps |-> 4, takes |-> 0, undos |-> 0, closes |-> 1],
   [tasks |-> ThreeRows, devices |-> {"d", "e"}, limit |-> 1, first |-> 5, days |-> 2,
    taps |-> 1, takes |-> 2, undos |-> 1, closes |-> 0]}

OnePage ==
  [pages |-> [p |-> {"a", "b"}], overlap |-> FALSE, versioned |-> TRUE, answers |-> FALSE,
   slots |-> 2, taps |-> 2, faults |-> 1, chats |-> 0, undos |-> 0, races |-> 0,
   visits |-> 2, pulls |-> 0]
MCQueryScenarios ==
  {[OnePage EXCEPT !.slots = 3, !.faults = 2, !.pulls = 1],
   [OnePage EXCEPT !.faults = 2, !.undos = 1, !.races = 1, !.visits = 1],
   [OnePage EXCEPT !.chats = 1, !.undos = 1, !.visits = 1],
   [OnePage EXCEPT !.pages = [p |-> {"a"}, q |-> {"a", "b"}], !.slots = 3,
                   !.versioned = FALSE, !.answers = TRUE]}

ASeries ==
  [kind |-> "series", event |-> FALSE, timed |-> TRUE, link |-> 0, kinds |-> {},
   chat |-> {}, slots |-> 1, dates |-> 3, taps |-> 2, looks |-> 1, chats |-> 1,
   days |-> 1, faults |-> 0]
AnEvent == [ASeries EXCEPT !.kind = "oneoff", !.dates = 2, !.looks = 1]
MCScreenScenarios ==
  {[ASeries EXCEPT !.slots = 2, !.days = 0, !.chat = {"edit", "skipped"},
      !.kinds = {"edit", "done", "skipped", "seen", "moveSeries", "move"}],
   [ASeries EXCEPT !.chat = {"move"},
      !.kinds = {"pause", "resume", "endSeries", "move", "moveSeries"}],
   [ASeries EXCEPT !.event = TRUE, !.timed = FALSE, !.link = 2,
      !.chat = {"edit", "cancelled"}, !.kinds = {"started", "cancelled", "done", "tick"}],
   [AnEvent EXCEPT !.slots = 2, !.days = 0, !.chat = {"move", "done"},
      !.kinds = {"edit", "untick", "tick", "cancelled", "someday", "move", "seen"}],
   [AnEvent EXCEPT !.event = TRUE, !.link = 1, !.faults = 1, !.chat = {"someday"},
      !.kinds = {"started", "done", "move"}],
   [AnEvent EXCEPT !.kind = "dateless", !.chat = {"edit", "move", "done"},
      !.kinds = {"edit", "done", "move", "someday", "started"}]}

From(address, shape, hash, at, date, who) ==
  [header |-> "tma", address |-> address,
   payload |-> [shape |-> shape, hash |-> hash, authDate |-> at, date |-> date,
                user |-> who]]
Good(address, who) == From(address, "pairs", "right", 0, "number", who)
AtHome(shape, hash, date, who) == From("home", shape, hash, 0, date, who)
Asking(senders, n) ==
  [senders |-> senders, raises |-> FALSE, requests |-> n, restarts |-> 0]
MCRequestScenarios ==
  {Asking({Good("home", "ann"), Good("office", "bob")}, 4),
   Asking({Good("home", "ann"), From("cafe", "empty", "right", 0, "number", "ann"),
           From("office", "pairs", "wrong", 0, "number", "bob")}, 4),
   [Asking({Good("home", "ann"), From("home", "pairs", "right", -2, "number", "bob")}, 2)
      EXCEPT !.raises = TRUE, !.restarts = 1],
   Asking({AtHome("newline", "right", "number", "ann"),
           AtHome("pairs", "none", "number", "ann"),
           AtHome("pairs", "short", "none", "ann"),
           AtHome("pairs", "right", "word", "ann"),
           AtHome("pairs", "right", "none", "ann"),
           AtHome("pairs", "right", "number", "none"),
           AtHome("pairs", "right", "number", "broken")}, 2)}

ARow == [series |-> FALSE, zone |-> 0, overdue |-> FALSE, start |-> -1, end |-> -1,
         day |-> -1, due |-> -1, dueDay |-> -1, done |-> -1]
Noon == 100
Dateless(title, importance, review, pick) ==
  ARow @@ [id |-> 3, title |-> title, importance |-> importance, mode |-> "fuzzy",
           review |-> review, dated |-> FALSE, pick |-> pick]
Dated(n, title, fields) ==
  fields @@ ARow @@ [id |-> n, title |-> title, importance |-> "normal", mode |-> "point",
                     review |-> -1, dated |-> TRUE, pick |-> -1]
Near ==
  {[start |-> Noon + 1], [start |-> Noon, overdue |-> TRUE],
   [start |-> Noon - 1, zone |-> 1], [start |-> Noon - 1, overdue |-> TRUE],
   [start |-> Noon - 1, end |-> Noon + 3, mode |-> "window"]}
Far ==
  {[day |-> 57, mode |-> "window", importance |-> "critical"],
   [dueDay |-> 58, mode |-> "deadline", importance |-> "required"],
   [due |-> Noon + 62, mode |-> "deadline"], [dueDay |-> 47, mode |-> "deadline"],
   [day |-> 82, mode |-> "window"], [start |-> Noon - 2, done |-> Noon, series |-> TRUE],
   [start |-> Noon + 4, series |-> TRUE]}
MCListScenarios ==
  {[rows |-> {Dated(1, "a", f), Dated(2, t, g), Dateless("c", "critical", Noon + 1, 47)},
    now |-> Noon, zone |-> 0, week |-> 47] : f \in Near, g \in Far, t \in {"a", "b"}}
  \cup {[rows |-> {Dated(1, "a", f), Dated(2, "b", g), Dateless("a", "normal", -1, -1)},
         now |-> Noon, zone |-> 0, week |-> 47] : f \in Far, g \in {[start |-> Noon]}}
MCPageSizes == {1, 2}
MCPages == {0, 1, 3}

Clocks(before, after) == [before |-> before, after |-> after, at |-> 60 * 48 + 2]
Forward == Clocks(4, 6)
Backward == Clocks(6, 4)
Steady == Clocks(0, 0)
First == 58
Afternoon == First * 48 + 10
When(mode, date, time, duration) ==
  [mode |-> mode, date |-> date, time |-> time, duration |-> duration]
Exactly(date, time) == When("exact", date, time, 0)
Once == [freq |-> "none", interval |-> 1, weekdays |-> {}, monthDays |-> {}, until |-> -1,
         skip |-> {}, missed |-> "none"]
Daily == [Once EXCEPT !.freq = "daily"]
Weekly == [Once EXCEPT !.freq = "weekly"]
Repeats ==
  {Daily, [Daily EXCEPT !.weekdays = 1 .. 5],
   [Daily EXCEPT !.interval = 2, !.until = First + 9, !.skip = {First + 4}],
   [Weekly EXCEPT !.interval = 2, !.weekdays = {1, 4, 7}],
   [Weekly EXCEPT !.skip = {First + 8}, !.missed = "carry_over"],
   [Once EXCEPT !.freq = "monthly", !.monthDays = {1, 30, 31}]}
Request(w, r) == [when |-> w, repeat |-> r, kind |-> "task", critical |-> FALSE]
Wanted(zone, w, r) ==
  [zone |-> zone, morning |-> 18, evening |-> 40, request |-> Request(w, r), moves |-> {},
   dates |-> {}, choices |-> {}, drafts |-> FALSE, start |-> Afternoon, step |-> 40,
   until |-> Afternoon + 200, edits |-> 0]
Edited(zone, w, r) ==
  [Wanted(zone, w, r) EXCEPT !.step = 48, !.until = Afternoon + 100, !.edits = 1]
Later == Request(Exactly(First + 3, 20), Once)
AtTen == Request(Exactly(First + 1, 20), Once)
Tuesdays ==
  Request(When("exact", First + 2, 7, 4), [Weekly EXCEPT !.weekdays = {2, 5}])
Evening == Exactly(First + 1, 18)
MCScheduleScenarios ==
  {Wanted(z, w, r) : z \in {Forward, Backward}, w \in {Evening, Exactly(First + 1, 7)},
                     r \in Repeats}
  \cup {[Edited(Steady, w, Daily) EXCEPT !.moves = {Later, Tuesdays},
           !.dates = {Exactly(First + 4, 30)}, !.choices = {"tomorrow"}] :
          w \in {Evening, When("exact", First + 1, 6, 3)}}
  \cup {[Edited(Steady, Evening, Daily) EXCEPT !.edits = 2, !.moves = {Later},
           !.until = Afternoon + 60, !.choices = {"tomorrow"}],
        [Edited(Steady, Evening, [Weekly EXCEPT !.skip = {First + 8}])
           EXCEPT !.moves = {AtTen}]}
  \cup {[Edited(Forward, w, Once) EXCEPT !.step = 23, !.until = Afternoon + 150,
           !.edits = 2, !.drafts = TRUE, !.choices = {"1h", "evening", "tomorrow"},
           !.dates = {Exactly(First + 4, 30), When("deadline", First + 3, -1, 0)}] :
          w \in {Exactly(First + 1, 7), When("date", First + 1, -1, 0),
                 When("deadline", First + 2, 30, 0), When("fuzzy", First, -1, 0)}}

At(path, scope) == [path |-> path, query |-> scope, launched |-> TRUE]
Screen(name, arg) == [name |-> name, arg |-> arg]
Bare(name) == Screen(name, "none")
Task(id) == Screen("task", id)
Goal == Screen("goal", "i1")
Form == Bare("taskNew")
Home == At(<<>>, "none")
Opened(url, links) ==
  [url |-> url, param |-> <<>>, links |-> links, moves |-> 6, browser |-> TRUE, sends |-> 0]
MCRouterScenarios ==
  {[Opened(Home, {Screen("tasks", "week"), Form, Task("i1")})
      EXCEPT !.moves = 7, !.browser = FALSE, !.sends = 1],
   [Opened(At(<<"task", "i1">>, "none"), {Task("i2"), Screen("goals", "active"), Goal})
      EXCEPT !.moves = 7],
   [Opened(Home, {Task("i1"), Screen("goals", "active"), Screen("goals", "paused"),
                  Bare("settings"), Bare("profile")}) EXCEPT !.param = <<"t", "i1">>],
   [Opened(At(<<"task", "i1", "edit">>, "none"), {Task("i1"), Bare("pausedSeries")})
      EXCEPT !.moves = 5],
   [Opened(At(<<"new">>, "none"), {Form, Task("i1"), Screen("tasks", "all")})
      EXCEPT !.param = <<"g", "i1">>, !.sends = 1],
   Opened(At(<<"goals">>, "paused"), {Goal, Bare("settings"), Bare("memory")}),
   Opened(At(<<"task", "x">>, "none"),
          {Bare("today"), Task("i1"), Screen("tasks", "overdue")}),
   [Opened(Home, {Bare("reminders"), Task("i1")}) EXCEPT !.param = <<"nonsense">>]}
==============================================================================
