------------------------------- MODULE Router -------------------------------
(* The web client's fragment router and the shell around it:                  *)
(* web/src/app/router.tsx, routes.ts, shell.tsx, the opening in app.tsx and    *)
(* boot.tsx, the sheets of ui/sheet.tsx and the new-task form's exits          *)
(* (screens/tasks/form.tsx).  The browser's session history is a stack of      *)
(* fragments, each with the depth the router stamped on it; history.back is    *)
(* answered later, by a popstate, which goes one below the entry the webview   *)
(* is on by then: another press, a link, a sheet or typing may come before it. *)
(* Effects run with the render that causes them.  A fragment is its path's     *)
(* segments, the scope of its query, and whether Telegram's launch parameters  *)
(* hang off it.                                                                *)
EXTENDS Integers, SequencesExt

CONSTANTS
  Scenarios,   \* [url, param, links, moves, browser, sends]: how the app is opened and used
  MaxEntries   \* entries of the session history a run may build

VARIABLES scenario,
  history,     \* the session history: [at: fragment, depth: what history.state holds]
  here,        \* the entry the webview is on
  route,       \* the RouterProvider's route
  overlay,     \* "none", "sheet" (one of the screen's), "discard" (the form's question)
  draft,       \* the new-task form: "none", "clean", "dirty" or "leaving"
  creating,    \* createTask requests on their way, sent from forms that may be gone
  popping,     \* history.back calls not answered by a popstate yet
  moves        \* presses and taps left
vars == <<scenario, history, here, route, overlay, draft, creating, popping, moves>>

Nil == "none"
MaxPops == 2                          \* bound on the popstates still to come
Ids == {"i1", "i2"}                   \* what passes for a UUID
TaskScopes == {"overdue", "today", "week", "month", "all", "nodate"}
GoalScopes == {"active", "paused", "completed"}

Route(name, arg) == [name |-> name, arg |-> arg]
Fragment(path, query, launched) == [path |-> path, query |-> query, launched |-> launched]

Bare == {"today", "pausedSeries", "taskNew", "week", "reminders", "settings", "memory",
         "profile"}
Routes == {Route(n, Nil) : n \in Bare \cup {"notFound"}}
          \cup {Route("tasks", s) : s \in TaskScopes}
          \cup {Route("goals", s) : s \in GoalScopes}
          \cup {Route(n, i) : n \in {"task", "taskEdit", "goal"}, i \in Ids}

DEFAULT_ROUTE == Route("today", Nil)
NotFound == Route("notFound", Nil)

(* Telegram's parameters are dropped wherever they stand in the fragment.      *)
withoutLaunchParams(f) == [f EXCEPT !.launched = FALSE]

Segment(name) == CASE name = "pausedSeries" -> "paused" [] name = "taskNew" -> "new"
                   [] OTHER -> name

ScopeOf(f, scopes, otherwise) ==
  LET asked == IF Len(f.path) > 1 THEN f.path[2] ELSE f.query
  IN IF asked \in scopes THEN asked ELSE otherwise

parseRoute(fragment) ==
  LET f == withoutLaunchParams(fragment)
      head == IF f.path = <<>> THEN Nil ELSE f.path[1]
      id == IF Len(f.path) > 1 THEN f.path[2] ELSE Nil
      edits == Len(f.path) > 2 /\ f.path[3] = "edit"
  IN CASE head = Nil     -> DEFAULT_ROUTE
       [] head = "tasks" -> Route("tasks", ScopeOf(f, TaskScopes, "week"))
       [] head = "goals" -> Route("goals", ScopeOf(f, GoalScopes, "active"))
       [] head = "task" /\ id \in Ids -> Route(IF edits THEN "taskEdit" ELSE "task", id)
       [] head = "goal" /\ id \in Ids -> Route("goal", id)
       [] \E n \in Bare : Segment(n) = head ->
            Route(CHOOSE n \in Bare : Segment(n) = head, Nil)
       [] OTHER -> NotFound

routePath(r) ==
  CASE r.name = "task" -> <<"task", r.arg>>
    [] r.name = "taskEdit" -> <<"task", r.arg, "edit">>
    [] r.name \in {"tasks", "goals", "goal"} -> <<r.name, r.arg>>
    [] r.name = "notFound" -> <<"404">>
    [] OTHER -> <<Segment(r.name)>>

urlFor(r) == Fragment(routePath(r), Nil, FALSE)
sameRoute(a, b) == routePath(a) = routePath(b)

isRootRoute(r) == r.name \in {"today", "tasks", "week", "reminders", "settings"}
Tabs == {Route("tasks", "week")}
        \cup {Route(n, Nil) : n \in {"today", "week", "reminders", "settings"}}

parentRouteOfCards(r) ==
  CASE r.name \in {"task", "taskNew", "pausedSeries"} -> Route("tasks", "week")
    [] r.name = "taskEdit" -> Route("task", r.arg)
    [] r.name = "goal"     -> Route("goals", "active")
    [] r.name = "notFound" -> Route("today", Nil)
    [] OTHER               -> Route(Nil, Nil)

parentRoute(r) ==
  IF r.name \in {"goals", "memory", "profile"} THEN Route("settings", Nil)
  ELSE parentRouteOfCards(r)

(* start_param: t_<uuid>, g_<uuid>, or a screen's name; anything else is nil.  *)
routeFromStartParam(param) ==
  CASE param = <<>> -> Route(Nil, Nil)
    [] Len(param) = 2 /\ param[1] = "t" /\ param[2] \in Ids -> Route("task", param[2])
    [] Len(param) = 2 /\ param[1] = "g" /\ param[2] \in Ids -> Route("goal", param[2])
    [] OTHER -> LET r == IF Len(param) = 1 THEN parseRoute(Fragment(param, Nil, FALSE))
                         ELSE NotFound
                IN IF r = NotFound THEN Route(Nil, Nil) ELSE r

-----------------------------------------------------------------------------
(* The screens: what they link to, and which of them open sheets.              *)

Tasks == {Route("task", i) : i \in Ids}
GoalCards == {Route("goal", i) : i \in Ids}

Links(r) ==
  CASE r.name = "today"     -> Tasks \cup {Route("tasks", "overdue")}
    [] r.name = "tasks"     -> Tasks \cup {Route("taskNew", Nil), Route("pausedSeries", Nil)}
    [] r.name \in {"week", "reminders", "pausedSeries", "goal"} -> Tasks
    [] r.name = "goals"     -> GoalCards
    [] r.name = "task"      -> Tasks \cup GoalCards \cup {Route("goals", "active")}
    [] r.name = "settings"  -> {Route("goals", "active"), Route("memory", Nil),
                                Route("profile", Nil)}
    [] OTHER -> {}

Sheeted(r) == r.name \in {"today", "reminders", "settings", "task", "taskEdit", "goal",
                          "pausedSeries", "memory", "profile"}

Entry == history[here]
currentRoute == parseRoute(Entry.at)

(* A screen is mounted by its name: another task's card is the same component. *)
Shown(r) ==
  /\ route' = r
  /\ IF r.name = route.name THEN UNCHANGED <<overlay, draft>>
     ELSE /\ overlay' = Nil
          /\ draft' = IF r.name = "taskNew" THEN "clean" ELSE Nil

(* pushState drops what lay ahead.                                             *)
push(r) ==
  IF sameRoute(r, currentRoute) THEN UNCHANGED <<history, here, route, overlay, draft>>
  ELSE /\ history' = Append(SubSeq(history, 1, here),
                            [at |-> urlFor(r), depth |-> Entry.depth + 1])
       /\ here' = here + 1
       /\ Shown(r)

replace(r) ==
  /\ history' = [history EXCEPT ![here].at = urlFor(r)]
  /\ Shown(r)
  /\ UNCHANGED here

(* The router's back when nothing intercepts it.                               *)
Leave ==
  IF Entry.depth > 0
  THEN popping' = popping + 1 /\ UNCHANGED <<history, here, route, overlay, draft>>
  ELSE /\ UNCHANGED popping
       /\ LET up == parentRoute(currentRoute)
          IN IF up.name = Nil THEN UNCHANGED <<history, here, route, overlay, draft>>
             ELSE replace(up)

(* What stands on top of back: a sheet, or the dirty form under none.          *)
InterceptorSheets == overlay
Interceptor == IF overlay = Nil /\ draft = "dirty" THEN "form" ELSE InterceptorSheets

back ==
  CASE Interceptor = Nil -> Leave
    [] Interceptor = "form" ->
         overlay' = "discard" /\ UNCHANGED <<history, here, route, draft, popping>>
    [] OTHER -> overlay' = Nil /\ UNCHANGED <<history, here, route, draft, popping>>

-----------------------------------------------------------------------------
Spent == moves > 0 /\ moves' = moves - 1 /\ UNCHANGED scenario

(* Opening: a fragment with a route wins over start_param; a bare one is       *)
(* stamped with what was resolved.                                             *)
Opened(s) ==
  LET hint == routeFromStartParam(s.param)
      empty == s.url.path = <<>>
  IN IF ~empty THEN [at |-> s.url, depth |-> 0]
     ELSE [at |-> urlFor(IF hint.name = Nil THEN DEFAULT_ROUTE ELSE hint), depth |-> 0]

Init ==
  /\ scenario \in Scenarios
  /\ history = <<Opened(scenario)>>
  /\ here = 1
  /\ route = parseRoute(history[1].at)
  /\ overlay = Nil
  /\ draft = (IF route.name = "taskNew" THEN "clean" ELSE Nil)
  /\ creating = 0 /\ popping = 0
  /\ moves = scenario.moves

(* A row or a link.                                                            *)
Follow ==
  /\ overlay = Nil /\ here < MaxEntries
  /\ \E r \in Links(route) \cap scenario.links : push(r)
  /\ Spent /\ UNCHANGED <<creating, popping>>

(* The tab bar of a root screen, and the scope tabs of a list.                 *)
Tab ==
  /\ overlay = Nil
  /\ \/ isRootRoute(route) /\ \E r \in Tabs \cap scenario.links : replace(r)
     \/ \E r \in scenario.links : route.name \in {"tasks", "goals"} /\ r.name = route.name
                                  /\ replace(r)
  /\ Spent /\ UNCHANGED <<creating, popping>>

(* Telegram's BackButton, shown on every screen that is not a root.            *)
PressBack ==
  /\ ~isRootRoute(route) /\ popping < MaxPops
  /\ back
  /\ Spent /\ UNCHANGED creating

(* popstate: history.back at the first entry has nothing to go to.             *)
Popped ==
  /\ popping > 0
  /\ popping' = popping - 1
  /\ IF here = 1 THEN UNCHANGED <<here, route, overlay, draft>>
     ELSE here' = here - 1 /\ Shown(parseRoute(history[here - 1].at))
  /\ UNCHANGED <<scenario, history, creating, moves>>

(* The browser's own arrows, which ask nobody.                                 *)
Traverse ==
  /\ scenario.browser
  /\ \E to \in {here - 1, here + 1} \cap DOMAIN history :
       here' = to /\ Shown(parseRoute(history[to].at))
  /\ Spent /\ UNCHANGED <<history, creating, popping>>

(* A link opened into the running app: a new entry with no depth of its own.   *)
OpenLink ==
  /\ scenario.browser /\ here < MaxEntries
  /\ \E r \in scenario.links :
       /\ urlFor(r) /= Entry.at
       /\ history' = Append(SubSeq(history, 1, here), [at |-> urlFor(r), depth |-> 0])
       /\ here' = here + 1
       /\ Shown(r)
  /\ Spent /\ UNCHANGED <<creating, popping>>

(* A reload keeps the history and what it holds, and loses the screen's state. *)
Reload ==
  /\ scenario.browser
  /\ route' = currentRoute
  /\ overlay' = Nil
  /\ draft' = IF route'.name = "taskNew" THEN "clean" ELSE Nil
  /\ creating' = 0
  /\ Spent /\ UNCHANGED <<history, here, popping>>

OpenSheet ==
  /\ overlay = Nil /\ Sheeted(route)
  /\ overlay' = "sheet"
  /\ Spent /\ UNCHANGED <<history, here, route, draft, creating, popping>>

CloseSheet ==
  /\ overlay /= Nil
  /\ overlay' = Nil
  /\ Spent /\ UNCHANGED <<history, here, route, draft, creating, popping>>

(* Typing a title, or clearing it again.                                       *)
Type ==
  /\ overlay = Nil /\ draft \in {"clean", "dirty"}
  /\ draft' = IF draft = "clean" THEN "dirty" ELSE "clean"
  /\ Spent /\ UNCHANGED <<history, here, route, overlay, creating, popping>>

(* The question answered: leaving lifts the form's hold, then back is called.  *)
Discard ==
  /\ overlay = "discard" /\ popping < MaxPops
  /\ IF Entry.depth > 0
     THEN /\ popping' = popping + 1
          /\ draft' = "leaving" /\ overlay' = Nil
          /\ UNCHANGED <<history, here, route>>
     ELSE /\ UNCHANGED popping
          /\ replace(parentRoute(currentRoute))
  /\ Spent /\ UNCHANGED creating

Submit ==
  /\ overlay = Nil /\ draft \in {"dirty", "leaving"} /\ creating < scenario.sends
  /\ creating' = creating + 1
  /\ Spent /\ UNCHANGED <<history, here, route, overlay, draft, popping>>

(* createTask's onSuccess replaces whatever is shown by then with the task.    *)
Created ==
  /\ creating > 0
  /\ creating' = creating - 1
  /\ \/ \E r \in Tasks \cap scenario.links : replace(r)
     \/ UNCHANGED <<history, here, route, overlay, draft>>       \* onError
  /\ UNCHANGED <<scenario, popping, moves>>

Next ==
  \/ Follow \/ Tab \/ PressBack \/ Popped \/ Traverse \/ OpenLink \/ Reload
  \/ OpenSheet \/ CloseSheet \/ Type \/ Discard \/ Submit \/ Created

Spec == Init /\ [][Next]_vars

-----------------------------------------------------------------------------
(* Every variable has a value the code can give it.                            *)
TypeOK ==
  /\ scenario \in Scenarios
  /\ here \in DOMAIN history /\ Len(history) <= MaxEntries
  /\ \A i \in DOMAIN history : parseRoute(history[i].at) \in Routes
                               /\ history[i].depth \in 0..MaxEntries
  /\ route \in Routes
  /\ overlay \in {Nil, "sheet", "discard"}
  /\ draft \in {Nil, "clean", "dirty", "leaving"}
  /\ (draft /= Nil) <=> (route.name = "taskNew")
  /\ popping \in 0..MaxPops

(* What the screen shows is what the address says: a reload, a copied link and *)
(* the entry a later back returns to all land on the same screen               *)
(* (router.tsx, "so a reload lands on the same screen").                       *)
ScreenIsTheAddress == route = currentRoute

(* A depth promises that many entries of the app below, so back never pops     *)
(* out of the app (router.tsx, "a screen opened directly by a link knows it    *)
(* has nothing to pop").                                                       *)
DepthIsThere == \A i \in DOMAIN history : history[i].depth < i

(* However the app was opened, a few presses of back with no sheet open reach  *)
(* a root screen: no dead back button (router.tsx, "instead of leaving the     *)
(* user staring at a dead back button").                                       *)
AfterBack(p) ==
  IF isRootRoute(p.route) THEN p
  ELSE IF history[p.at].depth > 0 /\ p.at > 1
  THEN [at |-> p.at - 1, route |-> parseRoute(history[p.at - 1].at)]
  ELSE [p EXCEPT !.route = parentRoute(p.route)]
BackLeadsHome ==
  LET up[n \in 0..MaxEntries + 3] ==
        IF n = 0 THEN [at |-> here, route |-> currentRoute] ELSE AfterBack(up[n - 1])
  IN isRootRoute(up[MaxEntries + 3].route)

RouterIsSound == ScreenIsTheAddress /\ DepthIsThere /\ BackLeadsHome

(* A press of back never throws away a title that was typed without asking:    *)
(* only the question, the browser's own arrows, a reload, a link, the created  *)
(* task, or the popstate of a press made before the title was typed take the   *)
(* form away (form.tsx, useBackInterceptor).                                   *)
AskedDraft ==
  PressBack => \/ draft = "dirty" => draft' = "dirty" /\ overlay' = "discard"
               \/ overlay = "discard"
DraftIsAsked == [][AskedDraft]_vars

(* Sheets hear the BackButton wherever they open (sheet.tsx, "the Telegram     *)
(* BackButton and the Android gesture close the sheet instead of leaving the   *)
(* screen"): on a root screen the shell has hidden it.                         *)
SheetsHearBack == overlay /= Nil => ~isRootRoute(route)

(* The created task takes the place of its own form only.                      *)
AnswerKeepsThePlace == [][Created => route' = route \/ route.name = "taskNew"]_vars

(* A sheet stays over the row it was opened on.                                *)
SheetsKeepTheirRow ==
  [][overlay = "sheet" /\ overlay' = "sheet" => route' = route]_vars
=============================================================================
