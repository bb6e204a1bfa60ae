-------------------------- MODULE WebScreensProofs ---------------------------
(* What is proved of what the user of the app in Telegram sees and taps: of     *)
(* the router, the screens of a task, the week's page, the lists and the dates *)
(* of a schedule, each with the invariant it keeps in its own world of Web.    *)
EXTENDS Web, FiniteSetTheorems, WellFoundedInduction, TLAPS

------------------------------------------------------------------------------
(* The router.                                                              *)

(* The addresses a history can hold: what the bot linked to, and what the   *)
(* app itself writes (urlFor).                                              *)
Fragments == {s.url : s \in RouterScenarios} \cup {N!urlFor(r) : r \in N!Routes}
Places == [at: Fragments, depth: Nat]

(* Whatever the address says, parseRoute names a route.                     *)
LEMMA ParsedIsRoute ==
  ASSUME NEW f
  PROVE  N!parseRoute(f) \in N!Routes
<1> DEFINE g == N!withoutLaunchParams(f)
           head == IF g.path = <<>> THEN N!Nil ELSE g.path[1]
           id == IF Len(g.path) > 1 THEN g.path[2] ELSE N!Nil
           asEdit == Len(g.path) > 2 /\ g.path[3] = "edit"
<1> HIDE DEF g, head, id, asEdit
<1>1. N!ScopeOf(g, N!TaskScopes, "week") \in N!TaskScopes
  BY DEF N!ScopeOf, N!TaskScopes
<1>2. N!ScopeOf(g, N!GoalScopes, "active") \in N!GoalScopes
  BY DEF N!ScopeOf, N!GoalScopes
<1>3. N!parseRoute(f) =
        CASE head = N!Nil     -> N!DEFAULT_ROUTE
       [] head = "tasks" -> N!Route("tasks", N!ScopeOf(g, N!TaskScopes, "week"))
       [] head = "goals" -> N!Route("goals", N!ScopeOf(g, N!GoalScopes, "active"))
       [] head = "task" /\ id \in N!Ids -> N!Route(IF asEdit THEN "taskEdit" ELSE "task", id)
       [] head = "goal" /\ id \in N!Ids -> N!Route("goal", id)
       [] \E n \in N!Bare : N!Segment(n) = head ->
            N!Route(CHOOSE n \in N!Bare : N!Segment(n) = head, N!Nil)
       [] OTHER -> N!NotFound
  BY DEF N!parseRoute, g, head, id, asEdit
<1>4. (\E n \in N!Bare : N!Segment(n) = head)
        => (CHOOSE n \in N!Bare : N!Segment(n) = head) \in N!Bare
  OBVIOUS
<1>5. /\ \A s \in N!TaskScopes : N!Route("tasks", s) \in N!Routes
      /\ \A s \in N!GoalScopes : N!Route("goals", s) \in N!Routes
      /\ \A i \in N!Ids : N!Route("task", i) \in N!Routes /\ N!Route("taskEdit", i) \in N!Routes
                          /\ N!Route("goal", i) \in N!Routes
      /\ \A n \in N!Bare : N!Route(n, N!Nil) \in N!Routes
      /\ N!NotFound \in N!Routes
  BY DEF N!Routes, N!NotFound
<1>6. N!DEFAULT_ROUTE \in N!Routes
  BY <1>5 DEF N!DEFAULT_ROUTE, N!Bare
<1> QED BY <1>1, <1>2, <1>3, <1>4, <1>5, <1>6

(* The address of a route is read back as that route (urlFor, parseRoute).  *)
LEMMA ParsedUrl ==
  ASSUME NEW r \in N!Routes
  PROVE  N!parseRoute(N!urlFor(r)) = r
<1>1. PICK name, arg : r = N!Route(name, arg)
  BY DEF N!Routes, N!Route
<1> QED BY <1>1 DEF N!Routes, N!Route, N!parseRoute, N!urlFor, N!routePath, N!Fragment, N!withoutLaunchParams, N!Segment, N!Bare, N!ScopeOf, N!TaskScopes, N!GoalScopes, N!Ids, N!Nil, N!NotFound, N!DEFAULT_ROUTE

(* The address of a route is one a history can hold.                        *)
LEMMA UrlIsFragment ==
  ASSUME NEW r \in N!Routes
  PROVE  N!urlFor(r) \in Fragments
BY DEF Fragments

(* What the screen is made of fits the route it is mounted for. *)
ScreenFits ==
  /\ route \in N!Routes
  /\ overlay \in {N!Nil, "sheet", "discard"}
  /\ draft \in {N!Nil, "clean", "dirty", "leaving"}
  /\ (draft # N!Nil) <=> (route.name = "taskNew")
  /\ overlay = "sheet" => draft = N!Nil
  /\ overlay = "discard" => draft # N!Nil

(* The history: a depth promises no more than there is below, and the       *)
(* screen is the one the address names.                                     *)
StackFits ==
  /\ history \in Seq(Places) /\ Len(history) <= MaxEntries
  /\ here \in 1 .. Len(history)
  /\ N!DepthIsThere
  /\ N!ScreenIsTheAddress

(* What the router keeps: the history, the screen on it and what is typed   *)
(* there.                                                                   *)
RouterInv ==
  /\ scenario \in RouterScenarios
  /\ popping \in 0 .. 2
  /\ moves \in Nat /\ creating \in Nat
  /\ ScreenFits
  /\ StackFits

(* A route that is mounted brings its own overlay and draft, and no         *)
(* other's.                                                                 *)
LEMMA ShownFits ==
  ASSUME ScreenFits, NEW r \in N!Routes, N!Shown(r)
  PROVE  ScreenFits' /\ route' = r
<1>1. route' = r
  BY DEF N!Shown
<1>2. CASE r.name = route.name
  BY <1>1, <1>2 DEF N!Shown, ScreenFits
<1>3. CASE r.name # route.name
  BY <1>1, <1>3 DEF N!Shown, ScreenFits, N!Nil
<1> QED BY <1>1, <1>2, <1>3

(* The fields of an entry of the history.                                   *)
LEMMA PlaceFields ==
  ASSUME StackFits, NEW i \in 1 .. Len(history)
  PROVE  /\ history[i] \in Places
         /\ history[i].at \in Fragments /\ history[i].depth \in Nat /\ history[i].depth < i
<1>1. history[i] \in Places /\ history[i].depth < i
  BY DEF StackFits, N!DepthIsThere
<1> QED BY <1>1 DEF Places

(* An entry pushed on the history drops what was ahead of it.               *)
LEMMA CutFits ==
  ASSUME StackFits, NEW entry \in Places, entry.depth <= here,
         history' = Append(SubSeq(history, 1, here), entry), here' = here + 1,
         here < MaxEntries, route' = N!parseRoute(entry.at)
  PROVE  StackFits'
<1>1. history \in Seq(Places) /\ here \in 1 .. Len(history) /\ MaxEntries \in Nat
  BY WebAssumption DEF StackFits, WebAssumption
<1>2. /\ history' \in Seq(Places) /\ Len(history') = here + 1
      /\ \A i \in 1 .. here : history'[i] = history[i]
      /\ history'[here + 1] = entry
  BY <1>1
<1>3. \A i \in 1 .. here : history[i].depth < i
  BY <1>1, PlaceFields
<1>4. N!DepthIsThere'
  BY <1>1, <1>2, <1>3 DEF N!DepthIsThere, Places
<1>5. N!ScreenIsTheAddress'
  BY <1>1, <1>2 DEF N!ScreenIsTheAddress, N!currentRoute, N!Entry
<1> QED BY <1>1, <1>2, <1>4, <1>5 DEF StackFits

(* push keeps the history and the screen together.                          *)
LEMMA PushFits ==
  ASSUME ScreenFits, StackFits, here < MaxEntries, NEW r \in N!Routes, N!push(r)
  PROVE  ScreenFits' /\ StackFits'
<1>1. CASE N!sameRoute(r, N!currentRoute)
  BY <1>1 DEF N!push, ScreenFits, StackFits, N!DepthIsThere, N!ScreenIsTheAddress, N!currentRoute, N!Entry
<1>2. CASE ~N!sameRoute(r, N!currentRoute)
  <2> DEFINE entry == [at |-> N!urlFor(r), depth |-> N!Entry.depth + 1]
  <2>1. history' = Append(SubSeq(history, 1, here), entry) /\ here' = here + 1 /\ N!Shown(r)
    BY <1>2 DEF N!push
  <2>2. N!Entry.depth \in Nat /\ N!Entry.depth < here /\ here \in Nat
    BY PlaceFields DEF N!Entry, StackFits
  <2>3. entry \in Places /\ entry.depth <= here
    BY <2>2, UrlIsFragment DEF Places
  <2>4. route' = N!parseRoute(entry.at) /\ ScreenFits'
    BY <2>1, ShownFits, ParsedUrl
  <2> HIDE DEF entry
  <2> QED BY <2>1, <2>3, <2>4, CutFits
<1> QED BY <1>1, <1>2

(* replace keeps the history and the screen together.                       *)
LEMMA ReplaceFits ==
  ASSUME ScreenFits, StackFits, NEW r \in N!Routes, N!replace(r)
  PROVE  ScreenFits' /\ StackFits'
<1>1. history \in Seq(Places) /\ here \in 1 .. Len(history)
  BY DEF StackFits
<1>2. PICK url \in Fragments : url = N!urlFor(r)
  BY UrlIsFragment
<1>3. /\ history' = [history EXCEPT ![here].at = url] /\ here' = here
      /\ route' = r /\ ScreenFits'
  BY <1>2, ShownFits DEF N!replace
<1>4. /\ history[here] \in Places /\ [history[here] EXCEPT !.at = url] \in Places
      /\ [history[here] EXCEPT !.at = url].at = url
      /\ [history[here] EXCEPT !.at = url].depth = history[here].depth
  BY <1>1, PlaceFields DEF Places
<1>5. /\ history' \in Seq(Places) /\ Len(history') = Len(history)
      /\ \A i \in 1 .. Len(history) : history'[i].depth = history[i].depth
      /\ history'[here].at = url
  BY <1>1, <1>3, <1>4
<1>6. N!DepthIsThere'
  BY <1>1, <1>5, PlaceFields DEF N!DepthIsThere
<1>7. N!ScreenIsTheAddress'
  BY <1>1, <1>2, <1>3, <1>5, ParsedUrl DEF N!ScreenIsTheAddress, N!currentRoute, N!Entry
<1> QED BY <1>1, <1>3, <1>5, <1>6, <1>7 DEF StackFits

(* A step that touches neither the history nor the screen keeps both.       *)
LEMMA ScreenStays ==
  ASSUME ScreenFits, StackFits, UNCHANGED <<history, here, route, overlay, draft>>
  PROVE  ScreenFits' /\ StackFits'
BY DEF ScreenFits, StackFits, N!DepthIsThere, N!ScreenIsTheAddress, N!currentRoute, N!Entry

(* The history is left alone, and so is the address. *)
LEMMA StackStays ==
  ASSUME StackFits, UNCHANGED <<history, here, route>>
  PROVE  StackFits'
BY DEF StackFits, N!DepthIsThere, N!ScreenIsTheAddress, N!currentRoute, N!Entry

(* Another entry of the history is shown. *)
LEMMA GoneFits ==
  ASSUME ScreenFits, StackFits, NEW to \in 1 .. Len(history), here' = to, history' = history,
         N!Shown(N!parseRoute(history[to].at))
  PROVE  ScreenFits' /\ StackFits'
<1>1. route' = N!parseRoute(history[to].at) /\ ScreenFits'
  BY ShownFits, ParsedIsRoute
<1>2. N!ScreenIsTheAddress'
  BY <1>1 DEF N!ScreenIsTheAddress, N!currentRoute, N!Entry
<1>3. N!DepthIsThere'
  BY DEF StackFits, N!DepthIsThere
<1> QED BY <1>1, <1>2, <1>3 DEF StackFits

(* The parent of a screen is a route, or there is none.                     *)
LEMMA ParentIsRoute ==
  ASSUME NEW r \in N!Routes
  PROVE  /\ N!parentRoute(r).name = N!Nil \/ N!parentRoute(r) \in N!Routes
         /\ r.name = "taskNew" => N!parentRoute(r) \in N!Routes
<1>1. /\ \A i \in N!Ids : N!Route("task", i) \in N!Routes
      /\ N!Route("settings", N!Nil) \in N!Routes /\ N!Route("today", N!Nil) \in N!Routes
      /\ N!Route("tasks", "week") \in N!Routes /\ N!Route("goals", "active") \in N!Routes
  BY DEF N!Routes, N!Bare, N!TaskScopes, N!GoalScopes
<1>2. r.name = "taskEdit" => r.arg \in N!Ids
  BY DEF N!Routes, N!Route, N!Bare
<1>3. N!Route(N!Nil, N!Nil).name = N!Nil
  BY DEF N!Route
<1> QED BY <1>1, <1>2, <1>3 DEF N!parentRoute, N!parentRouteOfCards

(* Leaving a screen goes back in the history, or replaces the screen by its *)
(* parent where there is nothing to go back to.                             *)
LEMMA LeaveFits ==
  ASSUME ScreenFits, StackFits, N!Leave
  PROVE  ScreenFits' /\ StackFits' /\ popping' \in {popping, popping + 1}
<1>1. N!currentRoute \in N!Routes
  BY ParsedIsRoute DEF N!currentRoute
<1>2. CASE N!Entry.depth > 0
  BY <1>2, ScreenStays DEF N!Leave
<1>3. CASE ~(N!Entry.depth > 0) /\ N!parentRoute(N!currentRoute).name = N!Nil
  BY <1>3, ScreenStays DEF N!Leave
<1>4. CASE ~(N!Entry.depth > 0) /\ N!parentRoute(N!currentRoute).name # N!Nil
  BY <1>1, <1>4, ParentIsRoute, ReplaceFits DEF N!Leave
<1> QED BY <1>2, <1>3, <1>4

(* The back button keeps the history and the screen together.               *)
LEMMA BackFits ==
  ASSUME ScreenFits, StackFits, N!back
  PROVE  ScreenFits' /\ StackFits' /\ popping' \in {popping, popping + 1}
<1>1. CASE N!Interceptor = N!Nil
  BY <1>1, LeaveFits DEF N!back, N!Nil
<1>2. CASE N!Interceptor = "form"
  <2>1. overlay = N!Nil /\ draft = "dirty"
    BY <1>2 DEF N!Interceptor, N!InterceptorSheets, ScreenFits, N!Nil
  <2>2. overlay' = "discard" /\ UNCHANGED <<history, here, route, draft, popping>>
    BY <1>2 DEF N!back, N!Nil
  <2> QED BY <2>1, <2>2, StackStays DEF ScreenFits, N!Nil
<1>3. CASE N!Interceptor # N!Nil /\ N!Interceptor # "form"
  <2>1. overlay' = N!Nil /\ UNCHANGED <<history, here, route, draft, popping>>
    BY <1>3 DEF N!back
  <2> QED BY <2>1, StackStays DEF ScreenFits, N!Nil
<1> QED BY <1>1, <1>2, <1>3

(* One step per action. *)
LEMMA RouterStep ==
  ASSUME RouterInv, N!Next
  PROVE  RouterInv'
<1>1. /\ scenario.links \subseteq N!Routes /\ ScreenFits /\ StackFits
      /\ popping \in 0 .. 2 /\ moves \in Nat /\ creating \in Nat
  BY WebAssumption DEF RouterInv, WebAssumption
<1>2. N!Spent => scenario' = scenario /\ moves' \in Nat
  BY <1>1 DEF N!Spent
<1>3. CASE N!Follow
  <2>1. PICK r \in N!Routes : N!push(r)
    BY <1>1, <1>3 DEF N!Follow
  <2>2. ScreenFits' /\ StackFits'
    BY <1>1, <1>3, <2>1, PushFits DEF N!Follow
  <2> QED BY <1>1, <1>2, <1>3, <2>2 DEF N!Follow, RouterInv
<1>4. CASE N!Tab
  <2>1. PICK r \in N!Routes : N!replace(r)
    BY <1>1, <1>4 DEF N!Tab
  <2>2. ScreenFits' /\ StackFits'
    BY <1>1, <2>1, ReplaceFits
  <2> QED BY <1>1, <1>2, <1>4, <2>2 DEF N!Tab, RouterInv
<1>5. CASE N!PressBack
  <2>1. ScreenFits' /\ StackFits' /\ popping' \in {popping, popping + 1}
    BY <1>1, <1>5, BackFits DEF N!PressBack
  <2> QED BY <1>1, <1>2, <1>5, <2>1 DEF N!PressBack, RouterInv, N!MaxPops
<1>6. CASE N!Popped
  <2>1. ScreenFits' /\ StackFits'
    <3>1. CASE here = 1
      BY <1>1, <1>6, <3>1, ScreenStays DEF N!Popped
    <3>2. CASE here # 1
      <4>1. here - 1 \in 1 .. Len(history)
        BY <1>1, <3>2 DEF StackFits
      <4> QED BY <1>1, <1>6, <3>2, <4>1, GoneFits DEF N!Popped
    <3> QED BY <3>1, <3>2
  <2> QED BY <1>1, <1>6, <2>1 DEF N!Popped, RouterInv
<1>7. CASE N!Traverse
  <2>1. PICK to \in 1 .. Len(history) : here' = to /\ N!Shown(N!parseRoute(history[to].at))
    BY <1>1, <1>7 DEF N!Traverse, StackFits
  <2>2. ScreenFits' /\ StackFits'
    BY <1>1, <1>7, <2>1, GoneFits DEF N!Traverse
  <2> QED BY <1>1, <1>2, <1>7, <2>2 DEF N!Traverse, RouterInv
<1>8. CASE N!OpenLink
  <2>1. PICK r \in N!Routes :
          /\ history' = Append(SubSeq(history, 1, here), [at |-> N!urlFor(r), depth |-> 0])
          /\ here' = here + 1 /\ N!Shown(r)
    BY <1>1, <1>8 DEF N!OpenLink
  <2> DEFINE entry == [at |-> N!urlFor(r), depth |-> 0]
  <2>2. entry \in Places /\ entry.depth <= here /\ entry.at = N!urlFor(r)
    BY <1>1, UrlIsFragment DEF Places, StackFits
  <2>3. route' = N!parseRoute(entry.at) /\ ScreenFits'
    BY <1>1, <2>1, <2>2, ShownFits, ParsedUrl
  <2>4. history' = Append(SubSeq(history, 1, here), entry) /\ here' = here + 1 /\ here < MaxEntries
    BY <1>8, <2>1 DEF N!OpenLink
  <2> HIDE DEF entry
  <2>5. StackFits'
    BY <1>1, <2>2, <2>3, <2>4, CutFits
  <2> QED BY <1>1, <1>2, <1>8, <2>3, <2>5 DEF N!OpenLink, RouterInv
<1>9. CASE N!Reload
  <2>1. route' = route
    BY <1>1, <1>9 DEF N!Reload, StackFits, N!ScreenIsTheAddress
  <2>2. ScreenFits' /\ StackFits'
    BY <1>1, <1>9, <2>1, StackStays DEF N!Reload, ScreenFits, N!Nil
  <2> QED BY <1>1, <1>2, <1>9, <2>2 DEF N!Reload, RouterInv
<1>10. CASE N!OpenSheet
  <2>1. draft = N!Nil
    BY <1>1, <1>10 DEF N!OpenSheet, N!Sheeted, ScreenFits
  <2>2. ScreenFits' /\ StackFits'
    BY <1>1, <1>10, <2>1, StackStays DEF N!OpenSheet, ScreenFits, N!Nil
  <2> QED BY <1>1, <1>2, <1>10, <2>2 DEF N!OpenSheet, RouterInv
<1>11. CASE N!CloseSheet
  <2>1. ScreenFits' /\ StackFits'
    BY <1>1, <1>11, StackStays DEF N!CloseSheet, ScreenFits, N!Nil
  <2> QED BY <1>1, <1>2, <1>11, <2>1 DEF N!CloseSheet, RouterInv
<1>12. CASE N!Type
  <2>1. ScreenFits' /\ StackFits'
    BY <1>1, <1>12, StackStays DEF N!Type, ScreenFits, N!Nil
  <2> QED BY <1>1, <1>2, <1>12, <2>1 DEF N!Type, RouterInv
<1>13. CASE N!Discard
  <2>1. CASE N!Entry.depth > 0
    <3>1. ScreenFits' /\ StackFits'
      BY <1>1, <1>13, <2>1, StackStays DEF N!Discard, ScreenFits, N!Nil
    <3> QED BY <1>1, <1>2, <1>13, <2>1, <3>1 DEF N!Discard, RouterInv, N!MaxPops
  <2>2. CASE ~(N!Entry.depth > 0)
    <3>1. N!currentRoute \in N!Routes /\ N!currentRoute.name = "taskNew"
      BY <1>1, <1>13 DEF N!Discard, ScreenFits, StackFits, N!ScreenIsTheAddress, N!Nil
    <3>2. ScreenFits' /\ StackFits'
      BY <1>1, <1>13, <2>2, <3>1, ParentIsRoute, ReplaceFits DEF N!Discard
    <3> QED BY <1>1, <1>2, <1>13, <2>2, <3>2 DEF N!Discard, RouterInv
  <2> QED BY <2>1, <2>2
<1>14. CASE N!Submit
  <2>1. ScreenFits' /\ StackFits'
    BY <1>1, <1>14, ScreenStays DEF N!Submit
  <2> QED BY <1>1, <1>2, <1>14, <2>1 DEF N!Submit, RouterInv
<1>15. CASE N!Created
  <2>1. ScreenFits' /\ StackFits'
    BY <1>1, <1>15, ReplaceFits, ScreenStays DEF N!Created
  <2> QED BY <1>1, <1>15, <2>1 DEF N!Created, RouterInv
<1> QED
  BY <1>3, <1>4, <1>5, <1>6, <1>7, <1>8, <1>9, <1>10, <1>11, <1>12, <1>13, <1>14, <1>15 DEF N!Next

(* The app starts with it, on whatever link it was opened.                  *)
LEMMA RouterStart ==
  ASSUME N!Init
  PROVE  RouterInv
<1>1. scenario \in RouterScenarios /\ scenario.moves \in Nat
  BY WebAssumption DEF N!Init, WebAssumption
<1> DEFINE hint == N!routeFromStartParam(scenario.param)
<1>2. hint.name = N!Nil \/ hint \in N!Routes
  <2>1. N!Route(N!Nil, N!Nil).name = N!Nil
    BY DEF N!Route
  <2>2. \A i \in N!Ids : N!Route("task", i) \in N!Routes /\ N!Route("goal", i) \in N!Routes
    BY DEF N!Routes
  <2>3. N!NotFound \in N!Routes
    BY DEF N!Routes, N!NotFound
  <2>4. N!parseRoute(N!Fragment(scenario.param, N!Nil, FALSE)) \in N!Routes
    BY ParsedIsRoute
  <2>5. hint \in {N!Route(N!Nil, N!Nil)} \cup N!Routes
    BY <2>2, <2>3, <2>4 DEF N!routeFromStartParam
  <2> QED BY <2>1, <2>5
<1>3. N!DEFAULT_ROUTE \in N!Routes
  BY DEF N!DEFAULT_ROUTE, N!Routes, N!Bare
<1> HIDE DEF hint
<1>4. N!Opened(scenario).at \in Fragments /\ N!Opened(scenario).depth = 0
      /\ N!Opened(scenario) \in Places
  BY <1>1, <1>2, <1>3, UrlIsFragment DEF N!Opened, hint, Fragments, Places
<1>5. /\ history = <<N!Opened(scenario)>> /\ here = 1 /\ route = N!parseRoute(history[1].at)
      /\ overlay = N!Nil /\ creating = 0 /\ popping = 0 /\ moves = scenario.moves
      /\ draft = (IF route.name = "taskNew" THEN "clean" ELSE N!Nil)
  BY DEF N!Init
<1>6. ScreenFits
  BY <1>5, ParsedIsRoute DEF ScreenFits, N!Nil
<1>7. StackFits
  <2> DEFINE entry == N!Opened(scenario)
  <2> HIDE DEF entry
  <2>1. entry \in Places /\ entry.depth = 0 /\ history = <<entry>>
    BY <1>4, <1>5 DEF entry
  <2>2. history \in Seq(Places) /\ Len(history) = 1 /\ history[1] = entry
    BY <2>1
  <2>3. N!ScreenIsTheAddress
    BY <1>5 DEF N!ScreenIsTheAddress, N!currentRoute, N!Entry
  <2> QED BY <1>5, <2>1, <2>2, <2>3, WebAssumption DEF StackFits, N!DepthIsThere, WebAssumption
<1> QED BY <1>1, <1>5, <1>6, <1>7 DEF RouterInv

(* Back never throws a typed title away without asking: where back is       *)
(* pressed on a changed draft, the question is shown.                       *)
LEMMA DraftAsked ==
  ASSUME RouterInv
  PROVE  N!AskedDraft
<1> SUFFICES ASSUME N!PressBack, draft = "dirty", overlay # "discard"
             PROVE  draft' = "dirty" /\ overlay' = "discard"
  BY DEF N!AskedDraft
<1>1. overlay = N!Nil
  BY DEF RouterInv, ScreenFits, N!Nil
<1> QED BY <1>1 DEF N!PressBack, N!back, N!Interceptor, N!Nil

(* Every variable of the router has its type.                               *)
LEMMA RouterTyped ==
  ASSUME RouterInv
  PROVE  N!TypeOK
<1>1. \A i \in DOMAIN history : /\ N!parseRoute(history[i].at) \in N!Routes
                                /\ history[i].depth \in 0 .. MaxEntries
  BY PlaceFields, ParsedIsRoute, WebAssumption DEF RouterInv, StackFits, WebAssumption
<1> QED BY <1>1 DEF RouterInv, ScreenFits, StackFits, N!TypeOK, N!MaxPops

(* A set of numbers that is not empty has a least one. *)
LEMMA Least ==
  ASSUME NEW X \in SUBSET Nat, X # {}
  PROVE  \E n \in X : \A m \in X : n <= m
<1> DEFINE R == {ss \in Nat \X Nat : ss[1] < ss[2]}
<1>1. IsWellFoundedOn(R, Nat)
  BY NatLessThanWellFounded DEF OpToRel
<1>2. \A m, n \in Nat : m < n => <<m, n>> \in R
  OBVIOUS
<1> HIDE DEF R
<1>3. PICK n \in X : \A m \in X : <<m, n>> \notin R
  BY <1>1, WFMin
<1>4. ASSUME NEW m \in X PROVE n <= m
  <2>1. ~(m < n)
    BY <1>2, <1>3, Zenon
  <2> QED BY <2>1
<1> QED BY <1>4

(* The presses of back, one after the other. *)
Presses(f, m) ==
  f = [n \in 0 .. m |->
         IF n = 0 THEN [at |-> here, route |-> N!currentRoute] ELSE N!AfterBack(f[n - 1])]

(* After any number of presses there is one more.                           *)
LEMMA PressesGoOn ==
  ASSUME NEW m \in Nat, NEW f, Presses(f, m)
  PROVE  \E g : Presses(g, m + 1)
<1> DEFINE start == [at |-> here, route |-> N!currentRoute]
           g == [n \in 0 .. m + 1 |-> IF n = m + 1 THEN N!AfterBack(f[m]) ELSE f[n]]
<1> HIDE DEF start
<1>1. \A n \in 0 .. m : g[n] = f[n]
  OBVIOUS
<1>2. \A n \in 0 .. m : f[n] = IF n = 0 THEN start ELSE N!AfterBack(f[n - 1])
  BY DEF Presses, start
<1>3. ASSUME NEW n \in 0 .. m + 1
      PROVE  g[n] = IF n = 0 THEN start ELSE N!AfterBack(g[n - 1])
  <2>1. CASE n = m + 1
    <3>1. g[n] = N!AfterBack(f[m]) /\ n # 0 /\ n - 1 = m
      BY <2>1
    <3>2. g[n - 1] = f[m]
      BY <1>1, <3>1
    <3> HIDE DEF g
    <3> QED BY <3>1, <3>2
  <2>2. CASE n \in 0 .. m
    <3>1. g[n] = f[n] /\ (n # 0 => n - 1 \in 0 .. m)
      BY <1>1, <2>2
    <3>2. n # 0 => g[n - 1] = f[n - 1]
      BY <1>1, <3>1
    <3> HIDE DEF g
    <3> QED BY <1>2, <2>2, <3>1, <3>2
  <2> QED BY <2>1, <2>2
<1>4. g = [n \in 0 .. m + 1 |-> g[n]]
  OBVIOUS
<1> HIDE DEF g
<1>5. Presses(g, m + 1)
  BY <1>3, <1>4 DEF Presses, start
<1> QED BY <1>5

(* Back can be pressed any number of times.                                 *)
LEMMA PressesExist ==
  ASSUME NEW m \in Nat
  PROVE  \E f : Presses(f, m)
<1> DEFINE X == {k \in Nat : ~ \E f : Presses(f, k)}
<1>1. Presses([n \in 0 .. 0 |-> [at |-> here, route |-> N!currentRoute]], 0)
  BY DEF Presses
<1>2. X = {}
  <2> SUFFICES ASSUME X # {} PROVE FALSE
    OBVIOUS
  <2>1. PICK k \in X : \A j \in X : k <= j
    BY Least
  <2>2. k \in Nat /\ k # 0
    BY <1>1, <2>1
  <2>3. k - 1 \in Nat /\ k - 1 \notin X
    BY <2>1, <2>2
  <2>4. PICK f : Presses(f, k - 1)
    BY <2>3
  <2>5. \E g : Presses(g, (k - 1) + 1)
    BY <2>3, <2>4, PressesGoOn
  <2>6. (k - 1) + 1 = k
    BY <2>2
  <2> QED BY <2>1, <2>5, <2>6
<1> QED BY <1>2

(* How many presses a place is from home, at most: down the entries that     *)
(* promise one below, and from the last of them up the parents.              *)
FarUp(r) == IF N!isRootRoute(r) THEN 0 ELSE IF r.name \in {"taskEdit", "goal"} THEN 2 ELSE 1
(* How far a place is from a root by the back button: down the history      *)
(* first, then up by the parents.                                           *)
Far(p) ==
  IF N!isRootRoute(p.route) THEN 0
  ELSE IF history[p.at].depth > 0 /\ p.at > 1 THEN p.at + 2
  ELSE FarUp(p.route)
(* The places the back button leads through.                                *)
Spots == [at: 1 .. Len(history), route: N!Routes]

(* The parent of a screen is nearer to a root.                              *)
LEMMA UpIsNearer ==
  ASSUME NEW r \in N!Routes, ~N!isRootRoute(r)
  PROVE  /\ N!parentRoute(r) \in N!Routes
         /\ FarUp(N!parentRoute(r)) < FarUp(r)
<1>1. N!parentRoute(r).name # N!Nil
  BY DEF N!Routes, N!Route, N!Bare, N!isRootRoute, N!parentRoute, N!parentRouteOfCards, N!Nil
<1>2. N!parentRoute(r) \in N!Routes
  BY <1>1, ParentIsRoute
<1>3. FarUp(N!parentRoute(r)) < FarUp(r)
  BY DEF N!Routes, N!Route, N!Bare, N!isRootRoute, N!parentRoute, N!parentRouteOfCards, N!Nil, FarUp
<1> QED BY <1>2, <1>3

(* A press of back leads nearer to a root.                                  *)
LEMMA BackIsNearer ==
  ASSUME StackFits, NEW p \in Spots
  PROVE  /\ N!AfterBack(p) \in Spots
         /\ Far(p) \in Nat /\ Far(p) <= p.at + 2
         /\ Far(N!AfterBack(p)) = 0 \/ Far(N!AfterBack(p)) < Far(p)
<1>0. p.at \in 1 .. Len(history) /\ p.route \in N!Routes /\ Len(history) \in Nat
  BY DEF Spots, StackFits
<1>1. Far(p) \in Nat /\ Far(p) <= p.at + 2
  BY <1>0 DEF Far, FarUp
<1>2. CASE N!isRootRoute(p.route)
  BY <1>1, <1>2 DEF N!AfterBack, Far
<1>3. CASE ~N!isRootRoute(p.route) /\ history[p.at].depth > 0 /\ p.at > 1
  <2> DEFINE q == [at |-> p.at - 1, route |-> N!parseRoute(history[p.at - 1].at)]
  <2>1. N!AfterBack(p) = q
    BY <1>3 DEF N!AfterBack
  <2>2. q \in Spots /\ q.at = p.at - 1
    BY <1>0, <1>3, ParsedIsRoute DEF Spots
  <2>3. Far(q) <= q.at + 2
    BY <1>0, <1>3, <2>2 DEF Far, FarUp, Spots
  <2>4. Far(p) = p.at + 2
    BY <1>3 DEF Far
  <2>5. Far(q) \in Nat
    BY <1>0, <1>3, <2>2 DEF Far, FarUp, Spots
  <2> HIDE DEF q
  <2> QED BY <1>0, <1>1, <2>1, <2>2, <2>3, <2>4, <2>5
<1>4. CASE ~N!isRootRoute(p.route) /\ ~(history[p.at].depth > 0 /\ p.at > 1)
  <2> DEFINE up == N!parentRoute(p.route)
             q == [p EXCEPT !.route = up]
  <2>1. N!AfterBack(p) = q
    BY <1>4 DEF N!AfterBack
  <2>2. up \in N!Routes /\ FarUp(up) < FarUp(p.route)
    BY <1>0, <1>4, UpIsNearer
  <2>3. q \in Spots /\ q.at = p.at /\ q.route = up
    BY <2>2 DEF Spots
  <2>4. Far(p) = FarUp(p.route)
    BY <1>4 DEF Far
  <2> HIDE DEF q, up
  <2>5. Far(q) = 0 \/ Far(q) = FarUp(up)
    BY <1>4, <2>3 DEF Far
  <2> QED BY <1>1, <2>1, <2>2, <2>3, <2>4, <2>5
<1> QED BY <1>2, <1>3, <1>4

(* Back leads home from everywhere, for every history.                      *)
LEMMA HomeByBack ==
  ASSUME StackFits
  PROVE  N!BackLeadsHome
<1> DEFINE m == MaxEntries + 3
           f == CHOOSE up : Presses(up, m)
           X == {n \in 0 .. m : ~(f[n] \in Spots /\ (Far(f[n]) = 0 \/ Far(f[n]) + n <= m))}
<1>0. m \in Nat /\ MaxEntries \in Nat
  BY WebAssumption DEF WebAssumption
<1>1. Presses(f, m)
  BY <1>0, PressesExist
<1>2. N!BackLeadsHome <=> N!isRootRoute(f[m].route)
  BY DEF N!BackLeadsHome, Presses
<1> HIDE DEF f
<1>3. /\ f[0] = [at |-> here, route |-> N!currentRoute]
      /\ \A n \in 1 .. m : f[n] = N!AfterBack(f[n - 1])
  BY <1>0, <1>1 DEF Presses
<1>4. f[0] \in Spots /\ f[0].at = here
  BY <1>3, ParsedIsRoute DEF Spots, StackFits, N!currentRoute
<1>5. 0 \notin X
  <2>1. Far(f[0]) \in Nat /\ Far(f[0]) <= here + 2
    BY <1>4, BackIsNearer
  <2> QED BY <1>0, <1>4, <2>1 DEF StackFits
<1>6. X = {}
  <2> SUFFICES ASSUME X # {} PROVE FALSE
    OBVIOUS
  <2>1. PICK n \in X : \A k \in X : n <= k
    <3>1. X \in SUBSET Nat
      BY <1>0
    <3> QED BY <3>1, Least
  <2>2. n \in 1 .. m /\ n - 1 \in 0 .. m /\ n - 1 \notin X
    BY <1>0, <1>5, <2>1
  <2>3. f[n - 1] \in Spots /\ (Far(f[n - 1]) = 0 \/ Far(f[n - 1]) + (n - 1) <= m)
    BY <2>2
  <2>4. f[n] = N!AfterBack(f[n - 1])
    BY <1>3, <2>2
  <2>5. /\ f[n] \in Spots /\ Far(f[n]) \in Nat /\ Far(f[n - 1]) \in Nat
        /\ Far(f[n]) = 0 \/ Far(f[n]) < Far(f[n - 1])
    BY <2>3, <2>4, BackIsNearer
  <2>6. Far(f[n]) = 0 \/ Far(f[n]) + n <= m
    BY <1>0, <2>2, <2>3, <2>5
  <2> QED BY <2>1, <2>5, <2>6
<1>7. f[m] \in Spots /\ (Far(f[m]) = 0 \/ Far(f[m]) + m <= m)
  BY <1>0, <1>6
<1>8. Far(f[m]) = 0
  BY <1>0, <1>7, BackIsNearer
<1>9. N!isRootRoute(f[m].route)
  BY <1>7, <1>8 DEF Far, FarUp, Spots
<1> QED BY <1>2, <1>9
(* A step of another world leaves the router as it is.                      *)
LEMMA RouterStays ==
  ASSUME RouterInv, UNCHANGED N!vars
  PROVE  RouterInv'
<1>1. ScreenFits' /\ StackFits'
  BY ScreenStays DEF RouterInv, N!vars
<1> QED BY <1>1 DEF RouterInv, N!vars

(* The screen is the one the address names, a depth promises what is there, *)
(* and back leads home.                                                     *)
LEMMA RouterHolds ==
  ASSUME RouterInv
  PROVE  N!RouterIsSound
BY HomeByBack DEF RouterInv, StackFits, N!RouterIsSound


------------------------------------------------------------------------------
(* The screens of a task.                                                   *)

(* The rows of a task's screen and the requests that were sent from it.     *)
DateRow == [status: D!DateStatuses, version: Nat]
TaskOfScreen == [status: D!TaskStatuses, version: Nat, dated: BOOLEAN, box: BOOLEAN]
Request ==
  [step: {"none", "sent", "resolved", "validated", "answered"}, kind: D!Kinds \cup {"none"},
   of: Nat, version: Nat, shown: [task: Nat, date: Nat, version: Nat],
   target: [task: Nat, date: Nat], answer: {"none", "done", "rule", "conflict", "unavailable"}]

(* The rows, and what a step may do to them: versions only grow, and a date  *)
(* that has come stays.                                                      *)
RowsFit ==
  /\ scenario \in ScreenScenarios
  /\ task \in TaskOfScreen
  /\ dates \in [D!Ids -> DateRow]
RowsMove ==
  /\ RowsFit'
  /\ scenario' = scenario
  /\ task.version <= task'.version
  /\ \A d \in D!Ids : /\ dates[d].version <= dates'[d].version
                      /\ dates[d].status # "none" => dates'[d].status # "none"

(* A task after a step.                                                     *)
Grown(t) == t \in TaskOfScreen /\ task.version <= t.version

(* What was shown, and what has been asked for by what was shown.            *)
Seen(v) ==
  /\ v.task \in Nat /\ v.task <= task.version
  /\ v.version \in Nat /\ v.date \in D!Ids \cup {0}
  /\ v.date # 0 => v.version <= dates[v.date].version
(* A request asks for what its screen showed.                               *)
Asks(r) ==
  /\ r.kind \in D!Kinds
  /\ Seen(r.shown)
  /\ r.kind \in D!OfState => r.shown.date # 0
  /\ r.of = IF r.kind \in D!OfTask THEN 0 ELSE r.shown.date
  /\ r.version = IF r.kind \in D!OfTask \cup {"endSeries"} \/ r.shown.date = 0
                 THEN r.shown.task ELSE r.shown.version
(* Once the server has resolved it, it aims at what it asked for.           *)
Aims(r) ==
  /\ r.target.date \in D!Ids \cup {0}
  /\ r.of # 0 => r.target.date = r.of
  /\ r.shown.task <= r.target.task /\ r.target.task <= task.version
(* What is known of a request at each of its steps.                         *)
Held(r) ==
  /\ r.step # "none" => Asks(r)
  /\ r.step \notin {"none", "sent"} => Aims(r)
  /\ r.answer # "none" => r.step = "answered"
  /\ r.answer = "conflict" /\ r.kind # "moveSeries" => D!Moved(r)

(* What the screens of a task keep.                                         *)
ScreensInv ==
  /\ RowsFit
  /\ Seen(view) /\ view.date \in D!Dates \cup {0}
  /\ scenario.link \in D!Dates \cup {0}
  /\ requests \in [D!Slots -> Request]
  /\ \A r \in Request : (\E i \in D!Slots : requests[i] = r) => Held(r)

(* What is known of a request stays true while the rows move on.            *)
LEMMA HeldStays ==
  ASSUME RowsFit, RowsMove, NEW r \in Request, Held(r)
  PROVE  Held(r)'
<1>1. D!Ids' = D!Ids
  BY DEF RowsMove, D!Ids
<1>2. /\ task.version \in Nat /\ task'.version \in Nat /\ task.version <= task'.version
      /\ \A d \in D!Ids : /\ dates[d].version \in Nat /\ dates'[d].version \in Nat
                          /\ dates[d].version <= dates'[d].version
  BY <1>1 DEF RowsFit, RowsMove, TaskOfScreen, DateRow
<1>3. /\ r.shown.task \in Nat /\ r.shown.version \in Nat /\ r.target.task \in Nat
  BY DEF Request
<1>4. Seen(r.shown) => Seen(r.shown)'
  BY <1>1, <1>2, <1>3 DEF Seen
<1>5. Asks(r) => Asks(r)'
  BY <1>4 DEF Asks
<1>6. Aims(r) => Aims(r)'
  BY <1>1, <1>2, <1>3 DEF Aims
<1>7. Asks(r) /\ D!Moved(r) => D!Moved(r)'
  BY <1>1, <1>2, <1>3 DEF Asks, Seen, D!Moved, D!None
<1> QED BY <1>5, <1>6, <1>7 DEF Held

(* Every write of a date counts its version up.                             *)
LEMMA BumpsDate ==
  ASSUME NEW row \in DateRow, NEW s \in D!DateStatuses
  PROVE  /\ D!Bump(row, s) \in DateRow /\ row.version \in Nat
         /\ D!Bump(row, s).version = row.version + 1 /\ D!Bump(row, s).status = s
<1>1. row.version \in Nat /\ row = [status |-> row.status, version |-> row.version]
  BY DEF DateRow
<1> DEFINE old == row.status  at == row.version
<1>2. row = [status |-> old, version |-> at] /\ row.version = at
  BY <1>1
<1> HIDE DEF old, at
<1> DEFINE marked == [row EXCEPT !.status = s]
<1>3. marked = [status |-> s, version |-> at]
  BY <1>2
<1>4. D!Bump(row, s) = [marked EXCEPT !.version = row.version + 1]
  BY DEF D!Bump
<1> HIDE DEF marked
<1>5. D!Bump(row, s) = [status |-> s, version |-> at + 1]
  BY <1>2, <1>3, <1>4
<1> QED BY <1>1, <1>2, <1>5 DEF DateRow

(* One date is written. *)
LEMMA DateToMoves ==
  ASSUME RowsFit, NEW d, NEW s \in D!DateStatuses \ {"none"}, D!DateTo(d, s),
         Grown(task'), scenario' = scenario
  PROVE  RowsMove /\ \A e \in D!Ids : dates'[e] # dates[e] => e = d
<1>1. D!Ids' = D!Ids
  BY DEF D!Ids
<1>2. dates \in [D!Ids -> DateRow] /\ dates' = [dates EXCEPT ![d] = D!Bump(dates[d], s)]
  BY DEF RowsFit, D!DateTo
<1>3. d \in D!Ids => /\ D!Bump(dates[d], s) \in DateRow
                     /\ D!Bump(dates[d], s).version = dates[d].version + 1
                     /\ D!Bump(dates[d], s).status = s
  BY <1>2, BumpsDate
<1>4. \A e \in D!Ids : dates[e].version \in Nat
  BY <1>2 DEF DateRow
<1>5. dates' \in [D!Ids -> DateRow] /\ \A e \in D!Ids : e # d => dates'[e] = dates[e]
  BY <1>2, <1>3
<1>6. d \in D!Ids => dates'[d] = D!Bump(dates[d], s)
  BY <1>2
<1>7. \A e \in D!Ids : /\ dates[e].version <= dates'[e].version
                       /\ dates[e].status # "none" => dates'[e].status # "none"
  BY <1>3, <1>4, <1>5, <1>6
<1> QED BY <1>1, <1>5, <1>7 DEF RowsFit, RowsMove, Grown

(* A write of all the open dates moves the rows on.                         *)
LEMMA AllToMoves ==
  ASSUME RowsFit, NEW from, NEW s \in D!DateStatuses \ {"none"}, D!AllTo(from, s),
         Grown(task'), scenario' = scenario
  PROVE  RowsMove
<1>1. D!Ids' = D!Ids
  BY DEF D!Ids
<1>2. \A e \in D!Ids : /\ dates[e] \in DateRow /\ dates[e].version \in Nat
                       /\ D!Bump(dates[e], s) \in DateRow
                       /\ D!Bump(dates[e], s).version = dates[e].version + 1
                       /\ D!Bump(dates[e], s).status = s
  BY BumpsDate DEF RowsFit
<1>3. \A e \in D!Ids : dates'[e] \in {dates[e], D!Bump(dates[e], s)}
  BY DEF D!AllTo
<1>4. dates' \in [D!Ids -> DateRow]
  BY <1>2 DEF D!AllTo
<1> QED BY <1>1, <1>2, <1>3, <1>4 DEF RowsFit, RowsMove, Grown

(* What the writes make of the task.                                        *)
LEMMA TaskMoves ==
  ASSUME RowsFit, NEW s \in D!TaskStatuses
  PROVE  /\ Grown(task) /\ Grown(D!Bump(task, s)) /\ Grown(D!TaskBumped)
         /\ \A b \in BOOLEAN : /\ Grown([D!TaskBumped EXCEPT !.box = b])
                               /\ Grown([D!TaskBumped EXCEPT !.dated = b])
         /\ task.box \in BOOLEAN
<1>1. task \in TaskOfScreen
  BY DEF RowsFit
<1>2. /\ task.version \in Nat /\ task.box \in BOOLEAN /\ task.dated \in BOOLEAN
      /\ task.status \in D!TaskStatuses
  BY <1>1 DEF TaskOfScreen
<1> DEFINE row(st, d, b) ==
             [status |-> st, version |-> task.version + 1, dated |-> d, box |-> b]
<1>3. \A st \in D!TaskStatuses, d, b \in BOOLEAN : row(st, d, b) \in TaskOfScreen
  BY <1>2 DEF TaskOfScreen
<1>4. D!Bump(task, s) = row(s, task.dated, task.box)
  <2> DEFINE st == task.status  v == task.version  d == task.dated  b == task.box
  <2>1. task = [status |-> st, version |-> v, dated |-> d, box |-> b]
    BY <1>1 DEF TaskOfScreen
  <2>2. task.version = v /\ task.dated = d /\ task.box = b
    OBVIOUS
  <2> DEFINE marked == [task EXCEPT !.status = s]
  <2> HIDE DEF st, v, d, b
  <2>3. marked = [status |-> s, version |-> v, dated |-> d, box |-> b]
    BY <2>1
  <2>4. D!Bump(task, s) = [marked EXCEPT !.version = task.version + 1]
    BY DEF D!Bump
  <2> HIDE DEF marked
  <2> QED BY <2>2, <2>3, <2>4
<1>5. D!TaskBumped = row(task.status, task.dated, task.box)
  BY <1>1 DEF D!TaskBumped, TaskOfScreen
<1>6. \A b \in BOOLEAN : /\ [D!TaskBumped EXCEPT !.box = b] = row(task.status, task.dated, b)
                          /\ [D!TaskBumped EXCEPT !.dated = b] = row(task.status, b, task.box)
  BY <1>5
<1>7. \A st, d, b : row(st, d, b).version = task.version + 1
  OBVIOUS
<1> HIDE DEF row
<1>8. \A st \in D!TaskStatuses, d, b \in BOOLEAN : Grown(row(st, d, b))
  BY <1>2, <1>3, <1>7 DEF Grown
<1> QED BY <1>1, <1>2, <1>4, <1>5, <1>6, <1>8 DEF Grown

(* A date that is added is a new one.                                       *)
LEMMA GiveDateMoves ==
  ASSUME RowsFit, D!NextId \in D!Ids, dates' = [dates EXCEPT ![D!NextId].status = "scheduled"],
         Grown(task'), scenario' = scenario
  PROVE  RowsMove
<1> DEFINE n == D!NextId
           given == [dates[n] EXCEPT !.status = "scheduled"]
<1>1. D!Ids' = D!Ids
  BY DEF D!Ids
<1>2. dates \in [D!Ids -> DateRow] /\ n \in D!Ids /\ dates' = [dates EXCEPT ![n] = given]
  BY DEF RowsFit
<1>3. given \in DateRow /\ given.version = dates[n].version /\ given.status = "scheduled"
  BY <1>2 DEF DateRow, D!DateStatuses
<1> HIDE DEF given, n
<1>4. /\ dates' \in [D!Ids -> DateRow] /\ dates'[n] = given
      /\ \A e \in D!Ids : e # n => dates'[e] = dates[e]
  BY <1>2, <1>3
<1>5. \A e \in D!Ids : dates[e].version \in Nat
  BY <1>2 DEF DateRow
<1> QED BY <1>1, <1>3, <1>4, <1>5 DEF RowsFit, RowsMove, Grown

(* Rows that are left alone have moved on trivially.                        *)
LEMMA RowsStay ==
  ASSUME RowsFit, UNCHANGED <<scenario, task, dates>>
  PROVE  RowsMove
<1>1. task.version \in Nat /\ \A d \in D!Ids : dates[d].version \in Nat
  BY DEF RowsFit, TaskOfScreen, DateRow
<1> QED BY <1>1 DEF RowsFit, RowsMove, D!Ids

(* A write of the task alone.                                               *)
LEMMA TaskOnlyMoves ==
  ASSUME RowsFit, Grown(task'),
         UNCHANGED <<scenario, dates>>
  PROVE  RowsMove
<1>1. \A d \in D!Ids : dates[d].version \in Nat
  BY DEF RowsFit, DateRow
<1> QED BY <1>1 DEF RowsFit, RowsMove, Grown, D!Ids

(* Closing a date moves that date and the task (done, skip, cancel).        *)
LEMMA ClosesMoves ==
  ASSUME RowsFit, NEW d, NEW s \in D!DateStatuses \ {"none"}, NEW t \in D!TaskStatuses,
         D!Closes(d, s, t), scenario' = scenario
  PROVE  RowsMove /\ \A e \in D!Ids : dates'[e] # dates[e] => e = d
<1>1. Grown(task')
  BY TaskMoves DEF D!Closes, RowsFit
<1> QED BY <1>1, DateToMoves DEF D!Closes

(* A change of the repeat moves the rows on.                                *)
LEMMA SeriesMoves ==
  ASSUME RowsFit, NEW kind \in {"pause", "resume"} \cup D!OfRepeat, D!ChangeSeries(kind),
         scenario' = scenario
  PROVE  RowsMove
<1> DEFINE status == CASE kind = "pause" -> "paused" [] kind = "resume" -> "active"
                       [] kind = "endSeries" -> "cancelled" [] OTHER -> task.status
<1>1. status \in D!TaskStatuses
  BY DEF RowsFit, TaskOfScreen, D!TaskStatuses
<1>2. task' = D!Bump(task, status)
  BY DEF D!ChangeSeries
<1> HIDE DEF status
<1>3. Grown(task')
  BY <1>1, <1>2, TaskMoves
<1>4. \E from, s : s \in {"withheld", "cancelled", "scheduled"} /\ D!AllTo(from, s)
  BY DEF D!ChangeSeries, D!OfRepeat
<1>5. {"withheld", "cancelled", "scheduled"} \subseteq D!DateStatuses \ {"none"}
  BY DEF D!DateStatuses
<1> QED BY <1>3, <1>4, <1>5, AllToMoves

(* Every write of the server moves the rows on, and one of a state or a     *)
(* time moves no date but the one it is for.                                *)
LEMMA WritesMove ==
  ASSUME RowsFit, NEW kind \in D!Kinds, NEW d \in D!Ids \cup {0}, D!Writes(kind, d),
         scenario' = scenario
  PROVE  /\ RowsMove
         /\ kind \in (D!OfState \cup D!Moves) \ {"done"} /\ d # 0
              => \A e \in D!Ids : dates'[e] # dates[e] => e = d
<1>0. /\ {"open", "scheduled", "in_progress", "done", "skipped", "cancelled"}
           \subseteq D!DateStatuses \ {"none"}
      /\ {"active", "closed", "cancelled"} \subseteq D!TaskStatuses
  BY DEF D!DateStatuses, D!TaskStatuses
<1>1. CASE kind \in {"edit", "tick", "untick"}
  <2>1. UNCHANGED dates
    BY <1>1 DEF D!Writes, D!Checklist, D!OfRepeat
  <2>2. task' = D!TaskBumped \/ \E b \in BOOLEAN : task' = [D!TaskBumped EXCEPT !.box = b]
    <3>1. CASE kind = "edit"
      BY <3>1 DEF D!Writes, D!OfRepeat
    <3>2. CASE kind = "tick"
      <4>1. task' = [D!TaskBumped EXCEPT !.box = D!KeptTick(TRUE)]
        BY <3>2 DEF D!Writes, D!Checklist, D!OfRepeat
      <4>2. D!KeptTick(TRUE) \in BOOLEAN
        BY <1>0, TaskMoves DEF D!KeptTick
      <4> QED BY <4>1, <4>2
    <3>3. CASE kind = "untick"
      <4>1. task' = [D!TaskBumped EXCEPT !.box = D!KeptTick(FALSE)]
        BY <3>3 DEF D!Writes, D!Checklist, D!OfRepeat
      <4>2. D!KeptTick(FALSE) \in BOOLEAN
        BY <1>0, TaskMoves DEF D!KeptTick
      <4> QED BY <4>1, <4>2
    <3> QED BY <1>1, <3>1, <3>2, <3>3
  <2>3. Grown(task')
    <3>1. "active" \in D!TaskStatuses
      BY <1>0
    <3> QED BY <3>1, <2>2, TaskMoves, Zenon
  <2> QED BY <1>1, <2>1, <2>3, TaskOnlyMoves DEF D!OfState, D!Moves
<1>2. CASE kind \in {"pause", "resume"} \cup D!OfRepeat
  <2>1. D!ChangeSeries(kind)
    BY <1>2 DEF D!Writes, D!OfRepeat
  <2> QED BY <1>2, <2>1, SeriesMoves DEF D!OfState, D!OfRepeat, D!Moves
<1>3. CASE kind \in {"started", "seen"}
  <2>1. \E s \in {"in_progress", "open"} : D!DateTo(d, s) /\ UNCHANGED task
    BY <1>3 DEF D!Writes, D!Answers, D!OfRepeat
  <2>2. Grown(task')
    BY <2>1, <1>0, TaskMoves DEF RowsFit
  <2> QED BY <1>0, <2>1, <2>2, DateToMoves
<1>4. CASE kind = "skipped"
  <2>1. D!Closes(d, "skipped", "active")
    BY <1>4 DEF D!Writes, D!OfRepeat
  <2> QED BY <1>0, <2>1, ClosesMoves
<1>5. CASE kind = "cancelled"
  <2>1. D!Closes(d, "cancelled", "cancelled")
    BY <1>5 DEF D!Writes, D!OfRepeat
  <2> QED BY <1>0, <2>1, ClosesMoves
<1>6. CASE kind = "done"
  <2>1. D!CompleteTask
    BY <1>6 DEF D!Writes, D!OfRepeat
  <2>2. CASE \E e \in D!LiveDates : D!Closes(e, "done", "closed")
    BY <1>0, <1>6, <2>2, ClosesMoves
  <2>3. CASE task' = D!Bump(task, "closed") /\ UNCHANGED dates
    <3>1. Grown(task')
      BY <1>0, <2>3, TaskMoves
    <3> QED BY <1>6, <2>3, <3>1, TaskOnlyMoves
  <2> QED BY <2>1, <2>2, <2>3 DEF D!CompleteTask
<1>7. CASE kind = "move" /\ d # 0
  <2>1. D!DateTo(d, "scheduled") /\ task' \in {task, D!TaskBumped}
    BY <1>7 DEF D!Writes, D!MoveDate, D!OfRepeat, D!None
  <2>2. Grown(task')
    BY <2>1, <1>0, TaskMoves DEF RowsFit
  <2> QED BY <1>0, <2>1, <2>2, DateToMoves
<1>8. CASE kind = "move" /\ d = 0
  <2>1. D!GiveDate
    BY <1>8 DEF D!Writes, D!OfRepeat, D!None
  <2>2. Grown(task')
    <3>1. "active" \in D!TaskStatuses
      BY <1>0
    <3> QED BY <3>1, <2>1, TaskMoves, Zenon DEF D!GiveDate
  <2> QED BY <1>8, <2>1, <2>2, GiveDateMoves DEF D!GiveDate
<1>9. CASE kind = "someday"
  <2>1. D!DateTo(d, "cancelled") /\ task' = [D!TaskBumped EXCEPT !.dated = FALSE]
    BY <1>9 DEF D!Writes, D!Someday, D!OfRepeat
  <2>2. Grown(task')
    <3>1. "active" \in D!TaskStatuses
      BY <1>0
    <3> QED BY <3>1, <2>1, TaskMoves, Zenon
  <2> QED BY <1>0, <2>1, <2>2, DateToMoves
<1> QED BY <1>1, <1>2, <1>3, <1>4, <1>5, <1>6, <1>7, <1>8, <1>9
    DEF D!Kinds, D!OfTask, D!OfState, D!OfRepeat, D!Moves

(* A request that is resolved keeps what it asked for.                      *)
LEMMA ResolvedFits ==
  ASSUME NEW r \in Request, NEW t, D!Named(r.of) \in Nat, task.version \in Nat
  PROVE  /\ D!Resolved(r) \in Request /\ D!Resolved(r).step = "resolved"
         /\ D!Resolved(r).target = [task |-> task.version, date |-> D!Named(r.of)]
         /\ \A f \in {"kind", "of", "version", "shown", "answer"} : D!Resolved(r)[f] = r[f]
<1> DEFINE aim == [task |-> task.version, date |-> D!Named(r.of)]
           step == [r EXCEPT !.step = "resolved"]
<1>1. aim \in [task: Nat, date: Nat]
  OBVIOUS
<1> HIDE DEF aim
<1>2. step \in Request /\ step.step = "resolved"
      /\ \A f \in {"kind", "of", "version", "shown", "answer"} : step[f] = r[f]
  BY DEF Request
<1>3. D!Resolved(r) = [step EXCEPT !.target = aim]
  BY DEF D!Resolved, aim
<1> HIDE DEF step
<1>4. /\ D!Resolved(r) \in Request
      /\ D!Resolved(r).target = aim /\ D!Resolved(r).step = step.step
      /\ \A f \in {"kind", "of", "version", "shown", "answer"} : D!Resolved(r)[f] = step[f]
  BY <1>1, <1>2, <1>3 DEF Request
<1> QED BY <1>2, <1>4 DEF aim

(* What a request can be answered with.                                     *)
Answers == {"done", "rule", "conflict", "unavailable"}

(* A request that is answered keeps what it asked for.                      *)
LEMMA EndedFits ==
  ASSUME NEW r \in Request, NEW a \in Answers
  PROVE  /\ D!Ended(r, a) \in Request /\ D!Ended(r, a).step = "answered"
         /\ D!Ended(r, a).answer = a
         /\ \A f \in {"kind", "of", "version", "shown", "target"} : D!Ended(r, a)[f] = r[f]
<1> DEFINE step == [r EXCEPT !.step = "answered"]
<1>1. step \in Request /\ step.step = "answered"
      /\ \A f \in {"kind", "of", "version", "shown", "target"} : step[f] = r[f]
  BY DEF Request
<1>2. D!Ended(r, a) = [step EXCEPT !.answer = a]
  BY DEF D!Ended
<1> HIDE DEF step
<1>3. /\ D!Ended(r, a) \in Request
      /\ D!Ended(r, a).answer = a /\ D!Ended(r, a).step = step.step
      /\ \A f \in {"kind", "of", "version", "shown", "target"} : D!Ended(r, a)[f] = step[f]
  BY <1>1, <1>2 DEF Request, Answers
<1> QED BY <1>1, <1>3

(* A request that ends with anything but a conflict is held as it was.       *)
LEMMA EndedHeld ==
  ASSUME RowsFit, RowsMove, NEW r \in Request, Held(r), r.step \notin {"none", "sent"},
         NEW a \in Answers, a = "conflict" /\ r.kind # "moveSeries" => D!Moved(r)
  PROVE  Held(D!Ended(r, a))'
<1> DEFINE e == D!Ended(r, a)
<1>1. /\ e \in Request /\ e.step = "answered" /\ e.answer = a
      /\ e.kind = r.kind /\ e.of = r.of /\ e.version = r.version /\ e.shown = r.shown
      /\ e.target = r.target
  BY EndedFits
<1> HIDE DEF e
<1>2. Asks(r) /\ Aims(r)
  BY DEF Held
<1>3. Asks(e) /\ Aims(e)
  BY <1>1, <1>2 DEF Asks, Aims
<1>4. a = "conflict" /\ e.kind # "moveSeries" => D!Moved(e)
  BY <1>1 DEF D!Moved
<1>5. Held(e)
  BY <1>1, <1>3, <1>4 DEF Held
<1>6. Held(e)'
  BY <1>1, <1>5, HeldStays
<1> QED BY <1>6 DEF e

(* A conflict is about what has moved: when the write is checked and when it *)
(* is made.                                                                  *)
LEMMA StaleHasMoved ==
  ASSUME RowsFit, NEW r \in Request, Asks(r), Aims(r), r.kind # "moveSeries"
  PROVE  /\ ~D!IsFresh(r) => D!Moved(r)
         /\ ~D!StillFresh(r) => D!Moved(r)
<1>1. /\ task.version \in Nat /\ r.target.task \in Nat /\ r.shown.task \in Nat
      /\ r.shown.task <= r.target.task /\ r.target.task <= task.version
  BY DEF RowsFit, TaskOfScreen, Request, Aims
<1>2. D!AddressesTask(r) => r.version = r.shown.task \/ r.shown.date # r.target.date
  BY DEF D!AddressesTask, Asks, Aims, D!OfRepeat, D!OfTask, D!None
<1>3. r.shown.date # 0 /\ r.kind \notin D!OfTask => r.target.date = r.shown.date
  BY DEF Asks, Aims
<1>4. CASE D!AddressesTask(r) /\ r.version = r.shown.task
  BY <1>1, <1>4 DEF D!IsFresh, D!StillFresh, D!Moved
<1>5. CASE D!AddressesTask(r) /\ r.version # r.shown.task
  <2>1. r.kind \notin D!OfTask \cup {"endSeries"} /\ r.shown.date # 0
    BY <1>5 DEF Asks
  <2>2. r.target.date = r.shown.date
    BY <1>3, <2>1
  <2> QED BY <1>5, <2>1, <2>2 DEF D!AddressesTask, D!OfRepeat, D!None
<1>6. CASE ~D!AddressesTask(r)
  <2>1. r.kind \notin D!OfTask /\ r.target.date # 0
    BY <1>6 DEF D!AddressesTask, D!None
  <2>2. CASE r.shown.date = 0
    BY <2>1, <2>2 DEF D!Moved, D!None
  <2>3. CASE r.shown.date # 0
    <3>1. r.target.date = r.shown.date /\ r.version = r.shown.version
      BY <1>3, <1>6, <2>1, <2>3 DEF Asks, D!AddressesTask, D!OfRepeat
    <3> QED BY <1>1, <1>6, <2>3, <3>1 DEF D!IsFresh, D!StillFresh, D!Moved, D!None
  <2> QED BY <2>2, <2>3
<1> QED BY <1>4, <1>5, <1>6

(* A view stays a view of the past while the rows move on.                  *)
LEMMA ViewStays ==
  ASSUME ScreensInv, RowsMove, view' = view
  PROVE  Seen(view)' /\ (view.date \in D!Dates \cup {0})'
<1>1. D!Ids' = D!Ids
  BY DEF RowsMove, D!Ids
<1>2. /\ task.version \in Nat /\ task'.version \in Nat /\ task.version <= task'.version
      /\ \A d \in D!Ids : /\ dates[d].version \in Nat /\ dates'[d].version \in Nat
                          /\ dates[d].version <= dates'[d].version
  BY <1>1 DEF ScreensInv, RowsFit, RowsMove, TaskOfScreen, DateRow
<1> QED BY <1>1, <1>2 DEF ScreensInv, Seen, RowsMove, D!Dates

(* The link of the screen stays.                                            *)
LEMMA LinkStays ==
  ASSUME ScreensInv, RowsMove
  PROVE  (scenario.link \in D!Dates \cup {0})'
BY DEF ScreensInv, RowsMove, D!Dates, D!Ids

(* Of the requests one is written, or none.                                  *)
LEMMA OneRequest ==
  ASSUME ScreensInv, RowsMove, view' = view, NEW i \in D!Slots, NEW q \in Request,
         requests' = [requests EXCEPT ![i] = q], Held(q)'
  PROVE  ScreensInv'
<1>1. D!Slots' = D!Slots /\ requests \in [D!Slots -> Request]
  BY DEF ScreensInv, RowsMove, D!Slots
<1>2. /\ requests' \in [D!Slots -> Request] /\ requests'[i] = q
      /\ \A j \in D!Slots : j # i => requests'[j] = requests[j]
  BY <1>1
<1>3. ASSUME NEW r \in Request, NEW j \in D!Slots, requests'[j] = r
      PROVE  Held(r)'
  <2>1. CASE j = i
    BY <1>2, <1>3, <2>1
  <2>2. CASE j # i
    <3>1. Held(r) /\ RowsFit
      BY <1>2, <1>3, <2>2 DEF ScreensInv
    <3> QED BY <3>1, HeldStays
  <2> QED BY <2>1, <2>2
<1> QED BY <1>1, <1>2, <1>3, ViewStays, LinkStays DEF ScreensInv, RowsMove

(* No request is written.                                                   *)
LEMMA NoRequest ==
  ASSUME ScreensInv, RowsMove, UNCHANGED requests,
         Seen(view)' /\ (view.date \in D!Dates \cup {0})'
  PROVE  ScreensInv'
<1>1. D!Slots' = D!Slots
  BY DEF RowsMove, D!Slots
<1>2. ASSUME NEW r \in Request, NEW j \in D!Slots, requests'[j] = r
      PROVE  Held(r)'
  <2>1. Held(r) /\ RowsFit
    BY <1>2 DEF ScreensInv
  <2> QED BY <2>1, HeldStays
<1> QED BY <1>1, <1>2, LinkStays DEF ScreensInv, RowsMove

(* The date an id names is one of the task's, and so is the current one.     *)
LEMMA NamedFits ==
  ASSUME RowsFit
  PROVE  /\ D!CurrentDate \in D!Dates \cup {0}
         /\ D!Dates \subseteq D!Ids /\ D!Ids \subseteq Nat \ {0}
<1>1. scenario.dates \in Nat
  BY WebAssumption DEF RowsFit, WebAssumption
<1>2. D!Dates \subseteq D!Ids /\ D!Ids \subseteq Nat \ {0}
  BY <1>1 DEF D!Dates, D!Ids
<1> DEFINE C == {d \in D!Dates : dates[d].status \in D!Live \cup {"elapsed"}}
<1>3. CASE C = {}
  BY <1>2, <1>3 DEF D!CurrentDate, D!None
<1>4. CASE C # {}
  <2> DEFINE Rs == {D!Rank(dates[d].status) : d \in C}
  <2>1. \A s : D!Rank(s) \in Nat
    BY DEF D!Rank
  <2>2. PICK n \in Rs : \A k \in Rs : n <= k
    <3>1. Rs \in SUBSET Nat /\ Rs # {}
      BY <1>4, <2>1
    <3> QED BY <3>1, Least
  <2> DEFINE B == {d \in C : D!Rank(dates[d].status) = n}
  <2>3. PICK d \in B : \A e \in B : d <= e
    <3>1. B \in SUBSET Nat /\ B # {}
      BY <1>2, <2>2
    <3> QED BY <3>1, Least
  <2>4. \A e \in C : D!Before(d, e)
    <3> TAKE e \in C
    <3>1. D!Rank(dates[d].status) = n /\ n <= D!Rank(dates[e].status)
      BY <2>2, <2>3
    <3>2. D!Rank(dates[e].status) = n => d <= e
      BY <2>3
    <3> QED BY <2>1, <3>1, <3>2 DEF D!Before
  <2>5. D!CurrentDate \in C
    BY <1>4, <2>3, <2>4 DEF D!CurrentDate
  <2>6. D!CurrentDate \in D!Dates
    BY <2>5
  <2> QED BY <1>2, <2>6
<1> QED BY <1>2, <1>3, <1>4

(* A date, or none, is a number.                                            *)
LEMMA IdsAreNumbers ==
  ASSUME RowsFit, NEW d \in D!Ids \cup {0}
  PROVE  d \in Nat
<1>1. scenario.dates \in Nat
  BY WebAssumption DEF RowsFit, WebAssumption
<1>2. CASE d = 0
  BY <1>2
<1>3. CASE d \in D!Ids
  BY <1>1, <1>3 DEF D!Ids
<1> QED BY <1>2, <1>3

(* A screen that loads shows the rows as they are.                          *)
LEMMA ShownFitsRows ==
  ASSUME RowsFit, NEW d \in D!Dates \cup {0}
  PROVE  Seen(D!Shown(d)) /\ D!Shown(d).date = d
<1>1. D!Dates \subseteq D!Ids /\ 0 \notin D!Ids
  BY NamedFits
<1>2. task.version \in Nat /\ \A e \in D!Ids : dates[e].version \in Nat
  BY DEF RowsFit, TaskOfScreen, DateRow
<1> QED BY <1>1, <1>2 DEF Seen, D!Shown, D!VersionOf, D!None

(* The answer to a request, with what it wrote.                              *)
LEMMA EndsFits ==
  ASSUME ScreensInv, RowsMove, view' = view, NEW i \in D!Slots, NEW a \in Answers,
         D!Ends(i, a), requests[i].step \notin {"none", "sent"},
         a = "conflict" /\ requests[i].kind # "moveSeries" => D!Moved(requests[i])
  PROVE  ScreensInv'
<1>1. PICK r \in Request : r = requests[i]
  BY DEF ScreensInv
<1>2. Held(r) /\ RowsFit
  BY <1>1 DEF ScreensInv
<1>3. a = "conflict" /\ r.kind # "moveSeries" => D!Moved(r)
  BY <1>1
<1>4. Held(D!Ended(r, a))' /\ D!Ended(r, a) \in Request
  BY <1>1, <1>2, <1>3, EndedHeld, EndedFits
<1>5. PICK q \in Request : q = D!Ended(r, a)
  BY <1>4
<1>6. requests' = [requests EXCEPT ![i] = q]
  BY <1>1, <1>5 DEF D!Ends
<1>7. Held(q)'
  BY <1>4, <1>5
<1> QED BY <1>6, <1>7, OneRequest

(* The screens start with what they keep.                                   *)
LEMMA ScreensStart == D!Init => ScreensInv
<1> SUFFICES ASSUME D!Init PROVE ScreensInv
  OBVIOUS
<1>1. /\ scenario \in ScreenScenarios /\ scenario.slots \in Nat /\ scenario.dates \in Nat
      /\ scenario.link \in 0 .. scenario.dates
      /\ scenario.link <= IF scenario.kind = "series" THEN 2
                          ELSE IF scenario.kind = "oneoff" THEN 1 ELSE 0
  BY WebAssumption DEF WebAssumption, D!Init
<1>2. task \in TaskOfScreen
  <2>1. (scenario.kind # "dateless") \in BOOLEAN
    OBVIOUS
  <2>2. task = [status |-> "active", version |-> 1, dated |-> scenario.kind # "dateless",
                box |-> FALSE]
    BY DEF D!Init
  <2>3. "active" \in D!TaskStatuses
    BY DEF D!TaskStatuses
  <2> QED BY <2>1, <2>2, <2>3 DEF TaskOfScreen
<1> DEFINE most == CASE D!IsSeries -> 2 [] scenario.kind = "oneoff" -> 1 [] OTHER -> 0
           state(d) == IF d <= most THEN "scheduled" ELSE "none"
<1>3. dates = [d \in D!Ids |-> [status |-> state(d), version |-> 1]]
  BY DEF D!Init
<1>4. scenario.link <= most
  BY <1>1 DEF D!IsSeries
<1>5. \A d : state(d) \in {"scheduled", "none"}
  OBVIOUS
<1>6. scenario.link # 0 => scenario.link \in D!Ids /\ state(scenario.link) = "scheduled"
  BY <1>1, <1>4 DEF D!Ids
<1> HIDE DEF most, state
<1>7. dates \in [D!Ids -> DateRow]
  BY <1>3, <1>5 DEF DateRow, D!DateStatuses
<1>8. RowsFit
  BY <1>1, <1>2, <1>7 DEF RowsFit
<1>9. scenario.link \in D!Dates \cup {0}
  BY <1>3, <1>6, <1>1 DEF D!Dates
<1>10. view = D!Shown(D!Named(scenario.link)) /\ D!Named(scenario.link) \in D!Dates \cup {0}
  BY <1>8, <1>9, NamedFits DEF D!Init, D!Named
<1>11. Seen(view) /\ view.date \in D!Dates \cup {0}
  BY <1>8, <1>10, ShownFitsRows
<1>12. D!Unsent \in Request /\ Held(D!Unsent)
  BY DEF D!Unsent, D!None, Request, Held
<1>13. requests = [i \in D!Slots |-> D!Unsent]
  BY DEF D!Init
<1>14. requests \in [D!Slots -> Request] /\ \A i \in D!Slots : requests[i] = D!Unsent
  BY <1>12, <1>13
<1> QED BY <1>8, <1>9, <1>11, <1>12, <1>14 DEF ScreensInv

(* One lemma for each action of the screens.                                 *)
LEMMA TapsKeeps ==
  ASSUME ScreensInv, NEW kind \in D!Kinds, D!Taps(kind)
  PROVE  ScreensInv'
<1>1. RowsFit /\ RowsMove
  BY RowsStay DEF ScreensInv, D!Taps
<1> DEFINE free == {i \in D!Slots : requests[i].step = "none"}
           i == CHOOSE j \in free : \A k \in free : j <= k
           q == D!Asked(kind)
<1>2. free # {} /\ requests' = [requests EXCEPT ![i] = q]
  BY DEF D!Taps
<1>3. i \in D!Slots
  <2>1. free \in SUBSET Nat
    BY WebAssumption DEF WebAssumption, D!Slots, RowsFit, ScreensInv
  <2>2. \E j \in free : \A k \in free : j <= k
    <3> HIDE DEF free
    <3> QED BY <1>2, <2>1, Least
  <2>3. i \in free
    <3> HIDE DEF free
    <3> QED BY <2>2
  <2> QED BY <2>3
<1>4. Seen(view) /\ view.date \in Nat
  <2>2. Seen(view)
    BY DEF ScreensInv
  <2>3. view.date \in D!Ids \cup {0}
    BY <2>2 DEF Seen
  <2>4. view.date \in Nat
    BY <1>1, <2>3, IdsAreNumbers
  <2> QED BY <2>2, <2>4
<1>5. view.task \in Nat /\ view.version \in Nat
  BY <1>4 DEF Seen
<1>6. D!SentVersion(kind) \in Nat
  BY <1>5 DEF D!SentVersion
<1> DEFINE what == [task |-> view.task, date |-> view.date, version |-> view.version]
           of == IF kind \in D!OfTask THEN 0 ELSE view.date
<1>7. /\ what \in [task: Nat, date: Nat, version: Nat] /\ of \in Nat
      /\ what.task = view.task /\ what.date = view.date /\ what.version = view.version
  BY <1>4, <1>5
<1>8. Seen(what)
  BY <1>4, <1>7 DEF Seen
<1>9. q = [step |-> "sent", kind |-> kind, of |-> of, version |-> D!SentVersion(kind),
           shown |-> what, target |-> [task |-> 0, date |-> 0], answer |-> "none"]
  BY DEF D!Asked, D!Unsent, D!None
<1>10. kind \in D!OfState => view.date # 0
  BY DEF D!Taps, D!MayTap, D!CanAct, D!OfState, D!None
<1> HIDE DEF what, q
<1>11. q \in Request
  BY <1>6, <1>7, <1>9 DEF Request
<1>12. Asks(q)
  BY <1>7, <1>8, <1>9, <1>10 DEF Asks, D!SentVersion, D!None
<1>13. Held(q)
  BY <1>9, <1>12 DEF Held
<1>14. PICK r \in Request : r = q
  BY <1>11
<1>15. PICK j \in D!Slots : j = i
  BY <1>3
<1>16. Held(r)'
  BY <1>1, <1>13, <1>14, HeldStays
<1>17. view' = view /\ requests' = [requests EXCEPT ![j] = r]
  BY <1>2, <1>14, <1>15 DEF D!Taps
<1> HIDE DEF i
<1> QED BY <1>1, <1>16, <1>17, OneRequest

(* The screen reads the task again.                                         *)
LEMMA LoadsKeeps ==
  ASSUME ScreensInv, D!Loads
  PROVE  ScreensInv'
<1>1. RowsFit /\ RowsMove /\ UNCHANGED requests
  BY RowsStay DEF ScreensInv, D!Loads
<1>2. D!Named(scenario.link) \in D!Dates \cup {0}
  BY <1>1, NamedFits DEF ScreensInv, D!Named
<1>3. PICK d \in D!Dates \cup {0} : view' = D!Shown(d)
  BY <1>2 DEF D!Loads
<1>4. Seen(D!Shown(d)) /\ D!Shown(d).date = d
  BY <1>1, ShownFitsRows
<1>5. D!Ids' = D!Ids /\ D!Dates' = D!Dates
  BY DEF D!Loads, D!Ids, D!Dates
<1>6. Seen(view)' /\ (view.date \in D!Dates \cup {0})'
  BY <1>3, <1>4, <1>5 DEF Seen, D!Loads
<1> QED BY <1>1, <1>6, NoRequest

(* The server finds the date a request is for.                              *)
LEMMA ResolvesKeeps ==
  ASSUME ScreensInv, NEW i \in D!Slots, D!Resolves(i)
  PROVE  ScreensInv'
<1>1. RowsFit /\ RowsMove /\ view' = view
  BY RowsStay DEF ScreensInv, D!Resolves
<1>2. PICK r \in Request : r = requests[i]
  BY DEF ScreensInv
<1>3. Held(r) /\ r.step = "sent"
  BY <1>2 DEF ScreensInv, D!Resolves
<1>4. Asks(r) /\ r.answer = "none" /\ Seen(r.shown) /\ r.shown.task \in Nat
  BY <1>3 DEF Held, Asks, Request
<1>5. D!Dates \subseteq D!Ids /\ D!Ids \subseteq Nat /\ D!CurrentDate \in D!Dates \cup {0}
  BY <1>1, NamedFits
<1>6. r.of \in D!Ids \cup {0}
  BY <1>4 DEF Asks, Seen
<1>7. D!Named(r.of) \in D!Ids \cup {0} /\ (r.of # 0 => D!Named(r.of) = r.of)
  BY <1>5, <1>6 DEF D!Named, D!None
<1>8. task.version \in Nat /\ r.shown.task <= task.version
  BY <1>1, <1>4 DEF RowsFit, TaskOfScreen, Seen
<1> DEFINE q == D!Resolved(r)
<1>9. D!Named(r.of) \in Nat
  BY <1>1, <1>7, IdsAreNumbers
<1>10. /\ q \in Request /\ q.step = "resolved"
       /\ q.target = [task |-> task.version, date |-> D!Named(r.of)]
       /\ q.kind = r.kind /\ q.of = r.of /\ q.version = r.version /\ q.shown = r.shown
       /\ q.answer = r.answer
  BY <1>8, <1>9, ResolvedFits
<1>11. requests' = [requests EXCEPT ![i] = q]
  BY <1>2 DEF D!Resolves
<1> HIDE DEF q
<1>12. Asks(q)
  BY <1>4, <1>10 DEF Asks
<1>13. Aims(q)
  BY <1>7, <1>8, <1>10 DEF Aims
<1>14. Held(q)
  BY <1>4, <1>10, <1>12, <1>13 DEF Held
<1>15. PICK p \in Request : p = q
  BY <1>10
<1>16. Held(p)'
  BY <1>1, <1>14, <1>15, HeldStays
<1> QED BY <1>1, <1>11, <1>15, <1>16, OneRequest

(* The server checks a request against the rows (web-tasks.service).        *)
LEMMA ValidatesKeeps ==
  ASSUME ScreensInv, NEW i \in D!Slots, D!Validates(i)
  PROVE  ScreensInv'
<1>1. RowsFit /\ RowsMove /\ view' = view
  BY RowsStay DEF ScreensInv, D!Validates
<1>2. PICK r \in Request : r = requests[i]
  BY DEF ScreensInv
<1>3. Held(r) /\ r.step = "resolved"
  BY <1>2 DEF ScreensInv, D!Validates
<1>4. Asks(r) /\ Aims(r) /\ r.answer = "none"
  BY <1>3 DEF Held
<1>5. CASE D!Ends(i, "rule")
  BY <1>1, <1>2, <1>3, <1>5, EndsFits DEF Answers
<1>6. CASE D!Ends(i, "conflict") /\ ~D!IsFresh(r)
  <2>1. r.kind # "moveSeries" => D!Moved(r)
    BY <1>1, <1>4, <1>6, StaleHasMoved
  <2> QED BY <1>1, <1>2, <1>3, <1>6, <2>1, EndsFits DEF Answers
<1>7. CASE requests' = [requests EXCEPT ![i].step = "validated"]
  <2> DEFINE q == [r EXCEPT !.step = "validated"]
  <2>1. /\ q \in Request /\ q.step = "validated"
        /\ q.kind = r.kind /\ q.of = r.of /\ q.version = r.version /\ q.shown = r.shown
        /\ q.answer = r.answer /\ q.target = r.target
    BY DEF Request
  <2>2. requests' = [requests EXCEPT ![i] = q]
    BY <1>2, <1>7
  <2> HIDE DEF q
  <2>3. Asks(q) /\ Aims(q)
    BY <1>4, <2>1 DEF Asks, Aims
  <2>4. Held(q)
    BY <1>4, <2>1, <2>3 DEF Held
  <2>5. PICK p \in Request : p = q
    BY <2>1
  <2>6. Held(p)'
    BY <1>1, <2>4, <2>5, HeldStays
  <2> QED BY <1>1, <2>2, <2>5, <2>6, OneRequest
<1> QED BY <1>2, <1>5, <1>6, <1>7 DEF D!Validates

(* What a validated request writes is a write like any other.                *)
LEMMA RequestWrites ==
  ASSUME ScreensInv, NEW i \in D!Slots, requests[i].step = "validated",
         D!Writes(requests[i].kind, requests[i].target.date), scenario' = scenario
  PROVE  RowsMove
<1>1. PICK r \in Request : r = requests[i]
  BY DEF ScreensInv
<1>2. Held(r) /\ r.step = "validated" /\ RowsFit
  BY <1>1 DEF ScreensInv
<1>3. r.kind \in D!Kinds /\ r.target.date \in D!Ids \cup {0}
  BY <1>2 DEF Held, Asks, Aims
<1> QED BY <1>1, <1>2, <1>3, WritesMove

(* The server writes, or finds the row moved under the lock.                *)
LEMMA AppliesKeeps ==
  ASSUME ScreensInv, NEW i \in D!Slots, D!Applies(i)
  PROVE  ScreensInv'
<1>1. RowsFit /\ view' = view /\ scenario' = scenario /\ requests[i].step = "validated"
  BY DEF ScreensInv, D!Applies
<1>2. PICK r \in Request : r = requests[i]
  BY DEF ScreensInv
<1>3. Held(r) /\ Asks(r) /\ Aims(r)
  BY <1>1, <1>2 DEF ScreensInv, Held
<1>4. CASE D!Writes(r.kind, r.target.date) /\ D!Ends(i, "done")
  <2>1. RowsMove
    BY <1>1, <1>2, <1>4, RequestWrites
  <2> QED BY <1>1, <1>4, <2>1, EndsFits DEF Answers
<1>5. CASE /\ D!Ends(i, IF D!StillFresh(r) THEN "rule" ELSE "conflict")
           /\ UNCHANGED <<task, dates>>
  <2>1. RowsMove
    BY <1>1, <1>5, RowsStay
  <2>2. CASE D!StillFresh(r)
    BY <1>1, <1>5, <2>1, <2>2, EndsFits DEF Answers
  <2>3. CASE ~D!StillFresh(r)
    <3>1. r.kind # "moveSeries" => D!Moved(r)
      BY <1>1, <1>3, <2>3, StaleHasMoved
    <3> QED BY <1>1, <1>2, <1>5, <2>1, <2>3, <3>1, EndsFits DEF Answers
  <2> QED BY <2>2, <2>3
<1> QED BY <1>2, <1>4, <1>5 DEF D!Applies

(* A connection that breaks leaves the write, or not.                       *)
LEMMA ConnectionBreaksKeeps ==
  ASSUME ScreensInv, NEW i \in D!Slots, D!ConnectionBreaks(i)
  PROVE  ScreensInv'
<1>1. RowsFit /\ view' = view /\ scenario' = scenario /\ requests[i].step = "validated"
  BY DEF ScreensInv, D!ConnectionBreaks
<1>2. RowsMove
  <2>1. CASE D!Writes(requests[i].kind, requests[i].target.date)
    BY <1>1, <2>1, RequestWrites
  <2>2. CASE UNCHANGED <<task, dates>>
    BY <1>1, <2>2, RowsStay
  <2> QED BY <2>1, <2>2 DEF D!ConnectionBreaks
<1>3. D!Ends(i, "unavailable")
  BY DEF D!ConnectionBreaks
<1> QED BY <1>1, <1>2, <1>3, EndsFits DEF Answers

(* The answer reaches the screen.                                           *)
LEMMA ReceivesKeeps ==
  ASSUME ScreensInv, NEW i \in D!Slots, D!Receives(i)
  PROVE  ScreensInv'
<1>1. RowsFit /\ RowsMove /\ view' = view
  BY RowsStay DEF ScreensInv, D!Receives
<1>2. D!Unsent \in Request /\ Held(D!Unsent)
  BY DEF D!Unsent, D!None, Request, Held
<1>3. PICK q \in Request : q = D!Unsent
  BY <1>2
<1>4. Held(q)'
  BY <1>1, <1>2, <1>3, HeldStays
<1> QED BY <1>1, <1>3, <1>4, OneRequest DEF D!Receives

(* What others write: the chat, and the loops that open and close dates.     *)
LEMMA OthersKeep ==
  ASSUME ScreensInv,
         \/ \E kind \in D!Kinds, d \in D!Dates \cup {0} : D!ChatWrites(kind, d)
         \/ D!Refills
         \/ \E d \in D!Dates : D!Opens(d) \/ D!Elapses(d)
  PROVE  ScreensInv'
<1>1. RowsFit
  BY DEF ScreensInv
<1>2. D!Dates \subseteq D!Ids
  BY <1>1, NamedFits
<1>3. {"open", "elapsed"} \subseteq D!DateStatuses \ {"none"} /\ "closed" \in D!TaskStatuses
  BY DEF D!DateStatuses, D!TaskStatuses
<1>4. ASSUME NEW kind \in D!Kinds, NEW d \in D!Dates \cup {0}, D!ChatWrites(kind, d)
      PROVE  RowsMove
  BY <1>1, <1>2, <1>4, WritesMove DEF D!ChatWrites
<1>5. Grown(task)
  BY <1>1, <1>3, TaskMoves
<1>6. ASSUME D!Refills PROVE RowsMove
  <2>1. Grown(task')
    BY <1>5, <1>6 DEF D!Refills
  <2> QED BY <1>1, <1>6, <2>1, GiveDateMoves DEF D!Refills
<1>7. ASSUME NEW d \in D!Dates, D!Opens(d) PROVE RowsMove
  <2>1. Grown(task')
    BY <1>5, <1>7 DEF D!Opens
  <2> QED BY <1>1, <1>3, <1>7, <2>1, DateToMoves DEF D!Opens
<1>8. ASSUME NEW d \in D!Dates, D!Elapses(d) PROVE RowsMove
  BY <1>1, <1>3, <1>8, ClosesMoves DEF D!Elapses
<1>9. RowsMove /\ view' = view /\ UNCHANGED requests
  BY <1>4, <1>6, <1>7, <1>8 DEF D!ChatWrites, D!Refills, D!Opens, D!Elapses
<1> QED BY <1>9, ViewStays, NoRequest

(* Every step keeps what the screens keep.                                  *)
LEMMA ScreensStep ==
  ASSUME ScreensInv, D!Next
  PROVE  ScreensInv'
<1>1. CASE \E kind \in D!Kinds : D!Taps(kind)
  BY <1>1, TapsKeeps
<1>2. CASE D!Loads
  BY <1>2, LoadsKeeps
<1>3. CASE \E i \in D!Slots : \/ D!Resolves(i) \/ D!Validates(i) \/ D!Applies(i)
                             \/ D!ConnectionBreaks(i) \/ D!Receives(i)
  BY <1>3, ResolvesKeeps, ValidatesKeeps, AppliesKeeps, ConnectionBreaksKeeps, ReceivesKeeps
<1>4. CASE \/ \E kind \in D!Kinds, d \in D!Dates \cup {0} : D!ChatWrites(kind, d)
           \/ D!Refills
           \/ \E d \in D!Dates : D!Opens(d) \/ D!Elapses(d)
  BY <1>4, OthersKeep
<1> QED BY <1>1, <1>2, <1>3, <1>4 DEF D!Next, D!None

(* A step of another world keeps it.                                        *)
LEMMA ScreensStay ==
  ASSUME ScreensInv, UNCHANGED D!vars
  PROVE  ScreensInv'
BY DEF ScreensInv, D!vars, RowsFit, Seen, Held, Asks, Aims, D!Moved, D!Ids, D!Slots, D!Dates

(* A conflict is only answered when something did move.                     *)
LEMMA ConflictsMeanMoved ==
  ASSUME ScreensInv
  PROVE  D!ConflictMeansMoved
<1> SUFFICES ASSUME NEW i \in D!Slots, requests[i].answer = "conflict",
                    requests[i].kind # "moveSeries"
             PROVE  D!Moved(requests[i])
  BY DEF D!ConflictMeansMoved
<1>1. PICK r \in Request : r = requests[i]
  BY DEF ScreensInv
<1>2. Held(r)
  BY <1>1 DEF ScreensInv
<1> QED BY <1>1, <1>2 DEF Held

(* Every variable of the screens has its type.                              *)
LEMMA ScreensTyped ==
  ASSUME ScreensInv
  PROVE  D!TypeOK
<1>1. /\ scenario \in ScreenScenarios
      /\ task \in [status : D!TaskStatuses, version : Nat, dated : BOOLEAN, box : BOOLEAN]
      /\ dates \in [D!Ids -> [status : D!DateStatuses, version : Nat]]
  BY DEF ScreensInv, RowsFit, TaskOfScreen, DateRow
<1>2. view.date \in D!Dates \cup {D!None}
  BY DEF ScreensInv, D!None
<1>3. \A i \in D!Slots : requests[i] \in Request
  BY DEF ScreensInv
<1>4. \A i \in D!Slots :
        /\ requests[i].kind \in D!Kinds \cup {"none"}
        /\ requests[i].step \in {"none", "sent", "resolved", "validated", "answered"}
  BY <1>3 DEF Request
<1> QED BY <1>1, <1>2, <1>4 DEF D!TypeOK

(* A request still fresh writes what the screen showed.                      *)
LEMMA FreshWrites ==
  ASSUME ScreensInv, NEW i \in D!Slots, requests[i].step = "validated",
         D!StillFresh(requests[i]), D!Writes(requests[i].kind, requests[i].target.date),
         scenario' = scenario, ~D!Careless(requests[i])
  PROVE  D!AsShown(requests[i])
<1>1. PICK r \in Request : r = requests[i]
  BY DEF ScreensInv
<1>2. Held(r) /\ r.step = "validated" /\ RowsFit
  BY <1>1 DEF ScreensInv
<1>3. Asks(r) /\ Aims(r) /\ r.kind \in D!Kinds /\ r.target.date \in D!Ids \cup {0}
  BY <1>2 DEF Held, Asks, Aims
<1>4. ~D!Careless(r) /\ D!StillFresh(r)
  BY <1>1
<1>5. r.kind \in D!OfState \cup D!Moves => r.shown.date # 0
  BY <1>3, <1>4 DEF Asks, D!Careless, D!None
<1>6. ASSUME r.kind \in D!OfTask \cup D!OfRepeat \/ r.shown.date = 0
      PROVE  r.shown.task = task.version
  <2>1. r.kind \in D!OfTask \cup {"endSeries"}
    BY <1>3, <1>4, <1>5, <1>6 DEF D!Kinds, D!OfRepeat, D!Careless
  <2>2. D!AddressesTask(r) /\ r.version = r.shown.task
    BY <1>3, <2>1 DEF D!AddressesTask, D!OfRepeat, Asks
  <2> QED BY <1>4, <2>2 DEF D!StillFresh
<1>7. ASSUME r.kind \in D!OfState \cup D!Moves,
             NEW d \in D!Ids, dates'[d] # dates[d]
      PROVE  d = r.shown.date /\ dates[d].version = r.shown.version
  <2>1. /\ r.kind \notin D!OfTask \cup D!OfRepeat /\ r.kind # "done"
        /\ r.shown.date # 0
    BY <1>4, <1>5, <1>7 DEF D!OfTask, D!OfState, D!OfRepeat, D!Moves, D!Careless
  <2>2. r.of = r.shown.date /\ r.target.date = r.shown.date /\ r.version = r.shown.version
    BY <1>3, <2>1 DEF Asks, Aims, D!OfRepeat
  <2>3. dates[r.target.date].version = r.version
    BY <1>4, <2>1, <2>2 DEF D!StillFresh, D!AddressesTask, D!None
  <2>4. d = r.target.date
    <3>1. D!Writes(r.kind, r.target.date)
      BY <1>1
    <3>2. r.kind \in (D!OfState \cup D!Moves) \ {"done"} /\ r.target.date # 0
      BY <1>7, <2>1, <2>2
    <3> QED BY <1>2, <1>3, <1>7, <3>1, <3>2, WritesMove
  <2> QED BY <2>2, <2>3, <2>4
<1> QED BY <1>1, <1>6, <1>7 DEF D!AsShown, D!None

(* A step that answers a validated request is its transaction.               *)
LEMMA WritingIsFresh ==
  ASSUME ScreensInv, D!Next, NEW i \in D!Slots, D!Writing(i)
  PROVE  /\ D!StillFresh(requests[i]) /\ scenario' = scenario
         /\ D!Writes(requests[i].kind, requests[i].target.date)
<1>1. requests \in [D!Slots -> Request] /\ RowsFit
  BY DEF ScreensInv
<1>2. ASSUME NEW kind \in D!Kinds, D!Taps(kind) PROVE FALSE
  BY <1>2 DEF D!Taps, D!Writing
<1>3. ASSUME NEW kind \in D!Kinds, NEW d \in D!Dates \cup {0}, D!ChatWrites(kind, d) PROVE FALSE
  BY <1>3 DEF D!ChatWrites, D!Writing
<1>4. ASSUME NEW d \in D!Dates, D!Opens(d) \/ D!Elapses(d) PROVE FALSE
  BY <1>4 DEF D!Opens, D!Elapses, D!Writing
<1>5. ~D!Loads /\ ~D!Refills
  BY DEF D!Loads, D!Refills, D!Writing
<1>6. ASSUME NEW j \in D!Slots,
             D!Resolves(j) \/ D!Validates(j) \/ D!Receives(j)
      PROVE  FALSE
  BY <1>6 DEF D!Resolves, D!Validates, D!Receives, D!Writing
<1>7. ASSUME NEW j \in D!Slots, D!Applies(j) \/ D!ConnectionBreaks(j)
      PROVE  D!StillFresh(requests[i]) /\ scenario' = scenario
             /\ D!Writes(requests[i].kind, requests[i].target.date)
  <2>1. \E a \in Answers : D!Ends(j, a)
    BY <1>7 DEF D!Applies, D!ConnectionBreaks, Answers
  <2>2. j = i
    BY <1>1, <2>1 DEF D!Ends, D!Writing
  <2> QED BY <1>7, <2>2 DEF D!Applies, D!ConnectionBreaks, D!Writing
<1> QED BY <1>2, <1>3, <1>4, <1>5, <1>6, <1>7 DEF D!Next, D!None

(* Every write of a task's screen lands on what the screen showed.          *)
LEMMA WritesLand ==
  ASSUME ScreensInv, D!Next
  PROVE  D!LandsAsShown
<1> SUFFICES ASSUME NEW i \in D!Slots, D!Writing(i), ~D!Careless(requests[i])
             PROVE  D!AsShown(requests[i])
  BY DEF D!LandsAsShown
<1>1. requests[i].step = "validated"
  BY DEF D!Writing
<1> QED BY <1>1, WritingIsFresh, FreshWrites

------------------------------------------------------------------------------
(* The week's page.                                                         *)

(* The rows of the week's page and the requests of its devices.             *)
TaskIds == DOMAIN scenario.tasks
PoolRequest ==
  [step: {"none", "toggle", "take"}, verb: {"none", "pick", "release", "take"},
   task: TaskIds \cup {P!Nobody}, week: Int, day: Nat, read: Nat, version: Nat,
   dateVersion: Nat]

(* A request to put a row on today has read the row: while the row is open   *)
(* and its date is as it was read, so is the task.                           *)
Read(r, row) ==
  r.step = "take" /\ r.dateVersion # 0 =>
    /\ r.dateVersion <= row.dateVersion
    /\ row.status = "active" /\ r.dateVersion = row.dateVersion => r.version = row.version
(* What is known of a request of the week's page.                           *)
HeldPool(r) ==
  /\ r.step \in {"take", "toggle"} => r.task \in TaskIds
  /\ r.step = "take" => Read(r, tasks[r.task])

(* What the week's page keeps.                                              *)
WeekInv ==
  /\ scenario \in WeekScenarios
  /\ today \in Nat \ {0}
  /\ tasks \in [TaskIds -> P!TaskRow]
  /\ requests \in [scenario.devices -> PoolRequest]
  /\ \A d \in scenario.devices : HeldPool(requests[d])
  /\ journal.task # P!Nobody => journal.task \in TaskIds /\ journal.before \in P!TaskRow

(* A row of the pool with one column changed.                                *)
LEMMA RowColumns ==
  ASSUME NEW row \in P!TaskRow, NEW b \in BOOLEAN, NEW n \in Nat, NEW k \in Int
  PROVE  /\ [row EXCEPT !.dateless = b] \in P!TaskRow /\ [row EXCEPT !.late = b] \in P!TaskRow
         /\ [row EXCEPT !.day = n] \in P!TaskRow /\ [row EXCEPT !.version = n] \in P!TaskRow
         /\ [row EXCEPT !.dateVersion = n] \in P!TaskRow /\ [row EXCEPT !.pick = k] \in P!TaskRow
         /\ [row EXCEPT !.status = "closed"] \in P!TaskRow
<1>1. row = [status |-> row.status, dateless |-> row.dateless, late |-> row.late,
             day |-> row.day, pick |-> row.pick, version |-> row.version,
             dateVersion |-> row.dateVersion]
  BY DEF P!TaskRow
<1>2. /\ row.status \in {"active", "closed"} /\ row.dateless \in BOOLEAN /\ row.late \in BOOLEAN
      /\ row.day \in Nat /\ row.pick \in Int /\ row.version \in Nat /\ row.dateVersion \in Nat
  BY DEF P!TaskRow
<1> QED BY <1>1, <1>2 DEF P!TaskRow

(* A row put on another day loses its mark and counts its versions up.      *)
LEMMA MovedRow ==
  ASSUME NEW row \in P!TaskRow, NEW day \in Nat
  PROVE  /\ P!MovedTo(row, day) \in P!TaskRow
         /\ P!MovedTo(row, day).pick \in {row.pick, 0}
         /\ P!MovedTo(row, day).version = row.version + 1
         /\ P!MovedTo(row, day).dateVersion = row.dateVersion + 1
<1>1. /\ row.day \in Nat /\ row.pick \in Int /\ row.version \in Nat /\ row.dateVersion \in Nat
  BY DEF P!TaskRow
<1> DEFINE a == [row EXCEPT !.dateless = FALSE]
           b == [a EXCEPT !.late = FALSE]
           c == [b EXCEPT !.day = day]
           d == [c EXCEPT !.version = row.version + 1]
           e == [d EXCEPT !.dateVersion = row.dateVersion + 1]
           f == [e EXCEPT !.pick = IF row.dateless THEN 0 ELSE row.pick]
<1>2. a \in P!TaskRow
  BY <1>1, RowColumns, Zenon
<1>3. b \in P!TaskRow
  <2> HIDE DEF a
  <2> QED BY <1>2, <1>1, RowColumns, Zenon
<1>4. c \in P!TaskRow
  <2> HIDE DEF b
  <2> QED BY <1>1, <1>3, RowColumns, Zenon
<1>5. d \in P!TaskRow
  <2>1. row.version + 1 \in Nat
    BY <1>1
  <2> HIDE DEF c
  <2> QED BY <1>1, <1>4, <2>1, RowColumns, Zenon
<1>6. e \in P!TaskRow
  <2>1. row.dateVersion + 1 \in Nat
    BY <1>1
  <2> HIDE DEF d
  <2> QED BY <1>1, <1>5, <2>1, RowColumns, Zenon
<1>7. f \in P!TaskRow
  <2>1. (IF row.dateless THEN 0 ELSE row.pick) \in Int
    BY <1>1
  <2> HIDE DEF e
  <2> QED BY <1>1, <1>6, <2>1, RowColumns, Zenon
<1>8. f = P!MovedTo(row, day)
  BY DEF P!MovedTo, P!None
<1>9. f.pick \in {row.pick, 0} /\ f.dateVersion = e.dateVersion /\ f.version = e.version
  BY <1>6 DEF P!TaskRow
<1>10. e.dateVersion = row.dateVersion + 1 /\ e.version = d.version
  BY <1>5 DEF P!TaskRow
<1>11. d.version = row.version + 1
  BY <1>4 DEF P!TaskRow
<1> HIDE DEF f, e, d
<1> QED BY <1>7, <1>8, <1>9, <1>10, <1>11

(* Undo puts a row back, at a newer version, and leaves the mark.           *)
LEMMA BackRow ==
  ASSUME NEW old \in P!TaskRow, NEW row \in P!TaskRow
  PROVE  /\ P!PutBack(old, row) \in P!TaskRow
         /\ P!PutBack(old, row).pick = row.pick
         /\ P!PutBack(old, row).dateVersion = row.dateVersion + 1
<1>1. row.pick \in Int /\ row.version + 1 \in Nat /\ row.dateVersion + 1 \in Nat
  BY DEF P!TaskRow
<1> DEFINE a == [old EXCEPT !.version = row.version + 1]
           b == [a EXCEPT !.dateVersion = row.dateVersion + 1]
           c == [b EXCEPT !.pick = row.pick]
<1>2. a \in P!TaskRow
  BY <1>1, RowColumns, Zenon
<1>3. b \in P!TaskRow
  <2> HIDE DEF a
  <2> QED BY <1>1, <1>2, RowColumns, Zenon
<1>4. c \in P!TaskRow
  <2> HIDE DEF b
  <2> QED BY <1>1, <1>3, RowColumns, Zenon
<1>5. c = P!PutBack(old, row)
  BY DEF P!PutBack
<1>6. c.pick = row.pick /\ c.dateVersion = b.dateVersion
  BY <1>3 DEF P!TaskRow
<1>7. b.dateVersion = row.dateVersion + 1
  BY <1>2 DEF P!TaskRow
<1> HIDE DEF b, c
<1> QED BY <1>4, <1>5, <1>6, <1>7

(* What a step does to the rows: the request that has read one is still held. *)
RowsOfPoolMove ==
  /\ scenario' = scenario
  /\ tasks' \in [TaskIds -> P!TaskRow]
  /\ \A t \in TaskIds : \A r \in PoolRequest : Read(r, tasks[t]) => Read(r, tasks'[t])

(* The week's page starts with what it keeps.                               *)
LEMMA WeekStart == P!Init => WeekInv
<1> SUFFICES ASSUME P!Init PROVE WeekInv
  OBVIOUS
<1>1. scenario \in WeekScenarios /\ scenario.first \in Nat \ {0} /\ today = scenario.first
  BY WebAssumption DEF WebAssumption, P!Init
<1> DEFINE row(t) == [status |-> "active", dateless |-> scenario.tasks[t] = "dateless",
                      late |-> scenario.tasks[t] = "missed",
                      day |-> IF scenario.tasks[t] = "missed" THEN today - 1 ELSE 0,
                      pick |-> 0, version |-> 1, dateVersion |-> 1]
<1>2. tasks = [t \in TaskIds |-> row(t)]
  BY DEF P!Init, TaskIds, P!None
<1>3. \A t : row(t) \in P!TaskRow
  BY <1>1 DEF P!TaskRow
<1> HIDE DEF row
<1>4. tasks \in [TaskIds -> P!TaskRow]
  BY <1>2, <1>3
<1>5. P!Resting \in PoolRequest /\ HeldPool(P!Resting)
  BY DEF P!Resting, P!None, PoolRequest, HeldPool
<1>6. requests = [d \in scenario.devices |-> P!Resting]
  BY DEF P!Init
<1>7. journal.task = P!Nobody
  BY DEF P!Init, P!NoJournal
<1> QED BY <1>1, <1>4, <1>5, <1>6, <1>7 DEF WeekInv

(* Rows that are left alone.                                                *)
LEMMA PoolStays ==
  ASSUME WeekInv, UNCHANGED <<scenario, tasks>>
  PROVE  RowsOfPoolMove
BY DEF WeekInv, RowsOfPoolMove, TaskIds

(* One row is written, and what was read of it stays true.                   *)
LEMMA OneRow ==
  ASSUME WeekInv, scenario' = scenario, NEW t, NEW row,
         tasks' = [tasks EXCEPT ![t] = row],
         t \in TaskIds => /\ row \in P!TaskRow
                          /\ \A r \in PoolRequest : Read(r, tasks[t]) => Read(r, row)
  PROVE  RowsOfPoolMove
<1>1. tasks \in [TaskIds -> P!TaskRow]
  BY DEF WeekInv
<1>2. /\ tasks' \in [TaskIds -> P!TaskRow]
      /\ \A u \in TaskIds : tasks'[u] = IF u = t THEN row ELSE tasks[u]
  BY <1>1
<1> QED BY <1>2 DEF RowsOfPoolMove

(* What was read of a row stays true of a newer one.                        *)
LEMMA NewerRow ==
  ASSUME NEW row \in P!TaskRow, NEW new \in P!TaskRow,
         \/ row.dateVersion < new.dateVersion
         \/ row.dateVersion = new.dateVersion /\ new.status # "active"
         \/ /\ row.dateVersion = new.dateVersion /\ new.status = row.status
            /\ new.version = row.version,
         NEW r \in PoolRequest, Read(r, row)
  PROVE  Read(r, new)
<1>1. r.dateVersion \in Nat /\ row.dateVersion \in Nat /\ new.dateVersion \in Nat
  BY DEF P!TaskRow, PoolRequest
<1> QED BY <1>1 DEF Read

(* The request of one device is written, or none.                            *)
LEMMA OneDevice ==
  ASSUME WeekInv, RowsOfPoolMove, today' \in Nat \ {0},
         journal'.task # P!Nobody => journal'.task \in TaskIds /\ journal'.before \in P!TaskRow,
         NEW d \in scenario.devices, NEW q \in PoolRequest,
         requests' = [requests EXCEPT ![d] = q],
         q.step \in {"take", "toggle"} => q.task \in TaskIds,
         q.step = "take" => Read(q, tasks[q.task])
  PROVE  WeekInv'
<1>1. /\ TaskIds' = TaskIds /\ PoolRequest' = PoolRequest
      /\ requests \in [scenario.devices -> PoolRequest]
  BY DEF WeekInv, RowsOfPoolMove, TaskIds, PoolRequest
<1>2. /\ requests' \in [scenario.devices -> PoolRequest]
      /\ \A e \in scenario.devices : requests'[e] = IF e = d THEN q ELSE requests[e]
  BY <1>1
<1>3. ASSUME NEW e \in scenario.devices PROVE HeldPool(requests[e])'
  <2>1. PICK r \in PoolRequest : r = requests'[e]
    BY <1>2
  <2>2. r.step \in {"take", "toggle"} => r.task \in TaskIds
    BY <1>1, <1>2, <2>1 DEF WeekInv, HeldPool
  <2>3. r.step = "take" => Read(r, tasks[r.task])
    BY <1>1, <1>2, <2>1 DEF WeekInv, HeldPool
  <2>4. r.step = "take" => Read(r, tasks'[r.task])
    BY <2>2, <2>3 DEF RowsOfPoolMove
  <2> QED BY <1>1, <2>1, <2>2, <2>4 DEF HeldPool, Read
<1> QED BY <1>1, <1>2, <1>3 DEF WeekInv, RowsOfPoolMove

(* No request is written.                                                   *)
LEMMA NoDevice ==
  ASSUME WeekInv, RowsOfPoolMove, today' \in Nat \ {0}, requests' = requests,
         journal'.task # P!Nobody => journal'.task \in TaskIds /\ journal'.before \in P!TaskRow
  PROVE  WeekInv'
<1>1. /\ TaskIds' = TaskIds /\ PoolRequest' = PoolRequest
      /\ requests \in [scenario.devices -> PoolRequest]
  BY DEF WeekInv, RowsOfPoolMove, TaskIds, PoolRequest
<1>2. ASSUME NEW e \in scenario.devices PROVE HeldPool(requests[e])'
  <2>1. PICK r \in PoolRequest : r = requests[e]
    BY <1>1
  <2>2. r.step \in {"take", "toggle"} => r.task \in TaskIds
    BY <2>1 DEF WeekInv, HeldPool
  <2>3. r.step = "take" => Read(r, tasks[r.task])
    BY <2>1 DEF WeekInv, HeldPool
  <2>4. r.step = "take" => Read(r, tasks'[r.task])
    BY <2>2, <2>3 DEF RowsOfPoolMove
  <2> QED BY <1>1, <2>1, <2>2, <2>4 DEF HeldPool, Read
<1> QED BY <1>1, <1>2 DEF WeekInv, RowsOfPoolMove

(* A day is of a week.                                                      *)
LEMMA WeekOfDay ==
  ASSUME NEW day \in Nat \ {0}
  PROVE  P!TargetWeek(day) \in Nat \ {0}
<1>1. (day - 1) % 7 \in 0 .. 6 /\ (day - 1) % 7 <= day - 1
  OBVIOUS
<1>2. CASE P!Weekday(day) = 7
  <2>1. (day + 1 - 1) % 7 \in 0 .. 6 /\ (day + 1 - 1) % 7 <= day
    OBVIOUS
  <2> QED BY <1>2, <2>1 DEF P!TargetWeek, P!MondayOf, P!Weekday, P!DaysAWeek
<1>3. CASE P!Weekday(day) # 7
  BY <1>1, <1>3 DEF P!TargetWeek, P!MondayOf, P!Weekday, P!DaysAWeek
<1> QED BY <1>2, <1>3

(* The pool and the taken places are rows of the page.                      *)
LEMMA PoolIsOfTasks ==
  ASSUME WeekInv, NEW W
  PROVE  /\ P!Pool \subseteq TaskIds /\ IsFiniteSet(P!Taken(W)) /\ P!Taken(W) \subseteq TaskIds
         /\ DOMAIN tasks = TaskIds /\ DOMAIN requests = scenario.devices
         /\ Cardinality(P!Taken(W)) \in Nat
<1>1. DOMAIN tasks = TaskIds /\ DOMAIN requests = scenario.devices
  BY DEF WeekInv
<1>2. P!Taken(W) \subseteq P!Pool /\ P!Pool \subseteq TaskIds
  BY <1>1 DEF P!Taken, P!Pool
<1>3. IsFiniteSet(TaskIds)
  BY WebAssumption DEF WebAssumption, WeekInv, TaskIds
<1>4. IsFiniteSet(P!Taken(W))
  BY <1>2, <1>3, FS_Subset
<1> QED BY <1>1, <1>2, <1>4, FS_CardinalityType

(* The count of the module is the count of the library.                     *)
LEMMA SameCount ==
  ASSUME NEW X
  PROVE  P!Cardinality(X) = Cardinality(X)
BY DEF P!Cardinality, Cardinality

(* A device at rest.                                                        *)
LEMMA RestingFits == P!Resting \in PoolRequest /\ P!Resting.step = "none"
BY DEF P!Resting, P!None, PoolRequest

(* A tap on a mark is sent.                                                 *)
LEMMA ReadsPoolKeeps ==
  ASSUME WeekInv, NEW d \in scenario.devices, NEW t \in TaskIds,
         NEW verb \in {"pick", "release"}, P!ReadsPool(d, t, verb)
  PROVE  WeekInv'
<1> DEFINE W == P!TargetWeek(today)
           q == P!Toggling(t, verb)
<1>1. W \in Int /\ Cardinality(P!Taken(W)) \in Nat
  BY WeekOfDay, PoolIsOfTasks DEF WeekInv
<1>2. q = [step |-> "toggle", verb |-> verb, task |-> t, week |-> W, day |-> 0,
           read |-> Cardinality(P!Taken(W)), version |-> 0, dateVersion |-> 0]
  BY SameCount, Zenon DEF P!Toggling, P!None
<1>3. requests' = [requests EXCEPT ![d] = q]
  BY DEF P!ReadsPool
<1> HIDE DEF W, q
<1>4. q \in PoolRequest
  BY <1>1, <1>2 DEF PoolRequest
<1>5. PICK r \in PoolRequest : r = q
  BY <1>4
<1>6. r.step = "toggle" /\ r.task \in TaskIds
  BY <1>2, <1>5
<1>7. RowsOfPoolMove
  BY PoolStays DEF P!ReadsPool
<1>8. today' \in Nat \ {0} /\ journal' = journal
  BY DEF WeekInv, P!ReadsPool
<1> QED BY <1>3, <1>5, <1>6, <1>7, <1>8, OneDevice DEF WeekInv

(* A row is read before it is put on today.                                 *)
LEMMA TakeReadsKeeps ==
  ASSUME WeekInv, NEW d \in scenario.devices, NEW t \in TaskIds, P!TakeReads(d, t)
  PROVE  WeekInv'
<1> DEFINE at == IF tasks[t].dateless THEN 0 ELSE tasks[t].dateVersion
           q == P!Taking(t)
<1>1. tasks[t].version \in Nat /\ tasks[t].dateVersion \in Nat /\ today \in Nat
  BY DEF WeekInv, P!TaskRow
<1>2. q = [step |-> "take", verb |-> "take", task |-> t, week |-> 0, day |-> today,
           read |-> 0, version |-> tasks[t].version, dateVersion |-> at]
  BY DEF P!Taking, P!None
<1>3. requests' = [requests EXCEPT ![d] = q]
  BY DEF P!TakeReads
<1>4. at \in Nat /\ at \in {0, tasks[t].dateVersion}
  BY <1>1
<1> HIDE DEF q, at
<1>5. q \in PoolRequest
  BY <1>1, <1>2, <1>4 DEF PoolRequest
<1>6. PICK r \in PoolRequest : r = q
  BY <1>5
<1>7. r.task = t /\ Read(r, tasks[t])
  BY <1>1, <1>2, <1>4, <1>6 DEF Read
<1>8. RowsOfPoolMove
  BY PoolStays DEF P!TakeReads
<1>9. today' \in Nat \ {0} /\ journal' = journal
  BY DEF WeekInv, P!TakeReads
<1>10. r.task \in TaskIds /\ Read(r, tasks[r.task])
  BY <1>7
<1> QED BY <1>3, <1>6, <1>8, <1>9, <1>10, OneDevice DEF WeekInv

(* What a tap writes: a mark, and nothing else of the row.                   *)
LEMMA TogglesMoves ==
  ASSUME WeekInv, NEW d \in scenario.devices, P!Toggles(d)
  PROVE  RowsOfPoolMove
<1> DEFINE r == requests[d]
<1>1. scenario' = scenario
  BY DEF P!Toggles
<1>2. CASE tasks' = tasks
  BY <1>1, <1>2, PoolStays
<1>3. CASE r.task \in P!Pool /\ \E k \in Int : tasks' = [tasks EXCEPT ![r.task].pick = k]
  <2>1. PICK k \in Int : tasks' = [tasks EXCEPT ![r.task].pick = k]
    BY <1>3
  <2>2. r.task \in TaskIds /\ tasks[r.task] \in P!TaskRow
    BY <1>3, PoolIsOfTasks DEF WeekInv
  <2> DEFINE new == [tasks[r.task] EXCEPT !.pick = k]
  <2>3. new \in P!TaskRow
    BY <2>2, RowColumns, Zenon
  <2>4. /\ new.dateVersion = tasks[r.task].dateVersion /\ new.status = tasks[r.task].status
        /\ new.version = tasks[r.task].version
    BY <2>2 DEF P!TaskRow
  <2>5. tasks' = [tasks EXCEPT ![r.task] = new]
    BY <2>1
  <2> HIDE DEF new
  <2>6. \A p \in PoolRequest : Read(p, tasks[r.task]) => Read(p, new)
    BY <2>2, <2>3, <2>4, NewerRow
  <2> QED BY <1>1, <2>3, <2>5, <2>6, OneRow
<1>4. r.week \in Int
  BY DEF WeekInv, PoolRequest
<1>5. \/ tasks' = tasks
      \/ /\ r.task \in P!Pool
         /\ \/ tasks' = [tasks EXCEPT ![r.task].pick = 0]
            \/ tasks' = [tasks EXCEPT ![r.task].pick = r.week]
  BY DEF P!Toggles, P!None
<1> QED BY <1>2, <1>3, <1>4, <1>5

(* A tap writes its mark, or finds the week full.                           *)
LEMMA TogglesKeeps ==
  ASSUME WeekInv, NEW d \in scenario.devices, P!Toggles(d)
  PROVE  WeekInv'
<1>1. PICK r \in PoolRequest : r = P!Resting
  BY RestingFits
<1>2. r.step = "none" /\ requests' = [requests EXCEPT ![d] = r]
  BY <1>1, RestingFits DEF P!Toggles
<1>3. today' \in Nat \ {0} /\ journal' = journal
  BY DEF WeekInv, P!Toggles
<1> QED BY <1>2, <1>3, TogglesMoves, OneDevice DEF WeekInv

(* A row is put on today, or has moved.                                     *)
LEMMA TakeAppliesKeeps ==
  ASSUME WeekInv, NEW d \in scenario.devices, P!TakeApplies(d)
  PROVE  WeekInv'
<1> DEFINE t == requests[d].task
           new == P!MovedTo(tasks[t], requests[d].day)
<1>1. PICK r \in PoolRequest : r = P!Resting
  BY RestingFits
<1>2. r.step = "none" /\ requests' = [requests EXCEPT ![d] = r]
  BY <1>1, RestingFits DEF P!TakeApplies
<1>3. t \in TaskIds /\ tasks[t] \in P!TaskRow /\ requests[d].day \in Nat
  BY DEF WeekInv, HeldPool, P!TakeApplies, PoolRequest
<1>4. /\ new \in P!TaskRow /\ tasks[t].dateVersion \in Nat
      /\ new.dateVersion = tasks[t].dateVersion + 1
  BY <1>3, MovedRow DEF P!TaskRow
<1>5. scenario' = scenario /\ today' \in Nat \ {0}
  BY DEF WeekInv, P!TakeApplies
<1>6. \/ tasks' = [tasks EXCEPT ![t] = new] /\ journal'.task = t /\ journal'.before = tasks[t]
      \/ UNCHANGED <<tasks, journal>>
  BY DEF P!TakeApplies
<1> HIDE DEF t, new
<1>7. tasks[t].dateVersion < new.dateVersion
  BY <1>4
<1>8. \A p \in PoolRequest : Read(p, tasks[t]) => Read(p, new)
  BY <1>3, <1>4, <1>7, NewerRow
<1>9. RowsOfPoolMove
  BY <1>4, <1>5, <1>6, <1>8, OneRow, PoolStays
<1>10. journal'.task # P!Nobody => journal'.task \in TaskIds /\ journal'.before \in P!TaskRow
  BY <1>3, <1>6 DEF WeekInv
<1> QED BY <1>2, <1>5, <1>9, <1>10, OneDevice

(* Undo puts the row back.                                                  *)
LEMMA UndoesKeeps ==
  ASSUME WeekInv, P!Undoes
  PROVE  WeekInv'
<1> DEFINE t == journal.task
           new == P!PutBack(journal.before, tasks[t])
<1>1. t \in TaskIds /\ tasks[t] \in P!TaskRow /\ journal.before \in P!TaskRow
  BY DEF WeekInv, P!Undoes
<1>2. /\ new \in P!TaskRow /\ tasks[t].dateVersion \in Nat
      /\ new.dateVersion = tasks[t].dateVersion + 1
  BY <1>1, BackRow DEF P!TaskRow
<1>3. tasks' = [tasks EXCEPT ![t] = new] \/ tasks' = tasks
  BY DEF P!Undoes
<1> HIDE DEF t, new
<1>4. tasks[t].dateVersion < new.dateVersion
  BY <1>2
<1>5. \A p \in PoolRequest : Read(p, tasks[t]) => Read(p, new)
  BY <1>1, <1>2, <1>4, NewerRow
<1>6. scenario' = scenario /\ requests' = requests /\ journal'.task = P!Nobody
      /\ today' \in Nat \ {0}
  BY DEF WeekInv, P!Undoes, P!NoJournal
<1>7. RowsOfPoolMove
  BY <1>2, <1>3, <1>5, <1>6, OneRow, PoolStays
<1> QED BY <1>6, <1>7, NoDevice

(* A row is closed or falls behind.                                         *)
LEMMA ClosesOrFallsKeeps ==
  ASSUME WeekInv, NEW t \in TaskIds, P!Closes(t) \/ P!FallsBehind(t)
  PROVE  WeekInv'
<1>1. tasks[t] \in P!TaskRow /\ tasks[t].version + 1 \in Nat /\ tasks[t].dateVersion + 1 \in Nat
      /\ tasks[t].version \in Nat /\ tasks[t].dateVersion \in Nat /\ tasks[t].pick \in Int
      /\ tasks \in [TaskIds -> P!TaskRow]
  BY DEF WeekInv, P!TaskRow
<1>2. /\ scenario' = scenario /\ requests' = requests /\ journal' = journal
      /\ today' \in Nat \ {0}
  BY DEF WeekInv, P!Closes, P!FallsBehind
<1>3. CASE P!Closes(t)
  <2> DEFINE a == [tasks[t] EXCEPT !.status = "closed"]
             new == [a EXCEPT !.version = tasks[t].version + 1]
  <2>1. a \in P!TaskRow
    BY <1>1, RowColumns, Zenon
  <2>2. a.status = "closed" /\ a.dateVersion = tasks[t].dateVersion
    BY <1>1 DEF P!TaskRow
  <2>3. tasks' = [tasks EXCEPT ![t] = new]
    BY <1>1, <1>3 DEF P!Closes
  <2> HIDE DEF a
  <2>4. new \in P!TaskRow
    BY <1>1, <2>1, RowColumns, Zenon
  <2>5. new.status = "closed" /\ new.dateVersion = tasks[t].dateVersion
    BY <2>1, <2>2 DEF P!TaskRow
  <2> HIDE DEF new
  <2>6. \A p \in PoolRequest : Read(p, tasks[t]) => Read(p, new)
    BY <1>1, <2>4, <2>5, NewerRow
  <2>7. RowsOfPoolMove
    BY <1>2, <2>3, <2>4, <2>6, OneRow
  <2> QED BY <1>2, <2>7, NoDevice DEF WeekInv
<1>4. CASE P!FallsBehind(t)
  <2> DEFINE a == [tasks[t] EXCEPT !.late = TRUE]
             new == [a EXCEPT !.dateVersion = tasks[t].dateVersion + 1]
  <2>1. a \in P!TaskRow
    BY <1>1, RowColumns, Zenon
  <2>3. tasks' = [tasks EXCEPT ![t] = new]
    BY <1>1, <1>4 DEF P!FallsBehind
  <2> HIDE DEF a
  <2>4. new \in P!TaskRow
    BY <1>1, <2>1, RowColumns, Zenon
  <2>5. new.dateVersion = tasks[t].dateVersion + 1
    BY <2>1 DEF P!TaskRow
  <2> HIDE DEF new
  <2>6. tasks[t].dateVersion < new.dateVersion
    BY <1>1, <2>5
  <2>7. \A p \in PoolRequest : Read(p, tasks[t]) => Read(p, new)
    BY <1>1, <2>4, <2>6, NewerRow
  <2>8. RowsOfPoolMove
    BY <1>2, <2>3, <2>4, <2>7, OneRow
  <2> QED BY <1>2, <2>8, NoDevice DEF WeekInv
<1> QED BY <1>3, <1>4

(* A day begins.                                                            *)
LEMMA NewDayKeeps ==
  ASSUME WeekInv, P!NewDay
  PROVE  WeekInv'
<1>1. /\ today' \in Nat \ {0} /\ requests' = requests /\ journal' = journal
      /\ UNCHANGED <<scenario, tasks>>
  BY DEF WeekInv, P!NewDay
<1> QED BY <1>1, PoolStays, NoDevice DEF WeekInv

(* Every step keeps what the week's page keeps.                             *)
LEMMA WeekStep ==
  ASSUME WeekInv, P!Next
  PROVE  WeekInv'
<1>1. DOMAIN tasks = TaskIds /\ DOMAIN requests = scenario.devices
  BY DEF WeekInv
<1> QED BY <1>1, ReadsPoolKeeps, TogglesKeeps, TakeAppliesKeeps, TakeReadsKeeps,
           ClosesOrFallsKeeps, UndoesKeeps, NewDayKeeps DEF P!Next

(* A step of another world keeps it.                                        *)
LEMMA WeekStays ==
  ASSUME WeekInv, UNCHANGED P!vars
  PROVE  WeekInv'
BY DEF WeekInv, P!vars, HeldPool, Read, TaskIds, PoolRequest

(* Every variable of the week's page has its type.                          *)
LEMMA WeekTyped ==
  ASSUME WeekInv
  PROVE  P!TypeOK
<1>1. \A d \in DOMAIN requests : requests[d] \in PoolRequest
  BY DEF WeekInv
<1>2. \A d \in DOMAIN requests : requests[d].step \in {"none", "toggle", "take"}
  BY <1>1 DEF PoolRequest
<1> QED BY <1>2 DEF WeekInv, P!TypeOK, TaskIds

(* A mark is made by the tap of a device that asked for that week.           *)
LEMMA MarkIsATap ==
  ASSUME WeekInv, P!Next, NEW t \in TaskIds, NEW W \in Nat \ {0},
         tasks[t].pick # W, tasks'[t].pick = W
  PROVE  \E d \in scenario.devices :
           /\ P!Toggles(d) /\ t \in P!Pool /\ requests[d].week = W /\ ~P!Full(d)
           /\ tasks' = [tasks EXCEPT ![t].pick = W]
<1>1. /\ DOMAIN tasks = TaskIds /\ DOMAIN requests = scenario.devices
      /\ tasks \in [TaskIds -> P!TaskRow] /\ requests \in [scenario.devices -> PoolRequest]
  BY DEF WeekInv
<1>2. tasks' # tasks
  OBVIOUS
<1>3. ASSUME NEW d \in scenario.devices, P!TakeApplies(d) PROVE FALSE
  <2> DEFINE u == requests[d].task
             new == P!MovedTo(tasks[u], requests[d].day)
  <2>1. u \in TaskIds /\ tasks[u] \in P!TaskRow /\ requests[d].day \in Nat
    BY <1>1, <1>3 DEF WeekInv, HeldPool, P!TakeApplies, PoolRequest
  <2>2. new.pick \in {tasks[u].pick, 0}
    BY <2>1, MovedRow
  <2>3. tasks' = [tasks EXCEPT ![u] = new]
    BY <1>2, <1>3 DEF P!TakeApplies
  <2> HIDE DEF u, new
  <2> QED BY <1>1, <2>2, <2>3
<1>4. ASSUME P!Undoes PROVE FALSE
  <2> DEFINE u == journal.task
             new == P!PutBack(journal.before, tasks[u])
  <2>1. u \in TaskIds /\ tasks[u] \in P!TaskRow /\ journal.before \in P!TaskRow
    BY <1>1, <1>4 DEF WeekInv, P!Undoes
  <2>2. new.pick = tasks[u].pick
    BY <2>1, BackRow
  <2>3. tasks' = [tasks EXCEPT ![u] = new]
    BY <1>2, <1>4 DEF P!Undoes
  <2> HIDE DEF u, new
  <2> QED BY <1>1, <2>2, <2>3
<1>5. ASSUME NEW u \in TaskIds, P!Closes(u) \/ P!FallsBehind(u) PROVE FALSE
  <2>1. tasks[u] \in P!TaskRow
    BY <1>1
  <2>2. CASE P!Closes(u)
    <3> DEFINE new == [tasks[u] EXCEPT !.status = "closed", !.version = tasks[u].version + 1]
    <3>1. tasks' = [tasks EXCEPT ![u] = new]
      BY <1>1, <2>2 DEF P!Closes
    <3>2. new.pick = tasks[u].pick
      BY <2>1 DEF P!TaskRow
    <3> HIDE DEF new
    <3> QED BY <1>1, <3>1, <3>2
  <2>3. CASE P!FallsBehind(u)
    <3> DEFINE new == [tasks[u] EXCEPT !.late = TRUE,
                                       !.dateVersion = tasks[u].dateVersion + 1]
    <3>1. tasks' = [tasks EXCEPT ![u] = new]
      BY <1>1, <2>3 DEF P!FallsBehind
    <3>2. new.pick = tasks[u].pick
      BY <2>1 DEF P!TaskRow
    <3> HIDE DEF new
    <3> QED BY <1>1, <3>1, <3>2
  <2> QED BY <1>5, <2>2, <2>3
<1>6. PICK d \in scenario.devices : P!Toggles(d)
  BY <1>1, <1>2, <1>3, <1>4, <1>5 DEF P!Next, P!ReadsPool, P!TakeReads, P!NewDay
<1> DEFINE r == requests[d]
<1>7. \/ /\ r.task \in P!Pool /\ tasks' = [tasks EXCEPT ![r.task].pick = 0]
      \/ /\ r.task \in P!Pool /\ tasks' = [tasks EXCEPT ![r.task].pick = r.week]
         /\ ~P!Full(d)
  BY <1>2, <1>6 DEF P!Toggles, P!None
<1>8. r.task \in P!Pool => r.task \in TaskIds /\ tasks[r.task] \in P!TaskRow
  BY <1>1, PoolIsOfTasks
<1> HIDE DEF r
<1>9. \A k : r.task \in TaskIds /\ tasks' = [tasks EXCEPT ![r.task].pick = k]
               => r.task = t /\ k = W
  <2> TAKE k
  <2> HAVE r.task \in TaskIds /\ tasks' = [tasks EXCEPT ![r.task].pick = k]
  <2>1. r.task = t
    BY <1>1
  <2> DEFINE new == [tasks[t] EXCEPT !.pick = k]
  <2>2. tasks[t] \in P!TaskRow
    BY <1>1
  <2>3. new.pick = k
    BY <2>2 DEF P!TaskRow
  <2>4. tasks' = [tasks EXCEPT ![t] = new]
    BY <2>1
  <2> HIDE DEF new
  <2> QED BY <1>1, <2>1, <2>3, <2>4
<1>10. r.task = t /\ r.week = W /\ r.task \in P!Pool /\ ~P!Full(d)
       /\ tasks' = [tasks EXCEPT ![r.task].pick = r.week]
  BY <1>7, <1>8, <1>9
<1> QED BY <1>6, <1>10 DEF r

(* The last place of a week is taken once.                                   *)
LEMMA PlacesAreKept ==
  ASSUME WeekInv, P!Next, NEW t \in TaskIds, NEW W \in Nat \ {0},
         tasks[t].pick # W, tasks'[t].pick = W
  PROVE  /\ P!Cardinality(P!Taken(W)') <= scenario.limit
         /\ \E d \in scenario.devices : requests[d].week = W
<1>1. PICK d \in scenario.devices :
        /\ P!Toggles(d) /\ t \in P!Pool /\ requests[d].week = W /\ ~P!Full(d)
        /\ tasks' = [tasks EXCEPT ![t].pick = W]
  BY MarkIsATap
<1> DEFINE before == P!Taken(W)
           after == P!Taken(W)'
<1>2. IsFiniteSet(before) /\ Cardinality(before) \in Nat
  BY PoolIsOfTasks
<1>3. after \subseteq before \cup {t}
  <2>1. DOMAIN tasks' = DOMAIN tasks /\ \A u \in DOMAIN tasks : u # t => tasks'[u] = tasks[u]
    BY <1>1
  <2> QED BY <2>1 DEF P!Taken, P!Pool
<1>4. t \notin before
  BY DEF P!Taken
<1>5. Cardinality(before) < scenario.limit /\ scenario.limit \in Nat
  <2>1. P!Cardinality(before) = Cardinality(before)
    BY SameCount
  <2>2. scenario.limit \in Nat
    BY WebAssumption DEF WebAssumption, WeekInv
  <2>3. ~(P!Cardinality(P!Taken(W)) >= scenario.limit)
    BY <1>1, Zenon DEF P!Full
  <2> QED BY <1>2, <2>1, <2>2, <2>3
<1> HIDE DEF before, after
<1>6. IsFiniteSet(before \cup {t}) /\ Cardinality(before \cup {t}) = Cardinality(before) + 1
  BY <1>2, <1>4, FS_AddElement
<1>7. /\ Cardinality(after) <= Cardinality(before \cup {t})
      /\ IsFiniteSet(after) /\ Cardinality(after) \in Nat
  BY <1>3, <1>6, FS_Subset, FS_CardinalityType
<1>8. Cardinality(after) <= scenario.limit
  BY <1>2, <1>5, <1>6, <1>7
<1>9. P!Cardinality(after) = Cardinality(after)
  BY SameCount
<1> QED BY <1>1, <1>8, <1>9 DEF after

(* A row that moves to today is at the version the screen showed.            *)
LEMMA TakenAsRead ==
  ASSUME WeekInv, P!Next, NEW d \in scenario.devices,
         requests[d].step = "take", requests'[d].step = "none", tasks' # tasks
  PROVE  tasks[requests[d].task].version = requests[d].version
<1>1. /\ DOMAIN tasks = TaskIds /\ DOMAIN requests = scenario.devices
      /\ requests \in [scenario.devices -> PoolRequest]
  BY DEF WeekInv
<1>2. ASSUME NEW e \in scenario.devices, P!Toggles(e) \/ P!TakeApplies(e)
      PROVE  e = d /\ P!TakeApplies(d)
  BY <1>1, <1>2 DEF P!Toggles, P!TakeApplies
<1>3. P!TakeApplies(d)
  BY <1>1, <1>2 DEF P!Next, P!ReadsPool, P!TakeReads, P!NewDay, P!Closes, P!FallsBehind, P!Undoes
<1>4. P!Movable(tasks[requests[d].task], requests[d])
  BY <1>3 DEF P!TakeApplies
<1>5. Read(requests[d], tasks[requests[d].task])
  BY DEF WeekInv, HeldPool
<1> QED BY <1>4, <1>5 DEF P!Movable, Read, P!None

(* Two taps of the week's page do not collide: the last place is given      *)
(* once, and a row that moves is the row that was read.                     *)
LEMMA TapsKept ==
  ASSUME WeekInv, P!Next
  PROVE  P!TapsDoNotCollide
<1>1. DOMAIN tasks = TaskIds /\ DOMAIN requests = scenario.devices
  BY DEF WeekInv
<1>2. P!Weeks \subseteq Nat \ {0}
  <2>1. scenario.first \in Nat \ {0} /\ scenario.days \in Nat
    BY WebAssumption DEF WebAssumption, WeekInv
  <2>2. \A day \in scenario.first .. scenario.first + scenario.days : day \in Nat \ {0}
    BY <2>1
  <2> QED BY <2>2, WeekOfDay DEF P!Weeks
<1> QED BY <1>1, <1>2, PlacesAreKept, TakenAsRead DEF P!TapsDoNotCollide

------------------------------------------------------------------------------
(* The lists and the morning card.                                          *)

(* The count of the module is the count of the library.                      *)
LEMMA SameCountOfLists ==
  ASSUME NEW X
  PROVE  L!Cardinality(X) = Cardinality(X)
BY DEF L!Cardinality, Cardinality

(* Keys of n numbers.                                                        *)
Keys(n) == [1 .. n -> Int]

(* Keys are in a line: of two different ones, one is before the other.      *)
LEMMA KeysOrder ==
  ASSUME NEW n \in Nat, NEW a \in Keys(n), NEW b \in Keys(n), NEW c \in Keys(n)
  PROVE  /\ ~L!KeyBefore(a, a)
         /\ L!KeyBefore(a, b) /\ L!KeyBefore(b, c) => L!KeyBefore(a, c)
         /\ a # b => L!KeyBefore(a, b) \/ L!KeyBefore(b, a)
<1>1. ~L!KeyBefore(a, a)
  BY DEF L!KeyBefore, Keys
<1>2. ASSUME L!KeyBefore(a, b), L!KeyBefore(b, c) PROVE L!KeyBefore(a, c)
  <2>1. PICK i \in 1 .. n : a[i] < b[i] /\ \A j \in 1 .. i - 1 : a[j] = b[j]
    BY <1>2 DEF L!KeyBefore, Keys
  <2>2. PICK k \in 1 .. n : b[k] < c[k] /\ \A j \in 1 .. k - 1 : b[j] = c[j]
    BY <1>2 DEF L!KeyBefore, Keys
  <2>3. CASE i <= k
    <3>1. a[i] < c[i]
      <4>1. CASE i = k
        BY <4>1, <2>1, <2>2 DEF Keys
      <4>2. CASE i < k
        <5>1. b[i] = c[i]
          BY <4>2, <2>2
        <5> QED BY <5>1, <2>1
      <4> QED BY <2>3, <4>1, <4>2
    <3>2. \A j \in 1 .. i - 1 : a[j] = c[j]
      BY <2>1, <2>2, <2>3
    <3> QED BY <3>1, <3>2 DEF L!KeyBefore, Keys
  <2>4. CASE k < i
    <3>1. a[k] = b[k]
      BY <2>1, <2>4
    <3>2. \A j \in 1 .. k - 1 : a[j] = c[j]
      BY <2>1, <2>2, <2>4
    <3> QED BY <2>2, <3>1, <3>2 DEF L!KeyBefore, Keys
  <2> QED BY <2>3, <2>4
<1>3. ASSUME a # b PROVE L!KeyBefore(a, b) \/ L!KeyBefore(b, a)
  <2> DEFINE X == {i \in 1 .. n : a[i] # b[i]}
  <2>0. \E i \in 1 .. n : a[i] # b[i]
    <3>1. a = [i \in 1 .. n |-> a[i]] /\ b = [i \in 1 .. n |-> b[i]]
      BY DEF Keys
    <3> QED BY <1>3, <3>1, Zenon
  <2>1. X \in SUBSET Nat /\ X # {}
    BY <2>0
  <2>2. PICK i \in X : \A j \in X : i <= j
    BY <2>1, Least
  <2>3. i \in 1 .. n /\ a[i] # b[i] /\ \A j \in 1 .. i - 1 : a[j] = b[j]
    BY <2>2
  <2>4. a[i] < b[i] \/ b[i] < a[i]
    BY <2>3 DEF Keys
  <2> QED BY <2>3, <2>4 DEF L!KeyBefore, Keys
<1> QED BY <1>1, <1>2, <1>3

(* Keys that tell the elements of a set apart.                               *)
Telling(T, key, n) ==
  /\ key \in [T -> Keys(n)]
  /\ \A x, y \in T : x # y => key[x] # key[y]

(* A list in the order of its keys holds every element once.                 *)
InOrder(s, T, key) ==
  /\ s \in [1 .. Cardinality(T) -> T] /\ Cardinality(T) \in Nat
  /\ \A x \in T : \E i \in 1 .. Cardinality(T) : s[i] = x
  /\ \A i, j \in 1 .. Cardinality(T) :
       /\ i # j => s[i] # s[j]
       /\ i < j => L!KeyBefore(key[s[i]], key[s[j]])

(* Sorted is that list: the place of a member is the number of those ahead  *)
(* of it.                                                                   *)
LEMMA SortedFits ==
  ASSUME NEW T, IsFiniteSet(T), NEW n \in Nat, NEW key, Telling(T, key, n)
  PROVE  InOrder(L!Sorted(T, key), T, key)
<1> DEFINE N1 == Cardinality(T)
           low == [x \in T |-> Cardinality(L!Ahead(T, key, x)) + 1]
           f == L!Sorted(T, key)
<1>1. N1 \in Nat
  BY FS_CardinalityType
<1>2. ASSUME NEW x \in T PROVE /\ IsFiniteSet(L!Ahead(T, key, x)) /\ low[x] \in 1 .. N1
                              /\ Cardinality(L!Ahead(T, key, x)) \in Nat
  <2>1. L!Ahead(T, key, x) \subseteq T \ {x}
    BY KeysOrder DEF L!Ahead, Telling
  <2>2. IsFiniteSet(T \ {x}) /\ Cardinality(T \ {x}) = N1 - 1
    BY FS_RemoveElement
  <2>3. IsFiniteSet(L!Ahead(T, key, x)) /\ Cardinality(L!Ahead(T, key, x)) <= N1 - 1
    BY <2>1, <2>2, FS_Subset
  <2>4. Cardinality(L!Ahead(T, key, x)) \in Nat
    BY <2>3, FS_CardinalityType
  <2> QED BY <1>1, <2>3, <2>4
<1>3. ASSUME NEW x \in T, NEW y \in T, L!KeyBefore(key[x], key[y]) PROVE low[x] < low[y]
  <2>1. \A z \in T : L!KeyBefore(key[z], key[x]) => L!KeyBefore(key[z], key[y])
    BY <1>3, KeysOrder DEF Telling
  <2>2. L!Ahead(T, key, x) \in SUBSET L!Ahead(T, key, y)
    BY <2>1 DEF L!Ahead
  <2>3. x \in L!Ahead(T, key, y) /\ x \notin L!Ahead(T, key, x)
    BY <1>3, KeysOrder DEF L!Ahead, Telling
  <2>4. /\ Cardinality(L!Ahead(T, key, x)) <= Cardinality(L!Ahead(T, key, y))
        /\ Cardinality(L!Ahead(T, key, x)) # Cardinality(L!Ahead(T, key, y))
    BY <1>2, <2>2, <2>3, FS_Subset
  <2> QED BY <1>2, <2>4
<1>4. \A x, y \in T : x # y => low[x] # low[y]
  <2> SUFFICES ASSUME NEW x \in T, NEW y \in T, x # y PROVE low[x] # low[y]
    OBVIOUS
  <2>1. L!KeyBefore(key[x], key[y]) \/ L!KeyBefore(key[y], key[x])
    BY KeysOrder DEF Telling
  <2>2. low[x] < low[y] \/ low[y] < low[x]
    BY <1>3, <2>1
  <2> QED BY <1>2, <2>2
<1>5. \A i \in 1 .. N1 : \E x \in T : low[x] = i
  <2>1. low \in Injection(T, 1 .. N1)
    BY <1>2, <1>4 DEF Injection, IsInjective
  <2>2. IsFiniteSet(1 .. N1) /\ Cardinality(1 .. N1) = N1
    BY <1>1, FS_Interval
  <2>3. low \in Surjection(T, 1 .. N1)
    BY <2>1, <2>2, FS_Injection
  <2> QED BY <2>3 DEF Surjection
<1>6. f = [i \in 1 .. N1 |-> CHOOSE x \in T : Cardinality(L!Ahead(T, key, x)) = i - 1]
  BY SameCountOfLists DEF L!Sorted
<1>7. ASSUME NEW i \in 1 .. N1 PROVE f[i] \in T /\ low[f[i]] = i
  <2>1. \E x \in T : Cardinality(L!Ahead(T, key, x)) = i - 1
    BY <1>2, <1>5
  <2> DEFINE g == CHOOSE x \in T : Cardinality(L!Ahead(T, key, x)) = i - 1
  <2>2. g \in T /\ Cardinality(L!Ahead(T, key, g)) = i - 1
    BY <2>1
  <2>3. f[i] = g
    BY <1>6
  <2> QED BY <2>2, <2>3
<1> HIDE DEF f, low
<1>8. f \in [1 .. N1 -> T]
  BY <1>6, <1>7
<1>9. ASSUME NEW x \in T PROVE \E i \in 1 .. N1 : f[i] = x
  BY <1>2, <1>4, <1>7, <1>9
<1>10. ASSUME NEW i \in 1 .. N1, NEW j \in 1 .. N1
       PROVE  /\ i # j => f[i] # f[j]
              /\ i < j => L!KeyBefore(key[f[i]], key[f[j]])
  <2>1. f[i] \in T /\ f[j] \in T /\ low[f[i]] = i /\ low[f[j]] = j
    BY <1>7
  <2>2. i # j => f[i] # f[j]
    BY <2>1
  <2>3. ASSUME i < j PROVE L!KeyBefore(key[f[i]], key[f[j]])
    <3>1. L!KeyBefore(key[f[i]], key[f[j]]) \/ L!KeyBefore(key[f[j]], key[f[i]])
      BY <2>1, <2>2, <2>3, KeysOrder DEF Telling
    <3>2. ~(low[f[j]] < low[f[i]])
      BY <2>1, <2>3
    <3> QED BY <1>3, <2>1, <3>1, <3>2
  <2> QED BY <2>2, <2>3
<1> QED BY <1>1, <1>8, <1>9, <1>10 DEF InOrder, f

(* A set of numbers below a bound has a greatest one.                       *)
LEMMA Greatest ==
  ASSUME NEW n \in Nat, NEW X \in SUBSET (1 .. n), X # {}
  PROVE  \E k \in X : \A m \in X : m <= k
<1> DEFINE Y == {m \in Nat : \A k \in X : k <= m}
<1>1. n \in Y /\ Y \in SUBSET Nat
  OBVIOUS
<1>2. PICK m \in Y : \A k \in Y : m <= k
  <2> HIDE DEF Y
  <2> QED BY <1>1, Least
<1>3. m \in X
  <2>1. SUFFICES ASSUME m \notin X PROVE FALSE
    OBVIOUS
  <2>2. \A k \in X : k <= m - 1
    BY <1>2, <2>1
  <2>3. m - 1 \in Nat
    <3>1. PICK k \in X : TRUE
      OBVIOUS
    <3>2. k \in 1 .. n /\ k <= m - 1
      BY <2>2
    <3> QED BY <3>2
  <2> QED BY <1>2, <2>2, <2>3
<1> QED BY <1>2, <1>3

(* The least and the greatest of some places of a list.                      *)
LEMMA MinAndMax ==
  ASSUME NEW n \in Nat, NEW X \in SUBSET (1 .. n), X # {}
  PROVE  L!Min(X) \in X /\ L!Max(X) \in X
<1>1. \E k \in X : \A m \in X : k <= m
  BY Least
<1>2. \E k \in X : \A m \in X : k >= m
  BY Greatest
<1> QED BY <1>1, <1>2 DEF L!Min, L!Max

(* The rows of a workspace.                                                  *)
ListRows(rs) ==
  /\ IsFiniteSet(rs)
  /\ \A r \in rs : L!IsRow(r)
  /\ \A r, q \in rs : r.id = q.id => r = q

(* Some of the rows of a workspace.                                         *)
LEMMA SomeRows ==
  ASSUME NEW rs, ListRows(rs), NEW qs \in SUBSET rs
  PROVE  ListRows(qs)
BY FS_Subset DEF ListRows

(* The numbers rows are sorted by.                                           *)
LEMMA RowNumbers ==
  ASSUME NEW r, L!IsRow(r)
  PROVE  /\ r.id \in Int /\ L!RowTime(r) \in Int /\ L!Rank(r.importance) \in 1 .. 3
         /\ L!NullsLast(r.review) \in Int /\ L!LocalDate(r) \in Int
<1>1. L!RowTime(r) \in Int /\ L!NullsLast(r.review) \in Int
  BY DEF L!IsRow, L!IsTime, L!RowTime, L!NullsLast, L!None, L!Never
<1>2. L!Rank(r.importance) \in 1 .. 3
  BY DEF L!IsRow, L!Rank
<1>3. L!LocalDate(r) \in Int
  BY DEF L!IsRow, L!IsTime, L!LocalDate, L!None
<1> QED BY <1>1, <1>2, <1>3 DEF L!IsRow

(* Rows of a line by their time.                                            *)
TimeKeys(rs) == [r \in rs |-> <<L!RowTime(r), r.id>>]

(* The time and the number of a row tell it apart.                          *)
LEMMA TimesTell ==
  ASSUME NEW rs, ListRows(rs)
  PROVE  Telling(rs, TimeKeys(rs), 2)
<1>1. ASSUME NEW r \in rs PROVE TimeKeys(rs)[r] \in Keys(2) /\ TimeKeys(rs)[r][2] = r.id
  <2>1. L!RowTime(r) \in Int /\ r.id \in Int
    BY RowNumbers DEF ListRows
  <2> QED BY <2>1 DEF TimeKeys, Keys
<1>2. TimeKeys(rs) = [r \in rs |-> TimeKeys(rs)[r]]
  BY DEF TimeKeys
<1>3. \A x, y \in rs : x # y => TimeKeys(rs)[x] # TimeKeys(rs)[y]
  BY <1>1 DEF ListRows
<1> HIDE DEF TimeKeys
<1>4. TimeKeys(rs) \in [rs -> Keys(2)]
  BY <1>1, <1>2
<1> QED BY <1>3, <1>4 DEF Telling

(* A line is of rows that have its title, holds each of them once, and is    *)
(* about one of them.                                                        *)
LineOf(g, rs, title) ==
  /\ g.title = title /\ g.importance \in {L!Importances[i] : i \in 1 .. 3}
  /\ g.lead \in rs /\ InOrder(g.rows, rs, TimeKeys(rs))

(* groupTaskRows makes such a line of the rows of a title.                  *)
LEMMA GroupFits ==
  ASSUME NEW rs, ListRows(rs), rs # {}, NEW title, \A r \in rs : r.title = title, NEW day \in Int
  PROVE  LineOf(L!GroupOf(rs, day), rs, title)
<1> DEFINE sorted == L!Sorted(rs, TimeKeys(rs))
           ahead == {i \in DOMAIN sorted : ~L!IsPast(sorted[i], day)}
           past == DOMAIN sorted \ ahead
           at == IF ahead # {} THEN L!Min(ahead) ELSE L!Max(past)
           ranks == {L!Rank(r.importance) : r \in rs}
<1>1. InOrder(sorted, rs, TimeKeys(rs))
  BY SortedFits, TimesTell DEF ListRows
<1>2. Cardinality(rs) \in Nat /\ DOMAIN sorted = 1 .. Cardinality(rs)
      /\ \A i \in DOMAIN sorted : sorted[i] \in rs
  BY <1>1 DEF InOrder
<1>3. DOMAIN sorted # {}
  BY <1>1, <1>2 DEF InOrder
<1>4. sorted[at] \in rs
  <2>1. CASE ahead # {}
    <3>1. L!Min(ahead) \in ahead
      BY <1>2, <2>1, MinAndMax
    <3> QED BY <1>2, <2>1, <3>1
  <2>2. CASE ahead = {}
    <3>1. past # {} /\ past \in SUBSET (1 .. Cardinality(rs))
      BY <1>2, <1>3, <2>2
    <3>2. L!Max(past) \in past
      <4> HIDE DEF past
      <4> QED BY <1>2, <3>1, MinAndMax
    <3> QED BY <1>2, <2>2, <3>2
  <2> QED BY <2>1, <2>2
<1>5. L!Min(ranks) \in 1 .. 3
  <2>1. ranks \in SUBSET (1 .. 3) /\ ranks # {}
    BY RowNumbers DEF ListRows
  <2> HIDE DEF ranks
  <2> QED BY <2>1, MinAndMax
<1>6. L!GroupOf(rs, day) =
        [title |-> sorted[at].title, importance |-> L!Importances[L!Min(ranks)],
         rows |-> sorted, lead |-> sorted[at], series |-> \E r \in rs : r.series,
         pastCount |-> L!Cardinality(past)]
  BY DEF L!GroupOf, TimeKeys
<1> HIDE DEF sorted, ahead, past, at, ranks
<1>7. sorted[at].title = title
  BY <1>4
<1> QED BY <1>1, <1>4, <1>5, <1>6, <1>7 DEF LineOf

(* The lines rows collapse into.                                             *)
GroupKeys(rs, day) == [g \in L!GroupsOf(rs, day) |-> L!GroupKey(g, day)]
Lines(rs, gs) ==
  /\ IsFiniteSet(gs)
  /\ \A g \in gs : LineOf(g, L!Titled(rs, g.title), g.title)
  /\ \A r \in rs : \E g \in gs : g.title = r.title
  /\ \A g, h \in gs : g.title = h.title => g = h

(* Every row is on the line of its title.                                   *)
LEMMA LinesFit ==
  ASSUME NEW rs, ListRows(rs), NEW day \in Int
  PROVE  /\ Lines(rs, L!GroupsOf(rs, day))
         /\ \A g \in L!GroupsOf(rs, day) : g = L!GroupOf(L!Titled(rs, g.title), day)
<1> DEFINE gs == L!GroupsOf(rs, day)
           f == [r \in rs |-> L!GroupOf(L!Titled(rs, r.title), day)]
<1>1. ASSUME NEW r \in rs
      PROVE  LineOf(f[r], L!Titled(rs, r.title), r.title) /\ f[r].title = r.title
  <2> DEFINE ts == L!Titled(rs, r.title)
  <2>1. ts \in SUBSET rs /\ r \in ts /\ \A q \in ts : q.title = r.title
    BY DEF L!Titled
  <2>2. ListRows(ts)
    BY <2>1, SomeRows
  <2>3. f[r] = L!GroupOf(ts, day)
    OBVIOUS
  <2> HIDE DEF ts, f
  <2>4. LineOf(f[r], ts, r.title)
    BY <2>1, <2>2, <2>3, GroupFits
  <2> QED BY <2>4 DEF LineOf, ts
<1>2. gs = {f[r] : r \in rs}
  BY DEF L!GroupsOf
<1>3. f \in Surjection(rs, gs)
  <2>1. f \in [rs -> gs]
    BY <1>2
  <2> QED BY <1>2, <2>1 DEF Surjection
<1>4. IsFiniteSet(gs)
  <2> HIDE DEF f, gs
  <2> QED BY <1>3, FS_Surjection DEF ListRows
<1>5. ASSUME NEW g \in gs
      PROVE  LineOf(g, L!Titled(rs, g.title), g.title)
             /\ g = L!GroupOf(L!Titled(rs, g.title), day)
  <2>1. PICK r \in rs : g = f[r]
    BY <1>2
  <2>2. g = L!GroupOf(L!Titled(rs, r.title), day)
    BY <2>1
  <2>3. g.title = r.title
    BY <1>1, <2>1
  <2> HIDE DEF f, gs
  <2> QED BY <1>1, <2>1, <2>2, <2>3
<1>6. \A r \in rs : \E g \in gs : g.title = r.title
  BY <1>1, <1>2
<1>7. \A g, h \in gs : g.title = h.title => g = h
  <2> HIDE DEF gs
  <2> QED BY <1>5
<1> QED BY <1>4, <1>5, <1>6, <1>7 DEF Lines

(* No two lines have the same key: their leads are different rows.          *)
LEMMA GroupsTell ==
  ASSUME NEW rs, ListRows(rs), NEW day \in Int
  PROVE  Telling(L!GroupsOf(rs, day), GroupKeys(rs, day), 5)
<1> DEFINE gs == L!GroupsOf(rs, day)
           ks == GroupKeys(rs, day)
<1>1. Lines(rs, gs)
  BY LinesFit
<1>2. ks = [g \in gs |-> L!GroupKey(g, day)]
  BY DEF GroupKeys
<1> HIDE DEF gs, ks
<1>3. ASSUME NEW g \in gs
      PROVE  g.lead \in rs /\ g.lead.title = g.title /\ L!GroupKey(g, day) \in Keys(5)
             /\ L!GroupKey(g, day)[5] = g.lead.id
  <2>1. /\ g.lead \in rs /\ g.lead.title = g.title
        /\ g.importance \in {L!Importances[i] : i \in 1 .. 3}
    BY <1>1 DEF Lines, LineOf, L!Titled
  <2>2. L!Rank(g.importance) \in Int
    BY <2>1 DEF L!Rank
  <2>3. L!NullsLast(L!LocalDate(g.lead)) \in Int /\ L!RowTime(g.lead) \in Int /\ g.lead.id \in Int
    BY <2>1, RowNumbers DEF ListRows, L!NullsLast, L!Never
  <2> DEFINE k1 == IF L!IsPast(g.lead, day) THEN 0 ELSE 1
             k2 == L!NullsLast(L!LocalDate(g.lead))
             k3 == L!Rank(g.importance)
             k4 == L!RowTime(g.lead)
             k5 == g.lead.id
  <2>4. k1 \in Int /\ k2 \in Int /\ k3 \in Int /\ k4 \in Int /\ k5 \in Int
    BY <2>2, <2>3
  <2>5. L!GroupKey(g, day) = <<k1, k2, k3, k4, k5>>
    BY DEF L!GroupKey
  <2>6. k5 = g.lead.id
    OBVIOUS
  <2> HIDE DEF k1, k2, k3, k4, k5
  <2>7. <<k1, k2, k3, k4, k5>> \in Keys(5) /\ <<k1, k2, k3, k4, k5>>[5] = k5
    BY <2>4 DEF Keys
  <2> QED BY <2>1, <2>5, <2>6, <2>7
<1>4. ks \in [gs -> Keys(5)]
  BY <1>2, <1>3
<1>5. ASSUME NEW g \in gs, NEW h \in gs, g # h PROVE ks[g] # ks[h]
  <2>1. g.lead # h.lead
    BY <1>1, <1>3, <1>5 DEF Lines
  <2>2. g.lead.id # h.lead.id
    BY <1>3, <2>1 DEF ListRows
  <2>3. ks[g][5] # ks[h][5]
    BY <1>2, <1>3, <2>2
  <2> QED BY <2>3
<1> QED BY <1>4, <1>5 DEF Telling, gs, ks

(* The lines of a tab, in their order.                                       *)
LEMMA GroupsFit ==
  ASSUME NEW rs, ListRows(rs), NEW day \in Int
  PROVE  /\ InOrder(L!Groups(rs, day), L!GroupsOf(rs, day), GroupKeys(rs, day))
         /\ DOMAIN L!Groups(rs, day) = 1 .. Len(L!Groups(rs, day))
         /\ L!Groups(rs, day) \in Seq(L!GroupsOf(rs, day))
         /\ Len(L!Groups(rs, day)) = Cardinality(L!GroupsOf(rs, day))
<1> DEFINE gs == L!GroupsOf(rs, day)
           ks == GroupKeys(rs, day)
           s == L!Groups(rs, day)
<1>1. IsFiniteSet(gs)
  BY LinesFit DEF Lines
<1>2. s = L!Sorted(gs, ks)
  BY DEF L!Groups, GroupKeys
<1>3. Telling(gs, ks, 5)
  BY GroupsTell
<1> HIDE DEF gs, ks, s
<1>4. InOrder(s, gs, ks)
  BY <1>1, <1>2, <1>3, SortedFits
<1>5. s \in [1 .. Cardinality(gs) -> gs] /\ Cardinality(gs) \in Nat
  BY <1>4 DEF InOrder
<1>6. s \in Seq(gs) /\ Len(s) = Cardinality(gs) /\ DOMAIN s = 1 .. Len(s)
  BY <1>5
<1> QED BY <1>4, <1>6 DEF gs, ks, s

(* More rows are no fewer lines.                                             *)
LEMMA CountGrows ==
  ASSUME NEW rs, ListRows(rs), NEW qs \in SUBSET rs, NEW day \in Int
  PROVE  /\ L!Count(qs, day) <= L!Count(rs, day)
         /\ L!Count(qs, day) \in Nat /\ L!Count(rs, day) \in Nat
<1> DEFINE few == L!GroupsOf(qs, day)
           many == L!GroupsOf(rs, day)
           f == [g \in few |-> CHOOSE h \in many : h.title = g.title]
<1>1. ListRows(qs)
  BY SomeRows
<1>2. Lines(qs, few) /\ Lines(rs, many)
  BY <1>1, LinesFit
<1> HIDE DEF few, many
<1>3. ASSUME NEW g \in few PROVE f[g] \in many /\ f[g].title = g.title
  <2>1. g.lead \in qs /\ g.lead.title = g.title
    BY <1>2 DEF Lines, LineOf, L!Titled
  <2>2. \E h \in many : h.title = g.title
    BY <1>2, <2>1 DEF Lines
  <2> QED BY <2>2
<1>4. f \in [few -> many]
  BY <1>3
<1>5. \A g, h \in few : f[g] = f[h] => g = h
  <2> HIDE DEF f
  <2> QED BY <1>2, <1>3 DEF Lines
<1>6. f \in Injection(few, many)
  <2> HIDE DEF f
  <2> QED BY <1>4, <1>5 DEF Injection, IsInjective
<1>7. Cardinality(few) <= Cardinality(many)
  <2> HIDE DEF f
  <2> QED BY <1>2, <1>6, FS_Injection DEF Lines
<1>8. Cardinality(few) \in Nat /\ Cardinality(many) \in Nat
  BY <1>2, FS_CardinalityType DEF Lines
<1>9. L!Count(qs, day) = Cardinality(few) /\ L!Count(rs, day) = Cardinality(many)
  BY <1>1, GroupsFit DEF L!Count, few, many
<1> QED BY <1>7, <1>8, <1>9

(* The rows of a line, and of all lines.                                     *)
LEMMA RowsOfLine ==
  ASSUME NEW g, NEW rs, NEW title, LineOf(g, rs, title)
  PROVE  /\ {g.rows[j].id : j \in DOMAIN g.rows} = L!Ids(rs)
         /\ L!RowsOf(<<g>>) = L!Ids(rs)
<1>1. InOrder(g.rows, rs, TimeKeys(rs))
  BY DEF LineOf
<1>2. /\ \A j \in DOMAIN g.rows : g.rows[j] \in rs
      /\ \A r \in rs : \E j \in DOMAIN g.rows : g.rows[j] = r
  BY <1>1 DEF InOrder
<1>3. {g.rows[j].id : j \in DOMAIN g.rows} = L!Ids(rs)
  BY <1>2 DEF L!Ids
<1>4. DOMAIN <<g>> = {1} /\ <<g>>[1] = g
  OBVIOUS
<1> DEFINE s == <<g>>
<1>5. DOMAIN s = {1} /\ s[1] = g
  BY <1>4
<1> HIDE DEF s
<1>6. L!RowsOf(s) = {g.rows[j].id : j \in DOMAIN g.rows}
  BY <1>5 DEF L!RowsOf
<1> QED BY <1>3, <1>6 DEF s

(* Every row is on a line, and nothing else is.                             *)
LEMMA RowsOfLines ==
  ASSUME NEW rs, ListRows(rs), NEW day \in Int
  PROVE  L!RowsOf(L!Groups(rs, day)) = L!Ids(rs)
<1> DEFINE gs == L!GroupsOf(rs, day)
           s == L!Groups(rs, day)
<1>1. /\ \A i \in DOMAIN s : s[i] \in gs
      /\ \A g \in gs : \E i \in DOMAIN s : s[i] = g
  BY GroupsFit DEF InOrder
<1>2. Lines(rs, gs)
  BY LinesFit
<1> HIDE DEF gs, s
<1>3. ASSUME NEW i \in DOMAIN s
      PROVE  {s[i].rows[j].id : j \in DOMAIN s[i].rows} = L!Ids(L!Titled(rs, s[i].title))
  BY <1>1, <1>2, RowsOfLine DEF Lines
<1>4. L!RowsOf(s) \subseteq L!Ids(rs)
  <2> SUFFICES ASSUME NEW i \in DOMAIN s, NEW j \in DOMAIN s[i].rows
               PROVE  s[i].rows[j].id \in L!Ids(rs)
    BY DEF L!RowsOf
  <2>1. s[i].rows[j].id \in L!Ids(L!Titled(rs, s[i].title))
    BY <1>3
  <2> QED BY <2>1 DEF L!Ids, L!Titled
<1>5. ASSUME NEW r \in rs PROVE r.id \in L!RowsOf(s)
  <2>1. PICK i \in DOMAIN s : s[i].title = r.title
    BY <1>1, <1>2 DEF Lines
  <2>2. r.id \in L!Ids(L!Titled(rs, s[i].title))
    BY <2>1 DEF L!Ids, L!Titled
  <2>3. r.id \in {s[i].rows[j].id : j \in DOMAIN s[i].rows}
    BY <1>3, <2>2
  <2> QED BY <2>3 DEF L!RowsOf
<1>6. L!Ids(rs) \subseteq L!RowsOf(s)
  BY <1>5 DEF L!Ids
<1> QED BY <1>4, <1>6 DEF s

(* Division as pages use it.                                                 *)
LEMMA DivFits ==
  ASSUME NEW n \in Nat, NEW d \in Nat \ {0}
  PROVE  n \div d \in Nat /\ (n \div d) * d <= n /\ n < (n \div d) * d + d
<1>1. n \div d \in Int /\ n % d \in 0 .. d - 1
  OBVIOUS
<1>2. n = d * (n \div d) + (n % d)
  OBVIOUS
<1>3. n \div d \in Nat
  BY Z3
<1> QED BY <1>1, <1>2, <1>3

(* The least and the greatest of two numbers.                               *)
LEMMA OfTwo ==
  ASSUME NEW a \in Int, NEW b \in Int
  PROVE  /\ L!Max({a, b}) = IF a >= b THEN a ELSE b
         /\ L!Min({a, b}) = IF a <= b THEN a ELSE b
BY DEF L!Max, L!Min

(* The first lines of a list.                                                *)
LEMMA FirstFits ==
  ASSUME NEW T, NEW s \in Seq(T), NEW n \in Nat
  PROVE  /\ L!First(s, n) \in Seq(T)
         /\ Len(L!First(s, n)) = IF Len(s) < n THEN Len(s) ELSE n
         /\ \A i \in 1 .. Len(L!First(s, n)) : L!First(s, n)[i] = s[i]
         /\ L!Elements(L!First(s, n)) \subseteq T
<1> DEFINE m == IF Len(s) < n THEN Len(s) ELSE n
           f == L!First(s, n)
<1>1. f = SubSeq(s, 1, m)
  BY DEF L!First
<1>2. m \in 0 .. Len(s)
  OBVIOUS
<1> HIDE DEF f, m
<1>3. f \in Seq(T) /\ Len(f) = m /\ \A i \in 1 .. m : f[i] = s[i]
  BY <1>1, <1>2
<1>4. \A i \in DOMAIN f : f[i] \in T
  BY <1>3
<1> QED BY <1>3, <1>4 DEF L!Elements, f, m

(* A page of a list: its number, its lines, and what is left after it.       *)
LastPage(s, size) == L!Max({1, (Len(s) + size - 1) \div size}) - 1

(* The last page begins within the list, and the list ends on it.           *)
LEMMA LastPageFits ==
  ASSUME NEW T, NEW s \in Seq(T), NEW size \in Nat \ {0}
  PROVE  /\ LastPage(s, size) \in Nat
         /\ LastPage(s, size) * size <= Len(s)
         /\ Len(s) <= LastPage(s, size) * size + size
<1> DEFINE n == Len(s) + size - 1
           q == n \div size
<1>1. n \in Nat
  OBVIOUS
<1>2. q \in Nat /\ q * size <= n /\ n < q * size + size
  <2> HIDE DEF n
  <2> QED BY <1>1, DivFits
<1>3. LastPage(s, size) = IF 1 >= q THEN 0 ELSE q - 1
  BY <1>2, OfTwo DEF LastPage
<1> HIDE DEF q
<1>4. CASE 1 >= q
  <2>1. q = 0 \/ q = 1
    BY <1>2, <1>4
  <2>2. q * size <= size
    BY <2>1
  <2> QED BY <1>2, <1>3, <1>4, <2>2
<1>5. CASE ~(1 >= q)
  <2>1. LastPage(s, size) = q - 1 /\ q - 1 \in Nat /\ (q - 1) * size = q * size - size
    BY <1>2, <1>3, <1>5
  <2> QED BY <1>2, <2>1
<1> QED BY <1>4, <1>5

(* A page past the end is the last one; its lines and what is left after it *)
(* add up to the list (paginate).                                           *)
LEMMA PageFits ==
  ASSUME NEW T, NEW s \in Seq(T), NEW size \in Nat \ {0}, NEW page \in Nat
  PROVE  LET v == L!Paginate(s, page, size)
             at == IF page <= LastPage(s, size) THEN page ELSE LastPage(s, size)
         IN /\ v.page = at /\ v.pages = LastPage(s, size) + 1
            /\ v.items \in Seq(T)
            /\ \A i \in 1 .. Len(v.items) : v.items[i] = s[at * size + i]
            /\ Len(v.items) = IF Len(s) - at * size < size THEN Len(s) - at * size ELSE size
            /\ v.rest + Len(v.items) + v.page * size = Len(s)
<1> DEFINE last == LastPage(s, size)
           at == IF page <= last THEN page ELSE last
           v == L!Paginate(s, page, size)
           tail == SubSeq(s, at * size + 1, Len(s))
<1>1. last \in Nat /\ last * size <= Len(s) /\ at \in Nat /\ at <= last
  BY LastPageFits
<1>2. at * size <= last * size /\ at * size \in Nat
  <2> HIDE DEF at, last
  <2>1. last * size = at * size + (last - at) * size /\ last - at \in Nat
    BY <1>1
  <2>2. (last - at) * size >= 0
    BY <2>1
  <2> QED BY <1>1, <2>1, <2>2
<1>3. L!Max({1, (Len(s) + size - 1) \div size}) = last + 1
  <2>1. L!Max({1, (Len(s) + size - 1) \div size}) \in Int
    <3>1. (Len(s) + size - 1) \div size \in Int
      OBVIOUS
    <3> QED BY <3>1, OfTwo
  <2> QED BY <2>1 DEF LastPage
<1>4. L!Min({page, last}) = at
  <2> HIDE DEF last
  <2>1. page \in Int /\ last \in Int
    BY <1>1
  <2> QED BY <2>1, OfTwo
<1>5. v.pages = last + 1 /\ v.page = at /\ v.items = L!First(tail, size)
      /\ v.rest = L!Max({0, Len(s) - at * size - size})
  <2> DEFINE big == L!Max({1, (Len(s) + size - 1) \div size})
             low == L!Min({page, big - 1})
  <2>1. v = [items |-> L!First(SubSeq(s, low * size + 1, Len(s)), size), page |-> low,
             pages |-> big, rest |-> L!Max({0, Len(s) - low * size - size})]
    BY DEF L!Paginate
  <2>2. big = last + 1
    BY <1>3
  <2>3. low = at
    <3>1. (last + 1) - 1 = last
      BY <1>1
    <3> HIDE DEF big, last, at
    <3>2. big - 1 = last
      BY <2>2, <3>1, Zenon
    <3> QED BY <1>4, <3>2, Zenon
  <2> HIDE DEF big, low, last, at, v
  <2> QED BY <2>1, <2>2, <2>3
<1> HIDE DEF last, at, v
<1>6. tail \in Seq(T) /\ Len(tail) = Len(s) - at * size
      /\ \A i \in 1 .. Len(tail) : tail[i] = s[at * size + i]
  <2> DEFINE k == at * size
  <2>1. k \in 0 .. Len(s)
    BY <1>1, <1>2
  <2> HIDE DEF k
  <2>2. /\ SubSeq(s, k + 1, Len(s)) \in Seq(T)
        /\ Len(SubSeq(s, k + 1, Len(s))) = Len(s) - k
        /\ \A i \in 1 .. Len(s) - k : SubSeq(s, k + 1, Len(s))[i] = s[k + i]
    BY <2>1
  <2> QED BY <2>2 DEF k
<1> HIDE DEF tail
<1>7. /\ v.items \in Seq(T)
      /\ Len(v.items) = IF Len(tail) < size THEN Len(tail) ELSE size
      /\ \A i \in 1 .. Len(v.items) : v.items[i] = tail[i]
  BY <1>5, <1>6, FirstFits
<1>8. \A i \in 1 .. Len(v.items) : v.items[i] = s[at * size + i]
  <2>1. Len(v.items) <= Len(tail)
    BY <1>6, <1>7
  <2> QED BY <1>6, <1>7, <2>1
<1>9. v.rest = IF Len(s) - at * size - size <= 0 THEN 0 ELSE Len(s) - at * size - size
  <2> DEFINE k == at * size
  <2>1. k \in Nat
    BY <1>2
  <2>2. v.rest = L!Max({0, Len(s) - k - size})
    BY <1>5
  <2> HIDE DEF k
  <2>3. v.rest = IF Len(s) - k - size <= 0 THEN 0 ELSE Len(s) - k - size
    BY <2>1, <2>2, OfTwo
  <2> QED BY <2>3 DEF k
<1>10. v.rest + Len(v.items) + v.page * size = Len(s)
  <2> DEFINE k == at * size
  <2>1. k \in Nat /\ k <= Len(s)
    BY <1>1, <1>2
  <2>2. Len(v.items) = IF Len(s) - k < size THEN Len(s) - k ELSE size
    BY <1>6, <1>7
  <2>3. v.rest = IF Len(s) - k - size <= 0 THEN 0 ELSE Len(s) - k - size
    BY <1>9
  <2>4. v.page * size = k
    BY <1>5
  <2> HIDE DEF k
  <2>5. v.rest + Len(v.items) + k = Len(s)
    <3> DEFINE a == v.rest
               b == Len(v.items)
               c == Len(s)
    <3>1. c \in Nat
      OBVIOUS
    <3>2. a = (IF c - k - size <= 0 THEN 0 ELSE c - k - size)
          /\ b = (IF c - k < size THEN c - k ELSE size)
      BY <2>2, <2>3
    <3> HIDE DEF a, b, c
    <3>3. a + b + k = c
      BY <2>1, <3>1, <3>2
    <3> QED BY <3>3 DEF a, b, c
  <2> QED BY <2>4, <2>5, Zenon
<1> QED BY <1>5, <1>6, <1>7, <1>8, <1>10 DEF v, at, last

(* The pages of a list are the list.                                         *)
LEMMA PagesAreTheList ==
  ASSUME NEW T, NEW s \in Seq(T), NEW size \in Nat \ {0}
  PROVE  L!Elements(s) =
           UNION {L!Elements(L!Paginate(s, k, size).items) :
                    k \in 0 .. L!Paginate(s, 0, size).pages - 1}
<1> DEFINE last == LastPage(s, size)
           page(k) == L!Paginate(s, k, size).items
<1>1. last \in Nat /\ Len(s) <= last * size + size
  BY LastPageFits
<1>2. L!Paginate(s, 0, size).pages = last + 1
  BY PageFits
<1>3. ASSUME NEW k \in 0 .. last
      PROVE  /\ page(k) \in Seq(T)
             /\ \A i \in 1 .. Len(page(k)) : page(k)[i] = s[k * size + i]
             /\ Len(page(k)) = IF Len(s) - k * size < size THEN Len(s) - k * size ELSE size
             /\ k * size \in Nat
  BY PageFits
<1> HIDE DEF last, page
<1>4. ASSUME NEW k \in 0 .. last PROVE L!Elements(page(k)) \subseteq L!Elements(s)
  <2> SUFFICES ASSUME NEW i \in DOMAIN page(k) PROVE page(k)[i] \in L!Elements(s)
    BY DEF L!Elements
  <2>1. i \in 1 .. Len(page(k)) /\ page(k)[i] = s[k * size + i]
    BY <1>3
  <2>2. k * size + i \in 1 .. Len(s)
    <3> DEFINE n == k * size
    <3>1. n \in Nat /\ Len(page(k)) <= Len(s) - n
      BY <1>3
    <3> HIDE DEF n
    <3>2. n + i \in 1 .. Len(s)
      BY <2>1, <3>1
    <3> QED BY <3>2 DEF n
  <2> QED BY <2>1, <2>2 DEF L!Elements
<1>5. ASSUME NEW i \in 1 .. Len(s)
      PROVE  \E k \in 0 .. last : s[i] \in L!Elements(page(k))
  <2> DEFINE k == (i - 1) \div size
  <2>1. k \in Nat /\ k * size <= i - 1 /\ i - 1 < k * size + size
    BY DivFits
  <2> HIDE DEF k
  <2>2. k <= last
    <3>1. SUFFICES ASSUME k >= last + 1 PROVE FALSE
      BY <1>1, <2>1
    <3>2. k * size = (last + 1) * size + (k - last - 1) * size
      BY <1>1, <2>1
    <3>3. (k - last - 1) * size >= 0 /\ (last + 1) * size = last * size + size
      BY <1>1, <2>1, <3>1
    <3> QED BY <1>1, <2>1, <3>2, <3>3
  <2> DEFINE n == k * size
             j == i - n
  <2>3. n \in Nat /\ n <= i - 1 /\ i - 1 < n + size
    BY <1>3, <2>1, <2>2
  <2>4. Len(page(k)) = IF Len(s) - n < size THEN Len(s) - n ELSE size
    BY <1>3, <2>1, <2>2
  <2>5. \A m \in 1 .. Len(page(k)) : page(k)[m] = s[n + m]
    BY <1>3, <2>1, <2>2
  <2>6. page(k) \in Seq(T)
    BY <1>3, <2>1, <2>2
  <2> HIDE DEF n
  <2>7. j \in 1 .. Len(page(k)) /\ n + j = i
    BY <2>3, <2>4
  <2>8. page(k)[j] = s[i] /\ j \in DOMAIN page(k)
    BY <2>5, <2>6, <2>7
  <2>9. s[i] \in L!Elements(page(k))
    BY <2>8 DEF L!Elements
  <2> QED BY <2>1, <2>2, <2>9
<1>6. L!Elements(s) = UNION {L!Elements(page(k)) : k \in 0 .. last}
  <2>1. \A x \in L!Elements(s) : \E k \in 0 .. last : x \in L!Elements(page(k))
    BY <1>5 DEF L!Elements
  <2> QED BY <1>4, <2>1
<1>7. 0 .. last = 0 .. L!Paginate(s, 0, size).pages - 1
  BY <1>1, <1>2
<1> QED BY <1>6, <1>7 DEF page

(* Keys that end with the row's own number.                                  *)
LEMMA KeysTell ==
  ASSUME NEW rs, ListRows(rs), NEW n \in Nat \ {0}, NEW key \in [rs -> Keys(n)],
         \A r \in rs : key[r][n] = r.id
  PROVE  Telling(rs, key, n)
BY DEF Telling, ListRows

(* The dateless rows of a screen are rows of the workspace.                 *)
LEMMA FuzzyFits ==
  ASSUME NEW rs, ListRows(rs), NEW n \in Nat
  PROVE  L!FirstFuzzy(rs, n) \subseteq rs
<1> DEFINE key == L!FuzzyKeys(rs)
           s == L!Sorted(rs, key)
<1>1. ASSUME NEW r \in rs PROVE key[r] \in Keys(3) /\ key[r][3] = r.id
  <2> DEFINE k1 == L!Rank(r.importance)
             k2 == L!NullsLast(r.review)
             k3 == r.id
  <2>1. k1 \in Int /\ k2 \in Int /\ k3 \in Int
    BY RowNumbers DEF ListRows
  <2>2. key[r] = <<k1, k2, k3>> /\ k3 = r.id
    BY DEF L!FuzzyKeys
  <2> HIDE DEF k1, k2, k3, key
  <2>3. <<k1, k2, k3>> \in Keys(3) /\ <<k1, k2, k3>>[3] = k3
    BY <2>1 DEF Keys
  <2> QED BY <2>2, <2>3
<1>2. key = [r \in rs |-> key[r]]
  BY DEF L!FuzzyKeys
<1> HIDE DEF key
<1>3. key \in [rs -> Keys(3)]
  BY <1>1, <1>2
<1>4. InOrder(s, rs, key)
  BY <1>1, <1>3, KeysTell, SortedFits DEF ListRows
<1> HIDE DEF s
<1>5. s \in Seq(rs)
  BY <1>4 DEF InOrder
<1>6. L!Elements(L!First(s, n)) \subseteq rs
  BY <1>5, FirstFits
<1> QED BY <1>6 DEF L!FirstFuzzy, s, key

(* The rows of the lists are rows of the workspace.                          *)
LEMMA ListedRows ==
  ASSUME NEW rs, ListRows(rs), NEW day \in Int
  PROVE  /\ L!ScreenRows(rs) \subseteq rs /\ ListRows(L!ScreenRows(rs))
         /\ L!Actionable(rs) \subseteq L!ScreenRows(rs)
         /\ ListRows(L!TodayRows(rs, day) \cup L!FuzzyReviews(rs, day))
         /\ \A scope : L!InScope(L!ScreenRows(rs), scope, day) \subseteq L!ScreenRows(rs)
         /\ \A scope : ListRows(L!InScope(L!ScreenRows(rs), scope, day))
<1>1. L!Actionable(rs) \subseteq rs
  BY DEF L!Actionable
<1>2. L!FuzzyForScreen(rs) \subseteq rs
  <2>1. L!Fuzzy(rs) \in SUBSET rs
    BY DEF L!Fuzzy
  <2>2. ListRows(L!Fuzzy(rs))
    BY <2>1, SomeRows
  <2>3. L!FirstFuzzy(L!Fuzzy(rs), 50) \subseteq L!Fuzzy(rs)
    BY <2>2, FuzzyFits
  <2> QED BY <2>1, <2>3 DEF L!FuzzyForScreen, L!ScreenLimit
<1>3. L!FuzzyReviews(rs, day) \subseteq rs
  <2> DEFINE fs == {r \in L!Fuzzy(rs) : r.review # L!None /\ L!LocalDay(r.review, r.zone) = day}
  <2>1. fs \in SUBSET rs
    BY DEF L!Fuzzy
  <2> HIDE DEF fs
  <2>2. ListRows(fs)
    BY <2>1, SomeRows
  <2>3. L!FirstFuzzy(fs, 20) \subseteq fs
    BY <2>2, FuzzyFits
  <2>4. L!FuzzyReviews(rs, day) = L!FirstFuzzy(fs, 20)
    BY DEF L!FuzzyReviews, L!ReviewLimit, fs
  <2> QED BY <2>1, <2>3, <2>4
<1>4. L!ScreenRows(rs) \in SUBSET rs /\ L!Actionable(rs) \subseteq L!ScreenRows(rs)
  BY <1>1, <1>2 DEF L!ScreenRows
<1>5. ListRows(L!ScreenRows(rs))
  BY <1>4, SomeRows
<1>6. ListRows(L!TodayRows(rs, day) \cup L!FuzzyReviews(rs, day))
  <2>1. L!TodayRows(rs, day) \cup L!FuzzyReviews(rs, day) \in SUBSET rs
    BY <1>1, <1>3 DEF L!TodayRows
  <2> QED BY <2>1, SomeRows
<1>7. ASSUME NEW scope
      PROVE  /\ L!InScope(L!ScreenRows(rs), scope, day) \subseteq L!ScreenRows(rs)
             /\ ListRows(L!InScope(L!ScreenRows(rs), scope, day))
  <2>1. L!InScope(L!ScreenRows(rs), scope, day) \in SUBSET L!ScreenRows(rs)
    BY DEF L!InScope
  <2> QED BY <1>5, <2>1, SomeRows
<1> QED BY <1>4, <1>5, <1>6, <1>7

(* The windows of days nest.                                                 *)
LEMMA ScopesNest ==
  ASSUME NEW rs, ListRows(rs), NEW day \in Int
  PROVE  /\ L!InScope(rs, "overdue", day) \subseteq L!InScope(rs, "today", day)
         /\ L!InScope(rs, "today", day) \subseteq L!InScope(rs, "week", day)
         /\ L!InScope(rs, "week", day) \subseteq L!InScope(rs, "month", day)
         /\ L!InScope(rs, "month", day) \subseteq L!InScope(rs, "all", day)
         /\ \A r \in rs : \A scope \in L!Scopes \ {"nodate"} :
              L!IsPast(r, day) => r \in L!InScope(rs, scope, day)
<1>1. \A r \in rs : L!LocalDate(r) \in Int
  BY RowNumbers DEF ListRows
<1>2. /\ DOMAIN L!ScopeDays = {"today", "week", "month"}
      /\ L!ScopeDays["today"] = 0 /\ L!ScopeDays["week"] = 7 /\ L!ScopeDays["month"] = 31
  BY DEF L!ScopeDays
<1> QED BY <1>1, <1>2 DEF L!InScope, L!ScopeMatches, L!Scopes

(* A date has a day, and a row of a day is on it.                            *)
LEMMA DatedRows ==
  ASSUME NEW r, L!IsRow(r), r.dated
  PROVE  /\ L!LocalDate(r) # L!None
         /\ L!Covers(r, L!LocalDate(r))
BY DEF L!IsRow, L!IsTime, L!LocalDate, L!Covers, L!None

(* What is known of a request for a list: what was asked for, and that the   *)
(* answer was made of the workspace.                                         *)
ListAnswered(scope, page, size) ==
  /\ asked = <<"list", scope, page, size>>
  /\ shown.total = Len(L!AllOf(scope))
  /\ shown.counts = L!ScopeCounts(L!ScreenRows(scenario.rows), L!Today)
  /\ shown.page = L!Paginate(L!AllOf(scope), page, size).page
  /\ shown.rest = L!Paginate(L!AllOf(scope), page, size).rest
  /\ Len(shown.groups) = Len(L!Paginate(L!AllOf(scope), page, size).items)
(* The same of the morning card.                                            *)
MorningAnswered ==
  /\ asked = <<"morning", "today", 0, 0>>
  /\ shown = L!Morning(scenario.rows, L!Today, scenario.week)
(* What the lists keep.                                                     *)
ListsInv ==
  /\ scenario \in ListScenarios
  /\ \/ asked = <<>>
     \/ \E scope \in L!Scopes, page \in ListPages, size \in PageSizes : ListAnswered(scope, page, size)
     \/ \E page \in ListPages, size \in PageSizes : asked = <<"today", "today", page, size>>
     \/ MorningAnswered

(* The scenario is a workspace.                                             *)
LEMMA Workspace ==
  ASSUME scenario \in ListScenarios
  PROVE  ListRows(scenario.rows) /\ L!Today \in Int /\ L!IsWorkspace(scenario)
BY WebAssumption DEF ListRows, L!IsWorkspace, L!Today

(* The lines of a tab.                                                      *)
LEMMA AllOfFits ==
  ASSUME scenario \in ListScenarios, NEW scope
  PROVE  LET rs == L!InScope(L!ScreenRows(scenario.rows), scope, L!Today)
         IN /\ L!AllOf(scope) = L!Groups(rs, L!Today) /\ ListRows(rs)
            /\ L!AllOf(scope) \in Seq(L!GroupsOf(rs, L!Today))
BY Workspace, ListedRows, GroupsFit DEF L!AllOf, L!Listed

(* Nothing has been asked.                                                  *)
LEMMA ListsStart == L!Init => ListsInv
BY DEF L!Init, ListsInv

(* An answer is made of the workspace as it is.                             *)
LEMMA ListsStep ==
  ASSUME ListsInv, [L!Next]_(L!vars)
  PROVE  ListsInv'
<1>1. ASSUME NEW scope \in L!Scopes, NEW page \in ListPages, NEW size \in PageSizes,
             L!AskList(scope, page, size)
      PROVE  ListsInv'
  <2> DEFINE rs == L!InScope(L!ScreenRows(scenario.rows), scope, L!Today)
             v == L!Paginate(L!AllOf(scope), page, size)
             shows(i) == L!Presented(v.items[i], scenario.now)
  <2>1. /\ asked' = <<"list", scope, page, size>> /\ scenario' = scenario
        /\ shown' = [groups |-> [i \in DOMAIN v.items |-> shows(i)],
                     counts |-> L!ScopeCounts(L!ScreenRows(scenario.rows), L!Today),
                     page |-> v.page, rest |-> v.rest, total |-> Len(L!AllOf(scope))]
    BY <1>1 DEF L!AskList, L!AllOf, L!Listed
  <2>2. v.items \in Seq(L!GroupsOf(rs, L!Today))
    <3>1. L!AllOf(scope) \in Seq(L!GroupsOf(rs, L!Today))
      BY AllOfFits DEF ListsInv
    <3>2. size \in Nat \ {0} /\ page \in Nat
      BY WebAssumption
    <3> HIDE DEF rs
    <3> QED BY <3>1, <3>2, PageFits
  <2> HIDE DEF v, shows, rs
  <2>3. DOMAIN v.items = 1 .. Len(v.items) /\ Len(v.items) \in Nat
    BY <2>2
  <2>4. Len([i \in DOMAIN v.items |-> shows(i)]) = Len(v.items)
    BY <2>3
  <2>5. /\ shown'.total = Len(L!AllOf(scope))
        /\ shown'.counts = L!ScopeCounts(L!ScreenRows(scenario.rows), L!Today)
        /\ shown'.page = v.page /\ shown'.rest = v.rest
        /\ Len(shown'.groups) = Len(v.items)
    BY <2>1, <2>4
  <2>6. L!AllOf(scope)' = L!AllOf(scope) /\ L!Today' = L!Today
    BY <2>1 DEF L!AllOf, L!Today
  <2>7. ListAnswered(scope, page, size)'
    BY <2>1, <2>5, <2>6 DEF ListAnswered, v
  <2> QED BY <2>1, <2>7 DEF ListsInv
<1>2. ASSUME NEW page \in ListPages, NEW size \in PageSizes, L!AskToday(page, size)
      PROVE  ListsInv'
  BY <1>2 DEF L!AskToday, ListsInv
<1>3. CASE L!AskMorning
  <2>1. /\ asked' = <<"morning", "today", 0, 0>> /\ scenario' = scenario
        /\ shown' = L!Morning(scenario.rows, L!Today, scenario.week)
    BY <1>3 DEF L!AskMorning
  <2>2. MorningAnswered'
    BY <2>1 DEF MorningAnswered, L!Today
  <2> QED BY <2>1, <2>2 DEF ListsInv
<1>4. CASE UNCHANGED L!vars
  <2>1. scenario' = scenario /\ asked' = asked /\ shown' = shown
    BY <1>4 DEF L!vars
  <2>2. \A scope : L!AllOf(scope)' = L!AllOf(scope)
    BY <2>1 DEF L!AllOf, L!Today
  <2>3. ASSUME NEW scope, NEW page, NEW size, ListAnswered(scope, page, size)
        PROVE  ListAnswered(scope, page, size)'
    BY <2>1, <2>2, <2>3 DEF ListAnswered, L!Today
  <2>4. MorningAnswered => MorningAnswered'
    BY <2>1 DEF MorningAnswered, L!Today
  <2> QED BY <2>1, <2>3, <2>4 DEF ListsInv
<1> QED BY <1>1, <1>2, <1>3, <1>4 DEF L!Next

(* Every row that is past is in every window of days; every row of the day  *)
(* or before is on Today or behind its badge; the card repeats the day's    *)
(* rows.                                                                    *)
LEMMA NothingIsLost ==
  ASSUME ListsInv
  PROVE  L!NothingFallsBetween
<1> DEFINE rs == scenario.rows
           day == L!Today
           live == L!Actionable(rs)
           stale == L!StaleRows(rs, day)
           listed == L!TodayListed(rs, day)
<1>0. ListRows(rs) /\ day \in Int
  BY Workspace DEF ListsInv
<1>1. ASSUME NEW scope \in L!Scopes \ {"nodate"}
      PROVE  L!Ids({r \in live : L!IsPast(r, day)}) \subseteq L!RowsOf(L!AllOf(scope))
  <2> DEFINE here1 == L!InScope(L!ScreenRows(rs), scope, day)
  <2>1. L!AllOf(scope) = L!Groups(here1, day) /\ ListRows(here1)
    BY AllOfFits DEF ListsInv
  <2>2. {r \in live : L!IsPast(r, day)} \subseteq here1
    BY <1>0, ListedRows, ScopesNest
  <2> HIDE DEF here1
  <2>3. L!RowsOf(L!AllOf(scope)) = L!Ids(here1)
    BY <1>0, <2>1, RowsOfLines
  <2> QED BY <2>2, <2>3 DEF L!Ids
<1>2. L!Ids({r \in live : L!LocalDate(r) <= day})
        \subseteq L!RowsOf(listed.groups) \cup L!Ids(stale)
  <2> DEFINE here1 == L!TodayRows(rs, day) \cup L!FuzzyReviews(rs, day)
  <2>1. listed.groups = L!Groups(here1, day) /\ ListRows(here1)
    BY <1>0, ListedRows DEF L!TodayListed
  <2>2. L!RowsOf(listed.groups) = L!Ids(here1)
    <3> HIDE DEF here1
    <3> QED BY <1>0, <2>1, RowsOfLines
  <2>3. ASSUME NEW r \in live, L!LocalDate(r) <= day PROVE r \in here1 \/ r \in stale
    <3>1. L!IsRow(r) /\ r.dated
      BY <1>0 DEF ListRows, L!Actionable
    <3>2. L!LocalDate(r) \in Int
      BY <3>1, RowNumbers
    <3>3. L!LocalDate(r) = day \/ L!LocalDate(r) < day
      BY <1>0, <2>3, <3>2
    <3>4. CASE L!Covers(r, day)
      BY <3>4 DEF L!TodayRows
    <3>5. CASE ~L!Covers(r, day)
      BY <3>1, <3>3, <3>5, DatedRows DEF L!StaleRows, L!IsStale
    <3> QED BY <3>4, <3>5
  <2> HIDE DEF here1, live, stale
  <2> QED BY <2>2, <2>3 DEF L!Ids
<1>3. ASSUME asked # <<>>, asked[1] = "morning"
      PROVE  shown.more + Len(shown.lines) =
               L!Cardinality({r \in live : L!Covers(r, day) \/ r.overdue})
  <2> DEFINE relevant == {r \in live : L!FallsOn(r, day)}
             key == [r \in relevant |-> <<L!Rank(r.importance), r.id>>]
             ordered == L!Sorted(relevant, key)
             n == Cardinality(relevant)
  <2>1. shown = L!Morning(rs, day, scenario.week)
    BY <1>3 DEF ListsInv, ListAnswered, MorningAnswered
  <2>2. shown.more = L!Max({0, Len(ordered) - 6}) /\ shown.lines = L!First(ordered, 6)
    BY <2>1 DEF L!Morning, L!CardLines
  <2>3. relevant \in SUBSET rs
    BY DEF L!Actionable
  <2>4. {r \in live : L!Covers(r, day) \/ r.overdue} = relevant
    BY DEF L!FallsOn
  <2> HIDE DEF relevant
  <2>5. ListRows(relevant)
    BY <1>0, <2>3, SomeRows
  <2>6. ASSUME NEW r \in relevant PROVE key[r] \in Keys(2) /\ key[r][2] = r.id
    <3>1. L!Rank(r.importance) \in Int /\ r.id \in Int
      BY <2>5, RowNumbers DEF ListRows
    <3> QED BY <3>1 DEF Keys
  <2>7. key = [r \in relevant |-> key[r]]
    OBVIOUS
  <2> HIDE DEF key
  <2>8. key \in [relevant -> Keys(2)]
    BY <2>6, <2>7
  <2>9. InOrder(ordered, relevant, key)
    BY <2>5, <2>6, <2>8, KeysTell, SortedFits DEF ListRows
  <2> HIDE DEF ordered
  <2>10. ordered \in Seq(relevant) /\ Len(ordered) = n /\ n \in Nat
    BY <2>9 DEF InOrder
  <2>11. Len(shown.lines) = IF n < 6 THEN n ELSE 6
    <3> DEFINE six == 6
    <3>1. six \in Nat
      OBVIOUS
    <3> HIDE DEF six
    <3>2. Len(L!First(ordered, six)) = IF Len(ordered) < six THEN Len(ordered) ELSE six
      BY <2>10, <3>1, FirstFits
    <3> QED BY <2>2, <2>10, <3>2 DEF six
  <2> HIDE DEF n
  <2>12. shown.more = IF n < 6 THEN 0 ELSE n - 6
    BY <2>2, <2>10, OfTwo
  <2>13. shown.more + Len(shown.lines) = n
    BY <2>10, <2>11, <2>12
  <2> QED BY <2>4, <2>13, SameCountOfLists DEF n
<1> QED BY <1>1, <1>2, <1>3 DEF L!NothingFallsBetween

(* The windows nest, a badge is the number of lines of its tab, every row   *)
(* has one line, past lines come first, and the pages of a tab are the tab. *)
LEMMA TabsFit ==
  ASSUME ListsInv
  PROVE  L!TabsAreConsistent
<1> SUFFICES ASSUME asked # <<>>, asked[1] = "list" PROVE L!TabsAreConsistent
  BY DEF L!TabsAreConsistent
<1> DEFINE day == L!Today
           all == L!ScreenRows(scenario.rows)
<1>1. PICK scope \in L!Scopes, page \in ListPages, size \in PageSizes : ListAnswered(scope, page, size)
  BY DEF ListsInv, MorningAnswered
<1>2. asked[2] = scope /\ asked[4] = size /\ size \in Nat \ {0} /\ page \in Nat
  BY <1>1, WebAssumption DEF ListAnswered
<1>3. ListRows(all) /\ day \in Int
  BY Workspace, ListedRows DEF ListsInv
<1> DEFINE rs == L!InScope(all, scope, day)
           gs == L!GroupsOf(rs, day)
           groups == L!AllOf(scope)
<1>4. groups = L!Groups(rs, day) /\ ListRows(rs) /\ groups \in Seq(gs)
  BY AllOfFits DEF ListsInv
<1>5. shown.total = shown.counts[scope]
  <2>1. shown.counts = L!ScopeCounts(all, day) /\ shown.total = Len(groups)
    BY <1>1 DEF ListAnswered
  <2>2. L!ScopeCounts(all, day)[scope] = L!Count(rs, day)
    BY DEF L!ScopeCounts
  <2>3. L!Count(rs, day) = Len(groups)
    BY <1>4 DEF L!Count
  <2> QED BY <2>1, <2>2, <2>3
<1>6. /\ shown.counts["overdue"] <= shown.counts["today"]
      /\ shown.counts["today"] <= shown.counts["week"]
      /\ shown.counts["week"] <= shown.counts["month"]
      /\ shown.counts["month"] <= shown.counts["all"]
  <2> DEFINE n(x) == L!Count(L!InScope(all, x, day), day)
  <2>1. /\ shown.counts["overdue"] = n("overdue") /\ shown.counts["today"] = n("today")
        /\ shown.counts["week"] = n("week") /\ shown.counts["month"] = n("month")
        /\ shown.counts["all"] = n("all")
    BY <1>1 DEF ListAnswered, L!ScopeCounts, L!Scopes
  <2>2. ASSUME NEW x, NEW y, L!InScope(all, x, day) \subseteq L!InScope(all, y, day)
        PROVE  n(x) <= n(y)
    <3>1. ListRows(L!InScope(all, y, day))
      BY Workspace, ListedRows DEF ListsInv
    <3>2. L!InScope(all, x, day) \in SUBSET L!InScope(all, y, day)
      BY <2>2
    <3> HIDE DEF all, day
    <3> QED BY <1>3, <3>1, <3>2, CountGrows
  <2>3. n("overdue") <= n("today") /\ n("today") <= n("week") /\ n("week") <= n("month")
        /\ n("month") <= n("all")
    <3> HIDE DEF n, all, day
    <3> QED BY <1>3, <2>2, ScopesNest
  <2> HIDE DEF n
  <2> QED BY <2>1, <2>3
<1>7. Lines(rs, gs) /\ InOrder(groups, gs, GroupKeys(rs, day))
      /\ DOMAIN groups = 1 .. Cardinality(gs) /\ Cardinality(gs) \in Nat
  <2>1. Lines(rs, gs) /\ InOrder(groups, gs, GroupKeys(rs, day))
    <3> HIDE DEF rs, day
    <3> QED BY <1>3, <1>4, LinesFit, GroupsFit
  <2> QED BY <2>1 DEF InOrder
<1> HIDE DEF rs, gs, groups
<1>8. ASSUME NEW i \in DOMAIN groups, NEW j \in DOMAIN groups,
             L!IsPast(groups[i].lead, day), ~L!IsPast(groups[j].lead, day)
      PROVE  i < j
  <2> DEFINE ki == L!GroupKey(groups[i], day)
             kj == L!GroupKey(groups[j], day)
  <2>1. ki[1] = 0 /\ kj[1] = 1
    BY <1>8 DEF L!GroupKey
  <2>2. ~L!KeyBefore(kj, ki)
    <3>1. 1 \in DOMAIN kj /\ \A m \in DOMAIN kj : m \in Nat /\ m >= 1
      BY DEF L!GroupKey
    <3> HIDE DEF ki, kj
    <3>2. ASSUME NEW m \in DOMAIN kj, kj[m] < ki[m], \A k \in 1 .. m - 1 : kj[k] = ki[k]
          PROVE  FALSE
      <4>1. m = 1 \/ 1 \in 1 .. m - 1
        BY <3>1
      <4> QED BY <2>1, <3>2, <4>1
    <3> QED BY <3>2 DEF L!KeyBefore
  <2>3. GroupKeys(rs, day)[groups[i]] = ki /\ GroupKeys(rs, day)[groups[j]] = kj
    <3>1. groups[i] \in gs /\ groups[j] \in gs
      BY <1>7 DEF InOrder
    <3> QED BY <3>1 DEF GroupKeys, gs
  <2> HIDE DEF ki, kj
  <2>4. ~(j < i)
    BY <1>7, <2>2, <2>3 DEF InOrder
  <2>5. i # j
    BY <2>1 DEF ki, kj
  <2> QED BY <1>7, <2>4, <2>5
<1>9. ASSUME NEW i \in DOMAIN groups, NEW j \in DOMAIN groups, i # j
      PROVE  L!RowsOf(<<groups[i]>>) \cap L!RowsOf(<<groups[j]>>) = {}
  <2> DEFINE g == groups[i]
             h == groups[j]
  <2>1. g \in gs /\ h \in gs /\ g # h
    BY <1>7, <1>9 DEF InOrder
  <2> HIDE DEF g, h
  <2>2. g.title # h.title
    BY <1>7, <2>1 DEF Lines
  <2>3. /\ L!RowsOf(<<g>>) = L!Ids(L!Titled(rs, g.title))
        /\ L!RowsOf(<<h>>) = L!Ids(L!Titled(rs, h.title))
    BY <1>7, <2>1, RowsOfLine DEF Lines
  <2>4. L!Ids(L!Titled(rs, g.title)) \cap L!Ids(L!Titled(rs, h.title)) = {}
    BY <1>4, <2>2 DEF L!Ids, L!Titled, ListRows
  <2> QED BY <2>3, <2>4 DEF g, h
<1>10. L!Elements(groups) =
         UNION {L!Elements(L!Paginate(groups, k, size).items) :
                  k \in 0 .. L!Paginate(groups, 0, size).pages - 1}
  BY <1>2, <1>4, PagesAreTheList
<1>11. shown.rest + Len(shown.groups) + shown.page * size = Len(groups)
  <2>1. /\ shown.page = L!Paginate(groups, page, size).page
        /\ shown.rest = L!Paginate(groups, page, size).rest
        /\ Len(shown.groups) = Len(L!Paginate(groups, page, size).items)
    BY <1>1 DEF ListAnswered, groups
  <2>2. L!Paginate(groups, page, size).rest + Len(L!Paginate(groups, page, size).items)
          + L!Paginate(groups, page, size).page * size = Len(groups)
    BY <1>2, <1>4, PageFits
  <2> QED BY <2>1, <2>2
<1> HIDE DEF day
<1> QED BY <1>2, <1>5, <1>6, <1>8, <1>9, <1>10, <1>11
     DEF L!TabsAreConsistent, groups, day

(* What the badge counts as past reads as overdue on its line.              *)
LEMMA PastIsOverdue ==
  ASSUME ListsInv
  PROVE  L!PastReadsOverdue
BY DEF L!PastReadsOverdue, L!IsPast, L!IsStale, L!ReadsOverdue, L!Today

(* Every variable of the lists has its type.                                *)
LEMMA ListsTyped ==
  ASSUME ListsInv
  PROVE  L!TypeOK
<1>1. L!IsWorkspace(scenario) /\ scenario \in ListScenarios
  BY Workspace DEF ListsInv
<1>2. asked # <<>> => asked[2] \in L!Scopes
  BY DEF ListsInv, ListAnswered, MorningAnswered, L!Scopes
<1> QED BY <1>1, <1>2 DEF L!TypeOK

------------------------------------------------------------------------------
(* The dates of a schedule.                                                 *)

(* The times of a schedule.                                                  *)
Times == [start: Int, end: Int, date: Int, due: Int, dueDate: Int, review: Int]
TimeModes == {"point", "window", "deadline", "fuzzy"}

(* A schedule without times.                                                *)
LEMMA NoTimesFit == S!NoTimes \in Times /\ S!None \in Int
BY DEF S!NoTimes, S!None, Times

(* Of instants near each other there is an earliest.                        *)
LEMMA LeastOfNear ==
  ASSUME NEW a \in Int, NEW b \in Int, NEW X \in SUBSET (a .. b), X # {}
  PROVE  S!Min(X) \in Int
<1> DEFINE Y == {x - a : x \in X}
<1>0. \A x \in X : x \in Int /\ x - a \in Nat
  OBVIOUS
<1>1. Y \in SUBSET Nat /\ Y # {}
  BY <1>0
<1>2. PICK n \in Y : \A m \in Y : n <= m
  <2> HIDE DEF Y
  <2> QED BY <1>1, Least
<1>3. PICK x \in X : n = x - a
  BY <1>2
<1>4. \A y \in X : x <= y
  <2> TAKE y \in X
  <2>1. y - a \in Y
    OBVIOUS
  <2>2. n <= y - a
    BY <1>2, <2>1
  <2> HIDE DEF Y
  <2> QED BY <1>0, <1>3, <2>2
<1>5. S!Min(X) \in X
  BY <1>4 DEF S!Min
<1> QED BY <1>0, <1>5

(* The greater of two numbers.                                              *)
LEMMA LaterOfTwo ==
  ASSUME NEW a \in Int, NEW b \in Int
  PROVE  S!Max({a, b}) \in Int /\ S!Max({a, b}) >= a
<1>1. \E x \in {a, b} : \A y \in {a, b} : x >= y
  OBVIOUS
<1> QED BY <1>1 DEF S!Max

(* A local time is mapped to an instant (localDateTimeToUtc).                *)
LEMMA LocalFits ==
  ASSUME NEW z, S!IsZone(z), NEW u \in Int
  PROVE  /\ S!LocalAt(z, u) \in Int
         /\ S!LocalDateAt(z, u) \in Int /\ S!LocalTimeAt(z, u) \in Int
BY DEF S!IsZone, S!LocalAt, S!OffsetAt, S!LocalDateAt, S!LocalTimeAt, S!Day

(* A local time is mapped to an instant (localDateTimeToUtc).               *)
LEMMA MappedFits ==
  ASSUME NEW z, S!IsZone(z), NEW d \in Int, NEW t \in Int
  PROVE  S!localDateTimeToUtc(z, d, t).at \in Int
<1> DEFINE n == d * S!Day + t
           c == S!Candidate(z, n)
           exact == S!Exact(z, n, c)
           nearest == S!Nearest(z, S!Later(z, d, n, c))
<1>1. n \in Int
  BY DEF S!Day
<1> HIDE DEF n
<1>2. \A u \in Int : u + n - S!LocalAt(z, u) \in Int
  BY <1>1, LocalFits
<1>3. c \in Int
  BY <1>1, <1>2 DEF S!Candidate
<1>4. S!localDateTimeToUtc(z, d, t) = S!Mapped(exact, nearest)
  BY DEF S!localDateTimeToUtc, S!MappedAround, n
<1>5. exact \in SUBSET ((c - 8) .. (c + 8)) /\ nearest \in SUBSET ((c - 8) .. (c + 8))
  <2> HIDE DEF c
  <2>1. exact \in SUBSET ((c - 8) .. (c + 8))
    BY <1>3 DEF S!Exact
  <2>2. nearest \in SUBSET ((c - 8) .. (c + 8))
    BY <1>3 DEF S!Nearest, S!Later
  <2> QED BY <2>1, <2>2
<1> HIDE DEF c, exact, nearest
<1> c - 8 \in Int /\ c + 8 \in Int
  BY <1>3
<1>6. exact # {} => S!Min(exact) \in Int
  BY <1>3, <1>5, LeastOfNear
<1>7. nearest # {} => S!Min(nearest) \in Int
  BY <1>3, <1>5, LeastOfNear
<1> QED BY <1>4, <1>6, <1>7 DEF S!Mapped, S!None

(* compileWhen makes a mode and times of what is asked for.                 *)
LEMMA CompiledFits ==
  ASSUME NEW w, S!IsWhen(w), NEW at, at.at \in Int, NEW look, look.at \in Int
  PROVE  /\ S!Compiled(w, at, look).mode \in TimeModes
         /\ S!Compiled(w, at, look).times \in Times
<1>1. \A i \in Int : /\ [S!NoTimes EXCEPT !.start = i] \in Times
                     /\ [S!NoTimes EXCEPT !.date = i] \in Times
                     /\ [S!NoTimes EXCEPT !.due = i] \in Times
                     /\ [S!NoTimes EXCEPT !.dueDate = i] \in Times
                     /\ [S!NoTimes EXCEPT !.review = i] \in Times
  BY NoTimesFit DEF Times
<1>2. \A i, j \in Int : [S!NoTimes EXCEPT !.start = i, !.end = j] \in Times
  BY NoTimesFit DEF Times
<1> HIDE DEF Times
<1>3. w.date \in Int /\ w.duration \in Nat /\ w.mode \in {"exact", "date", "deadline", "fuzzy"}
  BY DEF S!IsWhen
<1>4. at.at + w.duration \in Int
  BY <1>3
<1>5. CASE w.mode = "exact"
  <2>1. CASE w.duration > 0
    <3> DEFINE x == [S!NoTimes EXCEPT !.start = at.at, !.end = at.at + w.duration]
    <3>1. S!Compiled(w, at, look) = [ok |-> at.ok, mode |-> "window", times |-> x]
      BY <1>5, <2>1 DEF S!Compiled
    <3>2. x \in Times
      BY <1>2, <1>4
    <3> HIDE DEF x
    <3> QED BY <3>1, <3>2 DEF TimeModes
  <2>2. CASE w.duration = 0
    <3> DEFINE x == [S!NoTimes EXCEPT !.start = at.at]
    <3>1. S!Compiled(w, at, look) = [ok |-> at.ok, mode |-> "point", times |-> x]
      BY <1>5, <2>2 DEF S!Compiled
    <3>2. x \in Times
      BY <1>1
    <3> HIDE DEF x
    <3> QED BY <3>1, <3>2 DEF TimeModes
  <2> QED BY <1>3, <2>1, <2>2
<1>6. CASE w.mode = "date"
  BY <1>1, <1>3, <1>6 DEF S!Compiled, TimeModes
<1>7. CASE w.mode = "deadline"
  <2>1. CASE w.time = S!None
    BY <1>1, <1>3, <1>7, <2>1 DEF S!Compiled, TimeModes
  <2>2. CASE w.time # S!None
    BY <1>1, <1>3, <1>7, <2>2 DEF S!Compiled, TimeModes
  <2> QED BY <2>1, <2>2
<1>8. CASE w.mode = "fuzzy"
  BY <1>1, <1>3, <1>8 DEF S!Compiled, TimeModes
<1> QED BY <1>3, <1>5, <1>6, <1>7, <1>8

(* A story of this world, and what a request becomes in it (compileWhen).    *)
Story == scenario \in ScheduleScenarios /\ now \in Nat

(* What the story is given.                                                 *)
LEMMA StoryIs ==
  ASSUME Story
  PROVE  S!IsScenario(scenario) /\ S!IsZone(scenario.zone) /\ now \in Int
BY WebAssumption DEF Story, S!IsScenario

(* The same of a zone.                                                      *)
LEMMA CompileFits ==
  ASSUME NEW z, S!IsZone(z), NEW w, S!IsWhen(w), NEW t \in Int
  PROVE  /\ S!CompileWhen(z, w, t).mode \in TimeModes
         /\ S!CompileWhen(z, w, t).times \in Times
<1>1. w.date \in Int /\ w.time \in Int
  BY DEF S!IsWhen
<1> QED BY <1>1, MappedFits, CompiledFits DEF S!CompileWhen

(* The checkpoint of a task without a date.                                 *)
LEMMA ReviewFits ==
  ASSUME Story, NEW w
  PROVE  S!ReviewTime(w) \in Int
<1>1. S!LocalTimeAt(scenario.zone, now) + 2 \in Int
  BY StoryIs, LocalFits
<1>2. scenario.morning \in Int
  BY StoryIs DEF S!IsScenario
<1> QED BY <1>1, <1>2 DEF S!ReviewTime

(* A request for a time in this story.                                       *)
LEMMA RequestFits ==
  ASSUME Story, NEW w, S!IsWhen(w)
  PROVE  /\ S!CompileWhen(scenario.zone, w, S!ReviewTime(w)).mode \in TimeModes
         /\ S!CompileWhen(scenario.zone, w, S!ReviewTime(w)).times \in Times
BY StoryIs, ReviewFits, CompileFits

(* What a task is defined as: the mode and the times of a schedule.          *)
Defined(t) ==
  /\ DOMAIN t = {"kind", "critical", "mode", "times", "rule", "missed"}
  /\ t.mode \in TimeModes \cup {"none"} /\ t.times \in Times

(* taskDefinitionFromBody makes such a definition.                          *)
LEMMA DefinitionFits ==
  ASSUME Story, NEW req, S!IsWhen(req.when)
  PROVE  Defined(S!DefinitionOf(scenario.zone, req).def)
<1> DEFINE s == S!CompileWhen(scenario.zone, req.when, S!ReviewTime(req.when))
           d == S!DefinedAt(scenario.zone, req, s).def
<1>1. s.mode \in TimeModes /\ s.times \in Times
  BY RequestFits
<1> HIDE DEF s
<1>2. /\ DOMAIN d = {"kind", "critical", "mode", "times", "rule", "missed"}
      /\ d.mode = s.mode /\ d.times = s.times
  BY DEF S!DefinedAt
<1> HIDE DEF d
<1>3. S!DefinitionOf(scenario.zone, req).def = d
  BY DEF S!DefinitionOf, s, d
<1> QED BY <1>1, <1>2, <1>3 DEF Defined

(* So does seriesDefinitionFromReschedule.                                  *)
LEMMA SeriesFits ==
  ASSUME Story, Defined(task), NEW req, S!IsWhen(req.when)
  PROVE  Defined(S!SeriesDefinition(scenario.zone, req).def)
<1> DEFINE s == S!CompileWhen(scenario.zone, req.when, S!ReviewTime(req.when))
           d == S!SeriesDefinedAt(scenario.zone, req, s).def
<1>1. s.mode \in TimeModes /\ s.times \in Times
  BY RequestFits
<1> HIDE DEF s
<1>2. /\ DOMAIN d = {"kind", "critical", "mode", "times", "rule", "missed"}
      /\ d.mode = task.mode /\ d.times = s.times
  BY DEF S!SeriesDefinedAt, Defined
<1> HIDE DEF d
<1>3. S!SeriesDefinition(scenario.zone, req).def = d
  BY DEF S!SeriesDefinition, s, d
<1> QED BY <1>1, <1>2, <1>3 DEF Defined

(* A row: its state and its times.                                           *)
DatedAs(r) ==
  /\ DOMAIN r = {"key", "status", "times", "expires", "adjusted", "overdue", "moved"}
  /\ r.status \in {"scheduled", "open", "skipped", "elapsed"} /\ r.times \in Times

(* A row that is made.                                                      *)
LEMMA RowFits ==
  ASSUME NEW key, NEW status \in {"scheduled", "open"}, NEW x \in Times, NEW expires, NEW adjusted
  PROVE  DatedAs(S!Row(key, status, x, expires, adjusted))
BY DEF S!Row, DatedAs

(* A row that is made or moved is scheduled or open (statusForProjection).  *)
LEMMA StatusFits ==
  ASSUME NEW z, NEW x, NEW key
  PROVE  S!StatusOf(z, x, key) \in {"scheduled", "open"}
BY DEF S!StatusOf

(* The day a series begins on.                                              *)
LEMMA AnchorFits ==
  ASSUME NEW z, S!IsZone(z), NEW mode, NEW x \in Times
  PROVE  S!AnchorDate(z, mode, x) \in Int
<1>1. x.start \in Int /\ x.date \in Int /\ x.due \in Int /\ x.dueDate \in Int
  BY DEF Times
<1>2. S!LocalDateAt(z, x.start) \in Int /\ S!LocalDateAt(z, x.due) \in Int
  BY <1>1, LocalFits
<1> QED BY <1>1, <1>2 DEF S!AnchorDate

(* What a date of a series carries (buildProjectionForDate).                 *)
LEMMA ProjectionFits ==
  ASSUME NEW z, S!IsZone(z), NEW def, def.times \in Times, NEW anchor \in Int, NEW d \in Int
  PROVE  S!Projection(z, def, anchor, d).times \in Times
<1> DEFINE x == def.times
           at == [f \in {"start", "end", "due"} |-> S!Shifted(z, x[f], anchor, d)]
<1>1. x \in Times
  OBVIOUS
<1>2. x["start"] \in Int /\ x["end"] \in Int /\ x["due"] \in Int /\ x["date"] \in Int /\ x["dueDate"] \in Int
  <2> HIDE DEF x
  <2> QED BY <1>1 DEF Times
<1>3. \A u \in Int : S!Shifted(z, u, anchor, d).at \in Int
  <2> SUFFICES ASSUME NEW u \in Int PROVE S!Shifted(z, u, anchor, d).at \in Int
    OBVIOUS
  <2>1. S!LocalDateAt(z, u) \in Int /\ S!LocalTimeAt(z, u) \in Int
    BY LocalFits
  <2>2. d + S!LocalDateAt(z, u) - anchor \in Int
    BY <2>1
  <2>3. S!localDateTimeToUtc(z, d + S!LocalDateAt(z, u) - anchor, S!LocalTimeAt(z, u)).at \in Int
    BY <2>1, <2>2, MappedFits
  <2> QED BY <2>3 DEF S!Shifted, S!None
<1>4. at["start"].at \in Int /\ at["end"].at \in Int /\ at["due"].at \in Int
  <2> HIDE DEF x
  <2> QED BY <1>2, <1>3
<1>5. S!Projection(z, def, anchor, d) = S!Projected(x, d - anchor, at)
  BY DEF S!Projection
<1> HIDE DEF x, at
<1> QED BY <1>2, <1>4, <1>5 DEF S!Projected, S!None, Times

(* The rows of a series and of a single date (buildRecurringOccurrences,     *)
(* buildOneTimeOccurrence).                                                  *)
LEMMA BuiltFits ==
  ASSUME Story, NEW def, Defined(def)
  PROVE  \A r \in S!Built(scenario.zone, def).rows : DatedAs(r)
<1> DEFINE z == scenario.zone
           seed == S!AnchorDate(z, def.mode, def.times)
           of == [d \in S!DatesOf(def.rule, seed, S!Extension(def.rule)) |->
                    S!Projection(z, def, seed, d)]
           b == S!BuiltFrom(z, def, of)
<1>1. def.times \in Times /\ S!IsZone(z) /\ seed \in Int
  BY StoryIs, AnchorFits DEF Defined
<1>2. S!Today \in Int /\ S!Today + HorizonDays \in Int
  BY StoryIs, LocalFits, WebAssumption DEF S!Today
<1>3. ASSUME NEW d \in DOMAIN of, d \in Int PROVE of[d].times \in Times
  <2>1. of[d] = S!Projection(z, def, seed, d)
    OBVIOUS
  <2> HIDE DEF z, seed, of
  <2> QED BY <1>1, <1>3, <2>1, ProjectionFits
<1>4. S!Built(scenario.zone, def) = b
  BY DEF S!Built
<1> HIDE DEF z, of
<1>5. ASSUME NEW r \in b.rows PROVE DatedAs(r)
  <2>1. PICK d, status, expires :
          /\ d \in DOMAIN of /\ status \in {"scheduled", "open"}
          /\ d \in S!Today .. (S!Today + HorizonDays)
          /\ r = S!Row(d, status, of[d].times, expires, of[d].adjusted)
    BY <1>5, StatusFits DEF S!BuiltFrom
  <2>2. d \in Int
    BY <1>2, <2>1
  <2> QED BY <1>3, <2>1, <2>2, RowFits
<1> QED BY <1>4, <1>5

(* The row of a single date.                                                *)
LEMMA OnceFits ==
  ASSUME NEW z, NEW def, Defined(def)
  PROVE  \A r \in S!BuiltOnce(z, def) : DatedAs(r)
<1>1. def.times \in Times /\ S!StatusOf(z, def.times, S!None) \in {"scheduled", "open"}
  BY StatusFits DEF Defined
<1>2. DatedAs(S!Row(S!None, S!StatusOf(z, def.times, S!None), def.times, S!None, FALSE))
  BY <1>1, RowFits
<1> QED BY <1>2 DEF S!BuiltOnce

(* The three buttons of a card, and what the app writes back as a request    *)
(* (quickRescheduleSchedule, whenFromRescheduleFields, whenFromDraft).       *)
LEMMA TimesAre ==
  ASSUME NEW x \in Times
  PROVE  /\ x.start \in Int /\ x.end \in Int /\ x.date \in Int
         /\ x.due \in Int /\ x.dueDate \in Int /\ x.review \in Int
BY DEF Times

(* A schedule at an instant keeps its length.                               *)
LEMMA ScheduledFits ==
  ASSUME NEW mode, NEW x \in Times, NEW at \in Int
  PROVE  S!ScheduledAt(mode, x, at) \in Times
<1>1. \A i \in Int : /\ [S!NoTimes EXCEPT !.start = i] \in Times
                     /\ [S!NoTimes EXCEPT !.due = i] \in Times
  BY NoTimesFit DEF Times
<1>2. \A i, j \in Int : [S!NoTimes EXCEPT !.start = i, !.end = j] \in Times
  BY NoTimesFit DEF Times
<1>3. (IF x.start # S!None /\ x.end # S!None THEN S!Max({1, x.end - x.start}) ELSE 2) \in Int
  <2>1. x.end - x.start \in Int
    BY TimesAre
  <2>2. S!Max({1, x.end - x.start}) \in Int
    BY <2>1, LaterOfTwo
  <2> QED BY <2>2
<1>4. at + (IF x.start # S!None /\ x.end # S!None THEN S!Max({1, x.end - x.start}) ELSE 2) \in Int
  BY <1>3
<1> HIDE DEF Times
<1>5. CASE mode = "deadline"
  BY <1>1, <1>5 DEF S!ScheduledAt
<1>6. CASE mode = "window"
  BY <1>2, <1>4, <1>6 DEF S!ScheduledAt
<1>7. CASE mode \notin {"deadline", "window"}
  BY <1>1, <1>7 DEF S!ScheduledAt
<1> QED BY <1>5, <1>6, <1>7

(* What a button of a card moves a date to.                                 *)
LEMMA QuickFits ==
  ASSUME Story, NEW choice \in {"1h", "evening", "tomorrow"}, NEW mode, NEW x \in Times
  PROVE  S!Quick(scenario.zone, choice, mode, x) \in Times
<1> DEFINE z == scenario.zone
           day == S!LocalDateAt(z, now)
           source == IF mode = "deadline" THEN x.due ELSE x.start
           clock == IF source # S!None THEN S!LocalTimeAt(z, source) ELSE scenario.morning
<1>1. S!IsZone(z) /\ now \in Int /\ scenario.morning \in Int /\ scenario.evening \in Int
  BY StoryIs DEF S!IsScenario
<1>2. day \in Int /\ day + 1 \in Int /\ clock \in Int
  <2>1. source \in Int
    BY TimesAre
  <2> HIDE DEF source, z
  <2> QED BY <1>1, <2>1, LocalFits
<1> HIDE DEF day, clock
<1>3. \A d, t \in Int : S!Instant(z, d, t) \in Int
  BY <1>1, MappedFits DEF S!Instant
<1>4. now + 2 \in Int
  BY <1>1
<1>5. /\ S!ScheduledAt(mode, x, now + 2) \in Times
      /\ S!ScheduledAt(mode, x, S!Instant(z, day, scenario.evening)) \in Times
      /\ S!ScheduledAt(mode, x, S!Instant(z, day + 1, scenario.evening)) \in Times
      /\ S!ScheduledAt(mode, x, S!Instant(z, day + 1, clock)) \in Times
  BY <1>1, <1>2, <1>3, <1>4, ScheduledFits
<1>6. [S!NoTimes EXCEPT !.dueDate = day + 1] \in Times /\ [S!NoTimes EXCEPT !.date = day + 1] \in Times
  BY <1>2, NoTimesFit DEF Times
<1>7. CASE choice = "1h"
  BY <1>5, <1>7 DEF S!Quick
<1>8. CASE choice = "evening"
  BY <1>5, <1>8 DEF S!Quick, day
<1>9. CASE choice = "tomorrow"
  BY <1>5, <1>6, <1>9 DEF S!Quick, day, clock
<1> QED BY <1>7, <1>8, <1>9

(* A schedule is written back as a request.                                 *)
LEMMA WhenFits ==
  ASSUME NEW z, S!IsZone(z), NEW x \in Times
  PROVE  S!IsWhen(S!WhenOf(z, x))
<1>1. /\ x.start \in Int /\ x.end \in Int /\ x.date \in Int /\ x.due \in Int /\ x.dueDate \in Int
      /\ S!None \in Int
  BY TimesAre, NoTimesFit
<1>2. \A u \in Int : S!LocalDateAt(z, u) \in Int /\ S!LocalTimeAt(z, u) \in Int
  BY LocalFits
<1>3. (IF x.end # S!None THEN S!Max({0, x.end - x.start}) ELSE 0) \in Nat
  <2>1. x.end - x.start \in Int
    BY <1>1
  <2>2. S!Max({0, x.end - x.start}) \in Int /\ S!Max({0, x.end - x.start}) >= 0
    BY <2>1, LaterOfTwo
  <2> QED BY <2>2
<1> QED BY <1>1, <1>2, <1>3 DEF S!WhenOf, S!IsWhen

(* So is the draft of the editor.                                           *)
LEMMA DraftFits ==
  ASSUME NEW z, S!IsZone(z), NEW x \in Times
  PROVE  S!IsWhen(S!DraftOf(z, x))
<1>1. x.start \in Int /\ x.end \in Int /\ S!None \in Int
  BY TimesAre, NoTimesFit
<1>2. [x EXCEPT !.date = S!None] \in Times
  BY <1>1 DEF Times
<1>3. CASE x.start # S!None /\ x.end # S!None
  <2> DEFINE between == S!LocalTimeAt(z, x.end) - S!LocalTimeAt(z, x.start)
             length == IF between > 0 THEN between ELSE between + S!Day
             w == S!WhenOf(z, x)
  <2>1. S!LocalTimeAt(z, x.end) \in 0 .. 47 /\ S!LocalTimeAt(z, x.start) \in 0 .. 47
    <3>1. S!LocalAt(z, x.end) \in Int /\ S!LocalAt(z, x.start) \in Int
      BY <1>1, LocalFits
    <3> QED BY <3>1 DEF S!LocalTimeAt, S!Day
  <2>2. length \in Nat
    BY <2>1 DEF S!Day
  <2>3. S!IsWhen(w) /\ w = [mode |-> w.mode, date |-> w.date, time |-> w.time, duration |-> w.duration]
    <3>1. w = [mode |-> w.mode, date |-> w.date, time |-> w.time, duration |-> w.duration]
      BY <1>3 DEF S!WhenOf
    <3> QED BY <3>1, WhenFits
  <2>4. S!DraftOf(z, x) = [w EXCEPT !.duration = length]
    BY <1>3 DEF S!DraftOf
  <2> HIDE DEF length, w
  <2> QED BY <2>2, <2>3, <2>4 DEF S!IsWhen
<1>4. CASE ~(x.start # S!None /\ x.end # S!None)
  BY <1>2, <1>4, WhenFits DEF S!DraftOf
<1> QED BY <1>3, <1>4

(* A row that is moved, and one the minute loop has looked at.               *)
LEMMA MovedFits ==
  ASSUME Story, NEW r, DatedAs(r), NEW w, S!IsWhen(w)
  PROVE  DatedAs(S!Moved(scenario.zone, r, w).row)
<1> DEFINE s == S!CompileWhen(scenario.zone, w, S!ReviewTime(w))
           status == S!StatusOf(scenario.zone, s.times, S!None)
           q == [r EXCEPT !.status = status, !.times = s.times, !.overdue = FALSE, !.moved = TRUE]
<1>1. s.times \in Times /\ status \in {"scheduled", "open"}
  BY RequestFits, StatusFits
<1>2. S!Moved(scenario.zone, r, w).row = q
  BY DEF S!Moved, S!MovedTo
<1> HIDE DEF s, status
<1>3. /\ DOMAIN q = {"key", "status", "times", "expires", "adjusted", "overdue", "moved"}
      /\ q.status = status /\ q.times = s.times
  BY DEF DatedAs
<1> HIDE DEF q
<1> QED BY <1>1, <1>2, <1>3 DEF DatedAs

(* What the minute loop makes of a row.                                     *)
LEMMA AgedFits ==
  ASSUME NEW r, DatedAs(r)
  PROVE  DatedAs(S!Aged(r))
<1>1. ASSUME NEW status \in {"skipped", "elapsed", "open"} PROVE DatedAs([r EXCEPT !.status = status])
  BY DEF DatedAs
<1>2. DatedAs([r EXCEPT !.overdue = TRUE])
  BY DEF DatedAs
<1> QED BY <1>1, <1>2 DEF S!Aged

(* What the dates of a schedule keep.                                        *)
SchedulesInv ==
  /\ Story /\ edits \in 0 .. scenario.edits
  /\ outcome \in {"none", "refused", "failed", "made", "stuck"}
  /\ Defined(task) /\ \A r \in rows : DatedAs(r)

(* A story begins without a task.                                           *)
LEMMA SchedulesStart == S!Init => SchedulesInv
<1> SUFFICES ASSUME S!Init PROVE SchedulesInv
  OBVIOUS
<1>1. S!IsScenario(scenario)
  BY WebAssumption DEF S!Init
<1>2. Defined(task)
  BY NoTimesFit DEF S!Init, S!NoTask, Defined
<1> QED BY <1>1, <1>2 DEF S!Init, S!IsScenario, SchedulesInv, Story

(* The bound on the changes.                                                *)
LEMMA EditFits ==
  ASSUME SchedulesInv, S!Edit
  PROVE  edits' \in 0 .. scenario.edits
BY StoryIs DEF SchedulesInv, S!Edit, S!IsScenario

(* A task is created, or refused.                                           *)
LEMMA CreateKeeps ==
  ASSUME SchedulesInv, S!Create
  PROVE  SchedulesInv'
<1> DEFINE d == S!DefinitionOf(scenario.zone, scenario.request).def
<1>1. Defined(d)
  BY StoryIs, DefinitionFits DEF SchedulesInv, S!IsScenario
<1>2. (\A r \in S!Built(scenario.zone, d).rows : DatedAs(r))
      /\ (\A r \in S!BuiltOnce(scenario.zone, d) : DatedAs(r))
  <2> HIDE DEF d
  <2> QED BY <1>1, BuiltFits, OnceFits DEF SchedulesInv
<1>3. /\ scenario' = scenario /\ now' = now /\ edits' = edits
      /\ \/ task' = task /\ rows' = rows
         \/ task' = d /\ rows' \in {S!Built(scenario.zone, d).rows, S!BuiltOnce(scenario.zone, d)}
      /\ outcome' \in {"refused", "failed", "made"}
  BY DEF S!Create
<1> HIDE DEF d
<1> QED BY <1>1, <1>2, <1>3 DEF SchedulesInv, Story

(* A series is filled again.                                                *)
LEMMA RefillKeeps ==
  ASSUME SchedulesInv, S!Refill
  PROVE  SchedulesInv'
<1>1. \A r \in S!Built(scenario.zone, task).rows : DatedAs(r)
  BY BuiltFits DEF SchedulesInv
<1>2. /\ scenario' = scenario /\ now' = now /\ edits' = edits /\ task' = task
      /\ rows' \subseteq rows \cup S!Built(scenario.zone, task).rows
      /\ outcome' \in {"stuck", "made"}
  BY DEF S!Refill
<1> QED BY <1>1, <1>2 DEF SchedulesInv, Story

(* A series is moved.                                                       *)
LEMMA MoveSeriesKeeps ==
  ASSUME SchedulesInv, NEW q \in scenario.moves, S!MoveSeries(q)
  PROVE  SchedulesInv'
<1> DEFINE d == S!SeriesDefinition(scenario.zone, q).def
<1>1. Defined(d)
  BY StoryIs, SeriesFits DEF SchedulesInv, S!IsScenario
<1>2. \A r \in S!Built(scenario.zone, d).rows : DatedAs(r)
  <2> HIDE DEF d
  <2> QED BY <1>1, BuiltFits DEF SchedulesInv
<1>3. /\ scenario' = scenario /\ now' = now /\ task' = d
      /\ rows' \in {S!Built(scenario.zone, d).rows, {}}
      /\ outcome' \in {"stuck", "made"} /\ S!Edit
  BY DEF S!MoveSeries
<1> HIDE DEF d
<1> QED BY <1>1, <1>2, <1>3, EditFits DEF SchedulesInv, Story

(* A date is moved.                                                         *)
LEMMA MoveDateKeeps ==
  ASSUME SchedulesInv, NEW r \in rows, NEW w, S!IsWhen(w), S!MoveDate(r, w)
  PROVE  SchedulesInv'
<1> DEFINE m == S!Moved(scenario.zone, r, w).row
           mode == S!CompileWhen(scenario.zone, w, 0).mode
<1>1. DatedAs(m)
  BY MovedFits DEF SchedulesInv
<1>2. mode \in TimeModes
  BY StoryIs, CompileFits DEF SchedulesInv
<1>3. /\ scenario' = scenario /\ now' = now /\ outcome' = outcome /\ S!Edit
      /\ rows' \subseteq rows \cup {m}
      /\ task' \in {task, [task EXCEPT !.mode = mode, !.times = m.times]}
  BY DEF S!MoveDate
<1> HIDE DEF m, mode
<1>4. Defined([task EXCEPT !.mode = mode, !.times = m.times])
  <2> DEFINE t == [task EXCEPT !.mode = mode, !.times = m.times]
  <2>1. /\ DOMAIN t = {"kind", "critical", "mode", "times", "rule", "missed"}
        /\ t.mode = mode /\ t.times = m.times
    BY DEF SchedulesInv, Defined
  <2> HIDE DEF t
  <2>2. Defined(t)
    BY <1>1, <1>2, <2>1 DEF Defined, DatedAs
  <2> QED BY <2>2 DEF t
<1> QED BY <1>1, <1>3, <1>4, EditFits DEF SchedulesInv, Story

(* A task without a date is given one.                                      *)
LEMMA ConcretiseKeeps ==
  ASSUME SchedulesInv, S!Concretise
  PROVE  SchedulesInv'
<1>1. PICK w \in scenario.dates :
        LET s == S!CompileWhen(scenario.zone, w, S!ReviewTime(w))
            def == [task EXCEPT !.mode = s.mode, !.times = s.times]
        IN /\ S!Edit /\ task' = def /\ rows' = S!BuiltOnce(scenario.zone, def)
           /\ scenario' = scenario /\ now' = now /\ outcome' = outcome
  BY DEF S!Concretise
<1> DEFINE s == S!CompileWhen(scenario.zone, w, S!ReviewTime(w))
           t == [task EXCEPT !.mode = s.mode, !.times = s.times]
<1>2. s.mode \in TimeModes /\ s.times \in Times
  BY StoryIs, RequestFits DEF SchedulesInv, S!IsScenario
<1> HIDE DEF s
<1>3. /\ DOMAIN t = {"kind", "critical", "mode", "times", "rule", "missed"}
      /\ t.mode = s.mode /\ t.times = s.times
  BY DEF SchedulesInv, Defined
<1>4. S!Edit /\ task' = t /\ rows' = S!BuiltOnce(scenario.zone, t)
      /\ scenario' = scenario /\ now' = now /\ outcome' = outcome
  BY <1>1 DEF s
<1> HIDE DEF t
<1>5. Defined(t)
  BY <1>2, <1>3 DEF Defined
<1>6. \A r \in rows' : DatedAs(r)
  BY <1>4, <1>5, OnceFits
<1> QED BY <1>4, <1>5, <1>6, EditFits DEF SchedulesInv, Story

(* The minute loop, and time.                                               *)
LEMMA TimePasses ==
  ASSUME SchedulesInv, S!Tick \/ S!Pass
  PROVE  SchedulesInv'
<1>1. CASE S!Tick
  <2>1. \A r \in rows' : \E q \in rows : r \in {q, S!Aged(q)}
    BY <1>1 DEF S!Tick
  <2> QED BY <1>1, <2>1, AgedFits DEF S!Tick, SchedulesInv, Story
<1>2. CASE S!Pass
  <2>1. now' \in Nat
    BY <1>2, StoryIs DEF S!Pass, SchedulesInv, Story, S!IsScenario
  <2> QED BY <1>2, <2>1 DEF S!Pass, SchedulesInv, Story
<1> QED BY <1>1, <1>2

(* Every step keeps what the dates of a schedule keep.                      *)
LEMMA SchedulesStep ==
  ASSUME SchedulesInv, [S!Next]_(S!vars)
  PROVE  SchedulesInv'
<1>1. CASE S!MoveTyped
  BY <1>1, StoryIs, MoveDateKeeps DEF S!MoveTyped, SchedulesInv, S!IsScenario
<1>2. CASE S!MovePreset
  <2>1. PICK r \in rows, c \in scenario.choices :
          S!MoveDate(r, S!WhenOf(scenario.zone, S!Quick(scenario.zone, c, task.mode, r.times)))
    BY <1>2 DEF S!MovePreset
  <2>2. r.times \in Times /\ c \in {"1h", "evening", "tomorrow"} /\ S!IsZone(scenario.zone)
    BY StoryIs DEF SchedulesInv, DatedAs, S!IsScenario
  <2>3. S!Quick(scenario.zone, c, task.mode, r.times) \in Times
    BY <2>2, QuickFits DEF SchedulesInv
  <2> QED BY <2>1, <2>2, <2>3, WhenFits, MoveDateKeeps
<1>3. CASE S!MoveDraft
  <2>1. PICK r \in rows : S!MoveDate(r, S!DraftOf(scenario.zone, r.times))
    BY <1>3 DEF S!MoveDraft
  <2>2. S!IsWhen(S!DraftOf(scenario.zone, r.times))
    BY StoryIs, DraftFits DEF SchedulesInv, DatedAs
  <2> QED BY <2>1, <2>2, MoveDateKeeps
<1>4. CASE UNCHANGED S!vars
  BY <1>4 DEF S!vars, SchedulesInv, Story
<1> QED BY <1>1, <1>2, <1>3, <1>4, CreateKeeps, RefillKeeps, MoveSeriesKeeps, ConcretiseKeeps,
           TimePasses DEF S!Next

(* Every variable of the schedules has its type.                            *)
LEMMA SchedulesTyped ==
  ASSUME SchedulesInv
  PROVE  S!TypeOK
BY DEF SchedulesInv, Story, Defined, DatedAs, TimeModes, S!TypeOK
==============================================================================
