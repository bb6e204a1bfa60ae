--------------------------------- MODULE Web ---------------------------------
(* The app in Telegram and what the server answers it: the requests and how    *)
(* they are let in, the cache, the router, the screens of a task, the lists,   *)
(* the week's page, and the dates a request for a time becomes.  Each part     *)
(* runs in a world of its own; the variables of the others are off.            *)
EXTENDS Integers, Sequences, FiniteSets

CONSTANTS
  WeekScenarios, QueryScenarios, ScreenScenarios, RequestScenarios, ListScenarios,
  ScheduleScenarios, RouterScenarios,  \* what each part is given, as its module says
  IpLimit, UserLimit, Window, MaxKeys, MaxAge, MaxTime,   \* of Requests
  PageSizes, ListPages,                                       \* of TaskLists
  HorizonDays, LastMonth,                                 \* of Schedules
  MaxEntries                                              \* of Router

VARIABLES world, scenario, spent, requests, tasks,
          today, journal,
          asked, shown,
          rows, filled, outcome, edits,
          server, committed, entries, watching, reads, writes, snackbar,
          task, dates, view,
          now, ip, user, flight, active, let, promise, seen,
          history, here, route, overlay, draft, creating, popping, moves

P == INSTANCE WeekPool WITH Scenarios <- WeekScenarios
Q == INSTANCE QueryCache WITH Scenarios <- QueryScenarios
D == INSTANCE TaskScreens WITH Scenarios <- ScreenScenarios
A == INSTANCE Requests WITH Scenarios <- RequestScenarios
L == INSTANCE TaskLists WITH Scenarios <- ListScenarios, Pages <- ListPages
S == INSTANCE Schedules WITH Scenarios <- ScheduleScenarios
N == INSTANCE Router WITH Scenarios <- RouterScenarios

ASSUME WebAssumption ==
  /\ \A s \in WeekScenarios :
       /\ IsFiniteSet(DOMAIN s.tasks)
       /\ s.limit \in Nat /\ s.first \in Nat \ {0} /\ s.days \in Nat
  /\ \A s \in QueryScenarios : s.slots \in Nat /\ (s.versioned \/ s.answers)
  /\ \A s \in ScreenScenarios :
       /\ s.slots \in Nat /\ s.dates \in Nat /\ s.link \in 0 .. s.dates
       /\ s.link <= IF s.kind = "series" THEN 2 ELSE IF s.kind = "oneoff" THEN 1 ELSE 0
  /\ IpLimit \in Nat \ {0} /\ UserLimit \in Nat \ {0} /\ Window \in Nat \ {0}
  /\ MaxKeys \in Nat /\ MaxTime \in Nat
  /\ \A s \in RequestScenarios :
       /\ s.requests \in Nat /\ s.restarts \in Nat
       /\ \A q \in s.senders : q.address \in A!Addresses /\ q.payload \in A!Payload
  /\ \A s \in ListScenarios : IsFiniteSet(s.rows) /\ L!IsWorkspace(s)
  /\ \A s \in ScheduleScenarios : S!IsScenario(s)
  /\ HorizonDays \in Nat
  /\ PageSizes \subseteq Nat \ {0} /\ ListPages \subseteq Nat
  /\ MaxEntries \in Nat \ {0}
  /\ \A s \in RouterScenarios :
       /\ s.links \subseteq N!Routes
       /\ s.moves \in Nat /\ s.sends \in Nat

weekOnly == <<today, journal, tasks>>
listsOnly == <<asked, shown>>
datesOnly == <<rows, filled, outcome, edits>>
cacheOnly == <<server, committed, entries, watching, reads, writes, snackbar>>
screensOnly == <<dates, view>>
requestsOnly == <<ip, user, flight, active, let, promise, seen>>
routerOnly == <<history, here, route, overlay, draft, creating, popping, moves>>
vars == <<world, scenario, spent, requests, now, task, weekOnly, listsOnly, datesOnly,
          cacheOnly, screensOnly, requestsOnly, routerOnly>>

NoWeek == today = 0 /\ journal = 0 /\ tasks = 0
NoLists == asked = 0 /\ shown = 0
NoDates == rows = 0 /\ filled = 0 /\ outcome = 0 /\ edits = 0
NoCache == /\ server = 0 /\ committed = 0 /\ entries = 0 /\ watching = 0 /\ reads = 0
           /\ writes = 0 /\ snackbar = 0
NoScreens == dates = 0 /\ view = 0
NoRequests == /\ ip = 0 /\ user = 0 /\ flight = 0 /\ active = 0 /\ let = 0
              /\ promise = 0 /\ seen = 0
NoRouter == /\ history = 0 /\ here = 0 /\ route = 0 /\ overlay = 0 /\ draft = 0
            /\ creating = 0 /\ popping = 0 /\ moves = 0
Init ==
  \/ /\ world = "week" /\ P!Init /\ now = 0 /\ task = 0
     /\ NoLists /\ NoDates /\ NoCache /\ NoScreens /\ NoRequests /\ NoRouter
  \/ /\ world = "lists" /\ L!Init /\ spent = 0 /\ requests = 0 /\ now = 0 /\ task = 0
     /\ NoWeek /\ NoDates /\ NoCache /\ NoScreens /\ NoRequests /\ NoRouter
  \/ /\ world = "schedules" /\ S!Init /\ spent = 0 /\ requests = 0
     /\ NoWeek /\ NoLists /\ NoCache /\ NoScreens /\ NoRequests /\ NoRouter
  \/ /\ world = "cache" /\ Q!Init /\ requests = 0 /\ now = 0 /\ task = 0
     /\ NoWeek /\ NoLists /\ NoDates /\ NoScreens /\ NoRequests /\ NoRouter
  \/ /\ world = "screens" /\ D!Init /\ now = 0
     /\ NoWeek /\ NoLists /\ NoDates /\ NoCache /\ NoRequests /\ NoRouter
  \/ /\ world = "requests" /\ A!Init /\ spent = 0 /\ requests = 0 /\ task = 0
     /\ NoWeek /\ NoLists /\ NoDates /\ NoCache /\ NoScreens /\ NoRouter
  \/ /\ world = "router" /\ N!Init /\ spent = 0 /\ requests = 0 /\ now = 0 /\ task = 0
     /\ NoWeek /\ NoLists /\ NoDates /\ NoCache /\ NoScreens /\ NoRequests

OnWeek == /\ world = "week" /\ P!Next
          /\ UNCHANGED <<world, now, task, listsOnly, datesOnly, cacheOnly, screensOnly,
                         requestsOnly, routerOnly>>
OnLists == /\ world = "lists" /\ L!Next
           /\ UNCHANGED <<world, spent, requests, now, task, weekOnly, datesOnly, cacheOnly,
                          screensOnly, requestsOnly, routerOnly>>
OfDates == /\ world = "schedules" /\ S!Next
           /\ UNCHANGED <<world, spent, requests, weekOnly, listsOnly, cacheOnly,
                          screensOnly, requestsOnly, routerOnly>>
InCache == /\ world = "cache" /\ Q!Next
           /\ UNCHANGED <<world, requests, now, task, weekOnly, listsOnly, datesOnly,
                          screensOnly, requestsOnly, routerOnly>>
OnScreens == /\ world = "screens" /\ D!Next
             /\ UNCHANGED <<world, now, weekOnly, listsOnly, datesOnly, cacheOnly,
                            requestsOnly, routerOnly>>
InRequests == /\ world = "requests" /\ A!Next
              /\ UNCHANGED <<world, spent, requests, task, weekOnly, listsOnly, datesOnly,
                             cacheOnly, screensOnly, routerOnly>>
InRouter == /\ world = "router" /\ N!Next
            /\ UNCHANGED <<world, spent, requests, now, task, weekOnly, listsOnly,
                           datesOnly, cacheOnly, screensOnly, requestsOnly>>
Next == OnWeek \/ OnLists \/ OfDates \/ InCache \/ OnScreens \/ InRequests \/ InRouter
Spec == Init /\ [][Next]_vars
------------------------------------------------------------------------------
(* Every variable has its type.                                                *)
TypeOK ==
  CASE world = "week" -> P!TypeOK [] world = "cache" -> Q!TypeOK
    [] world = "screens" -> D!TypeOK [] world = "requests" -> A!TypeOK
    [] world = "router" -> N!TypeOK [] world = "lists" -> L!TypeOK
    [] world = "schedules" -> S!TypeOK

(* What a screen shows is honest.  A settled list shows nothing that was never *)
(* so, one that only shows its skeleton has a request on its way (QueryCache). *)
(* Nothing unclosed falls between the lists, a tab is what its badge and pages *)
(* say, and what is counted as past reads as overdue (core/task-list-view.ts). *)
ScreenIsHonest ==
  /\ world = "cache" => Q!ScreenIsHonest
  /\ world = "lists" =>
       L!NothingFallsBetween /\ L!TabsAreConsistent /\ L!PastReadsOverdue

(* A refusal is fair.  No address gets more than its share of a window while   *)
(* it is remembered, one that waits as long as it was told to is let in, the   *)
(* app acts on the code that was raised or on none (SlidingWindowRateLimiter,  *)
(* toRequestError), and a conflict is only answered when something did move    *)
(* (web-tasks.service).                                                        *)
RefusalsAreFair ==
  /\ world = "requests" => A!LimitsAreKept /\ A!AnswersAreHonest
  /\ world = "screens" => D!ConflictMeansMoved

(* The rows of a series are exactly the dates of its rule, each at the hour of *)
(* the series through a change of clocks, whatever days it was filled on and   *)
(* whatever was moved (buildRecurringOccurrences, projectExactField).          *)
DatesKeepTheRule == world = "schedules" => S!SeriesIsComplete /\ S!ClockIsKept

(* The screen is the one the address names, a depth promises what is there to  *)
(* go back to, and back leads home from everywhere (router.tsx).               *)
RouterIsSound == world = "router" => N!RouterIsSound

(* What the user does is done to what the user saw: a write of a task's screen *)
(* finds the task or date as shown, unless it is a "done", a move of a task    *)
(* without a date or of a whole series (TaskScreens, Careless); two taps of    *)
(* the week's page do not both take its last place nor move a row twice, though*)
(* two that pick the same row may release it (WeekPool, VerbsAreKept); and a   *)
(* press of back never throws a typed title away without asking.               *)
TapsMeanWhatTheyShow ==
  [][/\ world = "screens" => D!LandsAsShown
     /\ world = "week" => P!TapsDoNotCollide
     /\ world = "router" => N!AskedDraft]_vars

(* "Every write carries the version it read, and a 409 means the row moved",   *)
(* says the screen of a task (detail.tsx): the sheet's move of a whole repeat  *)
(* sends the version of the date and is compared with the task's.              *)
SeriesCanBeMoved == world = "screens" => D!SeriesCanBeMoved

(* "Finite excluded local dates" (README): a move of the hour of a series does *)
(* not bring the dates back that the user took out of it.                      *)
SkippedStaySkipped == world = "schedules" => S!SkippedStaySkipped
==============================================================================
