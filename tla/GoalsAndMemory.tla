---------------------------- MODULE GoalsAndMemory ----------------------------
(* What one workspace keeps beside its tasks: goals, the links of tasks to      *)
(* goals, and remembered facts (src/context, src/api/goals, src/api/memory,     *)
(* web/src/screens/goals, and the goal, memory and link parts of the groups of  *)
(* src/actions/action-group.repository.ts).                                     *)
(*                                                                              *)
(* Two actors write: the assistant, whose turn shows a context to the model,    *)
(* resolves its answer and applies it as one group; and the web client, whose   *)
(* screens send the versions they read. Any applied group may be undone while   *)
(* its window is open. A group is one transaction; what a handler reads before  *)
(* it is a step of its own.                                                     *)
EXTENDS Integers, Sequences, FiniteSets

CONSTANTS
  Scenarios,       \* [goals, facts, tasks, plans, web, groups, days]
  Goals, Tasks, Facts,
  MaxVersion,      \* bound on the versions
  OverviewLimit,   \* limit of listGoalsWithTasks
  IdleDays,        \* GOAL_IDLE_DAYS
  AttentionLimit   \* GOAL_ATTENTION_LIMIT

VARIABLES
  scenario,
  db,       \* [goals, facts, tasks, links]: the rows
  groups,   \* Seq of applied groups: [by, acts, events, before, saw, undone]
  turn,     \* the assistant's turn
  screen,   \* what the client shows
  handler,  \* the request the server works on
  now       \* days

vars == <<scenario, db, groups, turn, screen, handler, now>>

Texts == 0..2
NoRow == [live |-> FALSE, text |-> 0, status |-> "active", sensitive |-> FALSE,
          version |-> 0, at |-> 0]
GoalStatuses == {"active", "paused", "completed", "cancelled"}
Pairs == Tasks \X Goals
Live(rows) == {i \in DOMAIN rows : rows[i].live}
Content(row) == [live |-> row.live, text |-> row.text, status |-> row.status,
                 sensitive |-> row.sensitive]

\* What a scenario may begin with, and what may be asked of a group.
Fields == [live: BOOLEAN, text: Texts, status: GoalStatuses, sensitive: BOOLEAN,
           version: Nat, at: Nat]
Row == {r \in Fields : r.version = 0 => ~r.live}
WebOps == {"update_goal", "link", "unlink", "update_memory", "delete_memory"}
Ops == WebOps \cup {"create_goal", "goal_plan", "save_memory"}
Action == [op: Ops, goal: Goals, task: Tasks, fact: Facts, text: Texts,
           status: GoalStatuses \cup {"keep"}, sensitive: {"keep", "yes", "no"},
           goalVersion: Nat, taskVersion: Nat, factVersion: Nat]
Scenario ==
  {s \in [goals: [Goals -> Row], facts: [Facts -> Row], tasks: [Tasks -> Row],
          links: SUBSET Pairs, plans: SUBSET Seq(Action),
          web: SUBSET {a \in Action : a.op \in WebOps}, world: SUBSET {"task"},
          groups: Nat, days: Nat] :
     /\ \A p \in s.links : s.tasks[p[1]].live /\ s.goals[p[2]].live
     /\ \A i \in Goals : s.goals[i].version <= MaxVersion}

----------------------------------------------------------------------------
(* One group: its actions, each with the versions it was resolved to.          *)

Create(text) == [NoRow EXCEPT !.live = TRUE, !.text = text, !.version = 1, !.at = now]
Bumped(row, a) ==
  [row EXCEPT !.text = IF a.text = 0 THEN @ ELSE a.text,
              !.status = IF a.status = "keep" THEN @ ELSE a.status,
              !.sensitive = IF a.sensitive = "keep" THEN @ ELSE a.sensitive = "yes",
              !.version = @ + 1, !.at = now]
Event(type, entity, id, post, before) ==
  [type |-> type, entity |-> entity, id |-> id, post |-> post, before |-> before]

\* lockTargets and VersionTracker.expect: the row as the group found it has the version
\* the action was resolved to, and it is still there when its turn in the group comes.
Expected(start, acc, rows, id, version) ==
  start[rows][id].live /\ start[rows][id].version = version /\ acc.db[rows][id].live

\* loadLinkPair: both rows at their versions, and an active goal to link to.
LinkPair(start, acc, a) ==
  /\ Expected(start, acc, "tasks", a.task, a.taskVersion)
  /\ Expected(start, acc, "goals", a.goal, a.goalVersion)
  /\ a.op = "link" => acc.db.goals[a.goal].status = "active"

\* A new row has an id of its own, which no row has had before.
Fresh(row) == row.version = 0

Accepts(start, acc, a) ==
  CASE a.op = "create_goal" -> Fresh(acc.db.goals[a.goal])
    [] a.op = "goal_plan" -> Fresh(acc.db.goals[a.goal]) /\ Fresh(acc.db.tasks[a.task])
    [] a.op = "update_goal" -> Expected(start, acc, "goals", a.goal, a.goalVersion)
    [] a.op = "link" -> LinkPair(start, acc, a) /\ <<a.task, a.goal>> \notin acc.db.links
    [] a.op = "unlink" -> LinkPair(start, acc, a) /\ <<a.task, a.goal>> \in acc.db.links
    [] a.op = "save_memory" -> Fresh(acc.db.facts[a.fact])
    [] OTHER -> Expected(start, acc, "facts", a.fact, a.factVersion)

\* The write of one accepted action, and the events it leaves in the journal.
createGoalInTx(d, a) == [d EXCEPT !.goals[a.goal] = Create(a.text)]
updateGoalInTx(d, a) == [d EXCEPT !.goals[a.goal] = Bumped(@, a)]
goalPlanInTx(d, a) ==
  [d EXCEPT !.goals[a.goal] = Create(a.text), !.tasks[a.task] = Create(a.text),
            !.links = @ \cup {<<a.task, a.goal>>}]
linkTaskToGoalInTx(d, a) == [d EXCEPT !.links = @ \cup {<<a.task, a.goal>>}]
unlinkTaskToGoalInTx(d, a) == [d EXCEPT !.links = @ \ {<<a.task, a.goal>>}]
saveMemoryInTx(d, a) == [d EXCEPT !.facts[a.fact] =
                           [Create(a.text) EXCEPT !.sensitive = a.sensitive = "yes"]]
updateMemoryInTx(d, a) == [d EXCEPT !.facts[a.fact] = Bumped(@, a)]
deleteMemoryInTx(d, a) == [d EXCEPT !.facts[a.fact].live = FALSE]

Write(d, a) ==
  CASE a.op = "create_goal" -> createGoalInTx(d, a)
    [] a.op = "update_goal" -> updateGoalInTx(d, a)
    [] a.op = "goal_plan" -> goalPlanInTx(d, a)
    [] a.op = "link" -> linkTaskToGoalInTx(d, a)
    [] a.op = "unlink" -> unlinkTaskToGoalInTx(d, a)
    [] a.op = "save_memory" -> saveMemoryInTx(d, a)
    [] a.op = "update_memory" -> updateMemoryInTx(d, a)
    [] OTHER -> deleteMemoryInTx(d, a)

Pair(a) == <<a.task, a.goal>>
EventsOf(d, a) ==
  LET after == Write(d, a) IN
  CASE a.op \in {"create_goal", "update_goal"} ->
         {Event(a.op, "goal", a.goal, after.goals[a.goal].version, d.goals[a.goal])}
    [] a.op = "goal_plan" -> {Event(a.op, "goal", a.goal, 1, NoRow),
                              Event("create_task", "task", a.task, 1, NoRow),
                              Event("link", "task_goal", Pair(a), 0, NoRow)}
    [] a.op \in {"link", "unlink"} -> {Event(a.op, "task_goal", Pair(a), 0, NoRow)}
    [] a.op = "delete_memory" -> {Event(a.op, "memory", a.fact, 0, d.facts[a.fact])}
    [] OTHER -> {Event(a.op, "memory", a.fact, after.facts[a.fact].version, d.facts[a.fact])}

\* ActionGroupRepository.apply: every action in turn, all of them or none.
Begun == [ok |-> TRUE, db |-> db, events |-> {}]
Did(start, acc, a) ==
  IF acc.ok /\ Accepts(start, acc, a)
  THEN [ok |-> TRUE, db |-> Write(acc.db, a), events |-> acc.events \cup EventsOf(acc.db, a)]
  ELSE [acc EXCEPT !.ok = FALSE]
Run(acts) ==
  LET after[n \in 0 .. Len(acts)] ==
        IF n = 0 THEN Begun ELSE Did(db, after[n - 1], acts[n])
  IN after[Len(acts)]

Apply(by, acts, saw) ==
  LET r == Run(acts) IN
  IF /\ r.ok /\ Len(groups) < scenario.groups
     /\ \A i \in Goals : r.db.goals[i].version <= MaxVersion
     /\ \A i \in Facts : r.db.facts[i].version <= MaxVersion
  THEN /\ db' = r.db
       /\ groups' = Append(groups, [by |-> by, acts |-> acts, events |-> r.events,
                                    before |-> db, after |-> r.db, saw |-> saw,
                                    undone |-> FALSE])
  ELSE UNCHANGED <<db, groups>>

----------------------------------------------------------------------------
(* Undo: every entity of the journal is restored, or nothing is.               *)

EventsFor(g, entity, id) == {e \in g.events : e.entity = entity /\ e.id = id}
IdsIn(g, entity) == {e.id : e \in {x \in g.events : x.entity = entity}}
LatestPost(evs) == CHOOSE n \in {e.post : e \in evs} : \A e \in evs : e.post <= n
FirstOf(evs) == CHOOSE e \in evs : \A o \in evs : e.post <= o.post
Creates(evs) == \E e \in evs : e.type \in {"create_goal", "goal_plan", "save_memory", "create_task"}
Deletes(evs) == \A e \in evs : e.type = "delete_memory"

\* lockAndVerify: the row is there, at the version the group left it at.
VerifiedThere(rows, evs, id) == rows[id].live
Verified(rows, evs, id) == rows[id].live /\ rows[id].version = LatestPost(evs)
Linked(evs) == \E e \in evs : e.type = "link"
Unlinked(evs) == \E e \in evs : e.type = "unlink"

\* A link the group made must be there to take away; one it took away must not be
\* there, nor either end of it gone, for it to be put back.
LinkUndoable(g, p) ==
  LET evs == EventsFor(g, "task_goal", p) IN
  /\ Linked(evs) /\ ~Unlinked(evs) => p \in db.links
  /\ Unlinked(evs) /\ ~Linked(evs) => /\ p \notin db.links
                                      /\ db.tasks[p[1]].live /\ db.goals[p[2]].live
Undoable(g) ==
  /\ \A t \in IdsIn(g, "task") : Verified(db.tasks, EventsFor(g, "task", t), t)
  /\ \A i \in IdsIn(g, "goal") : Verified(db.goals, EventsFor(g, "goal", i), i)
  /\ \A i \in IdsIn(g, "memory") : Deletes(EventsFor(g, "memory", i))
                                   \/ Verified(db.facts, EventsFor(g, "memory", i), i)
  /\ \A p \in IdsIn(g, "task_goal") : LinkUndoable(g, p)

RestoredRow(row, before) == [row EXCEPT !.live = TRUE, !.text = before.text,
                               !.status = before.status, !.sensitive = before.sensitive,
                               !.version = @ + 1, !.at = now]
RestoredGoal(g, i) ==
  LET evs == EventsFor(g, "goal", i) IN
  IF evs = {} THEN db.goals[i]
  ELSE IF Creates(evs) THEN [db.goals[i] EXCEPT !.live = FALSE]
  ELSE RestoredRow(db.goals[i], FirstOf(evs).before)
RestoredFact(g, i) ==
  LET evs == EventsFor(g, "memory", i) IN
  IF evs = {} THEN db.facts[i]
  ELSE IF ~Deletes(evs) /\ Creates(evs) THEN [db.facts[i] EXCEPT !.live = FALSE]
  ELSE RestoredRow(db.facts[i], FirstOf(evs).before)
\* The links the group made go, those it removed come back; a created end takes its
\* links with it.
RestoredLinks(g) ==
  LET made == {p \in IdsIn(g, "task_goal") : ~Unlinked(EventsFor(g, "task_goal", p))}
      taken == {p \in IdsIn(g, "task_goal") : ~Linked(EventsFor(g, "task_goal", p))}
      gone(p) == p[1] \in IdsIn(g, "task")
                 \/ (p[2] \in IdsIn(g, "goal") /\ Creates(EventsFor(g, "goal", p[2])))
  IN {p \in (db.links \ made) \cup taken : ~gone(p)}

undo(k) ==
  /\ k \in DOMAIN groups /\ ~groups[k].undone
  /\ LET g == groups[k] IN
     /\ Undoable(g)
     /\ db' = [goals |-> [i \in Goals |-> RestoredGoal(g, i)],
               facts |-> [i \in Facts |-> RestoredFact(g, i)],
               tasks |-> [t \in Tasks |-> IF t \in IdsIn(g, "task")
                                          THEN [db.tasks[t] EXCEPT !.live = FALSE]
                                          ELSE db.tasks[t]],
               links |-> RestoredLinks(g)]
  /\ groups' = [groups EXCEPT ![k].undone = TRUE]
  /\ UNCHANGED <<scenario, turn, screen, handler, now>>

----------------------------------------------------------------------------
(* The assistant.                                                              *)

Start == [goals |-> scenario.goals, facts |-> scenario.facts,
          tasks |-> scenario.tasks, links |-> scenario.links]
NoTurn == [pc |-> "idle", acts |-> <<>>, saw |-> Start]
NoRequest == [pc |-> "idle", acts |-> <<>>, saw |-> Start, confirmed |-> FALSE]
Init ==
  /\ scenario \in Scenarios
  /\ db = Start /\ screen = Start
  /\ groups = <<>> /\ now = IdleDays
  /\ turn = NoTurn /\ handler = NoRequest

\* The rows the context shows to the model; it answers with a package of actions.
BuildContext ==
  /\ turn.pc = "idle" /\ Len(groups) < scenario.groups
  /\ \E acts \in scenario.plans :
       turn' = [pc |-> "answered", acts |-> acts, saw |-> db]
  /\ UNCHANGED <<scenario, db, groups, screen, handler, now>>

\* goalRef, memoryRef and taskRef read each row again and take the version it has now;
\* a row that is gone, a link already there or not there, refuses the whole package.
Resolved(a) == [a EXCEPT !.goalVersion = db.goals[a.goal].version,
                         !.taskVersion = db.tasks[a.task].version,
                         !.factVersion = db.facts[a.fact].version]
Resolvable(a) ==
  CASE a.op \in {"update_goal", "link", "unlink"} ->
         /\ db.goals[a.goal].live
         /\ a.op = "update_goal" \/ (a.op = "link" <=> Pair(a) \notin db.links)
    [] a.op \in {"update_memory", "delete_memory"} -> db.facts[a.fact].live
    [] OTHER -> TRUE
Resolve ==
  /\ turn.pc = "answered"
  /\ turn' = IF \A i \in DOMAIN turn.acts : Resolvable(turn.acts[i])
             THEN [turn EXCEPT !.pc = "resolved",
                     !.acts = [i \in DOMAIN @ |-> Resolved(@[i])]]
             ELSE NoTurn
  /\ UNCHANGED <<scenario, db, groups, screen, handler, now>>

ApplyTurn ==
  /\ turn.pc = "resolved"
  /\ Apply("assistant", turn.acts, turn.saw)
  /\ turn' = NoTurn
  /\ UNCHANGED <<scenario, screen, handler, now>>

----------------------------------------------------------------------------
(* The goal's screen and the memory screen.                                    *)

\* A read of either screen; what was written since the last one is not on it yet.
Reload ==
  /\ screen # db /\ screen' = db
  /\ UNCHANGED <<scenario, db, groups, turn, handler, now>>

\* What a screen may send, with the versions of the rows it shows: a change of the
\* goal's status; a link from the picker; an edit or a deletion of a fact, confirmed
\* when the fact is or becomes sensitive. An unlink carries no version.
Shown(a) == [a EXCEPT !.goalVersion = screen.goals[a.goal].version,
                      !.taskVersion = screen.tasks[a.task].version,
                      !.factVersion = screen.facts[a.fact].version]
Offered(a) ==
  CASE a.op = "update_goal" -> screen.goals[a.goal].live
    [] a.op = "link" -> screen.goals[a.goal].live /\ screen.tasks[a.task].live
                        /\ Pair(a) \notin screen.links
    [] a.op = "unlink" -> screen.goals[a.goal].live /\ Pair(a) \in screen.links
    [] OTHER -> screen.facts[a.fact].live
SaysSensitive(row, a) == row.sensitive \/ a.sensitive = "yes"
Send ==
  /\ handler.pc = "idle" /\ Len(groups) < scenario.groups
  /\ \E a \in scenario.web :
       /\ Offered(a)
       /\ handler' = [pc |-> "received", acts |-> <<Shown(a)>>, saw |-> screen,
                      confirmed |-> a.op \in {"update_memory", "delete_memory"}
                                    /\ SaysSensitive(screen.facts[a.fact], a)]
  /\ UNCHANGED <<scenario, db, groups, turn, screen, now>>

\* The controller's own reads: the row must be there; a fact's version and its
\* sensitivity are compared with what was sent; an unlink takes the versions read here.
ReadResolved(h) ==
  LET a == h.acts[1] IN
  IF a.op \in {"update_memory", "delete_memory"} /\ db.facts[a.fact].live
  THEN [h EXCEPT !.pc = "apply", !.acts = <<Resolved(a)>>]
  ELSE IF db.goals[a.goal].live THEN [h EXCEPT !.pc = "apply"] ELSE NoRequest
Read(h) ==
  LET a == h.acts[1] IN
  CASE a.op \in {"update_memory", "delete_memory"} ->
         IF /\ db.facts[a.fact].live /\ db.facts[a.fact].version = a.factVersion
            /\ SaysSensitive(db.facts[a.fact], a) => h.confirmed
         THEN [h EXCEPT !.pc = "apply"] ELSE NoRequest
    [] a.op = "unlink" ->
         IF db.goals[a.goal].live /\ db.tasks[a.task].live
         THEN [h EXCEPT !.pc = "apply", !.acts = <<Resolved(a)>>] ELSE NoRequest
    [] OTHER -> IF db.goals[a.goal].live THEN [h EXCEPT !.pc = "apply"] ELSE NoRequest
Receive ==
  /\ handler.pc = "received" /\ handler' = Read(handler)
  /\ UNCHANGED <<scenario, db, groups, turn, screen, now>>

ApplyRequest ==
  /\ handler.pc = "apply"
  /\ Apply("web", handler.acts, handler)
  /\ handler' = NoRequest
  /\ UNCHANGED <<scenario, turn, screen, now>>

\* Something else edits a task, and time passes.
EditTask(t) ==
  /\ db.tasks[t].live /\ db.tasks[t].version < MaxVersion /\ "task" \in scenario.world
  /\ db' = [db EXCEPT !.tasks[t].version = @ + 1, !.tasks[t].at = now]
  /\ UNCHANGED <<scenario, groups, turn, screen, handler, now>>
Day ==
  /\ now < IdleDays + scenario.days /\ now' = now + 1
  /\ UNCHANGED <<scenario, db, groups, turn, screen, handler>>

Next ==
  \/ \E k \in DOMAIN groups : undo(k)
  \/ BuildContext \/ Resolve \/ ApplyTurn \/ Reload \/ Send \/ Receive \/ ApplyRequest
  \/ (\E t \in Tasks : EditTask(t)) \/ Day

Spec == Init /\ [][Next]_vars

----------------------------------------------------------------------------
(* Lists and pages.                                                            *)

NewestFirst(rows, S) == CHOOSE s \in [1..Cardinality(S) -> S] :
  \A i, j \in DOMAIN s : i < j => s[i] # s[j] /\ rows[s[i]].at >= rows[s[j]].at
Upto(s, n) == {s[i] : i \in {j \in DOMAIN s : j <= n}}

\* listGoalsWithTasks, and findGoalOverview looking inside it.
Overview == Upto(NewestFirst(db.goals, {g \in Live(db.goals) :
                   db.goals[g].status \in {"active", "paused", "completed"}}), OverviewLimit)
findGoalOverview(g) == g \in Overview

\* listGoalActivity and idleGoals: the newest change of the goal and of its tasks.
LastActivity(g) ==
  LET times == {db.goals[g].at} \cup {db.tasks[p[1]].at : p \in {q \in db.links : q[2] = g}}
  IN CHOOSE n \in times : \A o \in times : o <= n
Idle == {g \in Live(db.goals) : db.goals[g].status = "active"
                                /\ now - LastActivity(g) >= IdleDays}
\* The longest idle first, as many as one card may name.
idleGoals == {g \in Idle :
  Cardinality({o \in Idle : LastActivity(o) < LastActivity(g)}) < AttentionLimit}

----------------------------------------------------------------------------
TypeOK ==
  /\ scenario \in Scenarios
  /\ db.links \subseteq Pairs
  /\ \A g \in Goals : db.goals[g].status \in GoalStatuses
                      /\ db.goals[g].version \in 0..(MaxVersion + 1)
  /\ \A f \in Facts : db.facts[f].text \in Texts
  /\ \A p \in db.links : db.tasks[p[1]].live /\ db.goals[p[2]].live

\* An undo takes back its own group's changes and nothing else: it finds every goal and
\* every fact as the group left it and gives back what the group had found, text, status
\* and sensitivity; what the group created is gone. This holds whatever several actions
\* of the group did to one row and whoever wrote in between.
UndoneNow == {k \in DOMAIN groups : ~groups[k].undone /\ groups'[k].undone}
TakenBack(g, rows, i) == /\ Content(db[rows][i]) = Content(g.after[rows][i])
                         /\ IF g.before[rows][i].live
                            THEN Content(db'[rows][i]) = Content(g.before[rows][i])
                            ELSE ~db'[rows][i].live
ExactUndo ==
  \A k \in UndoneNow :
    /\ \A i \in IdsIn(groups[k], "goal") : TakenBack(groups[k], "goals", i)
    /\ \A i \in IdsIn(groups[k], "memory") : TakenBack(groups[k], "facts", i)
UndoIsExact == [][ExactUndo]_vars

\* A write of a screen lands only on the rows it showed: a goal, task or fact that was
\* edited meanwhile, in the chat or by an undo, refuses it. (An unlink is the exception.)
\* And nothing the client does changes, deletes or marks a sensitive fact unconfirmed.
LandedNow == {k \in DOMAIN groups' : k \notin DOMAIN groups /\ groups'[k].by = "web"}
LandsAsShown(g) ==
  LET a == g.acts[1] saw == g.saw.saw IN
  CASE a.op = "update_goal" -> Content(g.before.goals[a.goal]) = Content(saw.goals[a.goal])
    [] a.op = "link" -> /\ Content(g.before.goals[a.goal]) = Content(saw.goals[a.goal])
                        /\ g.before.tasks[a.task].version = saw.tasks[a.task].version
    [] a.op = "unlink" -> TRUE
    [] OTHER -> /\ Content(g.before.facts[a.fact]) = Content(saw.facts[a.fact])
                /\ SaysSensitive(g.before.facts[a.fact], a) => g.saw.confirmed
HeededScreens == \A k \in LandedNow : LandsAsShown(groups'[k])
ScreensAreHeeded == [][HeededScreens]_vars

\* src/actions/action-group.repository.ts:464-467: the journal never claims a rollback
\* it cannot do. The last group applied, with nothing written since, can be undone.
RollbackIsPossible ==
  groups # <<>> /\ ~groups[Len(groups)].undone /\ db = groups[Len(groups)].after
    => Undoable(groups[Len(groups)])

\* src/actions/action-validation.ts:47-50: a target still exists at the version the model
\* saw. The version is read after the answer, so an edit during the answer is not noticed.
ModelSawTheVersion ==
  [][\A k \in DOMAIN groups' : k \notin DOMAIN groups /\ groups'[k].by = "assistant" =>
       \A i \in DOMAIN groups'[k].acts :
         LET a == groups'[k].acts[i] IN
         a.op = "update_goal" =>
           Content(groups'[k].before.goals[a.goal]) = Content(groups'[k].saw.goals[a.goal])]_vars

\* src/telegram/handlers/system-commands.service.ts:241-245: the week card names an idle
\* goal and its button asks for a step. The button looks among the newest goals only.
NamedGoalIsFound == \A g \in idleGoals : findGoalOverview(g)

\* An undo takes back a link of its own group, never one made again by a later group.
LinkUndoIsOwn ==
  [][\A k \in UndoneNow : \A p \in IdsIn(groups[k], "task_goal") :
       p \in db.links /\ p \notin db'.links =>
         ~\E j \in DOMAIN groups : j > k /\ ~groups[j].undone
                                    /\ p \in groups[j].after.links
                                    /\ p \notin groups[j].before.links]_vars
=============================================================================
