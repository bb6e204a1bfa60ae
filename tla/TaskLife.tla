------------------------------- MODULE TaskLife -------------------------------
(* The three machines of a task's life, each in a world of its own: a recurring *)
(* series, the reminders of one date, and a task without a date.  A behaviour   *)
(* stays in the world it begins in: the series of the others stays as it was    *)
(* created, and their remaining variables are off.                              *)
EXTENDS TaskSeries

CONSTANTS
  Moments, Explicit, FollowUps, LastVersion,  \* a date, as in ReminderRebuild
  RebuildWorkers, RebuildScenarios,
  Own, Covering, LastReview,                  \* a task without one, as in UndatedTask
  UndatedWorkers, UndatedScenarios

VARIABLES
  world,                                      \* "series", "rebuild" or "undated"
  story, did, used, worker, due, raced,       \* of either machine that rebuilds
  date, rows,                                 \* of the reminders of a date
  task, reviews, own, past                    \* of the task without a date

R == INSTANCE ReminderRebuild WITH
       scenario <- story, journal <- did, spent <- used,
       Workers <- RebuildWorkers, Scenarios <- RebuildScenarios
U == INSTANCE UndatedTask WITH
       scenario <- story, journal <- did, spent <- used,
       Workers <- UndatedWorkers, Scenarios <- UndatedScenarios

(* A date has a moment, a user's reminder has an id of its own, and what may    *)
(* happen is a scenario.                                                        *)
ASSUME LifeAssumption ==
  /\ Moments # {} /\ LastVersion \in Nat \ {0}
  /\ {"default", "escalation"} \cap (Explicit \cup FollowUps) = {}
  /\ RebuildScenarios \subseteq R!Scenario /\ UndatedScenarios \subseteq U!Scenario

rebuildOnly == <<date, rows>>
undatedOnly == <<task, reviews, own, past>>
planning == <<story, did, used, worker, due, raced>>
allVars == <<world, vars, planning, rebuildOnly, undatedOnly>>

NoPlanning == story = 0 /\ did = 0 /\ used = 0 /\ worker = 0 /\ due = 0 /\ raced = 0
NoRebuild == date = 0 /\ rows = 0
NoUndated == task = 0 /\ reviews = 0 /\ own = 0 /\ past = 0
Created == Init /\ scenario = CHOOSE s \in Scenarios : TRUE
LifeInit ==
  \/ world = "series" /\ Init /\ NoPlanning /\ NoRebuild /\ NoUndated
  \/ world = "rebuild" /\ R!Init /\ Created /\ NoUndated
  \/ world = "undated" /\ U!Init /\ Created /\ NoRebuild

InSeries(A) == /\ world = "series" /\ A
               /\ UNCHANGED <<world, planning, rebuildOnly, undatedOnly>>
InRebuild(A) == world = "rebuild" /\ A /\ UNCHANGED <<world, vars, undatedOnly>>
InUndated(A) == world = "undated" /\ A /\ UNCHANGED <<world, vars, rebuildOnly>>
LifeNext == InSeries(Next) \/ InRebuild(R!Next) \/ InUndated(U!Next)

Reads(w) == \/ w \in Refills /\ InSeries(BeginRefill(w))
            \/ w \in RebuildWorkers /\ InRebuild(R!ReadDate(w))
            \/ w \in UndatedWorkers /\ InUndated(U!ReadTask(w))
Weighs(w) == \/ w \in Refills /\ InSeries(ReadExisting(w))
             \/ w \in RebuildWorkers /\ InRebuild(R!ReadRules(w))
             \/ w \in UndatedWorkers /\ InUndated(U!ReadRules(w))
Writes(w) == \/ w \in Refills /\ InSeries(Insert(w))
             \/ w \in RebuildWorkers /\ InRebuild(R!CancelLive(w))
             \/ w \in UndatedWorkers /\ InUndated(U!ReplaceReview(w))
Ends(w) == \/ w \in RebuildWorkers /\ InRebuild(R!Replace(w))
           \/ w \in UndatedWorkers /\ InUndated(U!PlanOwn(w))
(* The fairness of the three, world by world.                                   *)
LifeFairness ==
  /\ \A w \in Refills \cup RebuildWorkers \cup UndatedWorkers :
       WF_allVars(Reads(w)) /\ WF_allVars(Weighs(w)) /\ WF_allVars(Writes(w)) /\ WF_allVars(Ends(w))
  /\ WF_allVars(InSeries(\E s \in Slots : Rebuild(s)))
LifeSpec == LifeInit /\ [][LifeNext]_allVars /\ LifeFairness
-----------------------------------------------------------------------------
(* Every variable has its type, in each of the three worlds.                    *)
TypesOK ==
  /\ TypeOK
  /\ world = "rebuild" => R!TypeOK
  /\ world = "undated" => U!TypeOK

(* When no rebuild is asked for or under way, the reminders of a date are those *)
(* its rules ask for, each once; and a task without a date makes one contact in *)
(* the minute of its review, however edits, undos and the loop's rebuilds fell. *)
RemindersAreCurrent ==
  /\ world = "rebuild" => R!PlanIsCurrent
  /\ world = "undated" => U!ContactIsSingle

(* A date that asks for a rebuild gets one, and a task without a date is never  *)
(* forgotten: it has, or comes to have, a review or a reminder of its own.      *)
Waiting == \/ world = "rebuild" /\ date.flagged
           \/ world = "undated" /\ U!Undated /\ ~past
Served == \/ world = "rebuild" /\ ~date.flagged
          \/ world = "undated" /\ (U!Contacted \/ ~U!Undated)
RequestsAreServed == Waiting ~> Served
===============================================================================
