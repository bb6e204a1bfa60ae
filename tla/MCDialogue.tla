------------------------------- MODULE MCDialogue -------------------------------
(* Dialogue for TLC: for each part a small story of its own, and the faults and *)
(* crossings that make it interesting.                                          *)
EXTENDS Dialogue, TLC

MCMessages == {1, 2}
NoFaults ==
  [f \in {"errors", "limits", "crashes", "gates", "commands", "clears", "uncertain",
          "redeliveries", "losses"} |-> 0]
Disturbed(yes, f) == [yes |-> yes, no |-> {}, budget |-> f @@ NoFaults]
ChatScenarios ==
  {Disturbed({}, "errors" :> 2 @@ "limits" :> 1 @@ "commands" :> 1),
   Disturbed({2}, "errors" :> 1 @@ "crashes" :> 1 @@ "redeliveries" :> 1),
   Disturbed({}, "uncertain" :> 1 @@ "errors" :> 1 @@ "commands" :> 1 @@ "losses" :> 1
                 @@ "limits" :> 1),
   Disturbed({}, "errors" :> 1 @@ "gates" :> 2 @@ "commands" :> 1),
   Disturbed({}, "errors" :> 1 @@ "clears" :> 1),
   [Disturbed({}, "losses" :> 1) EXCEPT !.no = {2}]}
FreshRow ==
  [timezone |-> "home", digestTimezone |-> "home", quietHoursTimezone |-> "home",
   pinnedLanguage |-> "null", quietHoursEnabled |-> FALSE, weekdayQuiet |-> "night",
   weekendQuiet |-> "late", notificationsSnoozedUntil |-> "null",
   morningReferenceTime |-> "nine", morningDigestEnabled |-> FALSE,
   weeklyReviewEnabled |-> FALSE, weeklyReview |-> "sunday", defaults |-> "plain"]
LateWeekdays ==
  [operation |-> "quiet_hours", enabled |-> TRUE, weekday |-> "late", weekend |-> "null"]
Yesterday == [operation |-> "snooze", until |-> "past"]
Moving == [operation |-> "timezone", timezone |-> "away", applyTo |-> "all"]
Untouched ==
  [web |-> {}, agent |-> {}, prompts |-> {}, texts |-> 1, start |-> FreshRow, taps |-> 1,
   faults |-> 0]
MCSettingsScenarios ==
  {[Untouched EXCEPT !.web = {"switch"}],
   [Untouched EXCEPT !.web = {"timezone"}, !.prompts = {"timezone"}, !.faults = 1],
   [Untouched EXCEPT !.web = {"schedule", "snooze"}, !.taps = 2,
                     !.agent = {LateWeekdays, Yesterday},
                     !.prompts = {"digests"}],
   [Untouched EXCEPT !.web = {"language"}, !.agent = {Moving}, !.prompts = {"quiet"}]}

GuestDoes(ops) ==
  [ops |-> ops, start |-> {"guest"}, provider |-> "openai", contacts |-> {},
   restarts |-> 0]
MCAccountScenarios ==
  {[GuestDoes({<<"chat", "owner", "invite">>, <<"chat", "guest", "start">>,
               <<"chat", "third", "start">>, <<"cli", "guest", "users:add">>})
      EXCEPT !.start = {"owner"}],
   [GuestDoes({<<"chat", "guest", "delete_account">>, <<"app", "guest", "delete_account">>,
               <<"chat", "guest", "restore">>}) EXCEPT !.contacts = {"guest"}],
   GuestDoes({<<"chat", "guest", "delete_account">>, <<"chat", "guest", "restore">>,
              <<"cli", "guest", "users:restore">>, <<"cli", "guest", "users:disable">>}),
   [GuestDoes({<<"chat", "guest", "voice">>, <<"chat", "guest", "grant_voice">>,
               <<"app", "guest", "revoke_text">>, <<"app", "guest", "grant_text">>,
               <<"cli", "guest", "ai:suspend">>}) EXCEPT !.restarts = 1],
   [GuestDoes({<<"chat", "guest", "revoke_voice">>, <<"chat", "guest", "grant_voice">>,
               <<"app", "guest", "revoke_text">>}) EXCEPT !.provider = "other"]}

Directive(mode, title, summary, ask) ==
  [mode |-> mode, title |-> title, summary |-> summary, asked |-> ask]
OpenTopic == [status |-> "active", text |-> TRUE, fresh |-> TRUE, count |-> 0, at |-> 1]
TwoTurns ==
  [start |-> <<OpenTopic>>,
   directives |-> {}, controls |-> {}, by |-> {"handler", "retry"}, ops |-> {},
   faults |-> 1, ages |-> 0, turns |-> 3]
MCTopicScenarios ==
  {[TwoTurns EXCEPT !.ops = {"pause"},
      !.directives = {Directive("continue", FALSE, TRUE, FALSE),
                      Directive("new", TRUE, FALSE, FALSE),
                      Directive("resolve", FALSE, FALSE, FALSE)}],
   [TwoTurns EXCEPT !.ops = {"end", "profile"}, !.controls = {"no_persist"}, !.ages = 1,
      !.directives = {Directive("continue", TRUE, TRUE, TRUE),
                      Directive("none", FALSE, FALSE, FALSE),
                      Directive("new", FALSE, TRUE, TRUE)}]}

Kept(version) == [live |-> TRUE, text |-> 1, status |-> "active", sensitive |-> FALSE,
                  version |-> version, at |-> 0]
Absent == [Kept(0) EXCEPT !.live = FALSE]
Do(op) ==
  [op |-> op, goal |-> 1, task |-> 1, fact |-> 1, text |-> 0, status |-> "keep",
   sensitive |-> "keep", goalVersion |-> 0, taskVersion |-> 0, factVersion |-> 0]
Say(op) == [Do(op) EXCEPT !.text = 2]
OneOfEach ==
  [goals |-> <<Kept(1), Absent>>, facts |-> <<Kept(1), Absent>>,
   tasks |-> <<Kept(1), Absent>>, links |-> {}, plans |-> {}, web |-> {}, world |-> {},
   groups |-> 2, days |-> 0]
MCGoalScenarios ==
  {[OneOfEach EXCEPT !.world = {"task"}, !.tasks = <<Kept(3), Absent>>,
      !.plans = {<<Say("update_goal")>>, <<Do("link")>>},
      !.web = {[Do("update_goal") EXCEPT !.status = "paused"], Do("link"), Do("unlink")}],
   [OneOfEach EXCEPT !.web = {Do("link")},
      !.plans = {<<[Say("goal_plan") EXCEPT !.goal = 2, !.task = 2]>>,
                 <<Say("update_goal"),
                   [Do("update_goal") EXCEPT !.status = "completed"]>>}],
   [OneOfEach EXCEPT
      !.plans = {<<[Do("update_memory") EXCEPT !.sensitive = "yes"]>>,
                 <<Say("update_memory"), Do("delete_memory")>>},
      !.web = {Say("update_memory"), Do("delete_memory")}]}
MCRows == {1, 2}
===============================================================================
