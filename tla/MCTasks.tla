-------------------------------- MODULE MCTasks --------------------------------
(* TaskLife for TLC: for each machine a small task, and the changes, undos and   *)
(* crashes that make it interesting.                                            *)
EXTENDS TaskLife

MCRules == {"daily", "sparse"}
MCDatesOf == [r \in MCRules |-> IF r = "daily" THEN 0 .. 2 ELSE {1}]
Base == [timed |-> TRUE, deadline |-> FALSE, expires |-> FALSE, overlap |-> TRUE,
         ops |-> {}, changes |-> 0, edits |-> 0, answers |-> 0, undos |-> 0, crashes |-> 0]
Edit == [Base EXCEPT !.ops = {"edit"}, !.changes = 1, !.edits = 1, !.undos = 1]
Stop == [Base EXCEPT !.timed = FALSE, !.deadline = TRUE, !.ops = {"pause", "cancel"}]
MCScenarios ==
  {[Base EXCEPT !.ops = {"pause", "resume"}, !.changes = 2, !.undos = 1, !.crashes = 1],
   Edit, [Edit EXCEPT !.answers = 1, !.overlap = FALSE],
   [Stop EXCEPT !.changes = 2], [Stop EXCEPT !.changes = 1, !.undos = 1],
   [Base EXCEPT !.timed = FALSE, !.expires = TRUE, !.answers = 1],
   [Edit EXCEPT !.ops = {"pause", "edit", "resume"}, !.changes = 3, !.overlap = FALSE]}
Planned == [overlap |-> FALSE, overdue |-> FALSE, changes |-> 2, undos |-> 1,
            quiets |-> 1, crashes |-> 0, kinds |-> {"reschedule"}]
MCRebuildScenarios ==
  {[Planned EXCEPT !.overlap = TRUE, !.changes = 1, !.crashes = 1, !.quiets = 0],
   [Planned EXCEPT !.overlap = TRUE, !.undos = 0, !.crashes = 1, !.quiets = 0],
   [Planned EXCEPT !.kinds = {"add", "replace", "clear"}, !.undos = 0],
   [Planned EXCEPT !.kinds = {"close", "reschedule"}, !.overdue = TRUE, !.undos = 0],
   [Planned EXCEPT !.kinds = {"close", "reschedule"}, !.overdue = TRUE, !.quiets = 0]}

Dateless == [overlap |-> FALSE, kinds |-> {}, undoes |-> {}, changes |-> 2, undos |-> 1,
            crashes |-> 1]
MCUndatedScenarios ==
  {[Dateless EXCEPT !.kinds = {"add", "replace", "clear"}, !.undoes = {"add"}],
   [Dateless EXCEPT !.overlap = TRUE, !.kinds = {"date", "add"}, !.crashes = 0,
                   !.undos = 0],
   [Dateless EXCEPT !.kinds = {"date", "cancel", "close"}, !.undoes = {"date", "cancel", "close"}]}

MCMoments == {"mon", "tue"}
OneReminder == {"e1"}
OneFollowUp == {"f1"}
TwoReminders == {"o1", "o2"}
FirstReminder == {"o1"}
LoopAndTwo == {"loop", "req", "req2"}
LoopAndOne == {"loop", "req"}
===============================================================================
