---------------------------- MODULE MCActionGroups ----------------------------
(* ActionGroups for TLC: two tasks with a date each, and packages that meet on  *)
(* them: a card to finish the one-time date, a package that closes its task and *)
(* skips the other date, one that creates a task and edits that other date, and *)
(* a card to move the task so created.                                          *)
EXTENDS ActionGroups, TLC

CONSTANTS t1, t2, t3, t4, d1, d2, g1, g2, g3, g4, w

AllTasks == {t1, t2, t3, t4}
AllDates == {d1, d2}
Owner == d1 :> t1 @@ d2 :> t2
OneTimeDates == {d1}
Ids == t1 :> 1 @@ t2 :> 2 @@ t3 :> 3 @@ t4 :> 4 @@ d1 :> 1001 @@ d2 :> 1002
AllGroups == {g1, g2, g3, g4}
Cards == {g1, g4}
OneForm == {w}

Packages ==
  g1 :> {[op |-> "finish", row |-> d1]}
    @@ g2 :> {[op |-> "close", row |-> t1], [op |-> "skip", row |-> d2]}
    @@ g3 :> {[op |-> "create", row |-> t3], [op |-> "edit", row |-> d2]}
    @@ g4 :> {[op |-> "edit", row |-> t3]}
NoReplacement == [g \in AllGroups |-> None]

(* The same task, once proposed on a card and once asked for in words. *)
SameTask ==
  g1 :> {[op |-> "create", row |-> t3]} @@ g2 :> {} @@ g3 :> {[op |-> "create", row |-> t4]}
    @@ g4 :> {}
Accepted == [NoReplacement EXCEPT ![g3] = g1]

Quiet == [groups |-> {g1, g2, g3}, handlers |-> 2, crashes |-> 0, faults |-> 0,
          undos |-> 0, writes |-> 0]

(* All packages at once; the card and the lifecycle loop, with an undo; two    *)
(* packages, one undone; a crash; a lost connection; a card whose task an undo  *)
(* takes away.                                                                 *)
Contending == Quiet
Overtaken == [Quiet EXCEPT !.groups = {g1}, !.undos = 1, !.writes = 2]
Regretted == [Quiet EXCEPT !.groups = {g2, g3}, !.undos = 2, !.writes = 1]
Crashing == [Quiet EXCEPT !.groups = {g1, g3}, !.undos = 1, !.crashes = 1]
Failing == [Quiet EXCEPT !.groups = {g1, g3}, !.undos = 1, !.faults = 2]

Vanishing == [Quiet EXCEPT !.groups = {g3, g4}, !.undos = 1]

Disturbances == {Contending, Overtaken, Regretted, Crashing, Failing, Vanishing}

(* For liveness: a crash in the middle of a card or an undo, and transactions  *)
(* that wait for each other.                                                   *)
Waiting == [Quiet EXCEPT !.groups = {g1}, !.undos = 1, !.writes = 1]
Interruptions == {[Crashing EXCEPT !.groups = {g1}, !.undos = 2, !.crashes = 2], Waiting}

Conversation == {[Quiet EXCEPT !.groups = {g1, g3}]}
=============================================================================
