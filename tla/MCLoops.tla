-------------------------------- MODULE MCLoops --------------------------------
(* What must happen in the end, of the four parts that loops and queues drive:  *)
(* reminders, digests, packages and turns, each in a world of its own.  A       *)
(* behaviour stays in the world it begins in, where one row, package or text is *)
(* watched; the variables of the others are off.                                *)
EXTENDS Integers, FiniteSets, TLC

CONSTANTS h1, t1, t2, t3, t4, d1, d2, g1, g2, g3, w,
          Updates, Retried, None, Original, System

VARIABLES world, watched, scenario, now, process, row, jobs, worker, active, snoozed,
          crashes, faults, edits, contacts, resets,
          sweep, occurrence, muted, before, replan, briefing, held,
          pass, settings, wanted,
          groups, spent, rows, clock, handler, expiring, recovery,
          sent, fetched, ledger, messages, live, account, turn, last, shown, promised

Ordinary ==
  [importance |-> "normal", firstAt |-> 1, dueAt |-> 2, briefingAt |-> 0, rows |-> {1},
   crashes |-> 1, faults |-> 1, edits |-> 0, kinds |-> {}]
Critical ==
  [Ordinary EXCEPT !.importance = "critical", !.firstAt = 0, !.dueAt = 0, !.rows = {1, 2},
                   !.crashes = 0]
DeliveryScenarios == {Ordinary, Critical}
D == INSTANCE ReminderDelivery WITH
       Rows <- {1, 2}, Workers <- {h1}, Interval <- 2, SlotTolerance <- 0,
       MaxBundleWait <- 2, WaitStep <- 1, MaxAttempts <- 2, RetryDelay <- 1,
       RetryAfter <- {1}, SweepAhead <- 1, Quiet <- {}, QuietSearch <- 0, Grace <- 1,
       MaxDeferral <- 10, Horizon <- 2, Scenarios <- DeliveryScenarios

BriefingScenarios ==
  {[handlers |-> 1, crashes |-> c, faults |-> 1 - c, edits |-> 0, kinds |-> {}] : c \in 0..1}
B == INSTANCE BriefingDelivery WITH
       Workers <- {h1}, Day <- 4, Slots <- {1}, Zones <- {0}, LateGrace <- 1,
       MaxAttempts <- 2, RetryDelay <- 1, RetryAfter <- {1}, Quiet <- {0, 1},
       QuietSearch <- 4, Horizon <- 2, Scenarios <- BriefingScenarios

Owner == d1 :> t1 @@ d2 :> t2
Ids == t1 :> 1 @@ t2 :> 2 @@ t3 :> 3 @@ t4 :> 4 @@ d1 :> 1001 @@ d2 :> 1002
Packages ==
  g1 :> {[op |-> "finish", row |-> d1]}
    @@ g2 :> {[op |-> "close", row |-> t1], [op |-> "skip", row |-> d2]}
    @@ g3 :> {[op |-> "create", row |-> t3], [op |-> "edit", row |-> d2]}
NoReplacement == g1 :> None @@ g2 :> None @@ g3 :> None
Carded ==
  [groups |-> {g1}, handlers |-> 2, crashes |-> 0, faults |-> 0, undos |-> 0,
   writes |-> 0]
(* A crash in the middle of a card or an undo; transactions that wait.          *)
GroupScenarios ==
  {[Carded EXCEPT !.crashes = 2, !.undos = 2], [Carded EXCEPT !.writes = 1, !.undos = 1]}
G == INSTANCE ActionGroups WITH
       Tasks <- {t1, t2, t3, t4}, Dates <- {d1, d2}, TaskOf <- Owner,
       OneTime <- {d1},
       Rank <- Ids, Groups <- {g1, g2, g3}, Steps <- Packages, Gated <- {g1},
       Replaces <- NoReplacement, Chat <- Updates, Retry <- Retried, Web <- {w},
       ConfirmTtl <- 1, UndoTtl <- 1, Horizon <- 2, Scenarios <- GroupScenarios

NoFaults ==
  [f \in {"errors", "limits", "crashes", "gates", "commands", "clears", "uncertain",
          "redeliveries", "losses"} |-> 0]
Disturbed(f) == [yes |-> {}, no |-> {}, budget |-> f @@ [NoFaults EXCEPT !["errors"] = 2]]
ChatScenarios ==
  {Disturbed("commands" :> 1), Disturbed("limits" :> 1), Disturbed("gates" :> 2),
   [Disturbed("crashes" :> 1 @@ "errors" :> 1) EXCEPT !.yes = {2}]}
C == INSTANCE ChatTurns WITH Messages <- {1, 2}, Retries <- 1, Scenarios <- ChatScenarios

delivery == <<sweep, occurrence, muted, before, replan, briefing, held>>
queue == <<now, process, row, jobs, worker, active, snoozed, crashes, faults, edits,
           contacts, resets>>
digest == <<pass, settings, wanted>>
packages == <<clock, handler, expiring, recovery>>
chat == <<sent, fetched, ledger, messages, live, account, turn, last, shown, promised>>
both == <<groups, spent, rows>>
vars == <<world, watched, scenario, delivery, queue, digest, packages, chat, both>>

NoDelivery == /\ sweep = 0 /\ occurrence = 0 /\ muted = 0 /\ before = 0 /\ replan = 0
              /\ briefing = 0 /\ held = 0
NoQueue == /\ now = 0 /\ process = 0 /\ row = 0 /\ jobs = 0 /\ worker = 0 /\ active = 0
           /\ snoozed = 0 /\ crashes = 0 /\ faults = 0 /\ edits = 0 /\ contacts = 0
           /\ resets = 0
NoDigest == pass = 0 /\ settings = 0 /\ wanted = 0
NoPackages == clock = 0 /\ handler = 0 /\ expiring = 0 /\ recovery = 0
NoChat == /\ sent = 0 /\ fetched = 0 /\ ledger = 0 /\ messages = 0 /\ live = 0
          /\ account = 0 /\ turn = 0 /\ last = 0 /\ shown = 0 /\ promised = 0
NoGroups == groups = 0 /\ spent = 0 /\ rows = 0
Init ==
  \/ /\ world = "delivery" /\ D!Init /\ watched \in scenario.rows
     /\ NoDigest /\ NoPackages /\ NoChat /\ NoGroups
  \/ /\ world = "digest" /\ B!Init /\ watched = 0
     /\ NoDelivery /\ NoPackages /\ NoChat /\ NoGroups
  \/ /\ world = "packages" /\ G!Init /\ watched = g1
     /\ NoDelivery /\ NoQueue /\ NoDigest /\ NoChat
  \/ /\ world = "chat" /\ C!Init /\ watched \in {1, 2}
     /\ NoDelivery /\ NoQueue /\ NoDigest /\ NoPackages

InDelivery(A) ==
  world = "delivery" /\ A /\ UNCHANGED <<world, watched, digest, packages, chat, both>>
InDigest(A) ==
  world = "digest" /\ A /\ UNCHANGED <<world, watched, delivery, packages, chat, both>>
InPackages(A) ==
  world = "packages" /\ A /\ UNCHANGED <<world, watched, delivery, queue, digest, chat>>
InChat(A) ==
  world = "chat" /\ A /\ UNCHANGED <<world, watched, delivery, queue, digest, packages>>
Next ==
  InDelivery(D!Next) \/ InDigest(B!Next) \/ InPackages(G!Next) \/ InChat(C!Next)

(* The fairness of the four, world by world: an update's handler, the retry     *)
(* loop and a worker each have one next step.                                   *)
Handles == C!Save \/ C!Replay \/ C!Turn("chat")
Retries == C!TickReads \/ C!TickTakes \/ C!Turn("tick")
Serves(h) ==
  \/ h = Updates /\ (InDelivery(D!Deliver(h1)) \/ InDigest(B!Deliver(h1))
                     \/ InPackages(G!Serve(Updates)) \/ InChat(Handles))
  \/ h = Retried /\ (InPackages(G!Serve(Retried)) \/ InChat(Retries))
  \/ h = w /\ InPackages(G!Serve(w))
Reconciles ==
  InDelivery(D!Reconcile) \/ InDigest(B!PassStep) \/ InPackages(G!FindExpired)
Boots == InDelivery(D!Boot) \/ InDigest(B!Boot) \/ InPackages(G!Boot)
TimePasses ==
  InDelivery(D!Tick) \/ InDigest(B!Tick) \/ InPackages(G!Tick) \/ InChat(C!HourPasses)
Fairness ==
  /\ \A h \in {Updates, Retried, w} : WF_vars(Serves(h))
  /\ WF_vars(Reconciles) /\ WF_vars(InPackages(G!ExpirePending)) /\ WF_vars(Boots)
  /\ WF_vars(TimePasses)
Spec == Init /\ [][Next]_vars /\ Fairness
--------------------------------------------------------------------------------
(* What may not wait for ever: a pending reminder; a pending digest of today,   *)
(* while the account is active; a package that was asked for; a text whose      *)
(* failure was answered "I will try again myself", while the AI is on.          *)
Waiting ==
  CASE world = "delivery" -> row[watched].status = "pending"
    [] world = "digest" -> LET k == [date |-> watched, slot |-> 1] IN
                           row[k].status = "pending" /\ B!OfToday(k) /\ active
    [] world = "packages" -> G!Status(watched) \notin G!Settled \cup {"none"}
    [] world = "chat" -> watched \in promised /\ account.ai
NothingWaitsForever == Waiting ~> ~Waiting
================================================================================
