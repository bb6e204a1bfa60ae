------------------------------- MODULE ChatTurns -------------------------------
(* One private chat.  Its updates are handled one after another: Telegram holds *)
(* an update until it is acknowledged and may deliver it again, the ledger lets *)
(* the first delivery through.  A text becomes a row of messages and then one   *)
(* turn: the gates, the card a bare yes answers, the model, the package of      *)
(* actions, the reply.  A turn that fails is taken again by the retry loop or   *)
(* by /retry_ai, so two turns may be under way at a time.                       *)
(* Sources: telegram/telegram.service.ts, telegram/telegram-updates.repository. *)
(* ts, telegram/handlers/text.service.ts and system-commands.service.ts,        *)
(* chat/chat.service.ts, chat/ai-retry.service.ts, messages/messages.repository.*)
(* ts, ai/ai.repository.ts.                                                     *)
EXTENDS Naturals, FiniteSets

CONSTANTS
  Messages,   \* texts the user sends, numbered in their order
  Retries,    \* automatic retries of a failed turn (AUTOMATIC_RETRY_DELAYS_MS)
  Scenarios   \* which texts are a bare yes or no, and how often what may go wrong does

Faults == {"errors", "limits", "crashes", "gates", "commands", "clears", "uncertain",
           "redeliveries", "losses"}
Scenario == [yes: SUBSET Messages, no: SUBSET Messages, budget: [Faults -> Nat]]

ASSUME ChatAssumption == Scenarios \subseteq Scenario

VARIABLES
  scenario, spent,
  sent,      \* texts the user has sent
  fetched,   \* updates in the memory of the process, waiting for their turn
  ledger,    \* telegram_updates
  messages,  \* the user's rows: status, ai_retry_count, and ai_next_retry_at: null, a
             \* minute or five that may be over, or the hour of a deferral
  groups,    \* the action group a message has led to
  live,      \* how many groups of a message are pending or applied
  account,   \* ai_status and the consent
  turn,      \* the turns under way: the chat's and the retry loop's
  rows,      \* what the retry loop has read and not yet taken, with the counts read
  last,      \* the card of the newest assistant row, 0 when it has none
  shown,     \* the cards the user has been sent
  promised   \* texts whose failure was answered "I will try again myself"

vars == <<scenario, spent, sent, fetched, ledger, messages, groups, live, account, turn,
          rows, last, shown, promised>>
effects == <<groups, live>>
inbox == <<sent, fetched>>
display == <<last, shown>>

Turns == {"chat", "tick"}
Row == [status: {"none", "processing", "processed", "waiting_ai", "blocked_consent"},
        count: Nat, due: {"no", "yes", "hour"}]
Steps == {"idle", "save", "limit", "replay", "gate", "card", "answer", "decide", "model",
          "commit", "after", "reply", "record"}
Resting == [pc |-> "idle", m |-> 0, by |-> "text", ai |-> TRUE, count |-> 0, card |-> 0,
            made |-> "none"]
NoRow == [status |-> "none", count |-> 0, due |-> "no"]

Spend(f) == spent[f] < scenario.budget[f] /\ spent' = [spent EXCEPT ![f] = @ + 1]
Exists(m) == messages[m].status # "none"
RetryableUnclaimed(m) == messages[m].status \in {"waiting_ai", "blocked_consent", "processing"}
Retryable(m) == messages[m].status \in {"waiting_ai", "blocked_consent"}
Pending == {m \in Messages : groups[m] = "pending"}
Allowed == account.ai /\ account.consent
(* An UPDATE of a row that /clear has deleted changes nothing.                  *)
Set(m, s) ==
  messages' = [messages EXCEPT ![m] = IF @.status = "none" THEN @
    ELSE [status |-> s, count |-> @.count, due |-> IF s = "processed" THEN "no" ELSE @.due]]
Defer(m) ==
  messages' = [messages EXCEPT ![m] = IF @.status = "none" THEN @
    ELSE [@ EXCEPT !.status = "waiting_ai", !.due = "hour"]]
Go(p, pc) == turn' = [turn EXCEPT ![p].pc = pc]
(* The handler is over: its update is handled; the loop goes to its next row.   *)
Handle(m) == ledger' = [ledger EXCEPT ![m] = "handled"]
Rest(p) ==
  /\ turn' = [turn EXCEPT ![p] = Resting]
  /\ IF turn[p].by = "text" THEN Handle(turn[p].m) ELSE UNCHANGED ledger

Init ==
  /\ scenario \in Scenarios /\ spent = [f \in Faults |-> 0]
  /\ sent = {} /\ fetched = {} /\ ledger = [m \in Messages |-> "none"]
  /\ messages = [m \in Messages |-> NoRow]
  /\ groups = [m \in Messages |-> "none"] /\ live = [m \in Messages |-> 0]
  /\ account = [ai |-> TRUE, consent |-> TRUE]
  /\ turn = [p \in Turns |-> Resting] /\ rows = {}
  /\ last = 0 /\ shown = {} /\ promised = {}
-----------------------------------------------------------------------------
(* Updates come in the order they were sent, and again until Telegram has seen   *)
(* them acknowledged.                                                           *)
Send(m) ==
  /\ m \notin sent /\ \A k \in Messages : k < m => k \in sent
  /\ sent' = sent \cup {m} /\ fetched' = fetched \cup {m}
  /\ UNCHANGED <<scenario, spent, ledger, messages, effects, account, turn, rows, display,
                 promised>>
Redeliver(m) ==
  /\ m \in sent \ fetched /\ Spend("redeliveries") /\ fetched' = fetched \cup {m}
  /\ UNCHANGED <<scenario, sent, ledger, messages, effects, account, turn, rows, display, promised>>

Claimable(m) == ledger[m] = "none"
(* sequentialize hands the chat's next update to the middleware: the account is *)
(* read, the ledger claimed, and a delivery that is not the first is dropped.   *)
Take(m) ==
  /\ turn["chat"].pc = "idle" /\ m \in fetched /\ \A k \in fetched : m <= k
  /\ fetched' = fetched \ {m}
  /\ IF Claimable(m)
       THEN /\ ledger' = [ledger EXCEPT ![m] = "received"]
            /\ turn' = [turn EXCEPT !["chat"] = [Resting EXCEPT !.pc = "save", !.m = m,
                                                                !.ai = account.ai]]
       ELSE UNCHANGED <<ledger, turn>>
  /\ UNCHANGED <<scenario, spent, sent, messages, effects, account, rows, display, promised>>

Saved(s, due) == [status |-> s, count |-> 0, due |-> due]
(* processText: the row is inserted once, in the status its gates give it.      *)
Save ==
  LET m == turn["chat"].m IN
  /\ turn["chat"].pc = "save"
  /\ \/ Exists(m) /\ Rest("chat") /\ UNCHANGED messages
     \/ /\ ~Exists(m) /\ ~turn["chat"].ai /\ Rest("chat")
        /\ messages' = [messages EXCEPT ![m] = Saved("waiting_ai", "no")]
     \/ /\ ~Exists(m) /\ turn["chat"].ai /\ ~account.consent /\ Rest("chat")
        /\ messages' = [messages EXCEPT ![m] = Saved("blocked_consent", "no")]
     \/ /\ ~Exists(m) /\ turn["chat"].ai /\ account.consent /\ Go("chat", "limit")
        /\ messages' = [messages EXCEPT ![m] = Saved("processing", "no")]
        /\ UNCHANGED ledger
  /\ UNCHANGED <<scenario, spent, inbox, effects, account, rows, display, promised>>
(* The hourly limit is asked for once the text is saved as being processed; a   *)
(* text over it is put off in a statement of its own.                           *)
Limit(p) ==
  /\ turn[p].pc = "limit"
  /\ \/ Go(p, "gate") /\ UNCHANGED <<messages, ledger, spent>>
     \/ Spend("limits") /\ Defer(turn[p].m) /\ Rest(p)
  /\ UNCHANGED <<scenario, inbox, effects, account, rows, display, promised>>
-----------------------------------------------------------------------------
(* One turn, processPersistedMessage.  The account is read again at its gate.   *)
Gate(p) ==
  LET m == turn[p].m IN
  /\ turn[p].pc = "gate"
  /\ IF Allowed THEN Go(p, "card") /\ UNCHANGED <<messages, ledger, promised>>
     ELSE /\ Set(m, IF ~account.ai THEN "waiting_ai" ELSE "blocked_consent")
          /\ promised' = promised \ {m} /\ Rest(p)
  /\ UNCHANGED <<scenario, spent, inbox, effects, account, rows, display>>

(* The live card is the pending group of the newest assistant row; a bare yes   *)
(* or no to it is answered without the model.                                   *)
Bare == scenario.yes \cup scenario.no
Card(p) ==
  LET c == IF last \in Pending THEN last ELSE 0 IN
  /\ turn[p].pc = "card"
  /\ turn' = [turn EXCEPT ![p] = [@ EXCEPT !.card = c,
       !.pc = IF c # 0 /\ turn[p].m \in Bare THEN "answer" ELSE "model"]]
  /\ UNCHANGED <<scenario, spent, inbox, ledger, messages, effects, account, rows, display,
                 promised>>
(* The text is marked as answered first, or fails to be, and the card decided   *)
(* after: by then a button or its expiry may have done so, and a package that   *)
(* can no longer be applied fails.                                              *)
Answer(p) ==
  LET m == turn[p].m IN
  /\ turn[p].pc = "answer"
  /\ \/ Set(m, "processed") /\ UNCHANGED spent
     \/ UNCHANGED messages /\ Spend("losses")
  /\ promised' = promised \ {m} /\ Go(p, "decide")
  /\ UNCHANGED <<scenario, inbox, ledger, effects, account, rows, display>>
DecideCard(p) ==
  LET c == turn[p].card IN
  /\ turn[p].pc = "decide" /\ Go(p, "reply")
  /\ \/ /\ c \in Pending /\ turn[p].m \in scenario.yes /\ UNCHANGED spent
        /\ \/ groups' = [groups EXCEPT ![c] = "applied"] /\ UNCHANGED live
           \/ /\ groups' = [groups EXCEPT ![c] = "failed"]
              /\ live' = [live EXCEPT ![c] = @ - 1]
     \/ /\ c \in Pending /\ turn[p].m \notin scenario.yes /\ UNCHANGED spent
        /\ groups' = [groups EXCEPT ![c] = "cancelled"]
        /\ live' = [live EXCEPT ![c] = @ - 1]
     \/ c \notin Pending /\ UNCHANGED <<effects, spent>>
     \/ c \in Pending /\ UNCHANGED effects /\ Spend("losses")
  /\ UNCHANGED <<scenario, inbox, ledger, messages, account, rows, display, promised>>

NoticeLate(p) == turn[p].count > Retries
(* The loop tells the user that the attempt it took was the last: by the count  *)
(* of the row it read at the beginning of its tick.                             *)
NoticeDue(p) == turn[p].count >= Retries
(* The end of a turn that threw: text_failed and retry_failed are the chat's    *)
(* answers; the loop answers only after its last attempt.                       *)
Apologise(p) ==
  promised' = CASE turn[p].by = "text" -> promised \cup {turn[p].m}
                [] turn[p].by = "command" -> promised \ {turn[p].m}
                [] turn[p].by = "tick" -> IF NoticeDue(p) THEN promised \ {turn[p].m} ELSE promised
(* scheduleAiRetry counts the failure; the count decides whether it is due again.*)
ScheduleRetry(m) ==
  messages' = [messages EXCEPT ![m] = IF @.status = "none" THEN @ ELSE
    [status |-> "waiting_ai", count |-> @.count + 1, due |-> IF @.count + 1 <= Retries THEN "yes" ELSE "no"]]
Fail(p) ==
  /\ ScheduleRetry(turn[p].m) /\ Rest(p)
  /\ IF Exists(turn[p].m) THEN Apologise(p) ELSE promised' = promised \ {turn[p].m}
Throw(p) == Fail(p) /\ UNCHANGED <<scenario, inbox, effects, account, rows, display>>

(* The model answers in words, or its actions are refused; or it proposes a     *)
(* package; or the call fails.                                                  *)
Model(p) ==
  /\ turn[p].pc = "model"
  /\ \/ /\ Set(turn[p].m, "processed") /\ promised' = promised \ {turn[p].m}
        /\ Go(p, "reply") /\ UNCHANGED <<scenario, spent, inbox, ledger, effects, account,
                                         rows, display>>
     \/ /\ Go(p, "commit") /\ UNCHANGED <<scenario, spent, inbox, ledger, messages, effects,
                                          account, rows, display, promised>>
     \/ Spend("errors") /\ Throw(p)

InsertableOnce(m) == Exists(m)
(* The group names its message: the row must exist, and no other group of it    *)
(* may be pending or applied (action_groups_active_source_message_uq).          *)
Insertable(m) == Exists(m) /\ live[m] = 0
(* handleProposed: an explicit package is applied, an inferred one stored for   *)
(* confirmation.  A lost connection leaves the outcome unknown to the turn.     *)
Commit(p) ==
  LET m == turn[p].m IN
  /\ turn[p].pc = "commit"
  /\ \/ ~Insertable(m) /\ Throw(p) /\ UNCHANGED spent
     \/ /\ Insertable(m)
        /\ \E kind \in {"applied", "pending"} :
             /\ groups' = [groups EXCEPT ![m] = kind]
             /\ turn' = [turn EXCEPT ![p] = [@ EXCEPT !.pc = "after", !.made = kind]]
        /\ live' = [live EXCEPT ![m] = @ + 1]
        /\ UNCHANGED <<scenario, spent, inbox, ledger, messages, account, rows, display,
                       promised>>
     \/ /\ Insertable(m) /\ Spend("uncertain")
        /\ \/ UNCHANGED effects
           \/ /\ groups' = [groups EXCEPT ![m] = "applied"]
              /\ live' = [live EXCEPT ![m] = @ + 1]
        /\ Set(m, "processed") /\ promised' = promised \ {m} /\ Rest(p)
        /\ UNCHANGED <<scenario, inbox, account, rows, display>>

(* What follows a commit: the words for a stored proposal may fail to be read,  *)
(* which fails the turn although its card exists.  Otherwise the card the turn  *)
(* has answered is cancelled and the status written; a failure of either is     *)
(* logged.                                                                      *)
After(p) ==
  LET m == turn[p].m
      c == turn[p].card IN
  /\ turn[p].pc = "after"
  /\ \/ turn[p].made = "pending" /\ Spend("errors") /\ Throw(p)
     \/ /\ Go(p, "reply") /\ promised' = promised \ {m}
        /\ \/ Set(m, "processed") /\ UNCHANGED spent
           \/ UNCHANGED messages /\ Spend("losses")
        /\ \/ UNCHANGED effects
           \/ /\ c \in Pending
              /\ groups' = [groups EXCEPT ![c] = "cancelled"]
              /\ live' = [live EXCEPT ![c] = @ - 1]
        /\ UNCHANGED <<scenario, inbox, ledger, account, rows, display>>
-----------------------------------------------------------------------------
(* The reply is sent, and only then recorded as the newest assistant row.  A    *)
(* failure to send or to record is logged.                                      *)
Offered(p) == IF turn[p].made = "pending" THEN turn[p].m ELSE 0
Reply(p) ==
  /\ turn[p].pc = "reply"
  /\ \/ /\ Go(p, "record") /\ UNCHANGED <<ledger, spent>>
        /\ shown' = shown \cup ({Offered(p)} \ {0})
     \/ Rest(p) /\ Spend("losses") /\ UNCHANGED shown
  /\ UNCHANGED <<scenario, inbox, messages, effects, account, rows, last, promised>>
Record(p) ==
  /\ turn[p].pc = "record" /\ Rest(p)
  /\ \/ last' = Offered(p) /\ UNCHANGED spent
     \/ Spend("losses") /\ UNCHANGED last
  /\ UNCHANGED <<scenario, inbox, messages, effects, account, rows, shown, promised>>

(* /retry_ai, and the consent button, which grants and then replays: the newest *)
(* text that waits is claimed, unless a gate or the hourly limit is in the way. *)
Command ==
  /\ turn["chat"].pc = "idle" /\ Spend("commands")
  /\ \E grant \in BOOLEAN : account' = [account EXCEPT !.consent = @ \/ grant]
  /\ turn' = [turn EXCEPT !["chat"] = [Resting EXCEPT !.pc = "replay", !.by = "command",
                                                      !.ai = account.ai]]
  /\ UNCHANGED <<scenario, inbox, ledger, messages, effects, rows, display, promised>>
Newest(m) == Retryable(m) /\ \A k \in Messages : k > m => ~Retryable(k)
Claim(p, m) == /\ messages' = [messages EXCEPT ![m] = [@ EXCEPT !.status = "processing", !.due = "no"]]
               /\ UNCHANGED ledger
Replay ==
  /\ turn["chat"].pc = "replay"
  /\ \/ /\ ~(turn["chat"].ai /\ account.consent /\ \E m \in Messages : Retryable(m))
        /\ Rest("chat") /\ UNCHANGED <<messages, spent>>
     \/ /\ turn["chat"].ai /\ account.consent
        /\ \E m \in Messages : Newest(m) /\
             \/ Spend("limits") /\ Defer(m) /\ Rest("chat")
             \/ /\ Claim("chat", m) /\ UNCHANGED spent
                /\ turn' = [turn EXCEPT !["chat"] = [@ EXCEPT !.pc = "gate", !.m = m]]
  /\ UNCHANGED <<scenario, inbox, effects, account, rows, display, promised>>

(* The retry loop: a tick reads the rows that are due, of an account that is on *)
(* ...                                                                          *)
Due == {m \in Messages : messages[m].status = "waiting_ai" /\ messages[m].due = "yes"}
TickReads ==
  /\ turn["tick"].pc = "idle" /\ rows = {} /\ account.ai /\ Due # {}
  /\ rows' = {[m |-> m, count |-> messages[m].count] : m \in Due}
  /\ UNCHANGED <<scenario, spent, inbox, ledger, messages, effects, account, turn, display,
                 promised>>
(* ... and takes them one after another.  The consent and the limit set the     *)
(* status of the row as it was read; only the claim looks at what it is now.    *)
TickTakes ==
  /\ turn["tick"].pc = "idle"
  /\ \E row \in rows :
       /\ rows' = rows \ {row}
       /\ \/ /\ ~account.consent /\ Set(row.m, "blocked_consent")
             /\ promised' = promised \ {row.m} /\ UNCHANGED <<turn, spent>>
          \/ /\ account.consent /\ Spend("limits") /\ Defer(row.m)
             /\ UNCHANGED <<turn, promised>>
          \/ /\ account.consent /\ Retryable(row.m) /\ Claim("tick", row.m)
             /\ turn' = [turn EXCEPT !["tick"] = [Resting EXCEPT !.pc = "gate", !.m = row.m,
                                                     !.by = "tick", !.count = row.count]]
             /\ UNCHANGED <<spent, promised>>
          \/ /\ account.consent /\ ~Retryable(row.m)
             /\ UNCHANGED <<messages, turn, spent, promised>>
  /\ UNCHANGED <<scenario, inbox, ledger, effects, account, display>>
(* The hour of a deferral is longer than any turn.                              *)
HourPasses ==
  /\ \E m \in Messages : messages[m].due = "hour"
  /\ turn["chat"].pc = "idle" /\ turn["tick"].pc = "idle" /\ rows = {}
  /\ messages' = [m \in Messages |-> [messages[m] EXCEPT !.due = IF @ = "hour" THEN "yes" ELSE @]]
  /\ UNCHANGED <<scenario, spent, inbox, ledger, effects, account, turn, rows, display,
                 promised>>
-----------------------------------------------------------------------------
(* The buttons of a card that was sent, and its expiry.                         *)
Decide(m) ==
  /\ m \in Pending
  /\ \/ turn["chat"].pc = "idle" /\ m \in shown /\ groups' = [groups EXCEPT ![m] = "applied"]
        /\ UNCHANGED live
     \/ /\ groups' = [groups EXCEPT ![m] = "cancelled"]
        /\ live' = [live EXCEPT ![m] = @ - 1]
  /\ UNCHANGED <<scenario, spent, inbox, ledger, messages, account, turn, rows, display,
                 promised>>
(* /clear deletes the conversation, the rows of a turn under way included.      *)
Clear ==
  /\ turn["chat"].pc = "idle" /\ Spend("clears")
  /\ messages' = [m \in Messages |-> NoRow] /\ last' = 0 /\ promised' = {}
  /\ UNCHANGED <<scenario, inbox, ledger, effects, account, turn, rows, shown>>
(* /ai_revoke is an update of the chat; the owner suspends and enables from a   *)
(* shell, at any time.                                                          *)
Regulate ==
  /\ Spend("gates")
  /\ \/ turn["chat"].pc = "idle" /\ account' = [account EXCEPT !.consent = FALSE]
     \/ account' = [account EXCEPT !.ai = ~@]
  /\ UNCHANGED <<scenario, inbox, ledger, messages, effects, turn, rows, display, promised>>
(* The process dies.  What it held in memory is gone, except for the updates    *)
(* Telegram delivers again, and the next one marks as lost those the ledger has *)
(* had as received for long enough.                                             *)
Crash ==
  /\ Spend("crashes")
  /\ fetched' \in SUBSET fetched /\ rows' = {} /\ turn' = [p \in Turns |-> Resting]
  /\ promised' = promised \ ({turn[p].m : p \in Turns} \cup {row.m : row \in rows})
  /\ \E old \in SUBSET {m \in Messages : ledger[m] = "received"} :
       ledger' = [m \in Messages |-> IF m \in old THEN "lost" ELSE ledger[m]]
  /\ UNCHANGED <<scenario, sent, messages, effects, account, display>>

Turn(p) ==
  \/ Limit(p) \/ Gate(p) \/ Card(p) \/ Answer(p) \/ DecideCard(p)
  \/ Model(p) \/ Commit(p) \/ After(p) \/ Reply(p) \/ Record(p)
Next ==
  \/ \E m \in Messages : Send(m) \/ Redeliver(m) \/ Take(m) \/ Decide(m)
  \/ Save \/ Command \/ Replay \/ TickReads \/ TickTakes \/ HourPasses
  \/ Clear \/ Regulate \/ Crash \/ \E p \in Turns : Turn(p)

(* Handlers run to their end, the retry loop ticks and hours pass; nothing      *)
(* obliges the user, the owner or faults.                                       *)
Fairness ==
  /\ WF_vars(Save) /\ WF_vars(Replay) /\ \A p \in Turns : WF_vars(Turn(p))
  /\ WF_vars(TickReads) /\ WF_vars(TickTakes) /\ WF_vars(HourPasses)
Spec == Init /\ [][Next]_vars /\ Fairness
-----------------------------------------------------------------------------
TypeOK ==
  /\ scenario \in Scenarios \cap Scenario /\ spent \in [Faults -> Nat]
  /\ sent \subseteq Messages /\ fetched \subseteq Messages
  /\ ledger \in [Messages -> {"none", "received", "handled", "lost"}]
  /\ messages \in [Messages -> Row]
  /\ groups \in [Messages -> {"none", "pending", "applied", "cancelled", "failed"}]
  /\ live \in [Messages -> 0 .. 2] /\ account \in [ai: BOOLEAN, consent: BOOLEAN]
  /\ turn \in [Turns -> [pc: Steps, m: Messages \cup {0}, by: {"text", "command", "tick"},
                         ai: BOOLEAN, count: Nat, card: Messages \cup {0},
                         made: {"none", "applied", "pending"}]]
  /\ rows \subseteq [m: Messages, count: Nat]
  /\ shown \subseteq Messages /\ last \in Messages \cup {0}
  /\ promised \subseteq Messages
  /\ \A p \in Turns : turn[p].pc \notin {"idle", "replay"} => turn[p].m \in Messages

(* One turn at a time works on a text, whoever began it: what a turn has sent to *)
(* the model the other neither works on nor is about to save.                   *)
TurnsAreApart ==
  \A p, q \in Turns : /\ p # q /\ turn[p].pc \notin {"idle", "replay", "save"}
                      /\ turn[q].pc \notin {"idle", "replay"}
    => turn[p].m # turn[q].m

(* What the user's data sees of a text is the contract of a single effect.      *)
Effect == [m \in Messages |-> IF live[m] > 1 THEN "twice"
             ELSE IF groups[m] = "applied" THEN "made"
             ELSE IF groups[m] = "pending" THEN "offered" ELSE "none"]
Contract == INSTANCE TurnContract WITH effect <- Effect
Refines == Contract!Spec

(* Who was told "I will try again myself" gets an answer, unless the AI stays   *)
(* off for the account.                                                         *)
PromiseIsKept == \A m \in Messages : m \in promised ~> m \notin promised \/ ~account.ai
===============================================================================
