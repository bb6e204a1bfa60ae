---------------------------- MODULE DialogueProofs ----------------------------
(***************************************************************************)
(* What is proved of a chat with one user, for all values of the constants: *)
(* of its turns, that no two work on one text and that what the user's data *)
(* sees of a text is the contract of a single effect; of the accounts and   *)
(* the topics, that what should happen once does and that nothing is        *)
(* deleted or sent unasked; of the settings and of the goals, that an undo  *)
(* takes back its own exactly and that a screen's write lands on what it    *)
(* showed; and of the dialogue that holds them, the same, and that every    *)
(* variable of every part keeps its type.                                   *)
(***************************************************************************)
EXTENDS Dialogue, FiniteSetTheorems, WellFoundedInduction, TLAPS

(* The turns.                                                               *)
TurnRecord ==
  [pc: Steps, m: Messages \cup {0}, by: {"text", "command", "tick"}, ai: BOOLEAN,
   count: Nat, card: Messages \cup {0}, made: {"none", "applied", "pending"}]

(* Past its saving, a turn works on its text.                               *)
Working(p) == turn[p].pc \notin {"idle", "replay", "save"}
Saving == turn["chat"].pc = "save"

(* A text has a live group when its group waits or is applied, and then one. *)
LiveCounted ==
  \A m \in Messages : live[m] = IF groups[m] \in {"pending", "applied"} THEN 1 ELSE 0

(* A text is saved by the turn of its first delivery, which is the chat's.  *)
SavedOnce ==
  /\ turn["tick"].pc \notin {"replay", "save"}
  /\ \A m \in Messages : Exists(m) => ledger[m] # "none"
  /\ \A p \in Turns : turn[p].pc \notin {"idle", "replay"} => ledger[turn[p].m] # "none"
  /\ Saving => ~Exists(turn["chat"].m)

(* What the loop works on nobody can take; what the chat works on the loop   *)
(* may have read before and may still mark, but neither reads it again nor   *)
(* takes it.                                                                *)
Claimed ==
  /\ Working("tick") => ~Retryable(turn["tick"].m)
  /\ Working("chat") =>
       /\ turn["chat"].m \notin Due
       /\ Retryable(turn["chat"].m) => \A entry \in rows : entry.m # turn["chat"].m
  /\ \A entry, other \in rows : entry.m = other.m => entry = other
  /\ Working("tick") /\ (Working("chat") \/ Saving) => turn["chat"].m # turn["tick"].m

TypeInv == TypeOK /\ LiveCounted
ChatInv == TypeInv /\ SavedOnce /\ Claimed
-----------------------------------------------------------------------------
(* A turn that comes to rest lets go of its text, and may handle its update. *)
LEMMA RestMoves ==
  ASSUME TypeOK, NEW p \in Turns, Rest(p)
  PROVE  /\ turn' \in [Turns -> TurnRecord] /\ turn'[p].pc = "idle" /\ turn'[p].m = 0
         /\ \A q \in Turns \ {p} : turn'[q] = turn[q]
         /\ ledger' \in [Messages -> {"none", "received", "handled", "lost"}]
         /\ \A m \in Messages : ledger[m] # "none" => ledger'[m] # "none"
<1>1. turn \in [Turns -> TurnRecord]
      /\ ledger \in [Messages -> {"none", "received", "handled", "lost"}]
  BY DEF TypeOK, TurnRecord
<1>2. Resting \in TurnRecord
  BY DEF Resting, TurnRecord, Steps
<1>3. turn' = [turn EXCEPT ![p] = Resting]
      /\ (ledger' = ledger \/ \E m \in Messages \cup {0} : Handle(m))
  BY <1>1 DEF Rest, TurnRecord
<1>4. /\ ledger' \in [Messages -> {"none", "received", "handled", "lost"}]
      /\ \A m \in Messages : ledger[m] # "none" => ledger'[m] # "none"
  BY <1>1, <1>3 DEF Handle
<1> QED BY <1>1, <1>2, <1>3, <1>4 DEF Resting

(* A turn that goes on keeps its text.                                      *)
LEMMA GoMoves ==
  ASSUME TypeOK, NEW p \in Turns, NEW pc \in Steps, Go(p, pc)
  PROVE  /\ turn' \in [Turns -> TurnRecord] /\ turn'[p].pc = pc /\ turn'[p].m = turn[p].m
         /\ \A q \in Turns \ {p} : turn'[q] = turn[q]
<1>1. turn \in [Turns -> TurnRecord]
  BY DEF TypeOK, TurnRecord
<1> QED BY <1>1 DEF Go, TurnRecord

(* What an update of a row leaves: the other rows, and whether there is one. *)
Updates(m) ==
  /\ messages' \in [Messages -> Row]
  /\ \A k \in Messages \ {m} : messages'[k] = messages[k]
  /\ m \in Messages => (messages'[m].status # "none") = (messages[m].status # "none")

LEMMA SetMoves ==
  ASSUME TypeOK, NEW m, NEW s \in {"processing", "processed", "waiting_ai", "blocked_consent"},
         Set(m, s)
  PROVE  /\ Updates(m)
         /\ m \in Messages => messages'[m].status \in {"none", s}
<1>1. messages \in [Messages -> Row]
  BY DEF TypeOK
<1> QED BY <1>1 DEF Set, Row, Updates

LEMMA DeferMoves ==
  ASSUME TypeOK, NEW m, Defer(m)
  PROVE  /\ Updates(m)
         /\ m \in Messages => messages'[m].status = "none" \/ messages'[m].due = "hour"
<1>1. messages \in [Messages -> Row]
  BY DEF TypeOK
<1> QED BY <1>1 DEF Defer, Row, Updates

LEMMA RetryMoves ==
  ASSUME TypeOK, NEW m, ScheduleRetry(m)
  PROVE  Updates(m)
<1>1. messages \in [Messages -> Row]
  BY DEF TypeOK
<1> DEFINE entry == IF messages[m].status = "none" THEN messages[m] ELSE
             [status |-> "waiting_ai", count |-> messages[m].count + 1,
              due |-> IF messages[m].count + 1 <= Retries THEN "yes" ELSE "no"]
<1>2. messages' = [messages EXCEPT ![m] = entry]
  BY DEF ScheduleRetry
<1>3. m \in Messages => entry \in Row /\ (entry.status # "none") = (messages[m].status # "none")
  BY <1>1 DEF Row
<1> HIDE DEF entry
<1> QED BY <1>1, <1>2, <1>3 DEF Updates

(* One step of a turn under way: of its own text it may write the row, it   *)
(* rests or goes on, and where it goes on the row is not for others to take. *)
Works(p) ==
  /\ Working(p)
  /\ turn' \in [Turns -> TurnRecord]
  /\ \A q \in Turns \ {p} : turn'[q] = turn[q]
  /\ rows' = rows
  /\ ledger' \in [Messages -> {"none", "received", "handled", "lost"}]
  /\ \A m \in Messages : ledger[m] # "none" => ledger'[m] # "none"
  /\ Updates(turn[p].m)
  /\ \/ turn'[p].pc = "idle"
     \/ /\ Working(p)' /\ turn'[p].m = turn[p].m
        /\ \/ messages' = messages
           \/ messages'[turn[p].m].status \in {"none", "processed"}

LEMMA TurnWorks ==
  ASSUME TypeOK, NEW p \in Turns, Turn(p)
  PROVE  Works(p)
<1>0. /\ turn \in [Turns -> TurnRecord] /\ messages \in [Messages -> Row]
      /\ ledger \in [Messages -> {"none", "received", "handled", "lost"}]
  BY DEF TypeOK, TurnRecord
<1> DEFINE m == turn[p].m
<1>m. ASSUME turn[p].pc \notin {"idle", "replay"} PROVE m \in Messages
  BY <1>m DEF TypeOK
<1>u. ASSUME messages' = messages PROVE Updates(m)
  BY <1>0, <1>u DEF Updates
<1>r. ASSUME Working(p), Rest(p), rows' = rows, Updates(m) PROVE Works(p)
  BY <1>r, RestMoves DEF Works
<1>g. ASSUME Working(p), NEW pc \in Steps \ {"idle", "replay", "save"}, Go(p, pc),
             rows' = rows, ledger' = ledger,
             messages' = messages \/ Set(m, "processed")
      PROVE  Works(p)
  <2>1. m \in Messages
    BY <1>g, <1>m DEF Working
  <2>2. /\ Updates(m)
        /\ messages' = messages \/ messages'[m].status \in {"none", "processed"}
    BY <1>g, <1>u, <2>1, SetMoves
  <2>3. /\ turn' \in [Turns -> TurnRecord] /\ turn'[p].pc = pc /\ turn'[p].m = m
        /\ \A q \in Turns \ {p} : turn'[q] = turn[q]
    BY <1>g, GoMoves
  <2> HIDE DEF m
  <2> QED BY <1>0, <1>g, <2>2, <2>3 DEF Works, Working, m
<1>t. ASSUME Working(p), Throw(p) PROVE Works(p)
  BY <1>t, <1>r, RetryMoves DEF Throw, Fail
<1> USE DEF Working, effects, inbox, display
<1>1. CASE Gate(p)
  <2>1. CASE Allowed
    BY <1>1, <2>1, <1>g DEF Gate, Steps
  <2>2. CASE ~Allowed
    <3>1. Set(m, "waiting_ai") \/ Set(m, "blocked_consent")
      BY <1>1, <2>2 DEF Gate
    <3> HIDE DEF m
    <3>2. Updates(m)
      BY <3>1, SetMoves
    <3> QED BY <1>1, <2>2, <3>2, <1>r DEF Gate, m
  <2> QED BY <2>1, <2>2
<1>2. CASE Card(p)
  <2> DEFINE c == IF last \in Pending THEN last ELSE 0
             pc == IF c # 0 /\ m \in Bare THEN "answer" ELSE "model"
  <2>1. /\ turn' = [turn EXCEPT ![p] = [@ EXCEPT !.card = c, !.pc = pc]] /\ turn[p].pc = "card"
        /\ messages' = messages /\ rows' = rows /\ ledger' = ledger
    BY <1>2 DEF Card
  <2>2. c \in Messages \cup {0} /\ pc \in {"answer", "model"}
    BY DEF Pending
  <2> HIDE DEF c, pc
  <2>a. [turn[p] EXCEPT !.card = c, !.pc = pc] \in TurnRecord
    <3> DEFINE t == turn[p]
    <3>1. t \in TurnRecord
      BY <1>0
    <3> HIDE DEF t
    <3>2. [t EXCEPT !.card = c, !.pc = pc] \in TurnRecord
      BY <3>1, <2>2 DEF TurnRecord, Steps
    <3> QED BY <3>2 DEF t
  <2>3. /\ turn' \in [Turns -> TurnRecord] /\ turn'[p].pc = pc /\ turn'[p].m = m
        /\ \A q \in Turns \ {p} : turn'[q] = turn[q]
    <3> DEFINE t == [turn[p] EXCEPT !.card = c, !.pc = pc]
    <3>1. t.pc = pc /\ t.m = m
      BY <1>0 DEF TurnRecord
    <3>2. turn' = [turn EXCEPT ![p] = t]
      BY <2>1
    <3>3. t \in TurnRecord
      BY <2>a
    <3> HIDE DEF t
    <3>4. turn' \in [Turns -> TurnRecord] /\ turn'[p] = t /\ \A q \in Turns \ {p} : turn'[q] = turn[q]
      BY <1>0, <3>2, <3>3
    <3> QED BY <3>1, <3>4
  <2>4. Updates(m)
    BY <2>1, <1>u
  <2> QED BY <1>0, <2>1, <2>2, <2>3, <2>4 DEF Works
<1>8. CASE Limit(p)
  <2>1. CASE Go(p, "gate") /\ UNCHANGED <<messages, ledger, spent>>
    BY <1>8, <2>1, <1>g DEF Limit, Steps
  <2>2. CASE Defer(m) /\ Rest(p)
    <3> HIDE DEF m
    <3>1. Updates(m)
      BY <2>2, DeferMoves
    <3> QED BY <1>8, <2>2, <3>1, <1>r DEF Limit, m
  <2> QED BY <1>8, <2>1, <2>2 DEF Limit
<1>9. CASE Answer(p) \/ DecideCard(p)
  <2>1. \/ Go(p, "decide") /\ turn[p].pc = "answer" /\ (messages' = messages \/ Set(m, "processed"))
        \/ Go(p, "reply") /\ turn[p].pc = "decide" /\ messages' = messages
    BY <1>9 DEF Answer, DecideCard
  <2>2. rows' = rows /\ ledger' = ledger
    BY <1>9 DEF Answer, DecideCard
  <2> QED BY <2>1, <2>2, <1>g DEF Steps
<1>3. CASE Model(p)
  BY <1>3, <1>g, <1>t DEF Model, Steps
<1>4. CASE Commit(p)
  <2>1. CASE Throw(p)
    BY <1>4, <2>1, <1>t DEF Commit
  <2>2. ASSUME NEW kind \in {"applied", "pending"},
               turn' = [turn EXCEPT ![p] = [@ EXCEPT !.pc = "after", !.made = kind]],
               messages' = messages, rows' = rows, ledger' = ledger
        PROVE  Works(p)
    <3> DEFINE t == turn[p]
               goes == [t EXCEPT !.pc = "after", !.made = kind]
    <3>4. t \in TurnRecord /\ turn' = [turn EXCEPT ![p] = goes]
      BY <1>0, <2>2
    <3> HIDE DEF t
    <3>5. goes \in TurnRecord /\ goes.pc = "after" /\ goes.m = t.m
      BY <3>4 DEF TurnRecord, Steps
    <3> HIDE DEF goes
    <3>1. /\ turn' \in [Turns -> TurnRecord] /\ turn'[p].pc = "after" /\ turn'[p].m = m
          /\ \A q \in Turns \ {p} : turn'[q] = turn[q]
      BY <1>0, <3>4, <3>5 DEF t
    <3>2. Updates(m)
      BY <2>2, <1>u
    <3>3. turn[p].pc = "commit"
      BY <1>4 DEF Commit
    <3> QED BY <1>0, <2>2, <3>1, <3>2, <3>3 DEF Works
  <2>3. ASSUME Set(m, "processed"), Rest(p), rows' = rows PROVE Works(p)
    <3>1. turn[p].pc = "commit"
      BY <1>4 DEF Commit
    <3>2. Updates(m)
      BY <2>3, SetMoves
    <3> QED BY <2>3, <3>1, <3>2, <1>r
  <2> QED BY <1>4, <2>1, <2>2, <2>3 DEF Commit
<1>5. CASE After(p)
  BY <1>5, <1>g, <1>t DEF After, Steps
<1>6. CASE Reply(p)
  BY <1>6, <1>g, <1>r, <1>u DEF Reply, Steps
<1>7. CASE Record(p)
  BY <1>7, <1>r, <1>u DEF Record
<1> QED BY <1>1, <1>2, <1>3, <1>4, <1>5, <1>6, <1>7, <1>8, <1>9 DEF Turn

(* What one turn keeps of what the other relies on.                         *)
LEMMA WorksKeep ==
  ASSUME TypeOK, SavedOnce, Claimed, NEW p \in Turns, Works(p)
  PROVE  SavedOnce' /\ Claimed'
<1>0. /\ turn \in [Turns -> TurnRecord] /\ messages \in [Messages -> Row]
      /\ turn' \in [Turns -> TurnRecord] /\ messages' \in [Messages -> Row]
      /\ turn["tick"].pc \notin {"replay", "save"}
      /\ \A q \in Turns : turn[q].pc \notin {"idle", "replay"} => turn[q].m \in Messages
  BY DEF TypeOK, TurnRecord, SavedOnce, Works, Updates
<1> DEFINE m == turn[p].m
<1>1. /\ m \in Messages
      /\ \A k \in Messages \ {m} : messages'[k] = messages[k]
      /\ \A k \in Messages : (messages'[k].status # "none") = (messages[k].status # "none")
  BY <1>0 DEF Works, Working, Updates
<1>2. \A k \in Messages : Exists(k)' = Exists(k)
  BY <1>1 DEF Exists
<1>3. ASSUME NEW q \in Turns, q # p, Working(q) \/ (Saving /\ q = "chat")
      PROVE  turn'[q] = turn[q] /\ turn[q].m # m /\ messages'[turn[q].m] = messages[turn[q].m]
  <2>1. turn'[q] = turn[q]
    BY <1>3 DEF Works
  <2>2. turn[q].m # m /\ turn[q].m \in Messages
    BY <1>0, <1>3 DEF Claimed, Works, Turns, Working, Saving
  <2> QED BY <1>1, <2>1, <2>2
<1>4. SavedOnce'
  <2>1. turn'["tick"].pc \notin {"replay", "save"}
    BY <1>0 DEF Works, Working, Turns
  <2>2. ASSUME NEW k \in Messages, Exists(k)' PROVE ledger'[k] # "none"
    BY <1>2, <2>2 DEF SavedOnce, Works
  <2>3. ASSUME NEW q \in Turns, turn'[q].pc \notin {"idle", "replay"}
        PROVE  ledger'[turn'[q].m] # "none"
    <3>1. turn[q].pc \notin {"idle", "replay"} /\ turn'[q].m = turn[q].m
      BY <2>3 DEF Works, Working
    <3> QED BY <1>0, <3>1 DEF SavedOnce, Works
  <2>4. ASSUME Saving' PROVE ~Exists(turn["chat"].m)' /\ turn'["chat"].m = turn["chat"].m
    <3>1. Saving /\ turn'["chat"] = turn["chat"] /\ turn["chat"].m \in Messages
      BY <1>0, <2>4 DEF Works, Working, Saving, Turns
    <3> QED BY <1>2, <3>1 DEF SavedOnce, Exists
  <2> QED BY <2>1, <2>2, <2>3, <2>4 DEF SavedOnce, Exists
<1>5. Claimed'
  <2>1. ASSUME Working("tick")' PROVE ~Retryable(turn["tick"].m)' /\ turn'["tick"].m = turn["tick"].m
    <3>1. CASE p = "tick"
      BY <1>0, <1>1, <2>1, <3>1 DEF Works, Working, Claimed, Retryable, Turns
    <3>2. CASE p # "tick"
      BY <1>3, <2>1, <3>2 DEF Works, Working, Claimed, Retryable, Turns
    <3> QED BY <3>1, <3>2
  <2>2. ASSUME Working("chat")'
        PROVE  /\ turn'["chat"].m = turn["chat"].m /\ turn["chat"].m \notin Due'
               /\ Retryable(turn["chat"].m)' => \A entry \in rows' : entry.m # turn["chat"].m
    <3>1. CASE p = "chat" /\ messages' = messages
      BY <1>0, <1>1, <2>2, <3>1 DEF Works, Working, Claimed, Retryable, Due
    <3>2. CASE p = "chat" /\ messages' # messages
      BY <1>0, <1>1, <2>2, <3>2 DEF Works, Working, Claimed, Retryable, Due
    <3>3. CASE p # "chat"
      BY <1>3, <2>2, <3>3 DEF Works, Working, Claimed, Retryable, Due, Turns
    <3> QED BY <3>1, <3>2, <3>3
  <2>3. ASSUME Working("tick")', Working("chat")' \/ Saving'
        PROVE  turn'["chat"].m # turn'["tick"].m
    <3>1. /\ turn'["chat"].m = turn["chat"].m /\ turn'["tick"].m = turn["tick"].m
          /\ Working("tick") /\ (Working("chat") \/ Saving)
      BY <2>3 DEF Works, Working, Saving, Turns
    <3> QED BY <3>1 DEF Claimed
  <2>4. \A entry, other \in rows' : entry.m = other.m => entry = other
    BY DEF Works, Claimed
  <2> QED BY <2>1, <2>2, <2>3, <2>4 DEF Claimed, Retryable, Due
<1> QED BY <1>4, <1>5

(* The first delivery of a text begins its saving; nobody has it yet.       *)
LEMMA TakeKeeps ==
  ASSUME TypeOK, SavedOnce, Claimed, NEW m \in Messages, Take(m)
  PROVE  SavedOnce' /\ Claimed'
<1> USE DEF Working, Saving, Exists, Retryable, Due, Turns, effects, display
<1>0. /\ turn \in [Turns -> TurnRecord]
      /\ ledger \in [Messages -> {"none", "received", "handled", "lost"}]
      /\ UNCHANGED <<messages, rows>>
      /\ \A q \in Turns : turn[q].pc \notin {"idle", "replay"} => turn[q].m \in Messages
  BY DEF TypeOK, TurnRecord, Take
<1>1. CASE UNCHANGED <<ledger, turn>>
  BY <1>0, <1>1 DEF SavedOnce, Claimed
<1>2. CASE Claimable(m)
  <2>1. /\ ledger' = [ledger EXCEPT ![m] = "received"] /\ ledger[m] = "none"
        /\ turn["chat"].pc = "idle"
        /\ turn' = [turn EXCEPT !["chat"] = [Resting EXCEPT !.pc = "save", !.m = m,
                                                            !.ai = account.ai]]
    BY <1>2 DEF Take, Claimable
  <2>2. /\ turn'["chat"].pc = "save" /\ turn'["chat"].m = m /\ turn'["tick"] = turn["tick"]
        /\ \A k \in Messages : ledger[k] # "none" => ledger'[k] # "none"
        /\ ledger'[m] # "none"
    BY <1>0, <2>1 DEF Resting
  <2>3. SavedOnce'
    BY <1>0, <2>1, <2>2 DEF SavedOnce
  <2>4. Working("tick") => turn["tick"].m # m
    BY <1>0, <2>1 DEF SavedOnce
  <2>5. Claimed'
    BY <1>0, <2>2, <2>4 DEF Claimed
  <2> QED BY <2>3, <2>5
<1> QED BY <1>1, <1>2 DEF Take

(* The row is inserted once, and what is being answered is nobody else's.   *)
LEMMA SaveKeeps ==
  ASSUME TypeOK, SavedOnce, Claimed, Save
  PROVE  SavedOnce' /\ Claimed'
<1> USE DEF Working, Saving, Exists, Retryable, Due, Turns, effects, display
<1> DEFINE m == turn["chat"].m
<1>0. /\ turn \in [Turns -> TurnRecord] /\ messages \in [Messages -> Row]
      /\ ledger \in [Messages -> {"none", "received", "handled", "lost"}]
      /\ turn["chat"].pc = "save" /\ m \in Messages /\ rows' = rows
      /\ \A q \in Turns : turn[q].pc \notin {"idle", "replay"} => turn[q].m \in Messages
  BY DEF TypeOK, TurnRecord, Save
<1>1. \A k \in Messages \ {m} : messages'[k] = messages[k]
  BY <1>0 DEF Save
<1>2. Working("tick") => turn["tick"].m # m /\ turn["tick"].m \in Messages
  BY <1>0 DEF Claimed
<1>3. CASE Rest("chat")
  <2>1. /\ turn'["chat"].pc = "idle" /\ turn'["tick"] = turn["tick"]
        /\ \A k \in Messages : ledger[k] # "none" => ledger'[k] # "none"
    BY <1>3, RestMoves
  <2>2. SavedOnce'
    BY <1>0, <1>1, <1>2, <2>1 DEF SavedOnce
  <2>3. Claimed'
    BY <1>0, <1>1, <1>2, <2>1 DEF Claimed
  <2> QED BY <2>2, <2>3
<1>4. CASE ~Rest("chat")
  <2>1. /\ Go("chat", "limit") /\ ledger' = ledger
        /\ messages' = [messages EXCEPT ![m] = Saved("processing", "no")]
    BY <1>4 DEF Save
  <2>2. /\ turn'["chat"].pc = "limit" /\ turn'["chat"].m = m /\ turn'["tick"] = turn["tick"]
    BY <2>1, GoMoves DEF Steps
  <2>3. messages'[m].status = "processing" /\ messages'[m].due = "no"
    BY <1>0, <2>1 DEF Saved
  <2>4. SavedOnce'
    BY <1>0, <1>1, <2>1, <2>2, <2>3 DEF SavedOnce
  <2>5. Claimed'
    BY <1>0, <1>1, <1>2, <2>1, <2>2, <2>3 DEF Claimed
  <2> QED BY <2>4, <2>5
<1> QED BY <1>3, <1>4

(* /retry_ai claims what nobody works on.                                   *)
LEMMA ReplayKeeps ==
  ASSUME TypeOK, SavedOnce, Claimed, Command \/ Replay
  PROVE  SavedOnce' /\ Claimed'
<1> USE DEF Working, Saving, Exists, Retryable, Due, Turns, effects, display
<1>0. /\ turn \in [Turns -> TurnRecord] /\ messages \in [Messages -> Row]
      /\ ledger \in [Messages -> {"none", "received", "handled", "lost"}]
      /\ rows' = rows /\ turn["chat"].pc \in {"idle", "replay"}
      /\ \A q \in Turns : turn[q].pc \notin {"idle", "replay"} => turn[q].m \in Messages
  BY DEF TypeOK, TurnRecord, Command, Replay
<1>1. CASE Command
  <2>1. /\ turn'["chat"].pc = "replay" /\ turn'["tick"] = turn["tick"]
        /\ UNCHANGED <<messages, ledger>>
    BY <1>0, <1>1 DEF Command, Resting
  <2> QED BY <1>0, <2>1 DEF SavedOnce, Claimed
<1>2. CASE Replay /\ Rest("chat")
  <2>1. /\ turn'["chat"].pc = "idle" /\ turn'["tick"] = turn["tick"]
        /\ \A k \in Messages : ledger[k] # "none" => ledger'[k] # "none"
    BY <1>2, RestMoves
  <2>2. CASE messages' = messages
    BY <1>0, <2>1, <2>2 DEF SavedOnce, Claimed
  <2>3. ASSUME NEW m \in Messages, Newest(m), Defer(m) PROVE SavedOnce' /\ Claimed'
    <3>1. Updates(m)
      BY <2>3, DeferMoves
    <3>2. Working("tick") => turn["tick"].m # m /\ turn["tick"].m \in Messages
      BY <1>0, <2>3 DEF Claimed, Newest
    <3>3. SavedOnce'
      BY <1>0, <2>1, <3>1 DEF SavedOnce, Updates
    <3>4. Claimed'
      BY <1>0, <2>1, <3>1, <3>2 DEF Claimed, Updates
    <3> QED BY <3>3, <3>4
  <2>4. UNCHANGED messages \/ \E m \in Messages : Newest(m) /\ (Defer(m) \/ Claim("chat", m))
    BY <1>2 DEF Replay
  <2>5. ASSUME NEW m \in Messages, Newest(m), turn' = [turn EXCEPT !["chat"] = [@ EXCEPT !.pc = "gate", !.m = m]]
        PROVE  FALSE
    BY <1>0, <2>1, <2>5
  <2> QED BY <1>2, <2>2, <2>3, <2>5 DEF Replay
<1>3. CASE Replay /\ ~Rest("chat")
  <2>1. PICK m \in Messages :
          /\ Newest(m) /\ Claim("chat", m)
          /\ turn' = [turn EXCEPT !["chat"] = [@ EXCEPT !.pc = "gate", !.m = m]]
    BY <1>3 DEF Replay
  <2>2. turn'["chat"].pc = "gate" /\ turn'["chat"].m = m /\ turn'["tick"] = turn["tick"]
    <3> DEFINE t == turn["chat"]
               goes == [t EXCEPT !.pc = "gate", !.m = m]
    <3>1. t \in TurnRecord /\ turn' = [turn EXCEPT !["chat"] = goes]
      BY <1>0, <2>1
    <3> HIDE DEF t
    <3>2. goes.pc = "gate" /\ goes.m = m
      BY <3>1 DEF TurnRecord
    <3> HIDE DEF goes
    <3> QED BY <1>0, <3>1, <3>2
  <2>3. /\ messages'[m].status = "processing" /\ ledger' = ledger
        /\ \A k \in Messages \ {m} : messages'[k] = messages[k]
    BY <1>0, <2>1 DEF Claim, Row
  <2>4. /\ messages[m].status # "none" /\ ledger[m] # "none"
        /\ Working("tick") => turn["tick"].m # m /\ turn["tick"].m \in Messages
    BY <1>0, <2>1 DEF Claimed, SavedOnce, Newest
  <2>5. SavedOnce'
    BY <1>0, <2>2, <2>3, <2>4 DEF SavedOnce
  <2>6. Claimed'
    BY <1>0, <2>2, <2>3, <2>4 DEF Claimed
  <2> QED BY <2>5, <2>6
<1> QED BY <1>1, <1>2, <1>3

(* The loop reads what is due, each row once, ...                           *)
LEMMA TickReadsKeeps ==
  ASSUME TypeOK, SavedOnce, Claimed, TickReads
  PROVE  SavedOnce' /\ Claimed'
<1> USE DEF Working, Saving, Exists, Retryable, Due, effects, display
<1>1. /\ rows' = {[m |-> m, count |-> messages[m].count] : m \in Due}
      /\ UNCHANGED <<messages, ledger, turn>>
  BY DEF TickReads
<1>2. \A entry \in rows' : entry.m \in Due
  BY <1>1
<1>3. \A entry, other \in rows' : entry.m = other.m => entry = other
  BY <1>1
<1> QED BY <1>1, <1>2, <1>3 DEF SavedOnce, Claimed

(* ... and takes only what nobody works on, whatever it marks.              *)
LEMMA TickTakesKeeps ==
  ASSUME TypeOK, SavedOnce, Claimed, TickTakes
  PROVE  SavedOnce' /\ Claimed'
<1> USE DEF Working, Saving, Exists, Retryable, Due, Turns, effects, display
<1>0. /\ turn \in [Turns -> TurnRecord] /\ messages \in [Messages -> Row]
      /\ turn["tick"].pc = "idle" /\ ledger' = ledger
      /\ \A q \in Turns : turn[q].pc \notin {"idle", "replay"} => turn[q].m \in Messages
  BY DEF TypeOK, TurnRecord, TickTakes, Claim
<1>1. PICK entry \in rows :
        /\ rows' = rows \ {entry}
        /\ \/ UNCHANGED turn /\ (Set(entry.m, "blocked_consent") \/ Defer(entry.m) \/ UNCHANGED messages)
           \/ /\ Retryable(entry.m) /\ Claim("tick", entry.m)
              /\ turn' = [turn EXCEPT !["tick"] = [Resting EXCEPT !.pc = "gate", !.m = entry.m,
                                                      !.by = "tick", !.count = entry.count]]
  BY DEF TickTakes
<1> DEFINE m == entry.m
<1>2. m \in Messages
  BY DEF TypeOK
<1>3. /\ \A r \in rows' : r \in rows /\ r.m # m
      /\ \A r, other \in rows' : r.m = other.m => r = other
  BY <1>1 DEF Claimed
<1>4. CASE UNCHANGED turn /\ (Set(m, "blocked_consent") \/ Defer(m))
  <2>1. /\ Updates(m)
        /\ messages'[m].status \in {"none", "blocked_consent"} \/ messages'[m].due = "hour"
        /\ messages'[m].status = "none" => messages[m].status = "none"
    BY <1>0, <1>2, <1>4, SetMoves, DeferMoves DEF Updates
  <2> HIDE DEF m
  <2>2. SavedOnce'
    BY <1>0, <1>2, <1>4, <2>1 DEF SavedOnce, Updates
  <2>3. Claimed'
    BY <1>0, <1>2, <1>3, <1>4, <2>1 DEF Claimed, Updates
  <2> QED BY <2>2, <2>3
<1>5. CASE UNCHANGED <<turn, messages>>
  BY <1>0, <1>1, <1>3, <1>5 DEF SavedOnce, Claimed
<1>6. CASE /\ Retryable(m) /\ Claim("tick", m)
           /\ turn' = [turn EXCEPT !["tick"] = [Resting EXCEPT !.pc = "gate", !.m = m,
                                                   !.by = "tick", !.count = entry.count]]
  <2>1. turn'["tick"].pc = "gate" /\ turn'["tick"].m = m /\ turn'["chat"] = turn["chat"]
    BY <1>0, <1>6 DEF Resting
  <2>2. /\ messages'[m].status = "processing"
        /\ \A k \in Messages \ {m} : messages'[k] = messages[k]
    BY <1>0, <1>2, <1>6 DEF Claim, Row
  <2>3. /\ messages[m].status # "none" /\ ledger[m] # "none"
        /\ Working("chat") \/ Saving => turn["chat"].m # m /\ turn["chat"].m \in Messages
    BY <1>0, <1>2, <1>6 DEF Claimed, SavedOnce
  <2> HIDE DEF m
  <2>4. SavedOnce'
    BY <1>0, <1>2, <2>1, <2>2, <2>3 DEF SavedOnce
  <2>5. Claimed'
    BY <1>0, <1>2, <1>3, <2>1, <2>2, <2>3 DEF Claimed
  <2> QED BY <2>4, <2>5
<1> QED BY <1>1, <1>4, <1>5, <1>6

(* Nothing else takes a text or lets go of one but by ending the turn.      *)
LEMMA OthersKeep ==
  ASSUME TypeOK, SavedOnce, Claimed,
         \/ \E m \in Messages : Send(m) \/ Redeliver(m) \/ Decide(m)
         \/ Regulate \/ Clear \/ Crash \/ HourPasses \/ UNCHANGED vars
  PROVE  SavedOnce' /\ Claimed'
<1> USE DEF Working, Saving, Exists, Retryable, Due, Turns, effects, display, inbox
<1>1. CASE UNCHANGED <<ledger, messages, turn, rows>>
  BY <1>1 DEF SavedOnce, Claimed
<1>2. CASE Clear
  <2>1. /\ UNCHANGED <<ledger, turn, rows>> /\ messages' = [m \in Messages |-> NoRow]
        /\ turn["chat"].pc = "idle"
    BY <1>2 DEF Clear
  <2>2. \A m \in Messages : messages'[m].status = "none"
    BY <2>1 DEF NoRow
  <2>3. turn["tick"].pc # "idle" /\ turn["tick"].pc # "replay" => turn["tick"].m \in Messages
    BY DEF TypeOK
  <2> QED BY <2>1, <2>2, <2>3 DEF SavedOnce, Claimed
<1>3. CASE Crash
  <2>1. /\ rows' = {} /\ turn' = [p \in Turns |-> Resting] /\ messages' = messages
        /\ \A m \in Messages : ledger[m] # "none" => ledger'[m] # "none"
    BY <1>3 DEF Crash
  <2>2. turn'["chat"].pc = "idle" /\ turn'["tick"].pc = "idle"
    BY <2>1 DEF Resting
  <2> QED BY <2>1, <2>2 DEF SavedOnce, Claimed
<1>4. CASE HourPasses
  <2>1. /\ turn["chat"].pc = "idle" /\ turn["tick"].pc = "idle" /\ rows = {}
        /\ UNCHANGED <<ledger, turn, rows>>
        /\ messages' = [m \in Messages |->
              [messages[m] EXCEPT !.due = IF @ = "hour" THEN "yes" ELSE @]]
    BY <1>4 DEF HourPasses
  <2>2. \A m \in Messages : messages'[m].status = messages[m].status
    BY <2>1 DEF TypeOK, Row
  <2> QED BY <2>1, <2>2 DEF SavedOnce, Claimed
<1> QED BY <1>1, <1>2, <1>3, <1>4 DEF Send, Redeliver, Decide, Regulate, vars

(* Every step keeps the claims apart.                                       *)
LEMMA ClaimsStep ==
  ASSUME TypeOK, SavedOnce, Claimed, [Next]_vars
  PROVE  SavedOnce' /\ Claimed'
<1>1. CASE \E p \in Turns : Turn(p)
  BY <1>1, TurnWorks, WorksKeep
<1>2. CASE \E m \in Messages : Take(m)
  BY <1>2, TakeKeeps
<1>3. CASE Save \/ Command \/ Replay \/ TickReads \/ TickTakes
  BY <1>3, SaveKeeps, ReplayKeeps, TickReadsKeeps, TickTakesKeeps
<1>4. CASE \/ \E m \in Messages : Send(m) \/ Redeliver(m) \/ Decide(m)
           \/ Regulate \/ Clear \/ Crash \/ HourPasses \/ UNCHANGED vars
  BY <1>4, OthersKeep
<1> QED BY <1>1, <1>2, <1>3, <1>4 DEF Next
-----------------------------------------------------------------------------
(* What a step may do to the groups of one text: apply the one that waits,   *)
(* end it without effect, or make the first live one.                       *)
Applies(m) ==
  /\ groups[m] = "pending" /\ groups' = [groups EXCEPT ![m] = "applied"]
  /\ live' = live
Ends(m) ==
  /\ groups[m] = "pending" /\ live' = [live EXCEPT ![m] = @ - 1]
  /\ \E s \in {"failed", "cancelled"} : groups' = [groups EXCEPT ![m] = s]
Begins(m) ==
  /\ live[m] = 0 /\ live' = [live EXCEPT ![m] = @ + 1]
  /\ \E s \in {"applied", "pending"} : groups' = [groups EXCEPT ![m] = s]
EffectsMove == UNCHANGED effects \/ \E m \in Messages : Applies(m) \/ Ends(m) \/ Begins(m)

LEMMA StepsMove ==
  ASSUME TypeOK, [Next]_vars
  PROVE  EffectsMove
<1>1. ASSUME NEW p \in Turns, DecideCard(p) PROVE EffectsMove
  <2>1. \/ UNCHANGED effects
        \/ \E c \in Pending : Applies(c) \/ Ends(c)
    BY <1>1 DEF DecideCard, Pending, Applies, Ends, effects
  <2> QED BY <2>1 DEF Pending, EffectsMove
<1>2. ASSUME NEW p \in Turns, Commit(p) PROVE EffectsMove
  <2>1. turn[p].m \in Messages
    BY <1>2 DEF Commit, TypeOK
  <2>2. UNCHANGED effects \/ Begins(turn[p].m)
    BY <1>2 DEF Commit, Throw, Insertable, Begins, effects
  <2> QED BY <2>1, <2>2 DEF EffectsMove
<1>3. ASSUME NEW p \in Turns, After(p) PROVE EffectsMove
  <2>1. UNCHANGED effects \/ \E c \in Pending : Ends(c)
    BY <1>3 DEF After, Throw, Pending, Ends, effects
  <2> QED BY <2>1 DEF Pending, EffectsMove
<1>4. ASSUME NEW m \in Messages, Decide(m) PROVE EffectsMove
  BY <1>4 DEF Decide, Pending, Applies, Ends, EffectsMove
<1>5. ASSUME NEW p \in Turns, \/ Limit(p) \/ Gate(p) \/ Card(p) \/ Answer(p)
                               \/ Model(p) \/ Reply(p) \/ Record(p)
      PROVE  UNCHANGED effects
  BY <1>5 DEF Limit, Gate, Card, Answer, Model, Throw, Reply, Record
<1>6. ASSUME NEW m \in Messages, Send(m) \/ Redeliver(m) \/ Take(m) PROVE UNCHANGED effects
  BY <1>6 DEF Send, Redeliver, Take
<1>7. CASE Save \/ Command \/ Replay
  BY <1>7 DEF Save, Command, Replay, EffectsMove
<1>8. CASE TickReads \/ TickTakes \/ HourPasses
  BY <1>8 DEF TickReads, TickTakes, HourPasses, EffectsMove
<1>9. CASE Clear \/ Regulate \/ Crash \/ UNCHANGED vars
  BY <1>9 DEF Clear, Regulate, Crash, EffectsMove, vars, effects
<1> QED BY <1>1, <1>2, <1>3, <1>4, <1>5, <1>6, <1>7, <1>8, <1>9 DEF Next, Turn, EffectsMove

LEMMA CountsStep ==
  ASSUME TypeOK, LiveCounted, EffectsMove
  PROVE  /\ LiveCounted'
         /\ groups' \in [Messages -> {"none", "pending", "applied", "cancelled", "failed"}]
         /\ live' \in [Messages -> 0 .. 2]
<1>1. /\ groups \in [Messages -> {"none", "pending", "applied", "cancelled", "failed"}]
      /\ live \in [Messages -> 0 .. 2]
  BY DEF TypeOK
<1>2. CASE UNCHANGED effects
  BY <1>1, <1>2 DEF effects, LiveCounted
<1>3. ASSUME NEW m \in Messages, Applies(m) \/ Ends(m) \/ Begins(m)
      PROVE  /\ LiveCounted'
             /\ groups' \in [Messages -> {"none", "pending", "applied", "cancelled", "failed"}]
             /\ live' \in [Messages -> 0 .. 2]
  BY <1>1, <1>3 DEF LiveCounted, Applies, Ends, Begins
<1> QED BY <1>2, <1>3 DEF EffectsMove

(* What the data sees of a text that has no more than one live group, and   *)
(* what each of the three steps is to the contract.                         *)
Seen(m) == CASE groups[m] = "applied" -> "made" [] groups[m] = "pending" -> "offered"
             [] OTHER -> "none"

LEMMA EffectIsSeen ==
  ASSUME LiveCounted
  PROVE  Effect = [m \in Messages |-> Seen(m)]
BY DEF LiveCounted, Effect, Seen

LEMMA ContractStep ==
  ASSUME TypeOK, LiveCounted, EffectsMove
  PROVE  [Contract!Next]_Effect
<1>1. LiveCounted' /\ Effect = [m \in Messages |-> Seen(m)] /\ Effect' = [m \in Messages |-> Seen(m)']
  BY CountsStep, EffectIsSeen DEF LiveCounted, Effect, Seen
<1>2. groups \in [Messages -> {"none", "pending", "applied", "cancelled", "failed"}]
  BY DEF TypeOK
<1>3. CASE UNCHANGED effects
  BY <1>3 DEF effects, Effect
<1>4. ASSUME NEW m \in Messages, Applies(m) \/ Ends(m) \/ Begins(m)
      PROVE  Contract!Make(m) \/ Contract!Withdraw(m) \/ Contract!Offer(m)
  <2>1. \A k \in Messages \ {m} : Seen(k)' = Seen(k)
    BY <1>2, <1>4 DEF Applies, Ends, Begins, Seen
  <2>2. \/ Seen(m) = "offered" /\ Seen(m)' \in {"made", "none"}
        \/ Seen(m) = "none" /\ Seen(m)' \in {"made", "offered"}
    BY <1>2, <1>4 DEF Applies, Ends, Begins, Seen, LiveCounted
  <2>3. Effect[m] = Seen(m) /\ Effect' = [Effect EXCEPT ![m] = Seen(m)']
    BY <1>1, <2>1
  <2> QED BY <2>2, <2>3
          DEF Contract!Make, Contract!Withdraw, Contract!Offer, Contract!Become
<1> QED BY <1>3, <1>4 DEF EffectsMove, Contract!Next
-----------------------------------------------------------------------------
(* The initial state.                                                       *)
LEMMA InitInv ==
  ASSUME Init
  PROVE  ChatInv /\ Contract!Init
<1> USE DEF Init, Resting, NoRow
<1>1. TypeOK
  BY ChatAssumption DEF TypeOK, Row, Steps, Turns
<1>2. LiveCounted /\ SavedOnce /\ Claimed
  BY DEF LiveCounted, SavedOnce, Claimed, Working, Saving, Exists, Retryable, Due, Turns
<1>3. Contract!Init
  BY DEF Contract!Init, Effect
<1> QED BY <1>1, <1>2, <1>3 DEF ChatInv, TypeInv

(* The parts of the type that a step of a turn leaves to be shown.          *)
Rested ==
  /\ spent' \in [Faults -> Nat] /\ account' = account /\ UNCHANGED <<scenario, inbox>>
  /\ shown' \subseteq Messages /\ last' \in Messages \cup {0} /\ promised' \subseteq Messages

LEMMA SpendMoves ==
  ASSUME TypeOK, NEW f, Spend(f)
  PROVE  spent' \in [Faults -> Nat]
<1>1. spent \in [Faults -> Nat] /\ spent' = [spent EXCEPT ![f] = spent[f] + 1]
  BY DEF TypeOK, Spend
<1>2. f \in Faults => spent[f] + 1 \in Nat
  BY <1>1
<1> QED BY <1>1, <1>2

(* The records a turn begins with.                                          *)
LEMMA BegunTurns ==
  ASSUME NEW m \in Messages \cup {0}, NEW a \in BOOLEAN, NEW n \in Nat
  PROVE  /\ [Resting EXCEPT !.pc = "save", !.m = m, !.ai = a] \in TurnRecord
         /\ [Resting EXCEPT !.pc = "save", !.m = m, !.ai = a].m = m
         /\ [Resting EXCEPT !.pc = "replay", !.by = "command", !.ai = a] \in TurnRecord
         /\ [Resting EXCEPT !.pc = "replay", !.by = "command", !.ai = a].pc = "replay"
         /\ [Resting EXCEPT !.pc = "gate", !.m = m, !.by = "tick", !.count = n] \in TurnRecord
         /\ [Resting EXCEPT !.pc = "gate", !.m = m, !.by = "tick", !.count = n].m = m
<1>1. Resting \in TurnRecord
  BY DEF Resting, TurnRecord, Steps
<1>2. ASSUME NEW t \in TurnRecord
      PROVE  /\ [t EXCEPT !.pc = "save", !.m = m, !.ai = a] \in TurnRecord
             /\ [t EXCEPT !.pc = "save", !.m = m, !.ai = a].m = m
  BY DEF TurnRecord, Steps
<1>3. ASSUME NEW t \in TurnRecord
      PROVE  /\ [t EXCEPT !.pc = "replay", !.by = "command", !.ai = a] \in TurnRecord
             /\ [t EXCEPT !.pc = "replay", !.by = "command", !.ai = a].pc = "replay"
  BY DEF TurnRecord, Steps
<1>4. ASSUME NEW t \in TurnRecord
      PROVE  /\ [t EXCEPT !.pc = "gate", !.m = m, !.by = "tick", !.count = n] \in TurnRecord
             /\ [t EXCEPT !.pc = "gate", !.m = m, !.by = "tick", !.count = n].m = m
  BY DEF TurnRecord, Steps
<1> QED BY <1>1, <1>2, <1>3, <1>4

LEMMA FailMoves ==
  ASSUME TypeOK, NEW p \in Turns, turn[p].m \in Messages, Fail(p)
  PROVE  promised' \subseteq Messages
<1>1. turn[p].by \in {"text", "command", "tick"} /\ promised \subseteq Messages
  BY DEF TypeOK
<1> QED BY <1>1 DEF Fail, Apologise

LEMMA TurnRests ==
  ASSUME TypeOK, NEW p \in Turns, Turn(p)
  PROVE  Rested
<1>0. /\ spent \in [Faults -> Nat] /\ shown \subseteq Messages /\ last \in Messages \cup {0}
      /\ promised \subseteq Messages
      /\ turn[p].pc \notin {"idle", "replay"} => turn[p].m \in Messages
  BY DEF TypeOK
<1> USE DEF display
<1>1. CASE Gate(p)
  BY <1>0, <1>1 DEF Gate, Rested
<1>2. CASE Limit(p) \/ Card(p) \/ Answer(p) \/ DecideCard(p)
  <2>1. spent' \in [Faults -> Nat] /\ promised' \subseteq Messages
    BY <1>0, <1>2, SpendMoves DEF Limit, Card, Answer, DecideCard
  <2> QED BY <1>0, <1>2, <2>1 DEF Limit, Card, Answer, DecideCard, Rested
<1>3. CASE Model(p)
  <2>1. spent' \in [Faults -> Nat] /\ promised' \subseteq Messages
    BY <1>0, <1>3, SpendMoves, FailMoves DEF Model, Throw
  <2> QED BY <1>0, <1>3, <2>1 DEF Model, Throw, Rested
<1>4. CASE Commit(p)
  <2>1. spent' \in [Faults -> Nat] /\ promised' \subseteq Messages
    BY <1>0, <1>4, SpendMoves, FailMoves DEF Commit, Throw
  <2> QED BY <1>0, <1>4, <2>1 DEF Commit, Throw, Rested
<1>5. CASE After(p)
  <2>1. spent' \in [Faults -> Nat] /\ promised' \subseteq Messages
    BY <1>0, <1>5, SpendMoves, FailMoves DEF After, Throw
  <2> QED BY <1>0, <1>5, <2>1 DEF After, Throw, Rested
<1>6. CASE Reply(p) \/ Record(p)
  <2>1. spent' \in [Faults -> Nat] /\ Offered(p) \in Messages \cup {0}
    BY <1>0, <1>6, SpendMoves DEF Reply, Record, Offered
  <2> QED BY <1>0, <1>6, <2>1 DEF Reply, Record, Rested
<1> QED BY <1>1, <1>2, <1>3, <1>4, <1>5, <1>6 DEF Turn

LEMMA TypeStep ==
  ASSUME TypeOK, LiveCounted, SavedOnce, [Next]_vars
  PROVE  TypeOK'
<1> DEFINE Led == ledger' \in [Messages -> {"none", "received", "handled", "lost"}]
           Placed == turn' \in [Turns -> TurnRecord]
                     /\ \A p \in Turns : turn'[p].pc \notin {"idle", "replay"} => turn'[p].m \in Messages
           Read == rows' \subseteq [m : Messages, count : Nat]
           Sent == sent' \subseteq Messages /\ fetched' \subseteq Messages
           Kept == scenario' = scenario /\ spent' \in [Faults -> Nat]
                   /\ account' \in [ai: BOOLEAN, consent: BOOLEAN]
           Seen3 == shown' \subseteq Messages /\ last' \in Messages \cup {0}
                    /\ promised' \subseteq Messages
           Written == messages' \in [Messages -> Row]
<1>t. /\ scenario \in Scenarios \cap Scenario /\ spent \in [Faults -> Nat]
      /\ sent \subseteq Messages /\ fetched \subseteq Messages
      /\ ledger \in [Messages -> {"none", "received", "handled", "lost"}]
      /\ messages \in [Messages -> Row] /\ account \in [ai: BOOLEAN, consent: BOOLEAN]
      /\ turn \in [Turns -> TurnRecord] /\ rows \subseteq [m: Messages, count: Nat]
      /\ shown \subseteq Messages /\ last \in Messages \cup {0} /\ promised \subseteq Messages
      /\ \A p \in Turns : turn[p].pc \notin {"idle", "replay"} => turn[p].m \in Messages
  BY DEF TypeOK, TurnRecord
<1>d. /\ groups' \in [Messages -> {"none", "pending", "applied", "cancelled", "failed"}]
      /\ live' \in [Messages -> 0 .. 2]
  BY StepsMove, CountsStep
<1>s. ASSUME NEW f, Spend(f) PROVE spent' \in [Faults -> Nat]
  BY <1>s, SpendMoves
<1>r. ASSUME NEW p \in Turns, Rest(p) PROVE Led /\ Placed
  BY <1>r, <1>t, RestMoves
<1>g. Resting \in TurnRecord /\ NoRow \in Row
  BY DEF Resting, TurnRecord, Steps, NoRow, Row
<1> SUFFICES Led /\ Placed /\ Read /\ Sent /\ Kept /\ Seen3 /\ Written
  BY <1>t, <1>d DEF TypeOK, TurnRecord
<1> USE DEF effects, inbox, display
<1>1. ASSUME NEW p \in Turns, Turn(p)
      PROVE  Led /\ Placed /\ Read /\ Sent /\ Kept /\ Seen3 /\ Written
  <2>1. Works(p) /\ Rested
    BY <1>1, TurnWorks, TurnRests
  <2> QED BY <1>t, <2>1 DEF Works, Rested, Updates, Working
<1>2. ASSUME NEW m \in Messages, Send(m) \/ Redeliver(m) \/ Decide(m)
      PROVE  Led /\ Placed /\ Read /\ Sent /\ Kept /\ Seen3 /\ Written
  BY <1>2, <1>t, <1>s DEF Send, Redeliver, Decide
<1>3. ASSUME NEW m \in Messages, Take(m)
      PROVE  Led /\ Placed /\ Read /\ Sent /\ Kept /\ Seen3 /\ Written
  <2> DEFINE goes == [Resting EXCEPT !.pc = "save", !.m = m, !.ai = account.ai]
  <2>1. goes \in TurnRecord /\ goes.m = m
    BY <1>t, BegunTurns
  <2>2. \/ UNCHANGED <<ledger, turn>>
        \/ /\ ledger' = [ledger EXCEPT ![m] = "received"]
           /\ turn' = [turn EXCEPT !["chat"] = goes]
    BY <1>3 DEF Take
  <2> HIDE DEF goes
  <2>3. Led /\ Placed
    BY <1>t, <2>1, <2>2 DEF Turns
  <2> QED BY <1>3, <1>t, <2>3 DEF Take
<1>4. CASE Save
  <2> DEFINE m == turn["chat"].m
  <2>1. \A s \in {"waiting_ai", "blocked_consent", "processing"}, d \in {"no", "hour"} :
          Saved(s, d) \in Row
    BY DEF Saved, Row
  <2>2. Written
    BY <1>4, <1>t, <2>1 DEF Save
  <2>3. ASSUME Go("chat", "limit"), ledger' = ledger, turn["chat"].pc = "save" PROVE Led /\ Placed
    BY <2>3, <1>t, GoMoves DEF Steps, Turns
  <2>4. Led /\ Placed /\ spent' \in [Faults -> Nat]
    BY <1>4, <1>t, <1>r, <1>s, <2>3 DEF Save, Turns
  <2> QED BY <1>4, <1>t, <2>2, <2>4 DEF Save
<1>5. CASE Command
  <2> DEFINE goes == [Resting EXCEPT !.pc = "replay", !.by = "command", !.ai = account.ai]
  <2>1. goes \in TurnRecord /\ goes.pc = "replay"
    <3>1. account.ai \in BOOLEAN
      BY <1>t
    <3> QED BY <1>t, <3>1, BegunTurns
  <2>2. turn' = [turn EXCEPT !["chat"] = goes]
    BY <1>5 DEF Command
  <2> HIDE DEF goes
  <2>3. Placed
    BY <1>t, <2>1, <2>2 DEF Turns
  <2>4. account' \in [ai: BOOLEAN, consent: BOOLEAN]
    BY <1>5, <1>t DEF Command
  <2> QED BY <1>5, <1>t, <1>s, <2>3, <2>4 DEF Command
<1>6. CASE Replay
  <2>1. Led /\ Placed /\ Written
    <3>1. CASE Rest("chat")
      <4>1. UNCHANGED messages \/ (\E m \in Messages : Defer(m))
              \/ \E m \in Messages : Claim("chat", m)
        BY <1>6 DEF Replay
      <4>2. Written
        <5>1. ASSUME NEW m \in Messages, Claim("chat", m) PROVE Written
          BY <1>t, <5>1 DEF Claim, Row
        <5> QED BY <1>t, <4>1, <5>1, DeferMoves DEF Updates
      <4> QED BY <3>1, <1>r, <4>2 DEF Turns
    <3>2. CASE ~Rest("chat")
      <4>1. PICK m \in Messages : /\ Claim("chat", m)
                                  /\ turn' = [turn EXCEPT !["chat"] = [@ EXCEPT !.pc = "gate", !.m = m]]
        BY <1>6, <3>2 DEF Replay
      <4> DEFINE t == turn["chat"]
                 goes == [t EXCEPT !.pc = "gate", !.m = m]
      <4>2. t \in TurnRecord /\ turn' = [turn EXCEPT !["chat"] = goes]
        BY <1>t, <4>1 DEF Turns
      <4> HIDE DEF t
      <4>3. goes \in TurnRecord /\ goes.m = m
        BY <4>2 DEF TurnRecord, Steps
      <4> HIDE DEF goes
      <4>4. Placed
        BY <1>t, <4>2, <4>3 DEF Turns
      <4>5. Led /\ Written
        BY <1>t, <4>1 DEF Claim, Row
      <4> QED BY <4>4, <4>5
    <3> QED BY <3>1, <3>2
  <2>2. spent' \in [Faults -> Nat]
    BY <1>6, <1>t, <1>s DEF Replay
  <2> QED BY <1>6, <1>t, <2>1, <2>2 DEF Replay
<1>7. CASE TickReads
  BY <1>7, <1>t DEF TickReads, Due, Row
<1>8. CASE TickTakes
  <2>1. PICK entry \in rows :
          /\ rows' = rows \ {entry}
          /\ \/ UNCHANGED turn /\ (Set(entry.m, "blocked_consent") \/ Defer(entry.m) \/ UNCHANGED messages)
             \/ /\ Claim("tick", entry.m)
                /\ turn' = [turn EXCEPT !["tick"] = [Resting EXCEPT !.pc = "gate", !.m = entry.m,
                                                        !.by = "tick", !.count = entry.count]]
          /\ spent' = spent \/ Spend("limits")
          /\ promised' \subseteq promised
    BY <1>8 DEF TickTakes
  <2>2. entry.m \in Messages /\ entry.count \in Nat
    BY <1>t
  <2> DEFINE goes == [Resting EXCEPT !.pc = "gate", !.m = entry.m, !.by = "tick", !.count = entry.count]
  <2>3. goes \in TurnRecord /\ goes.m = entry.m
    BY <2>2, BegunTurns
  <2>4. turn' = turn \/ turn' = [turn EXCEPT !["tick"] = goes]
    BY <2>1
  <2> HIDE DEF goes
  <2>5. Placed
    BY <1>t, <2>2, <2>3, <2>4 DEF Turns
  <2>6. Written
    <3>1. ASSUME Claim("tick", entry.m) PROVE Written
      BY <1>t, <2>2, <3>1 DEF Claim, Row
    <3> QED BY <1>t, <2>1, <2>2, <3>1, SetMoves, DeferMoves DEF Updates
  <2>7. UNCHANGED <<scenario, inbox, ledger, account, display>>
    BY <1>8 DEF TickTakes, Claim
  <2> QED BY <1>t, <1>s, <2>1, <2>5, <2>6, <2>7
<1>9. CASE HourPasses
  <2>1. Written
    BY <1>9, <1>t DEF HourPasses, Row
  <2> QED BY <1>9, <1>t, <2>1 DEF HourPasses
<1>10. CASE Clear
  BY <1>10, <1>t, <1>s, <1>g DEF Clear
<1>11. CASE Regulate
  BY <1>11, <1>t, <1>s DEF Regulate
<1>12. CASE Crash
  <2>1. Placed
    BY <1>12, <1>g DEF Crash, Resting
  <2>2. Led
    BY <1>12, <1>t DEF Crash
  <2> QED BY <1>12, <1>t, <1>s, <2>1, <2>2 DEF Crash
<1>13. CASE UNCHANGED vars
  BY <1>13, <1>t DEF vars
<1> HIDE DEF Led, Placed, Read, Sent, Kept, Seen3, Written
<1> QED BY <1>1, <1>2, <1>3, <1>4, <1>5, <1>6, <1>7, <1>8, <1>9, <1>10, <1>11, <1>12, <1>13
        DEF Next
-----------------------------------------------------------------------------
(* The inductive invariant.                                                 *)
LEMMA ChatStep == ChatInv /\ [Next]_vars => ChatInv'
BY TypeStep, StepsMove, CountsStep, ClaimsStep DEF ChatInv, TypeInv

LEMMA Inductive == Spec => []ChatInv
<1>1. Init => ChatInv
  BY InitInv
<1> QED BY <1>1, ChatStep, PTL DEF Spec

(* The type invariant, for texts, counts and faults without bound.          *)
THEOREM TypeCorrect == Spec => []TypeOK
<1>1. ChatInv => TypeOK
  BY DEF ChatInv, TypeInv
<1> QED BY <1>1, Inductive, PTL

LEMMA ApartFact == ChatInv => TurnsAreApart
<1> SUFFICES ASSUME ChatInv, NEW p \in Turns, NEW q \in Turns, p # q, Working(p),
                    turn[q].pc \notin {"idle", "replay"}
             PROVE  turn[p].m # turn[q].m
  BY DEF TurnsAreApart, Working
<1> QED BY DEF ChatInv, SavedOnce, Claimed, Turns, Working, Saving

LEMMA EffectStep == ChatInv /\ [Next]_vars => [Contract!Next]_Effect
BY StepsMove, ContractStep DEF ChatInv, TypeInv

(* No text is worked on by two turns: whatever the retry loop has read, a    *)
(* text the chat is answering is one the claim refuses, and the other way   *)
(* round (claimRetry and processText in chat.service.ts).                   *)
THEOREM TurnsStayApart == Spec => []TurnsAreApart
BY Inductive, ApartFact, PTL

(* Whatever is redelivered, retried, lost or left uncertain, a text changes  *)
(* the user's data at most once, and a change that was made stays made: what *)
(* the data sees is the contract of a single effect.                        *)
THEOREM OneEffect == Spec => Refines
<1>1. Init => Contract!Init
  BY InitInv
<1> QED BY <1>1, EffectStep, Inductive, PTL DEF Spec, Refines, Contract!Spec
-----------------------------------------------------------------------------
(* The accounts.                                                            *)
Statuses == {"active", "disabled", "deletion_pending"}
Dues == 0 .. (LastTime + Grace)
UserType ==
  [status: Statuses, due: Dues, ai: {"enabled", "suspended"},
   via: {"operator", "invite"}, calls: 0 .. A!MaxCalls, warned: BOOLEAN, notices: Nat]
InviteType == {A!NoInvite} \cup [status: {"open", "used"}, expires: Nat]
ContactType ==
  [status: {"none", "pending", "processing", "suppressed", "sent"}, at: Nat,
   worker: BOOLEAN, sent: Nat]
OpNames ==
  {"none", "invite", "start", "restore", "delete_account", "voice"} \cup A!ConsentOps
     \cup A!OperatorOps
WorkType ==
  [pc: {"idle", "read", "downloaded", "transcribe", "send"}, op: OpNames]
    \cup [pc: {"write"}, op: OpNames, at: 0 .. LastTime]
    \cup [pc: {"rows"}, op: A!ConsentOps, rest: SUBSET A!Providers]
MaintType ==
  [pc: {"idle"}, restarts: Nat, left: SUBSET A!Operation]
    \cup [pc: {"finalize", "warn"}, at: 0 .. LastTime, rest: SUBSET A!Ids, restarts: Nat,
          left: SUBSET A!Operation]
    \cup [pc: {"tell"}, at: 0 .. LastTime, rest: SUBSET A!Ids, restarts: Nat,
          left: SUBSET A!Operation, to: A!Ids]

AccountsTyped ==
  /\ story \in AccountScenarios /\ now \in 0 .. LastTime
  /\ users \in [A!Ids -> UserType \cup {A!Gone}] /\ invites \in InviteType
  /\ consents \in [A!Ids -> SUBSET A!Providers] /\ contact \in [A!Ids -> ContactType]
  /\ work \in [A!Surfaces \X A!Ids -> WorkType] /\ maint \in MaintType /\ asked \subseteq A!Ids

(* What is under way was asked for, and its clock is not ahead; a voice message *)
(* past the gate has a call left, and the gate keeps one back for the answer.   *)
Tended ==
  /\ maint.left \subseteq story.ops /\ (maint.pc # "idle" => maint.at <= now)
  /\ \A s \in A!Surfaces, u \in A!Ids :
       /\ work[<<s, u>>].pc # "idle" => <<s, u, work[<<s, u>>].op>> \in story.ops
       /\ work[<<s, u>>].pc = "write" => work[<<s, u>>].at <= now
       /\ work[<<s, u>>].pc \in {"downloaded", "transcribe", "send"} =>
            work[<<s, u>>].op = "voice" /\ (users[u] # A!Gone => users[u].calls + 1 < A!MaxCalls)

Invited(u) == users[u] # A!Gone /\ users[u].via = "invite"
InvitedOnce ==
  /\ \A u, v \in A!Ids : Invited(u) /\ Invited(v) => u = v
  /\ \A u \in A!Ids : Invited(u) => invites.status = "used"

(* The mark comes before the notice, and between them a tick is at work.     *)
ToldOnce ==
  /\ \A u \in A!Ids : users[u] # A!Gone =>
       users[u].notices <= 1 /\ (~users[u].warned => users[u].notices = 0)
  /\ maint.pc \in {"warn", "tell"} =>
       \A u \in maint.rest : users[u] # A!Gone => ~users[u].warned
  /\ maint.pc = "tell" =>
       /\ users[maint.to] # A!Gone /\ users[maint.to].warned
       /\ users[maint.to].notices = 0

DueWasAsked ==
  \A u \in A!Ids : users[u].status = "deletion_pending" => u \in asked /\ users[u].due >= Grace

(* Without the operator: what has gone out, or is on its way, is not pending *)
(* and was due by then; so a way back, which began later, does not release it. *)
Owed(u) == contact[u].worker \/ contact[u].sent > 0
Restoring(u) == work[<<"chat", u>>].pc = "write" /\ work[<<"chat", u>>].op = "restore"
SentOnce ==
  (\A o \in story.ops : o[1] # "cli") =>
    \A u \in A!Ids :
      /\ contact[u].sent <= 1 /\ ~(contact[u].worker /\ contact[u].sent > 0)
      /\ Owed(u) => contact[u].status # "pending" /\ contact[u].at <= now
      /\ Restoring(u) => users[u].status \in {"gone", "deletion_pending"}
      /\ Restoring(u) /\ Owed(u) => contact[u].at <= work[<<"chat", u>>].at

AccountsInv ==
  AccountsTyped /\ Tended /\ InvitedOnce /\ ToldOnce /\ DueWasAsked /\ SentOnce
-----------------------------------------------------------------------------
LEMMA AccountBounds ==
  /\ LastTime \in Nat /\ Grace \in Nat \ {0} /\ InviteTtl \in Nat
  /\ AccountScenarios \subseteq A!Scenario
BY DialogueAssumption

LEMMA GoneIsNone == /\ A!Gone.status = "gone" /\ A!Gone \notin UserType
                    /\ \A r \in UserType : r # A!Gone /\ r.status # "gone"
BY DEF A!Gone, UserType, Statuses

LEMMA NewUserTyped ==
  ASSUME NEW via \in {"operator", "invite"}
  PROVE  /\ A!NewUser(via) \in UserType /\ A!NewUser(via).status = "active"
         /\ A!NewUser(via).via = via /\ A!NewUser(via).calls = 0 /\ A!NewUser(via).notices = 0
         /\ ~A!NewUser(via).warned
BY AccountBounds DEF A!NewUser, UserType, Statuses, A!MaxCalls, Dues

LEMMA IdleTyped == A!Idle \in WorkType /\ A!Idle.pc = "idle"
BY DEF A!Idle, WorkType, OpNames

(* An operation by its surface.                                              *)
LEMMA OperationShape ==
  ASSUME NEW s \in A!Surfaces, NEW u \in A!Ids, NEW op, <<s, u, op>> \in A!Operation
  PROVE  /\ op \in OpNames \ {"none"}
         /\ op \in {"invite", "start", "restore", "voice"} => s = "chat"
         /\ op \in A!OperatorOps <=> s = "cli"
         /\ op \in A!ConsentOps \cup {"delete_account"} => s \in {"chat", "app"}
BY DEF A!Operation, OpNames, A!ConsentOps, A!OperatorOps, A!Surfaces

LEMMA Reading ==
  ASSUME AccountsTyped
  PROVE  /\ story \in A!Scenario /\ story.ops \subseteq A!Operation
         /\ \A s \in A!Surfaces, u \in A!Ids : work[<<s, u>>] \in WorkType
         /\ \A u \in A!Ids : /\ users[u] \in UserType \cup {A!Gone}
                             /\ users[u] # A!Gone <=> users[u] \in UserType
                             /\ users[u] # A!Gone <=> users[u].status # "gone"
                             /\ contact[u] \in ContactType
<1>1. story \in A!Scenario /\ story.ops \subseteq A!Operation
  BY AccountBounds DEF AccountsTyped, A!Scenario
<1>2. \A s \in A!Surfaces, u \in A!Ids : work[<<s, u>>] \in WorkType
  BY DEF AccountsTyped
<1>3. \A u \in A!Ids : users[u] \in UserType \cup {A!Gone} /\ contact[u] \in ContactType
  BY DEF AccountsTyped
<1> QED BY <1>1, <1>2, <1>3, GoneIsNone

LEMMA WorkSet ==
  ASSUME AccountsTyped, NEW s \in A!Surfaces, NEW u \in A!Ids, NEW r \in WorkType,
         work' = [work EXCEPT ![<<s, u>>] = r]
  PROVE  /\ work' \in [A!Surfaces \X A!Ids -> WorkType] /\ work'[<<s, u>>] = r
         /\ \A t \in A!Surfaces, v \in A!Ids : <<t, v>> # <<s, u>> => work'[<<t, v>>] = work[<<t, v>>]
BY DEF AccountsTyped

LEMMA SameProviders ==
  ASSUME story' = story
  PROVE  A!Providers' = A!Providers /\ WorkType' = WorkType
<1>1. A!Providers' = A!Providers
  BY DEF A!Providers
<1> QED BY <1>1 DEF WorkType

LEMMA AccountsInit == A!Init => AccountsInv
<1> SUFFICES ASSUME A!Init PROVE AccountsInv
  OBVIOUS
<1>1. story \in A!Scenario
  BY AccountBounds DEF A!Init
<1>2. /\ \A u \in A!Ids : users[u] \in UserType \cup {A!Gone}
      /\ \A u \in A!Ids : users[u] # A!Gone => users[u] = A!NewUser("operator")
      /\ users \in [A!Ids -> UserType \cup {A!Gone}]
  BY NewUserTyped DEF A!Init
<1>3. /\ maint = [pc |-> "idle", restarts |-> story.restarts, left |-> story.ops]
      /\ maint \in MaintType /\ maint.left = story.ops /\ maint.pc = "idle"
  BY <1>1 DEF A!Init, A!Scenario, MaintType
<1>4. /\ \A s \in A!Surfaces, u \in A!Ids : work[<<s, u>>] = A!Idle
      /\ work \in [A!Surfaces \X A!Ids -> WorkType]
  BY IdleTyped DEF A!Init
<1>5. /\ \A u \in A!Ids : contact[u] = A!NoContact
      /\ A!NoContact \in ContactType /\ contact \in [A!Ids -> ContactType]
      /\ A!NoContact.sent = 0 /\ ~A!NoContact.worker
  BY DEF A!Init, A!NoContact, ContactType
<1>6. AccountsTyped
  BY <1>2, <1>3, <1>4, <1>5, AccountBounds DEF AccountsTyped, A!Init, InviteType
<1>7. Tended
  BY <1>3, <1>4, IdleTyped DEF Tended
<1>8. InvitedOnce /\ DueWasAsked
  BY <1>2, NewUserTyped, GoneIsNone DEF InvitedOnce, Invited, DueWasAsked
<1>9. ToldOnce
  BY <1>2, <1>3, NewUserTyped DEF ToldOnce
<1>10. SentOnce
  <2>1. \A u \in A!Ids : ~Owed(u) /\ contact[u].sent = 0 /\ ~contact[u].worker
    BY <1>5 DEF Owed
  <2>2. \A u \in A!Ids : ~Restoring(u)
    BY <1>4, IdleTyped DEF Restoring, A!Surfaces
  <2> QED BY <2>1, <2>2 DEF SentOnce
<1> QED BY <1>6, <1>7, <1>8, <1>9, <1>10 DEF AccountsInv

(* An operation that reads on, or ends with nothing written.                 *)
LEMMA WorkGoesOn ==
  ASSUME AccountsInv, NEW s \in A!Surfaces, NEW u \in A!Ids, NEW r \in WorkType,
         work' = [work EXCEPT ![<<s, u>>] = r],
         r.pc # "idle" => <<s, u, r.op>> \in story.ops,
         r.pc = "write" => r.at = now,
         r.pc \in {"downloaded", "transcribe", "send"} =>
           r.op = "voice" /\ (users[u] # A!Gone => users[u].calls + 1 < A!MaxCalls),
         r.pc = "write" /\ r.op = "restore" => users[u].status \in {"gone", "deletion_pending"},
         UNCHANGED <<story, now, users, invites, consents, contact, asked>>,
         maint' \in MaintType, maint'.left \subseteq maint.left, maint'.pc = maint.pc,
         maint.pc # "idle" => maint'.at = maint.at /\ maint'.rest = maint.rest,
         maint.pc = "tell" => maint'.to = maint.to
  PROVE  AccountsInv'
<1>1. AccountsTyped /\ AccountsTyped'
  <2>1. work' \in [A!Surfaces \X A!Ids -> WorkType]
    BY WorkSet DEF AccountsInv
  <2> QED BY <2>1, SameProviders DEF AccountsInv, AccountsTyped
<1>2. /\ work'[<<s, u>>] = r
      /\ \A t \in A!Surfaces, v \in A!Ids : <<t, v>> # <<s, u>> => work'[<<t, v>>] = work[<<t, v>>]
  BY <1>1, WorkSet
<1>3. now \in Nat
  BY <1>1, AccountBounds DEF AccountsTyped
<1>4. Tended'
  BY <1>1, <1>2, <1>3 DEF AccountsInv, Tended
<1>5. InvitedOnce' /\ DueWasAsked'
  BY DEF AccountsInv, InvitedOnce, Invited, DueWasAsked
<1>6. ToldOnce'
  BY DEF AccountsInv, ToldOnce
<1>7. SentOnce'
  <2> SUFFICES ASSUME \A o \in story.ops : o[1] # "cli", NEW v \in A!Ids
               PROVE  /\ Restoring(v)' => users[v].status \in {"gone", "deletion_pending"}
                      /\ Restoring(v)' /\ Owed(v) => contact[v].at <= work'[<<"chat", v>>].at
                      /\ contact[v].sent <= 1 /\ ~(contact[v].worker /\ contact[v].sent > 0)
                      /\ Owed(v) => contact[v].status # "pending" /\ contact[v].at <= now
    BY DEF SentOnce, Owed
  <2>1. /\ contact[v].sent <= 1 /\ ~(contact[v].worker /\ contact[v].sent > 0)
        /\ Owed(v) => contact[v].status # "pending" /\ contact[v].at <= now
        /\ Restoring(v) => users[v].status \in {"gone", "deletion_pending"}
        /\ Restoring(v) /\ Owed(v) => contact[v].at <= work[<<"chat", v>>].at
    BY DEF AccountsInv, SentOnce
  <2>2. CASE <<"chat", v>> = <<s, u>>
    BY <1>2, <2>1, <2>2 DEF Restoring
  <2>3. CASE <<"chat", v>> # <<s, u>>
    BY <1>2, <2>1, <2>3 DEF Restoring, A!Surfaces
  <2> QED BY <2>1, <2>2, <2>3
<1> QED BY <1>1, <1>4, <1>5, <1>6, <1>7 DEF AccountsInv

LEMMA ReadKeeps ==
  ASSUME AccountsInv, NEW s \in A!Surfaces, NEW u \in A!Ids, A!Read(s, u)
  PROVE  AccountsInv'
<1> DEFINE w == work[<<s, u>>]
           r == IF A!Reads(s, u) THEN [pc |-> "write", op |-> w.op, at |-> now] ELSE A!Idle
<1>1. AccountsTyped /\ Tended
  BY DEF AccountsInv
<1>2. w \in WorkType /\ w.pc = "read" /\ <<s, u, w.op>> \in story.ops
  BY <1>1, Reading DEF A!Read, Tended
<1>3. w.op \in OpNames
  BY <1>1, <1>2, Reading, OperationShape
<1>4. now \in 0 .. LastTime /\ maint \in MaintType
  BY <1>1 DEF AccountsTyped
<1>5. [pc |-> "write", op |-> w.op, at |-> now] \in WorkType
  BY <1>3, <1>4 DEF WorkType
<1>6. r \in WorkType
  BY <1>5, IdleTyped
<1>7. work' = [work EXCEPT ![<<s, u>>] = r]
      /\ UNCHANGED <<story, now, users, invites, consents, contact, maint, asked>>
  BY DEF A!Read
<1>8. /\ r.pc # "idle" => r = [pc |-> "write", op |-> w.op, at |-> now] /\ A!Reads(s, u)
      /\ r.pc \in {"idle", "write"}
  BY IdleTyped
<1>9. r.pc = "write" /\ r.op = "restore" => users[u].status \in {"gone", "deletion_pending"}
  <2> SUFFICES ASSUME r.pc = "write", r.op = "restore" PROVE users[u].status = "deletion_pending"
    OBVIOUS
  <2>1. w.op = "restore" /\ A!Reads(s, u)
    BY <1>8
  <2> QED BY <2>1 DEF A!Reads, A!Restorable
<1>10. /\ r.pc # "idle" => <<s, u, r.op>> \in story.ops
       /\ r.pc = "write" => r.at = now
       /\ r.pc \notin {"downloaded", "transcribe", "send"}
  BY <1>2, <1>8
<1> HIDE DEF r
<1> QED BY <1>4, <1>6, <1>7, <1>9, <1>10, WorkGoesOn

LEMMA ArriveKeeps ==
  ASSUME AccountsInv, NEW s \in A!Surfaces, NEW u \in A!Ids, NEW op, A!Arrive(s, u, op)
  PROVE  AccountsInv'
<1> DEFINE r == [pc |-> "read", op |-> op]
<1>1. AccountsTyped /\ Tended /\ <<s, u, op>> \in story.ops /\ maint \in MaintType
  BY DEF AccountsInv, AccountsTyped, A!Arrive, Tended
<1>2. r \in WorkType /\ r.pc = "read" /\ r.op = op
  BY <1>1, Reading, OperationShape DEF WorkType
<1>3. /\ maint' \in MaintType /\ maint'.left \subseteq maint.left /\ maint'.pc = maint.pc
      /\ maint.pc # "idle" => maint'.at = maint.at /\ maint'.rest = maint.rest
      /\ maint.pc = "tell" => maint'.to = maint.to
  BY <1>1 DEF A!Arrive, MaintType
<1>4. work' = [work EXCEPT ![<<s, u>>] = r]
      /\ UNCHANGED <<story, now, users, invites, consents, contact, asked>>
  BY DEF A!Arrive
<1> HIDE DEF r
<1> QED BY <1>1, <1>2, <1>3, <1>4, WorkGoesOn

LEMMA ConsentKeeps ==
  ASSUME AccountsInv, NEW s \in A!Surfaces, NEW u \in A!Ids, A!Consent(s, u)
  PROVE  AccountsInv'
<1> DEFINE w == work[<<s, u>>]
           r == [pc |-> "rows", op |-> w.op, rest |-> A!RowsOf(w.op)]
<1>1. AccountsTyped /\ Tended /\ maint \in MaintType
  BY DEF AccountsInv, AccountsTyped
<1>2. w.op \in A!ConsentOps /\ w.pc = "read" /\ <<s, u, w.op>> \in story.ops
  BY <1>1 DEF A!Consent, Tended, A!ConsentOps
<1>3. A!RowsOf(w.op) \in SUBSET A!Providers
  BY <1>2 DEF A!RowsOf, A!ConsentOps, A!Providers
<1>4. r \in WorkType /\ r.pc = "rows" /\ r.op = w.op
  BY <1>2, <1>3 DEF WorkType
<1>5. work' = [work EXCEPT ![<<s, u>>] = r]
      /\ UNCHANGED <<story, now, users, invites, consents, contact, maint, asked>>
  BY DEF A!Consent
<1> HIDE DEF r
<1> QED BY <1>1, <1>2, <1>4, <1>5, WorkGoesOn

LEMMA VoiceKeeps ==
  ASSUME AccountsInv, NEW s \in A!Surfaces, NEW u \in A!Ids, A!Voice(s, u) \/ A!DownloadFails(s, u)
  PROVE  AccountsInv'
<1> DEFINE w == work[<<s, u>>]
<1>1. AccountsTyped /\ Tended /\ maint \in MaintType /\ w \in WorkType
  BY Reading DEF AccountsInv, AccountsTyped
<1>2. /\ w.pc \in {"read", "downloaded"} /\ <<s, u, w.op>> \in story.ops
      /\ UNCHANGED <<story, now, users, invites, consents, contact, maint, asked>>
  BY <1>1 DEF A!Voice, A!DownloadFails, Tended
<1>3. CASE A!Ends(s, u)
  BY <1>1, <1>2, <1>3, IdleTyped, WorkGoesOn DEF A!Ends
<1>4. CASE A!Voice(s, u) /\ ~A!Ends(s, u)
  <2> DEFINE pc == IF w.pc = "read" THEN "downloaded" ELSE "transcribe"
             r == [w EXCEPT !.pc = pc]
  <2>1. w.op = "voice" /\ A!voiceGate(u) = "ready" /\ work' = [work EXCEPT ![<<s, u>>] = r]
    BY <1>2, <1>4 DEF A!Voice, A!Goes, A!Ends
  <2>2. r \in WorkType /\ r.pc = pc /\ r.op = "voice"
    BY <1>1, <1>2, <2>1 DEF WorkType
  <2>3. users[u] # A!Gone => users[u].calls + 1 < A!MaxCalls
    <3> SUFFICES ASSUME users[u] # A!Gone PROVE users[u].calls + 1 < A!MaxCalls
      OBVIOUS
    <3>1. users[u].calls \in 0 .. 3
      BY <1>1, Reading DEF UserType, A!MaxCalls
    <3>2. ~(users[u].calls >= A!MaxCalls - 1)
      BY <2>1 DEF A!voiceGate
    <3> QED BY <3>1, <3>2 DEF A!MaxCalls
  <2>4. pc \in {"downloaded", "transcribe", "send"}
    OBVIOUS
  <2> HIDE DEF r, pc
  <2> QED BY <1>1, <1>2, <2>1, <2>2, <2>3, <2>4, WorkGoesOn
<1>5. A!DownloadFails(s, u) => A!Ends(s, u)
  BY DEF A!DownloadFails
<1> QED BY <1>3, <1>4, <1>5
-----------------------------------------------------------------------------
(* The writes of an operation end it.  Most leave who is there, by which way, *)
(* and what they were told.                                                  *)
LEMMA Unaffected ==
  ASSUME AccountsInv, NEW s \in A!Surfaces, NEW u \in A!Ids, A!Ends(s, u),
         UNCHANGED <<story, now, invites, maint>>,
         \A v \in A!Ids :
           /\ users'[v] # A!Gone <=> users[v] # A!Gone
           /\ users[v] # A!Gone =>
                /\ users'[v].via = users[v].via /\ users'[v].warned = users[v].warned
                /\ users'[v].notices = users[v].notices
                /\ users'[v].calls = users[v].calls \/ (v = u /\ s = "chat")
  PROVE  /\ Tended' /\ InvitedOnce' /\ ToldOnce'
         /\ work' \in [A!Surfaces \X A!Ids -> WorkType'] /\ work'[<<s, u>>].pc = "idle"
         /\ \A t \in A!Surfaces, v \in A!Ids :
              <<t, v>> # <<s, u>> => work'[<<t, v>>] = work[<<t, v>>]
<1>1. AccountsTyped /\ Tended /\ InvitedOnce /\ ToldOnce
  BY DEF AccountsInv
<1>2. /\ work' \in [A!Surfaces \X A!Ids -> WorkType'] /\ work'[<<s, u>>] = A!Idle
      /\ \A t \in A!Surfaces, v \in A!Ids :
           <<t, v>> # <<s, u>> => work'[<<t, v>>] = work[<<t, v>>]
  BY <1>1, IdleTyped, WorkSet, SameProviders DEF A!Ends
<1>3. \A t \in A!Surfaces, v \in A!Ids :
        work[<<t, v>>].pc \in {"downloaded", "transcribe", "send"} => t = "chat"
  BY <1>1, Reading, OperationShape DEF Tended
<1>4. Tended'
  <2> SUFFICES ASSUME NEW t \in A!Surfaces, NEW v \in A!Ids
               PROVE  /\ work'[<<t, v>>].pc # "idle" => <<t, v, work'[<<t, v>>].op>> \in story.ops
                      /\ work'[<<t, v>>].pc = "write" => work'[<<t, v>>].at <= now
                      /\ work'[<<t, v>>].pc \in {"downloaded", "transcribe", "send"} =>
                           /\ work'[<<t, v>>].op = "voice"
                           /\ users'[v] # A!Gone => users'[v].calls + 1 < A!MaxCalls
    BY <1>1 DEF Tended
  <2>1. CASE <<t, v>> = <<s, u>>
    BY <1>2, <2>1, IdleTyped
  <2>2. CASE <<t, v>> # <<s, u>>
    <3>1. /\ work'[<<t, v>>] = work[<<t, v>>]
          /\ work[<<t, v>>].pc # "idle" => <<t, v, work[<<t, v>>].op>> \in story.ops
          /\ work[<<t, v>>].pc = "write" => work[<<t, v>>].at <= now
          /\ work[<<t, v>>].pc \in {"downloaded", "transcribe", "send"} =>
               /\ work[<<t, v>>].op = "voice" /\ t = "chat"
               /\ users[v] # A!Gone => users[v].calls + 1 < A!MaxCalls
      BY <1>1, <1>2, <1>3, <2>2 DEF Tended
    <3>2. t = "chat" /\ users[v] # A!Gone => users'[v].calls = users[v].calls
      BY <2>2
    <3> QED BY <3>1, <3>2
  <2> QED BY <2>1, <2>2
<1>5. InvitedOnce'
  BY <1>1 DEF InvitedOnce, Invited
<1>6. maint.pc # "idle" => maint.rest \subseteq A!Ids /\ (maint.pc = "tell" => maint.to \in A!Ids)
  BY <1>1 DEF AccountsTyped, MaintType
<1>7. ToldOnce'
  BY <1>1, <1>6 DEF ToldOnce
<1> QED BY <1>2, <1>4, <1>5, <1>7, IdleTyped

(* The operator's writes: what is said of messages is said without one.      *)
LEMMA ByOperator ==
  ASSUME AccountsInv, NEW s \in A!Surfaces, NEW u \in A!Ids, work[<<s, u>>].pc # "idle"
  PROVE  /\ <<s, u, work[<<s, u>>].op>> \in story.ops
         /\ work[<<s, u>>].op \in {"start", "restore", "voice"} => s = "chat"
         /\ work[<<s, u>>].op \in A!OperatorOps =>
              \E o \in story.ops : o[1] = "cli"
<1>1. <<s, u, work[<<s, u>>].op>> \in story.ops
  BY DEF AccountsInv, Tended
<1>2. story.ops \subseteq A!Operation
  BY Reading DEF AccountsInv
<1>3. work[<<s, u>>].op \in A!OperatorOps => s = "cli"
  BY <1>1, <1>2, OperationShape
<1>4. work[<<s, u>>].op \in {"start", "restore", "voice"} => s = "chat"
  BY <1>1, <1>2, OperationShape
<1> QED BY <1>1, <1>3, <1>4

(* Another status, due, mark of the provider or number of calls in a row.    *)
LEMMA UserSet ==
  ASSUME AccountsTyped, NEW u \in A!Ids, NEW r \in UserType \cup {A!Gone},
         users' = [users EXCEPT ![u] = r]
  PROVE  /\ users' \in [A!Ids -> UserType \cup {A!Gone}] /\ users'[u] = r
         /\ \A v \in A!Ids : v # u => users'[v] = users[v]
BY DEF AccountsTyped

WithStatus(entry, status) == [entry EXCEPT !.status = status]
WithDue(entry, status, due) == [entry EXCEPT !.status = status, !.due = due]

LEMMA UserRowSet ==
  ASSUME NEW entry \in UserType, NEW status \in Statuses, NEW due \in Dues
  PROVE  /\ WithStatus(entry, status) \in UserType /\ WithStatus(entry, status).status = status
         /\ WithStatus(entry, status).via = entry.via
         /\ WithStatus(entry, status).warned = entry.warned
         /\ WithStatus(entry, status).notices = entry.notices
         /\ WithStatus(entry, status).calls = entry.calls
         /\ WithDue(entry, status, due) \in UserType
         /\ WithDue(entry, status, due).status = status /\ WithDue(entry, status, due).due = due
         /\ WithDue(entry, status, due).via = entry.via
         /\ WithDue(entry, status, due).warned = entry.warned
         /\ WithDue(entry, status, due).notices = entry.notices
         /\ WithDue(entry, status, due).calls = entry.calls
BY DEF UserType, WithStatus, WithDue

LEMMA ContactSet ==
  ASSUME AccountsTyped, NEW u \in A!Ids, NEW c \in ContactType,
         contact' = [contact EXCEPT ![u] = c]
  PROVE  /\ contact' \in [A!Ids -> ContactType] /\ contact'[u] = c
         /\ \A v \in A!Ids : v # u => contact'[v] = contact[v]
BY DEF AccountsTyped

LEMMA ContactKept ==
  ASSUME NEW c \in ContactType, NEW at
  PROVE  /\ A!suppressPendingForUser(c) \in ContactType
         /\ A!suppressPendingForUser(c).sent = c.sent /\ A!suppressPendingForUser(c).at = c.at
         /\ A!suppressPendingForUser(c).worker = c.worker
         /\ A!suppressPendingForUser(c).status # "pending"
         /\ A!restoreFutureAccessSuppressed(c, at) \in ContactType
         /\ A!restoreFutureAccessSuppressed(c, at).sent = c.sent
         /\ A!restoreFutureAccessSuppressed(c, at).at = c.at
         /\ A!restoreFutureAccessSuppressed(c, at).worker = c.worker
         /\ A!restoreFutureAccessSuppressed(c, at).status = c.status \/ c.at > at
BY DEF A!suppressPendingForUser, A!restoreFutureAccessSuppressed, ContactType

LEMMA SetAiKeeps ==
  ASSUME AccountsInv, NEW s \in A!Surfaces, NEW u \in A!Ids,
         NEW status \in {"enabled", "suspended"}, A!setAiStatus(s, u, status)
  PROVE  AccountsInv'
<1> DEFINE entry == [users[u] EXCEPT !.ai = status]
<1>1. AccountsTyped /\ DueWasAsked
  BY DEF AccountsInv
<1>2. /\ work[<<s, u>>].pc = "write" /\ work[<<s, u>>].op \in A!OperatorOps /\ A!Ends(s, u)
      /\ users' = IF users[u] = A!Gone THEN users ELSE [users EXCEPT ![u] = entry]
      /\ UNCHANGED <<story, now, invites, consents, contact, maint, asked>>
  BY DEF A!setAiStatus, A!Writing, A!OperatorOps
<1>3. users[u] # A!Gone =>
        /\ entry \in UserType /\ entry.status = users[u].status /\ entry.due = users[u].due
        /\ entry.via = users[u].via /\ entry.warned = users[u].warned
        /\ entry.notices = users[u].notices /\ entry.calls = users[u].calls
  BY <1>1, Reading DEF UserType
<1> HIDE DEF entry
<1>4. /\ users' \in [A!Ids -> UserType \cup {A!Gone}]
      /\ \A v \in A!Ids : v # u => users'[v] = users[v]
      /\ users'[u] = IF users[u] = A!Gone THEN A!Gone ELSE entry
  BY <1>1, <1>2, <1>3, UserSet DEF AccountsTyped
<1>5. users[u] # A!Gone => users'[u] # A!Gone
  BY <1>3, <1>4, GoneIsNone
<1>6. Tended' /\ InvitedOnce' /\ ToldOnce' /\ work' \in [A!Surfaces \X A!Ids -> WorkType']
  BY <1>2, <1>3, <1>4, <1>5, Unaffected
<1>7. AccountsTyped'
  BY <1>1, <1>2, <1>4, <1>6, SameProviders DEF AccountsTyped
<1>8. DueWasAsked'
  BY <1>1, <1>2, <1>3, <1>4 DEF DueWasAsked
<1>9. SentOnce'
  BY <1>2, ByOperator DEF SentOnce
<1> QED BY <1>6, <1>7, <1>8, <1>9 DEF AccountsInv

LEMMA SetStatusKeeps ==
  ASSUME AccountsInv, NEW s \in A!Surfaces, NEW u \in A!Ids,
         NEW status \in {"active", "disabled"}, A!setUserStatus(s, u, status)
  PROVE  AccountsInv'
<1>1. AccountsTyped /\ DueWasAsked
  BY DEF AccountsInv
<1>2. /\ work[<<s, u>>].pc = "write" /\ work[<<s, u>>].op \in A!OperatorOps /\ A!Ends(s, u)
      /\ UNCHANGED <<story, now, invites, consents, maint>>
  BY DEF A!setUserStatus, A!Writing, A!OperatorOps
<1>3. CASE users[u] = A!Gone
  <2>1. UNCHANGED <<users, contact, asked>>
    BY <1>3 DEF A!setUserStatus
  <2>2. Tended' /\ InvitedOnce' /\ ToldOnce' /\ work' \in [A!Surfaces \X A!Ids -> WorkType']
    BY <1>2, <2>1, Unaffected
  <2>3. AccountsTyped'
    BY <1>1, <1>2, <2>1, <2>2, SameProviders DEF AccountsTyped
  <2>4. DueWasAsked' /\ SentOnce'
    BY <1>1, <1>2, <2>1, ByOperator DEF SentOnce, DueWasAsked
  <2> QED BY <2>2, <2>3, <2>4 DEF AccountsInv
<1>4. CASE users[u] # A!Gone
  <2> DEFINE entry == IF status = "active" THEN WithDue(users[u], status, 0)
                      ELSE WithStatus(users[u], status)
             c == IF status = "active" THEN A!restoreFutureAccessSuppressed(contact[u], now)
                  ELSE A!suppressPendingForUser(contact[u])
  <2>1. /\ entry \in UserType /\ entry.status = status /\ entry.via = users[u].via
        /\ entry.warned = users[u].warned /\ entry.notices = users[u].notices
        /\ entry.calls = users[u].calls
    <3>1. users[u] \in UserType /\ 0 \in Dues /\ status \in Statuses
      BY <1>1, <1>4, Reading, AccountBounds DEF Dues, Statuses
    <3> QED BY <3>1, UserRowSet
  <2>2. c \in ContactType
    BY <1>1, Reading, ContactKept
  <2>3. /\ users' = [users EXCEPT ![u] = entry] /\ contact' = [contact EXCEPT ![u] = c]
        /\ asked' \in {asked, asked \ {u}}
    BY <1>4 DEF A!setUserStatus, A!Release, A!Suppress, WithStatus, WithDue
  <2> HIDE DEF entry, c
  <2>4. /\ users' \in [A!Ids -> UserType \cup {A!Gone}] /\ users'[u] = entry
        /\ \A v \in A!Ids : v # u => users'[v] = users[v]
        /\ contact' \in [A!Ids -> ContactType]
    BY <1>1, <2>1, <2>2, <2>3, UserSet, ContactSet
  <2>5. Tended' /\ InvitedOnce' /\ ToldOnce' /\ work' \in [A!Surfaces \X A!Ids -> WorkType']
    BY <1>2, <1>4, <2>1, <2>4, GoneIsNone, Unaffected
  <2>6. AccountsTyped'
    BY <1>1, <1>2, <2>3, <2>4, <2>5, SameProviders DEF AccountsTyped
  <2>7. DueWasAsked'
    BY <1>1, <2>1, <2>3, <2>4 DEF DueWasAsked
  <2>8. SentOnce'
    BY <1>2, ByOperator DEF SentOnce
  <2> QED BY <2>5, <2>6, <2>7, <2>8 DEF AccountsInv
<1> QED BY <1>3, <1>4

LEMMA DeletionKeeps ==
  ASSUME AccountsInv, NEW s \in A!Surfaces, NEW u \in A!Ids, A!requestDeletion(s, u)
  PROVE  AccountsInv'
<1>1. AccountsTyped /\ DueWasAsked /\ SentOnce /\ Tended
  BY DEF AccountsInv
<1>2. /\ work[<<s, u>>].pc = "write" /\ A!Ends(s, u)
      /\ UNCHANGED <<story, now, invites, consents, maint>>
  BY DEF A!requestDeletion, A!Writing
<1>3. CASE ~A!Active(u)
  <2>1. UNCHANGED <<users, contact, asked>>
    BY <1>3 DEF A!requestDeletion
  <2>2. /\ Tended' /\ InvitedOnce' /\ ToldOnce' /\ work' \in [A!Surfaces \X A!Ids -> WorkType']
        /\ work'[<<s, u>>].pc = "idle"
        /\ \A t \in A!Surfaces, v \in A!Ids :
              <<t, v>> # <<s, u>> => work'[<<t, v>>] = work[<<t, v>>]
    BY <1>2, <2>1, Unaffected
  <2>3. AccountsTyped' /\ DueWasAsked'
    BY <1>1, <1>2, <2>1, <2>2, SameProviders DEF AccountsTyped, DueWasAsked
  <2>4. \A v \in A!Ids : Restoring(v)' => Restoring(v) /\ work'[<<"chat", v>>] = work[<<"chat", v>>]
    BY <2>2 DEF Restoring, A!Surfaces
  <2>5. SentOnce'
    BY <1>1, <1>2, <2>1, <2>4 DEF SentOnce, Owed
  <2> QED BY <2>2, <2>3, <2>5 DEF AccountsInv
<1>4. CASE A!Active(u)
  <2> DEFINE entry == WithDue(users[u], "deletion_pending", work[<<s, u>>].at + Grace)
             c == A!suppressPendingForUser(contact[u])
  <2>1. work[<<s, u>>].at \in 0 .. LastTime
    BY <1>1, <1>2, Reading DEF WorkType
  <2>2. users[u] \in UserType
    BY <1>1, <1>4, Reading DEF A!Active
  <2>3. /\ entry \in UserType /\ entry.status = "deletion_pending" /\ entry.via = users[u].via
        /\ entry.warned = users[u].warned /\ entry.notices = users[u].notices
        /\ entry.calls = users[u].calls /\ entry.due >= Grace
    <3> DEFINE due == work[<<s, u>>].at + Grace
    <3>1. due \in Dues /\ due >= Grace
      BY <2>1, AccountBounds DEF Dues
    <3>2. "deletion_pending" \in Statuses /\ entry = WithDue(users[u], "deletion_pending", due)
      BY DEF Statuses
    <3> HIDE DEF due
    <3> QED BY <2>2, <3>1, <3>2, UserRowSet
  <2>4. /\ c \in ContactType /\ c.sent = contact[u].sent /\ c.at = contact[u].at
        /\ c.worker = contact[u].worker /\ c.status # "pending"
    BY <1>1, Reading, ContactKept
  <2>5. /\ users' = [users EXCEPT ![u] = entry] /\ contact' = [contact EXCEPT ![u] = c]
        /\ asked' = asked \cup {u}
    BY <1>4 DEF A!requestDeletion, A!Suppress, WithDue
  <2> HIDE DEF entry, c
  <2>6. /\ users' \in [A!Ids -> UserType \cup {A!Gone}] /\ users'[u] = entry
        /\ \A v \in A!Ids : v # u => users'[v] = users[v]
        /\ contact' \in [A!Ids -> ContactType] /\ contact'[u] = c
        /\ \A v \in A!Ids : v # u => contact'[v] = contact[v]
    BY <1>1, <2>3, <2>4, <2>5, UserSet, ContactSet
  <2>7. /\ Tended' /\ InvitedOnce' /\ ToldOnce' /\ work' \in [A!Surfaces \X A!Ids -> WorkType']
        /\ work'[<<s, u>>].pc = "idle"
        /\ \A t \in A!Surfaces, v \in A!Ids :
              <<t, v>> # <<s, u>> => work'[<<t, v>>] = work[<<t, v>>]
    <3>1. /\ users[u] # A!Gone /\ users'[u] # A!Gone /\ users'[u].via = users[u].via
          /\ users'[u].warned = users[u].warned /\ users'[u].notices = users[u].notices
          /\ users'[u].calls = users[u].calls
      BY <2>2, <2>3, <2>6, GoneIsNone
    <3>2. \A v \in A!Ids :
            /\ users'[v] # A!Gone <=> users[v] # A!Gone
            /\ users[v] # A!Gone =>
                 /\ users'[v].via = users[v].via /\ users'[v].warned = users[v].warned
                 /\ users'[v].notices = users[v].notices /\ users'[v].calls = users[v].calls
      BY <2>6, <3>1
    <3> QED BY <1>2, <3>2, Unaffected
  <2>8. AccountsTyped'
    BY <1>1, <1>2, <2>5, <2>6, <2>7, SameProviders DEF AccountsTyped
  <2>9. DueWasAsked'
    BY <1>1, <2>3, <2>5, <2>6 DEF DueWasAsked
  <2>10. \A v \in A!Ids :
          /\ Restoring(v)' => Restoring(v) /\ work'[<<"chat", v>>] = work[<<"chat", v>>]
          /\ Owed(v)' <=> Owed(v)
    BY <2>4, <2>6, <2>7 DEF Restoring, Owed, A!Surfaces
  <2>11. SentOnce'
    BY <1>1, <1>2, <2>3, <2>4, <2>6, <2>10 DEF SentOnce
  <2> QED BY <2>7, <2>8, <2>9, <2>11 DEF AccountsInv
<1> QED BY <1>3, <1>4

LEMMA RestoreKeeps ==
  ASSUME AccountsInv, NEW s \in A!Surfaces, NEW u \in A!Ids, A!restoreDeletion(s, u)
  PROVE  AccountsInv'
<1> DEFINE at == work[<<s, u>>].at
<1>1. AccountsTyped /\ DueWasAsked /\ SentOnce /\ Tended
  BY DEF AccountsInv
<1>2. /\ work[<<s, u>>].pc = "write" /\ work[<<s, u>>].op = "restore" /\ A!Ends(s, u)
      /\ UNCHANGED <<story, now, invites, consents, maint>>
  BY DEF A!restoreDeletion, A!Writing
<1>3. s = "chat"
  BY <1>2, ByOperator
<1>4. CASE ~A!Restorable(u, at)
  <2>1. UNCHANGED <<users, contact, asked>>
    BY <1>4 DEF A!restoreDeletion
  <2>2. /\ Tended' /\ InvitedOnce' /\ ToldOnce' /\ work' \in [A!Surfaces \X A!Ids -> WorkType']
        /\ work'[<<s, u>>].pc = "idle"
        /\ \A t \in A!Surfaces, v \in A!Ids :
              <<t, v>> # <<s, u>> => work'[<<t, v>>] = work[<<t, v>>]
    BY <1>2, <2>1, Unaffected
  <2>3. AccountsTyped' /\ DueWasAsked'
    BY <1>1, <1>2, <2>1, <2>2, SameProviders DEF AccountsTyped, DueWasAsked
  <2>4. \A v \in A!Ids : Restoring(v)' => Restoring(v) /\ work'[<<"chat", v>>] = work[<<"chat", v>>]
    BY <2>2 DEF Restoring, A!Surfaces
  <2>5. SentOnce'
    BY <1>1, <1>2, <2>1, <2>4 DEF SentOnce, Owed
  <2> QED BY <2>2, <2>3, <2>5 DEF AccountsInv
<1>5. CASE A!Restorable(u, at)
  <2> DEFINE entry == WithDue(users[u], "active", 0)
             c == A!restoreFutureAccessSuppressed(contact[u], at)
  <2>1. users[u] \in UserType
    BY <1>1, <1>5, Reading DEF A!Restorable
  <2>2. /\ entry \in UserType /\ entry.status = "active" /\ entry.via = users[u].via
        /\ entry.warned = users[u].warned /\ entry.notices = users[u].notices
        /\ entry.calls = users[u].calls
    <3>1. "active" \in Statuses /\ 0 \in Dues
      BY AccountBounds DEF Statuses, Dues
    <3> QED BY <2>1, <3>1, UserRowSet
  <2>3. /\ c \in ContactType /\ c.sent = contact[u].sent /\ c.at = contact[u].at
        /\ c.worker = contact[u].worker /\ (c.status = contact[u].status \/ c.at > at)
    BY <1>1, Reading, ContactKept
  <2>4. /\ users' = [users EXCEPT ![u] = entry] /\ contact' = [contact EXCEPT ![u] = c]
        /\ asked' = asked \ {u}
    BY <1>5 DEF A!restoreDeletion, A!Release, WithDue
  <2> HIDE DEF entry, c
  <2>5. /\ users' \in [A!Ids -> UserType \cup {A!Gone}] /\ users'[u] = entry
        /\ \A v \in A!Ids : v # u => users'[v] = users[v]
        /\ contact' \in [A!Ids -> ContactType] /\ contact'[u] = c
        /\ \A v \in A!Ids : v # u => contact'[v] = contact[v]
    BY <1>1, <2>2, <2>3, <2>4, UserSet, ContactSet
  <2>6. /\ Tended' /\ InvitedOnce' /\ ToldOnce' /\ work' \in [A!Surfaces \X A!Ids -> WorkType']
        /\ work'[<<s, u>>].pc = "idle"
        /\ \A t \in A!Surfaces, v \in A!Ids :
              <<t, v>> # <<s, u>> => work'[<<t, v>>] = work[<<t, v>>]
    <3>1. /\ users[u] # A!Gone /\ users'[u] # A!Gone /\ users'[u].via = users[u].via
          /\ users'[u].warned = users[u].warned /\ users'[u].notices = users[u].notices
          /\ users'[u].calls = users[u].calls
      BY <2>1, <2>2, <2>5, GoneIsNone
    <3>2. \A v \in A!Ids :
            /\ users'[v] # A!Gone <=> users[v] # A!Gone
            /\ users[v] # A!Gone =>
                 /\ users'[v].via = users[v].via /\ users'[v].warned = users[v].warned
                 /\ users'[v].notices = users[v].notices /\ users'[v].calls = users[v].calls
      BY <2>5, <3>1
    <3> QED BY <1>2, <3>2, Unaffected
  <2>7. AccountsTyped'
    BY <1>1, <1>2, <2>4, <2>5, <2>6, SameProviders DEF AccountsTyped
  <2>8. DueWasAsked'
    BY <1>1, <2>2, <2>4, <2>5 DEF DueWasAsked
  <2>9. \A v \in A!Ids :
          /\ Restoring(v)' => v # u /\ Restoring(v) /\ work'[<<"chat", v>>] = work[<<"chat", v>>]
          /\ Owed(v)' <=> Owed(v)
    BY <1>3, <2>3, <2>5, <2>6 DEF Restoring, Owed, A!Surfaces
  <2>10. SentOnce'
    <3> SUFFICES ASSUME \A o \in story.ops : o[1] # "cli", NEW v \in A!Ids
                 PROVE  /\ contact'[v].sent <= 1 /\ ~(contact'[v].worker /\ contact'[v].sent > 0)
                        /\ Owed(v) => contact'[v].status # "pending" /\ contact'[v].at <= now
                        /\ v # u /\ Restoring(v) => users'[v].status \in {"gone", "deletion_pending"}
                        /\ v # u /\ Restoring(v) /\ Owed(v) => contact'[v].at <= work[<<"chat", v>>].at
      BY <1>2, <2>9 DEF SentOnce
    <3>1. /\ contact[v].sent <= 1 /\ ~(contact[v].worker /\ contact[v].sent > 0)
          /\ Owed(v) => contact[v].status # "pending" /\ contact[v].at <= now
          /\ Restoring(v) => users[v].status \in {"gone", "deletion_pending"}
          /\ Restoring(v) /\ Owed(v) => contact[v].at <= work[<<"chat", v>>].at
      BY <1>1 DEF SentOnce
    <3>2. CASE v # u
      BY <2>5, <3>1, <3>2
    <3>3. CASE v = u
      <4>1. Restoring(u)
        BY <1>2, <1>3 DEF Restoring
      <4>2. Owed(u) => ~(c.at > at)
        <5>1. Owed(u) => contact[u].at <= at
          BY <1>3, <3>1, <3>3, <4>1
        <5>2. at \in Nat /\ contact[u].at \in Nat
          BY <1>1, <1>2, Reading, AccountBounds DEF WorkType, ContactType
        <5> HIDE DEF at
        <5> QED BY <2>3, <5>1, <5>2
      <4> HIDE DEF at
      <4> QED BY <2>3, <2>5, <3>1, <3>3, <4>2
    <3> QED BY <3>2, <3>3
  <2> QED BY <2>6, <2>7, <2>8, <2>10 DEF AccountsInv
<1> QED BY <1>4, <1>5

(* What an operation's end leaves of the others, and of those on their way back. *)
LEMMA EndLeaves ==
  ASSUME AccountsInv, NEW s \in A!Surfaces, NEW u \in A!Ids, A!Ends(s, u), story' = story
  PROVE  /\ work' \in [A!Surfaces \X A!Ids -> WorkType'] /\ work'[<<s, u>>].pc = "idle"
         /\ \A t \in A!Surfaces, v \in A!Ids :
              work'[<<t, v>>] = work[<<t, v>>] \/ work'[<<t, v>>].pc = "idle"
         /\ \A v \in A!Ids :
              Restoring(v)' => Restoring(v) /\ work'[<<"chat", v>>] = work[<<"chat", v>>]
<1>1. AccountsTyped
  BY DEF AccountsInv
<1>2. /\ work' \in [A!Surfaces \X A!Ids -> WorkType'] /\ work'[<<s, u>>] = A!Idle
      /\ \A t \in A!Surfaces, v \in A!Ids :
           <<t, v>> # <<s, u>> => work'[<<t, v>>] = work[<<t, v>>]
  BY <1>1, IdleTyped, WorkSet, SameProviders DEF A!Ends
<1>3. \A t \in A!Surfaces, v \in A!Ids :
        work'[<<t, v>>] = work[<<t, v>>] \/ work'[<<t, v>>].pc = "idle"
  <2> SUFFICES ASSUME NEW t \in A!Surfaces, NEW v \in A!Ids
               PROVE  work'[<<t, v>>] = work[<<t, v>>] \/ work'[<<t, v>>].pc = "idle"
    OBVIOUS
  <2>1. CASE <<t, v>> = <<s, u>>
    BY <1>2, <2>1, IdleTyped
  <2> QED BY <1>2, <2>1
<1>4. \A v \in A!Ids :
        Restoring(v)' => Restoring(v) /\ work'[<<"chat", v>>] = work[<<"chat", v>>]
  BY <1>3 DEF Restoring, A!Surfaces
<1> QED BY <1>2, <1>3, <1>4, IdleTyped

(* A new account: nobody had that id, and none came by the link before.     *)
LEMMA JoinKeeps ==
  ASSUME AccountsInv, NEW s \in A!Surfaces, NEW u \in A!Ids, A!Ends(s, u), users[u] = A!Gone,
         NEW via \in {"operator", "invite"}, users' = [users EXCEPT ![u] = A!NewUser(via)],
         UNCHANGED <<story, now, consents, contact, maint, asked>>,
         \/ via = "operator" /\ invites' = invites
            /\ \E o \in story.ops : o[1] = "cli"
         \/ /\ via = "invite" /\ invites.status = "open" /\ s = "chat"
            /\ invites' = [invites EXCEPT !.status = "used"] /\ invites # A!NoInvite
  PROVE  AccountsInv'
<1>1. AccountsTyped /\ DueWasAsked /\ SentOnce /\ Tended /\ InvitedOnce /\ ToldOnce
  BY DEF AccountsInv
<1>2. /\ users' \in [A!Ids -> UserType \cup {A!Gone}] /\ users'[u] = A!NewUser(via)
      /\ \A v \in A!Ids : v # u => users'[v] = users[v]
  BY <1>1, NewUserTyped, UserSet
<1>3. /\ users'[u] # A!Gone /\ users'[u].status = "active" /\ users'[u].via = via
      /\ users'[u].calls = 0 /\ users'[u].notices = 0 /\ ~users'[u].warned
  BY <1>2, NewUserTyped, GoneIsNone
<1>4. invites' \in InviteType /\ (via = "invite" => invites'.status = "used")
  BY <1>1 DEF AccountsTyped, InviteType, A!NoInvite
<1>5. /\ work' \in [A!Surfaces \X A!Ids -> WorkType'] /\ work'[<<s, u>>].pc = "idle"
      /\ \A t \in A!Surfaces, v \in A!Ids :
           work'[<<t, v>>] = work[<<t, v>>] \/ work'[<<t, v>>].pc = "idle"
      /\ \A v \in A!Ids :
           Restoring(v)' => Restoring(v) /\ work'[<<"chat", v>>] = work[<<"chat", v>>]
  BY EndLeaves
<1>6. AccountsTyped'
  BY <1>1, <1>2, <1>4, <1>5, SameProviders DEF AccountsTyped
<1>7. Tended'
  <2>1. \A v \in A!Ids : users'[v] # A!Gone => users'[v].calls + 1 < A!MaxCalls \/ users'[v] = users[v]
    BY <1>2, <1>3 DEF A!MaxCalls
  <2> QED BY <1>1, <1>5, <2>1 DEF Tended
<1>8. InvitedOnce'
  <2>1. \A v \in A!Ids : Invited(v)' => (v = u /\ via = "invite") \/ Invited(v)
    BY <1>2, <1>3 DEF Invited
  <2>2. CASE via = "operator"
    BY <1>1, <1>2, <2>1, <2>2 DEF InvitedOnce, Invited
  <2>3. CASE via = "invite"
    <3>1. \A v \in A!Ids : ~Invited(v)
      BY <1>1, <2>3 DEF InvitedOnce
    <3> QED BY <1>4, <2>1, <2>3, <3>1 DEF InvitedOnce
  <2> QED BY <2>2, <2>3
<1>9. ToldOnce'
  <2>1. maint.pc # "idle" => maint.rest \subseteq A!Ids /\ (maint.pc = "tell" => maint.to \in A!Ids)
    BY <1>1 DEF AccountsTyped, MaintType
  <2> QED BY <1>1, <1>2, <1>3, <2>1 DEF ToldOnce
<1>10. DueWasAsked'
  BY <1>1, <1>2, <1>3 DEF DueWasAsked
<1>11. SentOnce'
  <2> SUFFICES ASSUME \A o \in story.ops : o[1] # "cli", NEW v \in A!Ids, Restoring(v)'
               PROVE  users'[v].status \in {"gone", "deletion_pending"}
    BY <1>1, <1>5 DEF SentOnce, Owed
  <2>1. s = "chat"
    OBVIOUS
  <2>2. v # u
    BY <1>5, <2>1 DEF Restoring
  <2> QED BY <1>1, <1>2, <1>5, <2>2 DEF SentOnce
<1> QED BY <1>6, <1>7, <1>8, <1>9, <1>10, <1>11 DEF AccountsInv

(* A write that changes no account, message or request.                     *)
LEMMA QuietEndKeeps ==
  ASSUME AccountsInv, NEW s \in A!Surfaces, NEW u \in A!Ids,
         UNCHANGED <<story, now, users, contact, maint, asked>>,
         invites' \in InviteType, (\E v \in A!Ids : Invited(v)) => invites' = invites,
         consents' \in [A!Ids -> SUBSET A!Providers],
         work' \in [A!Surfaces \X A!Ids -> WorkType'],
         \A t \in A!Surfaces, v \in A!Ids :
           \/ work'[<<t, v>>] = work[<<t, v>>]
           \/ work'[<<t, v>>].pc = "idle"
           \/ /\ work'[<<t, v>>].pc = "rows" /\ work[<<t, v>>].pc = "rows"
              /\ work'[<<t, v>>].op = work[<<t, v>>].op
  PROVE  AccountsInv'
<1>1. AccountsTyped /\ DueWasAsked /\ SentOnce /\ Tended /\ InvitedOnce /\ ToldOnce
  BY DEF AccountsInv
<1>2. AccountsTyped'
  BY <1>1, SameProviders DEF AccountsTyped
<1>3. Tended'
  BY <1>1 DEF Tended
<1>4. InvitedOnce' /\ ToldOnce' /\ DueWasAsked'
  BY <1>1 DEF InvitedOnce, Invited, ToldOnce, DueWasAsked
<1>5. \A v \in A!Ids : Restoring(v)' => Restoring(v) /\ work'[<<"chat", v>>] = work[<<"chat", v>>]
  BY DEF Restoring, A!Surfaces
<1>6. SentOnce'
  BY <1>1, <1>5 DEF SentOnce, Owed
<1> QED BY <1>2, <1>3, <1>4, <1>6 DEF AccountsInv

LEMMA AddKeeps ==
  ASSUME AccountsInv, NEW s \in A!Surfaces, NEW u \in A!Ids, A!addUser(s, u)
  PROVE  AccountsInv'
<1>1. /\ A!Ends(s, u) /\ UNCHANGED <<story, now, invites, consents, contact, maint, asked>>
      /\ work[<<s, u>>].pc # "idle" /\ work[<<s, u>>].op \in A!OperatorOps
  BY DEF A!addUser, A!Writing, A!OperatorOps
<1>2. CASE users[u] = A!Gone
  BY <1>1, <1>2, JoinKeeps, ByOperator DEF A!addUser
<1>3. CASE users[u] # A!Gone
  <2>1. users' = users
    BY <1>3 DEF A!addUser
  <2>2. AccountsTyped
    BY DEF AccountsInv
  <2>3. invites' \in InviteType /\ consents' \in [A!Ids -> SUBSET A!Providers]
    BY <1>1, <2>2 DEF AccountsTyped
  <2> QED BY <1>1, <2>1, <2>3, EndLeaves, QuietEndKeeps
<1> QED BY <1>2, <1>3

LEMMA RegisterKeeps ==
  ASSUME AccountsInv, NEW s \in A!Surfaces, NEW u \in A!Ids, A!registerFromInvite(s, u)
  PROVE  AccountsInv'
<1>1. /\ A!Ends(s, u) /\ UNCHANGED <<story, now, consents, contact, maint, asked>>
      /\ work[<<s, u>>].pc # "idle" /\ work[<<s, u>>].op = "start"
  BY DEF A!registerFromInvite, A!Writing
<1>2. s = "chat"
  BY <1>1, ByOperator
<1>3. CASE A!Redeemable(work[<<s, u>>].at) /\ users[u] = A!Gone
  <2>1. invites.status = "open" /\ invites # A!NoInvite
    BY <1>3 DEF A!Redeemable, A!NoInvite
  <2> QED BY <1>1, <1>2, <1>3, <2>1, JoinKeeps DEF A!registerFromInvite
<1>4. CASE ~(A!Redeemable(work[<<s, u>>].at) /\ users[u] = A!Gone)
  <2>1. users' = users /\ invites' = invites
    BY <1>4 DEF A!registerFromInvite
  <2>2. AccountsTyped
    BY DEF AccountsInv
  <2>3. invites' \in InviteType /\ consents' \in [A!Ids -> SUBSET A!Providers]
    BY <1>1, <2>1, <2>2 DEF AccountsTyped
  <2> QED BY <1>1, <2>1, <2>3, EndLeaves, QuietEndKeeps
<1> QED BY <1>3, <1>4

LEMMA InviteKeeps ==
  ASSUME AccountsInv, NEW s \in A!Surfaces, NEW u \in A!Ids, A!createRegistrationInvite(s, u)
  PROVE  AccountsInv'
<1>1. /\ A!Ends(s, u) /\ UNCHANGED <<story, now, users, consents, contact, maint, asked>>
      /\ work[<<s, u>>].pc = "write" /\ invites = A!NoInvite
      /\ invites' = [status |-> "open", expires |-> work[<<s, u>>].at + InviteTtl]
  BY DEF A!createRegistrationInvite, A!Writing
<1>2. AccountsTyped /\ InvitedOnce
  BY DEF AccountsInv
<1>3. work[<<s, u>>].at \in 0 .. LastTime
  BY <1>1, <1>2, Reading DEF WorkType
<1>4. invites' \in InviteType
  BY <1>1, <1>3, AccountBounds DEF InviteType
<1>5. \A v \in A!Ids : ~Invited(v)
  BY <1>1, <1>2 DEF InvitedOnce, A!NoInvite
<1>6. consents' \in [A!Ids -> SUBSET A!Providers]
  BY <1>1, <1>2 DEF AccountsTyped
<1> QED BY <1>1, <1>4, <1>5, <1>6, EndLeaves, QuietEndKeeps

LEMMA ConsentRowKeeps ==
  ASSUME AccountsInv, NEW s \in A!Surfaces, NEW u \in A!Ids, NEW p \in A!Providers,
         A!ConsentRow(s, u, p)
  PROVE  AccountsInv'
<1> DEFINE w == work[<<s, u>>]
           r == [w EXCEPT !.rest = w.rest \ {p}]
<1>1. AccountsTyped /\ w \in WorkType /\ w.pc = "rows"
  BY Reading DEF AccountsInv, A!ConsentRow
<1>2. UNCHANGED <<story, now, users, invites, contact, maint, asked>>
  BY DEF A!ConsentRow
<1>3. consents' \in [A!Ids -> SUBSET A!Providers] /\ invites' \in InviteType
  BY <1>1, <1>2 DEF A!ConsentRow, AccountsTyped
<1>4. CASE A!Ends(s, u)
  BY <1>2, <1>3, <1>4, EndLeaves, QuietEndKeeps
<1>5. CASE work' = [work EXCEPT ![<<s, u>>] = r]
  <2>1. r \in WorkType /\ r.pc = "rows" /\ r.op = w.op
    BY <1>1 DEF WorkType
  <2> HIDE DEF r
  <2>2. /\ work' \in [A!Surfaces \X A!Ids -> WorkType'] /\ work'[<<s, u>>] = r
        /\ \A t \in A!Surfaces, v \in A!Ids :
             <<t, v>> # <<s, u>> => work'[<<t, v>>] = work[<<t, v>>]
    BY <1>1, <1>2, <1>5, <2>1, WorkSet, SameProviders
  <2>3. \A t \in A!Surfaces, v \in A!Ids :
          \/ work'[<<t, v>>] = work[<<t, v>>]
          \/ /\ work'[<<t, v>>].pc = "rows" /\ work[<<t, v>>].pc = "rows"
             /\ work'[<<t, v>>].op = work[<<t, v>>].op
    <3> SUFFICES ASSUME NEW t \in A!Surfaces, NEW v \in A!Ids, <<t, v>> = <<s, u>>
                 PROVE  /\ work'[<<t, v>>].pc = "rows" /\ work[<<t, v>>].pc = "rows"
                        /\ work'[<<t, v>>].op = work[<<t, v>>].op
      BY <2>2
    <3> QED BY <1>1, <2>1, <2>2
  <2> QED BY <1>2, <1>3, <2>2, <2>3, QuietEndKeeps
<1> QED BY <1>4, <1>5 DEF A!ConsentRow

LEMMA LookKeeps ==
  ASSUME AccountsInv, NEW s \in A!Surfaces, NEW u \in A!Ids, A!transcribe(s, u)
  PROVE  AccountsInv'
<1> DEFINE w == work[<<s, u>>]
           r == [w EXCEPT !.pc = "send"]
<1>1. /\ AccountsTyped /\ Tended /\ maint \in MaintType /\ w \in WorkType /\ w.pc = "transcribe"
      /\ UNCHANGED <<story, now, users, invites, consents, contact, maint, asked>>
  BY Reading DEF AccountsInv, AccountsTyped, A!transcribe
<1>2. CASE A!Ends(s, u)
  BY <1>1, <1>2, IdleTyped, WorkGoesOn DEF A!Ends
<1>3. CASE work' = [work EXCEPT ![<<s, u>>] = r]
  <2>1. /\ <<s, u, w.op>> \in story.ops /\ w.op = "voice"
        /\ users[u] # A!Gone => users[u].calls + 1 < A!MaxCalls
    BY <1>1 DEF Tended
  <2>2. r \in WorkType /\ r.pc = "send" /\ r.op = w.op
    BY <1>1 DEF WorkType
  <2> HIDE DEF r
  <2> QED BY <1>1, <1>3, <2>1, <2>2, WorkGoesOn
<1> QED BY <1>2, <1>3 DEF A!transcribe, A!Goes

LEMMA SendAudioKeeps ==
  ASSUME AccountsInv, NEW s \in A!Surfaces, NEW u \in A!Ids, A!SendAudio(s, u)
  PROVE  AccountsInv'
<1>1. /\ AccountsTyped /\ DueWasAsked /\ SentOnce /\ Tended
      /\ work[<<s, u>>].pc = "send" /\ A!Ends(s, u)
      /\ UNCHANGED <<story, now, invites, consents, contact, maint, asked>>
  BY DEF AccountsInv, A!SendAudio
<1>2. /\ work[<<s, u>>].op = "voice" /\ s = "chat"
      /\ users[u] # A!Gone => users[u].calls + 1 < A!MaxCalls
  BY <1>1, ByOperator DEF Tended
<1>3. CASE users' = users
  <2>1. invites' \in InviteType /\ consents' \in [A!Ids -> SUBSET A!Providers]
    BY <1>1 DEF AccountsTyped
  <2> QED BY <1>1, <1>3, <2>1, EndLeaves, QuietEndKeeps
<1>4. CASE users' # users
  <2> DEFINE entry == [users[u] EXCEPT !.calls = @ + 1]
  <2>1. users[u] # A!Gone /\ users' = [users EXCEPT ![u] = entry] /\ users[u] \in UserType
    BY <1>1, <1>4, Reading DEF A!SendAudio
  <2>2. users[u].calls + 1 \in 0 .. A!MaxCalls
    BY <1>2, <2>1 DEF UserType, A!MaxCalls
  <2>3. /\ entry \in UserType /\ entry.status = users[u].status /\ entry.via = users[u].via
        /\ entry.warned = users[u].warned /\ entry.notices = users[u].notices
        /\ entry.due = users[u].due
    BY <2>1, <2>2 DEF UserType
  <2> HIDE DEF entry
  <2>4. /\ users' \in [A!Ids -> UserType \cup {A!Gone}] /\ users'[u] = entry
        /\ \A v \in A!Ids : v # u => users'[v] = users[v]
    BY <1>1, <2>1, <2>3, UserSet
  <2>5. \A v \in A!Ids :
          /\ users'[v] # A!Gone <=> users[v] # A!Gone
          /\ users'[v].status = users[v].status /\ users'[v].due = users[v].due
          /\ users[v] # A!Gone =>
               /\ users'[v].via = users[v].via /\ users'[v].warned = users[v].warned
               /\ users'[v].notices = users[v].notices
               /\ users'[v].calls = users[v].calls \/ (v = u /\ s = "chat")
    BY <1>2, <2>1, <2>3, <2>4, GoneIsNone
  <2>6. Tended' /\ InvitedOnce' /\ ToldOnce' /\ work' \in [A!Surfaces \X A!Ids -> WorkType']
    BY <1>1, <2>5, Unaffected
  <2>7. AccountsTyped'
    BY <1>1, <2>4, <2>6, SameProviders DEF AccountsTyped
  <2>8. DueWasAsked'
    BY <1>1, <2>5 DEF DueWasAsked
  <2>9. \A v \in A!Ids : Restoring(v)' => Restoring(v) /\ work'[<<"chat", v>>] = work[<<"chat", v>>]
    BY <1>1, EndLeaves
  <2>10. SentOnce'
    BY <1>1, <2>5, <2>9 DEF SentOnce, Owed
  <2> QED BY <2>6, <2>7, <2>8, <2>10 DEF AccountsInv
<1> QED BY <1>3, <1>4
-----------------------------------------------------------------------------
(* A step of the maintenance that leaves who is there and what they did.     *)
LEMMA TickKeeps ==
  ASSUME AccountsInv, UNCHANGED <<story, now, invites, consents, contact, work, asked>>,
         maint' \in MaintType, maint'.left = maint.left,
         maint'.pc # "idle" => maint'.at <= now,
         users' \in [A!Ids -> UserType \cup {A!Gone}],
         \A v \in A!Ids :
           /\ users'[v] # A!Gone <=> users[v] # A!Gone
           /\ users'[v].status = users[v].status
           /\ users[v] # A!Gone => /\ users'[v].due = users[v].due /\ users'[v].via = users[v].via
                                   /\ users'[v].calls = users[v].calls,
         ToldOnce'
  PROVE  AccountsInv'
<1>1. AccountsTyped /\ DueWasAsked /\ SentOnce /\ Tended /\ InvitedOnce
  BY DEF AccountsInv
<1>2. AccountsTyped'
  BY <1>1, SameProviders DEF AccountsTyped
<1>3. Tended'
  BY <1>1 DEF Tended
<1>4. InvitedOnce'
  BY <1>1 DEF InvitedOnce, Invited
<1>5. DueWasAsked'
  <2>1. \A v \in A!Ids : users[v].status = "deletion_pending" => users[v] # A!Gone
    BY GoneIsNone
  <2> QED BY <1>1, <2>1 DEF DueWasAsked
<1>6. SentOnce'
  BY <1>1 DEF SentOnce, Owed, Restoring
<1> QED BY <1>2, <1>3, <1>4, <1>5, <1>6 DEF AccountsInv

LEMMA MaintFields ==
  ASSUME AccountsInv
  PROVE  /\ maint \in MaintType /\ maint.left \in SUBSET A!Operation /\ maint.restarts \in Nat
         /\ now \in 0 .. LastTime
         /\ maint.pc # "idle" => /\ maint.at \in 0 .. LastTime /\ maint.at <= now
                                 /\ maint.rest \in SUBSET A!Ids
         /\ maint.pc = "tell" => maint.to \in A!Ids
         /\ maint.pc \in {"idle", "finalize", "warn", "tell"}
BY DEF AccountsInv, AccountsTyped, MaintType, Tended

LEMMA ListExpiredKeeps ==
  ASSUME AccountsInv, A!ListExpired
  PROVE  AccountsInv'
<1>1. maint \in MaintType /\ maint.left \in SUBSET A!Operation /\ maint.restarts \in Nat
      /\ now \in 0 .. LastTime
  BY MaintFields
<1> DEFINE rest == {u \in A!Ids : users[u].status = "deletion_pending" /\ users[u].due <= now}
<1>2. maint' = [pc |-> "finalize", at |-> now, rest |-> rest, restarts |-> maint.restarts,
                left |-> maint.left]
      /\ UNCHANGED <<story, now, users, invites, consents, contact, work, asked>>
  BY DEF A!ListExpired
<1>3. rest \in SUBSET A!Ids
  OBVIOUS
<1> HIDE DEF rest
<1>4. /\ maint' \in MaintType /\ maint'.left = maint.left /\ maint'.pc = "finalize"
      /\ maint'.at <= now
  BY <1>1, <1>2, <1>3, AccountBounds DEF MaintType
<1>5. ToldOnce' /\ users' \in [A!Ids -> UserType \cup {A!Gone}]
  BY <1>2, <1>4 DEF AccountsInv, ToldOnce, AccountsTyped
<1> QED BY <1>2, <1>4, <1>5, TickKeeps

LEMMA ListSpendersKeeps ==
  ASSUME AccountsInv, A!ListSpenders
  PROVE  AccountsInv'
<1>1. /\ maint \in MaintType /\ maint.left \in SUBSET A!Operation /\ maint.restarts \in Nat
      /\ maint.pc = "finalize" /\ maint.at <= now
  BY MaintFields DEF A!ListSpenders
<1> DEFINE rest == {u \in A!Ids : A!Active(u) /\ users[u].calls > 0 /\ ~users[u].warned}
<1>2. maint' = [maint EXCEPT !.pc = "warn", !.rest = rest]
      /\ UNCHANGED <<story, now, users, invites, consents, contact, work, asked>>
  BY DEF A!ListSpenders
<1>3. rest \in SUBSET A!Ids /\ \A u \in rest : ~users[u].warned
  OBVIOUS
<1> HIDE DEF rest
<1>4. /\ maint' \in MaintType /\ maint'.left = maint.left /\ maint'.pc = "warn"
      /\ maint'.at = maint.at /\ maint'.rest = rest
  BY <1>1, <1>2, <1>3 DEF MaintType
<1>5. ToldOnce' /\ users' \in [A!Ids -> UserType \cup {A!Gone}]
  BY <1>2, <1>3, <1>4 DEF AccountsInv, ToldOnce, AccountsTyped
<1> QED BY <1>1, <1>2, <1>4, <1>5, TickKeeps

LEMMA EndTickKeeps ==
  ASSUME AccountsInv, A!EndTick
  PROVE  AccountsInv'
<1>1. maint \in MaintType /\ maint.left \in SUBSET A!Operation /\ maint.restarts \in Nat
  BY MaintFields
<1>2. /\ maint' = [pc |-> "idle", restarts |-> maint.restarts, left |-> maint.left]
      /\ UNCHANGED <<story, now, users, invites, consents, contact, work, asked>>
  BY DEF A!EndTick
<1>3. maint' \in MaintType /\ maint'.left = maint.left /\ maint'.pc = "idle"
  BY <1>1, <1>2 DEF MaintType
<1>4. ToldOnce' /\ users' \in [A!Ids -> UserType \cup {A!Gone}]
  BY <1>2, <1>3 DEF AccountsInv, ToldOnce, AccountsTyped
<1> QED BY <1>2, <1>3, <1>4, TickKeeps

(* The mark goes first: whoever is still to be marked is not, the next notice *)
(* is owed to the one marked last.                                           *)
LEMMA CheckSpendKeeps ==
  ASSUME AccountsInv, NEW u \in A!Ids, A!checkAiSpendWarnings(u)
  PROVE  AccountsInv'
<1>1. /\ maint \in MaintType /\ maint.pc = "warn" /\ maint.at \in 0 .. LastTime
      /\ maint.at <= now /\ maint.rest \in SUBSET A!Ids /\ u \in maint.rest
      /\ maint.left \in SUBSET A!Operation /\ maint.restarts \in Nat
  BY MaintFields DEF A!checkAiSpendWarnings
<1>2. AccountsTyped /\ ToldOnce
      /\ UNCHANGED <<story, now, invites, consents, contact, work, asked>>
  BY DEF AccountsInv, A!checkAiSpendWarnings
<1>3. CASE users[u] = A!Gone
  <2>1. maint' = [maint EXCEPT !.rest = maint.rest \ {u}] /\ users' = users
    BY <1>3 DEF A!checkAiSpendWarnings
  <2>2. /\ maint' \in MaintType /\ maint'.left = maint.left /\ maint'.pc = "warn"
        /\ maint'.at = maint.at /\ maint'.rest = maint.rest \ {u}
    BY <1>1, <2>1 DEF MaintType
  <2>3. ToldOnce' /\ users' \in [A!Ids -> UserType \cup {A!Gone}]
    BY <1>1, <1>2, <2>1, <2>2 DEF ToldOnce, AccountsTyped
  <2> QED BY <1>1, <1>2, <2>1, <2>2, <2>3, TickKeeps
<1>4. CASE users[u] # A!Gone
  <2> DEFINE entry == [users[u] EXCEPT !.warned = TRUE]
  <2>1. /\ users' = [users EXCEPT ![u] = entry]
        /\ maint' = [pc |-> "tell", to |-> u, at |-> maint.at, rest |-> maint.rest \ {u},
                     restarts |-> maint.restarts, left |-> maint.left]
    BY <1>4 DEF A!checkAiSpendWarnings, A!markSpendWarning
  <2>2. users[u] \in UserType
    BY <1>2, <1>4, Reading
  <2>3. /\ entry \in UserType /\ entry.status = users[u].status /\ entry.due = users[u].due
        /\ entry.via = users[u].via /\ entry.calls = users[u].calls /\ entry.warned
        /\ entry.notices = users[u].notices
    BY <2>2 DEF UserType
  <2>4. /\ maint' \in MaintType /\ maint'.left = maint.left /\ maint'.pc = "tell"
        /\ maint'.at = maint.at /\ maint'.rest = maint.rest \ {u} /\ maint'.to = u
    BY <1>1, <2>1 DEF MaintType
  <2> HIDE DEF entry
  <2>5. /\ users' \in [A!Ids -> UserType \cup {A!Gone}] /\ users'[u] = entry
        /\ \A v \in A!Ids : v # u => users'[v] = users[v]
    BY <1>2, <2>1, <2>3, UserSet
  <2>6. users'[u] # A!Gone
    BY <2>3, <2>5, GoneIsNone
  <2>7. ToldOnce'
    <3>1. ~users[u].warned /\ users[u].notices = 0
      BY <1>1, <1>2, <1>4 DEF ToldOnce
    <3>2. \A v \in A!Ids : users'[v] # A!Gone =>
            users'[v].notices <= 1 /\ (~users'[v].warned => users'[v].notices = 0)
      BY <1>2, <2>3, <2>5, <3>1 DEF ToldOnce
    <3>3. \A v \in maint'.rest : users'[v] # A!Gone => ~users'[v].warned
      BY <1>1, <1>2, <2>4, <2>5 DEF ToldOnce
    <3>4. users'[maint'.to] # A!Gone /\ users'[maint'.to].warned /\ users'[maint'.to].notices = 0
      BY <2>3, <2>4, <2>5, <2>6, <3>1
    <3> QED BY <2>4, <3>2, <3>3, <3>4 DEF ToldOnce
  <2>8. \A v \in A!Ids :
          /\ users'[v] # A!Gone <=> users[v] # A!Gone
          /\ users'[v].status = users[v].status
          /\ users[v] # A!Gone => /\ users'[v].due = users[v].due /\ users'[v].via = users[v].via
                                  /\ users'[v].calls = users[v].calls
    BY <1>4, <2>3, <2>5, <2>6
  <2> QED BY <1>1, <1>2, <2>4, <2>5, <2>7, <2>8, TickKeeps
<1> QED BY <1>3, <1>4

LEMMA TellSpendKeeps ==
  ASSUME AccountsInv, A!TellSpend
  PROVE  AccountsInv'
<1> DEFINE u == maint.to
<1>1. /\ maint \in MaintType /\ maint.pc = "tell" /\ maint.at \in 0 .. LastTime
      /\ maint.at <= now /\ maint.rest \in SUBSET A!Ids /\ u \in A!Ids
      /\ maint.left \in SUBSET A!Operation /\ maint.restarts \in Nat
  BY MaintFields DEF A!TellSpend
<1>2. /\ AccountsTyped /\ ToldOnce
      /\ UNCHANGED <<story, now, invites, consents, contact, work, asked>>
      /\ users[u] # A!Gone /\ users[u].warned /\ users[u].notices = 0
  BY <1>1 DEF AccountsInv, A!TellSpend, ToldOnce
<1> DEFINE entry == [users[u] EXCEPT !.notices = 1]
<1>3. /\ users' = [users EXCEPT ![u] = entry]
      /\ maint' = [pc |-> "warn", at |-> maint.at, rest |-> maint.rest,
                   restarts |-> maint.restarts, left |-> maint.left]
  <2>1. users[u].notices + 1 = 1
    BY <1>2
  <2>2. users' = [users EXCEPT ![u] = [users[u] EXCEPT !.notices = users[u].notices + 1]]
    BY <1>2 DEF A!TellSpend
  <2> QED BY <2>1, <2>2 DEF A!TellSpend
<1>4. users[u] \in UserType
  BY <1>1, <1>2, Reading
<1>5. /\ entry \in UserType /\ entry.status = users[u].status /\ entry.due = users[u].due
      /\ entry.via = users[u].via /\ entry.calls = users[u].calls /\ entry.warned = users[u].warned
      /\ entry.notices = 1
  BY <1>2, <1>4 DEF UserType
<1>6. /\ maint' \in MaintType /\ maint'.left = maint.left /\ maint'.pc = "warn"
      /\ maint'.at = maint.at /\ maint'.rest = maint.rest
  BY <1>1, <1>3 DEF MaintType
<1> HIDE DEF entry, u
<1>7. /\ users' \in [A!Ids -> UserType \cup {A!Gone}] /\ users'[u] = entry
      /\ \A v \in A!Ids : v # u => users'[v] = users[v]
  BY <1>1, <1>2, <1>3, <1>5, UserSet
<1>8. users'[u] # A!Gone
  BY <1>5, <1>7, GoneIsNone
<1>9. ToldOnce'
  <2>1. \A v \in A!Ids : users'[v] # A!Gone =>
          users'[v].notices <= 1 /\ (~users'[v].warned => users'[v].notices = 0)
    <3> SUFFICES ASSUME NEW v \in A!Ids, users'[v] # A!Gone
                 PROVE  users'[v].notices <= 1 /\ (~users'[v].warned => users'[v].notices = 0)
      OBVIOUS
    <3>1. CASE v = u
      <4>1. users'[v].notices = 1 /\ users'[v].warned
        BY <1>2, <1>5, <1>7, <3>1
      <4>2. 1 <= 1
        OBVIOUS
      <4> QED BY <4>1, <4>2
    <3>2. CASE v # u
      BY <1>2, <1>7, <3>2 DEF ToldOnce
    <3> QED BY <3>1, <3>2
  <2>2. \A v \in maint'.rest : users'[v] # A!Gone => ~users'[v].warned
    BY <1>1, <1>2, <1>6, <1>7, <1>5 DEF ToldOnce
  <2> QED BY <1>6, <2>1, <2>2 DEF ToldOnce
<1>10. \A v \in A!Ids :
         /\ users'[v] # A!Gone <=> users[v] # A!Gone
         /\ users'[v].status = users[v].status
         /\ users[v] # A!Gone => /\ users'[v].due = users[v].due /\ users'[v].via = users[v].via
                                 /\ users'[v].calls = users[v].calls
  BY <1>2, <1>5, <1>7, <1>8
<1> QED BY <1>1, <1>2, <1>6, <1>7, <1>9, <1>10, TickKeeps

(* The end of an account takes its consents and its request with it; what is *)
(* on its way is still on its way.                                           *)
LEMMA FinalizeKeeps ==
  ASSUME AccountsInv, NEW u \in A!Ids, A!finalizeExpiredDeletions(u)
  PROVE  AccountsInv'
<1>1. /\ maint \in MaintType /\ maint.pc = "finalize" /\ maint.at \in 0 .. LastTime
      /\ maint.at <= now /\ maint.rest \in SUBSET A!Ids
      /\ maint.left \in SUBSET A!Operation /\ maint.restarts \in Nat
      /\ now \in 0 .. LastTime
  BY MaintFields DEF A!finalizeExpiredDeletions
<1>2. /\ AccountsTyped /\ DueWasAsked /\ SentOnce /\ Tended /\ InvitedOnce /\ ToldOnce
      /\ UNCHANGED <<story, now, invites, work>>
      /\ maint' = [maint EXCEPT !.rest = maint.rest \ {u}]
  BY DEF AccountsInv, A!finalizeExpiredDeletions
<1>3. /\ maint' \in MaintType /\ maint'.left = maint.left /\ maint'.pc = "finalize"
      /\ maint'.at = maint.at
  BY <1>1, <1>2 DEF MaintType
<1>4. CASE ~A!Expired(u, maint.at)
  <2>1. UNCHANGED <<users, consents, contact, asked>>
    BY <1>4 DEF A!finalizeExpiredDeletions
  <2>2. ToldOnce' /\ users' \in [A!Ids -> UserType \cup {A!Gone}]
    BY <1>2, <1>3, <2>1 DEF ToldOnce, AccountsTyped
  <2> QED BY <1>1, <1>2, <1>3, <2>1, <2>2, TickKeeps
<1>5. CASE A!Expired(u, maint.at)
  <2> DEFINE c == [status |-> "none", at |-> 0, worker |-> contact[u].worker,
                   sent |-> contact[u].sent]
  <2>1. /\ users' = [users EXCEPT ![u] = A!Gone] /\ consents' = [consents EXCEPT ![u] = {}]
        /\ contact' = [contact EXCEPT ![u] = c] /\ asked' = asked \ {u}
    BY <1>5 DEF A!finalizeExpiredDeletions, A!NoContact
  <2>2. /\ c \in ContactType /\ c.status = "none" /\ c.at = 0
        /\ c.worker = contact[u].worker /\ c.sent = contact[u].sent
    BY <1>2, Reading DEF ContactType
  <2> HIDE DEF c
  <2>3. /\ users' \in [A!Ids -> UserType \cup {A!Gone}] /\ users'[u] = A!Gone
        /\ \A v \in A!Ids : v # u => users'[v] = users[v]
        /\ contact' \in [A!Ids -> ContactType] /\ contact'[u] = c
        /\ \A v \in A!Ids : v # u => contact'[v] = contact[v]
    BY <1>2, <2>1, <2>2, UserSet, ContactSet
  <2>4. AccountsTyped'
    BY <1>2, <1>3, <2>1, <2>3, SameProviders DEF AccountsTyped
  <2>5. Tended'
    BY <1>1, <1>2, <1>3, <2>3 DEF Tended
  <2>6. InvitedOnce'
    BY <1>2, <2>3 DEF InvitedOnce, Invited
  <2>7. ToldOnce'
    BY <1>2, <1>3, <2>3 DEF ToldOnce
  <2>8. DueWasAsked'
    BY <1>2, <2>1, <2>3, GoneIsNone DEF DueWasAsked
  <2>9. SentOnce'
    <3>1. \A v \in A!Ids : /\ Owed(v)' <=> Owed(v)
                           /\ Restoring(v)' <=> Restoring(v)
                           /\ contact'[v].sent = contact[v].sent
                           /\ contact'[v].worker = contact[v].worker
      BY <1>2, <2>2, <2>3 DEF Owed, Restoring
    <3>2. 0 <= now
      BY <1>1, AccountBounds
    <3>3. Restoring(u) => 0 <= work[<<"chat", u>>].at
      BY <1>2, Reading, AccountBounds DEF Restoring, WorkType, A!Surfaces
    <3>4. users'[u].status = "gone"
      BY <2>3, GoneIsNone
    <3> SUFFICES ASSUME \A o \in story.ops : o[1] # "cli", NEW v \in A!Ids
                 PROVE  /\ contact'[v].sent <= 1 /\ ~(contact'[v].worker /\ contact'[v].sent > 0)
                        /\ Owed(v) => contact'[v].status # "pending" /\ contact'[v].at <= now
                        /\ Restoring(v) => users'[v].status \in {"gone", "deletion_pending"}
                        /\ Restoring(v) /\ Owed(v) => contact'[v].at <= work[<<"chat", v>>].at
      BY <1>2, <3>1 DEF SentOnce
    <3>5. /\ contact[v].sent <= 1 /\ ~(contact[v].worker /\ contact[v].sent > 0)
          /\ Owed(v) => contact[v].status # "pending" /\ contact[v].at <= now
          /\ Restoring(v) => users[v].status \in {"gone", "deletion_pending"}
          /\ Restoring(v) /\ Owed(v) => contact[v].at <= work[<<"chat", v>>].at
      BY <1>2 DEF SentOnce
    <3>6. CASE v = u
      BY <2>2, <2>3, <3>1, <3>2, <3>3, <3>4, <3>5, <3>6
    <3>7. CASE v # u
      BY <2>3, <3>5, <3>7
    <3> QED BY <3>6, <3>7
  <2> QED BY <2>4, <2>5, <2>6, <2>7, <2>8, <2>9 DEF AccountsInv
<1> QED BY <1>4, <1>5
-----------------------------------------------------------------------------
(* The message planned for a user.                                          *)
SentBy(u, c) ==
  (\A o \in story.ops : o[1] # "cli") =>
    /\ c.sent <= 1 /\ ~(c.worker /\ c.sent > 0)
    /\ c.worker \/ c.sent > 0 =>
         /\ c.status # "pending" /\ c.at <= now
         /\ Restoring(u) => c.at <= work[<<"chat", u>>].at

LEMMA ContactStep ==
  ASSUME AccountsInv, NEW u \in A!Ids, NEW c \in ContactType,
         contact' = [contact EXCEPT ![u] = c],
         UNCHANGED <<story, now, users, invites, consents, work, maint, asked>>,
         SentBy(u, c)
  PROVE  AccountsInv'
<1>1. AccountsTyped /\ DueWasAsked /\ SentOnce /\ Tended /\ InvitedOnce /\ ToldOnce
  BY DEF AccountsInv
<1>2. /\ contact' \in [A!Ids -> ContactType] /\ contact'[u] = c
      /\ \A v \in A!Ids : v # u => contact'[v] = contact[v]
  BY <1>1, ContactSet
<1>3. AccountsTyped'
  BY <1>1, <1>2, SameProviders DEF AccountsTyped
<1>4. Tended' /\ InvitedOnce' /\ ToldOnce' /\ DueWasAsked'
  BY <1>1 DEF Tended, InvitedOnce, Invited, ToldOnce, DueWasAsked
<1>5. SentOnce'
  <2> SUFFICES ASSUME \A o \in story.ops : o[1] # "cli", NEW v \in A!Ids
               PROVE  /\ contact'[v].sent <= 1 /\ ~(contact'[v].worker /\ contact'[v].sent > 0)
                      /\ Owed(v)' => contact'[v].status # "pending" /\ contact'[v].at <= now
                      /\ Restoring(v) => users[v].status \in {"gone", "deletion_pending"}
                      /\ Restoring(v) /\ Owed(v)' => contact'[v].at <= work[<<"chat", v>>].at
    BY DEF SentOnce, Restoring
  <2> QED BY <1>1, <1>2 DEF SentOnce, Owed, SentBy
<1> QED BY <1>3, <1>4, <1>5 DEF AccountsInv

LEMMA PlanKeeps ==
  ASSUME AccountsInv, NEW u \in A!Ids, A!Plan(u)
  PROVE  AccountsInv'
<1> DEFINE c == [contact[u] EXCEPT !.status = "pending", !.at = now + 1]
<1>1. contact[u] \in ContactType /\ now \in Nat
  BY Reading, AccountBounds DEF AccountsInv, AccountsTyped
<1>2. /\ contact[u].sent = 0 /\ ~contact[u].worker
      /\ contact' = [contact EXCEPT ![u] = c]
      /\ UNCHANGED <<story, now, users, invites, consents, work, maint, asked>>
  BY DEF A!Plan
<1>3. c \in ContactType /\ c.sent = contact[u].sent /\ c.worker = contact[u].worker
  <2>1. now + 1 \in Nat
    BY <1>1
  <2> QED BY <1>1, <2>1 DEF ContactType
<1> HIDE DEF c
<1>4. SentBy(u, c)
  BY <1>2, <1>3 DEF SentBy
<1> QED BY <1>2, <1>3, <1>4, ContactStep

LEMMA ClaimKeeps ==
  ASSUME AccountsInv, NEW u \in A!Ids, A!Claim(u)
  PROVE  AccountsInv'
<1> DEFINE c == [contact[u] EXCEPT !.status = "processing", !.worker = TRUE]
<1>1. AccountsTyped /\ SentOnce /\ contact[u] \in ContactType /\ now \in Nat
  BY Reading, AccountBounds DEF AccountsInv, AccountsTyped
<1>2. /\ contact[u].status = "pending" /\ contact[u].at <= now /\ A!Active(u)
      /\ contact' = [contact EXCEPT ![u] = c]
      /\ UNCHANGED <<story, now, users, invites, consents, work, maint, asked>>
  BY DEF A!Claim
<1>3. /\ c \in ContactType /\ c.sent = contact[u].sent /\ c.worker /\ c.at = contact[u].at
      /\ c.status = "processing"
  BY <1>1 DEF ContactType
<1> HIDE DEF c
<1>4. (\A o \in story.ops : o[1] # "cli") => ~Restoring(u) /\ ~Owed(u)
  BY <1>1, <1>2 DEF SentOnce, A!Active
<1>5. contact[u].sent \in Nat
  BY <1>1 DEF ContactType
<1>6. (\A o \in story.ops : o[1] # "cli") => c.sent = 0
  BY <1>3, <1>4, <1>5 DEF Owed
<1>7. SentBy(u, c)
  BY <1>2, <1>3, <1>4, <1>6 DEF SentBy
<1> QED BY <1>2, <1>3, <1>7, ContactStep

LEMMA DeliverKeeps ==
  ASSUME AccountsInv, NEW u \in A!Ids, A!Deliver(u)
  PROVE  AccountsInv'
<1> DEFINE c == [contact[u] EXCEPT !.worker = FALSE, !.sent = contact[u].sent + 1,
                   !.status = IF contact[u].status = "processing" THEN "sent"
                              ELSE contact[u].status]
<1>1. AccountsTyped /\ SentOnce /\ contact[u] \in ContactType /\ now \in Nat
  BY Reading, AccountBounds DEF AccountsInv, AccountsTyped
<1>2. /\ contact[u].worker /\ contact' = [contact EXCEPT ![u] = c]
      /\ UNCHANGED <<story, now, users, invites, consents, work, maint, asked>>
  BY <1>1 DEF A!Deliver, AccountsTyped
<1>3. /\ c \in ContactType /\ c.sent = contact[u].sent + 1 /\ c.worker = FALSE
      /\ c.at = contact[u].at /\ (c.status = "pending" => contact[u].status = "pending")
  <2>1. /\ contact[u].sent + 1 \in Nat
        /\ (IF contact[u].status = "processing" THEN "sent" ELSE contact[u].status)
             \in {"none", "pending", "processing", "suppressed", "sent"}
    BY <1>1 DEF ContactType
  <2> QED BY <1>1, <2>1 DEF ContactType
<1> HIDE DEF c
<1>4. (\A o \in story.ops : o[1] # "cli") =>
        /\ ~(contact[u].sent > 0) /\ contact[u].status # "pending" /\ contact[u].at <= now
        /\ Restoring(u) => contact[u].at <= work[<<"chat", u>>].at
  BY <1>1, <1>2 DEF SentOnce, Owed
<1>5. contact[u].sent \in Nat
  BY <1>1 DEF ContactType
<1>6. SentBy(u, c)
  BY <1>3, <1>4, <1>5 DEF SentBy
<1> QED BY <1>2, <1>3, <1>6, ContactStep
-----------------------------------------------------------------------------
LEMMA TimeKeeps ==
  ASSUME AccountsInv, A!Tick
  PROVE  AccountsInv'
<1>1. /\ AccountsTyped /\ DueWasAsked /\ SentOnce /\ Tended /\ InvitedOnce /\ ToldOnce
      /\ now \in Nat /\ now' = now + 1 /\ now' \in 0 .. LastTime
      /\ UNCHANGED <<story, users, invites, consents, contact, work, maint, asked>>
  BY AccountBounds DEF AccountsInv, AccountsTyped, A!Tick
<1>2. AccountsTyped'
  BY <1>1, SameProviders DEF AccountsTyped
<1>3. \A x \in Nat : x <= now => x <= now'
  BY <1>1
<1>4. Tended'
  <2>1. maint.pc # "idle" => maint.at \in Nat
    BY MaintFields, AccountBounds
  <2>2. \A s \in A!Surfaces, u \in A!Ids : work[<<s, u>>].pc = "write" => work[<<s, u>>].at \in Nat
    <3> SUFFICES ASSUME NEW s \in A!Surfaces, NEW u \in A!Ids, work[<<s, u>>].pc = "write"
                 PROVE  work[<<s, u>>].at \in Nat
      OBVIOUS
    <3>1. work[<<s, u>>] \in WorkType
      BY <1>1, Reading
    <3>2. work[<<s, u>>].at \in 0 .. LastTime
      BY <3>1 DEF WorkType
    <3> QED BY <3>2, AccountBounds
  <2> QED BY <1>1, <1>3, <2>1, <2>2 DEF Tended
<1>5. InvitedOnce' /\ ToldOnce' /\ DueWasAsked'
  BY <1>1 DEF InvitedOnce, Invited, ToldOnce, DueWasAsked
<1>6. SentOnce'
  <2>1. \A u \in A!Ids : contact[u].at \in Nat
    BY <1>1, Reading DEF ContactType
  <2> QED BY <1>1, <1>3, <2>1 DEF SentOnce, Owed, Restoring
<1> QED BY <1>2, <1>4, <1>5, <1>6 DEF AccountsInv

LEMMA RestartKeeps ==
  ASSUME AccountsInv, A!Restart
  PROVE  AccountsInv'
<1>1. /\ AccountsTyped /\ DueWasAsked /\ SentOnce /\ Tended /\ InvitedOnce /\ ToldOnce
      /\ UNCHANGED <<story, now, users, invites, consents, contact, asked>>
      /\ maint.restarts > 0 /\ maint.restarts \in Nat /\ maint.left \in SUBSET A!Operation
      /\ maint' = [pc |-> "idle", restarts |-> maint.restarts - 1, left |-> maint.left]
  BY MaintFields DEF AccountsInv, A!Restart
<1>2. /\ \A s \in A!Surfaces, u \in A!Ids : work'[<<s, u>>] = A!Idle
      /\ work' \in [A!Surfaces \X A!Ids -> WorkType]
  BY IdleTyped DEF A!Restart
<1>3. maint' \in MaintType /\ maint'.left = maint.left /\ maint'.pc = "idle"
  BY <1>1 DEF MaintType
<1>4. AccountsTyped'
  BY <1>1, <1>2, <1>3, SameProviders DEF AccountsTyped
<1>5. Tended'
  BY <1>1, <1>2, <1>3, IdleTyped DEF Tended
<1>6. InvitedOnce' /\ ToldOnce' /\ DueWasAsked'
  BY <1>1, <1>3 DEF InvitedOnce, Invited, ToldOnce, DueWasAsked
<1>7. \A u \in A!Ids : ~Restoring(u)'
  BY <1>2, IdleTyped DEF Restoring, A!Surfaces
<1>8. SentOnce'
  BY <1>1, <1>7 DEF SentOnce, Owed
<1> QED BY <1>4, <1>5, <1>6, <1>8 DEF AccountsInv

LEMMA AccountsStutter == AccountsInv /\ UNCHANGED A!vars => AccountsInv'
<1> SUFFICES ASSUME AccountsInv, UNCHANGED A!vars PROVE AccountsInv'
  OBVIOUS
<1>1. UNCHANGED <<story, now, users, invites, consents, contact, work, maint, asked>>
  BY DEF A!vars
<1>2. maint' \in MaintType /\ users' \in [A!Ids -> UserType \cup {A!Gone}]
  BY <1>1 DEF AccountsInv, AccountsTyped
<1>3. ToldOnce' /\ (maint'.pc # "idle" => maint'.at <= now)
  BY <1>1 DEF AccountsInv, ToldOnce, Tended
<1> QED BY <1>1, <1>2, <1>3, TickKeeps
-----------------------------------------------------------------------------
LEMMA AccountsStep == AccountsInv /\ [A!Next]_(A!vars) => AccountsInv'
<1> SUFFICES ASSUME AccountsInv, [A!Next]_(A!vars) PROVE AccountsInv'
  OBVIOUS
<1>1. ASSUME NEW s \in A!Surfaces, NEW u \in A!Ids, A!Operations(s, u) PROVE AccountsInv'
  <2>1. CASE A!Read(s, u)
    BY <2>1, ReadKeeps
  <2>2. CASE A!addUser(s, u) \/ A!createRegistrationInvite(s, u) \/ A!registerFromInvite(s, u)
    BY <2>2, AddKeeps, InviteKeeps, RegisterKeeps
  <2>3. CASE \E status \in {"active", "disabled"} : A!setUserStatus(s, u, status)
    BY <2>3, SetStatusKeeps
  <2>4. CASE \E status \in {"enabled", "suspended"} : A!setAiStatus(s, u, status)
    BY <2>4, SetAiKeeps
  <2>5. CASE A!requestDeletion(s, u) \/ A!restoreDeletion(s, u)
    BY <2>5, DeletionKeeps, RestoreKeeps
  <2>6. CASE A!Consent(s, u) \/ \E p \in A!Providers : A!ConsentRow(s, u, p)
    BY <2>6, ConsentKeeps, ConsentRowKeeps
  <2>7. CASE A!Voice(s, u) \/ A!DownloadFails(s, u)
    BY <2>7, VoiceKeeps
  <2>8. CASE A!transcribe(s, u) \/ A!SendAudio(s, u)
    BY <2>8, LookKeeps, SendAudioKeeps
  <2> QED BY <1>1, <2>1, <2>2, <2>3, <2>4, <2>5, <2>6, <2>7, <2>8 DEF A!Operations
<1>2. ASSUME NEW s \in A!Surfaces, NEW u \in A!Ids, NEW op, A!Arrive(s, u, op) PROVE AccountsInv'
  BY <1>2, ArriveKeeps
<1>3. CASE A!Maintenance
  BY <1>3, ListExpiredKeeps, ListSpendersKeeps, TellSpendKeeps, EndTickKeeps, FinalizeKeeps,
     CheckSpendKeeps DEF A!Maintenance
<1>4. ASSUME NEW u \in A!Ids, A!Plan(u) \/ A!Claim(u) \/ A!Deliver(u) PROVE AccountsInv'
  BY <1>4, PlanKeeps, ClaimKeeps, DeliverKeeps
<1>5. CASE A!Tick \/ A!Restart
  BY <1>5, TimeKeeps, RestartKeeps
<1>6. CASE UNCHANGED A!vars
  BY <1>6, AccountsStutter
<1> QED BY <1>1, <1>2, <1>3, <1>4, <1>5, <1>6 DEF A!Next
-----------------------------------------------------------------------------
(* What the parts of the invariant say in the words of the module.           *)
LEMMA InviteFact == AccountsInv => A!InviteIsSpentOnce
<1> SUFFICES ASSUME AccountsInv PROVE A!InviteIsSpentOnce
  OBVIOUS
<1> DEFINE made == {u \in A!Ids : users[u] # A!Gone /\ users[u].via = "invite"}
<1>1. /\ \A u, v \in made : u = v
      /\ made # {} => invites.status = "used"
  BY DEF AccountsInv, InvitedOnce, Invited
<1>2. Cardinality(made) <= 1
  <2>1. CASE made = {}
    BY <2>1, FS_EmptySet
  <2>2. CASE made # {}
    <3>1. PICK x \in made : TRUE
      BY <2>2
    <3>2. made = {x}
      BY <1>1, <3>1
    <3> HIDE DEF made
    <3> QED BY <3>2, FS_Singleton
  <2> QED BY <2>1, <2>2
<1>3. A!Cardinality(made) = Cardinality(made)
  BY DEF A!Cardinality, Cardinality
<1> QED BY <1>1, <1>2, <1>3 DEF A!InviteIsSpentOnce

LEMMA ContactFact == AccountsInv => A!ContactIsNotRepeated
BY DEF AccountsInv, SentOnce, A!ContactIsNotRepeated

LEMMA SpendFact == AccountsInv => A!SpendIsToldOnce
BY DEF AccountsInv, ToldOnce, A!SpendIsToldOnce

(* What a step may do to an account that is there.                           *)
Treated(v) ==
  users[v] # A!Gone =>
    \/ users'[v] # A!Gone
         /\ (users'[v].calls = users[v].calls \/ work[<<"chat", v>>].pc = "send")
    \/ users'[v] = A!Gone /\ maint.pc = "finalize" /\ A!Expired(v, maint.at)

LEMMA RowTreated ==
  ASSUME AccountsTyped, NEW u \in A!Ids, NEW r,
         users' = [users EXCEPT ![u] = r],
         users[u] # A!Gone => r # A!Gone /\ (r.calls = users[u].calls \/ work[<<"chat", u>>].pc = "send")
  PROVE  \A v \in A!Ids : Treated(v)
<1>1. users'[u] = r /\ \A v \in A!Ids : v # u => users'[v] = users[v]
  BY DEF AccountsTyped
<1> QED BY <1>1 DEF Treated

LEMMA OperationTreats ==
  ASSUME AccountsInv, NEW s \in A!Surfaces, NEW u \in A!Ids, A!Operations(s, u)
  PROVE  \A v \in A!Ids : Treated(v)
<1>1. AccountsTyped
  BY DEF AccountsInv
<1>2. CASE users' = users
  BY <1>2 DEF Treated
<1>3. users[u] # A!Gone => users[u] \in UserType
  BY <1>1, Reading
<1>4. CASE A!addUser(s, u) /\ users' # users
  BY <1>1, <1>4, RowTreated DEF A!addUser
<1>5. CASE A!registerFromInvite(s, u) /\ users' # users
  BY <1>1, <1>5, RowTreated DEF A!registerFromInvite
<1>6. ASSUME NEW status \in {"active", "disabled"}, A!setUserStatus(s, u, status), users' # users
      PROVE  \A v \in A!Ids : Treated(v)
  <2> DEFINE entry == IF status = "active" THEN WithDue(users[u], status, 0)
                      ELSE WithStatus(users[u], status)
  <2>1. users[u] # A!Gone /\ users' = [users EXCEPT ![u] = entry]
    BY <1>6 DEF A!setUserStatus, WithDue, WithStatus
  <2>2. entry \in UserType /\ entry.calls = users[u].calls
    <3>1. users[u] \in UserType /\ 0 \in Dues /\ status \in Statuses
      BY <1>3, <2>1, AccountBounds DEF Dues, Statuses
    <3> QED BY <3>1, UserRowSet
  <2> HIDE DEF entry
  <2> QED BY <1>1, <2>1, <2>2, GoneIsNone, RowTreated
<1>7. ASSUME NEW status \in {"enabled", "suspended"}, A!setAiStatus(s, u, status), users' # users
      PROVE  \A v \in A!Ids : Treated(v)
  <2> DEFINE entry == [users[u] EXCEPT !.ai = status]
  <2>1. users[u] # A!Gone /\ users' = [users EXCEPT ![u] = entry]
    BY <1>7 DEF A!setAiStatus
  <2>2. entry \in UserType /\ entry.calls = users[u].calls
    BY <1>3, <2>1 DEF UserType
  <2> HIDE DEF entry
  <2> QED BY <1>1, <2>1, <2>2, GoneIsNone, RowTreated
<1>8. CASE A!requestDeletion(s, u) /\ users' # users
  <2> DEFINE due == work[<<s, u>>].at + Grace
             entry == WithDue(users[u], "deletion_pending", due)
  <2>1. A!Active(u) /\ users' = [users EXCEPT ![u] = entry]
    BY <1>8 DEF A!requestDeletion, WithDue
  <2>2. users[u] \in UserType
    BY <1>1, <2>1, Reading DEF A!Active
  <2>3. entry.status = "deletion_pending" /\ entry.calls = users[u].calls
    <3> HIDE DEF due
    <3> QED BY <2>2 DEF WithDue, UserType
  <2> HIDE DEF entry
  <2> QED BY <1>1, <2>1, <2>3, GoneIsNone, RowTreated
<1>9. CASE A!restoreDeletion(s, u) /\ users' # users
  <2> DEFINE entry == WithDue(users[u], "active", 0)
  <2>1. users[u].status = "deletion_pending" /\ users' = [users EXCEPT ![u] = entry]
    BY <1>9 DEF A!restoreDeletion, WithDue, A!Restorable
  <2>2. users[u] \in UserType
    BY <1>1, <2>1, Reading
  <2>3. entry.status = "active" /\ entry.calls = users[u].calls
    BY <2>2 DEF WithDue, UserType
  <2> HIDE DEF entry
  <2> QED BY <1>1, <2>1, <2>3, GoneIsNone, RowTreated
<1>10. CASE A!SendAudio(s, u) /\ users' # users
  <2> DEFINE entry == [users[u] EXCEPT !.calls = users[u].calls + 1]
  <2>1. /\ users[u] # A!Gone /\ work[<<s, u>>].pc = "send"
        /\ users' = [users EXCEPT ![u] = entry]
    BY <1>1, <1>10 DEF A!SendAudio, AccountsTyped
  <2>2. entry.status = users[u].status /\ users[u].status # "gone"
    BY <1>1, <1>3, <2>1, Reading DEF UserType
  <2>3. s = "chat"
    BY <2>1, ByOperator DEF AccountsInv, Tended
  <2> HIDE DEF entry
  <2> QED BY <1>1, <2>1, <2>2, <2>3, GoneIsNone, RowTreated
<1>11. \/ users' = users \/ A!addUser(s, u) \/ A!registerFromInvite(s, u)
       \/ \E status \in {"active", "disabled"} : A!setUserStatus(s, u, status)
       \/ \E status \in {"enabled", "suspended"} : A!setAiStatus(s, u, status)
       \/ A!requestDeletion(s, u) \/ A!restoreDeletion(s, u) \/ A!SendAudio(s, u)
  BY DEF A!Operations, A!Read, A!createRegistrationInvite, A!Consent, A!ConsentRow, A!Voice, A!DownloadFails,
         A!transcribe
<1> QED BY <1>2, <1>4, <1>5, <1>6, <1>7, <1>8, <1>9, <1>10, <1>11

LEMMA MaintenanceTreats ==
  ASSUME AccountsInv, A!Maintenance
  PROVE  \A v \in A!Ids : Treated(v)
<1>1. AccountsTyped
  BY DEF AccountsInv
<1>2. CASE users' = users
  BY <1>2 DEF Treated
<1>3. ASSUME NEW u \in A!Ids, A!finalizeExpiredDeletions(u), users' # users
      PROVE  \A v \in A!Ids : Treated(v)
  <2>1. /\ users'[u] = A!Gone /\ A!Expired(u, maint.at) /\ maint.pc = "finalize"
        /\ \A v \in A!Ids : v # u => users'[v] = users[v]
    BY <1>1, <1>3 DEF A!finalizeExpiredDeletions, AccountsTyped
  <2> QED BY <2>1 DEF Treated
<1>4. ASSUME NEW u \in A!Ids, A!checkAiSpendWarnings(u), users' # users
      PROVE  \A v \in A!Ids : Treated(v)
  <2> DEFINE entry == [users[u] EXCEPT !.warned = TRUE]
  <2>1. users[u] # A!Gone /\ users' = [users EXCEPT ![u] = entry]
    BY <1>4 DEF A!checkAiSpendWarnings, A!markSpendWarning
  <2>2. users[u] \in UserType
    BY <1>1, <2>1, Reading
  <2>3. entry \in UserType /\ entry.calls = users[u].calls
    BY <2>2 DEF UserType
  <2> HIDE DEF entry
  <2> QED BY <1>1, <2>1, <2>3, GoneIsNone, RowTreated
<1>5. CASE A!TellSpend /\ users' # users
  <2> DEFINE u == maint.to
             entry == [users[u] EXCEPT !.notices = users[u].notices + 1]
  <2>1. u \in A!Ids
    BY <1>5, MaintFields DEF A!TellSpend
  <2>2. users[u] # A!Gone /\ users' = [users EXCEPT ![u] = entry]
    BY <1>1, <1>5 DEF A!TellSpend, AccountsTyped
  <2>3. users[u] \in UserType
    BY <1>1, <2>1, <2>2, Reading
  <2>4. entry.status = users[u].status /\ entry.calls = users[u].calls /\ users[u].status # "gone"
    <3>1. users[u].status # "gone"
      BY <2>3, GoneIsNone
    <3> HIDE DEF u
    <3> QED BY <2>3, <3>1 DEF UserType
  <2> HIDE DEF entry, u
  <2> QED BY <1>1, <2>1, <2>2, <2>4, GoneIsNone, RowTreated
<1>6. \/ users' = users \/ A!TellSpend
      \/ \E u \in A!Ids : A!finalizeExpiredDeletions(u) \/ A!checkAiSpendWarnings(u)
  BY DEF A!Maintenance, A!ListExpired, A!ListSpenders, A!EndTick
<1> QED BY <1>2, <1>3, <1>4, <1>5, <1>6

LEMMA NextTreats == AccountsInv /\ [A!Next]_(A!vars) => \A v \in A!Ids : Treated(v)
<1> SUFFICES ASSUME AccountsInv, [A!Next]_(A!vars) PROVE \A v \in A!Ids : Treated(v)
  OBVIOUS
<1>1. CASE users' = users
  BY <1>1 DEF Treated
<1>2. \/ users' = users \/ A!Maintenance
      \/ \E s \in A!Surfaces, u \in A!Ids : A!Operations(s, u)
  BY DEF A!Next, A!vars, A!Arrive, A!Plan, A!Claim, A!Deliver, A!Tick, A!Restart
<1> QED BY <1>1, <1>2, OperationTreats, MaintenanceTreats

(* Who was deleted had asked, and the grace was over.                         *)
LEMMA DeletionStep == AccountsInv /\ [A!Next]_(A!vars) => A!AskedDeletion
<1> SUFFICES ASSUME AccountsInv, [A!Next]_(A!vars), NEW u \in A!Ids, users[u] # A!Gone, users'[u] = A!Gone
             PROVE  u \in asked /\ users[u].due # 0 /\ users[u].due <= now
  BY DEF A!AskedDeletion
<1>1. maint.pc = "finalize" /\ A!Expired(u, maint.at)
  BY NextTreats DEF Treated
<1>2. users[u].status = "deletion_pending" /\ users[u].due <= maint.at
  BY <1>1 DEF A!Expired
<1>3. u \in asked /\ users[u].due >= Grace
  BY <1>2 DEF AccountsInv, DueWasAsked
<1>4. maint.at <= now /\ maint.at \in Nat /\ now \in Nat
  BY <1>1, MaintFields, AccountBounds
<1>5. users[u] \in UserType
  BY Reading DEF AccountsInv
<1>6. users[u].due \in Nat
  BY <1>5, AccountBounds DEF UserType, Dues
<1> QED BY <1>2, <1>3, <1>4, <1>6, AccountBounds

(* A chat in the middle of a voice message runs no other command of its user: *)
(* a consent taken back, or a deletion asked for, came from the app, whose      *)
(* operations are off the list of what is left once they have begun.            *)
TakesBack == {"revoke_text", "revoke_voice", "delete_account"}
VoiceInv ==
  \A u \in A!Ids :
    /\ work[<<"app", u>>].pc # "idle" => <<"app", u, work[<<"app", u>>].op>> \notin maint.left
    /\ work[<<"chat", u>>].op = "voice" /\ users[u].status = "deletion_pending" =>
         A!AppDid(u, TakesBack)
    /\ work[<<"chat", u>>].pc = "send" => "openai" \in consents[u] \/ A!AppDid(u, TakesBack)

LEMMA VoiceBegins == A!Init => VoiceInv
<1> SUFFICES ASSUME A!Init PROVE VoiceInv
  OBVIOUS
<1>1. \A s \in A!Surfaces, u \in A!Ids : work[<<s, u>>] = A!Idle
  BY DEF A!Init
<1>2. A!Idle.pc = "idle" /\ A!Idle.op = "none"
  BY DEF A!Idle
<1> QED BY <1>1, <1>2 DEF VoiceInv, A!Surfaces

(* What an operation does to its own place: it ends, or goes on as what it is. *)
Vacant(r) == r.pc = "idle" /\ r.op = "none"
HoldsOn(r, w, u) ==
  /\ r.op = w.op /\ w.pc # "idle"
  /\ r.pc = "send" => "openai" \in consents[u] /\ consents' = consents

LEMMA PlaceMoves ==
  ASSUME AccountsInv, NEW s \in A!Surfaces, NEW u \in A!Ids, A!Operations(s, u)
  PROVE  /\ story' = story /\ maint' = maint
         /\ \E r : /\ work' = [work EXCEPT ![<<s, u>>] = r]
                   /\ Vacant(r) \/ HoldsOn(r, work[<<s, u>>], u)
<1> DEFINE w == work[<<s, u>>]
<1>1. story' = story /\ maint' = maint
  BY DEF A!Operations, A!Read, A!addUser, A!createRegistrationInvite, A!registerFromInvite,
         A!setUserStatus, A!setAiStatus, A!requestDeletion, A!restoreDeletion, A!Consent,
         A!ConsentRow, A!Voice, A!DownloadFails, A!transcribe, A!SendAudio
<1>2. Vacant(A!Idle)
  BY DEF Vacant, A!Idle
<1>3. CASE A!Ends(s, u)
  BY <1>1, <1>2, <1>3 DEF A!Ends
<1>4. CASE A!Read(s, u)
  <2> DEFINE r == IF A!Reads(s, u) THEN [pc |-> "write", op |-> w.op, at |-> now] ELSE A!Idle
  <2>1. work' = [work EXCEPT ![<<s, u>>] = r] /\ w.pc = "read"
    BY <1>4 DEF A!Read
  <2>2. Vacant(r) \/ HoldsOn(r, w, u)
    BY <1>2, <2>1 DEF HoldsOn
  <2> HIDE DEF r
  <2> QED BY <1>1, <2>1, <2>2
<1>5. CASE A!Consent(s, u)
  <2> DEFINE r == [pc |-> "rows", op |-> w.op, rest |-> A!RowsOf(w.op)]
  <2>1. work' = [work EXCEPT ![<<s, u>>] = r] /\ w.pc = "read"
    BY <1>5 DEF A!Consent
  <2>2. HoldsOn(r, w, u)
    BY <2>1 DEF HoldsOn
  <2> HIDE DEF r
  <2> QED BY <1>1, <2>1, <2>2
<1>6. w \in WorkType
  BY Reading DEF AccountsInv
<1>7. ASSUME NEW p \in A!Providers, A!ConsentRow(s, u, p), ~A!Ends(s, u)
      PROVE  \E r : work' = [work EXCEPT ![<<s, u>>] = r] /\ HoldsOn(r, w, u)
  <2> DEFINE r == [w EXCEPT !.rest = @ \ {p}]
  <2>1. work' = [work EXCEPT ![<<s, u>>] = r] /\ w.pc = "rows"
    BY <1>7 DEF A!ConsentRow
  <2>2. r.op = w.op /\ r.pc = w.pc
    BY <1>6, <2>1 DEF WorkType
  <2>3. HoldsOn(r, w, u)
    BY <2>1, <2>2 DEF HoldsOn
  <2> HIDE DEF r
  <2> QED BY <2>1, <2>3
<1>8. ASSUME NEW pc, A!Goes(s, u, pc), w.pc \in {"read", "downloaded", "transcribe"},
             pc = "send" => "openai" \in consents[u] /\ consents' = consents
      PROVE  \E r : work' = [work EXCEPT ![<<s, u>>] = r] /\ HoldsOn(r, w, u)
  <2> DEFINE r == [w EXCEPT !.pc = pc]
  <2>1. work' = [work EXCEPT ![<<s, u>>] = r]
    BY <1>8 DEF A!Goes
  <2>2. r.op = w.op /\ r.pc = pc
    BY <1>6, <1>8 DEF WorkType
  <2>3. HoldsOn(r, w, u)
    BY <1>8, <2>2 DEF HoldsOn
  <2> HIDE DEF r
  <2> QED BY <2>1, <2>3
<1>9. CASE A!Voice(s, u) /\ ~A!Ends(s, u)
  <2> DEFINE pc == IF w.pc = "read" THEN "downloaded" ELSE "transcribe"
  <2>1. A!Goes(s, u, pc) /\ w.pc \in {"read", "downloaded"} /\ pc # "send"
    BY <1>9 DEF A!Voice
  <2> HIDE DEF pc
  <2> QED BY <1>1, <1>8, <2>1
<1>10. CASE A!transcribe(s, u) /\ ~A!Ends(s, u)
  <2>1. /\ A!Goes(s, u, "send") /\ w.pc = "transcribe"
        /\ "openai" \in consents[u] /\ consents' = consents
    BY <1>10 DEF A!transcribe, A!MaySend
  <2> QED BY <1>1, <1>8, <2>1
<1>11. \/ A!Ends(s, u) \/ A!Read(s, u) \/ A!Consent(s, u)
       \/ \E p \in A!Providers : A!ConsentRow(s, u, p)
       \/ A!Voice(s, u) \/ A!transcribe(s, u)
  BY DEF A!Operations, A!addUser, A!createRegistrationInvite, A!registerFromInvite,
         A!setUserStatus, A!setAiStatus, A!requestDeletion, A!restoreDeletion,
         A!DownloadFails, A!SendAudio
<1> QED BY <1>1, <1>3, <1>4, <1>5, <1>7, <1>9, <1>10, <1>11

(* A deletion that comes is asked for.                                        *)
LEMMA RowPends ==
  ASSUME AccountsTyped, NEW u \in A!Ids, NEW r, users' = [users EXCEPT ![u] = r],
         r.status # "deletion_pending" \/ r.status = users[u].status
  PROVE  \A v \in A!Ids : users'[v].status = "deletion_pending" =>
                            users[v].status = "deletion_pending"
<1>1. users'[u] = r /\ \A v \in A!Ids : v # u => users'[v] = users[v]
  BY DEF AccountsTyped
<1> QED BY <1>1

LEMMA OperationPends ==
  ASSUME AccountsInv, NEW s \in A!Surfaces, NEW u \in A!Ids, A!Operations(s, u),
         ~A!requestDeletion(s, u)
  PROVE  \A v \in A!Ids : users'[v].status = "deletion_pending" =>
                            users[v].status = "deletion_pending"
<1>1. AccountsTyped
  BY DEF AccountsInv
<1>2. CASE users' = users
  BY <1>2
<1>3. users[u] # A!Gone => users[u] \in UserType
  BY <1>1, Reading
<1>4. CASE (A!addUser(s, u) \/ A!registerFromInvite(s, u)) /\ users' # users
  <2>1. \E via \in {"operator", "invite"} : users' = [users EXCEPT ![u] = A!NewUser(via)]
    BY <1>4 DEF A!addUser, A!registerFromInvite
  <2> QED BY <1>1, <2>1, NewUserTyped, RowPends
<1>5. ASSUME NEW status \in {"active", "disabled"}, A!setUserStatus(s, u, status), users' # users
      PROVE  \A v \in A!Ids : users'[v].status = "deletion_pending" =>
                                users[v].status = "deletion_pending"
  <2> DEFINE entry == IF status = "active" THEN WithDue(users[u], status, 0)
                      ELSE WithStatus(users[u], status)
  <2>1. users[u] # A!Gone /\ users' = [users EXCEPT ![u] = entry]
    BY <1>5 DEF A!setUserStatus, WithDue, WithStatus
  <2>2. entry.status = status
    <3>1. users[u] \in UserType /\ 0 \in Dues /\ status \in Statuses
      BY <1>3, <2>1, AccountBounds DEF Dues, Statuses
    <3> QED BY <3>1, UserRowSet
  <2> HIDE DEF entry
  <2> QED BY <1>1, <2>1, <2>2, RowPends
<1>6. ASSUME NEW status \in {"enabled", "suspended"}, A!setAiStatus(s, u, status), users' # users
      PROVE  \A v \in A!Ids : users'[v].status = "deletion_pending" =>
                                users[v].status = "deletion_pending"
  <2> DEFINE entry == [users[u] EXCEPT !.ai = status]
  <2>1. users[u] # A!Gone /\ users' = [users EXCEPT ![u] = entry]
    BY <1>6 DEF A!setAiStatus
  <2>2. entry.status = users[u].status
    BY <1>3, <2>1 DEF UserType
  <2> HIDE DEF entry
  <2> QED BY <1>1, <2>1, <2>2, RowPends
<1>7. CASE A!restoreDeletion(s, u) /\ users' # users
  <2> DEFINE entry == WithDue(users[u], "active", 0)
  <2>1. users[u].status = "deletion_pending" /\ users' = [users EXCEPT ![u] = entry]
    BY <1>7 DEF A!restoreDeletion, WithDue, A!Restorable
  <2>2. users[u] \in UserType
    BY <1>1, <2>1, Reading
  <2>3. entry.status = "active"
    BY <2>2 DEF WithDue, UserType
  <2> HIDE DEF entry
  <2> QED BY <1>1, <2>1, <2>3, RowPends
<1>8. CASE A!SendAudio(s, u) /\ users' # users
  <2> DEFINE entry == [users[u] EXCEPT !.calls = users[u].calls + 1]
  <2>1. users[u] # A!Gone /\ users' = [users EXCEPT ![u] = entry]
    BY <1>1, <1>8 DEF A!SendAudio, AccountsTyped
  <2>2. entry.status = users[u].status
    BY <1>3, <2>1 DEF UserType
  <2> HIDE DEF entry
  <2> QED BY <1>1, <2>1, <2>2, RowPends
<1>9. \/ users' = users \/ A!addUser(s, u) \/ A!registerFromInvite(s, u)
      \/ \E status \in {"active", "disabled"} : A!setUserStatus(s, u, status)
      \/ \E status \in {"enabled", "suspended"} : A!setAiStatus(s, u, status)
      \/ A!restoreDeletion(s, u) \/ A!SendAudio(s, u)
  BY DEF A!Operations, A!Read, A!createRegistrationInvite, A!Consent, A!ConsentRow, A!Voice,
         A!DownloadFails, A!transcribe
<1> QED BY <1>2, <1>4, <1>5, <1>6, <1>7, <1>8, <1>9

LEMMA MaintenancePends ==
  ASSUME AccountsInv, A!Maintenance
  PROVE  /\ maint'.left = maint.left
         /\ \A v \in A!Ids : users'[v].status = "deletion_pending" =>
                               users[v].status = "deletion_pending"
<1>1. AccountsTyped /\ maint \in MaintType
  BY DEF AccountsInv, AccountsTyped
<1>2. maint'.left = maint.left
  <2>1. CASE A!ListExpired \/ A!TellSpend \/ A!EndTick
    BY <2>1 DEF A!ListExpired, A!TellSpend, A!EndTick
  <2>2. CASE A!ListSpenders
    <3> DEFINE rest == {v \in A!Ids : /\ A!Active(v) /\ users[v].calls > 0
                                      /\ ~users[v].warned}
    <3>1. maint' = [maint EXCEPT !.pc = "warn", !.rest = rest]
      BY <2>2 DEF A!ListSpenders
    <3> HIDE DEF rest
    <3> QED BY <1>1, <3>1 DEF MaintType
  <2>3. ASSUME NEW v \in A!Ids, A!finalizeExpiredDeletions(v)
        PROVE  maint'.left = maint.left
    BY <1>1, <2>3 DEF A!finalizeExpiredDeletions, MaintType
  <2>4. ASSUME NEW v \in A!Ids, A!checkAiSpendWarnings(v)
        PROVE  maint'.left = maint.left
    BY <1>1, <2>4 DEF A!checkAiSpendWarnings, MaintType
  <2> QED BY <2>1, <2>2, <2>3, <2>4 DEF A!Maintenance
<1>3. CASE users' = users
  BY <1>2, <1>3
<1>4. ASSUME NEW u \in A!Ids, A!finalizeExpiredDeletions(u), users' # users
      PROVE  \A v \in A!Ids : users'[v].status = "deletion_pending" =>
                                users[v].status = "deletion_pending"
  <2>1. users' = [users EXCEPT ![u] = A!Gone]
    BY <1>4 DEF A!finalizeExpiredDeletions
  <2> QED BY <1>1, <2>1, GoneIsNone, RowPends
<1>5. ASSUME NEW u \in A!Ids, A!checkAiSpendWarnings(u), users' # users
      PROVE  \A v \in A!Ids : users'[v].status = "deletion_pending" =>
                                users[v].status = "deletion_pending"
  <2> DEFINE entry == [users[u] EXCEPT !.warned = TRUE]
  <2>1. users[u] # A!Gone /\ users' = [users EXCEPT ![u] = entry]
    BY <1>5 DEF A!checkAiSpendWarnings, A!markSpendWarning
  <2>2. entry.status = users[u].status
    BY <1>1, <2>1, Reading DEF UserType
  <2> HIDE DEF entry
  <2> QED BY <1>1, <2>1, <2>2, RowPends
<1>6. CASE A!TellSpend /\ users' # users
  <2> DEFINE u == maint.to
             entry == [users[u] EXCEPT !.notices = users[u].notices + 1]
  <2>1. u \in A!Ids
    BY <1>6, MaintFields DEF A!TellSpend
  <2>2. users[u] # A!Gone /\ users' = [users EXCEPT ![u] = entry]
    BY <1>1, <1>6 DEF A!TellSpend, AccountsTyped
  <2>3. users[u] \in UserType
    BY <1>1, <2>1, <2>2, Reading
  <2>4. entry.status = users[u].status
    <3> HIDE DEF u
    <3> QED BY <2>3 DEF UserType
  <2> HIDE DEF entry, u
  <2>5. \A v \in A!Ids : users'[v].status = "deletion_pending" =>
                         users[v].status = "deletion_pending"
    BY <1>1, <2>1, <2>2, <2>4, RowPends
  <2> QED BY <1>2, <2>5
<1>7. \/ users' = users \/ A!TellSpend
      \/ \E u \in A!Ids : A!finalizeExpiredDeletions(u) \/ A!checkAiSpendWarnings(u)
  BY DEF A!Maintenance, A!ListExpired, A!ListSpenders, A!EndTick
<1> QED BY <1>2, <1>3, <1>4, <1>5, <1>6, <1>7

(* Seen from a place: nobody else touches it, a restart ends it, and what      *)
(* begins there is off the list.                                             *)
Stays(s, u) ==
  /\ work'[<<s, u>>].op = work[<<s, u>>].op
  /\ work[<<s, u>>].pc # "idle" \/ work'[<<s, u>>].pc = "idle"
  /\ work'[<<s, u>>].pc = "send" =>
       work[<<s, u>>].pc = "send" \/ ("openai" \in consents[u] /\ consents' = consents)
SetsOut(s, u) ==
  /\ work'[<<s, u>>].op \in {op \in OpNames : <<s, u, op>> \notin maint'.left}
  /\ work'[<<s, u>>].pc = "read" /\ users' = users
  /\ work'[<<s, u>>].op = "voice" => A!Active(u)

LEMMA WorkMoves ==
  ASSUME AccountsInv, [A!Next]_(A!vars)
  PROVE  /\ story' = story /\ maint'.left \subseteq maint.left
         /\ \A s \in A!Surfaces, u \in A!Ids :
              Vacant(work'[<<s, u>>]) \/ Stays(s, u) \/ SetsOut(s, u)
<1>1. AccountsTyped
  BY DEF AccountsInv
<1>2. ASSUME UNCHANGED <<story, work>>, maint'.left = maint.left
      PROVE  /\ story' = story /\ maint'.left \subseteq maint.left
             /\ \A s \in A!Surfaces, u \in A!Ids : Stays(s, u)
  BY <1>2 DEF Stays
<1>3. ASSUME NEW s \in A!Surfaces, NEW u \in A!Ids, A!Operations(s, u)
      PROVE  /\ story' = story /\ maint'.left \subseteq maint.left
             /\ \A t \in A!Surfaces, v \in A!Ids : Vacant(work'[<<t, v>>]) \/ Stays(t, v)
  <2>1. PICK r : /\ work' = [work EXCEPT ![<<s, u>>] = r]
                 /\ Vacant(r) \/ HoldsOn(r, work[<<s, u>>], u)
    BY <1>3, PlaceMoves
  <2>2. /\ work'[<<s, u>>] = r
        /\ \A t \in A!Surfaces, v \in A!Ids :
             <<t, v>> # <<s, u>> => work'[<<t, v>>] = work[<<t, v>>]
    BY <1>1, <2>1 DEF AccountsTyped
  <2>3. Vacant(work'[<<s, u>>]) \/ Stays(s, u)
    BY <2>1, <2>2 DEF Stays, HoldsOn
  <2>4. ASSUME NEW t \in A!Surfaces, NEW v \in A!Ids, <<t, v>> # <<s, u>>
        PROVE  Stays(t, v)
    BY <2>2, <2>4 DEF Stays
  <2> QED BY <1>3, <2>3, <2>4, PlaceMoves
<1>4. ASSUME NEW s \in A!Surfaces, NEW u \in A!Ids, NEW op, A!Arrive(s, u, op)
      PROVE  /\ story' = story /\ maint'.left \subseteq maint.left
             /\ \A t \in A!Surfaces, v \in A!Ids : Stays(t, v) \/ SetsOut(t, v)
  <2> DEFINE r == [pc |-> "read", op |-> op]
  <2>1. /\ work' = [work EXCEPT ![<<s, u>>] = r] /\ UNCHANGED <<story, users>>
        /\ <<s, u, op>> \in maint.left /\ maint' = [maint EXCEPT !.left = @ \ {<<s, u, op>>}]
        /\ A!Admitted(s, u, op)
    BY <1>4 DEF A!Arrive
  <2>2. maint'.left = maint.left \ {<<s, u, op>>}
    <3>1. maint \in MaintType
      BY <1>1 DEF AccountsTyped
    <3> QED BY <2>1, <3>1 DEF MaintType
  <2>3. op \in OpNames /\ (op = "voice" => s = "chat")
    <3>1. <<s, u, op>> \in A!Operation
      BY <1>1, <2>1, Reading DEF AccountsInv, Tended
    <3> QED BY <3>1, OperationShape
  <2>4. op = "voice" => A!Active(u)
    BY <2>1, <2>3 DEF A!Admitted, A!OPEN_COMMANDS
  <2>5. /\ work'[<<s, u>>] = r
        /\ \A t \in A!Surfaces, v \in A!Ids :
             <<t, v>> # <<s, u>> => work'[<<t, v>>] = work[<<t, v>>]
    BY <1>1, <2>1 DEF AccountsTyped
  <2>6. SetsOut(s, u)
    BY <2>1, <2>2, <2>3, <2>4, <2>5 DEF SetsOut
  <2>7. ASSUME NEW t \in A!Surfaces, NEW v \in A!Ids, <<t, v>> # <<s, u>>
        PROVE  Stays(t, v)
    BY <2>5, <2>7 DEF Stays
  <2> QED BY <2>1, <2>2, <2>6, <2>7
<1>5. CASE A!Maintenance
  <2>1. UNCHANGED <<story, work>>
    BY <1>5 DEF A!Maintenance, A!ListExpired, A!ListSpenders, A!TellSpend, A!EndTick,
                A!finalizeExpiredDeletions, A!checkAiSpendWarnings
  <2>2. maint'.left = maint.left
    BY <1>5, MaintenancePends
  <2> QED BY <1>2, <2>1, <2>2
<1>6. CASE A!Restart
  <2>1. \A s \in A!Surfaces, u \in A!Ids : Vacant(work'[<<s, u>>])
    BY <1>6 DEF A!Restart, Vacant, A!Idle
  <2> QED BY <1>6, <2>1 DEF A!Restart
<1>7. CASE A!Tick \/ \E u \in A!Ids : A!Plan(u) \/ A!Claim(u) \/ A!Deliver(u)
  BY <1>2, <1>7 DEF A!Tick, A!Plan, A!Claim, A!Deliver
<1>8. CASE UNCHANGED A!vars
  BY <1>2, <1>8 DEF A!vars
<1> QED BY <1>3, <1>4, <1>5, <1>6, <1>7, <1>8 DEF A!Next

LEMMA PendingComes ==
  ASSUME AccountsInv, [A!Next]_(A!vars), NEW u \in A!Ids, users'[u].status = "deletion_pending"
  PROVE  \/ users[u].status = "deletion_pending"
         \/ \E s \in A!Surfaces : A!requestDeletion(s, u)
<1>1. AccountsTyped
  BY DEF AccountsInv
<1>2. CASE users' = users
  BY <1>2
<1>3. ASSUME NEW s \in A!Surfaces, NEW v \in A!Ids, A!Operations(s, v)
      PROVE  \/ users[u].status = "deletion_pending"
             \/ \E t \in A!Surfaces : A!requestDeletion(t, u)
  <2>1. CASE ~A!requestDeletion(s, v)
    BY <1>3, <2>1, OperationPends
  <2>2. CASE A!requestDeletion(s, v) /\ v # u
    <3>1. users'[u] = users[u]
      BY <1>1, <2>2 DEF A!requestDeletion, AccountsTyped
    <3> QED BY <3>1
  <2> QED BY <2>1, <2>2
<1>4. CASE A!Maintenance
  BY <1>4, MaintenancePends
<1>5. \/ users' = users \/ A!Maintenance
      \/ \E s \in A!Surfaces, v \in A!Ids : A!Operations(s, v)
  BY DEF A!Next, A!vars, A!Arrive, A!Plan, A!Claim, A!Deliver, A!Tick, A!Restart
<1> QED BY <1>2, <1>3, <1>4, <1>5

(* A consent that goes is taken back by its user, or goes with the account.     *)
LEMMA ConsentGoes ==
  ASSUME AccountsInv, [A!Next]_(A!vars), NEW u \in A!Ids,
         "openai" \in consents[u], "openai" \notin consents'[u]
  PROVE  \/ users[u].status = "deletion_pending"
         \/ \E s \in {"chat", "app"} : /\ work[<<s, u>>].pc = "rows"
                                       /\ work[<<s, u>>].op \in TakesBack
<1>1. AccountsTyped
  BY DEF AccountsInv
<1>2. ASSUME NEW s \in A!Surfaces, NEW v \in A!Ids, NEW p, A!ConsentRow(s, v, p)
      PROVE  \E t \in {"chat", "app"} : /\ work[<<t, u>>].pc = "rows"
                                        /\ work[<<t, u>>].op \in TakesBack
  <2>1. v = u
    BY <1>1, <1>2 DEF A!ConsentRow, AccountsTyped
  <2>2. work[<<s, u>>].pc = "rows" /\ work[<<s, u>>].op \notin {"grant_text", "grant_voice"}
    BY <1>1, <1>2, <2>1 DEF A!ConsentRow, AccountsTyped
  <2>3. work[<<s, u>>].op \in A!ConsentOps
    BY <1>1, <2>2, Reading DEF WorkType
  <2>4. s \in {"chat", "app"}
    <3>1. <<s, u, work[<<s, u>>].op>> \in A!Operation
      BY <1>1, <2>2, Reading DEF AccountsInv, Tended
    <3> QED BY <2>3, <3>1, OperationShape
  <2> QED BY <2>2, <2>3, <2>4 DEF A!ConsentOps, TakesBack
<1>3. ASSUME NEW v \in A!Ids, A!finalizeExpiredDeletions(v)
      PROVE  users[u].status = "deletion_pending"
  <2>1. A!Expired(v, maint.at) /\ v = u
    BY <1>1, <1>3 DEF A!finalizeExpiredDeletions, AccountsTyped
  <2> QED BY <2>1 DEF A!Expired
<1>4. \/ \E s \in A!Surfaces, v \in A!Ids, p \in A!Providers : A!ConsentRow(s, v, p)
      \/ \E v \in A!Ids : A!finalizeExpiredDeletions(v)
  <2>1. consents' # consents
    OBVIOUS
  <2>2. A!Maintenance => \E v \in A!Ids : A!finalizeExpiredDeletions(v)
    BY <2>1 DEF A!Maintenance, A!ListExpired, A!ListSpenders, A!TellSpend, A!EndTick,
                A!checkAiSpendWarnings
  <2>3. ASSUME NEW s \in A!Surfaces, NEW v \in A!Ids, A!Operations(s, v)
        PROVE  \E p \in A!Providers : A!ConsentRow(s, v, p)
    BY <2>1, <2>3 DEF A!Operations, A!Read, A!addUser, A!createRegistrationInvite,
       A!registerFromInvite, A!setUserStatus, A!setAiStatus, A!requestDeletion,
       A!restoreDeletion, A!Consent, A!Voice, A!DownloadFails, A!transcribe, A!SendAudio
  <2>4. \/ A!Maintenance \/ \E s \in A!Surfaces, v \in A!Ids : A!Operations(s, v)
    BY <2>1 DEF A!Next, A!vars, A!Arrive, A!Plan, A!Claim, A!Deliver, A!Tick, A!Restart
  <2> QED BY <2>2, <2>3, <2>4
<1> QED BY <1>2, <1>3, <1>4

LEMMA VoiceInvStep == AccountsInv /\ VoiceInv /\ [A!Next]_(A!vars) => VoiceInv'
<1> SUFFICES ASSUME AccountsInv, VoiceInv, [A!Next]_(A!vars), NEW u \in A!Ids
             PROVE  /\ work'[<<"app", u>>].pc # "idle" =>
                         <<"app", u, work'[<<"app", u>>].op>> \notin maint'.left
                    /\ work'[<<"chat", u>>].op = "voice" /\ users'[u].status = "deletion_pending" =>
                         A!AppDid(u, TakesBack)'
                    /\ work'[<<"chat", u>>].pc = "send" =>
                         "openai" \in consents'[u] \/ A!AppDid(u, TakesBack)'
  BY DEF VoiceInv, TakesBack
<1> DEFINE inChat == <<"chat", u>>
           inApp == <<"app", u>>
<1>1. /\ "chat" \in A!Surfaces /\ "app" \in A!Surfaces
      /\ AccountsTyped /\ Tended
  BY DEF A!Surfaces, AccountsInv
<1>2. /\ work[inApp].pc # "idle" => <<"app", u, work[inApp].op>> \notin maint.left
      /\ work[inChat].op = "voice" /\ users[u].status = "deletion_pending" =>
           A!AppDid(u, TakesBack)
      /\ work[inChat].pc = "send" => "openai" \in consents[u] \/ A!AppDid(u, TakesBack)
  BY DEF VoiceInv
<1>3. /\ Vacant(work'[inChat]) \/ Stays("chat", u) \/ SetsOut("chat", u)
      /\ Vacant(work'[inApp]) \/ Stays("app", u) \/ SetsOut("app", u)
      /\ story' = story /\ maint'.left \subseteq maint.left
  BY <1>1, WorkMoves
<1>4. A!AppDid(u, TakesBack) => A!AppDid(u, TakesBack)'
  BY <1>3 DEF A!AppDid, TakesBack
<1>5. \A op \in TakesBack : work[inApp].pc # "idle" /\ work[inApp].op = op => A!AppDid(u, TakesBack)
  <2>1. work[inApp].pc # "idle" => <<"app", u, work[inApp].op>> \in story.ops
    BY <1>1 DEF Tended
  <2> QED BY <1>2, <2>1 DEF A!AppDid
<1>6. work'[inApp].pc # "idle" => <<"app", u, work'[inApp].op>> \notin maint'.left
  BY <1>2, <1>3 DEF Vacant, Stays, SetsOut
<1>7. ASSUME work'[inChat].op = "voice", users'[u].status = "deletion_pending"
      PROVE  A!AppDid(u, TakesBack)
  <2>1. Stays("chat", u) \/ SetsOut("chat", u)
    BY <1>3, <1>7 DEF Vacant
  <2>2. CASE users[u].status = "deletion_pending"
    <3>1. ~SetsOut("chat", u)
      BY <1>7, <2>2 DEF SetsOut, A!Active
    <3> QED BY <1>2, <1>7, <2>1, <2>2, <3>1 DEF Stays
  <2>3. ASSUME NEW s \in A!Surfaces, A!requestDeletion(s, u)
        PROVE  A!AppDid(u, TakesBack)
    <3>1. work[<<s, u>>].pc = "write" /\ work[<<s, u>>].op = "delete_account" /\ A!Ends(s, u)
      BY <2>3 DEF A!requestDeletion, A!Writing
    <3>2. s # "chat"
      <4> SUFFICES ASSUME s = "chat" PROVE FALSE
        OBVIOUS
      <4>1. work'[inChat] = A!Idle
        BY <1>1, <3>1 DEF A!Ends, AccountsTyped
      <4> QED BY <1>7, <4>1 DEF A!Idle
    <3>3. s \in {"chat", "app"}
      <4>1. <<s, u, "delete_account">> \in A!Operation
        BY <1>1, <3>1, Reading DEF Tended
      <4> QED BY <4>1, OperationShape
    <3> QED BY <1>5, <3>1, <3>2, <3>3 DEF TakesBack
  <2> QED BY <1>7, <2>2, <2>3, PendingComes
<1>8. ASSUME work'[inChat].pc = "send", "openai" \notin consents'[u]
      PROVE  A!AppDid(u, TakesBack)
  <2>1. Stays("chat", u)
    BY <1>3, <1>8 DEF Vacant, SetsOut
  <2>2. work[inChat].pc = "send"
    BY <1>8, <2>1 DEF Stays
  <2>3. work[inChat].op = "voice"
    BY <1>1, <2>2 DEF Tended
  <2>4. CASE "openai" \in consents[u]
    <3>1. \/ users[u].status = "deletion_pending"
          \/ \E s \in {"chat", "app"} : /\ work[<<s, u>>].pc = "rows"
                                        /\ work[<<s, u>>].op \in TakesBack
      BY <1>8, <2>4, ConsentGoes
    <3> QED BY <1>2, <1>5, <2>2, <2>3, <3>1
  <2> QED BY <1>2, <2>2, <2>4
<1> QED BY <1>4, <1>6, <1>7, <1>8

LEMMA VoiceStep == AccountsInv /\ VoiceInv /\ [A!Next]_(A!vars) => A!AskedVoice
<1> SUFFICES ASSUME AccountsInv, VoiceInv, [A!Next]_(A!vars), NEW u \in A!Ids,
                    users[u] # A!Gone, users'[u] # A!Gone, users'[u].calls > users[u].calls
             PROVE  "openai" \in consents[u] \/ A!AppDid(u, TakesBack)
  BY DEF A!AskedVoice, TakesBack
<1>1. users'[u].calls = users[u].calls \/ work[<<"chat", u>>].pc = "send"
  BY NextTreats DEF Treated
<1>2. users[u] \in UserType
  BY Reading DEF AccountsInv
<1>3. users[u].calls \in Nat
  BY <1>2 DEF UserType, A!MaxCalls
<1>4. work[<<"chat", u>>].pc = "send"
  BY <1>1, <1>3
<1> QED BY <1>4 DEF VoiceInv

LEMMA AccountsTypeFact == AccountsInv => A!TypeOK
<1> SUFFICES ASSUME AccountsInv PROVE A!TypeOK
  OBVIOUS
<1>1. AccountsTyped
  BY DEF AccountsInv
<1>2. ASSUME NEW u \in A!Ids
      PROVE  /\ users[u] = A!Gone \/
                /\ users[u].status \in {"active", "disabled", "deletion_pending"}
                /\ users[u].due \in 0..(LastTime + Grace)
                /\ users[u].calls \in 0..A!MaxCalls
             /\ consents[u] \subseteq A!Providers
             /\ contact[u].status \in {"none", "pending", "processing", "suppressed", "sent"}
  <2>1. users[u] # A!Gone => users[u] \in UserType
    BY <1>1, Reading
  <2>2. contact[u] \in ContactType /\ consents[u] \in SUBSET A!Providers
    BY <1>1, Reading DEF AccountsTyped
  <2> QED BY <2>1, <2>2 DEF UserType, ContactType, Statuses, Dues
<1> QED BY <1>1, <1>2 DEF A!TypeOK, AccountsTyped
-----------------------------------------------------------------------------
(* The topics.                                                              *)
TopicType(C) == [status: T!Statuses, text: C, fresh: C, count: C, at: C]
TopicSteps == {"idle", "thinking", "begin", "commit", "pause", "count", "reset", "resolve", "scrub"}
StepType(C) ==
  [pc: TopicSteps, dir: T!Directives, current: C, count: C, topic: C, text: C, seen: SUBSET Nat,
   overlapped: BOOLEAN, told: C]
TopicsTyped(C) ==
  /\ story \in TopicScenarios /\ topics \in Seq(TopicType(C))
  /\ work \in [T!Workers -> StepType(C)]

(* A transaction that opens a topic says so from its first statement; two that *)
(* are open at once have both been marked, and one that is alone has seen every *)
(* topic that is active but its own.                                          *)
Own(w) == IF work[w].dir.mode = "continue" THEN {work[w].topic} ELSE {}
Opening ==
  /\ \A w \in T!Workers :
       /\ work[w].pc = "begin" => work[w].dir.mode \in {"new", "continue"}
       /\ T!OpenIn(w) => work[w].dir.mode \in {"new", "continue"}
       /\ T!OpenIn(w) /\ ~work[w].overlapped => T!Active \subseteq work[w].seen \cup Own(w)
  /\ \A v, w \in T!Workers : v # w /\ T!OpenIn(v) /\ T!OpenIn(w) => work[w].overlapped
OneOpen == split \/ \A i, j \in T!Active : i = j

TopicsInv == (\E C : TopicsTyped(C)) /\ Opening /\ OneOpen
-----------------------------------------------------------------------------
LEMMA TopicAt ==
  ASSUME NEW C, TopicsTyped(C)
  PROVE  /\ Len(topics) \in Nat /\ T!Ids = 1 .. Len(topics) /\ DOMAIN topics = T!Ids
         /\ topics = [i \in T!Ids |-> topics[i]]
         /\ \A i \in T!Ids : topics[i] \in TopicType(C)
         /\ \A w \in T!Workers : work[w] \in StepType(C)
         /\ T!Ids \subseteq Nat /\ T!Active \subseteq T!Ids
BY DEF TopicsTyped, T!Ids, T!Active, T!WithStatus

LEMMA Wider ==
  ASSUME NEW C, NEW D
  PROVE  TopicType(C) \subseteq TopicType(C \cup D) /\ StepType(C) \subseteq StepType(C \cup D)
BY DEF TopicType, StepType

LEMMA SeqWider ==
  ASSUME NEW X, NEW Y, X \subseteq Y, NEW q \in Seq(X)
  PROVE  q \in Seq(Y)
<1>1. Len(q) \in Nat /\ q \in [1 .. Len(q) -> X]
  OBVIOUS
<1>2. q \in [1 .. Len(q) -> Y]
  BY <1>1, Zenon
<1> QED BY <1>1, <1>2

LEMMA TypedWider ==
  ASSUME NEW C, NEW D, TopicsTyped(C)
  PROVE  TopicsTyped(C \cup D)
<1>1. /\ topics \in Seq(TopicType(C)) /\ work \in [T!Workers -> StepType(C)]
      /\ story \in TopicScenarios
  BY DEF TopicsTyped
<1>2. topics \in Seq(TopicType(C \cup D)) /\ work \in [T!Workers -> StepType(C \cup D)]
  <2>1. topics \in Seq(TopicType(C \cup D))
    BY <1>1, Wider, SeqWider
  <2>2. work \in [T!Workers -> StepType(C \cup D)]
    BY <1>1, Wider, Zenon
  <2> QED BY <2>1, <2>2
<1> QED BY <1>1, <1>2 DEF TopicsTyped

(* Sequences by their places.                                                *)
LEMMA AsSequence ==
  ASSUME NEW X, NEW n \in Nat, NEW t, t = [i \in 1 .. n |-> t[i]],
         \A i \in 1 .. n : t[i] \in X
  PROVE  t \in Seq(X) /\ Len(t) = n
<1>1. t \in [1 .. n -> X]
  BY Zenon
<1> QED BY <1>1

LEMMA NormalDirective ==
  ASSUME NEW d \in T!Directives, NEW hasActive \in BOOLEAN
  PROVE  T!normalizeTopicDirective(d, hasActive) \in T!Directives
BY DEF T!normalizeTopicDirective, T!Directives, T!Modes, T!NoDirective

LEMMA IdleStep ==
  ASSUME NEW C, 0 \in C, FALSE \in C
  PROVE  /\ T!Idle \in StepType(C) /\ T!Idle.pc = "idle" /\ T!Idle.dir = T!NoDirective
         /\ T!NoDirective \in T!Directives /\ T!NoDirective.mode = "none" /\ ~T!Idle.overlapped
BY DEF T!Idle, StepType, TopicSteps, T!NoDirective, T!Directives, T!Modes

LEMMA TopicsInit == T!Init => TopicsInv
<1> SUFFICES ASSUME T!Init PROVE TopicsInv
  OBVIOUS
<1>1. /\ story \in TopicScenarios /\ topics = story.start
      /\ work = [w \in T!Workers |-> T!Idle]
  BY DEF T!Init
<1> DEFINE C == BOOLEAN \cup Nat
           D == C \cup {0, FALSE}
           Start == [status: T!Statuses, text: BOOLEAN, fresh: BOOLEAN,
                     count: 0 .. Checkpoint, at: Nat]
<1>2. story.start \in Seq(Start)
  BY <1>1, DialogueAssumption
<1>3. topics \in Seq(TopicType(C))
  <2>1. Start \subseteq TopicType(C)
    <3>1. 0 .. Checkpoint \subseteq Nat /\ Nat \subseteq C /\ BOOLEAN \subseteq C
      BY DialogueAssumption
    <3>2. 0 .. Checkpoint \subseteq C
      BY <3>1
    <3> DEFINE counts == 0 .. Checkpoint
    <3> HIDE DEF C, counts
    <3> QED BY <3>1, <3>2, Zenon DEF TopicType, counts
  <2> HIDE DEF Start
  <2> QED BY <1>1, <1>2, <2>1, SeqWider
<1>4. topics \in Seq(TopicType(D)) /\ T!Idle \in StepType(D) /\ T!Idle.pc = "idle"
  <2>1. topics \in Seq(TopicType(D))
    BY <1>3, Wider, SeqWider
  <2>2. 0 \in D /\ FALSE \in D
    BY Zenon
  <2> HIDE DEF D
  <2> QED BY <2>1, <2>2, IdleStep
<1> HIDE DEF D
<1>5. TopicsTyped(D)
  BY <1>1, <1>4 DEF TopicsTyped
<1>6. Opening
  BY <1>1, <1>4 DEF Opening, T!OpenIn
<1>7. \A i, j \in 1 .. Len(topics) :
        topics[i].status = "active" /\ topics[j].status = "active" => i = j
  BY <1>1, DialogueAssumption
<1>8. OneOpen
  BY <1>7 DEF OneOpen, T!Active, T!WithStatus, T!Ids
<1> QED BY <1>5, <1>6, <1>8 DEF TopicsInv
-----------------------------------------------------------------------------
(* A step that opens no topic: no row becomes active.                        *)
LEMMA QuietTopics ==
  ASSUME TopicsInv, NEW C, TopicsTyped(C)', T!Active' \subseteq T!Active,
         split' = split \/ T!Active' = {},
         \A v \in T!Workers :
           \/ work'[v] = work[v]
           \/ /\ T!OpenIn(v)' => T!OpenIn(v) /\ work'[v] = work[v]
              /\ work'[v].pc = "begin" => work'[v].dir.mode \in {"new", "continue"}
  PROVE  TopicsInv'
<1>1. Opening /\ OneOpen
  BY DEF TopicsInv
<1>2. \A v \in T!Workers : T!OpenIn(v)' => T!OpenIn(v) /\ work'[v] = work[v]
  BY DEF T!OpenIn
<1>3. Opening'
  <2>1. \A v \in T!Workers : T!OpenIn(v)' => Own(v)' = Own(v)
    BY <1>2 DEF Own
  <2>2. \A w \in T!Workers :
          /\ work'[w].pc = "begin" => work'[w].dir.mode \in {"new", "continue"}
          /\ T!OpenIn(w)' => work'[w].dir.mode \in {"new", "continue"}
    BY <1>1, <1>2 DEF Opening
  <2>3. \A w \in T!Workers : T!OpenIn(w)' /\ ~work'[w].overlapped =>
          T!Active' \subseteq work'[w].seen \cup Own(w)'
    BY <1>1, <1>2, <2>1 DEF Opening
  <2>4. \A v, w \in T!Workers : v # w /\ T!OpenIn(v)' /\ T!OpenIn(w)' => work'[w].overlapped
    BY <1>1, <1>2 DEF Opening
  <2> QED BY <2>2, <2>3, <2>4 DEF Opening
<1>4. OneOpen'
  BY <1>1 DEF OneOpen
<1> QED BY <1>3, <1>4 DEF TopicsInv

LEMMA TypesThere ==
  ASSUME TopicsInv, NEW D
  PROVE  \E C : TopicsTyped(C) /\ D \subseteq C /\ 0 \in C /\ FALSE \in C /\ TRUE \in C
<1>1. PICK B : TopicsTyped(B)
  BY DEF TopicsInv
<1>2. TopicsTyped(((B \cup {0}) \cup {FALSE, TRUE}) \cup D)
  BY <1>1, TypedWider
<1>3. /\ 0 \in ((B \cup {0}) \cup {FALSE, TRUE}) \cup D
      /\ TRUE \in ((B \cup {0}) \cup {FALSE, TRUE}) \cup D
      /\ FALSE \in ((B \cup {0}) \cup {FALSE, TRUE}) \cup D
      /\ D \subseteq ((B \cup {0}) \cup {FALSE, TRUE}) \cup D
  BY Zenon
<1> DEFINE C == ((B \cup {0}) \cup {FALSE, TRUE}) \cup D
<1>4. TopicsTyped(C) /\ D \subseteq C /\ 0 \in C /\ FALSE \in C /\ TRUE \in C
  BY <1>2, <1>3
<1> HIDE DEF C
<1> QED BY <1>4

LEMMA StepSet ==
  ASSUME NEW C, TopicsTyped(C), NEW w \in T!Workers, NEW r \in StepType(C),
         work' = [work EXCEPT ![w] = r]
  PROVE  /\ work' \in [T!Workers -> StepType(C)] /\ work'[w] = r
         /\ \A v \in T!Workers : v # w => work'[v] = work[v]
BY DEF TopicsTyped

(* Every row is still there, and none of them becomes active.                *)
LEMMA RowsKept ==
  ASSUME NEW C, TopicsTyped(C), topics' = [i \in T!Ids |-> topics'[i]],
         \A i \in T!Ids : topics'[i] \in TopicType(C)
  PROVE  /\ topics' \in Seq(TopicType(C)) /\ T!Ids' = T!Ids
         /\ T!Active' = {i \in T!Ids : topics'[i].status = "active"}
<1>1. Len(topics) \in Nat /\ T!Ids = 1 .. Len(topics)
  BY TopicAt
<1>2. topics' \in Seq(TopicType(C)) /\ Len(topics') = Len(topics)
  <2> DEFINE n == Len(topics)
             t == topics'
  <2>1. n \in Nat /\ t = [i \in 1 .. n |-> t[i]] /\ \A i \in 1 .. n : t[i] \in TopicType(C)
    BY <1>1
  <2>2. t \in Seq(TopicType(C)) /\ Len(t) = n
    <3> HIDE DEF n, t
    <3> QED BY <2>1, AsSequence
  <2> QED BY <2>2
<1>3. T!Ids' = T!Ids
  BY <1>1, <1>2 DEF T!Ids
<1> QED BY <1>2, <1>3 DEF T!Active, T!WithStatus

LEMMA TopicRowSet ==
  ASSUME NEW C, TopicsTyped(C), NEW i, NEW r, i \in T!Ids => r \in TopicType(C),
         topics' = [topics EXCEPT ![i] = r]
  PROVE  /\ topics' \in Seq(TopicType(C)) /\ T!Ids' = T!Ids
         /\ T!Active' \subseteq T!Active \cup {i}
         /\ i \in T!Ids /\ r.status # "active" => i \notin T!Active'
         /\ i \in T!Ids /\ r.status = topics[i].status => T!Active' = T!Active
         /\ i \notin T!Ids => T!Active' = T!Active
<1>1. topics' = [j \in T!Ids |-> topics'[j]] /\ \A j \in T!Ids : topics'[j] = IF j = i THEN r ELSE topics[j]
  BY TopicAt
<1>2. \A j \in T!Ids : topics'[j] \in TopicType(C)
  BY <1>1, TopicAt
<1>3. /\ topics' \in Seq(TopicType(C)) /\ T!Ids' = T!Ids
      /\ T!Active' = {j \in T!Ids : topics'[j].status = "active"}
  BY <1>1, <1>2, RowsKept
<1>4. T!Active = {j \in T!Ids : topics[j].status = "active"}
  BY DEF T!Active, T!WithStatus
<1>5. /\ T!Active' \subseteq T!Active \cup {i}
      /\ i \in T!Ids /\ r.status # "active" => i \notin T!Active'
      /\ i \notin T!Ids => T!Active' = T!Active
  BY <1>1, <1>3, <1>4
<1>6. i \in T!Ids /\ r.status = topics[i].status => T!Active' = T!Active
  BY <1>1, <1>3, <1>4
<1> QED BY <1>3, <1>5, <1>6

LEMMA PausedRows ==
  ASSUME NEW C, TopicsTyped(C), NEW X
  PROVE  /\ T!Paused(topics, X) \in Seq(TopicType(C)) /\ Len(T!Paused(topics, X)) = Len(topics)
         /\ \A i \in T!Ids :
              /\ T!Paused(topics, X)[i] \in TopicType(C)
              /\ T!Paused(topics, X)[i].status = "active" <=> i \in T!Active /\ i \notin X
<1> DEFINE t == T!Paused(topics, X)
           entry(i) == [topics[i] EXCEPT !.status = "paused"]
<1>1. /\ DOMAIN topics = T!Ids /\ T!Ids = 1 .. Len(topics) /\ Len(topics) \in Nat
      /\ \A i \in T!Ids : topics[i] \in TopicType(C)
  BY TopicAt
<1>2. \A i \in T!Ids : entry(i) \in TopicType(C) /\ entry(i).status = "paused"
  BY <1>1 DEF TopicType, T!Statuses
<1> HIDE DEF entry
<1>3. /\ t = [i \in T!Ids |-> t[i]]
      /\ \A i \in T!Ids : t[i] = IF i \in X /\ topics[i].status = "active" THEN entry(i)
                                 ELSE topics[i]
  BY <1>1 DEF T!Paused, entry
<1> HIDE DEF t
<1>4. \A i \in T!Ids : /\ t[i] \in TopicType(C)
                       /\ t[i].status = "active" <=> i \in T!Active /\ i \notin X
  BY <1>1, <1>2, <1>3 DEF T!Active, T!WithStatus
<1>5. t \in Seq(TopicType(C)) /\ Len(t) = Len(topics)
  <2> DEFINE n == Len(topics)
  <2>1. n \in Nat /\ t = [i \in 1 .. n |-> t[i]] /\ \A i \in 1 .. n : t[i] \in TopicType(C)
    BY <1>1, <1>3, <1>4
  <2> HIDE DEF n
  <2>2. t \in Seq(TopicType(C)) /\ Len(t) = n
    BY <2>1, AsSequence
  <2> QED BY <2>2 DEF n
<1> QED BY <1>4, <1>5 DEF t
-----------------------------------------------------------------------------
(* A worker goes on, or is done, with the rows as they are.                  *)
LEMMA GoesOn ==
  ASSUME TopicsInv, NEW C, TopicsTyped(C), NEW w \in T!Workers, NEW r \in StepType(C),
         work' = [work EXCEPT ![w] = r], UNCHANGED <<story, topics, split>>,
         r.pc = "commit" => r.dir.mode = "resolve",
         r.pc = "begin" => r.dir.mode \in {"new", "continue"}
  PROVE  TopicsInv'
<1>1. /\ work' \in [T!Workers -> StepType(C)] /\ work'[w] = r
      /\ \A v \in T!Workers : v # w => work'[v] = work[v]
  BY StepSet
<1>2. TopicsTyped(C)'
  BY <1>1 DEF TopicsTyped
<1>3. T!Active' = T!Active
  BY DEF T!Active, T!WithStatus, T!Ids
<1>4. ~T!OpenIn(w)'
  BY <1>1 DEF T!OpenIn
<1>5. \A v \in T!Workers :
        \/ work'[v] = work[v]
        \/ /\ T!OpenIn(v)' => T!OpenIn(v) /\ work'[v] = work[v]
           /\ work'[v].pc = "begin" => work'[v].dir.mode \in {"new", "continue"}
  BY <1>1, <1>4
<1>6. split' = split
  OBVIOUS
<1> HIDE DEF TopicsInv
<1> QED BY <1>2, <1>3, <1>5, <1>6, QuietTopics

LEMMA BeginTurnKeeps ==
  ASSUME TopicsInv, NEW w \in T!Workers, T!BeginTurn(w)
  PROVE  TopicsInv'
<1> DEFINE n == IF T!ActiveTopic = 0 THEN 0 ELSE topics[T!ActiveTopic].count
           c == T!ActiveTopic
           r == [T!Idle EXCEPT !.pc = "thinking", !.current = c, !.count = n]
<1>1. work' = [work EXCEPT ![w] = r] /\ UNCHANGED <<story, topics, split>>
  BY DEF T!BeginTurn
<1>2. PICK C : TopicsTyped(C) /\ {c, n} \subseteq C /\ 0 \in C /\ FALSE \in C /\ TRUE \in C
  BY TypesThere
<1>3. r \in StepType(C) /\ r.pc = "thinking"
  <2>1. T!Idle \in StepType(C)
    BY <1>2, IdleStep
  <2> HIDE DEF c, n
  <2> QED BY <1>2, <2>1 DEF StepType, TopicSteps
<1> HIDE DEF r
<1> QED BY <1>1, <1>2, <1>3, GoesOn

LEMMA DoneKeeps ==
  ASSUME TopicsInv, NEW w \in T!Workers, T!Done(w), UNCHANGED <<story, topics, split>>
  PROVE  TopicsInv'
<1>1. PICK C : TopicsTyped(C) /\ {} \subseteq C /\ 0 \in C /\ FALSE \in C /\ TRUE \in C
  BY TypesThere
<1>2. T!Idle \in StepType(C) /\ T!Idle.pc = "idle"
  BY <1>1, IdleStep
<1> QED BY <1>1, <1>2, GoesOn DEF T!Done

LEMMA AnswerKeeps ==
  ASSUME TopicsInv, NEW w \in T!Workers, T!Answer(w)
  PROVE  TopicsInv'
<1>1. PICK d \in story.directives :
        LET n == T!normalizeTopicDirective(d, T!ActiveTopic # 0)
        IN work' = [work EXCEPT
             ![w].dir = n, ![w].topic = T!ActiveTopic,
             ![w].text = T!ActiveTopic # 0 /\ topics[T!ActiveTopic].text,
             ![w].pc = IF n.mode = "none" THEN "pause"
                       ELSE IF n.mode = "resolve" THEN "commit" ELSE "begin"]
  BY DEF T!Answer
<1> DEFINE n == T!normalizeTopicDirective(d, T!ActiveTopic # 0)
           c == T!ActiveTopic
           x == T!ActiveTopic # 0 /\ topics[T!ActiveTopic].text
           pc == IF n.mode = "none" THEN "pause"
                 ELSE IF n.mode = "resolve" THEN "commit" ELSE "begin"
           r == [work[w] EXCEPT !.dir = n, !.topic = c, !.text = x, !.pc = pc]
<1>2. PICK C : TopicsTyped(C) /\ {c, x} \subseteq C /\ 0 \in C /\ FALSE \in C /\ TRUE \in C
  BY TypesThere
<1>3. d \in T!Directives
  BY <1>2, DialogueAssumption DEF TopicsTyped
<1>4. n \in T!Directives
  BY <1>3, NormalDirective
<1>5. n.mode \in T!Modes
  BY <1>4 DEF T!Directives
<1>6. /\ pc \in TopicSteps /\ pc \in {"pause", "commit", "begin"}
      /\ pc = "commit" => n.mode = "resolve"
      /\ pc = "begin" => n.mode \in {"new", "continue"}
  BY <1>5 DEF T!Modes, TopicSteps
<1>7. work' = [work EXCEPT ![w] = r]
  BY <1>1, <1>2 DEF TopicsTyped, StepType
<1> HIDE DEF n, c, x, pc
<1>8. r \in StepType(C) /\ r.pc = pc /\ r.dir = n
  <2>1. work[w] \in StepType(C)
    BY <1>2, TopicAt
  <2>2. c \in C /\ x \in C
    BY <1>2, Zenon
  <2> QED BY <1>4, <1>6, <2>1, <2>2 DEF StepType
<1>9. UNCHANGED <<story, topics, split>>
  BY DEF T!Answer
<1> HIDE DEF r
<1> QED BY <1>2, <1>6, <1>7, <1>8, <1>9, GoesOn

LEMMA FailsKeeps ==
  ASSUME TopicsInv, NEW w \in T!Workers, T!TopicFails(w)
  PROVE  TopicsInv'
<1> DEFINE pc == IF work[w].current = 0 THEN "idle" ELSE "count"
           r == [work[w] EXCEPT !.topic = work[w].current, !.pc = pc, !.overlapped = FALSE,
                                !.seen = {}]
<1>1. PICK C : TopicsTyped(C) /\ {} \subseteq C /\ 0 \in C /\ FALSE \in C /\ TRUE \in C
  BY TypesThere
<1>2. work[w] \in StepType(C)
  BY <1>1, TopicAt
<1>3. work' = [work EXCEPT ![w] = r] /\ UNCHANGED <<story, topics, split>>
  BY <1>1 DEF T!TopicFails, TopicsTyped, StepType
<1>4. pc \in {"idle", "count"} /\ pc \in TopicSteps
  BY DEF TopicSteps
<1> HIDE DEF pc
<1>5. r \in StepType(C) /\ r.pc = pc
  BY <1>2, <1>4 DEF StepType
<1> HIDE DEF r
<1> QED BY <1>1, <1>3, <1>4, <1>5, GoesOn

(* The rows change, none becomes active, and one worker goes on.             *)
LEMMA RowsChange ==
  ASSUME TopicsInv, NEW C, TopicsTyped(C), NEW w \in T!Workers, NEW r \in StepType(C),
         work' = [work EXCEPT ![w] = r], topics' \in Seq(TopicType(C)),
         r.pc \notin {"begin", "commit"}, T!Active' \subseteq T!Active,
         story' = story, split' = split \/ T!Active' = {}
  PROVE  TopicsInv'
<1>1. /\ work' \in [T!Workers -> StepType(C)] /\ work'[w] = r
      /\ \A v \in T!Workers : v # w => work'[v] = work[v]
  BY StepSet
<1>2. TopicsTyped(C)'
  BY <1>1 DEF TopicsTyped
<1>3. \A v \in T!Workers :
        \/ work'[v] = work[v]
        \/ /\ T!OpenIn(v)' => T!OpenIn(v) /\ work'[v] = work[v]
           /\ work'[v].pc = "begin" => work'[v].dir.mode \in {"new", "continue"}
  <2>1. ~T!OpenIn(w)'
    BY <1>1 DEF T!OpenIn
  <2> QED BY <1>1, <2>1
<1> HIDE DEF TopicsInv
<1> QED BY <1>2, <1>3, QuietTopics

LEMMA CountKeeps ==
  ASSUME TopicsInv, NEW w \in T!Workers, T!Count(w)
  PROVE  TopicsInv'
<1> DEFINE i == work[w].topic
           n == T!CountOf(topics[i], work[w].dir.asked)
           entry == [topics[i] EXCEPT !.count = n]
<1>1. PICK C : TopicsTyped(C) /\ {n} \subseteq C /\ 0 \in C /\ FALSE \in C /\ TRUE \in C
  BY TypesThere
<1>2. i \in T!Ids => entry \in TopicType(C) /\ entry.status = topics[i].status
  <2> HIDE DEF n, i
  <2>1. i \in T!Ids => topics[i] \in TopicType(C)
    BY <1>1, TopicAt
  <2>2. n \in C
    BY <1>1, Zenon
  <2> QED BY <2>1, <2>2 DEF TopicType
<1>3. topics' = [topics EXCEPT ![i] = entry]
  <2>1. topics' = [topics EXCEPT ![i].count = n]
    BY DEF T!Count
  <2> HIDE DEF n, i
  <2> QED BY <2>1
<1>4. story' = story /\ split' = split
  BY DEF T!Count
<1>5. \/ work' = [work EXCEPT ![w] = T!Idle]
      \/ work' = [work EXCEPT ![w] = [work[w] EXCEPT !.pc = "reset"]]
  BY <1>1 DEF T!Count, TopicsTyped
<1> DEFINE there == [work[w] EXCEPT !.pc = "reset"]
<1>6. /\ there \in StepType(C) /\ there.pc = "reset"
      /\ T!Idle \in StepType(C) /\ T!Idle.pc = "idle"
  <2>1. work[w] \in StepType(C)
    BY <1>1, TopicAt
  <2>2. there \in StepType(C) /\ there.pc = "reset"
    BY <2>1 DEF StepType, TopicSteps
  <2> QED BY <1>1, <2>2, IdleStep
<1> HIDE DEF i, entry, there
<1>7. topics' \in Seq(TopicType(C)) /\ T!Active' = T!Active
  BY <1>1, <1>2, <1>3, TopicRowSet
<1> QED BY <1>1, <1>4, <1>5, <1>6, <1>7, RowsChange DEF there

LEMMA CountFailsKeeps ==
  ASSUME TopicsInv, NEW w \in T!Workers, T!CountFails(w)
  PROVE  TopicsInv'
<1> DEFINE there == [work[w] EXCEPT !.pc = "reset"]
<1>1. PICK C : TopicsTyped(C) /\ {} \subseteq C /\ 0 \in C /\ FALSE \in C /\ TRUE \in C
  BY TypesThere
<1>2. \/ work' = [work EXCEPT ![w] = T!Idle]
      \/ work' = [work EXCEPT ![w] = there]
  BY <1>1 DEF T!CountFails, TopicsTyped
<1>3. UNCHANGED <<story, topics, split>>
  BY DEF T!CountFails
<1>4. /\ there \in StepType(C) /\ there.pc = "reset"
      /\ T!Idle \in StepType(C) /\ T!Idle.pc = "idle"
  <2>1. work[w] \in StepType(C)
    BY <1>1, TopicAt
  <2>2. there \in StepType(C) /\ there.pc = "reset"
    BY <2>1 DEF StepType, TopicSteps
  <2> QED BY <1>1, <2>2, IdleStep
<1> HIDE DEF there
<1> QED BY <1>1, <1>2, <1>3, <1>4, GoesOn

LEMMA ResetKeeps ==
  ASSUME TopicsInv, NEW w \in T!Workers, T!Reset(w)
  PROVE  TopicsInv'
<1>1. CASE topics' = topics
  BY <1>1, DoneKeeps DEF T!Reset
<1>2. CASE topics' # topics
  <2> DEFINE i == work[w].topic
             entry == [topics[i] EXCEPT !.count = 0]
  <2>1. PICK C : TopicsTyped(C) /\ {} \subseteq C /\ 0 \in C /\ FALSE \in C /\ TRUE \in C
    BY TypesThere
  <2>2. i \in T!Ids => entry \in TopicType(C) /\ entry.status = topics[i].status
    BY <2>1, TopicAt DEF TopicType
  <2>3. topics' = [topics EXCEPT ![i] = entry] /\ story' = story /\ split' = split
    BY <1>2 DEF T!Reset
  <2>4. work' = [work EXCEPT ![w] = T!Idle] /\ T!Idle \in StepType(C) /\ T!Idle.pc = "idle"
    BY <2>1, IdleStep DEF T!Reset, T!Done
  <2> HIDE DEF i, entry
  <2>5. topics' \in Seq(TopicType(C)) /\ T!Active' = T!Active
    BY <2>1, <2>2, <2>3, TopicRowSet
  <2> QED BY <2>1, <2>3, <2>4, <2>5, RowsChange
<1> QED BY <1>1, <1>2

LEMMA ResolveKeeps ==
  ASSUME TopicsInv, NEW w \in T!Workers, T!ResolveTopic(w)
  PROVE  TopicsInv'
<1>1. CASE topics' = topics
  BY <1>1, DoneKeeps DEF T!ResolveTopic
<1>2. CASE topics' # topics
  <2> DEFINE i == work[w].topic
             at == T!Latest + 1
             entry == [topics[i] EXCEPT !.status = "resolved", !.count = 0, !.at = at]
  <2>1. PICK C : TopicsTyped(C) /\ {at} \subseteq C /\ 0 \in C /\ FALSE \in C /\ TRUE \in C
    BY TypesThere
  <2>2. i \in T!Ids => entry \in TopicType(C) /\ entry.status = "resolved"
    <3> HIDE DEF i, at
    <3>1. i \in T!Ids => topics[i] \in TopicType(C)
      BY <2>1, TopicAt
    <3>2. at \in C
      BY <2>1, Zenon
    <3> QED BY <2>1, <3>1, <3>2 DEF TopicType, T!Statuses
  <2>3. topics' = [topics EXCEPT ![i] = entry] /\ story' = story /\ split' = split
    BY <1>2 DEF T!ResolveTopic
  <2>4. work' = [work EXCEPT ![w] = T!Idle] /\ T!Idle \in StepType(C) /\ T!Idle.pc = "idle"
    BY <2>1, IdleStep DEF T!ResolveTopic, T!Done
  <2> HIDE DEF i, entry
  <2>5. topics' \in Seq(TopicType(C)) /\ T!Active' \subseteq T!Active
    BY <2>1, <2>2, <2>3, TopicRowSet
  <2> QED BY <2>1, <2>3, <2>4, <2>5, RowsChange
<1> QED BY <1>1, <1>2

LEMMA PauseKeeps ==
  ASSUME TopicsInv, NEW w \in T!Workers, T!PauseActive(w)
  PROVE  TopicsInv'
<1>1. PICK C : TopicsTyped(C) /\ {} \subseteq C /\ 0 \in C /\ FALSE \in C /\ TRUE \in C
  BY TypesThere
<1>2. /\ topics' = T!Paused(topics, T!Active) /\ story' = story
      /\ work' = [work EXCEPT ![w] = T!Idle] /\ T!Idle \in StepType(C) /\ T!Idle.pc = "idle"
  BY <1>1, IdleStep DEF T!PauseActive, T!Done
<1>3. /\ topics' \in Seq(TopicType(C)) /\ Len(topics') = Len(topics)
      /\ \A i \in T!Ids : topics'[i].status # "active"
  BY <1>1, <1>2, PausedRows
<1>4. T!Active' = {}
  BY <1>3 DEF T!Active, T!WithStatus, T!Ids
<1> QED BY <1>1, <1>2, <1>3, <1>4, RowsChange

LEMMA AskKeeps ==
  ASSUME TopicsInv, NEW w \in T!Workers, T!AskToEnd(w) \/ T!AskToPause(w)
  PROVE  TopicsInv'
<1> DEFINE c == T!ActiveTopic
           r == IF T!AskToEnd(w) THEN [T!Idle EXCEPT !.pc = "resolve", !.topic = c]
                ELSE [T!Idle EXCEPT !.pc = "pause", !.told = TRUE]
<1>1. work' = [work EXCEPT ![w] = r] /\ UNCHANGED <<story, topics, split>>
  BY DEF T!AskToEnd, T!AskToPause
<1>2. PICK C : TopicsTyped(C) /\ {c} \subseteq C /\ 0 \in C /\ FALSE \in C /\ TRUE \in C
  BY TypesThere
<1>3. r \in StepType(C) /\ r.pc \in {"resolve", "pause"}
  <2>1. T!Idle \in StepType(C)
    BY <1>2, IdleStep
  <2> HIDE DEF c
  <2> QED BY <1>2, <2>1 DEF StepType, TopicSteps
<1> HIDE DEF r
<1> QED BY <1>1, <1>2, <1>3, GoesOn

LEMMA ProfileKeeps ==
  ASSUME TopicsInv, T!StartProfile
  PROVE  TopicsInv'
<1> DEFINE r == [T!Idle EXCEPT !.pc = "begin", !.told = TRUE,
                   !.dir = [T!NoDirective EXCEPT !.mode = "new"]]
<1>1. /\ work' = [work EXCEPT !["handler"] = r] /\ UNCHANGED <<story, topics, split>>
      /\ "handler" \in T!Workers
  BY DEF T!StartProfile, T!Workers
<1>2. PICK C : TopicsTyped(C) /\ {} \subseteq C /\ 0 \in C /\ FALSE \in C /\ TRUE \in C
  BY TypesThere
<1>3. r \in StepType(C) /\ r.pc = "begin" /\ r.dir.mode = "new"
  <2>1. T!Idle \in StepType(C)
    BY <1>2, IdleStep
  <2>2. [T!NoDirective EXCEPT !.mode = "new"] \in T!Directives
        /\ [T!NoDirective EXCEPT !.mode = "new"].mode = "new"
    BY DEF T!NoDirective, T!Directives, T!Modes
  <2> QED BY <1>2, <2>1, <2>2 DEF StepType, TopicSteps
<1> HIDE DEF r
<1> QED BY <1>1, <1>2, <1>3, GoesOn

LEMMA AgeKeeps ==
  ASSUME TopicsInv, NEW i \in T!Ids, T!Age(i)
  PROVE  TopicsInv'
<1> DEFINE entry == [topics[i] EXCEPT !.fresh = FALSE]
<1>1. PICK C : TopicsTyped(C) /\ {} \subseteq C /\ 0 \in C /\ FALSE \in C /\ TRUE \in C
  BY TypesThere
<1>2. entry \in TopicType(C) /\ entry.status = topics[i].status
  BY <1>1, TopicAt DEF TopicType
<1>3. topics' = [topics EXCEPT ![i] = entry] /\ UNCHANGED <<story, work, split>>
  BY DEF T!Age
<1> HIDE DEF entry
<1>4. topics' \in Seq(TopicType(C)) /\ T!Active' = T!Active
  BY <1>1, <1>2, <1>3, TopicRowSet
<1>5. TopicsTyped(C)'
  BY <1>1, <1>3, <1>4 DEF TopicsTyped
<1> HIDE DEF TopicsInv
<1> QED BY <1>3, <1>4, <1>5, QuietTopics

LEMMA ScrubReadKeeps ==
  ASSUME TopicsInv, T!ScrubRead
  PROVE  TopicsInv'
<1> DEFINE seen == T!Expired
           r == [T!Idle EXCEPT !.pc = "scrub", !.seen = seen]
<1>1. /\ work' = [work EXCEPT !["maintenance"] = r] /\ UNCHANGED <<story, topics, split>>
      /\ "maintenance" \in T!Workers
  BY DEF T!ScrubRead, T!Workers
<1>2. PICK C : TopicsTyped(C) /\ {} \subseteq C /\ 0 \in C /\ FALSE \in C /\ TRUE \in C
  BY TypesThere
<1>3. r \in StepType(C) /\ r.pc = "scrub"
  <2>1. T!Idle \in StepType(C)
    BY <1>2, IdleStep
  <2>2. seen \in SUBSET Nat
    BY <1>2, TopicAt DEF T!Expired
  <2> HIDE DEF seen
  <2> QED BY <2>1, <2>2 DEF StepType, TopicSteps
<1> HIDE DEF r
<1> QED BY <1>1, <1>2, <1>3, GoesOn

LEMMA ScrubWriteKeeps ==
  ASSUME TopicsInv, T!ScrubWrite
  PROVE  TopicsInv'
<1> DEFINE seen == work["maintenance"].seen
           entry(i) == [topics[i] EXCEPT !.status = "abandoned", !.text = FALSE]
<1>1. PICK C : TopicsTyped(C) /\ {} \subseteq C /\ 0 \in C /\ FALSE \in C /\ TRUE \in C
  BY TypesThere
<1>2. /\ topics' = [i \in T!Ids |-> IF i \in seen THEN entry(i) ELSE topics[i]]
      /\ work' = [work EXCEPT !["maintenance"] = T!Idle] /\ "maintenance" \in T!Workers
      /\ story' = story /\ split' = split
      /\ T!Idle \in StepType(C) /\ T!Idle.pc = "idle"
  BY <1>1, IdleStep DEF T!ScrubWrite, T!Done, T!Workers
<1>3. \A i \in T!Ids : /\ topics[i] \in TopicType(C) /\ entry(i) \in TopicType(C)
                       /\ entry(i).status # "active"
  BY <1>1, TopicAt DEF TopicType, T!Statuses
<1> HIDE DEF entry, seen
<1>4. /\ topics' = [i \in T!Ids |-> topics'[i]]
      /\ \A i \in T!Ids : topics'[i] \in TopicType(C)
      /\ \A i \in T!Ids : topics'[i].status = "active" => topics[i].status = "active"
  BY <1>2, <1>3
<1>5. /\ topics' \in Seq(TopicType(C))
      /\ T!Active' = {i \in T!Ids : topics'[i].status = "active"}
  BY <1>1, <1>4, RowsKept
<1>6. T!Active' \subseteq T!Active
  BY <1>4, <1>5 DEF T!Active, T!WithStatus
<1> QED BY <1>1, <1>2, <1>5, <1>6, RowsChange
-----------------------------------------------------------------------------
(* The first statement of a transaction that opens a topic: whoever else is   *)
(* at it is marked, and so is this one.                                      *)
LEMMA BeginKeeps ==
  ASSUME TopicsInv, NEW w \in T!Workers, T!Begin(w)
  PROVE  TopicsInv'
<1> DEFINE others == {v \in T!Workers \ {w} : T!OpenIn(v)}
           seen == IF work[w].dir.mode = "new" THEN T!Active ELSE T!Active \ {work[w].topic}
           here == [work[w] EXCEPT !.pc = "commit", !.overlapped = others # {}, !.seen = seen]
           there(v) == [work[v] EXCEPT !.overlapped = TRUE]
<1>1. PICK C : TopicsTyped(C) /\ {} \subseteq C /\ 0 \in C /\ FALSE \in C /\ TRUE \in C
  BY TypesThere
<1>2. /\ Opening /\ OneOpen /\ \A v \in T!Workers : work[v] \in StepType(C)
      /\ work[w].pc = "begin" /\ work[w].dir.mode \in {"new", "continue"}
      /\ UNCHANGED <<story, topics, budget, split>>
  BY <1>1, TopicAt DEF TopicsInv, Opening, T!Begin
<1>3. seen \in SUBSET Nat
  BY <1>1, TopicAt
<1>4. work' = [v \in T!Workers |-> IF v = w THEN here
                                   ELSE IF v \in others THEN there(v) ELSE work[v]]
  BY DEF T!Begin
<1>5. /\ here.pc = "commit" /\ here.dir = work[w].dir /\ here.topic = work[w].topic
      /\ here.overlapped = (others # {}) /\ here.seen = seen /\ here \in StepType(C)
  <2> DEFINE b == others # {}
  <2>1. b \in BOOLEAN
    OBVIOUS
  <2> HIDE DEF b, seen
  <2> QED BY <1>2, <1>3, <2>1 DEF StepType, TopicSteps
<1>6. \A v \in T!Workers :
        /\ there(v) \in StepType(C) /\ there(v).pc = work[v].pc /\ there(v).dir = work[v].dir
        /\ there(v).overlapped = TRUE
  BY <1>2 DEF StepType
<1> HIDE DEF here, there
<1>7. /\ work'[w] = here
      /\ \A v \in T!Workers \ {w} : IF v \in others THEN work'[v] = there(v)
                                    ELSE work'[v] = work[v]
      /\ work' \in [T!Workers -> StepType(C)]
  BY <1>2, <1>4, <1>5, <1>6
<1>8. TopicsTyped(C)'
  BY <1>1, <1>2, <1>7 DEF TopicsTyped
<1>9. T!Active' = T!Active
  BY <1>2 DEF T!Active, T!WithStatus, T!Ids
<1>10. \A v \in T!Workers \ {w} :
         /\ work'[v].pc = work[v].pc /\ work'[v].dir = work[v].dir
         /\ T!OpenIn(v)' => T!OpenIn(v) /\ v \in others /\ work'[v].overlapped = TRUE
  <2> HIDE DEF others
  <2>1. \A v \in T!Workers \ {w} : work'[v].pc = work[v].pc /\ work'[v].dir = work[v].dir
    BY <1>6, <1>7
  <2>2. \A v \in T!Workers \ {w} : T!OpenIn(v)' => T!OpenIn(v)
    BY <2>1 DEF T!OpenIn
  <2>3. \A v \in T!Workers \ {w} : T!OpenIn(v) => v \in others
    BY DEF others
  <2> QED BY <1>6, <1>7, <2>1, <2>2, <2>3
<1>11. T!Active \subseteq seen \cup Own(w)'
  <2>1. Own(w)' = Own(w)
    BY <1>5, <1>7 DEF Own
  <2> QED BY <1>2, <2>1 DEF Own
<1> HIDE DEF others, seen
<1>12. Opening'
  <2>1. \A v \in T!Workers :
          /\ work'[v].pc = "begin" => work'[v].dir.mode \in {"new", "continue"}
          /\ T!OpenIn(v)' => work'[v].dir.mode \in {"new", "continue"}
    <3> SUFFICES ASSUME NEW v \in T!Workers
                 PROVE  /\ work'[v].pc = "begin" => work'[v].dir.mode \in {"new", "continue"}
                        /\ T!OpenIn(v)' => work'[v].dir.mode \in {"new", "continue"}
      OBVIOUS
    <3>1. CASE v = w
      BY <1>2, <1>5, <1>7, <3>1
    <3>2. CASE v # w
      BY <1>2, <1>10, <3>2 DEF Opening
    <3> QED BY <3>1, <3>2
  <2>2. \A v \in T!Workers : T!OpenIn(v)' /\ ~work'[v].overlapped =>
          T!Active' \subseteq work'[v].seen \cup Own(v)'
    <3> SUFFICES ASSUME NEW v \in T!Workers, T!OpenIn(v)', ~work'[v].overlapped
                 PROVE  T!Active' \subseteq work'[v].seen \cup Own(v)'
      OBVIOUS
    <3>1. v = w
      BY <1>10
    <3> QED BY <1>5, <1>7, <1>9, <1>11, <3>1
  <2>3. \A u, v \in T!Workers : u # v /\ T!OpenIn(u)' /\ T!OpenIn(v)' => work'[v].overlapped
    <3> SUFFICES ASSUME NEW u \in T!Workers, NEW v \in T!Workers, u # v, T!OpenIn(u)', T!OpenIn(v)'
                 PROVE  work'[v].overlapped
      OBVIOUS
    <3>1. CASE v # w
      BY <1>10, <3>1
    <3>2. CASE v = w
      <4>1. u \in others
        BY <1>10, <3>2
      <4>2. here.overlapped
        BY <1>5, <4>1
      <4> QED BY <1>7, <3>2, <4>2
    <3> QED BY <3>1, <3>2
  <2> QED BY <2>1, <2>2, <2>3 DEF Opening
<1>13. OneOpen'
  BY <1>2, <1>9 DEF OneOpen
<1> QED BY <1>8, <1>12, <1>13 DEF TopicsInv

(* The second statement and the commit: of what was active only what was      *)
(* opened since its first statement may still be, and its own topic is.       *)
LEMMA CommitKeeps ==
  ASSUME TopicsInv, NEW C, TopicsTyped(C), NEW w \in T!Workers, T!OpenIn(w), NEW i,
         NEW r \in StepType(C), work' = [work EXCEPT ![w] = r],
         r.pc \notin {"begin", "commit"}, topics' \in Seq(TopicType(C)), story' = story,
         split' = work[w].overlapped, T!Active' \subseteq (T!Active \ work[w].seen) \cup {i},
         work[w].dir.mode = "continue" => i = work[w].topic
  PROVE  TopicsInv'
<1>1. Opening
  BY DEF TopicsInv
<1>2. /\ work' \in [T!Workers -> StepType(C)] /\ work'[w] = r
      /\ \A v \in T!Workers : v # w => work'[v] = work[v]
  BY StepSet
<1>3. TopicsTyped(C)'
  BY <1>2 DEF TopicsTyped
<1>4. ~T!OpenIn(w)'
  BY <1>2 DEF T!OpenIn
<1>5. \A v \in T!Workers : T!OpenIn(v)' => v # w /\ T!OpenIn(v) /\ work'[v] = work[v]
  BY <1>2, <1>4 DEF T!OpenIn
<1>6. \A v \in T!Workers : T!OpenIn(v)' => work'[v].overlapped
  BY <1>1, <1>5 DEF Opening
<1>7. Opening'
  <2>1. \A v \in T!Workers :
          /\ work'[v].pc = "begin" => work'[v].dir.mode \in {"new", "continue"}
          /\ T!OpenIn(v)' => work'[v].dir.mode \in {"new", "continue"}
    BY <1>1, <1>2, <1>5 DEF Opening
  <2> QED BY <1>6, <2>1 DEF Opening
<1>8. OneOpen'
  <2> SUFFICES ASSUME ~split' PROVE \A j, k \in T!Active' : j = k
    BY DEF OneOpen
  <2>1. T!Active \subseteq work[w].seen \cup Own(w)
    BY <1>1 DEF Opening
  <2>2. T!Active' \subseteq {i}
    BY <2>1 DEF Own
  <2> QED BY <2>2
<1> QED BY <1>3, <1>7, <1>8 DEF TopicsInv

LEMMA CreateKeeps ==
  ASSUME TopicsInv, NEW w \in T!Workers, T!CreateTopic(w)
  PROVE  TopicsInv'
<1> DEFINE at == T!Latest + 1
           entry == [status |-> "active", text |-> TRUE, fresh |-> TRUE, count |-> 0, at |-> at]
           t == T!Paused(topics, work[w].seen)
           n == Len(topics) + 1
           there == [work[w] EXCEPT !.pc = "count", !.topic = n]
<1>1. PICK C : TopicsTyped(C) /\ {at, n} \subseteq C /\ 0 \in C /\ FALSE \in C /\ TRUE \in C
  BY TypesThere
<1>2. at \in C /\ n \in C
  BY <1>1, Zenon
<1>3. /\ topics' = Append(t, entry) /\ split' = work[w].overlapped /\ story' = story
      /\ work[w].pc = "commit" /\ work[w].dir.mode = "new" /\ T!OpenIn(w)
      /\ \/ work' = [work EXCEPT ![w] = T!Idle]
         \/ work' = [work EXCEPT ![w] = there]
  BY <1>1 DEF T!CreateTopic, T!OpenIn, TopicsTyped
<1>4. Len(topics) \in Nat /\ T!Ids = 1 .. Len(topics) /\ work[w] \in StepType(C)
  BY <1>1, TopicAt
<1>5. /\ t \in Seq(TopicType(C)) /\ Len(t) = Len(topics)
      /\ \A i \in T!Ids : t[i].status = "active" <=> i \in T!Active /\ i \notin work[w].seen
  BY <1>1, PausedRows
<1>6. entry \in TopicType(C) /\ entry.status = "active"
  <2> HIDE DEF at
  <2> QED BY <1>1, <1>2 DEF TopicType, T!Statuses
<1>7. /\ there \in StepType(C) /\ there.pc = "count"
      /\ T!Idle \in StepType(C) /\ T!Idle.pc = "idle"
  <2> HIDE DEF n
  <2>1. there \in StepType(C) /\ there.pc = "count"
    BY <1>2, <1>4 DEF StepType, TopicSteps
  <2> QED BY <1>1, <2>1, IdleStep
<1> HIDE DEF entry, t, there, at
<1>8. /\ topics' \in Seq(TopicType(C)) /\ Len(topics') = n
      /\ \A i \in 1 .. Len(topics) : topics'[i] = t[i]
  BY <1>3, <1>4, <1>5, <1>6
<1>9. T!Active' \subseteq (T!Active \ work[w].seen) \cup {n}
  BY <1>4, <1>5, <1>8 DEF T!Active, T!WithStatus, T!Ids
<1> HIDE DEF n
<1> QED BY <1>1, <1>3, <1>7, <1>8, <1>9, CommitKeeps

LEMMA UpdateKeeps ==
  ASSUME TopicsInv, NEW w \in T!Workers, T!UpdateTopic(w)
  PROVE  TopicsInv'
<1> DEFINE at == T!Latest + 1
           l == work[w]
           i == l.topic
           x == l.dir.title \/ l.dir.summary \/ l.text
           status == IF l.dir.mode = "resolve" THEN "resolved" ELSE "active"
           t == T!Paused(topics, l.seen)
           entry == [t[i] EXCEPT !.status = status, !.text = x, !.fresh = TRUE, !.at = at]
           r == [l EXCEPT !.pc = "count"]
<1>1. PICK C : TopicsTyped(C) /\ {at, x} \subseteq C /\ 0 \in C /\ FALSE \in C /\ TRUE \in C
  BY TypesThere
<1>2. at \in C /\ x \in C
  BY <1>1, Zenon
<1>3. /\ topics' = [t EXCEPT ![i] = entry] /\ story' = story
      /\ split' = IF l.dir.mode = "resolve" THEN split ELSE l.overlapped
      /\ l.pc = "commit" /\ l.dir.mode \in {"continue", "resolve"}
  BY DEF T!UpdateTopic, T!Continued
<1>4. work' = [work EXCEPT ![w] = r]
  BY <1>1 DEF T!UpdateTopic, T!Goto, TopicsTyped
<1>5. l \in StepType(C) /\ T!Ids = 1 .. Len(topics) /\ Len(topics) \in Nat
  BY <1>1, TopicAt
<1>6. r \in StepType(C) /\ r.pc = "count"
  BY <1>5 DEF StepType, TopicSteps
<1>7. /\ t \in Seq(TopicType(C)) /\ Len(t) = Len(topics)
      /\ \A j \in T!Ids : /\ t[j] \in TopicType(C)
                          /\ t[j].status = "active" <=> j \in T!Active /\ j \notin l.seen
  BY <1>1, PausedRows
<1>8. i \in T!Ids => entry \in TopicType(C) /\ entry.status = status
  <2> HIDE DEF t, at, x, i
  <2>1. status \in T!Statuses
    BY DEF T!Statuses
  <2> HIDE DEF status
  <2> QED BY <1>1, <1>2, <1>7, <2>1 DEF TopicType
<1> HIDE DEF t, entry, r, at, x, i
<1>9. /\ topics' = [j \in T!Ids |-> topics'[j]]
      /\ \A j \in T!Ids : topics'[j] = IF j = i THEN entry ELSE t[j]
  <2>1. DOMAIN t = 1 .. Len(t)
    BY <1>7
  <2>2. DOMAIN t = T!Ids
    BY <1>5, <1>7, <2>1
  <2> QED BY <1>3, <2>2
<1>10. \A j \in T!Ids : topics'[j] \in TopicType(C)
  BY <1>7, <1>8, <1>9
<1>11. /\ topics' \in Seq(TopicType(C))
       /\ T!Active' = {j \in T!Ids : topics'[j].status = "active"}
  BY <1>1, <1>9, <1>10, RowsKept
<1>12. T!Active' \subseteq (T!Active \ l.seen) \cup {i}
  BY <1>7, <1>9, <1>11
<1>13. CASE l.dir.mode = "resolve"
  <2>1. status # "active"
    BY <1>13
  <2> HIDE DEF status
  <2>2. i \notin T!Active'
    BY <1>8, <1>9, <1>11, <2>1
  <2>3. T!Active' \subseteq T!Active
    BY <1>12, <2>2
  <2>4. split' = split
    BY <1>3, <1>13
  <2> HIDE DEF l
  <2> QED BY <1>1, <1>3, <1>4, <1>6, <1>11, <2>3, <2>4, RowsChange
<1>14. CASE l.dir.mode = "continue"
  <2>1. T!OpenIn(w)
    BY <1>3, <1>14 DEF T!OpenIn
  <2>2. split' = work[w].overlapped /\ i = work[w].topic
    BY <1>3, <1>14 DEF i
  <2>3. T!Active' \subseteq (T!Active \ work[w].seen) \cup {i}
    BY <1>12
  <2> HIDE DEF l, status
  <2> QED BY <1>1, <1>3, <1>4, <1>6, <1>11, <2>1, <2>2, <2>3, CommitKeeps
<1> QED BY <1>3, <1>13, <1>14
-----------------------------------------------------------------------------
LEMMA TopicsStutter == TopicsInv /\ UNCHANGED T!vars => TopicsInv'
<1> SUFFICES ASSUME TopicsInv, UNCHANGED T!vars PROVE TopicsInv'
  OBVIOUS
<1>1. UNCHANGED <<story, topics, work, split>>
  BY DEF T!vars
<1>2. PICK C : TopicsTyped(C) /\ {} \subseteq C /\ 0 \in C /\ FALSE \in C /\ TRUE \in C
  BY TypesThere
<1>3. TopicsTyped(C)' /\ T!Active' = T!Active
  BY <1>1, <1>2 DEF TopicsTyped, T!Active, T!WithStatus, T!Ids
<1> HIDE DEF TopicsInv
<1> QED BY <1>1, <1>3, QuietTopics

LEMMA TopicsStep == TopicsInv /\ [T!Next]_(T!vars) => TopicsInv'
<1> SUFFICES ASSUME TopicsInv, [T!Next]_(T!vars) PROVE TopicsInv'
  OBVIOUS
<1>1. ASSUME NEW w \in T!Workers, T!Turn(w) PROVE TopicsInv'
  <2>1. CASE T!AnswerWithoutSaving(w)
    BY <2>1, DoneKeeps DEF T!AnswerWithoutSaving
  <2> QED BY <1>1, <2>1, BeginTurnKeeps, AnswerKeeps, BeginKeeps, CreateKeeps, UpdateKeeps,
             FailsKeeps, CountKeeps, CountFailsKeeps, ResetKeeps DEF T!Turn
<1>2. ASSUME NEW w \in T!Workers, T!Ask(w) PROVE TopicsInv'
  BY <1>2, AskKeeps, ResolveKeeps, PauseKeeps DEF T!Ask
<1>3. CASE T!StartProfile \/ (\E i \in T!Ids : T!Age(i)) \/ T!ScrubRead \/ T!ScrubWrite
  BY <1>3, ProfileKeeps, AgeKeeps, ScrubReadKeeps, ScrubWriteKeeps
<1>4. CASE UNCHANGED T!vars
  BY <1>4, TopicsStutter
<1> QED BY <1>1, <1>2, <1>3, <1>4 DEF T!Next

LEMMA TopicCardinality == T!Cardinality(T!Active) = Cardinality(T!Active)
BY DEF T!Cardinality, Cardinality

LEMMA OneTopicFact == TopicsInv => T!OneTopicIsOpen
<1> SUFFICES ASSUME TopicsInv, ~split PROVE Cardinality(T!Active) <= 1
  BY TopicCardinality DEF T!OneTopicIsOpen
<1>1. \A i, j \in T!Active : i = j
  BY DEF TopicsInv, OneOpen
<1>2. CASE T!Active = {}
  BY <1>2, FS_EmptySet
<1>3. CASE T!Active # {}
  <2>1. PICK i \in T!Active : TRUE
    BY <1>3
  <2>2. T!Active = {i}
    BY <1>1, <2>1
  <2>3. Cardinality({i}) = 1
    BY FS_Singleton
  <2> QED BY <2>2, <2>3
<1> QED BY <1>2, <1>3
-----------------------------------------------------------------------------
(* The settings.                                                            *)
(* The row, the screen and the journal have their fields, whatever they hold. *)
GroupType(C) == [before: C, after: C, post: Nat, status: {"applied", "undone"}]
RowType(C) == [version: Nat, columns: C, pendingInput: C, onboarded: C]
Kept(C) == row \in RowType(C) /\ journal \in Seq(GroupType(C))

(* A group was written at a version the row has passed, or it is the last who *)
(* wrote its columns: no write of them leaves the version as it was.          *)
LastWriter ==
  \A i \in 1 .. Len(journal) :
    /\ journal[i].post <= row.version
    /\ journal[i].post = row.version => row.columns = journal[i].after
SettingsInv == (\E C : Kept(C)) /\ LastWriter
-----------------------------------------------------------------------------
LEMMA SettingsInit == S!Init => SettingsInv
<1> SUFFICES ASSUME S!Init PROVE SettingsInv
  OBVIOUS
<1> DEFINE C == {story.start, S!Null, FALSE}
<1>1. /\ row = [version |-> 1, columns |-> story.start, pendingInput |-> S!Null,
               onboarded |-> FALSE]
      /\ journal = << >>
  BY DEF S!Init
<1>2. story.start \in C /\ S!Null \in C /\ FALSE \in C
  BY Zenon
<1> HIDE DEF C
<1>3. Kept(C)
  <2>1. row \in RowType(C)
    <3>1. 1 \in Nat
      OBVIOUS
    <3> QED BY <1>1, <1>2, <3>1, Zenon DEF RowType
  <2>2. journal \in Seq(GroupType(C))
    BY <1>1
  <2> QED BY <2>1, <2>2 DEF Kept
<1>4. LastWriter
  BY <1>1 DEF LastWriter
<1> QED BY <1>3, <1>4 DEF SettingsInv

(* What is typed stays typed when more may be held.                           *)
LEMMA KeptWider ==
  ASSUME SettingsInv, NEW x, NEW y
  PROVE  \E C : Kept(C) /\ x \in C /\ y \in C
<1>1. PICK B : Kept(B)
  BY DEF SettingsInv
<1> DEFINE C == B \cup {x, y}
<1>2. B \subseteq C /\ x \in C /\ y \in C
  BY Zenon
<1> HIDE DEF C
<1>3. GroupType(B) \subseteq GroupType(C) /\ RowType(B) \subseteq RowType(C)
  BY <1>2, Zenon DEF GroupType, RowType
<1>4. journal \in Seq(GroupType(C))
  <2>1. Len(journal) \in Nat /\ journal \in [1 .. Len(journal) -> GroupType(B)]
    BY <1>1 DEF Kept
  <2>2. journal \in [1 .. Len(journal) -> GroupType(C)]
    BY <1>3, <2>1, Zenon
  <2> QED BY <2>1, <2>2
<1>5. Kept(C)
  BY <1>1, <1>3, <1>4 DEF Kept
<1> QED BY <1>2, <1>5

(* The columns stay, whatever else of the row is written.                     *)
LEMMA PromptKeeps ==
  ASSUME SettingsInv, NEW x, NEW y, UNCHANGED journal,
         row' = [row EXCEPT !.pendingInput = x, !.onboarded = y]
  PROVE  SettingsInv'
<1>1. PICK C : Kept(C) /\ x \in C /\ y \in C
  BY KeptWider
<1>2. row' \in RowType(C) /\ row'.version = row.version /\ row'.columns = row.columns
  BY <1>1 DEF Kept, RowType
<1>3. Kept(C)'
  BY <1>1, <1>2 DEF Kept, RowType, GroupType
<1>4. LastWriter'
  BY <1>2 DEF SettingsInv, LastWriter
<1> QED BY <1>3, <1>4 DEF SettingsInv

LEMMA RowWritten ==
  ASSUME NEW C, Kept(C), NEW x \in C, row' = [row EXCEPT !.columns = x, !.version = @ + 1]
  PROVE  /\ row' \in RowType(C) /\ row'.columns = x
         /\ row.version \in Nat /\ row'.version = row.version + 1
<1>1. row \in RowType(C)
  BY DEF Kept
<1>2. row.version \in Nat /\ row.version + 1 \in Nat
  BY <1>1 DEF RowType
<1>3. row' \in RowType(C)
  BY <1>1, <1>2, Zenon DEF RowType
<1>4. row'.columns = x /\ row'.version = row.version + 1
  BY <1>1 DEF RowType
<1> QED BY <1>2, <1>3, <1>4

LEMMA GroupAt ==
  ASSUME NEW C, Kept(C)
  PROVE  /\ Len(journal) \in Nat /\ DOMAIN journal = 1 .. Len(journal)
         /\ \A i \in 1 .. Len(journal) :
              journal[i] \in GroupType(C) /\ journal[i].post \in Nat /\ journal[i].before \in C
<1>1. journal \in Seq(GroupType(C))
  BY DEF Kept
<1>2. /\ Len(journal) \in Nat /\ DOMAIN journal = 1 .. Len(journal)
      /\ \A i \in 1 .. Len(journal) : journal[i] \in GroupType(C)
  BY <1>1
<1> QED BY <1>2 DEF GroupType

(* A write of the columns raises the version, past that of every group.       *)
LEMMA ColumnsKeep ==
  ASSUME SettingsInv, NEW x, UNCHANGED journal,
         row' = [row EXCEPT !.columns = x, !.version = @ + 1]
  PROVE  SettingsInv'
<1>1. PICK C : Kept(C) /\ x \in C
  BY KeptWider
<1>2. row' \in RowType(C) /\ row'.version = row.version + 1 /\ row.version \in Nat
  BY <1>1, RowWritten
<1>3. Kept(C)'
  BY <1>1, <1>2 DEF Kept, RowType, GroupType
<1>4. \A i \in 1 .. Len(journal) : journal[i].post \in Nat
  BY <1>1, GroupAt
<1>5. LastWriter'
  BY <1>2, <1>4 DEF SettingsInv, LastWriter
<1> QED BY <1>3, <1>5 DEF SettingsInv

(* A journalled write is its own group's, at the version it makes.            *)
LEMMA JournalKeeps ==
  ASSUME SettingsInv, NEW change, S!updateSettingsInTx(change)
  PROVE  SettingsInv' /\ S!OwnUndo
<1>1. PICK x : S!applyPatch(row, S!buildSettingsPatch(row.columns, change, row.columns.timezone))
                 = [row EXCEPT !.columns = x, !.version = @ + 1]
  BY DEF S!applyPatch
<1> DEFINE g == [before |-> row.columns, after |-> x, post |-> row.version + 1,
                 status |-> "applied"]
<1>2. row' = [row EXCEPT !.columns = x, !.version = @ + 1]
  BY <1>1 DEF S!updateSettingsInTx
<1>10. PICK C : Kept(C) /\ x \in C
  BY KeptWider
<1>3. /\ row' \in RowType(C) /\ row'.version = row.version + 1 /\ row.version \in Nat
      /\ row'.columns = x /\ row.columns \in C
  <2>1. row.columns \in C
    BY <1>10 DEF Kept, RowType
  <2> QED BY <1>10, <1>2, <2>1, RowWritten
<1>4. journal' = Append(journal, g)
  <2>1. LET after == row' IN
          journal' = Append(journal, [before |-> row.columns, after |-> after.columns,
                                      post |-> after.version, status |-> "applied"])
    BY DEF S!updateSettingsInTx
  <2> QED BY <1>3, <2>1
<1>5. g \in GroupType(C)
  BY <1>10, <1>3 DEF GroupType
<1>6. /\ Len(journal') = Len(journal) + 1 /\ Len(journal) \in Nat
      /\ \A i \in 1 .. Len(journal) : journal'[i] = journal[i] /\ journal[i] \in GroupType(C)
      /\ journal'[Len(journal) + 1] = g /\ journal' \in Seq(GroupType(C))
  BY <1>10, <1>4, <1>5 DEF Kept
<1>7. Kept(C)'
  BY <1>3, <1>6 DEF Kept, RowType, GroupType
<1>8. LastWriter'
  <2> SUFFICES ASSUME NEW i \in 1 .. Len(journal')
               PROVE  /\ journal'[i].post <= row'.version
                      /\ journal'[i].post = row'.version => row'.columns = journal'[i].after
    BY DEF LastWriter
  <2>1. CASE i \in 1 .. Len(journal)
    BY <1>3, <1>6, <2>1 DEF SettingsInv, LastWriter, GroupType
  <2>2. CASE i = Len(journal) + 1
    BY <1>3, <1>6, <2>2
  <2> QED BY <1>6, <2>1, <2>2
<1>9. S!OwnUndo
  <2>1. DOMAIN journal = 1 .. Len(journal)
    BY <1>10 DEF Kept
  <2> QED BY <1>6, <2>1 DEF S!OwnUndo
<1> QED BY <1>7, <1>8, <1>9 DEF SettingsInv

(* An undo finds the row as the group left it, and raises the version.        *)
LEMMA UndoKeeps ==
  ASSUME SettingsInv, NEW k \in DOMAIN journal, S!UndoGroup(k)
  PROVE  SettingsInv' /\ S!OwnUndo
<1>1. PICK C : Kept(C)
  BY DEF SettingsInv
<1>2. /\ Len(journal) \in Nat /\ DOMAIN journal = 1 .. Len(journal)
      /\ \A i \in 1 .. Len(journal) :
           journal[i] \in GroupType(C) /\ journal[i].post \in Nat /\ journal[i].before \in C
  BY <1>1, GroupAt
<1>3. /\ row' = [row EXCEPT !.columns = journal[k].before, !.version = @ + 1]
      /\ journal' = [journal EXCEPT ![k].status = "undone"] /\ row.version = journal[k].post
  BY DEF S!UndoGroup, S!Restorable
<1>4. row.version \in Nat /\ row' \in RowType(C) /\ row'.version = row.version + 1
  BY <1>1, <1>2, <1>3, RowWritten
<1>5. /\ journal' \in Seq(GroupType(C)) /\ Len(journal') = Len(journal)
      /\ \A i \in 1 .. Len(journal) : journal'[i].post = journal[i].post
      /\ \A i \in 1 .. Len(journal) : i # k => journal'[i] = journal[i]
  <2> DEFINE h == [journal[k] EXCEPT !.status = "undone"]
  <2>1. h \in GroupType(C) /\ h.post = journal[k].post
    BY <1>2 DEF GroupType
  <2>2. journal' = [journal EXCEPT ![k] = h]
    BY <1>3
  <2> HIDE DEF h
  <2>3. journal' \in [1 .. Len(journal) -> GroupType(C)] /\ journal'[k] = h
    BY <1>1, <1>2, <2>1, <2>2 DEF Kept
  <2>4. journal' \in Seq(GroupType(C)) /\ Len(journal') = Len(journal)
    BY <1>2, <2>3
  <2> QED BY <1>1, <1>2, <2>1, <2>2, <2>3, <2>4 DEF Kept
<1>6. Kept(C)'
  BY <1>4, <1>5 DEF Kept, RowType, GroupType
<1>7. LastWriter'
  BY <1>2, <1>4, <1>5 DEF SettingsInv, LastWriter, GroupType
<1>8. S!OwnUndo
  BY <1>2, <1>3, <1>5 DEF S!OwnUndo, SettingsInv, LastWriter
<1> QED BY <1>6, <1>7, <1>8 DEF SettingsInv
-----------------------------------------------------------------------------
(* Everything else leaves the columns and the journal alone.                  *)
LEMMA Elsewhere ==
  ASSUME SettingsInv, UNCHANGED <<row, journal>>
  PROVE  SettingsInv'
<1>1. PICK C : Kept(C)
  BY DEF SettingsInv
<1>2. Kept(C)' /\ LastWriter'
  BY <1>1 DEF SettingsInv, Kept, RowType, GroupType, LastWriter
<1> QED BY <1>2 DEF SettingsInv

(* Whoever writes the row: the prompt, the columns with the version, the      *)
(* columns with a line in the journal, or an undo.                            *)
LEMMA Writers ==
  ASSUME SettingsInv, [S!Next]_(S!vars)
  PROVE  \/ UNCHANGED <<row, journal>>
         \/ \E x, y : row' = [row EXCEPT !.pendingInput = x, !.onboarded = y] /\ UNCHANGED journal
         \/ \E x : row' = [row EXCEPT !.columns = x, !.version = @ + 1] /\ UNCHANGED journal
         \/ \E change : S!updateSettingsInTx(change)
         \/ \E k \in DOMAIN journal : S!UndoGroup(k)
<1> DEFINE Prompts == \E x, y : /\ row' = [row EXCEPT !.pendingInput = x, !.onboarded = y]
                               /\ UNCHANGED journal
           Patches == \E x : /\ row' = [row EXCEPT !.columns = x, !.version = @ + 1]
                            /\ UNCHANGED journal
<1>1. PICK C : row \in RowType(C)
  BY DEF SettingsInv, Kept
<1>2. ASSUME NEW x PROVE [row EXCEPT !.pendingInput = x]
                          = [row EXCEPT !.pendingInput = x, !.onboarded = row.onboarded]
  BY <1>1 DEF RowType
<1>3. ASSUME NEW x, row' = [row EXCEPT !.pendingInput = x], UNCHANGED journal PROVE Prompts
  BY <1>2, <1>3
<1>4. CASE S!Chat
  <2>1. CASE \E input \in S!PendingInput \ {S!Null} : S!OpenPrompt(input)
    BY <1>3, <2>1 DEF S!OpenPrompt, S!setPendingInput
  <2>2. CASE S!Cancel
    BY <1>3, <2>2 DEF S!Cancel, S!setPendingInput
  <2>3. CASE \E answer \in S!Answers : S!Text(answer)
    <3>1. row' = [row EXCEPT !.pendingInput = S!Null] /\ UNCHANGED journal
      BY <2>3 DEF S!Text
    <3> QED BY <1>3, <3>1
  <2>4. CASE \E step \in S!Steps \cup {"timezone"}, answer \in {"yes", "no"} : S!Button(step, answer)
    BY <2>4 DEF S!Button
  <2>5. CASE S!UntilMorning \/ S!applyReschedule \/ S!Reply \/ S!ReplyFails \/ S!StopHandler
    BY <2>5 DEF S!UntilMorning, S!applyReschedule, S!Reply, S!ReplyFails, S!StopHandler
  <2>6. CASE S!applyTypedTimezone
    BY <1>3, <2>6 DEF S!applyTypedTimezone, S!setPendingInput
  <2>7. CASE S!applyTypedStep
    BY <1>3, <2>7 DEF S!applyTypedStep, S!setPendingInput
  <2>8. CASE S!serviceApply
    BY <2>8 DEF S!serviceApply, S!applyPatch
  <2>9. CASE S!advance
    BY <2>9 DEF S!advance
  <2>10. CASE S!PutBack
    BY <1>2, <2>10 DEF S!PutBack
  <2> QED BY <1>4, <2>1, <2>2, <2>3, <2>4, <2>5, <2>6, <2>7, <2>8, <2>9, <2>10 DEF S!Chat
<1>5. CASE S!Web
  <2>1. CASE S!Tap \/ S!Guard \/ S!ReadZone \/ S!Answer \/ S!Reload \/ S!LoseRequest
    BY <2>1 DEF S!Tap, S!Save, S!Guard, S!ReadZone, S!Answer, S!Reload, S!LoseRequest
  <2>2. CASE S!WriteMorning \/ S!copyProfileTimezone
    BY <2>2 DEF S!WriteMorning, S!copyProfileTimezone, S!applyPatch
  <2>3. CASE S!ApplyPlan
    BY <2>3 DEF S!ApplyPlan
  <2> QED BY <1>5, <2>1, <2>2, <2>3 DEF S!Web
<1>6. CASE S!Agent
  BY <1>6 DEF S!Agent, S!Resolve, S!ApplyResolved
<1>7. CASE UNCHANGED S!vars
  BY <1>7 DEF S!vars
<1> QED BY <1>4, <1>5, <1>6, <1>7 DEF S!Next

LEMMA SettingsStep == SettingsInv /\ [S!Next]_(S!vars) => SettingsInv' /\ S!OwnUndo
<1> SUFFICES ASSUME SettingsInv, [S!Next]_(S!vars) PROVE SettingsInv' /\ S!OwnUndo
  OBVIOUS
<1>1. ASSUME UNCHANGED journal PROVE S!OwnUndo
  BY <1>1 DEF S!OwnUndo
<1>2. CASE UNCHANGED <<row, journal>>
  BY <1>1, <1>2, Elsewhere
<1>3. CASE \E x, y : row' = [row EXCEPT !.pendingInput = x, !.onboarded = y] /\ UNCHANGED journal
  BY <1>1, <1>3, PromptKeeps
<1>4. CASE \E x : row' = [row EXCEPT !.columns = x, !.version = @ + 1] /\ UNCHANGED journal
  BY <1>1, <1>4, ColumnsKeep
<1>5. CASE \E change : S!updateSettingsInTx(change)
  BY <1>5, JournalKeeps
<1>6. CASE \E k \in DOMAIN journal : S!UndoGroup(k)
  BY <1>6, UndoKeeps
<1> QED BY <1>2, <1>3, <1>4, <1>5, <1>6, Writers
-----------------------------------------------------------------------------
(* The goals and the memory.                                                *)
Rows == [goals: [Goals -> G!Row], facts: [Facts -> G!Row], tasks: [Tasks -> G!Row],
         links: SUBSET G!Pairs]

(* A row goes on only by versions: while it has the one it had, it is as it   *)
(* was, or it is gone.                                                        *)
Later(r, s) == /\ s.version >= r.version
               /\ s.live /\ s.version = r.version => G!Content(s) = G!Content(r)
RowsLater(d, e) == /\ \A i \in Goals : Later(d.goals[i], e.goals[i])
                   /\ \A i \in Facts : Later(d.facts[i], e.facts[i])

(* What the events of a group say of one row, which it found as r and left as *)
(* s: the latest has the version it was left at; the first, if the row was    *)
(* there, has it as it was found; nothing follows a deletion.                 *)
Deleted(evs) == \E e \in evs : e.type = "delete_memory"
Numbered(evs) == \A e \in evs : e.post \in Nat
LastIs(evs, n) == \E e \in evs : e.post = n /\ \A o \in evs : o.post <= n
FirstWas(evs, r) == \E e \in evs : e.before = r /\ \A o \in evs \ {e} : e.post < o.post
Ended(evs, r, s) ==
  /\ ~s.live /\ s.version > 0 /\ (r.live \/ r.version = 0)
  /\ G!Deletes(evs) => r.live /\ \A e \in evs : e.before = r /\ e.post = 0
Lasting(evs, r, s) ==
  /\ s.live /\ LastIs(evs, s.version)
  /\ G!Creates(evs) => r.version = 0
  /\ ~G!Creates(evs) => r.live /\ FirstWas(evs, r)
Told(evs, r, s) ==
  /\ Numbered(evs) /\ Later(r, s)
  /\ evs = {} => s = r
  /\ evs # {} /\ Deleted(evs) => Ended(evs, r, s)
  /\ evs # {} /\ ~Deleted(evs) => Lasting(evs, r, s)

GoalsTold(start, acc) ==
  \A i \in Goals : Told(G!EventsFor(acc, "goal", i), start.goals[i], acc.db.goals[i])
FactsTold(start, acc) ==
  \A i \in Facts : Told(G!EventsFor(acc, "memory", i), start.facts[i], acc.db.facts[i])
Sorted(evs) ==
  \A e \in evs : /\ e.entity = "goal" => e.type # "delete_memory" /\ e.id \in Goals
                 /\ e.entity = "memory" => e.id \in Facts
                 /\ e.entity = "task_goal" => e.type \in {"link", "unlink"} /\ e.id \in G!Pairs
AllTold(start, acc) == GoalsTold(start, acc) /\ FactsTold(start, acc) /\ Sorted(acc.events)

(* A link joins two rows that are there.                                      *)
LinkEnds(d) == \A p \in d.links : d.tasks[p[1]].live /\ d.goals[p[2]].live

(* The screens: what a request was meant for is what its screen showed.       *)
Meant(h, a) ==
  /\ a.op = "update_goal" => a.goalVersion = h.saw.goals[a.goal].version
  /\ a.op = "link" => /\ a.goalVersion = h.saw.goals[a.goal].version
                      /\ a.taskVersion = h.saw.tasks[a.task].version
  /\ a.op \in {"update_memory", "delete_memory"} =>
       /\ a.factVersion = h.saw.facts[a.fact].version
       /\ G!SaysSensitive(h.saw.facts[a.fact], a) => h.confirmed
Sent(h) == \E a \in G!Action : h.acts = <<a>> /\ a.op \in G!WebOps /\ Meant(h, a)

(* The groups: what its events tell of a group stays true of it, the rows only *)
(* went on since; and what one deleted stays deleted until it is undone, so no *)
(* second group deletes it.                                                   *)
GroupTold(g) == AllTold(g.before, [db |-> g.after, events |-> g.events])
Erased(g, i) == Deleted(G!EventsFor(g, "memory", i))
Standing(g, d) ==
  /\ GroupTold(g) /\ RowsLater(g.after, d)
  /\ \A i \in Goals : g.after.goals[i].version <= LastRow
  /\ ~g.undone => \A i \in Facts :
                    Erased(g, i) => G!Content(d.facts[i]) = G!Content(g.after.facts[i])
Chronicle == \A k \in 1 .. Len(journal) : Standing(journal[k], db)
Sole ==
  \A j, k \in 1 .. Len(journal) : j # k /\ ~journal[j].undone /\ ~journal[k].undone =>
    \A i \in Facts : ~(Erased(journal[j], i) /\ Erased(journal[k], i))

TurnType == [pc: {"idle", "answered", "resolved"}, acts: Seq(G!Action), saw: Rows]
RequestType ==
  [pc: {"idle", "received", "apply"}, acts: Seq(G!Action), saw: Rows, confirmed: BOOLEAN]
PackageType(C) ==
  [by: {"assistant", "web"}, acts: C, events: C, before: Rows, after: Rows, saw: C,
   undone: BOOLEAN]
GoalsTyped ==
  /\ story \in GoalScenarios /\ story \in G!Scenario /\ now \in Nat
  /\ db \in Rows /\ screen \in Rows /\ agentTurn \in TurnType /\ handler \in RequestType
  /\ LinkEnds(db) /\ \A i \in Goals : db.goals[i].version <= LastRow + 1
OnScreen ==
  /\ RowsLater(screen, db)
  /\ handler.pc # "idle" => RowsLater(handler.saw, db) /\ Sent(handler)
GoalsInv ==
  GoalsTyped /\ (\E C : journal \in Seq(PackageType(C))) /\ OnScreen /\ Chronicle /\ Sole
-----------------------------------------------------------------------------
LEMMA GoalBounds ==
  GoalScenarios \subseteq G!Scenario /\ IdleDays \in Nat /\ LastRow \in Nat
BY DialogueAssumption

(* A set of numbers that is not empty has a least one: what a run of one action *)
(* after another does is shown of its least counterexample.                    *)
LEMMA Least ==
  ASSUME NEW X \in SUBSET Nat, X # {}
  PROVE  \E n \in X : \A m \in X : n <= m
<1> DEFINE R == {ss \in Nat \X Nat : ss[1] < ss[2]}
<1>1. IsWellFoundedOn(R, Nat)
  BY NatLessThanWellFounded DEF OpToRel
<1>2. \A m, n \in Nat : m < n => <<m, n>> \in R
  OBVIOUS
<1> HIDE DEF R
<1>3. PICK n \in X : \A m \in X : <<m, n>> \notin R
  BY <1>1, WFMin
<1>4. ASSUME NEW m \in X PROVE n <= m
  <2>1. ~(m < n)
    BY <1>2, <1>3, Zenon
  <2> QED BY <2>1
<1> QED BY <1>4

LEMMA LaterGoesOn ==
  ASSUME NEW r \in G!Row, NEW s \in G!Row, NEW t \in G!Row, Later(r, s), Later(s, t)
  PROVE  Later(r, t)
<1>1. r.version \in Nat /\ s.version \in Nat /\ t.version \in Nat
  BY DEF G!Row, G!Fields
<1>2. G!Content(t) = G!Content(s) => t.live = s.live
  BY DEF G!Content
<1>3. t.version >= r.version
  BY <1>1 DEF Later
<1>4. ASSUME t.live, t.version = r.version PROVE G!Content(t) = G!Content(r)
  <2>1. s.version = r.version /\ t.version = s.version
    BY <1>1, <1>4 DEF Later
  <2>2. G!Content(t) = G!Content(s) /\ s.live
    BY <1>2, <1>4, <2>1, Zenon DEF Later
  <2> QED BY <2>1, <2>2 DEF Later
<1> QED BY <1>3, <1>4 DEF Later

LEMMA LaterIsNow == ASSUME NEW r \in G!Row PROVE Later(r, r)
<1>1. r.version \in Nat
  BY DEF G!Row, G!Fields
<1> QED BY <1>1 DEF Later

(* What each kind of action does to a row, and to what is told of it.          *)
LEMMA ToldNew ==
  ASSUME NEW evs, NEW r \in G!Row, NEW s \in G!Row, NEW t \in G!Row, NEW e,
         Told(evs, r, s), G!Fresh(s), t.live, t.version = 1,
         e.type \in {"create_goal", "goal_plan", "save_memory"}, e.post = 1
  PROVE  Told(evs \cup {e}, r, t)
<1>1. evs = {} /\ s = r
  BY DEF Told, G!Fresh, G!Row, G!Fields, Ended, Lasting
<1>2. Later(r, t) /\ r.version = 0
  BY <1>1 DEF Later, G!Row, G!Fields, G!Fresh
<1>3. evs \cup {e} = {e} /\ ~Deleted({e}) /\ G!Creates({e})
  BY <1>1 DEF Deleted, G!Creates
<1>4. Numbered({e}) /\ LastIs({e}, 1)
  BY DEF Numbered, LastIs
<1> QED BY <1>2, <1>3, <1>4 DEF Told, Lasting

LEMMA ToldMore ==
  ASSUME NEW evs, NEW r \in G!Row, NEW s \in G!Row, NEW t \in G!Row, NEW e,
         Told(evs, r, s), s.live, t.live, t.version = s.version + 1,
         e.type \in {"update_goal", "update_memory"}, e.post = t.version, e.before = s
  PROVE  Told(evs \cup {e}, r, t)
<1> DEFINE E == evs \cup {e}
<1>1. s.version \in Nat /\ r.version \in Nat /\ t.version \in Nat /\ r.version <= s.version
  BY DEF G!Row, G!Fields, Told, Later
<1>2. Later(r, t)
  BY <1>1 DEF Later
<1>3. ~Deleted(evs) /\ ~Deleted(E) /\ (G!Creates(E) <=> G!Creates(evs)) /\ E # {}
  BY DEF Told, Deleted, G!Creates, Ended
<1>4. \A o \in evs : o.post \in Nat /\ o.post <= s.version
  <2>1. CASE evs = {}
    BY <2>1
  <2>2. CASE evs # {}
    BY <1>3, <2>2 DEF Told, Lasting, LastIs, Numbered
  <2> QED BY <2>1, <2>2
<1>5. Numbered(E) /\ LastIs(E, t.version)
  BY <1>1, <1>4 DEF Numbered, LastIs
<1>6. /\ G!Creates(E) => r.version = 0
      /\ ~G!Creates(E) => r.live /\ FirstWas(E, r)
  <2>1. CASE evs = {}
    <3>1. r = s /\ E = {e} /\ ~G!Creates(E)
      BY <2>1 DEF Told, G!Creates
    <3> QED BY <3>1 DEF FirstWas
  <2>2. CASE evs # {}
    <3>1. Lasting(evs, r, s)
      BY <1>3, <2>2 DEF Told
    <3>2. ASSUME ~G!Creates(E) PROVE FirstWas(E, r)
      <4>1. PICK x \in evs : x.before = r /\ \A o \in evs \ {x} : x.post < o.post
        BY <1>3, <3>1, <3>2 DEF Lasting, FirstWas
      <4>2. x.post < e.post
        BY <1>1, <1>4
      <4> QED BY <4>1, <4>2 DEF FirstWas
    <3> QED BY <1>3, <3>1, <3>2 DEF Lasting
  <2> QED BY <2>1, <2>2
<1> HIDE DEF E
<1>7. Lasting(E, r, t)
  BY <1>5, <1>6 DEF Lasting
<1>8. Told(E, r, t)
  BY <1>2, <1>3, <1>5, <1>7 DEF Told
<1> QED BY <1>8 DEF E

LEMMA ToldGone ==
  ASSUME NEW evs, NEW r \in G!Row, NEW s \in G!Row, NEW t \in G!Row, NEW e,
         Told(evs, r, s), s.live, ~t.live, t.version = s.version,
         e.type = "delete_memory", e.post = 0, e.before = s
  PROVE  Told(evs \cup {e}, r, t)
<1> DEFINE E == evs \cup {e}
<1>1. s.version \in Nat /\ s.version > 0
  BY DEF G!Row, G!Fields
<1>2. ~Deleted(evs) /\ Deleted(E) /\ E # {} /\ Later(r, t)
  BY DEF Told, Deleted, Later, Ended
<1>3. r.live \/ r.version = 0
  BY <1>2 DEF Told, Lasting
<1>4. G!Deletes(E) => r.live /\ \A o \in E : o.before = r /\ o.post = 0
  <2>1. G!Deletes(E) => evs = {}
    BY <1>2 DEF G!Deletes, Deleted
  <2>2. evs = {} => r = s /\ E = {e}
    BY DEF Told
  <2> QED BY <2>1, <2>2
<1>5. Numbered(E)
  BY DEF Told, Numbered
<1> HIDE DEF E
<1>6. Ended(E, r, t)
  BY <1>1, <1>3, <1>4 DEF Ended
<1>7. Told(E, r, t)
  BY <1>2, <1>5, <1>6 DEF Told
<1> QED BY <1>7 DEF E
-----------------------------------------------------------------------------
LEMMA RowBumped ==
  ASSUME now \in Nat, NEW r \in G!Row, NEW a \in G!Action, r.live
  PROVE  /\ G!Bumped(r, a) \in G!Row /\ G!Bumped(r, a).live
         /\ G!Bumped(r, a).version = r.version + 1
<1>1. r \in G!Fields /\ r.version + 1 \in Nat /\ r.version + 1 # 0
  BY DEF G!Row, G!Fields
<1>2. /\ a.text \in G!Texts /\ a.status \in G!GoalStatuses \cup {"keep"}
      /\ a.sensitive \in {"keep", "yes", "no"}
  BY DEF G!Action
<1>3. G!Bumped(r, a) \in G!Fields
  BY <1>1, <1>2, Zenon DEF G!Fields, G!Bumped
<1>4. G!Bumped(r, a).live = r.live /\ G!Bumped(r, a).version = r.version + 1
  BY <1>1 DEF G!Fields, G!Bumped
<1> QED BY <1>1, <1>3, <1>4 DEF G!Row, G!Fields

LEMMA RowCreated ==
  ASSUME now \in Nat, NEW a \in G!Action, NEW yes \in BOOLEAN
  PROVE  /\ G!Create(a.text) \in G!Row /\ G!Create(a.text).live /\ G!Create(a.text).version = 1
         /\ [G!Create(a.text) EXCEPT !.sensitive = yes] \in G!Row
         /\ [G!Create(a.text) EXCEPT !.sensitive = yes].live
         /\ [G!Create(a.text) EXCEPT !.sensitive = yes].version = 1
<1>1. a.text \in G!Texts
  BY DEF G!Action
<1>2. G!NoRow \in G!Fields
  BY DEF G!NoRow, G!Fields, G!GoalStatuses, G!Texts
<1>3. G!Create(a.text) \in G!Fields /\ G!Create(a.text).live /\ G!Create(a.text).version = 1
  BY <1>1, <1>2 DEF G!Fields, G!Create
<1>4. /\ [G!Create(a.text) EXCEPT !.sensitive = yes] \in G!Fields
      /\ [G!Create(a.text) EXCEPT !.sensitive = yes].live
      /\ [G!Create(a.text) EXCEPT !.sensitive = yes].version = 1
  BY <1>3 DEF G!Fields
<1> QED BY <1>3, <1>4 DEF G!Row, G!Fields

LEMMA RowGone ==
  ASSUME NEW r \in G!Row
  PROVE  /\ [r EXCEPT !.live = FALSE] \in G!Row /\ ~[r EXCEPT !.live = FALSE].live
         /\ [r EXCEPT !.live = FALSE].version = r.version
BY DEF G!Row, G!Fields

LEMMA GoalsUntold ==
  ASSUME NEW start, NEW acc, NEW next, NEW X, GoalsTold(start, acc),
         next.events = acc.events \cup X, next.db.goals = acc.db.goals,
         \A x \in X : x.entity # "goal"
  PROVE  GoalsTold(start, next)
<1>1. \A j \in Goals : G!EventsFor(next, "goal", j) = G!EventsFor(acc, "goal", j)
  BY DEF G!EventsFor
<1> QED BY <1>1 DEF GoalsTold

LEMMA FactsUntold ==
  ASSUME NEW start, NEW acc, NEW next, NEW X, FactsTold(start, acc),
         next.events = acc.events \cup X, next.db.facts = acc.db.facts,
         \A x \in X : x.entity # "memory"
  PROVE  FactsTold(start, next)
<1>1. \A j \in Facts : G!EventsFor(next, "memory", j) = G!EventsFor(acc, "memory", j)
  BY DEF G!EventsFor
<1> QED BY <1>1 DEF FactsTold

(* What a write of one row, or of the links, leaves of the others.             *)
LEMMA GoalPut ==
  ASSUME NEW d \in Rows, NEW i \in Goals, NEW t \in G!Row
  PROVE  LET e == [d EXCEPT !.goals[i] = t] IN
         /\ e \in Rows /\ e.goals = [d.goals EXCEPT ![i] = t]
         /\ e.facts = d.facts /\ e.tasks = d.tasks /\ e.links = d.links
<1> DEFINE e == [d EXCEPT !.goals[i] = t]
<1>1. e.goals = [d.goals EXCEPT ![i] = t] /\ e.facts = d.facts /\ e.tasks = d.tasks /\ e.links = d.links
  BY DEF Rows
<1>2. e \in Rows
  BY Zenon DEF Rows
<1> QED BY <1>1, <1>2

LEMMA FactPut ==
  ASSUME NEW d \in Rows, NEW i \in Facts, NEW t \in G!Row
  PROVE  LET e == [d EXCEPT !.facts[i] = t] IN
         /\ e \in Rows /\ e.facts = [d.facts EXCEPT ![i] = t]
         /\ e.goals = d.goals /\ e.tasks = d.tasks /\ e.links = d.links
<1> DEFINE e == [d EXCEPT !.facts[i] = t]
<1>1. e.facts = [d.facts EXCEPT ![i] = t] /\ e.goals = d.goals /\ e.tasks = d.tasks /\ e.links = d.links
  BY DEF Rows
<1>2. e \in Rows
  BY Zenon DEF Rows
<1> QED BY <1>1, <1>2

LEMMA LinksPut ==
  ASSUME NEW d \in Rows, NEW links \in SUBSET G!Pairs
  PROVE  LET e == [d EXCEPT !.links = links] IN
         /\ e \in Rows /\ e.links = links
         /\ e.goals = d.goals /\ e.tasks = d.tasks /\ e.facts = d.facts
<1> DEFINE e == [d EXCEPT !.links = links]
<1>1. e.links = links /\ e.goals = d.goals /\ e.tasks = d.tasks /\ e.facts = d.facts
  BY DEF Rows
<1>2. e \in Rows
  BY Zenon DEF Rows
<1> QED BY <1>1, <1>2

(* One accepted action.                                                        *)
LEMMA CreateGoalTold ==
  ASSUME now \in Nat, NEW start \in Rows, NEW acc, acc.db \in Rows, AllTold(start, acc),
         LinkEnds(acc.db), NEW a \in G!Action, G!Accepts(start, acc, a), NEW next,
         next.db = G!Write(acc.db, a), next.events = acc.events \cup G!EventsOf(acc.db, a),
         a.op = "create_goal"
  PROVE  next.db \in Rows /\ AllTold(start, next) /\ LinkEnds(next.db)
<1> DEFINE d == acc.db
           i == a.goal
           t == G!Create(a.text)
           e == G!Event("create_goal", "goal", i, t.version, d.goals[i])
<1>1. i \in Goals /\ G!Fresh(d.goals[i]) /\ d.goals[i] \in G!Row /\ start.goals[i] \in G!Row
  BY DEF G!Accepts, G!Expected, G!Action, Rows
<1>2. t \in G!Row /\ t.live /\ t.version = 1
  BY RowCreated
<1>3. next.db = [d EXCEPT !.goals[i] = t]
  BY DEF G!Write, G!createGoalInTx
<1> HIDE DEF t
<1>4. /\ next.db \in Rows /\ next.db.goals = [d.goals EXCEPT ![i] = t]
      /\ next.db.facts = d.facts /\ next.db.tasks = d.tasks /\ next.db.links = d.links
  BY <1>1, <1>2, <1>3, GoalPut
<1>5. next.db.goals[i] = t /\ \A j \in Goals \ {i} : next.db.goals[j] = d.goals[j]
  BY <1>1, <1>4 DEF Rows
<1>6. G!EventsOf(d, a) = {e}
  BY <1>2, <1>4, <1>5, Zenon DEF G!EventsOf
<1>7. /\ e.entity = "goal" /\ e.id = i /\ e.type = "create_goal" /\ e.post = t.version
      /\ e.before = d.goals[i]
  BY DEF G!Event
<1> HIDE DEF e
<1>8. Told(G!EventsFor(acc, "goal", i) \cup {e}, start.goals[i], t)
  <2>1. Told(G!EventsFor(acc, "goal", i), start.goals[i], d.goals[i])
    BY <1>1 DEF AllTold, GoalsTold
  <2> QED BY <1>1, <1>2, <1>7, <2>1, ToldNew
<1>9. GoalsTold(start, next)
  <2>1. /\ G!EventsFor(next, "goal", i) = G!EventsFor(acc, "goal", i) \cup {e}
        /\ \A k \in Goals \ {i} : G!EventsFor(next, "goal", k) = G!EventsFor(acc, "goal", k)
    BY <1>6, <1>7 DEF G!EventsFor
  <2> QED BY <1>5, <1>8, <2>1 DEF AllTold, GoalsTold
<1>10. FactsTold(start, next)
  BY <1>4, <1>6, <1>7, FactsUntold DEF AllTold
<1>11. Sorted(next.events)
  BY <1>1, <1>6, <1>7 DEF AllTold, Sorted
<1>12. LinkEnds(next.db)
  BY <1>1, <1>2, <1>4 DEF LinkEnds, Rows
<1> QED BY <1>4, <1>9, <1>10, <1>11, <1>12 DEF AllTold

LEMMA UpdateGoalTold ==
  ASSUME now \in Nat, NEW start \in Rows, NEW acc, acc.db \in Rows, AllTold(start, acc),
         LinkEnds(acc.db), NEW a \in G!Action, G!Accepts(start, acc, a), NEW next,
         next.db = G!Write(acc.db, a), next.events = acc.events \cup G!EventsOf(acc.db, a),
         a.op = "update_goal"
  PROVE  next.db \in Rows /\ AllTold(start, next) /\ LinkEnds(next.db)
<1> DEFINE d == acc.db
           i == a.goal
           t == G!Bumped(d.goals[i], a)
           e == G!Event("update_goal", "goal", i, t.version, d.goals[i])
<1>1. i \in Goals /\ d.goals[i].live /\ d.goals[i] \in G!Row /\ start.goals[i] \in G!Row
  BY DEF G!Accepts, G!Expected, G!Action, Rows
<1>2. t \in G!Row /\ t.live /\ t.version = d.goals[i].version + 1
  BY <1>1, RowBumped
<1>3. next.db = [d EXCEPT !.goals[i] = t]
  BY DEF G!Write, G!updateGoalInTx
<1> HIDE DEF t
<1>4. /\ next.db \in Rows /\ next.db.goals = [d.goals EXCEPT ![i] = t]
      /\ next.db.facts = d.facts /\ next.db.tasks = d.tasks /\ next.db.links = d.links
  BY <1>1, <1>2, <1>3, GoalPut
<1>5. next.db.goals[i] = t /\ \A j \in Goals \ {i} : next.db.goals[j] = d.goals[j]
  BY <1>1, <1>4 DEF Rows
<1>6. G!EventsOf(d, a) = {e}
  BY <1>2, <1>4, <1>5, Zenon DEF G!EventsOf
<1>7. /\ e.entity = "goal" /\ e.id = i /\ e.type = "update_goal" /\ e.post = t.version
      /\ e.before = d.goals[i]
  BY DEF G!Event
<1> HIDE DEF e
<1>8. Told(G!EventsFor(acc, "goal", i) \cup {e}, start.goals[i], t)
  <2>1. Told(G!EventsFor(acc, "goal", i), start.goals[i], d.goals[i])
    BY <1>1 DEF AllTold, GoalsTold
  <2> QED BY <1>1, <1>2, <1>7, <2>1, ToldMore
<1>9. GoalsTold(start, next)
  <2>1. /\ G!EventsFor(next, "goal", i) = G!EventsFor(acc, "goal", i) \cup {e}
        /\ \A k \in Goals \ {i} : G!EventsFor(next, "goal", k) = G!EventsFor(acc, "goal", k)
    BY <1>6, <1>7 DEF G!EventsFor
  <2> QED BY <1>5, <1>8, <2>1 DEF AllTold, GoalsTold
<1>10. FactsTold(start, next)
  BY <1>4, <1>6, <1>7, FactsUntold DEF AllTold
<1>11. Sorted(next.events)
  BY <1>1, <1>6, <1>7 DEF AllTold, Sorted
<1>12. LinkEnds(next.db)
  BY <1>1, <1>2, <1>4 DEF LinkEnds, Rows
<1> QED BY <1>4, <1>9, <1>10, <1>11, <1>12 DEF AllTold

LEMMA SaveMemoryTold ==
  ASSUME now \in Nat, NEW start \in Rows, NEW acc, acc.db \in Rows, AllTold(start, acc),
         LinkEnds(acc.db), NEW a \in G!Action, G!Accepts(start, acc, a), NEW next,
         next.db = G!Write(acc.db, a), next.events = acc.events \cup G!EventsOf(acc.db, a),
         a.op = "save_memory"
  PROVE  next.db \in Rows /\ AllTold(start, next) /\ LinkEnds(next.db)
<1> DEFINE d == acc.db
           i == a.fact
           t == [G!Create(a.text) EXCEPT !.sensitive = a.sensitive = "yes"]
           e == G!Event(a.op, "memory", i, t.version, d.facts[i])
<1>1. i \in Facts /\ G!Fresh(d.facts[i]) /\ d.facts[i] \in G!Row /\ start.facts[i] \in G!Row
  BY DEF G!Accepts, G!Expected, G!Action, Rows
<1>2. t \in G!Row /\ t.live /\ t.version = 1
  BY RowCreated
<1>3. next.db = [d EXCEPT !.facts[i] = t]
  BY DEF G!Write, G!saveMemoryInTx
<1> HIDE DEF t
<1>4. /\ next.db \in Rows /\ next.db.facts = [d.facts EXCEPT ![i] = t]
      /\ next.db.goals = d.goals /\ next.db.tasks = d.tasks /\ next.db.links = d.links
  BY <1>1, <1>2, <1>3, FactPut
<1>5. next.db.facts[i] = t /\ \A j \in Facts \ {i} : next.db.facts[j] = d.facts[j]
  BY <1>1, <1>4 DEF Rows
<1>6. G!EventsOf(d, a) = {e}
  BY <1>2, <1>4, <1>5, Zenon DEF G!EventsOf
<1>7. /\ e.entity = "memory" /\ e.id = i /\ e.type = "save_memory" /\ e.post = t.version
      /\ e.before = d.facts[i]
  BY DEF G!Event
<1> HIDE DEF e
<1>8. Told(G!EventsFor(acc, "memory", i) \cup {e}, start.facts[i], t)
  <2>1. Told(G!EventsFor(acc, "memory", i), start.facts[i], d.facts[i])
    BY <1>1 DEF AllTold, FactsTold
  <2> QED BY <1>1, <1>2, <1>7, <2>1, ToldNew
<1>9. FactsTold(start, next)
  <2>1. /\ G!EventsFor(next, "memory", i) = G!EventsFor(acc, "memory", i) \cup {e}
        /\ \A k \in Facts \ {i} : G!EventsFor(next, "memory", k) = G!EventsFor(acc, "memory", k)
    BY <1>6, <1>7 DEF G!EventsFor
  <2> QED BY <1>5, <1>8, <2>1 DEF AllTold, FactsTold
<1>10. GoalsTold(start, next)
  BY <1>4, <1>6, <1>7, GoalsUntold DEF AllTold
<1>11. Sorted(next.events)
  BY <1>1, <1>6, <1>7 DEF AllTold, Sorted
<1>12. LinkEnds(next.db)
  BY <1>4 DEF LinkEnds
<1> QED BY <1>4, <1>9, <1>10, <1>11, <1>12 DEF AllTold

LEMMA UpdateMemoryTold ==
  ASSUME now \in Nat, NEW start \in Rows, NEW acc, acc.db \in Rows, AllTold(start, acc),
         LinkEnds(acc.db), NEW a \in G!Action, G!Accepts(start, acc, a), NEW next,
         next.db = G!Write(acc.db, a), next.events = acc.events \cup G!EventsOf(acc.db, a),
         a.op = "update_memory"
  PROVE  next.db \in Rows /\ AllTold(start, next) /\ LinkEnds(next.db)
<1> DEFINE d == acc.db
           i == a.fact
           t == G!Bumped(d.facts[i], a)
           e == G!Event(a.op, "memory", i, t.version, d.facts[i])
<1>1. i \in Facts /\ d.facts[i].live /\ d.facts[i] \in G!Row /\ start.facts[i] \in G!Row
  BY DEF G!Accepts, G!Expected, G!Action, Rows
<1>2. t \in G!Row /\ t.live /\ t.version = d.facts[i].version + 1
  BY <1>1, RowBumped
<1>3. next.db = [d EXCEPT !.facts[i] = t]
  BY DEF G!Write, G!updateMemoryInTx
<1> HIDE DEF t
<1>4. /\ next.db \in Rows /\ next.db.facts = [d.facts EXCEPT ![i] = t]
      /\ next.db.goals = d.goals /\ next.db.tasks = d.tasks /\ next.db.links = d.links
  BY <1>1, <1>2, <1>3, FactPut
<1>5. next.db.facts[i] = t /\ \A j \in Facts \ {i} : next.db.facts[j] = d.facts[j]
  BY <1>1, <1>4 DEF Rows
<1>6. G!EventsOf(d, a) = {e}
  BY <1>2, <1>4, <1>5, Zenon DEF G!EventsOf
<1>7. /\ e.entity = "memory" /\ e.id = i /\ e.type = "update_memory" /\ e.post = t.version
      /\ e.before = d.facts[i]
  BY DEF G!Event
<1> HIDE DEF e
<1>8. Told(G!EventsFor(acc, "memory", i) \cup {e}, start.facts[i], t)
  <2>1. Told(G!EventsFor(acc, "memory", i), start.facts[i], d.facts[i])
    BY <1>1 DEF AllTold, FactsTold
  <2> QED BY <1>1, <1>2, <1>7, <2>1, ToldMore
<1>9. FactsTold(start, next)
  <2>1. /\ G!EventsFor(next, "memory", i) = G!EventsFor(acc, "memory", i) \cup {e}
        /\ \A k \in Facts \ {i} : G!EventsFor(next, "memory", k) = G!EventsFor(acc, "memory", k)
    BY <1>6, <1>7 DEF G!EventsFor
  <2> QED BY <1>5, <1>8, <2>1 DEF AllTold, FactsTold
<1>10. GoalsTold(start, next)
  BY <1>4, <1>6, <1>7, GoalsUntold DEF AllTold
<1>11. Sorted(next.events)
  BY <1>1, <1>6, <1>7 DEF AllTold, Sorted
<1>12. LinkEnds(next.db)
  BY <1>4 DEF LinkEnds
<1> QED BY <1>4, <1>9, <1>10, <1>11, <1>12 DEF AllTold

LEMMA DeleteMemoryTold ==
  ASSUME now \in Nat, NEW start \in Rows, NEW acc, acc.db \in Rows, AllTold(start, acc),
         LinkEnds(acc.db), NEW a \in G!Action, G!Accepts(start, acc, a), NEW next,
         next.db = G!Write(acc.db, a), next.events = acc.events \cup G!EventsOf(acc.db, a),
         a.op = "delete_memory"
  PROVE  next.db \in Rows /\ AllTold(start, next) /\ LinkEnds(next.db)
<1> DEFINE d == acc.db
           i == a.fact
           t == [d.facts[i] EXCEPT !.live = FALSE]
           e == G!Event(a.op, "memory", i, 0, d.facts[i])
<1>1. i \in Facts /\ d.facts[i].live /\ d.facts[i] \in G!Row /\ start.facts[i] \in G!Row
  BY DEF G!Accepts, G!Expected, G!Action, Rows
<1>2. t \in G!Row /\ ~t.live /\ t.version = d.facts[i].version
  BY <1>1, RowGone
<1>3. next.db = [d EXCEPT !.facts[i] = t]
  BY DEF G!Write, G!deleteMemoryInTx
<1> HIDE DEF t
<1>4. /\ next.db \in Rows /\ next.db.facts = [d.facts EXCEPT ![i] = t]
      /\ next.db.goals = d.goals /\ next.db.tasks = d.tasks /\ next.db.links = d.links
  BY <1>1, <1>2, <1>3, FactPut
<1>5. next.db.facts[i] = t /\ \A j \in Facts \ {i} : next.db.facts[j] = d.facts[j]
  BY <1>1, <1>4 DEF Rows
<1>6. G!EventsOf(d, a) = {e}
  BY <1>2, <1>4, <1>5, Zenon DEF G!EventsOf
<1>7. /\ e.entity = "memory" /\ e.id = i /\ e.type = "delete_memory" /\ e.post = 0
      /\ e.before = d.facts[i]
  BY DEF G!Event
<1> HIDE DEF e
<1>8. Told(G!EventsFor(acc, "memory", i) \cup {e}, start.facts[i], t)
  <2>1. Told(G!EventsFor(acc, "memory", i), start.facts[i], d.facts[i])
    BY <1>1 DEF AllTold, FactsTold
  <2> QED BY <1>1, <1>2, <1>7, <2>1, ToldGone
<1>9. FactsTold(start, next)
  <2>1. /\ G!EventsFor(next, "memory", i) = G!EventsFor(acc, "memory", i) \cup {e}
        /\ \A k \in Facts \ {i} : G!EventsFor(next, "memory", k) = G!EventsFor(acc, "memory", k)
    BY <1>6, <1>7 DEF G!EventsFor
  <2> QED BY <1>5, <1>8, <2>1 DEF AllTold, FactsTold
<1>10. GoalsTold(start, next)
  BY <1>4, <1>6, <1>7, GoalsUntold DEF AllTold
<1>11. Sorted(next.events)
  BY <1>1, <1>6, <1>7 DEF AllTold, Sorted
<1>12. LinkEnds(next.db)
  BY <1>4 DEF LinkEnds
<1> QED BY <1>4, <1>9, <1>10, <1>11, <1>12 DEF AllTold

LEMMA GoalPlanTold ==
  ASSUME now \in Nat, NEW start \in Rows, NEW acc, acc.db \in Rows, AllTold(start, acc),
         LinkEnds(acc.db), NEW a \in G!Action, G!Accepts(start, acc, a), NEW next,
         next.db = G!Write(acc.db, a), next.events = acc.events \cup G!EventsOf(acc.db, a),
         a.op = "goal_plan"
  PROVE  next.db \in Rows /\ AllTold(start, next) /\ LinkEnds(next.db)
<1> DEFINE d == acc.db
           i == a.goal
           j == a.task
           t == G!Create(a.text)
           e == G!Event("goal_plan", "goal", i, 1, G!NoRow)
           f == G!Event("create_task", "task", j, 1, G!NoRow)
           l == G!Event("link", "task_goal", <<j, i>>, 0, G!NoRow)
<1>1. /\ i \in Goals /\ G!Fresh(d.goals[i]) /\ d.goals[i] \in G!Row /\ start.goals[i] \in G!Row
      /\ j \in Tasks
  BY DEF G!Accepts, G!Action, Rows
<1>2. t \in G!Row /\ t.live /\ t.version = 1
  BY RowCreated
<1>3. next.db = [d EXCEPT !.goals[i] = t, !.tasks[j] = t, !.links = @ \cup {<<j, i>>}]
  BY DEF G!Write, G!goalPlanInTx
<1> HIDE DEF t
<1>4. /\ next.db \in Rows /\ next.db.goals = [d.goals EXCEPT ![i] = t]
      /\ next.db.tasks = [d.tasks EXCEPT ![j] = t] /\ next.db.facts = d.facts
      /\ next.db.links = d.links \cup {<<j, i>>}
  <2>1. d.links \cup {<<j, i>>} \in SUBSET G!Pairs
    BY <1>1 DEF Rows, G!Pairs
  <2>2. /\ next.db.goals = [d.goals EXCEPT ![i] = t]
        /\ next.db.tasks = [d.tasks EXCEPT ![j] = t] /\ next.db.facts = d.facts
        /\ next.db.links = d.links \cup {<<j, i>>}
    BY <1>3 DEF Rows
  <2>3. next.db \in Rows
    <3>1. next.db = [goals |-> [d.goals EXCEPT ![i] = t], facts |-> d.facts,
                     tasks |-> [d.tasks EXCEPT ![j] = t], links |-> d.links \cup {<<j, i>>}]
      BY <1>3 DEF Rows
    <3>2. /\ [d.goals EXCEPT ![i] = t] \in [Goals -> G!Row] /\ d.facts \in [Facts -> G!Row]
          /\ [d.tasks EXCEPT ![j] = t] \in [Tasks -> G!Row]
      BY <1>1, <1>2 DEF Rows
    <3> QED BY <2>1, <3>1, <3>2 DEF Rows
  <2> QED BY <2>2, <2>3
<1>5. G!EventsOf(d, a) = {e, f, l} /\ next.db.goals[i] = t /\ \A k \in Goals \ {i} : next.db.goals[k] = d.goals[k]
  BY <1>1, <1>4 DEF G!EventsOf, G!Pair, Rows
<1>6. /\ e.entity = "goal" /\ e.id = i /\ e.type = "goal_plan" /\ e.post = 1
      /\ f.entity = "task" /\ l.entity = "task_goal" /\ l.type = "link" /\ l.id = <<j, i>>
  BY DEF G!Event
<1> HIDE DEF e, f, l
<1>7. Told(G!EventsFor(acc, "goal", i) \cup {e}, start.goals[i], t)
  <2>1. Told(G!EventsFor(acc, "goal", i), start.goals[i], d.goals[i])
    BY <1>1 DEF AllTold, GoalsTold
  <2> QED BY <1>1, <1>2, <1>6, <2>1, ToldNew
<1>8. GoalsTold(start, next)
  <2>1. /\ G!EventsFor(next, "goal", i) = G!EventsFor(acc, "goal", i) \cup {e}
        /\ \A k \in Goals \ {i} : G!EventsFor(next, "goal", k) = G!EventsFor(acc, "goal", k)
    BY <1>5, <1>6 DEF G!EventsFor
  <2> QED BY <1>5, <1>7, <2>1 DEF AllTold, GoalsTold
<1>9. FactsTold(start, next)
  <2>1. \A x \in {e, f, l} : x.entity # "memory"
    BY <1>6
  <2> QED BY <1>4, <1>5, <2>1, FactsUntold DEF AllTold
<1>10. Sorted(next.events)
  <2>1. <<j, i>> \in G!Pairs
    BY <1>1 DEF G!Pairs
  <2>2. \A x \in {e, f, l} : /\ x.entity = "goal" => x.type # "delete_memory" /\ x.id \in Goals
                             /\ x.entity # "memory"
                             /\ x.entity = "task_goal" => x.type \in {"link", "unlink"}
                                                         /\ x.id \in G!Pairs
    BY <1>1, <1>6, <2>1
  <2> QED BY <1>5, <2>2 DEF AllTold, Sorted
<1>11. LinkEnds(next.db)
  <2> SUFFICES ASSUME NEW p \in next.db.links
               PROVE  next.db.tasks[p[1]].live /\ next.db.goals[p[2]].live
    BY DEF LinkEnds
  <2>1. CASE p = <<j, i>>
    BY <1>1, <1>2, <1>4, <2>1 DEF Rows
  <2>2. CASE p \in d.links
    <3>1. p[1] \in Tasks /\ p[2] \in Goals /\ d.tasks[p[1]].live /\ d.goals[p[2]].live
      BY <2>2 DEF Rows, G!Pairs, LinkEnds
    <3> QED BY <1>2, <1>4, <3>1 DEF Rows
  <2> QED BY <1>4, <2>1, <2>2
<1> QED BY <1>4, <1>8, <1>9, <1>10, <1>11 DEF AllTold

LEMMA LinkTold ==
  ASSUME now \in Nat, NEW start \in Rows, NEW acc, acc.db \in Rows, AllTold(start, acc),
         LinkEnds(acc.db), NEW a \in G!Action, G!Accepts(start, acc, a), NEW next,
         next.db = G!Write(acc.db, a), next.events = acc.events \cup G!EventsOf(acc.db, a),
         a.op \in {"link", "unlink"}
  PROVE  next.db \in Rows /\ AllTold(start, next) /\ LinkEnds(next.db)
<1> DEFINE d == acc.db
           p == <<a.task, a.goal>>
           e == G!Event(a.op, "task_goal", p, 0, G!NoRow)
           links == IF a.op = "link" THEN d.links \cup {p} ELSE d.links \ {p}
<1>1. /\ a.goal \in Goals /\ a.task \in Tasks
      /\ d.goals[a.goal].live /\ d.tasks[a.task].live
  BY DEF G!Accepts, G!LinkPair, G!Expected, G!Action
<1>2. links \in SUBSET G!Pairs
  BY <1>1 DEF Rows, G!Pairs
<1>3. next.db = [d EXCEPT !.links = links]
  BY DEF G!Write, G!linkTaskToGoalInTx, G!unlinkTaskToGoalInTx
<1>4. links \subseteq d.links \cup {p}
  OBVIOUS
<1> HIDE DEF links
<1>5. /\ next.db \in Rows /\ next.db.links = links
      /\ next.db.goals = d.goals /\ next.db.tasks = d.tasks /\ next.db.facts = d.facts
  BY <1>2, <1>3, LinksPut
<1>6. G!EventsOf(d, a) = {e}
  BY DEF G!EventsOf, G!Pair
<1>7. e.entity = "task_goal" /\ e.type = a.op /\ e.id = p
  BY DEF G!Event
<1>8. p \in G!Pairs
  BY <1>1 DEF G!Pairs
<1> HIDE DEF e
<1>9. GoalsTold(start, next)
  BY <1>5, <1>6, <1>7, GoalsUntold DEF AllTold
<1>10. FactsTold(start, next)
  BY <1>5, <1>6, <1>7, FactsUntold DEF AllTold
<1>11. Sorted(next.events)
  BY <1>6, <1>7, <1>8 DEF AllTold, Sorted
<1>12. LinkEnds(next.db)
  BY <1>1, <1>4, <1>5 DEF LinkEnds
<1> QED BY <1>5, <1>9, <1>10, <1>11, <1>12 DEF AllTold

LEMMA ActionTold ==
  ASSUME now \in Nat, NEW start \in Rows, NEW acc, acc.db \in Rows, AllTold(start, acc),
         LinkEnds(acc.db), NEW a \in G!Action, G!Accepts(start, acc, a), NEW next,
         next.db = G!Write(acc.db, a), next.events = acc.events \cup G!EventsOf(acc.db, a)
  PROVE  next.db \in Rows /\ AllTold(start, next) /\ LinkEnds(next.db)
<1>1. a.op \in {"create_goal", "update_goal", "save_memory", "update_memory", "delete_memory",
               "goal_plan", "link", "unlink"}
  BY DEF G!Action, G!Ops, G!WebOps
<1> QED BY <1>1, CreateGoalTold, UpdateGoalTold, SaveMemoryTold, UpdateMemoryTold,
           DeleteMemoryTold, GoalPlanTold, LinkTold
-----------------------------------------------------------------------------
(* The run of a group: a function of how many of its actions have been done.   *)
IsRun(f, acts, m) ==
  f = [n \in 0 .. m |-> IF n = 0 THEN G!Begun ELSE G!Did(db, f[n - 1], acts[n])]

LEMMA RunExists ==
  ASSUME NEW acts, Len(acts) \in Nat
  PROVE  \E f : IsRun(f, acts, Len(acts))
<1> DEFINE X == {m \in Nat : m <= Len(acts) /\ ~ \E f : IsRun(f, acts, m)}
<1>1. IsRun([n \in 0 .. 0 |-> G!Begun], acts, 0)
  BY DEF IsRun
<1>2. ASSUME NEW m \in Nat, NEW f, IsRun(f, acts, m)
      PROVE  \E g : IsRun(g, acts, m + 1)
  <2> DEFINE g == [n \in 0 .. m + 1 |-> IF n = m + 1 THEN G!Did(db, f[m], acts[m + 1]) ELSE f[n]]
  <2>1. \A n \in 0 .. m : g[n] = f[n]
    OBVIOUS
  <2>2. \A n \in 0 .. m : f[n] = IF n = 0 THEN G!Begun ELSE G!Did(db, f[n - 1], acts[n])
    BY <1>2 DEF IsRun
  <2>3. \A n \in 0 .. m + 1 : g[n] = IF n = 0 THEN G!Begun ELSE G!Did(db, g[n - 1], acts[n])
    <3> SUFFICES ASSUME NEW n \in 0 .. m + 1
                 PROVE  g[n] = IF n = 0 THEN G!Begun ELSE G!Did(db, g[n - 1], acts[n])
      OBVIOUS
    <3>1. CASE n = m + 1
      <4>1. g[n] = G!Did(db, f[m], acts[n]) /\ n # 0 /\ n - 1 = m
        BY <3>1
      <4>2. g[n - 1] = f[m]
        BY <2>1, <4>1
      <4> HIDE DEF g
      <4> QED BY <4>1, <4>2
    <3>2. CASE n \in 0 .. m
      <4>1. g[n] = f[n] /\ (n # 0 => n - 1 \in 0 .. m)
        BY <2>1, <3>2
      <4>2. n # 0 => g[n - 1] = f[n - 1]
        BY <2>1, <4>1
      <4> HIDE DEF g
      <4> QED BY <2>2, <3>2, <4>1, <4>2
    <3> QED BY <3>1, <3>2
  <2>4. g = [n \in 0 .. m + 1 |-> g[n]]
    OBVIOUS
  <2> HIDE DEF g
  <2>5. IsRun(g, acts, m + 1)
    BY <2>3, <2>4 DEF IsRun
  <2> QED BY <2>5
<1>3. X = {}
  <2> SUFFICES ASSUME X # {} PROVE FALSE
    OBVIOUS
  <2>1. PICK m \in X : \A k \in X : m <= k
    BY Least
  <2>2. m \in Nat /\ m # 0 /\ m <= Len(acts)
    BY <1>1, <2>1
  <2>3. m - 1 \in Nat /\ m - 1 \notin X /\ m - 1 <= Len(acts)
    BY <2>1, <2>2
  <2>4. PICK f : IsRun(f, acts, m - 1)
    BY <2>3
  <2>5. \E g : IsRun(g, acts, (m - 1) + 1)
    BY <1>2, <2>3, <2>4
  <2>6. (m - 1) + 1 = m
    BY <2>2
  <2> QED BY <2>1, <2>5, <2>6
<1> QED BY <1>3

LEMMA RunGoes ==
  ASSUME NEW acts, Len(acts) \in Nat
  PROVE  \E f : /\ G!Run(acts) = f[Len(acts)] /\ f[0] = G!Begun
               /\ \A n \in 1 .. Len(acts) : f[n] = G!Did(db, f[n - 1], acts[n])
<1> DEFINE f == CHOOSE f : IsRun(f, acts, Len(acts))
<1>1. IsRun(f, acts, Len(acts))
  BY RunExists
<1>2. G!Run(acts) = f[Len(acts)]
  BY DEF G!Run, IsRun
<1> HIDE DEF f
<1>3. f[0] = G!Begun /\ \A n \in 1 .. Len(acts) : f[n] = G!Did(db, f[n - 1], acts[n])
  BY <1>1 DEF IsRun
<1> QED BY <1>2, <1>3

Shaped(acc) == "ok" \in DOMAIN acc
Sound(acc) == /\ Shaped(acc)
              /\ acc.ok => acc.db \in Rows /\ AllTold(db, acc) /\ LinkEnds(acc.db)

LEMMA BegunSound == ASSUME db \in Rows, LinkEnds(db) PROVE Sound(G!Begun)
<1>1. G!Begun.db = db /\ G!Begun.events = {} /\ Shaped(G!Begun)
  BY DEF G!Begun, Shaped
<1>2. \A i : G!EventsFor(G!Begun, "goal", i) = {} /\ G!EventsFor(G!Begun, "memory", i) = {}
  BY <1>1 DEF G!EventsFor
<1>3. \A r \in G!Row : Told({}, r, r)
  BY LaterIsNow DEF Told, Numbered
<1>4. GoalsTold(db, G!Begun) /\ FactsTold(db, G!Begun)
  BY <1>1, <1>2, <1>3 DEF GoalsTold, FactsTold, Rows
<1> QED BY <1>1, <1>4 DEF Sound, AllTold, Sorted

LEMMA DidSound ==
  ASSUME now \in Nat, db \in Rows, NEW acc, Sound(acc), NEW a \in G!Action
  PROVE  Sound(G!Did(db, acc, a))
<1>1. CASE acc.ok /\ G!Accepts(db, acc, a)
  <2> DEFINE next == G!Did(db, acc, a)
  <2>1. /\ next.db = G!Write(acc.db, a) /\ next.events = acc.events \cup G!EventsOf(acc.db, a)
        /\ Shaped(next)
    BY <1>1 DEF G!Did, Shaped
  <2> HIDE DEF next
  <2>2. next.db \in Rows /\ AllTold(db, next) /\ LinkEnds(next.db)
    BY <1>1, <2>1, ActionTold DEF Sound
  <2>3. Sound(next)
    BY <2>1, <2>2 DEF Sound
  <2> QED BY <2>3 DEF next
<1>2. CASE ~(acc.ok /\ G!Accepts(db, acc, a))
  <2>1. G!Did(db, acc, a) = [acc EXCEPT !.ok = FALSE]
    BY <1>2, Zenon DEF G!Did
  <2>2. Shaped([acc EXCEPT !.ok = FALSE]) /\ [acc EXCEPT !.ok = FALSE].ok = FALSE
    BY DEF Sound, Shaped
  <2> QED BY <2>1, <2>2 DEF Sound
<1> QED BY <1>1, <1>2

LEMMA RunTold ==
  ASSUME now \in Nat, db \in Rows, LinkEnds(db), NEW acts \in Seq(G!Action)
  PROVE  Sound(G!Run(acts))
<1>1. Len(acts) \in Nat /\ \A n \in 1 .. Len(acts) : acts[n] \in G!Action
  OBVIOUS
<1>2. PICK f : /\ G!Run(acts) = f[Len(acts)] /\ f[0] = G!Begun
               /\ \A n \in 1 .. Len(acts) : f[n] = G!Did(db, f[n - 1], acts[n])
  BY <1>1, RunGoes
<1> DEFINE X == {n \in Nat : n <= Len(acts) /\ ~Sound(f[n])}
<1>3. X = {}
  <2> SUFFICES ASSUME X # {} PROVE FALSE
    OBVIOUS
  <2>1. PICK n \in X : \A k \in X : n <= k
    BY Least
  <2>2. n # 0
    BY <1>2, <2>1, BegunSound
  <2>3. n - 1 \in Nat /\ n - 1 \notin X /\ n \in 1 .. Len(acts)
    BY <1>1, <2>1, <2>2
  <2>4. Sound(f[n - 1])
    BY <1>1, <2>3
  <2>5. Sound(G!Did(db, f[n - 1], acts[n]))
    BY <1>1, <2>3, <2>4, DidSound
  <2> QED BY <1>2, <2>1, <2>3, <2>5
<1> QED BY <1>1, <1>2, <1>3

LEMMA RunOfOne ==
  ASSUME NEW a, G!Run(<<a>>).ok
  PROVE  G!Accepts(db, G!Begun, a)
<1>1. Len(<<a>>) = 1 /\ <<a>>[1] = a
  OBVIOUS
<1>2. G!Run(<<a>>) = G!Did(db, G!Begun, a)
  BY <1>1, RunGoes
<1> QED BY <1>2 DEF G!Did, G!Begun
-----------------------------------------------------------------------------
LEMMA RowsLaterGoesOn ==
  ASSUME NEW c \in Rows, NEW d \in Rows, NEW e \in Rows, RowsLater(c, d), RowsLater(d, e)
  PROVE  RowsLater(c, e)
BY LaterGoesOn DEF RowsLater, Rows

LEMMA RowsLaterIsNow == ASSUME NEW d \in Rows PROVE RowsLater(d, d)
BY LaterIsNow DEF RowsLater, Rows

LEMMA PackageAt ==
  ASSUME NEW C, journal \in Seq(PackageType(C))
  PROVE  /\ Len(journal) \in Nat /\ DOMAIN journal = 1 .. Len(journal)
         /\ \A k \in 1 .. Len(journal) :
              /\ journal[k] \in PackageType(C) /\ journal[k].before \in Rows
              /\ journal[k].after \in Rows /\ journal[k].undone \in BOOLEAN
<1>1. /\ Len(journal) \in Nat /\ DOMAIN journal = 1 .. Len(journal)
      /\ \A k \in 1 .. Len(journal) : journal[k] \in PackageType(C)
  OBVIOUS
<1> QED BY <1>1 DEF PackageType

(* What is told of a group is told of each of its rows.                        *)
LEMMA GroupRows ==
  ASSUME NEW g, GroupTold(g)
  PROVE  /\ \A i \in Goals : /\ Told(G!EventsFor(g, "goal", i), g.before.goals[i], g.after.goals[i])
                             /\ ~Deleted(G!EventsFor(g, "goal", i))
         /\ \A i \in Facts : Told(G!EventsFor(g, "memory", i), g.before.facts[i], g.after.facts[i])
         /\ Sorted(g.events)
<1> DEFINE acc == [db |-> g.after, events |-> g.events]
<1>1. acc.db = g.after /\ acc.events = g.events
  OBVIOUS
<1>2. GoalsTold(g.before, acc) /\ FactsTold(g.before, acc) /\ Sorted(acc.events)
  BY DEF GroupTold, AllTold
<1> HIDE DEF acc
<1>3. \A i : /\ G!EventsFor(acc, "goal", i) = G!EventsFor(g, "goal", i)
            /\ G!EventsFor(acc, "memory", i) = G!EventsFor(g, "memory", i)
  BY <1>1 DEF G!EventsFor
<1>4. \A i \in Goals : ~Deleted(G!EventsFor(g, "goal", i))
  BY <1>1, <1>2 DEF Sorted, Deleted, G!EventsFor
<1> QED BY <1>1, <1>2, <1>3, <1>4 DEF GoalsTold, FactsTold

LEMMA ErasedIsGone ==
  ASSUME NEW d \in Rows, NEW g, g.before \in Rows, g.after \in Rows, Standing(g, d), ~g.undone,
         NEW i \in Facts, Erased(g, i)
  PROVE  ~d.facts[i].live /\ d.facts[i].version > 0
<1>1. g.after.facts[i] \in G!Row /\ d.facts[i] \in G!Row
  BY DEF Rows
<1>2. G!EventsFor(g, "memory", i) # {}
  BY DEF Erased, Deleted
<1>3. Ended(G!EventsFor(g, "memory", i), g.before.facts[i], g.after.facts[i])
  BY <1>2, GroupRows DEF Standing, Told, Erased
<1>4. ~g.after.facts[i].live /\ g.after.facts[i].version > 0
  BY <1>3 DEF Ended
<1>5. G!Content(d.facts[i]) = G!Content(g.after.facts[i]) /\ Later(g.after.facts[i], d.facts[i])
  BY DEF Standing, RowsLater
<1>6. d.facts[i].live = g.after.facts[i].live
  BY <1>5 DEF G!Content
<1>7. d.facts[i].version >= g.after.facts[i].version
  BY <1>5 DEF Later
<1> QED BY <1>1, <1>4, <1>6, <1>7 DEF G!Row, G!Fields
-----------------------------------------------------------------------------
(* A group that is applied, as its run tells it.                               *)
LEMMA RunLater ==
  ASSUME db \in Rows, NEW acts, Sound(G!Run(acts)), G!Run(acts).ok
  PROVE  RowsLater(db, G!Run(acts).db)
BY DEF Sound, AllTold, GoalsTold, FactsTold, Told, RowsLater

LEMMA RunLeavesErased ==
  ASSUME db \in Rows, NEW acts, Sound(G!Run(acts)), G!Run(acts).ok, NEW i \in Facts,
         ~db.facts[i].live, db.facts[i].version > 0
  PROVE  G!Run(acts).db.facts[i] = db.facts[i] /\ G!EventsFor(G!Run(acts), "memory", i) = {}
<1> DEFINE evs == G!EventsFor(G!Run(acts), "memory", i)
<1>1. Told(evs, db.facts[i], G!Run(acts).db.facts[i])
  BY DEF Sound, AllTold, FactsTold
<1>2. db.facts[i].version # 0
  BY DEF Rows, G!Row, G!Fields
<1> HIDE DEF evs
<1>3. evs = {}
  BY <1>1, <1>2 DEF Told, Ended, Lasting
<1>4. G!Run(acts).db.facts[i] = db.facts[i]
  BY <1>1, <1>3 DEF Told
<1> QED BY <1>3, <1>4 DEF evs

LEMMA AppliedStands ==
  ASSUME GoalsInv, NEW acts \in Seq(G!Action), NEW g, G!Run(acts).ok,
         \A i \in Goals : G!Run(acts).db.goals[i].version <= LastRow,
         g.before = db, g.after = G!Run(acts).db, g.events = G!Run(acts).events, ~g.undone
  PROVE  /\ G!Run(acts).db \in Rows /\ LinkEnds(G!Run(acts).db) /\ RowsLater(db, G!Run(acts).db)
         /\ Standing(g, G!Run(acts).db)
         /\ \A k \in 1 .. Len(journal) : Standing(journal[k], G!Run(acts).db)
         /\ \A k \in 1 .. Len(journal), i \in Facts :
              ~journal[k].undone => ~(Erased(journal[k], i) /\ Erased(g, i))
<1> DEFINE r == G!Run(acts)
<1>1. db \in Rows /\ LinkEnds(db) /\ now \in Nat
  BY DEF GoalsInv, GoalsTyped
<1>2. Sound(r)
  BY <1>1, RunTold
<1>3. r.db \in Rows /\ AllTold(db, r) /\ LinkEnds(r.db) /\ RowsLater(db, r.db)
  BY <1>1, <1>2, RunLater DEF Sound
<1>4. \A i \in Facts : ~db.facts[i].live /\ db.facts[i].version > 0 =>
                        r.db.facts[i] = db.facts[i] /\ G!EventsFor(r, "memory", i) = {}
  BY <1>1, <1>2, RunLeavesErased
<1> HIDE DEF r
<1>5. g.before = db /\ g.after = r.db /\ g.events = r.events
  BY DEF r
<1>6. GroupTold(g)
  <2> DEFINE acc == [db |-> g.after, events |-> g.events]
  <2>1. acc.db = r.db /\ acc.events = r.events
    BY <1>5
  <2> HIDE DEF acc
  <2>2. \A e, i : G!EventsFor(acc, e, i) = G!EventsFor(r, e, i)
    BY <2>1 DEF G!EventsFor
  <2>3. AllTold(db, acc)
    BY <1>3, <2>1, <2>2 DEF AllTold, GoalsTold, FactsTold
  <2> QED BY <1>5, <2>3 DEF GroupTold, acc
<1>7. Standing(g, r.db)
  <2>1. RowsLater(g.after, r.db)
    BY <1>3, <1>5, RowsLaterIsNow
  <2>2. \A i \in Goals : g.after.goals[i].version <= LastRow
    BY <1>5 DEF r
  <2> QED BY <1>5, <1>6, <2>1, <2>2 DEF Standing
<1>8. PICK C : journal \in Seq(PackageType(C))
  BY DEF GoalsInv
<1>9. ASSUME NEW k \in 1 .. Len(journal), NEW i \in Facts, ~journal[k].undone,
             Erased(journal[k], i)
      PROVE  r.db.facts[i] = db.facts[i] /\ G!EventsFor(r, "memory", i) = {}
  <2>1. journal[k].before \in Rows /\ journal[k].after \in Rows /\ Standing(journal[k], db)
    BY <1>8, PackageAt DEF GoalsInv, Chronicle
  <2>2. ~db.facts[i].live /\ db.facts[i].version > 0
    BY <1>1, <1>9, <2>1, ErasedIsGone
  <2> QED BY <1>4, <2>2
<1>10. ASSUME NEW k \in 1 .. Len(journal) PROVE Standing(journal[k], r.db)
  <2>1. journal[k].before \in Rows /\ journal[k].after \in Rows /\ Standing(journal[k], db)
    BY <1>8, PackageAt DEF GoalsInv, Chronicle
  <2>2. RowsLater(journal[k].after, r.db)
    BY <1>1, <1>3, <2>1, RowsLaterGoesOn DEF Standing
  <2>3. ~journal[k].undone => \A i \in Facts :
          Erased(journal[k], i) => G!Content(r.db.facts[i]) = G!Content(journal[k].after.facts[i])
    BY <1>9, <2>1 DEF Standing
  <2> QED BY <2>1, <2>2, <2>3 DEF Standing
<1>11. ASSUME NEW k \in 1 .. Len(journal), NEW i \in Facts, ~journal[k].undone,
              Erased(journal[k], i)
       PROVE  ~Erased(g, i)
  <2>1. G!EventsFor(g, "memory", i) = G!EventsFor(r, "memory", i)
    BY <1>5 DEF G!EventsFor
  <2> QED BY <1>9, <1>11, <2>1 DEF Erased, Deleted
<1> QED BY <1>3, <1>7, <1>10, <1>11 DEF r

(* The step of a group: the rows go on, and the groups stand.                  *)
LEMMA GroupWider ==
  ASSUME NEW C, NEW D, C \subseteq D, journal \in Seq(PackageType(C))
  PROVE  journal \in Seq(PackageType(D))
<1>1. PackageType(C) \subseteq PackageType(D)
  BY Zenon DEF PackageType
<1>2. Len(journal) \in Nat /\ journal \in [1 .. Len(journal) -> PackageType(C)]
  OBVIOUS
<1>3. journal \in [1 .. Len(journal) -> PackageType(D)]
  BY <1>1, <1>2, Zenon
<1> QED BY <1>2, <1>3

GoalsKept ==
  /\ db' \in Rows /\ LinkEnds(db') /\ RowsLater(db, db')
  /\ \A i \in Goals : db'.goals[i].version <= LastRow + 1
  /\ \E C : journal' \in Seq(PackageType(C))
  /\ Chronicle' /\ Sole'

LEMMA NothingKept ==
  ASSUME GoalsInv, UNCHANGED <<db, journal>>
  PROVE  GoalsKept
<1>1. GoalsKept <=> /\ db \in Rows /\ LinkEnds(db) /\ RowsLater(db, db)
                    /\ \A i \in Goals : db.goals[i].version <= LastRow + 1
                    /\ (\E C : journal \in Seq(PackageType(C))) /\ Chronicle /\ Sole
  BY DEF GoalsKept, Chronicle, Sole
<1>2. RowsLater(db, db)
  BY RowsLaterIsNow DEF GoalsInv, GoalsTyped
<1> QED BY <1>1, <1>2 DEF GoalsInv, GoalsTyped

LEMMA ApplyKeeps ==
  ASSUME GoalsInv, NEW by \in {"assistant", "web"}, NEW acts \in Seq(G!Action), NEW saw,
         G!Apply(by, acts, saw)
  PROVE  GoalsKept
<1> DEFINE r == G!Run(acts)
           g == [by |-> by, acts |-> acts, events |-> r.events, before |-> db,
                 after |-> r.db, saw |-> saw, undone |-> FALSE]
<1>1. CASE UNCHANGED <<db, journal>>
  BY <1>1, NothingKept
<1>2. CASE ~UNCHANGED <<db, journal>>
  <2>1. /\ r.ok /\ \A i \in Goals : r.db.goals[i].version <= LastRow
        /\ db' = r.db /\ journal' = Append(journal, g)
    BY <1>2 DEF G!Apply
  <2>2. /\ g.before = db /\ g.after = r.db /\ g.events = r.events /\ ~g.undone
    OBVIOUS
  <2> HIDE DEF g
  <2>3. /\ r.db \in Rows /\ LinkEnds(r.db) /\ RowsLater(db, r.db) /\ Standing(g, r.db)
        /\ \A k \in 1 .. Len(journal) : Standing(journal[k], r.db)
        /\ \A k \in 1 .. Len(journal), i \in Facts :
              ~journal[k].undone => ~(Erased(journal[k], i) /\ Erased(g, i))
    BY <2>1, <2>2, AppliedStands
  <2> HIDE DEF r
  <2>4. PICK B : journal \in Seq(PackageType(B))
    BY DEF GoalsInv
  <2> DEFINE C == B \cup {acts, r.events, saw}
  <2>5. B \subseteq C /\ acts \in C /\ r.events \in C /\ saw \in C
    OBVIOUS
  <2> HIDE DEF C
  <2>6. g \in PackageType(C)
    <3>1. db \in Rows
      BY DEF GoalsInv, GoalsTyped
    <3> QED BY <2>3, <2>5, <3>1 DEF g, PackageType
  <2>7. journal \in Seq(PackageType(C))
    BY <2>4, <2>5, GroupWider
  <2>8. journal' \in Seq(PackageType(C))
    BY <2>1, <2>6, <2>7
  <2>9. /\ Len(journal') = Len(journal) + 1 /\ Len(journal) \in Nat /\ journal'[Len(journal) + 1] = g
        /\ \A k \in 1 .. Len(journal) : journal'[k] = journal[k]
    BY <2>1, <2>6, <2>7
  <2>10. \A k \in 1 .. Len(journal') : k \in 1 .. Len(journal) \/ k = Len(journal) + 1
    BY <2>9
  <2>11. Chronicle'
    <3>1. \A k \in 1 .. Len(journal') : Standing(journal'[k], r.db)
      BY <2>3, <2>9, <2>10
    <3>2. \A k \in 1 .. Len(journal') : Standing(journal'[k], db')
      BY <2>1, <3>1
    <3> QED BY <3>2 DEF Chronicle
  <2>12. Sole'
    <3>1. ASSUME NEW j \in 1 .. Len(journal'), NEW k \in 1 .. Len(journal'), j # k,
                 ~journal'[j].undone, ~journal'[k].undone, NEW i \in Facts
          PROVE  ~(Erased(journal'[j], i) /\ Erased(journal'[k], i))
      <4>1. CASE j \in 1 .. Len(journal) /\ k \in 1 .. Len(journal)
        BY <2>9, <3>1, <4>1 DEF GoalsInv, Sole
      <4>2. CASE j = Len(journal) + 1 /\ k \in 1 .. Len(journal)
        BY <2>3, <2>9, <3>1, <4>2
      <4>3. CASE k = Len(journal) + 1 /\ j \in 1 .. Len(journal)
        BY <2>3, <2>9, <3>1, <4>3
      <4> QED BY <2>10, <3>1, <4>1, <4>2, <4>3
    <3> QED BY <3>1 DEF Sole
  <2>13. \A i \in Goals : r.db.goals[i].version <= LastRow + 1
    BY <2>1, <2>3, GoalBounds DEF Rows, G!Row, G!Fields
  <2> QED BY <2>1, <2>3, <2>8, <2>11, <2>12, <2>13 DEF GoalsKept
<1> QED BY <1>1, <1>2
-----------------------------------------------------------------------------
(* An undo. Its group's events tell what each row was, and the row is as the   *)
(* group left it: the version it verified says so.                             *)
LEMMA Unwound ==
  ASSUME NEW evs, NEW r \in G!Row, NEW s \in G!Row, NEW d \in G!Row, Told(evs, r, s),
         evs # {}, ~Deleted(evs), Later(s, d), d.live, d.version = G!LatestPost(evs)
  PROVE  /\ d.version = s.version /\ G!Content(d) = G!Content(s)
         /\ G!Creates(evs) => ~r.live
         /\ ~G!Creates(evs) => r.live /\ G!FirstOf(evs).before = r
<1>1. Numbered(evs) /\ Lasting(evs, r, s)
  BY DEF Told
<1>2. G!LatestPost(evs) = s.version
  <2>1. PICK e \in evs : e.post = s.version /\ \A o \in evs : o.post <= s.version
    BY <1>1 DEF Lasting, LastIs
  <2>2. s.version \in {x.post : x \in evs}
    BY <2>1
  <2>3. ASSUME NEW x \in evs, \A o \in evs : o.post <= x.post PROVE x.post = s.version
    <3>1. x.post \in Nat /\ s.version \in Nat /\ x.post <= s.version /\ s.version <= x.post
      BY <1>1, <2>1, <2>3 DEF Numbered
    <3> QED BY <3>1
  <2>4. /\ G!LatestPost(evs) \in {x.post : x \in evs}
        /\ \A o \in evs : o.post <= G!LatestPost(evs)
    BY <2>1, <2>2, Zenon DEF G!LatestPost
  <2> QED BY <2>3, <2>4
<1>3. ASSUME ~G!Creates(evs) PROVE G!FirstOf(evs).before = r
  <2>1. PICK e \in evs : e.before = r /\ \A o \in evs \ {e} : e.post < o.post
    BY <1>1, <1>3 DEF Lasting, FirstWas
  <2>2. \A o \in evs : e.post <= o.post
    BY <1>1, <2>1 DEF Numbered
  <2>3. G!FirstOf(evs) \in evs /\ \A o \in evs : G!FirstOf(evs).post <= o.post
    BY <2>1, <2>2, Zenon DEF G!FirstOf
  <2>4. G!FirstOf(evs) = e
    BY <1>1, <2>1, <2>3 DEF Numbered
  <2> QED BY <2>1, <2>4
<1>4. G!Content(d) = G!Content(s)
  BY <1>2 DEF Later
<1> QED BY <1>1, <1>2, <1>3, <1>4 DEF Lasting, G!Row

LEMMA RowRestored ==
  ASSUME now \in Nat, NEW d \in G!Row, NEW b \in G!Row
  PROVE  /\ G!RestoredRow(d, b) \in G!Row /\ G!RestoredRow(d, b).live
         /\ G!RestoredRow(d, b).version = d.version + 1 /\ Later(d, G!RestoredRow(d, b))
         /\ b.live => G!Content(G!RestoredRow(d, b)) = G!Content(b)
<1>1. /\ d \in G!Fields /\ d.version \in Nat /\ d.version + 1 \in Nat /\ d.version + 1 # 0
      /\ b.text \in G!Texts /\ b.status \in G!GoalStatuses /\ b.sensitive \in BOOLEAN
  BY DEF G!Row, G!Fields
<1>2. G!RestoredRow(d, b) \in G!Fields
  BY <1>1, Zenon DEF G!Fields, G!RestoredRow
<1>3. /\ G!RestoredRow(d, b).live = TRUE /\ G!RestoredRow(d, b).version = d.version + 1
      /\ G!RestoredRow(d, b).text = b.text /\ G!RestoredRow(d, b).status = b.status
      /\ G!RestoredRow(d, b).sensitive = b.sensitive
  BY <1>1 DEF G!Fields, G!RestoredRow
<1>4. G!RestoredRow(d, b) \in G!Row
  BY <1>1, <1>2, <1>3 DEF G!Row
<1>5. Later(d, G!RestoredRow(d, b))
  BY <1>1, <1>3 DEF Later
<1>6. b.live => G!Content(G!RestoredRow(d, b)) = G!Content(b)
  BY <1>3 DEF G!Content, G!Row, G!Fields
<1> QED BY <1>3, <1>4, <1>5, <1>6

LEMMA LaterGone ==
  ASSUME NEW r \in G!Row
  PROVE  Later(r, [r EXCEPT !.live = FALSE])
BY RowGone DEF Later, G!Row, G!Fields

(* What an undo makes of a row its group left as s, having found it as r.      *)
Unmade(evs, r, s, d, t) ==
  /\ t \in G!Row /\ Later(d, t)
  /\ evs = {} => t = d
  /\ evs # {} => G!Content(d) = G!Content(s) /\ IF r.live THEN G!Content(t) = G!Content(r) ELSE ~t.live

LEMMA GoalRestored ==
  ASSUME now \in Nat, NEW d \in Rows, d = db, NEW g, g.before \in Rows, g.after \in Rows,
         Standing(g, d), G!Undoable(g), NEW i \in Goals, d.goals[i].version <= LastRow + 1
  PROVE  /\ Unmade(G!EventsFor(g, "goal", i), g.before.goals[i], g.after.goals[i], d.goals[i],
                   G!RestoredGoal(g, i))
         /\ G!RestoredGoal(g, i).version <= LastRow + 1
         /\ d.goals[i].live /\ ~(i \in G!IdsIn(g, "goal") /\ G!Creates(G!EventsFor(g, "goal", i)))
              => G!RestoredGoal(g, i).live
<1> DEFINE evs == G!EventsFor(g, "goal", i)
           r == g.before.goals[i]
           s == g.after.goals[i]
           x == d.goals[i]
           t == G!RestoredGoal(g, i)
<1>1. r \in G!Row /\ s \in G!Row /\ x \in G!Row
  BY DEF Rows
<1>2. Told(evs, r, s) /\ ~Deleted(evs) /\ Later(s, x) /\ s.version <= LastRow
  BY GroupRows DEF Standing, RowsLater
<1>3. t = IF evs = {} THEN x ELSE IF G!Creates(evs) THEN [x EXCEPT !.live = FALSE]
          ELSE G!RestoredRow(x, G!FirstOf(evs).before)
  BY DEF G!RestoredGoal
<1>4. evs # {} => i \in G!IdsIn(g, "goal")
  BY DEF G!EventsFor, G!IdsIn
<1>5. evs # {} => x.live /\ x.version = G!LatestPost(evs)
  BY <1>4 DEF G!Undoable, G!Verified
<1> HIDE DEF evs, r, s, x, t
<1>6. CASE evs = {}
  BY <1>1, <1>3, <1>6, LaterIsNow DEF Unmade, evs, r, s, x, t
<1>7. CASE evs # {} /\ G!Creates(evs)
  <2>1. G!Content(x) = G!Content(s) /\ ~r.live
    BY <1>1, <1>2, <1>5, <1>7, Unwound
  <2>2. t \in G!Row /\ Later(x, t) /\ ~t.live /\ t.version = x.version
    BY <1>1, <1>3, <1>7, RowGone, LaterGone
  <2>3. Unmade(evs, r, s, x, t)
    BY <1>7, <2>1, <2>2 DEF Unmade
  <2>4. t.version <= LastRow + 1 /\ i \in G!IdsIn(g, "goal")
    BY <1>4, <1>7, <2>2 DEF x
  <2> QED BY <1>7, <2>3, <2>4 DEF evs, r, s, x, t
<1>8. CASE evs # {} /\ ~G!Creates(evs)
  <2>1. x.version = s.version /\ G!Content(x) = G!Content(s) /\ r.live /\ G!FirstOf(evs).before = r
    BY <1>1, <1>2, <1>5, <1>8, Unwound
  <2>2. /\ t \in G!Row /\ Later(x, t) /\ t.live /\ t.version = x.version + 1
        /\ G!Content(t) = G!Content(r)
    BY <1>1, <1>3, <1>8, <2>1, RowRestored
  <2>3. Unmade(evs, r, s, x, t)
    BY <1>8, <2>1, <2>2 DEF Unmade
  <2>4. t.version <= LastRow + 1
    BY <1>1, <1>2, <2>1, <2>2, GoalBounds DEF G!Row, G!Fields
  <2> QED BY <2>2, <2>3, <2>4 DEF evs, r, s, x, t
<1> QED BY <1>6, <1>7, <1>8

LEMMA FactRestored ==
  ASSUME now \in Nat, NEW d \in Rows, d = db, NEW g, g.before \in Rows, g.after \in Rows,
         Standing(g, d), ~g.undone, G!Undoable(g), NEW i \in Facts
  PROVE  /\ Unmade(G!EventsFor(g, "memory", i), g.before.facts[i], g.after.facts[i], d.facts[i],
                   G!RestoredFact(g, i))
         /\ G!EventsFor(g, "memory", i) # {} => Erased(g, i) \/ d.facts[i].live
<1> DEFINE evs == G!EventsFor(g, "memory", i)
           r == g.before.facts[i]
           s == g.after.facts[i]
           x == d.facts[i]
           t == G!RestoredFact(g, i)
<1>1. r \in G!Row /\ s \in G!Row /\ x \in G!Row
  BY DEF Rows
<1>2. Told(evs, r, s) /\ Later(s, x)
  BY GroupRows DEF Standing, RowsLater
<1>3. t = IF evs = {} THEN x
          ELSE IF ~G!Deletes(evs) /\ G!Creates(evs) THEN [x EXCEPT !.live = FALSE]
          ELSE G!RestoredRow(x, G!FirstOf(evs).before)
  BY DEF G!RestoredFact
<1>4. evs # {} => G!Deletes(evs) \/ (x.live /\ x.version = G!LatestPost(evs))
  <2>1. evs # {} => i \in G!IdsIn(g, "memory")
    BY DEF G!EventsFor, G!IdsIn
  <2> QED BY <2>1 DEF G!Undoable, G!Verified
<1>5. Deleted(evs) => ~x.live /\ G!Content(x) = G!Content(s)
  BY ErasedIsGone DEF Erased, Standing
<1> HIDE DEF evs, r, s, x, t
<1>6. CASE evs = {}
  BY <1>1, <1>3, <1>6, LaterIsNow DEF Unmade, evs, r, s, x, t
<1>7. CASE evs # {} /\ Deleted(evs)
  <2>1. G!Deletes(evs) /\ G!Content(x) = G!Content(s)
    BY <1>4, <1>5, <1>7
  <2>2. r.live /\ \A e \in evs : e.before = r /\ e.post = 0
    BY <1>2, <1>7, <2>1 DEF Told, Ended
  <2>3. G!FirstOf(evs).before = r
    <3>1. \E e \in evs : \A o \in evs : e.post <= o.post
      BY <1>7, <2>2
    <3>2. G!FirstOf(evs) \in evs
      BY <3>1, Zenon DEF G!FirstOf
    <3> QED BY <2>2, <3>2
  <2>4. t \in G!Row /\ Later(x, t) /\ G!Content(t) = G!Content(r)
    BY <1>1, <1>3, <1>7, <2>1, <2>2, <2>3, RowRestored
  <2>5. Unmade(evs, r, s, x, t)
    BY <1>7, <2>1, <2>2, <2>4 DEF Unmade
  <2> QED BY <1>7, <2>5 DEF Erased, evs, r, s, x, t
<1>8. CASE evs # {} /\ ~Deleted(evs)
  <2>1. ~G!Deletes(evs)
    BY <1>8 DEF G!Deletes, Deleted
  <2>2. x.live /\ x.version = G!LatestPost(evs)
    BY <1>4, <1>8, <2>1
  <2>3. /\ G!Content(x) = G!Content(s)
        /\ G!Creates(evs) => ~r.live
        /\ ~G!Creates(evs) => r.live /\ G!FirstOf(evs).before = r
    BY <1>1, <1>2, <1>8, <2>2, Unwound
  <2>4. /\ t \in G!Row /\ Later(x, t)
        /\ IF r.live THEN G!Content(t) = G!Content(r) ELSE ~t.live
    <3>1. CASE G!Creates(evs)
      BY <1>1, <1>3, <1>8, <2>1, <2>3, <3>1, RowGone, LaterGone
    <3>2. CASE ~G!Creates(evs)
      BY <1>1, <1>3, <1>8, <2>1, <2>3, <3>2, RowRestored
    <3> QED BY <3>1, <3>2
  <2>5. Unmade(evs, r, s, x, t)
    BY <1>8, <2>3, <2>4 DEF Unmade
  <2> QED BY <2>2, <2>5 DEF evs, r, s, x, t
<1> QED BY <1>6, <1>7, <1>8

LEMMA LinksRestored ==
  ASSUME NEW d \in Rows, d = db, LinkEnds(d), NEW g, Sorted(g.events), G!Undoable(g),
         NEW p \in G!RestoredLinks(g)
  PROVE  /\ p \in G!Pairs /\ d.tasks[p[1]].live /\ d.goals[p[2]].live
         /\ p[1] \notin G!IdsIn(g, "task")
         /\ ~(p[2] \in G!IdsIn(g, "goal") /\ G!Creates(G!EventsFor(g, "goal", p[2])))
<1> DEFINE evs == G!EventsFor(g, "task_goal", p)
<1>1. /\ p[1] \notin G!IdsIn(g, "task")
      /\ ~(p[2] \in G!IdsIn(g, "goal") /\ G!Creates(G!EventsFor(g, "goal", p[2])))
      /\ p \in d.links \/ (p \in G!IdsIn(g, "task_goal") /\ ~G!Linked(evs))
  BY DEF G!RestoredLinks
<1>2. CASE p \in d.links
  BY <1>1, <1>2 DEF LinkEnds, Rows
<1>3. CASE p \in G!IdsIn(g, "task_goal") /\ ~G!Linked(evs)
  <2>1. PICK e \in evs : TRUE
    BY <1>3 DEF G!IdsIn, G!EventsFor
  <2>2. e.entity = "task_goal" /\ e.id = p /\ e \in g.events
    BY <2>1 DEF G!EventsFor
  <2>3. e.type \in {"link", "unlink"} /\ p \in G!Pairs
    BY <2>2 DEF Sorted
  <2>4. G!Unlinked(evs)
    BY <1>3, <2>1, <2>3 DEF G!Linked, G!Unlinked
  <2>5. G!LinkUndoable(g, p)
    BY <1>3 DEF G!Undoable
  <2>6. d.tasks[p[1]].live /\ d.goals[p[2]].live
    BY <1>3, <2>4, <2>5 DEF G!LinkUndoable
  <2> QED BY <1>1, <2>3, <2>6
<1> QED BY <1>1, <1>2, <1>3

Undone(g, d) ==
  [goals |-> [i \in Goals |-> G!RestoredGoal(g, i)], facts |-> [i \in Facts |-> G!RestoredFact(g, i)],
   tasks |-> [t \in Tasks |-> IF t \in G!IdsIn(g, "task") THEN [d.tasks[t] EXCEPT !.live = FALSE]
                              ELSE d.tasks[t]],
   links |-> G!RestoredLinks(g)]

LEMMA UndoRows ==
  ASSUME now \in Nat, NEW d \in Rows, d = db, LinkEnds(d), NEW g, g.before \in Rows, g.after \in Rows,
         Standing(g, d), ~g.undone, G!Undoable(g),
         \A i \in Goals : d.goals[i].version <= LastRow + 1
  PROVE  /\ Undone(g, d) \in Rows /\ LinkEnds(Undone(g, d)) /\ RowsLater(d, Undone(g, d))
         /\ \A i \in Goals : Undone(g, d).goals[i].version <= LastRow + 1
<1> DEFINE e == Undone(g, d)
<1>1. /\ \A i \in Goals : e.goals[i] = G!RestoredGoal(g, i)
      /\ \A i \in Facts : e.facts[i] = G!RestoredFact(g, i)
      /\ \A t \in Tasks : e.tasks[t] = IF t \in G!IdsIn(g, "task")
                                      THEN [d.tasks[t] EXCEPT !.live = FALSE] ELSE d.tasks[t]
      /\ e.links = G!RestoredLinks(g)
  BY DEF Undone
<1>2. \A i \in Goals : /\ G!RestoredGoal(g, i) \in G!Row /\ Later(d.goals[i], G!RestoredGoal(g, i))
                       /\ G!RestoredGoal(g, i).version <= LastRow + 1
  BY GoalRestored DEF Unmade
<1>3. \A i \in Facts : G!RestoredFact(g, i) \in G!Row /\ Later(d.facts[i], G!RestoredFact(g, i))
  BY FactRestored DEF Unmade
<1>4. \A t \in Tasks : d.tasks[t] \in G!Row /\ [d.tasks[t] EXCEPT !.live = FALSE] \in G!Row
  BY RowGone DEF Rows
<1>5. Sorted(g.events)
  BY GroupRows DEF Standing
<1>6. \A p \in G!RestoredLinks(g) :
        /\ p \in G!Pairs /\ d.tasks[p[1]].live /\ d.goals[p[2]].live
        /\ p[1] \notin G!IdsIn(g, "task")
        /\ ~(p[2] \in G!IdsIn(g, "goal") /\ G!Creates(G!EventsFor(g, "goal", p[2])))
  BY <1>5, LinksRestored
<1>7. e \in Rows
  <2>1. [i \in Goals |-> G!RestoredGoal(g, i)] \in [Goals -> G!Row]
    BY <1>2
  <2>2. [i \in Facts |-> G!RestoredFact(g, i)] \in [Facts -> G!Row]
    BY <1>3
  <2>3. [t \in Tasks |-> IF t \in G!IdsIn(g, "task") THEN [d.tasks[t] EXCEPT !.live = FALSE]
                         ELSE d.tasks[t]] \in [Tasks -> G!Row]
    BY <1>4
  <2>4. G!RestoredLinks(g) \in SUBSET G!Pairs
    BY <1>6
  <2> QED BY <2>1, <2>2, <2>3, <2>4 DEF Undone, Rows
<1> HIDE DEF e
<1>8. LinkEnds(e)
  <2> SUFFICES ASSUME NEW p \in e.links PROVE e.tasks[p[1]].live /\ e.goals[p[2]].live
    BY DEF LinkEnds
  <2>1. /\ p[1] \in Tasks /\ p[2] \in Goals /\ d.tasks[p[1]].live /\ d.goals[p[2]].live
        /\ p[1] \notin G!IdsIn(g, "task")
        /\ ~(p[2] \in G!IdsIn(g, "goal") /\ G!Creates(G!EventsFor(g, "goal", p[2])))
    BY <1>1, <1>6 DEF G!Pairs
  <2>2. G!RestoredGoal(g, p[2]).live
    BY <2>1, GoalRestored
  <2> QED BY <1>1, <2>1, <2>2
<1>9. RowsLater(d, e)
  BY <1>1, <1>2, <1>3 DEF RowsLater
<1>10. \A i \in Goals : e.goals[i].version <= LastRow + 1
  BY <1>1, <1>2
<1> QED BY <1>7, <1>8, <1>9, <1>10 DEF e

LEMMA GoalUndoKeeps ==
  ASSUME GoalsInv, NEW k \in 1 .. Len(journal), G!undo(k)
  PROVE  GoalsKept
<1> DEFINE g == journal[k]
<1>1. db \in Rows /\ LinkEnds(db) /\ now \in Nat /\ \A i \in Goals : db.goals[i].version <= LastRow + 1
  BY DEF GoalsInv, GoalsTyped
<1>2. PICK C : journal \in Seq(PackageType(C))
  BY DEF GoalsInv
<1>3. /\ Len(journal) \in Nat /\ DOMAIN journal = 1 .. Len(journal)
      /\ \A j \in 1 .. Len(journal) :
           /\ journal[j] \in PackageType(C) /\ journal[j].before \in Rows
           /\ journal[j].after \in Rows /\ Standing(journal[j], db)
  BY <1>2, PackageAt DEF GoalsInv, Chronicle
<1>4. /\ ~g.undone /\ G!Undoable(g) /\ db' = Undone(g, db)
      /\ journal' = [journal EXCEPT ![k].undone = TRUE]
  BY DEF G!undo, Undone
<1>5. /\ db' \in Rows /\ LinkEnds(db') /\ RowsLater(db, db')
      /\ \A i \in Goals : db'.goals[i].version <= LastRow + 1
  BY <1>1, <1>3, <1>4, UndoRows
<1>6. \A i \in Facts : db'.facts[i] = G!RestoredFact(g, i)
  BY <1>4 DEF Undone
<1>7. /\ Len(journal') = Len(journal) /\ \A j \in 1 .. Len(journal) \ {k} : journal'[j] = journal[j]
      /\ journal'[k] = [g EXCEPT !.undone = TRUE] /\ journal' \in Seq(PackageType(C))
  <2>1. [g EXCEPT !.undone = TRUE] \in PackageType(C)
    BY <1>3 DEF PackageType
  <2> HIDE DEF PackageType
  <2>2. journal \in [1 .. Len(journal) -> PackageType(C)]
    BY <1>2
  <2> QED BY <1>3, <1>4, <2>1, <2>2
<1>8. /\ journal'[k].before = g.before /\ journal'[k].after = g.after
      /\ journal'[k].events = g.events /\ journal'[k].undone
  BY <1>3, <1>7 DEF PackageType
<1>9. ASSUME NEW j \in 1 .. Len(journal), j # k, ~journal[j].undone, NEW i \in Facts,
             Erased(journal[j], i)
      PROVE  db'.facts[i] = db.facts[i]
  <2>1. ~db.facts[i].live
    BY <1>1, <1>3, <1>9, ErasedIsGone
  <2>2. ~Erased(g, i)
    BY <1>4, <1>9 DEF GoalsInv, Sole
  <2>3. G!EventsFor(g, "memory", i) = {}
    BY <1>1, <1>3, <1>4, <2>1, <2>2, FactRestored
  <2> QED BY <1>6, <2>3 DEF G!RestoredFact
<1>10. Chronicle'
  <2>1. ASSUME NEW j \in 1 .. Len(journal) PROVE Standing(journal'[j], db')
    <3>1. RowsLater(journal[j].after, db')
      BY <1>1, <1>3, <1>5, RowsLaterGoesOn DEF Standing
    <3>2. CASE j = k
      <4>1. GroupTold(journal'[k])
        BY <1>3, <1>8 DEF GroupTold, Standing
      <4> QED BY <1>3, <1>8, <3>1, <3>2, <4>1 DEF Standing
    <3>3. CASE j # k
      <4>1. ~journal[j].undone => \A i \in Facts :
              Erased(journal[j], i) => G!Content(db'.facts[i]) = G!Content(journal[j].after.facts[i])
        BY <1>3, <1>9, <3>3 DEF Standing
      <4>2. Standing(journal[j], db')
        BY <1>3, <3>1, <4>1 DEF Standing
      <4> QED BY <1>7, <3>3, <4>2
    <3> QED BY <3>2, <3>3
  <2> QED BY <1>7, <2>1 DEF Chronicle
<1>11. Sole'
  <2>1. ASSUME NEW i \in 1 .. Len(journal), NEW j \in 1 .. Len(journal), i # j,
               ~journal'[i].undone, ~journal'[j].undone, NEW f \in Facts
        PROVE  ~(Erased(journal'[i], f) /\ Erased(journal'[j], f))
    <3>1. i # k /\ j # k
      BY <1>8, <2>1
    <3> QED BY <1>7, <2>1, <3>1 DEF GoalsInv, Sole
  <2> QED BY <1>7, <2>1 DEF Sole
<1> QED BY <1>5, <1>7, <1>10, <1>11 DEF GoalsKept

(* An undo takes back what its group did, and only that.                       *)
LEMMA UndoTakesBack ==
  ASSUME GoalsInv, NEW k \in 1 .. Len(journal), G!undo(k)
  PROVE  G!ExactUndo
<1> DEFINE g == journal[k]
<1>1. db \in Rows /\ now \in Nat /\ \A i \in Goals : db.goals[i].version <= LastRow + 1
  BY DEF GoalsInv, GoalsTyped
<1>2. PICK C : journal \in Seq(PackageType(C))
  BY DEF GoalsInv
<1>3. /\ Len(journal) \in Nat /\ DOMAIN journal = 1 .. Len(journal)
      /\ g.before \in Rows /\ g.after \in Rows /\ Standing(g, db)
  BY <1>2, PackageAt DEF GoalsInv, Chronicle
<1>4. /\ ~g.undone /\ G!Undoable(g) /\ db' = Undone(g, db)
      /\ journal' = [journal EXCEPT ![k].undone = TRUE]
  BY DEF G!undo, Undone
<1>5. \A j \in G!UndoneNow : j = k
  BY <1>2, <1>3, <1>4 DEF G!UndoneNow
<1>6. Sorted(g.events)
  BY <1>3, GroupRows DEF Standing
<1>7. ASSUME NEW i \in G!IdsIn(g, "goal") PROVE G!TakenBack(g, "goals", i)
  <2>1. i \in Goals /\ G!EventsFor(g, "goal", i) # {}
    BY <1>6 DEF Sorted, G!IdsIn, G!EventsFor
  <2>2. Unmade(G!EventsFor(g, "goal", i), g.before.goals[i], g.after.goals[i], db.goals[i],
               G!RestoredGoal(g, i))
    BY <1>1, <1>3, <1>4, <2>1, GoalRestored
  <2>3. db'.goals[i] = G!RestoredGoal(g, i)
    BY <1>4, <2>1 DEF Undone
  <2> QED BY <2>1, <2>2, <2>3 DEF Unmade, G!TakenBack
<1>8. ASSUME NEW i \in G!IdsIn(g, "memory") PROVE G!TakenBack(g, "facts", i)
  <2>1. i \in Facts /\ G!EventsFor(g, "memory", i) # {}
    BY <1>6 DEF Sorted, G!IdsIn, G!EventsFor
  <2>2. Unmade(G!EventsFor(g, "memory", i), g.before.facts[i], g.after.facts[i], db.facts[i],
               G!RestoredFact(g, i))
    BY <1>1, <1>3, <1>4, <2>1, FactRestored
  <2>3. db'.facts[i] = G!RestoredFact(g, i)
    BY <1>4, <2>1 DEF Undone
  <2> QED BY <2>1, <2>2, <2>3 DEF Unmade, G!TakenBack
<1> QED BY <1>5, <1>7, <1>8 DEF G!ExactUndo
-----------------------------------------------------------------------------
(* The steps.                                                                  *)
LEMMA StartIsRows ==
  ASSUME story \in G!Scenario
  PROVE  G!Start \in Rows /\ LinkEnds(G!Start) /\ \A i \in Goals : G!Start.goals[i].version <= LastRow
BY DEF G!Scenario, G!Start, Rows, LinkEnds

(* An action with the versions of some rows.                                   *)
Dated(d, a) ==
  [a EXCEPT !.goalVersion = d.goals[a.goal].version, !.taskVersion = d.tasks[a.task].version,
            !.factVersion = d.facts[a.fact].version]

LEMMA DatedAction ==
  ASSUME NEW d \in Rows, NEW a \in G!Action
  PROVE  /\ Dated(d, a) \in G!Action /\ Dated(d, a).op = a.op /\ Dated(d, a).goal = a.goal
         /\ Dated(d, a).task = a.task /\ Dated(d, a).fact = a.fact
         /\ Dated(d, a).sensitive = a.sensitive
         /\ Dated(d, a).goalVersion = d.goals[a.goal].version
         /\ Dated(d, a).taskVersion = d.tasks[a.task].version
         /\ Dated(d, a).factVersion = d.facts[a.fact].version
<1>1. /\ d.goals[a.goal].version \in Nat /\ d.tasks[a.task].version \in Nat
      /\ d.facts[a.fact].version \in Nat
  BY DEF Rows, G!Action, G!Row, G!Fields
<1>2. Dated(d, a) \in G!Action
  BY <1>1, Zenon DEF Dated, G!Action
<1>3. /\ Dated(d, a).op = a.op /\ Dated(d, a).goal = a.goal /\ Dated(d, a).task = a.task
      /\ Dated(d, a).fact = a.fact /\ Dated(d, a).sensitive = a.sensitive
      /\ Dated(d, a).goalVersion = d.goals[a.goal].version
      /\ Dated(d, a).taskVersion = d.tasks[a.task].version
      /\ Dated(d, a).factVersion = d.facts[a.fact].version
  BY DEF Dated, G!Action
<1> QED BY <1>2, <1>3

LEMMA ResolvedIsAction ==
  ASSUME db \in Rows, NEW a \in G!Action
  PROVE  G!Resolved(a) \in G!Action /\ G!Resolved(a).op = a.op
<1>1. G!Resolved(a) = Dated(db, a)
  BY DEF G!Resolved, Dated
<1> QED BY <1>1, DatedAction

LEMMA ShownIsMeant ==
  ASSUME screen \in Rows, NEW a \in G!Action, NEW h, h.saw = screen,
         a.op \in {"update_memory", "delete_memory"} /\ G!SaysSensitive(screen.facts[a.fact], a)
           => h.confirmed
  PROVE  G!Shown(a) \in G!Action /\ G!Shown(a).op = a.op /\ Meant(h, G!Shown(a))
<1> DEFINE b == G!Shown(a)
<1>1. b = Dated(screen, a)
  BY DEF G!Shown, Dated
<1>2. /\ b \in G!Action /\ b.op = a.op /\ b.goal = a.goal /\ b.task = a.task /\ b.fact = a.fact
      /\ b.sensitive = a.sensitive /\ b.goalVersion = screen.goals[a.goal].version
      /\ b.taskVersion = screen.tasks[a.task].version
      /\ b.factVersion = screen.facts[a.fact].version
  BY <1>1, DatedAction
<1> HIDE DEF b
<1>3. Meant(h, b)
  BY <1>2 DEF Meant, G!SaysSensitive
<1> QED BY <1>2, <1>3 DEF b

LEMMA ReadKeepsSent ==
  ASSUME db \in Rows, handler \in RequestType, G!Start \in Rows, Sent(handler)
  PROVE  /\ G!Read(handler) \in RequestType
         /\ G!Read(handler).pc # "idle" => G!Read(handler).saw = handler.saw /\ Sent(G!Read(handler))
<1>1. PICK a \in G!Action : handler.acts = <<a>> /\ a.op \in G!WebOps /\ Meant(handler, a)
  BY DEF Sent
<1>2. handler.acts[1] = a
  BY <1>1
<1>3. G!NoRequest \in RequestType /\ G!NoRequest.pc = "idle"
  BY DEF G!NoRequest, RequestType
<1>4. \/ G!Read(handler) = G!NoRequest
      \/ G!Read(handler) = [handler EXCEPT !.pc = "apply"]
      \/ a.op = "unlink" /\ G!Read(handler) = [handler EXCEPT !.pc = "apply", !.acts = <<G!Resolved(a)>>]
  BY <1>2, Zenon DEF G!Read
<1>5. CASE G!Read(handler) = G!NoRequest
  BY <1>3, <1>5
<1>6. CASE G!Read(handler) = [handler EXCEPT !.pc = "apply"]
  <2> DEFINE h == [handler EXCEPT !.pc = "apply"]
  <2>1. /\ h \in RequestType /\ h.acts = handler.acts /\ h.saw = handler.saw
        /\ h.confirmed = handler.confirmed
    BY DEF RequestType
  <2> HIDE DEF h
  <2>2. Meant(h, a)
    BY <1>1, <2>1 DEF Meant
  <2>3. Sent(h)
    BY <1>1, <2>1, <2>2 DEF Sent
  <2> QED BY <1>6, <2>1, <2>3 DEF h
<1>7. CASE a.op = "unlink" /\ G!Read(handler) = [handler EXCEPT !.pc = "apply", !.acts = <<G!Resolved(a)>>]
  <2> DEFINE h == [handler EXCEPT !.pc = "apply", !.acts = <<G!Resolved(a)>>]
  <2>1. G!Resolved(a) \in G!Action /\ G!Resolved(a).op = "unlink"
    BY <1>7, ResolvedIsAction
  <2>2. <<G!Resolved(a)>> \in Seq(G!Action)
    BY <2>1
  <2>3. h \in RequestType /\ h.acts = <<G!Resolved(a)>> /\ h.saw = handler.saw
    BY <2>2 DEF RequestType
  <2> HIDE DEF h
  <2>4. Sent(h)
    BY <2>1, <2>3 DEF Sent, Meant, G!WebOps
  <2> QED BY <1>7, <2>3, <2>4 DEF h
<1> QED BY <1>4, <1>5, <1>6, <1>7

(* A step that keeps the groups and leaves each actor well typed.              *)
LEMMA Settled ==
  ASSUME GoalsInv, GoalsKept, story' = story, now' \in Nat, agentTurn' \in TurnType,
         screen' \in Rows, handler' \in RequestType, RowsLater(screen', db'),
         handler'.pc # "idle" => RowsLater(handler'.saw, db') /\ Sent(handler')
  PROVE  GoalsInv'
<1>1. GoalsTyped'
  BY DEF GoalsInv, GoalsTyped, GoalsKept
<1>2. OnScreen'
  BY DEF OnScreen
<1>3. (\E C : journal \in Seq(PackageType(C)))' /\ Chronicle' /\ Sole'
  BY DEF GoalsKept
<1> QED BY <1>1, <1>2, <1>3 DEF GoalsInv

LEMMA ActorsKept ==
  ASSUME GoalsInv, GoalsKept
  PROVE  /\ RowsLater(screen, db')
         /\ handler.pc # "idle" => RowsLater(handler.saw, db') /\ Sent(handler)
         /\ G!Start \in Rows /\ G!NoTurn \in TurnType
         /\ G!NoRequest \in RequestType /\ G!NoRequest.pc = "idle"
<1>1. G!Start \in Rows
  BY StartIsRows DEF GoalsInv, GoalsTyped
<1>2. G!NoTurn \in TurnType /\ G!NoRequest \in RequestType /\ G!NoRequest.pc = "idle"
  BY <1>1 DEF G!NoTurn, TurnType, G!NoRequest, RequestType
<1>3. screen \in Rows /\ db \in Rows /\ db' \in Rows /\ RowsLater(db, db') /\ handler.saw \in Rows
  BY DEF GoalsInv, GoalsTyped, GoalsKept, RequestType
<1>4. /\ RowsLater(screen, db)
      /\ handler.pc # "idle" => RowsLater(handler.saw, db) /\ Sent(handler)
  BY DEF GoalsInv, OnScreen
<1>5. RowsLater(screen, db') /\ (handler.pc # "idle" => RowsLater(handler.saw, db'))
  BY <1>3, <1>4, RowsLaterGoesOn
<1> QED BY <1>1, <1>2, <1>4, <1>5

LEMMA TaskEditKeeps ==
  ASSUME GoalsInv, NEW t \in Tasks, G!EditTask(t)
  PROVE  GoalsKept
<1>1. db \in Rows /\ LinkEnds(db) /\ now \in Nat
  BY DEF GoalsInv, GoalsTyped
<1> DEFINE r == [db.tasks[t] EXCEPT !.version = db.tasks[t].version + 1, !.at = now]
<1>2. r \in G!Row /\ r.live = db.tasks[t].live
  <2>1. /\ db.tasks[t] \in G!Fields /\ db.tasks[t].version + 1 \in Nat
        /\ db.tasks[t].version + 1 # 0
    BY <1>1 DEF Rows, G!Row, G!Fields
  <2>2. r \in G!Fields
    BY <1>1, <2>1, Zenon DEF G!Fields
  <2>3. r.live = db.tasks[t].live /\ r.version = db.tasks[t].version + 1
    BY <2>1 DEF G!Fields
  <2> QED BY <2>1, <2>2, <2>3 DEF G!Row
<1>3. /\ db'.goals = db.goals /\ db'.facts = db.facts /\ db'.links = db.links
      /\ db'.tasks = [db.tasks EXCEPT ![t] = r]
  BY <1>1 DEF G!EditTask, Rows
<1> HIDE DEF r
<1>4. db' \in Rows
  <2>1. db' = [goals |-> db.goals, facts |-> db.facts,
               tasks |-> [db.tasks EXCEPT ![t] = r], links |-> db.links]
    BY <1>1, <1>3 DEF G!EditTask, Rows
  <2> QED BY <1>1, <1>2, <2>1 DEF Rows
<1>5. LinkEnds(db')
  BY <1>1, <1>2, <1>3 DEF LinkEnds, Rows
<1>6. RowsLater(db, db') /\ journal' = journal
  BY <1>1, <1>3, RowsLaterIsNow DEF RowsLater, G!EditTask
<1>7. \A k \in 1 .. Len(journal) : Standing(journal[k], db')
  BY <1>3 DEF GoalsInv, Chronicle, Standing, RowsLater
<1>8. Chronicle' /\ Sole'
  BY <1>6, <1>7 DEF GoalsInv, Chronicle, Sole
<1> QED BY <1>3, <1>4, <1>5, <1>6, <1>8 DEF GoalsKept, GoalsInv, GoalsTyped

LEMMA GoalsBegin ==
  ASSUME G!Init PROVE GoalsInv
<1>1. story \in G!Scenario /\ IdleDays \in Nat /\ LastRow \in Nat
  BY GoalBounds DEF G!Init
<1>2. G!Start \in Rows /\ LinkEnds(G!Start) /\ \A i \in Goals : G!Start.goals[i].version <= LastRow
  BY <1>1, StartIsRows
<1>3. agentTurn \in TurnType /\ handler \in RequestType /\ handler.pc = "idle"
  BY <1>2 DEF G!Init, G!NoTurn, TurnType, G!NoRequest, RequestType
<1>4. \A i \in Goals : G!Start.goals[i].version <= LastRow + 1
  BY <1>1, <1>2 DEF Rows, G!Row, G!Fields
<1>5. GoalsTyped
  BY <1>1, <1>2, <1>3, <1>4 DEF G!Init, GoalsTyped
<1>6. RowsLater(screen, db)
  BY <1>2, RowsLaterIsNow DEF G!Init
<1>7. \E C : journal \in Seq(PackageType(C))
  <2>1. journal \in Seq(PackageType({}))
    BY DEF G!Init
  <2> QED BY <2>1
<1>8. Len(journal) = 0
  BY DEF G!Init
<1>9. Chronicle /\ Sole
  BY <1>8 DEF Chronicle, Sole
<1> QED BY <1>3, <1>5, <1>6, <1>7, <1>9 DEF GoalsInv, OnScreen

(* The groups a step leaves as they were are neither undone nor landed by it.  *)
LEMMA Unmoved ==
  ASSUME journal' = journal
  PROVE  G!ExactUndo /\ G!HeededScreens
BY DEF G!ExactUndo, G!UndoneNow, G!HeededScreens, G!LandedNow

LEMMA ApplyAppends ==
  ASSUME GoalsInv, NEW by, NEW acts, NEW saw, G!Apply(by, acts, saw)
  PROVE  /\ G!ExactUndo
         /\ \A k \in G!LandedNow : /\ G!Run(acts).ok /\ journal'[k].before = db /\ journal'[k].by = by
                                   /\ journal'[k].acts = acts /\ journal'[k].saw = saw
<1>1. CASE journal' = journal
  BY <1>1, Unmoved DEF G!LandedNow
<1>2. CASE journal' # journal
  <2> DEFINE g == [by |-> by, acts |-> acts, events |-> G!Run(acts).events, before |-> db,
                   after |-> G!Run(acts).db, saw |-> saw, undone |-> FALSE]
  <2>1. G!Run(acts).ok /\ journal' = Append(journal, g)
    BY <1>2 DEF G!Apply
  <2>2. g.before = db /\ g.by = by /\ g.acts = acts /\ g.saw = saw
    OBVIOUS
  <2> HIDE DEF g
  <2>3. PICK C : journal \in Seq(PackageType(C))
    BY DEF GoalsInv
  <2>4. /\ DOMAIN journal = 1 .. Len(journal) /\ Len(journal) \in Nat
        /\ DOMAIN journal' = 1 .. Len(journal) + 1 /\ journal'[Len(journal) + 1] = g
        /\ \A k \in 1 .. Len(journal) : journal'[k] = journal[k]
    BY <2>1, <2>3
  <2>5. G!UndoneNow = {}
    BY <2>4 DEF G!UndoneNow
  <2>6. \A k \in G!LandedNow : k = Len(journal) + 1
    BY <2>4 DEF G!LandedNow
  <2> QED BY <2>1, <2>2, <2>4, <2>5, <2>6 DEF G!ExactUndo
<1> QED BY <1>1, <1>2

(* A request that lands does so on the rows its screen showed.                 *)
LEMMA RowAsShown ==
  ASSUME NEW r \in G!Row, NEW s \in G!Row, Later(r, s), s.live, s.version = r.version
  PROVE  G!Content(s) = G!Content(r) /\ s.sensitive = r.sensitive
<1>1. G!Content(s) = G!Content(r)
  BY DEF Later
<1> QED BY <1>1 DEF G!Content

LEMMA LandsShown ==
  ASSUME NEW d \in Rows, d = db, NEW h, h.saw \in Rows, RowsLater(h.saw, d), NEW a \in G!Action,
         a.op \in G!WebOps, Meant(h, a), G!Accepts(d, G!Begun, a), NEW g,
         g.acts = <<a>>, g.saw = h, g.before = d
  PROVE  G!LandsAsShown(g)
<1>1. g.acts[1] = a /\ G!Begun.db = d
  BY DEF G!Begun
<1>2. /\ a.goal \in Goals /\ a.fact \in Facts
      /\ h.saw.goals[a.goal] \in G!Row /\ d.goals[a.goal] \in G!Row
      /\ h.saw.facts[a.fact] \in G!Row /\ d.facts[a.fact] \in G!Row
      /\ Later(h.saw.goals[a.goal], d.goals[a.goal])
      /\ Later(h.saw.facts[a.fact], d.facts[a.fact])
  BY DEF G!Action, Rows, RowsLater
<1>3. CASE a.op = "update_goal"
  <2>1. d.goals[a.goal].live /\ d.goals[a.goal].version = h.saw.goals[a.goal].version
    BY <1>3 DEF G!Accepts, G!Expected, Meant
  <2>2. G!Content(d.goals[a.goal]) = G!Content(h.saw.goals[a.goal])
    BY <1>2, <2>1, RowAsShown
  <2> QED BY <1>1, <1>3, <2>2 DEF G!LandsAsShown
<1>4. CASE a.op = "link"
  <2>1. /\ d.goals[a.goal].live /\ d.goals[a.goal].version = h.saw.goals[a.goal].version
        /\ d.tasks[a.task].version = h.saw.tasks[a.task].version
    BY <1>4 DEF G!Accepts, G!LinkPair, G!Expected, Meant
  <2>2. G!Content(d.goals[a.goal]) = G!Content(h.saw.goals[a.goal])
    BY <1>2, <2>1, RowAsShown
  <2> QED BY <1>1, <1>4, <2>1, <2>2 DEF G!LandsAsShown
<1>5. CASE a.op = "unlink"
  BY <1>1, <1>5 DEF G!LandsAsShown
<1>6. CASE a.op \in {"update_memory", "delete_memory"}
  <2>1. /\ d.facts[a.fact].live /\ d.facts[a.fact].version = h.saw.facts[a.fact].version
        /\ G!SaysSensitive(h.saw.facts[a.fact], a) => h.confirmed
    BY <1>6 DEF G!Accepts, G!Expected, Meant
  <2>2. /\ G!Content(d.facts[a.fact]) = G!Content(h.saw.facts[a.fact])
        /\ d.facts[a.fact].sensitive = h.saw.facts[a.fact].sensitive
    BY <1>2, <2>1, RowAsShown
  <2>3. G!SaysSensitive(d.facts[a.fact], a) => h.confirmed
    BY <2>1, <2>2 DEF G!SaysSensitive
  <2> QED BY <1>1, <1>6, <2>2, <2>3 DEF G!LandsAsShown
<1> QED BY <1>3, <1>4, <1>5, <1>6 DEF G!WebOps

LEMMA TurnSteps ==
  ASSUME GoalsInv, G!BuildContext \/ G!Resolve
  PROVE  GoalsInv' /\ G!ExactUndo /\ G!HeededScreens
<1>1. GoalsKept /\ journal' = journal
  BY NothingKept DEF G!BuildContext, G!Resolve
<1>2. /\ story \in G!Scenario /\ db \in Rows /\ agentTurn \in TurnType /\ now \in Nat
      /\ screen \in Rows /\ handler \in RequestType
  BY DEF GoalsInv, GoalsTyped
<1>3. /\ RowsLater(screen, db')
      /\ handler.pc # "idle" => RowsLater(handler.saw, db') /\ Sent(handler)
      /\ G!NoTurn \in TurnType
  BY <1>1, ActorsKept
<1>4. agentTurn' \in TurnType
  <2>1. CASE G!BuildContext
    <3>1. story.plans \subseteq Seq(G!Action)
      BY <1>2 DEF G!Scenario
    <3>2. PICK acts \in story.plans : agentTurn' = [pc |-> "answered", acts |-> acts, saw |-> db]
      BY <2>1 DEF G!BuildContext
    <3> QED BY <1>2, <3>1, <3>2 DEF TurnType
  <2>2. CASE G!Resolve
    <3> DEFINE acts == [i \in DOMAIN agentTurn.acts |-> G!Resolved(agentTurn.acts[i])]
    <3>1. agentTurn.acts \in Seq(G!Action) /\ Len(agentTurn.acts) \in Nat
      BY <1>2 DEF TurnType
    <3>2. \A i \in 1 .. Len(agentTurn.acts) : G!Resolved(agentTurn.acts[i]) \in G!Action
      BY <1>2, <3>1, ResolvedIsAction
    <3>3. acts \in Seq(G!Action)
      BY <3>1, <3>2
    <3>4. agentTurn' = G!NoTurn \/ agentTurn' = [agentTurn EXCEPT !.pc = "resolved", !.acts = acts]
      BY <2>2, Zenon DEF G!Resolve
    <3> HIDE DEF acts
    <3>5. [agentTurn EXCEPT !.pc = "resolved", !.acts = acts] \in TurnType
      BY <1>2, <3>3 DEF TurnType
    <3> QED BY <1>3, <3>4, <3>5
  <2> QED BY <2>1, <2>2
<1>5. story' = story /\ handler' = handler /\ screen' = screen /\ now' = now
  BY DEF G!BuildContext, G!Resolve
<1>6. GoalsInv'
  BY <1>1, <1>2, <1>3, <1>4, <1>5, Settled
<1> QED BY <1>1, <1>6, Unmoved

LEMMA ScreenSteps ==
  ASSUME GoalsInv, G!Reload \/ G!Send \/ G!Receive
  PROVE  GoalsInv' /\ G!ExactUndo /\ G!HeededScreens
<1>1. GoalsKept /\ journal' = journal /\ db' = db
  BY NothingKept DEF G!Reload, G!Send, G!Receive
<1>2. /\ story \in G!Scenario /\ db \in Rows /\ agentTurn \in TurnType /\ now \in Nat
      /\ screen \in Rows /\ handler \in RequestType
  BY DEF GoalsInv, GoalsTyped
<1>3. /\ RowsLater(screen, db')
      /\ handler.pc # "idle" => RowsLater(handler.saw, db') /\ Sent(handler)
      /\ G!Start \in Rows
  BY <1>1, ActorsKept
<1>4. screen' \in Rows /\ RowsLater(screen', db')
  <2>1. screen' = db \/ screen' = screen
    BY DEF G!Reload, G!Send, G!Receive
  <2> QED BY <1>1, <1>2, <1>3, <2>1, RowsLaterIsNow
<1>5. /\ handler' \in RequestType
      /\ handler'.pc # "idle" => RowsLater(handler'.saw, db') /\ Sent(handler')
  <2>1. CASE G!Reload
    BY <1>2, <1>3, <2>1 DEF G!Reload
  <2>2. CASE G!Send
    <3>1. PICK a \in story.web :
            handler' = [pc |-> "received", acts |-> <<G!Shown(a)>>, saw |-> screen,
                        confirmed |-> a.op \in {"update_memory", "delete_memory"}
                                      /\ G!SaysSensitive(screen.facts[a.fact], a)]
      BY <2>2 DEF G!Send
    <3>2. a \in G!Action /\ a.op \in G!WebOps
      BY <1>2 DEF G!Scenario
    <3>3. /\ handler'.acts = <<G!Shown(a)>> /\ handler'.saw = screen
          /\ handler'.confirmed = (a.op \in {"update_memory", "delete_memory"}
                                   /\ G!SaysSensitive(screen.facts[a.fact], a))
      BY <3>1
    <3>4. G!Shown(a) \in G!Action /\ G!Shown(a).op = a.op /\ Meant(handler', G!Shown(a))
      BY <1>2, <3>2, <3>3, ShownIsMeant
    <3>5. Sent(handler')
      BY <3>2, <3>3, <3>4 DEF Sent
    <3>6. handler' \in RequestType
      <4>1. <<G!Shown(a)>> \in Seq(G!Action)
        BY <3>4
      <4>2. (a.op \in {"update_memory", "delete_memory"}
             /\ G!SaysSensitive(screen.facts[a.fact], a)) \in BOOLEAN
        BY Zenon
      <4> HIDE DEF G!SaysSensitive
      <4> QED BY <1>2, <3>1, <4>1, <4>2, Zenon DEF RequestType
    <3> QED BY <1>3, <3>3, <3>5, <3>6
  <2>3. CASE G!Receive
    <3>1. handler' = G!Read(handler) /\ handler.pc = "received"
      BY <2>3 DEF G!Receive
    <3>2. /\ G!Read(handler) \in RequestType
          /\ G!Read(handler).pc # "idle" => G!Read(handler).saw = handler.saw /\ Sent(G!Read(handler))
      BY <1>2, <1>3, <3>1, ReadKeepsSent
    <3>3. handler'.pc # "idle" => handler'.saw = handler.saw /\ Sent(handler')
      BY <3>1, <3>2
    <3> QED BY <1>3, <3>1, <3>2, <3>3
  <2> QED BY <2>1, <2>2, <2>3
<1>6. story' = story /\ agentTurn' = agentTurn /\ now' = now
  BY DEF G!Reload, G!Send, G!Receive
<1>7. GoalsInv'
  BY <1>1, <1>2, <1>4, <1>5, <1>6, Settled
<1> QED BY <1>1, <1>7, Unmoved

LEMMA WorldSteps ==
  ASSUME GoalsInv, (\E t \in Tasks : G!EditTask(t)) \/ G!Day
  PROVE  GoalsInv' /\ G!ExactUndo /\ G!HeededScreens
<1>1. GoalsKept /\ journal' = journal
  BY NothingKept, TaskEditKeeps DEF G!Day, G!EditTask
<1>2. /\ story' = story /\ agentTurn' = agentTurn /\ screen' = screen /\ handler' = handler
      /\ now' = now \/ now' = now + 1
  BY DEF G!Day, G!EditTask
<1>3. agentTurn \in TurnType /\ now \in Nat /\ screen \in Rows /\ handler \in RequestType
  BY DEF GoalsInv, GoalsTyped
<1>4. /\ RowsLater(screen, db')
      /\ handler.pc # "idle" => RowsLater(handler.saw, db') /\ Sent(handler)
  BY <1>1, ActorsKept
<1>5. Sent(handler') <=> Sent(handler)
  BY <1>2
<1>6. GoalsInv'
  BY <1>1, <1>2, <1>3, <1>4, <1>5, Settled
<1> QED BY <1>1, <1>6, Unmoved

LEMMA UndoSteps ==
  ASSUME GoalsInv, \E k \in DOMAIN journal : G!undo(k)
  PROVE  GoalsInv' /\ G!ExactUndo /\ G!HeededScreens
<1>1. PICK C : journal \in Seq(PackageType(C))
  BY DEF GoalsInv
<1>2. DOMAIN journal = 1 .. Len(journal)
  BY <1>1
<1>3. PICK k \in 1 .. Len(journal) : G!undo(k)
  BY <1>2
<1>4. GoalsKept /\ G!ExactUndo
  BY <1>3, GoalUndoKeeps, UndoTakesBack
<1>5. G!HeededScreens
  BY <1>2, <1>3 DEF G!undo, G!HeededScreens, G!LandedNow
<1>6. /\ story' = story /\ agentTurn' = agentTurn /\ screen' = screen /\ handler' = handler
      /\ now' = now
  BY <1>3 DEF G!undo
<1>7. agentTurn \in TurnType /\ now \in Nat /\ screen \in Rows /\ handler \in RequestType
  BY DEF GoalsInv, GoalsTyped
<1>8. /\ RowsLater(screen, db')
      /\ handler.pc # "idle" => RowsLater(handler.saw, db') /\ Sent(handler)
  BY <1>4, ActorsKept
<1>9. GoalsInv'
  BY <1>4, <1>6, <1>7, <1>8, Settled
<1> QED BY <1>4, <1>5, <1>9

LEMMA ApplySteps ==
  ASSUME GoalsInv, G!ApplyTurn \/ G!ApplyRequest
  PROVE  GoalsInv' /\ G!ExactUndo /\ G!HeededScreens
<1>1. /\ db \in Rows /\ agentTurn \in TurnType /\ now \in Nat /\ screen \in Rows
      /\ handler \in RequestType
  BY DEF GoalsInv, GoalsTyped
<1>2. CASE G!ApplyTurn
  <2>1. G!Apply("assistant", agentTurn.acts, agentTurn.saw) /\ agentTurn.acts \in Seq(G!Action)
    BY <1>1, <1>2 DEF G!ApplyTurn, TurnType
  <2>2. GoalsKept
    BY <2>1, ApplyKeeps
  <2>3. G!ExactUndo /\ \A k \in G!LandedNow : journal'[k].by = "assistant"
    BY <2>1, ApplyAppends
  <2>4. G!HeededScreens
    BY <2>3 DEF G!HeededScreens, G!LandedNow
  <2>5. /\ story' = story /\ agentTurn' = G!NoTurn /\ screen' = screen /\ handler' = handler
        /\ now' = now
    BY <1>2 DEF G!ApplyTurn
  <2>6. /\ RowsLater(screen, db') /\ G!NoTurn \in TurnType
        /\ handler.pc # "idle" => RowsLater(handler.saw, db') /\ Sent(handler)
    BY <2>2, ActorsKept
  <2>7. GoalsInv'
    BY <1>1, <2>2, <2>5, <2>6, Settled
  <2> QED BY <2>3, <2>4, <2>7
<1>3. CASE G!ApplyRequest
  <2>1. G!Apply("web", handler.acts, handler) /\ handler.acts \in Seq(G!Action) /\ handler.pc = "apply"
    BY <1>1, <1>3 DEF G!ApplyRequest, RequestType
  <2>2. GoalsKept
    BY <2>1, ApplyKeeps
  <2>3. /\ G!ExactUndo
        /\ \A k \in G!LandedNow : /\ G!Run(handler.acts).ok /\ journal'[k].before = db
                                  /\ journal'[k].acts = handler.acts /\ journal'[k].saw = handler
    BY <2>1, ApplyAppends
  <2>4. G!HeededScreens
    <3> SUFFICES ASSUME NEW k \in G!LandedNow PROVE G!LandsAsShown(journal'[k])
      BY DEF G!HeededScreens
    <3>1. RowsLater(handler.saw, db) /\ Sent(handler) /\ handler.saw \in Rows
      BY <1>1, <2>1 DEF GoalsInv, OnScreen, RequestType
    <3>2. PICK a \in G!Action : handler.acts = <<a>> /\ a.op \in G!WebOps /\ Meant(handler, a)
      BY <3>1 DEF Sent
    <3>3. G!Run(<<a>>).ok
      BY <2>3, <3>2
    <3>4. G!Accepts(db, G!Begun, a)
      BY <3>3, RunOfOne
    <3> QED BY <1>1, <2>3, <3>1, <3>2, <3>4, LandsShown
  <2>5. /\ story' = story /\ agentTurn' = agentTurn /\ screen' = screen /\ handler' = G!NoRequest
        /\ now' = now
    BY <1>3 DEF G!ApplyRequest
  <2>6. /\ RowsLater(screen, db') /\ G!NoRequest \in RequestType /\ G!NoRequest.pc = "idle"
    BY <2>2, ActorsKept
  <2>7. GoalsInv'
    BY <1>1, <2>2, <2>5, <2>6, Settled
  <2> QED BY <2>3, <2>4, <2>7
<1> QED BY <1>2, <1>3

LEMMA GoalsStep ==
  ASSUME GoalsInv, [G!Next]_(G!vars)
  PROVE  GoalsInv' /\ G!ExactUndo /\ G!HeededScreens
<1>1. CASE UNCHANGED G!vars
  <2>1. GoalsInv'
    BY <1>1 DEF G!vars, GoalsInv, GoalsTyped, OnScreen, Chronicle, Sole
  <2> QED BY <1>1, <2>1, Unmoved DEF G!vars
<1> QED BY <1>1, TurnSteps, ScreenSteps, WorldSteps, UndoSteps, ApplySteps DEF G!Next

LEMMA GoalsTypedOK == ASSUME GoalsInv PROVE G!TypeOK
<1>1. \A r \in G!Row : r.status \in G!GoalStatuses /\ r.version \in Nat /\ r.text \in G!Texts
  BY DEF G!Row, G!Fields
<1> QED BY <1>1, GoalBounds DEF GoalsInv, GoalsTyped, LinkEnds, Rows, G!TypeOK
-----------------------------------------------------------------------------
(* The settings: their types.                                               *)
RowOK == row \in [version: 1 .. LastVersion, columns: S!SettingsRow,
                  pendingInput: S!PendingInput, onboarded: BOOLEAN]
ScreenOK == /\ screen \in [version: Nat, columns: S!SettingsRow, undo: Nat,
                           conflict: BOOLEAN, refused: BOOLEAN, taps: Nat]
            /\ screen.version \in 1 .. row.version
PlanType == [kind: {"action", "snooze_until_morning"}, action: S!SettingsChange,
             copy: {S!Null, "digests", "quiet"}]
RequestOK ==
  \/ req = [pc |-> "none"]
  \/ \E n, c : /\ req = [pc |-> "sent", expected |-> n, change |-> c]
               /\ c \in S!SettingsChange
  \/ \E n, p : /\ req = [pc |-> "planned", expected |-> n, plan |-> p]
               /\ p \in PlanType
               /\ p.kind = "snooze_until_morning" => p.action = S!snooze("morning")
  \/ \E t : req = [pc |-> "copy", target |-> t]
  \/ \E t, z : req = [pc |-> "copying", target |-> t, zone |-> z] /\ z \in S!Zones
  \/ \E n : req = [pc |-> "answer", group |-> n] /\ n \in Nat
AgentOK ==
  \/ agent.pc \in {"none", "done"}
  \/ agent.pc = "resolved" /\ agent.change \in S!SettingsChange
Lawful(change, zone) ==
  /\ change \in S!SettingsChange /\ S!validateSettingsAction(change)
  /\ zone \in S!Zones \/ change.operation = "snooze"
ChatOK ==
  /\ "pc" \in DOMAIN chat /\ chat.pc \in {"idle", "handle", "write", "advance", "reply", "failed"}
  /\ chat.pc # "idle" => "prompt" \in DOMAIN chat /\ chat.prompt \in S!PendingInput
  /\ chat.pc = "write" => "change" \in DOMAIN chat /\ "zone" \in DOMAIN chat
                          /\ Lawful(chat.change, chat.zone)
JournalRow == [before: S!SettingsRow, after: S!SettingsRow, post: 2 .. LastVersion,
               status: {"applied", "undone"}]
JournalOK == journal \in Seq(JournalRow)
SettingsTyped ==
  /\ story \in SettingsScenarios /\ story \in S!Scenario /\ moved \in Nat
  /\ RowOK /\ ScreenOK /\ RequestOK /\ AgentOK /\ ChatOK /\ JournalOK

LEMMA PatchTyped ==
  ASSUME NEW r \in S!SettingsRow, NEW change, NEW zone, Lawful(change, zone)
  PROVE  S!buildSettingsPatch(r, change, zone) \in S!SettingsRow
<1> DEFINE p == S!buildSettingsPatch(r, change, zone)
<1>1. change \in S!SettingsChange /\ S!validateSettingsAction(change)
      /\ (zone \in S!Zones \/ change.operation = "snooze")
  BY DEF Lawful
<1>2. CASE change.operation = "timezone"
  <2>1. change.timezone \in S!Zones
    BY <1>1, <1>2 DEF S!SettingsChange
  <2> QED BY <1>2, <2>1 DEF S!buildSettingsPatch, S!SettingsRow
<1>3. CASE change.operation = "language"
  <2>1. change.language \in {S!Null, "ru", "en"}
    BY <1>1, <1>3 DEF S!SettingsChange
  <2> QED BY <1>3, <2>1 DEF S!buildSettingsPatch, S!SettingsRow
<1>4. CASE change.operation = "digest"
  <2>1. change.enabled \in BOOLEAN /\ change.time \in {S!Null} \cup S!Times /\ zone \in S!Zones
    BY <1>1, <1>4 DEF S!SettingsChange
  <2> DEFINE t == S!Given(change.time, r.morningReferenceTime)
  <2>2. t \in S!Times
    BY <2>1 DEF S!Given, S!SettingsRow
  <2>3. p = [r EXCEPT !.morningDigestEnabled = change.enabled, !.digestTimezone = zone,
                      !.morningReferenceTime = t]
    BY <1>4 DEF S!buildSettingsPatch, S!SettingsRow
  <2> HIDE DEF t, p
  <2> QED BY <2>1, <2>2, <2>3 DEF S!SettingsRow, p
<1>5. CASE change.operation = "weekly_review"
  <2>1. change.enabled \in BOOLEAN /\ change.slot \in {S!Null, S!DefaultSlot, "friday"}
        /\ zone \in S!Zones
    BY <1>1, <1>5 DEF S!SettingsChange
  <2> DEFINE t == S!Given(change.slot, r.weeklyReview)
  <2>2. t \in {S!DefaultSlot, "friday"}
    BY <2>1 DEF S!Given, S!SettingsRow
  <2>3. p = [r EXCEPT !.weeklyReviewEnabled = change.enabled, !.digestTimezone = zone,
                      !.weeklyReview = t]
    BY <1>5 DEF S!buildSettingsPatch, S!SettingsRow
  <2> HIDE DEF t, p
  <2> QED BY <2>1, <2>2, <2>3 DEF S!SettingsRow, p
<1>6. CASE change.operation = "quiet_hours"
  <2>1. /\ change.enabled \in BOOLEAN /\ zone \in S!Zones
        /\ change.weekday \in {S!Null} \cup S!Windows /\ change.weekend \in {S!Null} \cup S!Windows
    BY <1>1, <1>6 DEF S!SettingsChange
  <2> DEFINE d == S!Given(change.weekday, r.weekdayQuiet)
             e == S!Given(change.weekend, S!Given(change.weekday, r.weekendQuiet))
  <2>2. d \in S!Windows /\ e \in S!Windows
    BY <2>1 DEF S!Given, S!SettingsRow
  <2>3. p = IF change.enabled
              THEN [r EXCEPT !.quietHoursEnabled = TRUE, !.quietHoursTimezone = zone,
                             !.weekdayQuiet = d, !.weekendQuiet = e]
              ELSE [r EXCEPT !.quietHoursEnabled = FALSE, !.quietHoursTimezone = zone]
    BY <1>6, <2>1 DEF S!buildSettingsPatch, S!SettingsRow
  <2> HIDE DEF d, e, p
  <2> QED BY <2>1, <2>2, <2>3 DEF S!SettingsRow, p
<1>7. CASE change.operation = "snooze"
  <2>1. change.until \in {S!Null, "morning", "date"}
    BY <1>1, <1>7 DEF S!SettingsChange, S!validateSettingsAction
  <2> QED BY <1>7, <2>1 DEF S!buildSettingsPatch, S!SettingsRow
<1>8. CASE change.operation = "reminder_defaults"
  <2>1. change.value \in {"plain", "own"}
    BY <1>1, <1>8 DEF S!SettingsChange, S!validateSettingsAction
  <2> QED BY <1>8, <2>1 DEF S!buildSettingsPatch, S!SettingsRow
<1>9. change.operation \in {"timezone", "language", "digest", "weekly_review", "quiet_hours",
                            "snooze", "reminder_defaults"}
  BY <1>1 DEF S!SettingsChange
<1> QED BY <1>2, <1>3, <1>4, <1>5, <1>6, <1>7, <1>8, <1>9
-----------------------------------------------------------------------------
LEMMA SettingsBounds ==
  /\ SettingsScenarios \subseteq S!Scenario /\ LastVersion \in Nat /\ LastVersion >= 1
BY DialogueAssumption

LEMMA SettingsTypesBegin == S!Init => SettingsTyped
<1> SUFFICES ASSUME S!Init PROVE SettingsTyped
  OBVIOUS
<1>1. story \in S!Scenario /\ story \in SettingsScenarios
  BY SettingsBounds DEF S!Init
<1>2. story.start \in S!SettingsRow /\ story.taps \in Nat
  BY <1>1, Zenon DEF S!Scenario
<1>3. RowOK
  <2>1. row = [version |-> 1, columns |-> story.start, pendingInput |-> S!Null, onboarded |-> FALSE]
    BY DEF S!Init
  <2>2. 1 \in 1 .. LastVersion /\ S!Null \in S!PendingInput
    BY SettingsBounds DEF S!PendingInput
  <2> QED BY <1>2, <2>1, <2>2, Zenon DEF RowOK
<1>4. ScreenOK
  <2>1. /\ screen = [version |-> 1, columns |-> story.start, undo |-> 0, conflict |-> FALSE,
                     refused |-> FALSE, taps |-> story.taps]
        /\ row.version = 1
    BY DEF S!Init
  <2> QED BY <1>2, <2>1 DEF ScreenOK
<1>5. RequestOK /\ AgentOK /\ JournalOK /\ moved \in Nat
  BY DEF S!Init, S!NoReq, S!NoAgent, RequestOK, AgentOK, JournalOK
<1>6. ChatOK
  BY DEF S!Init, ChatOK
<1> QED BY <1>1, <1>3, <1>4, <1>5, <1>6 DEF SettingsTyped

(* A checked write of the columns: the version stays in its room.           *)
LEMMA ColumnsTyped ==
  ASSUME RowOK, ScreenOK, S!Room, NEW x \in S!SettingsRow,
         row' = [row EXCEPT !.columns = x, !.version = @ + 1], UNCHANGED screen
  PROVE  /\ RowOK' /\ ScreenOK' /\ row'.columns = x /\ row'.version \in 2 .. LastVersion
         /\ row.columns \in S!SettingsRow
<1>1. row.version \in 1 .. LastVersion /\ row.version < LastVersion /\ LastVersion \in Nat
  BY SettingsBounds DEF RowOK, S!Room
<1>2. row.version + 1 \in 2 .. LastVersion /\ row.version + 1 \in 1 .. LastVersion
  BY <1>1
<1>3. row' \in [version: 1 .. LastVersion, columns: S!SettingsRow,
                pendingInput: S!PendingInput, onboarded: BOOLEAN]
  BY <1>2, Zenon DEF RowOK
<1>4. row'.columns = x /\ row'.version = row.version + 1 /\ row.columns \in S!SettingsRow
  BY DEF RowOK
<1>5. ScreenOK'
  BY <1>1, <1>4 DEF ScreenOK
<1> QED BY <1>2, <1>3, <1>4, <1>5 DEF RowOK

LEMMA PatchWritten ==
  ASSUME RowOK, ScreenOK, S!Room, NEW change, NEW zone, Lawful(change, zone),
         row' = S!applyPatch(row, S!buildSettingsPatch(row.columns, change, zone)),
         UNCHANGED screen
  PROVE  RowOK' /\ ScreenOK'
<1>1. row.columns \in S!SettingsRow
  BY DEF RowOK
<1>2. S!buildSettingsPatch(row.columns, change, zone) \in S!SettingsRow
  BY <1>1, PatchTyped
<1> QED BY <1>2, ColumnsTyped DEF S!applyPatch

(* A prompt is put in or taken out.                                         *)
LEMMA PromptWritten ==
  ASSUME RowOK, ScreenOK, NEW x \in S!PendingInput, NEW y \in BOOLEAN,
         row' = [row EXCEPT !.pendingInput = x, !.onboarded = y], UNCHANGED screen
  PROVE  RowOK' /\ ScreenOK'
<1>1. RowOK'
  BY Zenon DEF RowOK
<1>2. row'.version = row.version
  BY DEF RowOK
<1> QED BY <1>1, <1>2 DEF ScreenOK

LEMMA OnlyPrompt ==
  ASSUME RowOK, NEW x
  PROVE  /\ [row EXCEPT !.pendingInput = x] = [row EXCEPT !.pendingInput = x,
                                                          !.onboarded = row.onboarded]
         /\ row.onboarded \in BOOLEAN /\ row.columns.timezone \in S!Zones
         /\ row.pendingInput \in S!PendingInput
BY DEF RowOK, S!SettingsRow

LEMMA JournalWritten ==
  ASSUME RowOK, ScreenOK, JournalOK, S!Room, NEW change \in S!SettingsChange,
         S!validateSettingsAction(change), S!updateSettingsInTx(change), UNCHANGED screen
  PROVE  RowOK' /\ ScreenOK' /\ JournalOK' /\ Len(journal) + 1 \in Nat
<1> DEFINE x == S!buildSettingsPatch(row.columns, change, row.columns.timezone)
           after == S!applyPatch(row, x)
           g == [before |-> row.columns, after |-> after.columns, post |-> after.version,
                 status |-> "applied"]
<1>1. Lawful(change, row.columns.timezone) /\ row.columns \in S!SettingsRow
  BY OnlyPrompt DEF Lawful, RowOK
<1>2. x \in S!SettingsRow
  BY <1>1, PatchTyped
<1>3. row' = after /\ journal' = Append(journal, g) /\ after = [row EXCEPT !.columns = x, !.version = @ + 1]
  BY DEF S!updateSettingsInTx, S!applyPatch
<1> HIDE DEF x, after
<1>4. /\ RowOK' /\ ScreenOK' /\ after.columns = x /\ after.version \in 2 .. LastVersion
  BY <1>2, <1>3, ColumnsTyped
<1>5. g \in JournalRow
  BY <1>1, <1>2, <1>4 DEF JournalRow
<1> HIDE DEF g
<1>6. JournalOK' /\ Len(journal) + 1 \in Nat
  BY <1>3, <1>5 DEF JournalOK
<1> QED BY <1>4, <1>6
-----------------------------------------------------------------------------
(* What the controls send is a change.                                      *)
LEMMA Made ==
  /\ \A e \in BOOLEAN, t \in {S!Null} \cup S!Times : S!digest(e, t) \in S!SettingsChange
  /\ \A e \in BOOLEAN, t \in {S!Null, S!DefaultSlot, "friday"} :
       S!weekly(e, t) \in S!SettingsChange
  /\ \A d, w \in {S!Null} \cup S!Windows : S!quiet(TRUE, d, w) \in S!SettingsChange
  /\ S!quiet(FALSE, S!Null, S!Null) \in S!SettingsChange
  /\ \A v \in {"plain", "own"} :
       [operation |-> "reminder_defaults", value |-> v] \in S!SettingsChange
<1>1. \A e \in BOOLEAN, t \in {S!Null} \cup S!Times : S!digest(e, t) \in S!SettingsChange
  BY DEF S!digest, S!SettingsChange
<1>2. \A e \in BOOLEAN, t \in {S!Null, S!DefaultSlot, "friday"} :
        S!weekly(e, t) \in S!SettingsChange
  BY DEF S!weekly, S!SettingsChange
<1>3. /\ \A d, w \in {S!Null} \cup S!Windows : S!quiet(TRUE, d, w) \in S!SettingsChange
      /\ S!quiet(FALSE, S!Null, S!Null) \in S!SettingsChange
  BY DEF S!quiet, S!SettingsChange
<1>4. \A v \in {"plain", "own"} :
        [operation |-> "reminder_defaults", value |-> v] \in S!SettingsChange
  BY DEF S!SettingsChange
<1> QED BY <1>1, <1>2, <1>3, <1>4

LEMMA ControlsSend ==
  ASSUME NEW s \in S!SettingsRow, NEW kind, NEW change \in S!ControlsOf(kind, s)
  PROVE  kind \in S!Controls => change \in S!SettingsChange
<1> SUFFICES ASSUME kind \in S!Controls PROVE change \in S!SettingsChange
  OBVIOUS
<1>1. CASE kind = "switch"
  <2>1. change \in S!Switches(s)
    BY <1>1 DEF S!ControlsOf
  <2>2. /\ (~s.morningDigestEnabled) \in BOOLEAN /\ (~s.weeklyReviewEnabled) \in BOOLEAN
        /\ s.weekdayQuiet \in S!Windows /\ s.weekendQuiet \in S!Windows
    BY Zenon DEF S!SettingsRow
  <2>3. \/ change = S!digest(~s.morningDigestEnabled, S!Null)
        \/ change = S!weekly(~s.weeklyReviewEnabled, S!Null)
        \/ change = S!quiet(FALSE, S!Null, S!Null)
        \/ change = S!quiet(TRUE, s.weekdayQuiet, s.weekendQuiet)
    BY <2>1 DEF S!Switches
  <2> QED BY <2>2, <2>3, Made
<1>2. CASE kind = "schedule"
  <2>1. change \in S!ScheduleSheets(s)
    BY <1>2 DEF S!ControlsOf
  <2>2. \/ \E t \in S!Times : change = S!digest(TRUE, t)
        \/ change = S!weekly(TRUE, "friday")
        \/ change = [operation |-> "reminder_defaults", value |-> "own"]
    BY <2>1 DEF S!ScheduleSheets
  <2>3. /\ \A t \in S!Times : S!digest(TRUE, t) \in S!SettingsChange
        /\ S!weekly(TRUE, "friday") \in S!SettingsChange
        /\ [operation |-> "reminder_defaults", value |-> "own"] \in S!SettingsChange
    BY Made, Zenon
  <2> QED BY <2>2, <2>3, Zenon
<1>3. CASE kind = "quiet"
  <2>1. change \in S!QuietHoursSheet(s)
    BY <1>3 DEF S!ControlsOf
  <2>2. \E d \in S!Windows, w \in S!Windows \cup {S!Null} :
          change = [operation |-> "quiet_hours", enabled |-> TRUE, weekday |-> d, weekend |-> w]
    BY <2>1 DEF S!QuietHoursSheet, S!quiet
  <2> QED BY <2>2 DEF S!SettingsChange
<1>4. CASE kind = "timezone"
  <2>1. change \in S!TimezoneSheet(s)
    BY <1>4 DEF S!ControlsOf
  <2> QED BY <2>1 DEF S!TimezoneSheet, S!zoned, S!SettingsChange
<1>5. CASE kind = "snooze"
  <2>1. change \in S!SnoozeRow(s)
    BY <1>5 DEF S!ControlsOf
  <2> QED BY <2>1 DEF S!SnoozeRow, S!snooze, S!SettingsChange
<1>6. CASE kind = "language"
  <2>1. change \in S!LanguageSheet(s)
    BY <1>6 DEF S!ControlsOf
  <2> QED BY <2>1 DEF S!LanguageSheet, S!SettingsChange
<1> QED BY <1>1, <1>2, <1>3, <1>4, <1>5, <1>6 DEF S!Controls

LEMMA PlanTyped ==
  ASSUME NEW change \in S!SettingsChange
  PROVE  /\ S!planSettingsChange(change) \in PlanType
         /\ S!planSettingsChange(change).kind = "snooze_until_morning" =>
              S!planSettingsChange(change).action = S!snooze("morning")
<1>1. CASE change.operation = "timezone"
  <2>1. change.timezone \in S!Zones
    BY <1>1 DEF S!SettingsChange
  <2>2. \A to \in {"all", "profile_only"} : S!zoned(change.timezone, to) \in S!SettingsChange
    BY <2>1 DEF S!zoned, S!SettingsChange
  <2> QED BY <1>1, <2>2 DEF S!planSettingsChange, PlanType
<1>2. CASE change.operation # "timezone"
  BY <1>2 DEF S!planSettingsChange, PlanType
<1> QED BY <1>1, <1>2

LEMMA PresetLawful ==
  ASSUME NEW step \in S!Steps, NEW on \in BOOLEAN, NEW zone \in S!Zones
  PROVE  Lawful(S!PresetOf(step, on), zone)
<1>1. CASE step = "digests"
  BY <1>1 DEF S!PresetOf, S!digest, Lawful, S!validateSettingsAction, S!SettingsChange, S!DefaultTime, S!Times
<1>2. CASE step = "quiet"
  <2>1. CASE on
    BY <1>2, <2>1 DEF S!PresetOf, S!quiet, Lawful, S!validateSettingsAction, S!SettingsChange, S!Null,
                      S!Windows, S!DefaultWindow, S!DefaultWeekend
  <2>2. CASE ~on
    BY <1>2, <2>2 DEF S!PresetOf, S!quiet, Lawful, S!validateSettingsAction, S!SettingsChange
  <2> QED BY <2>1, <2>2
<1>3. CASE step = "weekly"
  BY <1>3 DEF S!PresetOf, S!weekly, Lawful, S!validateSettingsAction, S!SettingsChange, S!DefaultSlot, S!Null
<1> QED BY <1>1, <1>2, <1>3 DEF S!Steps
-----------------------------------------------------------------------------
LEMMA ChatFaults ==
  ASSUME ChatOK, NEW x, chat' = [chat EXCEPT !.faults = x]
  PROVE  ChatOK'
<1>1. DOMAIN chat' = DOMAIN chat /\ \A k \in DOMAIN chat : k # "faults" => chat'[k] = chat[k]
  OBVIOUS
<1>2. /\ chat'.pc = chat.pc /\ chat.pc # "idle" => chat'.prompt = chat.prompt
      /\ chat.pc = "write" => chat'.change = chat.change /\ chat'.zone = chat.zone
  BY <1>1 DEF ChatOK
<1> QED BY <1>1, <1>2 DEF ChatOK

LEMMA ChatStays == ChatOK /\ UNCHANGED chat => ChatOK'
BY DEF ChatOK, Lawful

(* The screen takes the row it was answered with.                           *)
LEMMA ScreenShows ==
  ASSUME RowOK, ScreenOK, UNCHANGED row, NEW u \in Nat, NEW b \in BOOLEAN,
         screen' = [screen EXCEPT !.version = row.version, !.columns = row.columns,
                                  !.undo = u, !.conflict = b]
  PROVE  ScreenOK'
<1>1. row.version \in 1 .. LastVersion /\ row.columns \in S!SettingsRow
  BY DEF RowOK
<1>2. row.version \in Nat /\ row.version \in 1 .. row.version
  BY <1>1, SettingsBounds
<1>3. screen' \in [version: Nat, columns: S!SettingsRow, undo: Nat, conflict: BOOLEAN,
                   refused: BOOLEAN, taps: Nat]
  BY <1>1, <1>2, Zenon DEF ScreenOK
<1>4. screen'.version = row.version
  BY DEF ScreenOK
<1> QED BY <1>2, <1>3, <1>4 DEF ScreenOK

LEMMA WebTypes ==
  ASSUME SettingsInv, SettingsTyped, S!Web
  PROVE  SettingsTyped'
<1>1. /\ story \in SettingsScenarios /\ story \in S!Scenario /\ moved \in Nat
      /\ RowOK /\ ScreenOK /\ RequestOK /\ AgentOK /\ ChatOK /\ JournalOK
  BY DEF SettingsTyped
<1>2. story' = story /\ moved' = moved /\ agent' = agent
  BY DEF S!Web, S!Tap, S!Save, S!Guard, S!WriteMorning, S!ApplyPlan, S!ReadZone,
         S!copyProfileTimezone, S!Answer, S!Reload, S!LoseRequest
<1>3. AgentOK'
  BY <1>1, <1>2 DEF AgentOK
<1>4. UNCHANGED chat => ChatOK'
  BY <1>1, ChatStays
<1>5. UNCHANGED row => RowOK'
  BY <1>1 DEF RowOK
<1>6. UNCHANGED <<row, screen>> => ScreenOK'
  BY <1>1 DEF ScreenOK
<1>7. UNCHANGED journal => JournalOK'
  BY <1>1 DEF JournalOK
<1>8. CASE S!Tap
  <2>1. PICK kind \in story.web : \E change \in S!ControlsOf(kind, screen.columns) : S!Save(change)
    BY <1>8 DEF S!Tap
  <2>6. PICK change \in S!ControlsOf(kind, screen.columns) : S!Save(change)
    BY <2>1
  <2>2. kind \in S!Controls /\ screen.columns \in S!SettingsRow
    BY <1>1 DEF S!Scenario, ScreenOK
  <2>3. change \in S!SettingsChange
    BY <2>2, <2>6, ControlsSend
  <2>4. RequestOK'
    BY <2>3, <2>6 DEF S!Save, RequestOK
  <2>5. ScreenOK'
    <3>1. /\ screen.taps > 0 /\ UNCHANGED row
          /\ screen' = [screen EXCEPT !.taps = screen.taps - 1, !.conflict = FALSE,
                                      !.refused = FALSE]
      BY <2>6 DEF S!Save
    <3>2. screen.taps - 1 \in Nat
      BY <1>1, <3>1 DEF ScreenOK
    <3>3. screen' \in [version: Nat, columns: S!SettingsRow, undo: Nat, conflict: BOOLEAN,
                       refused: BOOLEAN, taps: Nat]
      BY <1>1, <3>1, <3>2, Zenon DEF ScreenOK
    <3>4. screen'.version = screen.version
      BY <1>1, <3>1 DEF ScreenOK
    <3> QED BY <1>1, <3>1, <3>3, <3>4 DEF ScreenOK
  <2> QED BY <1>1, <1>2, <1>3, <1>4, <1>5, <1>7, <2>4, <2>5, <2>6 DEF S!Save, SettingsTyped
<1>9. CASE S!Guard
  <2>1. UNCHANGED <<row, chat, journal>> /\ req.pc = "sent"
    BY <1>9 DEF S!Guard
  <2>2. CASE req.expected # row.version
    <3>1. RequestOK'
      BY <1>9, <2>2 DEF S!Guard, S!NoReq, RequestOK
    <3>2. ScreenOK'
      BY <1>1, <1>9, <2>1, <2>2 DEF S!Guard, S!Answered, ScreenOK
    <3> QED BY <1>1, <1>2, <1>3, <1>4, <1>5, <1>7, <2>1, <3>1, <3>2 DEF SettingsTyped
  <2>3. CASE req.expected = row.version
    <3>1. req.change \in S!SettingsChange
      BY <1>1, <2>1 DEF RequestOK
    <3>2. /\ req' = [pc |-> "planned", expected |-> row.version,
                     plan |-> S!planSettingsChange(req.change)]
          /\ UNCHANGED screen
      BY <1>9, <2>3 DEF S!Guard
    <3>3. RequestOK'
      <4> DEFINE p == S!planSettingsChange(req.change)
      <4>1. /\ req' = [pc |-> "planned", expected |-> row.version, plan |-> p]
            /\ p \in PlanType
            /\ p.kind = "snooze_until_morning" => p.action = S!snooze("morning")
        BY <3>1, <3>2, PlanTyped
      <4> HIDE DEF p
      <4> QED BY <4>1 DEF RequestOK
    <3> QED BY <1>1, <1>2, <1>3, <1>4, <1>5, <1>6, <1>7, <2>1, <3>2, <3>3 DEF SettingsTyped
  <2> QED BY <2>2, <2>3
<1>10. CASE S!WriteMorning
  <2>1. /\ req.pc = "planned" /\ req.plan.kind = "snooze_until_morning" /\ S!Room
        /\ row' = S!applyPatch(row, S!buildSettingsPatch(row.columns, req.plan.action, S!Null))
        /\ req' = [pc |-> "answer", group |-> 0]
        /\ UNCHANGED <<screen, chat, journal>>
    BY <1>10 DEF S!WriteMorning
  <2>2. req.plan.action = S!snooze("morning")
    BY <1>1, <2>1 DEF RequestOK
  <2>3. Lawful(req.plan.action, S!Null)
    BY <2>2 DEF Lawful, S!snooze, S!SettingsChange, S!validateSettingsAction
  <2>4. RowOK' /\ ScreenOK'
    BY <1>1, <2>1, <2>3, PatchWritten
  <2>5. RequestOK'
    BY <2>1 DEF RequestOK
  <2> QED BY <1>1, <1>2, <1>3, <1>4, <1>7, <2>1, <2>4, <2>5 DEF SettingsTyped
<1>11. CASE S!ApplyPlan
  <2>1. req.pc = "planned" /\ S!Room /\ UNCHANGED chat
    BY <1>11 DEF S!ApplyPlan
  <2>2. req.plan \in PlanType
    BY <1>1, <2>1 DEF RequestOK
  <2>3. CASE /\ req' = S!NoReq /\ UNCHANGED <<row, journal>>
             /\ \E b \in BOOLEAN : screen' = S!Answered(screen, b)
    <3>1. RequestOK'
      BY <2>3 DEF S!NoReq, RequestOK
    <3>2. ScreenOK'
      BY <1>1, <2>3 DEF S!Answered, ScreenOK
    <3> QED BY <1>1, <1>2, <1>3, <1>4, <1>5, <1>7, <2>1, <2>3, <3>1, <3>2 DEF SettingsTyped
  <2>4. CASE /\ S!validateSettingsAction(req.plan.action)
             /\ S!updateSettingsInTx(req.plan.action)
             /\ req' = IF req.plan.copy = S!Null
                         THEN [pc |-> "answer", group |-> Len(journal) + 1]
                         ELSE [pc |-> "copy", target |-> req.plan.copy]
             /\ UNCHANGED screen
    <3>1. req.plan.action \in S!SettingsChange
      BY <2>2 DEF PlanType
    <3>2. RowOK' /\ ScreenOK' /\ JournalOK' /\ Len(journal) + 1 \in Nat
      BY <1>1, <2>1, <2>4, <3>1, JournalWritten
    <3>3. RequestOK'
      BY <2>4, <3>2 DEF RequestOK
    <3> QED BY <1>1, <1>2, <1>3, <1>4, <2>1, <3>2, <3>3 DEF SettingsTyped
  <2>5. CASE row.version # req.expected
    <3>1. req' = S!NoReq /\ screen' = S!Answered(screen, FALSE) /\ UNCHANGED <<row, journal>>
      BY <1>11, <2>5 DEF S!ApplyPlan
    <3> QED BY <2>3, <3>1
  <2>6. CASE row.version = req.expected /\ ~S!validateSettingsAction(req.plan.action)
    <3>1. req' = S!NoReq /\ screen' = S!Answered(screen, TRUE) /\ UNCHANGED <<row, journal>>
      BY <1>11, <2>6 DEF S!ApplyPlan
    <3> QED BY <2>3, <3>1
  <2>7. CASE row.version = req.expected /\ S!validateSettingsAction(req.plan.action)
    <3> QED BY <1>11, <2>4, <2>7 DEF S!ApplyPlan
  <2> QED BY <2>5, <2>6, <2>7
<1>12. CASE S!ReadZone
  <2>1. /\ req' = [pc |-> "copying", target |-> req.target, zone |-> row.columns.timezone]
        /\ UNCHANGED <<row, screen, chat, journal>>
    BY <1>12 DEF S!ReadZone
  <2>2. RequestOK'
    BY <1>1, <2>1, OnlyPrompt DEF RequestOK
  <2> QED BY <1>1, <1>2, <1>3, <1>4, <1>5, <1>6, <1>7, <2>1, <2>2 DEF SettingsTyped
<1>13. CASE S!copyProfileTimezone
  <2>1. /\ req.pc = "copying" /\ S!Room
        /\ row' = S!applyPatch(row, S!CopyOf(row.columns, req.target, req.zone))
        /\ req' = [pc |-> "answer", group |-> 0]
        /\ UNCHANGED <<screen, chat, journal>>
    BY <1>13 DEF S!copyProfileTimezone
  <2>2. req.zone \in S!Zones /\ row.columns \in S!SettingsRow
    BY <1>1, <2>1 DEF RequestOK, RowOK
  <2>3. S!CopyOf(row.columns, req.target, req.zone) \in S!SettingsRow
    BY <2>2 DEF S!CopyOf, S!SettingsRow
  <2>4. RowOK' /\ ScreenOK'
    BY <1>1, <2>1, <2>3, ColumnsTyped DEF S!applyPatch
  <2>5. RequestOK'
    BY <2>1 DEF RequestOK
  <2> QED BY <1>1, <1>2, <1>3, <1>4, <1>7, <2>1, <2>4, <2>5 DEF SettingsTyped
<1>14. CASE S!Answer
  <2>1. /\ req.pc = "answer" /\ req' = S!NoReq /\ UNCHANGED <<row, chat, journal>>
        /\ screen' = [screen EXCEPT !.version = row.version, !.columns = row.columns,
                                    !.undo = req.group]
    BY <1>14 DEF S!Answer
  <2>2. req.group \in Nat /\ screen.conflict \in BOOLEAN
    BY <1>1, <2>1 DEF RequestOK, ScreenOK
  <2>5. screen' = [screen EXCEPT !.version = row.version, !.columns = row.columns,
                                 !.undo = req.group, !.conflict = screen.conflict]
    BY <1>1, <2>1 DEF ScreenOK
  <2>3. ScreenOK'
    BY <1>1, <2>1, <2>2, <2>5, ScreenShows
  <2>4. RequestOK'
    BY <2>1 DEF S!NoReq, RequestOK
  <2> QED BY <1>1, <1>2, <1>3, <1>4, <1>5, <1>7, <2>1, <2>3, <2>4 DEF SettingsTyped
<1>15. CASE S!Reload
  <2>1. /\ UNCHANGED <<row, req, chat, journal>>
        /\ screen' = [screen EXCEPT !.version = row.version, !.columns = row.columns,
                                    !.conflict = FALSE]
    BY <1>15 DEF S!Reload
  <2>2. screen.undo \in Nat /\ FALSE \in BOOLEAN
    BY <1>1 DEF ScreenOK
  <2>5. screen' = [screen EXCEPT !.version = row.version, !.columns = row.columns,
                                 !.undo = screen.undo, !.conflict = FALSE]
    BY <1>1, <2>1 DEF ScreenOK
  <2>3. ScreenOK'
    BY <1>1, <2>1, <2>2, <2>5, ScreenShows
  <2>4. RequestOK'
    BY <1>1, <2>1 DEF RequestOK
  <2> QED BY <1>1, <1>2, <1>3, <1>4, <1>5, <1>7, <2>1, <2>3, <2>4 DEF SettingsTyped
<1>16. CASE S!LoseRequest
  <2>1. /\ UNCHANGED <<row, screen, journal>> /\ req' = S!NoReq
        /\ chat' = [chat EXCEPT !.faults = @ - 1]
    BY <1>16 DEF S!LoseRequest
  <2>2. RequestOK'
    BY <2>1 DEF S!NoReq, RequestOK
  <2>3. ChatOK'
    BY <1>1, <2>1, ChatFaults
  <2> QED BY <1>1, <1>2, <1>3, <1>5, <1>6, <1>7, <2>1, <2>2, <2>3 DEF SettingsTyped
<1> QED BY <1>8, <1>9, <1>10, <1>11, <1>12, <1>13, <1>14, <1>15, <1>16 DEF S!Web
LEMMA AgentTypes ==
  ASSUME SettingsInv, SettingsTyped, S!Agent
  PROVE  SettingsTyped'
<1>1. /\ story \in SettingsScenarios /\ story \in S!Scenario /\ moved \in Nat
      /\ RowOK /\ ScreenOK /\ RequestOK /\ AgentOK /\ ChatOK /\ JournalOK
  BY DEF SettingsTyped
<1>2. UNCHANGED <<story, moved, req, chat, screen>>
  BY DEF S!Agent, S!Resolve, S!ApplyResolved, S!UndoGroup
<1>3. RequestOK' /\ ChatOK'
  BY <1>1, <1>2, ChatStays DEF RequestOK
<1>4. UNCHANGED row => RowOK' /\ ScreenOK'
  BY <1>1, <1>2 DEF RowOK, ScreenOK
<1>5. UNCHANGED journal => JournalOK'
  BY <1>1 DEF JournalOK
<1>6. UNCHANGED agent => AgentOK'
  BY <1>1 DEF AgentOK
<1>7. ASSUME NEW change \in story.agent, S!Resolve(change) PROVE SettingsTyped'
  <2>1. change \in S!SettingsChange
    BY <1>1 DEF S!Scenario
  <2>2. /\ agent' = [pc |-> "resolved", change |-> change, expected |-> row.version]
        /\ UNCHANGED <<row, journal>>
    BY <1>7 DEF S!Resolve
  <2>3. AgentOK'
    BY <2>1, <2>2 DEF AgentOK
  <2> QED BY <1>1, <1>2, <1>3, <1>4, <1>5, <2>2, <2>3 DEF SettingsTyped
<1>8. CASE S!ApplyResolved
  <2>1. agent.pc = "resolved" /\ S!Room /\ agent' = [pc |-> "done"]
    BY <1>8 DEF S!ApplyResolved
  <2>2. agent.change \in S!SettingsChange /\ AgentOK'
    BY <1>1, <2>1 DEF AgentOK
  <2>3. CASE S!validateSettingsAction(agent.change) /\ S!updateSettingsInTx(agent.change)
    <3>1. RowOK' /\ ScreenOK' /\ JournalOK'
      BY <1>1, <1>2, <2>1, <2>2, <2>3, JournalWritten
    <3> QED BY <1>1, <1>2, <1>3, <2>2, <3>1 DEF SettingsTyped
  <2>4. CASE UNCHANGED <<row, journal>>
    BY <1>1, <1>2, <1>3, <1>4, <1>5, <2>2, <2>4 DEF SettingsTyped
  <2> QED BY <1>8, <2>3, <2>4 DEF S!ApplyResolved
<1>9. ASSUME NEW k \in DOMAIN journal, S!UndoGroup(k) PROVE SettingsTyped'
  <2> DEFINE h == [journal[k] EXCEPT !.status = "undone"]
  <2>1. /\ S!Room /\ UNCHANGED agent
        /\ row' = [row EXCEPT !.columns = journal[k].before, !.version = @ + 1]
        /\ journal' = [journal EXCEPT ![k].status = "undone"]
    BY <1>9 DEF S!UndoGroup
  <2>2. /\ Len(journal) \in Nat /\ DOMAIN journal = 1 .. Len(journal)
        /\ journal \in [1 .. Len(journal) -> JournalRow] /\ journal[k] \in JournalRow
    BY <1>1, <1>9 DEF JournalOK
  <2>3. journal[k].before \in S!SettingsRow /\ h \in JournalRow /\ journal' = [journal EXCEPT ![k] = h]
    BY <2>1, <2>2 DEF JournalRow
  <2>4. RowOK' /\ ScreenOK'
    <3> HIDE DEF h
    <3> QED BY <1>1, <1>2, <2>1, <2>3, ColumnsTyped
  <2> HIDE DEF h
  <2>5. journal' \in [1 .. Len(journal) -> JournalRow]
    BY <2>2, <2>3
  <2>6. JournalOK'
    BY <2>2, <2>5 DEF JournalOK
  <2> QED BY <1>1, <1>2, <1>3, <1>6, <2>1, <2>4, <2>6 DEF SettingsTyped
<1> QED BY <1>7, <1>8, <1>9 DEF S!Agent

LEMMA ChatTypes ==
  ASSUME SettingsInv, SettingsTyped, S!Chat
  PROVE  SettingsTyped'
<1>1. /\ story \in SettingsScenarios /\ story \in S!Scenario /\ moved \in Nat
      /\ RowOK /\ ScreenOK /\ RequestOK /\ AgentOK /\ ChatOK /\ JournalOK
  BY DEF SettingsTyped
<1>2. UNCHANGED <<story, screen, req, agent, journal>>
  BY DEF S!Chat, S!OpenPrompt, S!Cancel, S!Text, S!Button, S!UntilMorning, S!applyTypedTimezone,
         S!applyTypedStep, S!serviceApply, S!advance, S!applyReschedule, S!Reply, S!ReplyFails,
         S!PutBack, S!StopHandler
<1>3. RequestOK' /\ AgentOK' /\ JournalOK'
  BY <1>1, <1>2 DEF RequestOK, AgentOK, JournalOK
<1>4. ASSUME UNCHANGED row PROVE RowOK' /\ ScreenOK'
  BY <1>1, <1>2, <1>4 DEF RowOK, ScreenOK
<1>5. ASSUME NEW x \in S!PendingInput, row' = [row EXCEPT !.pendingInput = x]
      PROVE  RowOK' /\ ScreenOK'
  BY <1>1, <1>2, <1>5, OnlyPrompt, PromptWritten
<1>6. ASSUME RowOK', ScreenOK', ChatOK', moved' \in Nat PROVE SettingsTyped'
  BY <1>1, <1>2, <1>3, <1>6 DEF SettingsTyped
<1>7. row.columns.timezone \in S!Zones /\ row.pendingInput \in S!PendingInput
  BY <1>1, OnlyPrompt
<1>8. S!Null \in S!PendingInput /\ S!Steps \cup {"timezone"} \subseteq S!PendingInput
  BY DEF S!PendingInput
<1>9. CASE \E input \in S!PendingInput \ {S!Null} : S!OpenPrompt(input)
  <2>1. PICK input \in S!PendingInput : S!OpenPrompt(input)
    BY <1>9
  <2>2. /\ row' = [row EXCEPT !.pendingInput = input] /\ moved' = 0 /\ chat.pc = "idle"
        /\ chat' = [chat EXCEPT !.texts = @ - 1]
    BY <2>1 DEF S!OpenPrompt, S!setPendingInput
  <2>3. ChatOK'
    BY <1>1, <2>2 DEF ChatOK
  <2> QED BY <1>5, <1>6, <2>2, <2>3
<1>10. CASE S!Cancel
  <2>2. /\ row' = [row EXCEPT !.pendingInput = S!Null] /\ moved' = 0 /\ chat.pc = "idle"
        /\ chat' = [chat EXCEPT !.texts = @ - 1]
    BY <1>10 DEF S!Cancel, S!setPendingInput
  <2>3. ChatOK'
    BY <1>1, <2>2 DEF ChatOK
  <2> QED BY <1>5, <1>6, <1>8, <2>2, <2>3
<1>11. CASE \E answer \in S!Answers : S!Text(answer)
  <2>1. PICK answer \in S!Answers : S!Text(answer)
    BY <1>11
  <2>2. row' = [row EXCEPT !.pendingInput = S!Null] /\ moved' = moved
    BY <2>1 DEF S!Text
  <2>3. ChatOK'
    BY <1>7, <2>1 DEF S!Text, ChatOK
  <2> QED BY <1>1, <1>5, <1>6, <1>8, <2>2, <2>3
<1>12. CASE \E step \in S!Steps \cup {"timezone"}, answer \in {"yes", "no"} : S!Button(step, answer)
  <2>1. PICK step \in S!Steps \cup {"timezone"}, answer \in {"yes", "no"} : S!Button(step, answer)
    BY <1>12
  <2>2. UNCHANGED <<row, moved>>
    BY <2>1 DEF S!Button
  <2>3. ChatOK'
    BY <1>8, <2>1 DEF S!Button, ChatOK
  <2> QED BY <1>1, <1>4, <1>6, <2>2, <2>3
<1>13. CASE S!UntilMorning
  <2>1. Lawful(S!snooze("morning"), S!Null)
    BY DEF Lawful, S!snooze, S!SettingsChange, S!validateSettingsAction
  <2>2. UNCHANGED <<row, moved>>
    BY <1>13 DEF S!UntilMorning
  <2>3. ChatOK'
    BY <1>8, <1>13, <2>1 DEF S!UntilMorning, ChatOK
  <2> QED BY <1>1, <1>4, <1>6, <2>2, <2>3
<1>14. ASSUME NEW change, Lawful(change, row.columns.timezone), S!ThenWrite(change),
              chat.prompt \in S!PendingInput
       PROVE  ChatOK'
  BY <1>14 DEF S!ThenWrite, ChatOK
<1>15. ASSUME NEW pc \in {"advance", "reply"}, NEW typed, S!Then(pc, typed),
              chat.prompt \in S!PendingInput
       PROVE  ChatOK'
  BY <1>15 DEF S!Then, ChatOK
<1>16. ASSUME NEW faults, (S!Failed(faults) /\ chat.prompt \in S!PendingInput) \/ S!Idled(faults)
       PROVE  ChatOK'
  BY <1>16 DEF S!Failed, S!Idled, ChatOK
<1>17. CASE S!applyTypedTimezone
  <2>1. chat.prompt \in S!PendingInput
    BY <1>1, <1>17 DEF S!applyTypedTimezone, ChatOK
  <2>2. Lawful(S!zoned("away", "all"), row.columns.timezone)
    BY <1>7 DEF Lawful, S!zoned, S!SettingsChange, S!Zones, S!validateSettingsAction
  <2>3. CASE chat.answer = "unclear"
    <3>1. row' = [row EXCEPT !.pendingInput = chat.prompt] /\ moved' = 0 /\ S!Then("reply", TRUE)
      BY <1>17, <2>3 DEF S!applyTypedTimezone, S!setPendingInput
    <3> QED BY <1>5, <1>6, <1>15, <2>1, <3>1
  <2>4. CASE chat.answer # "unclear"
    <3>1. S!ThenWrite(S!zoned("away", "all")) /\ UNCHANGED <<row, moved>>
      BY <1>17, <2>4 DEF S!applyTypedTimezone
    <3> QED BY <1>1, <1>4, <1>6, <1>14, <2>1, <2>2, <3>1
  <2> QED BY <2>3, <2>4
<1>18. CASE S!applyTypedStep
  <2>1. chat.prompt \in S!PendingInput /\ chat.prompt \in S!Steps
    BY <1>1, <1>18 DEF S!applyTypedStep, ChatOK
  <2>2. Lawful(S!PresetOf(chat.prompt, chat.answer = "yes"), row.columns.timezone)
    BY <1>7, <2>1, PresetLawful
  <2>3. CASE chat.answer = "unclear"
    <3>1. row' = [row EXCEPT !.pendingInput = chat.prompt] /\ moved' = 0
          /\ S!Then("reply", chat.typed)
      BY <1>18, <2>3 DEF S!applyTypedStep, S!setPendingInput
    <3> QED BY <1>5, <1>6, <1>15, <2>1, <3>1
  <2>4. CASE chat.answer # "unclear"
    <3>1. S!ThenWrite(S!PresetOf(chat.prompt, chat.answer = "yes")) /\ UNCHANGED <<row, moved>>
      BY <1>18, <2>4 DEF S!applyTypedStep
    <3> QED BY <1>1, <1>4, <1>6, <1>14, <2>1, <2>2, <3>1
  <2> QED BY <2>3, <2>4
<1>19. CASE S!serviceApply
  <2>1. /\ chat.pc = "write" /\ S!Room /\ UNCHANGED moved /\ S!Then("advance", chat.typed)
        /\ row' = S!applyPatch(row, S!buildSettingsPatch(row.columns, chat.change, chat.zone))
    BY <1>19 DEF S!serviceApply
  <2>2. Lawful(chat.change, chat.zone) /\ chat.prompt \in S!PendingInput
    BY <1>1, <2>1 DEF ChatOK
  <2>3. RowOK' /\ ScreenOK'
    BY <1>1, <1>2, <2>1, <2>2, PatchWritten
  <2> QED BY <1>1, <1>6, <1>15, <2>1, <2>2, <2>3
<1>20. CASE S!advance
  <2>1. chat.prompt \in S!PendingInput /\ S!Then("reply", chat.typed)
    BY <1>1, <1>20 DEF S!advance, ChatOK
  <2>2. S!NextStep(chat.prompt) \in S!PendingInput
    BY DEF S!NextStep, S!PendingInput, S!Steps, S!Null
  <2>3. CASE chat.prompt \in S!Steps \cup {"timezone"}
    <3> DEFINE y == row.onboarded \/ chat.prompt = "weekly"
    <3>1. row' = [row EXCEPT !.pendingInput = S!NextStep(chat.prompt), !.onboarded = y]
          /\ moved' = 0 /\ y \in BOOLEAN
      BY <1>20, <2>3 DEF S!advance
    <3> HIDE DEF y
    <3>2. RowOK' /\ ScreenOK'
      BY <1>1, <1>2, <2>2, <3>1, PromptWritten
    <3> QED BY <1>6, <1>15, <2>1, <3>1, <3>2
  <2>4. CASE chat.prompt \notin S!Steps \cup {"timezone"}
    BY <1>1, <1>4, <1>6, <1>15, <1>20, <2>1, <2>4 DEF S!advance
  <2> QED BY <2>3, <2>4
<1>21. CASE S!applyReschedule
  <2>1. chat.prompt \in S!PendingInput /\ UNCHANGED row
    BY <1>1, <1>21 DEF S!applyReschedule, ChatOK
  <2>2. moved' \in Nat
    <3>1. moved' = moved \/ moved' = moved + 1
      BY <1>21 DEF S!applyReschedule
    <3> QED BY <1>1, <3>1
  <2>3. S!Failed(chat.faults) \/ S!Then("reply", TRUE)
    BY <1>21 DEF S!applyReschedule
  <2> QED BY <1>4, <1>6, <1>15, <1>16, <2>1, <2>2, <2>3
<1>22. CASE S!Reply \/ S!StopHandler
  <2>1. UNCHANGED <<row, moved>> /\ \E f : S!Idled(f)
    BY <1>22 DEF S!Reply, S!StopHandler, S!Done
  <2> QED BY <1>1, <1>4, <1>6, <1>16, <2>1
<1>23. CASE S!ReplyFails
  <2>1. /\ UNCHANGED <<row, moved>> /\ chat.prompt \in S!PendingInput
        /\ S!Failed(chat.faults - 1) \/ S!Idled(chat.faults - 1)
    BY <1>1, <1>23 DEF S!ReplyFails, ChatOK
  <2> QED BY <1>1, <1>4, <1>6, <1>16, <2>1
<1>24. CASE S!PutBack
  <2>1. /\ chat.prompt \in S!PendingInput /\ S!Idled(chat.faults) /\ UNCHANGED moved
        /\ row' = row \/ row' = [row EXCEPT !.pendingInput = chat.prompt]
    BY <1>1, <1>24 DEF S!PutBack, S!Done, ChatOK
  <2> QED BY <1>1, <1>4, <1>5, <1>6, <1>16, <2>1
<1> QED BY <1>9, <1>10, <1>11, <1>12, <1>13, <1>17, <1>18, <1>19, <1>20, <1>21, <1>22, <1>23,
           <1>24 DEF S!Chat

LEMMA SettingsTypes ==
  ASSUME SettingsInv, SettingsTyped, [S!Next]_(S!vars)
  PROVE  SettingsTyped'
<1>1. CASE UNCHANGED S!vars
  <2>1. UNCHANGED <<story, row, screen, req, agent, chat, journal, moved>>
    BY <1>1 DEF S!vars
  <2> QED BY <2>1, ChatStays DEF SettingsTyped, RowOK, ScreenOK, RequestOK, AgentOK, JournalOK
<1> QED BY <1>1, WebTypes, AgentTypes, ChatTypes DEF S!Next

LEMMA SettingsTypeFact == ASSUME SettingsInv, SettingsTyped PROVE S!TypeOK
<1>1. /\ story \in SettingsScenarios /\ moved \in Nat
      /\ RowOK /\ ScreenOK /\ RequestOK /\ ChatOK /\ JournalOK
  BY DEF SettingsTyped
<1>2. /\ row.version \in 1 .. LastVersion /\ row.columns \in S!SettingsRow
      /\ row.pendingInput \in S!PendingInput /\ row.onboarded \in BOOLEAN
      /\ screen.columns \in S!SettingsRow /\ screen.version \in 1 .. row.version
  BY <1>1 DEF RowOK, ScreenOK
<1>3. ASSUME NEW i \in DOMAIN journal
      PROVE  /\ journal[i].before \in S!SettingsRow /\ journal[i].after \in S!SettingsRow
             /\ journal[i].post \in 2 .. row.version
             /\ journal[i].status \in {"applied", "undone"}
  <2>1. journal[i] \in JournalRow /\ i \in 1 .. Len(journal)
    BY <1>1, <1>3 DEF JournalOK
  <2>2. journal[i].post <= row.version
    BY <2>1 DEF SettingsInv, LastWriter
  <2>3. journal[i].post \in 2 .. LastVersion /\ row.version \in Nat
    BY <1>2, <2>1, SettingsBounds DEF JournalRow
  <2>4. journal[i].post \in 2 .. row.version
    BY <2>2, <2>3, SettingsBounds
  <2> QED BY <2>1, <2>4 DEF JournalRow
<1>4. /\ req.pc \in {"none", "sent", "planned", "copy", "copying", "answer"}
      /\ chat.pc \in {"idle", "handle", "write", "advance", "reply", "failed"}
  BY <1>1 DEF RequestOK, ChatOK
<1> QED BY <1>1, <1>2, <1>3, <1>4 DEF S!TypeOK
-----------------------------------------------------------------------------
(* The topics: their types and counts.  A turn that may still count a question *)
(* is one of those that were left at the start, so no count passes the one a   *)
(* topic may start with by more than the turns.                                *)
Talkers == {"handler", "retry"}
MayCount(s) == IF s.pc \in {"idle", "reset"} THEN 0 ELSE 1
Left == budget.turns + MayCount(work["handler"]) + MayCount(work["retry"])
Counted ==
  /\ DOMAIN budget = {"turns", "faults", "ages"} /\ budget.turns \in Nat /\ Left <= story.turns
  /\ \A i \in T!Ids : topics[i].count \in Nat /\ topics[i].count + Left <= Checkpoint + story.turns
PlacesOf(w) == CASE w = "web" -> {"idle", "pause"}
                 [] w = "maintenance" -> {"idle", "scrub"}
                 [] OTHER -> TopicSteps
TopicsBounded ==
  /\ story.turns \in Nat /\ Len(topics) <= MaxTopics /\ Counted
  /\ \A w \in T!Workers : work[w].seen \subseteq T!Ids /\ work[w].pc \in PlacesOf(w)

LEMMA LeftBounds ==
  /\ Checkpoint \in Nat /\ MaxTopics \in Nat
  /\ \A s : MayCount(s) \in {0, 1}
BY DialogueAssumption DEF MayCount

LEMMA TopicsBoundedBegin == T!Init => TopicsBounded
<1> SUFFICES ASSUME T!Init PROVE TopicsBounded
  OBVIOUS
<1>1. /\ story \in TopicScenarios /\ topics = story.start
      /\ work = [w \in T!Workers |-> T!Idle]
      /\ budget = [turns |-> story.turns, faults |-> story.faults, ages |-> story.ages]
  BY DEF T!Init
<1>2. /\ story.turns \in Nat /\ Len(topics) <= MaxTopics
      /\ topics \in Seq([status: T!Statuses, text: BOOLEAN, fresh: BOOLEAN,
                         count: 0 .. Checkpoint, at: Nat])
  BY <1>1, DialogueAssumption
<1>3. \A i \in 1 .. Len(topics) : topics[i].count \in 0 .. Checkpoint
  <2> DEFINE R == [status: T!Statuses, text: BOOLEAN, fresh: BOOLEAN,
                   count: 0 .. Checkpoint, at: Nat]
  <2>1. \A r \in R : r.count \in 0 .. Checkpoint
    OBVIOUS
  <2>2. topics \in Seq(R)
    BY <1>2
  <2> HIDE DEF R
  <2>3. \A i \in 1 .. Len(topics) : topics[i] \in R
    BY <2>2
  <2> QED BY <2>1, <2>3
<1>4. /\ \A w \in T!Workers : work[w] = T!Idle
      /\ T!Idle.pc = "idle" /\ T!Idle.seen = {}
      /\ "handler" \in T!Workers /\ "retry" \in T!Workers
  BY <1>1 DEF T!Idle, T!Workers
<1>5. Left = story.turns /\ budget.turns = story.turns
  BY <1>1, <1>2, <1>4 DEF Left, MayCount
<1>6. Counted
  <2>1. /\ DOMAIN budget = {"turns", "faults", "ages"} /\ budget.turns \in Nat
        /\ Left = story.turns /\ story.turns \in Nat /\ Checkpoint \in Nat
    BY <1>1, <1>2, <1>5, LeftBounds
  <2> HIDE DEF Left
  <2>2. \A i \in T!Ids : topics[i].count \in Nat /\ topics[i].count <= Checkpoint
    BY <1>3, <2>1 DEF T!Ids
  <2>3. \A i \in T!Ids : topics[i].count + Left <= Checkpoint + story.turns
    BY <2>1, <2>2
  <2>4. Left <= story.turns
    BY <2>1
  <2> QED BY <2>1, <2>2, <2>3, <2>4 DEF Counted
<1>7. \A w \in T!Workers : work[w].seen \subseteq T!Ids /\ work[w].pc \in PlacesOf(w)
  BY <1>4 DEF PlacesOf, T!Workers, TopicSteps
<1> QED BY <1>2, <1>6, <1>7 DEF TopicsBounded

(* One of the two goes on: what is left does not grow, and gets less by a count. *)
LEMMA LeftGoesDown ==
  ASSUME NEW p \in Nat, NEW q \in Nat, NEW d \in {0, 1}, q = p - d,
         NEW x \in {0, 1}, NEW y \in {0, 1}, NEW z \in {0, 1}, y <= x + d
  PROVE  /\ q + y + z <= p + x + z /\ q + z + y <= p + z + x
         /\ y + 1 <= x => q + y + z + 1 <= p + x + z /\ q + z + y + 1 <= p + z + x
OBVIOUS

(* One worker goes on and the rows change: what it may still count it counts,  *)
(* or its turn was one of those left.                                          *)
LEMMA BoundedGoesOn ==
  ASSUME TopicsInv, TopicsBounded, NEW w \in T!Workers, NEW r, work' = [work EXCEPT ![w] = r],
         story' = story, DOMAIN budget' = DOMAIN budget,
         Len(topics') <= MaxTopics, T!Ids \subseteq T!Ids',
         r.seen \subseteq T!Ids', r.pc \in PlacesOf(w),
         NEW d \in {0, 1}, budget'.turns = budget.turns - d, budget'.turns \in Nat,
         w \in Talkers => MayCount(r) <= MayCount(work[w]) + d,
         \A i \in T!Ids' :
           \/ topics'[i].count = 0
           \/ i \in T!Ids /\ topics'[i].count = topics[i].count
           \/ /\ i \in T!Ids /\ topics'[i].count = topics[i].count + 1
              /\ w \in Talkers /\ MayCount(r) + 1 <= MayCount(work[w])
  PROVE  TopicsBounded'
<1>1. /\ work'[w] = r /\ \A v \in T!Workers : v # w => work'[v] = work[v]
      /\ "handler" \in T!Workers /\ "retry" \in T!Workers
  <2>1. PICK C : TopicsTyped(C)
    BY DEF TopicsInv
  <2> QED BY <2>1 DEF TopicsTyped, T!Workers
<1>2. /\ story.turns \in Nat /\ Counted
      /\ \A v \in T!Workers : work[v].seen \subseteq T!Ids /\ work[v].pc \in PlacesOf(v)
  BY DEF TopicsBounded
<1>3. /\ MayCount(work["handler"]) \in {0, 1} /\ MayCount(work["retry"]) \in {0, 1}
      /\ MayCount(work'["handler"]) \in {0, 1} /\ MayCount(work'["retry"]) \in {0, 1}
      /\ MayCount(r) \in {0, 1} /\ MayCount(work[w]) \in {0, 1}
  BY LeftBounds
<1>4. /\ budget.turns \in Nat /\ Left \in Nat /\ Left' \in Nat
      /\ Left = budget.turns + MayCount(work["handler"]) + MayCount(work["retry"])
      /\ Left' = budget'.turns + MayCount(work'["handler"]) + MayCount(work'["retry"])
  <2>1. Left' = budget'.turns + MayCount(work'["handler"]) + MayCount(work'["retry"])
    BY DEF Left, MayCount
  <2> QED BY <1>2, <1>3, <2>1 DEF Left, Counted
<1>5. /\ Left' <= Left
      /\ w \in Talkers /\ MayCount(r) + 1 <= MayCount(work[w]) => Left' + 1 <= Left
  <2> DEFINE a == MayCount(work["handler"])
             b == MayCount(work["retry"])
             e == MayCount(work'["handler"])
             f == MayCount(work'["retry"])
             p == budget.turns
             q == budget'.turns
             was == Left
             is == Left'
             x == MayCount(work[w])
             y == MayCount(r)
  <2>1. /\ a \in {0, 1} /\ b \in {0, 1} /\ e \in {0, 1} /\ f \in {0, 1}
        /\ x \in {0, 1} /\ y \in {0, 1}
        /\ was = p + a + b /\ is = q + e + f
    BY <1>3, <1>4
  <2>2. p \in Nat /\ q \in Nat /\ q = p - d /\ q <= p
    BY <1>4
  <2>3. CASE w = "handler"
    <3>1. e = y /\ a = x /\ f = b /\ e <= a + d
      BY <1>1, <2>3 DEF Talkers
    <3> HIDE DEF a, b, e, f, p, q, was, is, x, y
    <3>2. q + e + b <= p + a + b /\ (e + 1 <= a => q + e + b + 1 <= p + a + b)
      BY <2>1, <2>2, <3>1, LeftGoesDown
    <3>3. is <= was /\ (y + 1 <= x => is + 1 <= was)
      BY <2>1, <2>2, <3>1, <3>2
    <3> QED BY <3>3 DEF was, is, x, y
  <2>4. CASE w = "retry"
    <3>1. f = y /\ b = x /\ e = a /\ f <= b + d
      BY <1>1, <2>4 DEF Talkers
    <3> HIDE DEF a, b, e, f, p, q, was, is, x, y
    <3>2. q + a + f <= p + a + b /\ (f + 1 <= b => q + a + f + 1 <= p + a + b)
      BY <2>1, <2>2, <3>1, LeftGoesDown
    <3>3. is <= was /\ (y + 1 <= x => is + 1 <= was)
      BY <2>1, <2>2, <3>1, <3>2
    <3> QED BY <3>3 DEF was, is, x, y
  <2>5. CASE w \notin Talkers
    <3>1. e = a /\ f = b
      BY <1>1, <2>5 DEF Talkers
    <3> HIDE DEF a, b, e, f, p, q, was, is, x, y
    <3>2. is <= was
      BY <2>1, <2>2, <3>1
    <3> QED BY <2>5, <3>2 DEF was, is
  <2> QED BY <2>3, <2>4, <2>5 DEF Talkers
<1>7. /\ \A i \in T!Ids' : topics'[i].count \in Nat /\ topics'[i].count + Left' <= Checkpoint + story.turns
      /\ Left' <= story.turns
  <2>1. /\ Left <= story.turns /\ Checkpoint \in Nat
        /\ \A i \in T!Ids : topics[i].count \in Nat /\ topics[i].count + Left <= Checkpoint + story.turns
    BY <1>2, LeftBounds DEF Counted
  <2>2. Left' <= story.turns
    BY <1>2, <1>4, <1>5, <2>1
  <2>3. ASSUME NEW i \in T!Ids'
        PROVE  topics'[i].count \in Nat /\ topics'[i].count + Left' <= Checkpoint + story.turns
    <3>1. CASE topics'[i].count = 0
      BY <1>2, <1>4, <2>1, <2>2, <3>1
    <3>2. CASE i \in T!Ids /\ topics'[i].count = topics[i].count
      BY <1>2, <1>4, <1>5, <2>1, <3>2
    <3>4. i \in T!Ids => /\ topics[i].count \in Nat
                         /\ topics[i].count + Left <= Checkpoint + story.turns
      BY <2>1
    <3>3. CASE /\ i \in T!Ids /\ topics'[i].count = topics[i].count + 1
               /\ w \in Talkers /\ MayCount(r) + 1 <= MayCount(work[w])
      <4> DEFINE n == topics[i].count
                 was == Left
                 is == Left'
                 most == Checkpoint + story.turns
      <4>1. /\ n \in Nat /\ n + was <= most /\ is + 1 <= was /\ topics'[i].count = n + 1
            /\ was \in Nat /\ is \in Nat /\ most \in Nat
        BY <1>2, <1>4, <1>5, <2>1, <3>3, <3>4
      <4> HIDE DEF n, was, is, most
      <4>2. n + 1 \in Nat /\ n + 1 + is <= most
        BY <4>1
      <4> QED BY <4>1, <4>2 DEF is, most
    <3> QED BY <3>1, <3>2, <3>3
  <2> QED BY <2>2, <2>3
<1>8. Counted'
  BY <1>2, <1>7 DEF Counted
<1>9. \A v \in T!Workers : work'[v].seen \subseteq T!Ids' /\ work'[v].pc \in PlacesOf(v)
  BY <1>1, <1>2
<1> QED BY <1>2, <1>8, <1>9 DEF TopicsBounded, PlacesOf

LEMMA Places ==
  /\ \A w \in Talkers : PlacesOf(w) = TopicSteps /\ w \in T!Workers
  /\ PlacesOf("web") = {"idle", "pause"} /\ PlacesOf("maintenance") = {"idle", "scrub"}
  /\ \A w \in T!Workers : "idle" \in PlacesOf(w) /\ (w \notin Talkers => w \in {"web", "maintenance"})
  /\ T!Idle.pc = "idle" /\ T!Idle.seen = {} /\ MayCount(T!Idle) = 0
BY DEF PlacesOf, Talkers, T!Workers, TopicSteps, T!Idle, MayCount

(* Whoever is at a step of a turn is the handler or the retry loop.           *)
LEMMA IsTalker ==
  ASSUME TopicsBounded, NEW w \in T!Workers, work[w].pc \notin {"idle", "pause", "scrub"}
  PROVE  w \in Talkers
BY Places DEF TopicsBounded

(* What a step spends: a turn, or nothing that counts.                        *)
LEMMA TurnSpent ==
  ASSUME TopicsBounded, budget.turns > 0, budget' = [budget EXCEPT !.turns = @ - 1]
  PROVE  /\ DOMAIN budget' = DOMAIN budget /\ budget'.turns = budget.turns - 1
         /\ budget'.turns \in Nat
<1>1. DOMAIN budget = {"turns", "faults", "ages"} /\ budget.turns \in Nat
  BY DEF TopicsBounded, Counted
<1>2. DOMAIN budget' = DOMAIN budget /\ budget'.turns = budget.turns - 1
  BY <1>1
<1> QED BY <1>1, <1>2

LEMMA NoTurnSpent ==
  ASSUME TopicsBounded,
         \/ budget' = budget
         \/ budget' = [budget EXCEPT !.faults = @ - 1]
         \/ budget' = [budget EXCEPT !.ages = @ - 1]
  PROVE  /\ DOMAIN budget' = DOMAIN budget /\ budget'.turns = budget.turns - 0
         /\ budget'.turns \in Nat
<1>1. DOMAIN budget = {"turns", "faults", "ages"} /\ budget.turns \in Nat
  BY DEF TopicsBounded, Counted
<1>2. DOMAIN budget' = DOMAIN budget /\ budget'.turns = budget.turns
  BY <1>1
<1> QED BY <1>1, <1>2

LEMMA SameLength ==
  ASSUME NEW C, TopicsTyped(C), topics' = [i \in T!Ids |-> topics'[i]]
  PROVE  Len(topics') = Len(topics) /\ T!Ids' = T!Ids
<1> DEFINE n == Len(topics)
           t == topics'
           X == {t[i] : i \in T!Ids}
<1>1. n \in Nat /\ T!Ids = 1 .. n
  BY TopicAt
<1>2. t = [i \in 1 .. n |-> t[i]] /\ \A i \in 1 .. n : t[i] \in X
  BY <1>1
<1>3. Len(t) = n
  <2> HIDE DEF n, t, X
  <2> QED BY <1>1, <1>2, AsSequence
<1> QED BY <1>1, <1>3 DEF T!Ids

LEMMA RowCounts ==
  ASSUME NEW C, TopicsTyped(C), NEW i, NEW r, topics' = [topics EXCEPT ![i] = r]
  PROVE  /\ Len(topics') = Len(topics) /\ T!Ids' = T!Ids
         /\ \A j \in T!Ids : topics'[j] = IF j = i THEN r ELSE topics[j]
<1>1. /\ topics' = [j \in T!Ids |-> topics'[j]]
      /\ \A j \in T!Ids : topics'[j] = IF j = i THEN r ELSE topics[j]
  BY TopicAt
<1> QED BY <1>1, SameLength

LEMMA PausedCounts ==
  ASSUME NEW C, TopicsTyped(C), NEW X
  PROVE  \A i \in T!Ids : T!Paused(topics, X)[i].count = topics[i].count
<1> SUFFICES ASSUME NEW i \in T!Ids PROVE T!Paused(topics, X)[i].count = topics[i].count
  OBVIOUS
<1>1. topics[i] \in TopicType(C) /\ i \in DOMAIN topics
  BY TopicAt
<1>2. [topics[i] EXCEPT !.status = "paused"].count = topics[i].count
  BY <1>1 DEF TopicType
<1> QED BY <1>1, <1>2 DEF T!Paused
-----------------------------------------------------------------------------
(* One worker goes on and no row changes.                                     *)
LEMMA TalkGoesOn ==
  ASSUME TopicsInv, TopicsBounded, NEW w \in T!Workers, NEW r, work' = [work EXCEPT ![w] = r],
         UNCHANGED <<story, topics>>, DOMAIN budget' = DOMAIN budget,
         r.seen \subseteq T!Ids, r.pc \in PlacesOf(w),
         NEW d \in {0, 1}, budget'.turns = budget.turns - d, budget'.turns \in Nat,
         w \in Talkers => MayCount(r) <= MayCount(work[w]) + d
  PROVE  TopicsBounded'
<1>1. T!Ids' = T!Ids /\ Len(topics') <= MaxTopics
  BY DEF T!Ids, TopicsBounded
<1>2. \A i \in T!Ids' : i \in T!Ids /\ topics'[i].count = topics[i].count
  BY <1>1
<1>3. T!Ids \subseteq T!Ids' /\ r.seen \subseteq T!Ids'
  BY <1>1
<1> HIDE DEF TopicsInv, TopicsBounded
<1> QED BY <1>1, <1>2, <1>3, BoundedGoesOn

(* One worker goes on and the rows stay as many.                              *)
LEMMA RowsGoOn ==
  ASSUME TopicsInv, TopicsBounded, NEW w \in T!Workers, NEW r, work' = [work EXCEPT ![w] = r],
         UNCHANGED story, UNCHANGED budget, Len(topics') = Len(topics), T!Ids' = T!Ids,
         r.seen \subseteq T!Ids, r.pc \in PlacesOf(w),
         w \in Talkers => MayCount(r) <= MayCount(work[w]),
         \A i \in T!Ids :
           \/ topics'[i].count = 0
           \/ topics'[i].count = topics[i].count
           \/ /\ topics'[i].count = topics[i].count + 1
              /\ w \in Talkers /\ MayCount(r) + 1 <= MayCount(work[w])
  PROVE  TopicsBounded'
<1>1. Len(topics') <= MaxTopics
  BY DEF TopicsBounded
<1>2. /\ DOMAIN budget' = DOMAIN budget /\ budget'.turns = budget.turns - 0
      /\ budget'.turns \in Nat
  BY NoTurnSpent
<1>3. w \in Talkers => MayCount(r) <= MayCount(work[w]) + 0
  BY LeftBounds
<1>4. 0 \in {0, 1}
  OBVIOUS
<1> HIDE DEF TopicsInv, TopicsBounded
<1> QED BY <1>1, <1>2, <1>3, <1>4, BoundedGoesOn
-----------------------------------------------------------------------------
LEMMA BeginTurnBounded ==
  ASSUME TopicsInv, TopicsBounded, NEW w \in T!Workers, T!BeginTurn(w)
  PROVE  TopicsBounded'
<1> DEFINE n == IF T!ActiveTopic = 0 THEN 0 ELSE topics[T!ActiveTopic].count
           c == T!ActiveTopic
           r == [T!Idle EXCEPT !.pc = "thinking", !.current = c, !.count = n]
<1>1. /\ work' = [work EXCEPT ![w] = r] /\ UNCHANGED <<story, topics>>
      /\ budget.turns > 0 /\ budget' = [budget EXCEPT !.turns = @ - 1] /\ w \in Talkers
  BY DEF T!BeginTurn, Talkers
<1>2. r.pc = "thinking" /\ r.seen = {}
  BY DEF T!Idle
<1>3. r.pc \in PlacesOf(w) /\ r.seen \subseteq T!Ids
  BY <1>1, <1>2, Places DEF TopicSteps
<1>4. /\ DOMAIN budget' = DOMAIN budget /\ budget'.turns = budget.turns - 1
      /\ budget'.turns \in Nat
  BY <1>1, TurnSpent
<1> HIDE DEF r
<1>5. MayCount(r) <= MayCount(work[w]) + 1 /\ 1 \in {0, 1}
  <2>1. MayCount(r) \in {0, 1} /\ MayCount(work[w]) \in {0, 1}
    BY LeftBounds
  <2> QED BY <2>1
<1> HIDE DEF TopicsInv, TopicsBounded
<1> QED BY <1>1, <1>3, <1>4, <1>5, TalkGoesOn

LEMMA DoneBounded ==
  ASSUME TopicsInv, TopicsBounded, NEW w \in T!Workers, T!Done(w), UNCHANGED <<story, topics>>,
         budget' = budget \/ budget' = [budget EXCEPT !.faults = @ - 1]
  PROVE  TopicsBounded'
<1>1. work' = [work EXCEPT ![w] = T!Idle]
  BY DEF T!Done
<1>2. T!Idle.pc \in PlacesOf(w) /\ T!Idle.seen \subseteq T!Ids
  BY Places
<1>3. MayCount(T!Idle) <= MayCount(work[w]) + 0 /\ 0 \in {0, 1}
  BY Places, LeftBounds
<1>4. /\ DOMAIN budget' = DOMAIN budget /\ budget'.turns = budget.turns - 0
      /\ budget'.turns \in Nat
  BY NoTurnSpent
<1> HIDE DEF TopicsInv, TopicsBounded
<1> QED BY <1>1, <1>2, <1>3, <1>4, TalkGoesOn

LEMMA AnswerBounded ==
  ASSUME TopicsInv, TopicsBounded, NEW w \in T!Workers, T!Answer(w)
  PROVE  TopicsBounded'
<1>1. PICK d \in story.directives :
        LET n == T!normalizeTopicDirective(d, T!ActiveTopic # 0)
        IN work' = [work EXCEPT
             ![w].dir = n, ![w].topic = T!ActiveTopic,
             ![w].text = T!ActiveTopic # 0 /\ topics[T!ActiveTopic].text,
             ![w].pc = IF n.mode = "none" THEN "pause"
                       ELSE IF n.mode = "resolve" THEN "commit" ELSE "begin"]
  BY DEF T!Answer
<1> DEFINE n == T!normalizeTopicDirective(d, T!ActiveTopic # 0)
           c == T!ActiveTopic
           x == T!ActiveTopic # 0 /\ topics[T!ActiveTopic].text
           pc == IF n.mode = "none" THEN "pause"
                 ELSE IF n.mode = "resolve" THEN "commit" ELSE "begin"
           r == [work[w] EXCEPT !.dir = n, !.topic = c, !.text = x, !.pc = pc]
<1>2. PICK C : TopicsTyped(C)
  BY DEF TopicsInv
<1>3. work' = [work EXCEPT ![w] = r] /\ work[w] \in StepType(C)
  BY <1>1, <1>2, TopicAt DEF TopicsTyped, StepType
<1>4. pc \in {"pause", "commit", "begin"}
  OBVIOUS
<1> HIDE DEF n, c, x, pc
<1>5. r.pc = pc /\ r.seen = work[w].seen
  BY <1>3 DEF StepType
<1>6. work[w].pc = "thinking" /\ UNCHANGED <<story, topics, budget>>
  BY DEF T!Answer
<1>7. w \in Talkers /\ work[w].seen \subseteq T!Ids
  BY <1>6, IsTalker DEF TopicsBounded
<1>8. MayCount(work[w]) = 1
  BY <1>6 DEF MayCount
<1> HIDE DEF r
<1>9. r.pc \in PlacesOf(w) /\ r.seen \subseteq T!Ids
  BY <1>4, <1>5, <1>7, Places DEF TopicSteps
<1>10. MayCount(r) <= MayCount(work[w]) + 0 /\ 0 \in {0, 1}
  BY <1>8, LeftBounds
<1>11. /\ DOMAIN budget' = DOMAIN budget /\ budget'.turns = budget.turns - 0
       /\ budget'.turns \in Nat
  BY <1>6, NoTurnSpent
<1> HIDE DEF TopicsInv, TopicsBounded
<1> QED BY <1>3, <1>6, <1>9, <1>10, <1>11, TalkGoesOn

LEMMA FailsBounded ==
  ASSUME TopicsInv, TopicsBounded, NEW w \in T!Workers, T!TopicFails(w)
  PROVE  TopicsBounded'
<1> DEFINE pc == IF work[w].current = 0 THEN "idle" ELSE "count"
           r == [work[w] EXCEPT !.topic = work[w].current, !.pc = pc, !.overlapped = FALSE,
                                !.seen = {}]
<1>1. PICK C : TopicsTyped(C)
  BY DEF TopicsInv
<1>2. work[w] \in StepType(C)
  BY <1>1, TopicAt
<1>3. /\ work' = [work EXCEPT ![w] = r] /\ UNCHANGED <<story, topics>> /\ w \in Talkers
      /\ work[w].pc \in {"begin", "commit", "pause"}
      /\ budget' = [budget EXCEPT !.faults = @ - 1]
  BY <1>1 DEF T!TopicFails, T!Fault, TopicsTyped, StepType, Talkers
<1>4. pc \in {"idle", "count"}
  OBVIOUS
<1> HIDE DEF pc
<1>5. r.pc = pc /\ r.seen = {}
  BY <1>2 DEF StepType
<1> HIDE DEF r
<1>6. r.pc \in PlacesOf(w) /\ r.seen \subseteq T!Ids
  BY <1>3, <1>4, <1>5, Places DEF TopicSteps
<1>7. MayCount(work[w]) = 1
  BY <1>3 DEF MayCount
<1>8. MayCount(r) <= MayCount(work[w]) + 0 /\ 0 \in {0, 1}
  BY <1>7, LeftBounds
<1>9. /\ DOMAIN budget' = DOMAIN budget /\ budget'.turns = budget.turns - 0
      /\ budget'.turns \in Nat
  BY <1>3, NoTurnSpent
<1> HIDE DEF TopicsInv, TopicsBounded
<1> QED BY <1>3, <1>6, <1>8, <1>9, TalkGoesOn

(* A count goes up by one at most, and the turn that raised it is over.       *)
LEMMA CountBounded ==
  ASSUME TopicsInv, TopicsBounded, NEW w \in T!Workers, T!Count(w)
  PROVE  TopicsBounded'
<1> DEFINE i == work[w].topic
           n == T!CountOf(topics[i], work[w].dir.asked)
           entry == [topics[i] EXCEPT !.count = n]
           there == [work[w] EXCEPT !.pc = "reset"]
<1>1. PICK C : TopicsTyped(C)
  BY DEF TopicsInv
<1>2. /\ work[w] \in StepType(C) /\ work[w].pc = "count" /\ UNCHANGED <<story, budget>>
      /\ i \in T!Ids => topics[i] \in TopicType(C)
  BY <1>1, TopicAt DEF T!Count
<1>3. n = 0 \/ n = topics[i].count + 1
  BY DEF T!CountOf
<1>4. topics' = [topics EXCEPT ![i] = entry]
  <2>1. topics' = [topics EXCEPT ![i].count = n]
    BY DEF T!Count
  <2> HIDE DEF n, i
  <2> QED BY <2>1
<1>5. \/ work' = [work EXCEPT ![w] = T!Idle]
      \/ work' = [work EXCEPT ![w] = there]
  BY <1>1 DEF T!Count, TopicsTyped
<1>6. there.pc = "reset" /\ there.seen = work[w].seen
  BY <1>2 DEF StepType
<1>7. w \in Talkers /\ work[w].seen \subseteq T!Ids
  BY <1>2, IsTalker DEF TopicsBounded
<1> DEFINE r == IF work' = [work EXCEPT ![w] = T!Idle] THEN T!Idle ELSE there
<1>8. r.pc \in {"idle", "reset"} /\ r.seen \subseteq T!Ids /\ work' = [work EXCEPT ![w] = r]
  BY <1>5, <1>6, <1>7, Places
<1>9. MayCount(work[w]) = 1 /\ MayCount(r) = 0
  BY <1>2, <1>8 DEF MayCount
<1>10. MayCount(r) <= MayCount(work[w]) /\ MayCount(r) + 1 <= MayCount(work[w])
  BY <1>9
<1>11. r.pc \in PlacesOf(w)
  BY <1>7, <1>8, Places DEF TopicSteps
<1>12. i \in T!Ids => entry.count = n
  BY <1>2 DEF TopicType
<1> HIDE DEF entry, there, i, n, r
<1>13. /\ Len(topics') = Len(topics) /\ T!Ids' = T!Ids
       /\ \A j \in T!Ids : topics'[j] = IF j = i THEN entry ELSE topics[j]
  BY <1>1, <1>4, RowCounts
<1>14. \A j \in T!Ids : \/ topics'[j].count = 0
                        \/ topics'[j].count = topics[j].count
                        \/ /\ topics'[j].count = topics[j].count + 1
                           /\ w \in Talkers /\ MayCount(r) + 1 <= MayCount(work[w])
  BY <1>3, <1>7, <1>10, <1>12, <1>13
<1> HIDE DEF TopicsInv, TopicsBounded
<1> QED BY <1>2, <1>8, <1>10, <1>11, <1>13, <1>14, RowsGoOn

LEMMA CountFailsBounded ==
  ASSUME TopicsInv, TopicsBounded, NEW w \in T!Workers, T!CountFails(w)
  PROVE  TopicsBounded'
<1> DEFINE there == [work[w] EXCEPT !.pc = "reset"]
           r == IF work' = [work EXCEPT ![w] = T!Idle] THEN T!Idle ELSE there
<1>1. PICK C : TopicsTyped(C)
  BY DEF TopicsInv
<1>2. /\ work[w] \in StepType(C) /\ work[w].pc = "count" /\ UNCHANGED <<story, topics>>
      /\ budget' = [budget EXCEPT !.faults = @ - 1]
      /\ \/ work' = [work EXCEPT ![w] = T!Idle]
         \/ work' = [work EXCEPT ![w] = there]
  BY <1>1, TopicAt DEF T!CountFails, T!Fault, TopicsTyped
<1>3. there.pc = "reset" /\ there.seen = work[w].seen
  BY <1>2 DEF StepType
<1>4. w \in Talkers /\ work[w].seen \subseteq T!Ids
  BY <1>2, IsTalker DEF TopicsBounded
<1>5. r.pc \in {"idle", "reset"} /\ r.seen \subseteq T!Ids /\ work' = [work EXCEPT ![w] = r]
  BY <1>2, <1>3, <1>4, Places
<1>6. MayCount(r) = 0
  BY <1>5 DEF MayCount
<1>7. MayCount(r) <= MayCount(work[w]) + 0 /\ 0 \in {0, 1}
  BY <1>6, LeftBounds
<1>8. r.pc \in PlacesOf(w)
  BY <1>4, <1>5, Places DEF TopicSteps
<1>9. /\ DOMAIN budget' = DOMAIN budget /\ budget'.turns = budget.turns - 0
      /\ budget'.turns \in Nat
  BY <1>2, NoTurnSpent
<1> HIDE DEF there, r, TopicsInv, TopicsBounded
<1> QED BY <1>2, <1>5, <1>7, <1>8, <1>9, TalkGoesOn

LEMMA ResetBounded ==
  ASSUME TopicsInv, TopicsBounded, NEW w \in T!Workers, T!Reset(w)
  PROVE  TopicsBounded'
<1>1. CASE topics' = topics
  BY <1>1, DoneBounded DEF T!Reset, T!Fault
<1>2. CASE topics' # topics
  <2> DEFINE i == work[w].topic
             entry == [topics[i] EXCEPT !.count = 0]
  <2>1. PICK C : TopicsTyped(C)
    BY DEF TopicsInv
  <2>2. i \in T!Ids => entry.count = 0
    BY <2>1, TopicAt DEF TopicType
  <2>3. /\ topics' = [topics EXCEPT ![i] = entry] /\ UNCHANGED story /\ UNCHANGED budget
        /\ work' = [work EXCEPT ![w] = T!Idle]
    BY <1>2 DEF T!Reset, T!Done
  <2>4. /\ T!Idle.pc \in PlacesOf(w) /\ T!Idle.seen \subseteq T!Ids
        /\ MayCount(T!Idle) <= MayCount(work[w])
    BY Places, LeftBounds
  <2> HIDE DEF i, entry
  <2>5. /\ Len(topics') = Len(topics) /\ T!Ids' = T!Ids
        /\ \A j \in T!Ids : topics'[j] = IF j = i THEN entry ELSE topics[j]
    BY <2>1, <2>3, RowCounts
  <2>6. \A j \in T!Ids : topics'[j].count = 0 \/ topics'[j].count = topics[j].count
    BY <2>2, <2>5
  <2> HIDE DEF TopicsInv, TopicsBounded
  <2> QED BY <2>3, <2>4, <2>5, <2>6, RowsGoOn
<1> QED BY <1>1, <1>2

LEMMA ResolveBounded ==
  ASSUME TopicsInv, TopicsBounded, NEW w \in T!Workers, T!ResolveTopic(w)
  PROVE  TopicsBounded'
<1>1. CASE topics' = topics
  BY <1>1, DoneBounded DEF T!ResolveTopic
<1>2. CASE topics' # topics
  <2> DEFINE i == work[w].topic
             at == T!Latest + 1
             entry == [topics[i] EXCEPT !.status = "resolved", !.count = 0, !.at = at]
  <2>1. PICK C : TopicsTyped(C)
    BY DEF TopicsInv
  <2>2. i \in T!Ids => entry.count = 0
    <3> HIDE DEF at
    <3> QED BY <2>1, TopicAt DEF TopicType
  <2>3. /\ topics' = [topics EXCEPT ![i] = entry] /\ UNCHANGED story /\ UNCHANGED budget
        /\ work' = [work EXCEPT ![w] = T!Idle]
    BY <1>2 DEF T!ResolveTopic, T!Done
  <2>4. /\ T!Idle.pc \in PlacesOf(w) /\ T!Idle.seen \subseteq T!Ids
        /\ MayCount(T!Idle) <= MayCount(work[w])
    BY Places, LeftBounds
  <2> HIDE DEF i, entry
  <2>5. /\ Len(topics') = Len(topics) /\ T!Ids' = T!Ids
        /\ \A j \in T!Ids : topics'[j] = IF j = i THEN entry ELSE topics[j]
    BY <2>1, <2>3, RowCounts
  <2>6. \A j \in T!Ids : topics'[j].count = 0 \/ topics'[j].count = topics[j].count
    BY <2>2, <2>5
  <2> HIDE DEF TopicsInv, TopicsBounded
  <2> QED BY <2>3, <2>4, <2>5, <2>6, RowsGoOn
<1> QED BY <1>1, <1>2

LEMMA PauseBounded ==
  ASSUME TopicsInv, TopicsBounded, NEW w \in T!Workers, T!PauseActive(w)
  PROVE  TopicsBounded'
<1>1. PICK C : TopicsTyped(C)
  BY DEF TopicsInv
<1>2. /\ topics' = T!Paused(topics, T!Active) /\ UNCHANGED story /\ UNCHANGED budget
      /\ work' = [work EXCEPT ![w] = T!Idle]
  BY DEF T!PauseActive, T!Done
<1>3. Len(topics') = Len(topics)
  BY <1>1, <1>2, PausedRows
<1>4. T!Ids' = T!Ids
  BY <1>3 DEF T!Ids
<1>5. \A i \in T!Ids : topics'[i].count = topics[i].count
  BY <1>1, <1>2, PausedCounts
<1>6. /\ T!Idle.pc \in PlacesOf(w) /\ T!Idle.seen \subseteq T!Ids
      /\ MayCount(T!Idle) <= MayCount(work[w])
  BY Places, LeftBounds
<1> HIDE DEF TopicsInv, TopicsBounded
<1> QED BY <1>2, <1>3, <1>4, <1>5, <1>6, RowsGoOn

LEMMA AskBounded ==
  ASSUME TopicsInv, TopicsBounded, NEW w \in T!Workers, T!AskToEnd(w) \/ T!AskToPause(w)
  PROVE  TopicsBounded'
<1> DEFINE c == T!ActiveTopic
           r == IF T!AskToEnd(w) THEN [T!Idle EXCEPT !.pc = "resolve", !.topic = c]
                ELSE [T!Idle EXCEPT !.pc = "pause", !.told = TRUE]
<1>1. /\ work' = [work EXCEPT ![w] = r] /\ UNCHANGED <<story, topics>>
      /\ budget.turns > 0 /\ budget' = [budget EXCEPT !.turns = @ - 1]
  BY DEF T!AskToEnd, T!AskToPause
<1>2. /\ r.seen = {} /\ r.pc \in {"resolve", "pause"}
      /\ w = "handler" \/ (w = "web" /\ r.pc = "pause")
  BY DEF T!AskToEnd, T!AskToPause, T!Idle
<1> HIDE DEF r
<1>3. r.pc \in PlacesOf(w) /\ r.seen \subseteq T!Ids
  BY <1>2, Places DEF TopicSteps, Talkers
<1>4. MayCount(r) <= MayCount(work[w]) + 1 /\ 1 \in {0, 1}
  <2>1. MayCount(r) \in {0, 1} /\ MayCount(work[w]) \in {0, 1}
    BY LeftBounds
  <2> QED BY <2>1
<1>5. /\ DOMAIN budget' = DOMAIN budget /\ budget'.turns = budget.turns - 1
      /\ budget'.turns \in Nat
  BY <1>1, TurnSpent
<1> HIDE DEF TopicsInv, TopicsBounded
<1> QED BY <1>1, <1>3, <1>4, <1>5, TalkGoesOn

LEMMA ProfileBounded ==
  ASSUME TopicsInv, TopicsBounded, T!StartProfile
  PROVE  TopicsBounded'
<1> DEFINE w == "handler"
           r == [T!Idle EXCEPT !.pc = "begin", !.told = TRUE,
                   !.dir = [T!NoDirective EXCEPT !.mode = "new"]]
<1>1. /\ work' = [work EXCEPT ![w] = r] /\ UNCHANGED <<story, topics>>
      /\ budget.turns > 0 /\ budget' = [budget EXCEPT !.turns = @ - 1]
  BY DEF T!StartProfile
<1>2. r.seen = {} /\ r.pc = "begin"
  BY DEF T!Idle
<1> HIDE DEF r
<1>3. r.pc \in PlacesOf(w) /\ r.seen \subseteq T!Ids /\ w \in T!Workers
  BY <1>2, Places DEF TopicSteps, Talkers
<1>4. MayCount(r) <= MayCount(work[w]) + 1 /\ 1 \in {0, 1}
  <2>1. MayCount(r) \in {0, 1} /\ MayCount(work[w]) \in {0, 1}
    BY LeftBounds
  <2> QED BY <2>1
<1>5. /\ DOMAIN budget' = DOMAIN budget /\ budget'.turns = budget.turns - 1
      /\ budget'.turns \in Nat
  BY <1>1, TurnSpent
<1> HIDE DEF w, TopicsInv, TopicsBounded
<1> QED BY <1>1, <1>3, <1>4, <1>5, TalkGoesOn

LEMMA AgeBounded ==
  ASSUME TopicsInv, TopicsBounded, NEW i \in T!Ids, T!Age(i)
  PROVE  TopicsBounded'
<1> DEFINE entry == [topics[i] EXCEPT !.fresh = FALSE]
           w == "handler"
           r == work[w]
<1>1. PICK C : TopicsTyped(C)
  BY DEF TopicsInv
<1>2. entry.count = topics[i].count
  BY <1>1, TopicAt DEF TopicType
<1>3. /\ topics' = [topics EXCEPT ![i] = entry] /\ story' = story /\ work' = work
      /\ budget' = [budget EXCEPT !.ages = @ - 1]
  BY DEF T!Age
<1>4. work' = [work EXCEPT ![w] = r] /\ w \in T!Workers
  BY <1>1, <1>3, Places DEF TopicsTyped, Talkers
<1>5. r.pc \in PlacesOf(w) /\ r.seen \subseteq T!Ids /\ Len(topics) <= MaxTopics
  BY <1>4 DEF TopicsBounded
<1>6. MayCount(r) <= MayCount(work[w]) + 0 /\ 0 \in {0, 1}
  BY LeftBounds
<1>7. /\ DOMAIN budget' = DOMAIN budget /\ budget'.turns = budget.turns - 0
      /\ budget'.turns \in Nat
  BY <1>3, NoTurnSpent
<1> HIDE DEF entry, w, r
<1>8. /\ Len(topics') = Len(topics) /\ T!Ids' = T!Ids
      /\ \A j \in T!Ids : topics'[j] = IF j = i THEN entry ELSE topics[j]
  BY <1>1, <1>3, RowCounts
<1>9. \A j \in T!Ids' : j \in T!Ids /\ topics'[j].count = topics[j].count
  BY <1>2, <1>8
<1>10. Len(topics') <= MaxTopics /\ T!Ids \subseteq T!Ids' /\ r.seen \subseteq T!Ids'
  BY <1>5, <1>8
<1> HIDE DEF TopicsInv, TopicsBounded
<1> QED BY <1>3, <1>4, <1>5, <1>6, <1>7, <1>9, <1>10, BoundedGoesOn

LEMMA ScrubReadBounded ==
  ASSUME TopicsInv, TopicsBounded, T!ScrubRead
  PROVE  TopicsBounded'
<1> DEFINE w == "maintenance"
           seen == T!Expired
           r == [T!Idle EXCEPT !.pc = "scrub", !.seen = seen]
<1>1. /\ work' = [work EXCEPT ![w] = r] /\ UNCHANGED <<story, topics>> /\ budget' = budget
      /\ w \in T!Workers /\ w \notin Talkers
  BY DEF T!ScrubRead, T!Workers, Talkers
<1>2. seen \subseteq T!Ids
  BY DEF T!Expired
<1>3. r.seen = seen /\ r.pc = "scrub"
  <2> HIDE DEF seen
  <2> QED BY DEF T!Idle
<1> HIDE DEF r
<1>4. r.pc \in PlacesOf(w) /\ r.seen \subseteq T!Ids
  BY <1>2, <1>3, Places
<1>5. /\ DOMAIN budget' = DOMAIN budget /\ budget'.turns = budget.turns - 0
      /\ budget'.turns \in Nat /\ 0 \in {0, 1}
  BY <1>1, NoTurnSpent
<1> HIDE DEF w, TopicsInv, TopicsBounded
<1> QED BY <1>1, <1>4, <1>5, TalkGoesOn

LEMMA ScrubWriteBounded ==
  ASSUME TopicsInv, TopicsBounded, T!ScrubWrite
  PROVE  TopicsBounded'
<1> DEFINE w == "maintenance"
           seen == work[w].seen
           entry(i) == [topics[i] EXCEPT !.status = "abandoned", !.text = FALSE]
<1>1. PICK C : TopicsTyped(C)
  BY DEF TopicsInv
<1>2. /\ topics' = [i \in T!Ids |-> IF i \in seen THEN entry(i) ELSE topics[i]]
      /\ work' = [work EXCEPT ![w] = T!Idle] /\ w \in T!Workers /\ w \notin Talkers
      /\ UNCHANGED story /\ UNCHANGED budget
  BY DEF T!ScrubWrite, T!Done, T!Workers, Talkers
<1>3. \A i \in T!Ids : entry(i).count = topics[i].count
  BY <1>1, TopicAt DEF TopicType
<1> HIDE DEF entry, seen
<1>4. topics' = [i \in T!Ids |-> topics'[i]] /\ \A i \in T!Ids : topics'[i].count = topics[i].count
  BY <1>2, <1>3
<1>5. Len(topics') = Len(topics) /\ T!Ids' = T!Ids
  BY <1>1, <1>4, SameLength
<1>6. T!Idle.pc \in PlacesOf(w) /\ T!Idle.seen \subseteq T!Ids
  BY Places
<1> HIDE DEF w, TopicsInv, TopicsBounded
<1> QED BY <1>2, <1>4, <1>5, <1>6, RowsGoOn

LEMMA CreateBounded ==
  ASSUME TopicsInv, TopicsBounded, NEW w \in T!Workers, T!CreateTopic(w)
  PROVE  TopicsBounded'
<1> DEFINE at == T!Latest + 1
           entry == [status |-> "active", text |-> TRUE, fresh |-> TRUE, count |-> 0, at |-> at]
           t == T!Paused(topics, work[w].seen)
           n == Len(topics) + 1
           there == [work[w] EXCEPT !.pc = "count", !.topic = n]
           r == IF work' = [work EXCEPT ![w] = T!Idle] THEN T!Idle ELSE there
<1>1. PICK C : TopicsTyped(C)
  BY DEF TopicsInv
<1>2. /\ topics' = Append(t, entry) /\ UNCHANGED <<story, budget>>
      /\ work[w].pc = "commit" /\ Len(topics) < MaxTopics
      /\ \/ work' = [work EXCEPT ![w] = T!Idle]
         \/ work' = [work EXCEPT ![w] = there]
  BY <1>1 DEF T!CreateTopic, TopicsTyped
<1>3. Len(topics) \in Nat /\ T!Ids = 1 .. Len(topics) /\ work[w] \in StepType(C)
  BY <1>1, TopicAt
<1>4. /\ t \in Seq(TopicType(C)) /\ Len(t) = Len(topics)
      /\ \A i \in T!Ids : t[i].count = topics[i].count
  BY <1>1, PausedRows, PausedCounts
<1>5. entry.count = 0
  OBVIOUS
<1>6. there.pc = "count" /\ there.seen = work[w].seen
  <2> HIDE DEF n
  <2> QED BY <1>3 DEF StepType
<1>7. w \in Talkers /\ work[w].seen \subseteq T!Ids
  BY <1>2, IsTalker DEF TopicsBounded
<1>8. r.pc \in {"idle", "count"} /\ r.seen \subseteq T!Ids /\ work' = [work EXCEPT ![w] = r]
  BY <1>2, <1>6, <1>7, Places
<1>9. r.pc \in PlacesOf(w)
  BY <1>7, <1>8, Places DEF TopicSteps
<1>10. MayCount(work[w]) = 1
  BY <1>2 DEF MayCount
<1>11. MayCount(r) <= MayCount(work[w]) + 0 /\ 0 \in {0, 1}
  BY <1>10, LeftBounds
<1> HIDE DEF entry, t, there, r, at
<1>12. /\ Len(topics') = n /\ topics'[n].count = 0
       /\ \A i \in T!Ids : topics'[i] = t[i]
  <2>1. /\ Len(topics') = Len(t) + 1 /\ topics'[Len(t) + 1] = entry
        /\ \A i \in 1 .. Len(t) : topics'[i] = t[i]
    <3>1. t \in Seq(TopicType(C) \cup {entry}) /\ entry \in TopicType(C) \cup {entry}
      BY <1>4, SeqWider
    <3> QED BY <1>2, <3>1
  <2> QED BY <1>3, <1>4, <1>5, <2>1
<1>13. T!Ids' = 1 .. n /\ n \in Nat /\ n <= MaxTopics
  BY <1>2, <1>3, <1>12, LeftBounds DEF T!Ids
<1>14. \A i \in T!Ids' : \/ topics'[i].count = 0
                         \/ i \in T!Ids /\ topics'[i].count = topics[i].count
  <2>1. \A i \in T!Ids' : i = n \/ i \in T!Ids
    BY <1>3, <1>13
  <2> QED BY <1>4, <1>12, <2>1
<1>15. T!Ids \subseteq T!Ids' /\ r.seen \subseteq T!Ids' /\ Len(topics') <= MaxTopics
  BY <1>3, <1>8, <1>12, <1>13
<1>16. /\ DOMAIN budget' = DOMAIN budget /\ budget'.turns = budget.turns - 0
       /\ budget'.turns \in Nat
  BY <1>2, NoTurnSpent
<1> HIDE DEF TopicsInv, TopicsBounded, n
<1> QED BY <1>2, <1>8, <1>9, <1>11, <1>14, <1>15, <1>16, BoundedGoesOn

LEMMA UpdateBounded ==
  ASSUME TopicsInv, TopicsBounded, NEW w \in T!Workers, T!UpdateTopic(w)
  PROVE  TopicsBounded'
<1> DEFINE at == T!Latest + 1
           l == work[w]
           i == l.topic
           x == l.dir.title \/ l.dir.summary \/ l.text
           status == IF l.dir.mode = "resolve" THEN "resolved" ELSE "active"
           t == T!Paused(topics, l.seen)
           entry == [t[i] EXCEPT !.status = status, !.text = x, !.fresh = TRUE, !.at = at]
           r == [l EXCEPT !.pc = "count"]
<1>1. PICK C : TopicsTyped(C)
  BY DEF TopicsInv
<1>2. /\ topics' = [t EXCEPT ![i] = entry] /\ UNCHANGED story /\ UNCHANGED budget
      /\ l.pc = "commit"
  BY DEF T!UpdateTopic, T!Continued
<1>3. work' = [work EXCEPT ![w] = r]
  BY <1>1 DEF T!UpdateTopic, T!Goto, TopicsTyped
<1>4. l \in StepType(C) /\ T!Ids = 1 .. Len(topics) /\ Len(topics) \in Nat
  BY <1>1, TopicAt
<1>5. r.pc = "count" /\ r.seen = l.seen
  BY <1>4 DEF StepType
<1>6. /\ t \in Seq(TopicType(C)) /\ Len(t) = Len(topics)
      /\ \A j \in T!Ids : t[j] \in TopicType(C) /\ t[j].count = topics[j].count
  BY <1>1, PausedRows, PausedCounts
<1>7. i \in T!Ids => entry.count = topics[i].count
  <2> HIDE DEF t, at, x, i, status
  <2> QED BY <1>6 DEF TopicType
<1>8. w \in Talkers /\ l.seen \subseteq T!Ids
  BY <1>2, IsTalker DEF TopicsBounded
<1>9. MayCount(l) = 1
  BY <1>2 DEF MayCount
<1> HIDE DEF t, entry, r, at, x, i
<1>10. /\ topics' = [j \in T!Ids |-> topics'[j]]
       /\ \A j \in T!Ids : topics'[j] = IF j = i THEN entry ELSE t[j]
  <2>1. DOMAIN t = 1 .. Len(t)
    BY <1>6
  <2>2. DOMAIN t = T!Ids
    BY <1>4, <1>6, <2>1
  <2> QED BY <1>2, <2>2
<1>11. Len(topics') = Len(topics) /\ T!Ids' = T!Ids
  BY <1>1, <1>10, SameLength
<1>12. \A j \in T!Ids : topics'[j].count = topics[j].count
  BY <1>6, <1>7, <1>10
<1>13. r.pc \in PlacesOf(w) /\ r.seen \subseteq T!Ids
  BY <1>5, <1>8, Places DEF TopicSteps
<1>14. MayCount(r) <= MayCount(work[w])
  BY <1>9, LeftBounds
<1> HIDE DEF TopicsInv, TopicsBounded, l
<1> QED BY <1>2, <1>3, <1>11, <1>12, <1>13, <1>14, RowsGoOn

(* The first statement moves one worker and marks the others: nothing counts. *)
LEMMA BeginBounded ==
  ASSUME TopicsInv, TopicsBounded, NEW w \in T!Workers, T!Begin(w)
  PROVE  TopicsBounded'
<1> DEFINE others == {v \in T!Workers \ {w} : T!OpenIn(v)}
           seen == IF work[w].dir.mode = "new" THEN T!Active ELSE T!Active \ {work[w].topic}
           here == [work[w] EXCEPT !.pc = "commit", !.overlapped = others # {}, !.seen = seen]
           there(v) == [work[v] EXCEPT !.overlapped = TRUE]
<1>1. PICK C : TopicsTyped(C)
  BY DEF TopicsInv
<1>2. /\ \A v \in T!Workers : work[v] \in StepType(C)
      /\ T!Active \subseteq T!Ids /\ work[w].pc = "begin"
      /\ UNCHANGED <<story, topics, budget>>
  BY <1>1, TopicAt DEF T!Begin
<1>3. work' = [v \in T!Workers |-> IF v = w THEN here
                                   ELSE IF v \in others THEN there(v) ELSE work[v]]
  BY DEF T!Begin
<1>4. here.pc = "commit" /\ here.seen = seen
  <2> HIDE DEF others, seen
  <2> QED BY <1>2 DEF StepType
<1>5. \A v \in T!Workers : there(v).pc = work[v].pc /\ there(v).seen = work[v].seen
  BY <1>2 DEF StepType
<1> HIDE DEF here, there, others
<1>6. \A v \in T!Workers : /\ v # w => work'[v].pc = work[v].pc /\ work'[v].seen = work[v].seen
                           /\ v = w => work'[v].pc = "commit" /\ work'[v].seen = seen
  BY <1>3, <1>4, <1>5
<1>7. w \in Talkers
  BY <1>2, IsTalker
<1>8. \A v \in T!Workers : MayCount(work'[v]) = MayCount(work[v])
  BY <1>2, <1>6 DEF MayCount
<1>9. T!Ids' = T!Ids
  BY <1>2 DEF T!Ids
<1>10. Left' = Left
  <2>1. "handler" \in T!Workers /\ "retry" \in T!Workers
    BY DEF T!Workers
  <2>2. /\ MayCount(work'["handler"]) = MayCount(work["handler"])
        /\ MayCount(work'["retry"]) = MayCount(work["retry"])
    BY <1>8, <2>1
  <2>3. Left' = budget'.turns + MayCount(work'["handler"]) + MayCount(work'["retry"])
    BY DEF Left, MayCount
  <2> QED BY <1>2, <2>2, <2>3 DEF Left
<1>11. Counted'
  <2>1. Counted
    BY DEF TopicsBounded
  <2>2. /\ DOMAIN budget' = {"turns", "faults", "ages"} /\ budget'.turns \in Nat
        /\ Left' <= story'.turns
    BY <1>2, <1>10, <2>1 DEF Counted
  <2>3. \A i \in T!Ids' : /\ topics'[i].count \in Nat
                          /\ topics'[i].count + Left' <= Checkpoint + story'.turns
    BY <1>2, <1>9, <1>10, <2>1 DEF Counted
  <2> QED BY <2>2, <2>3 DEF Counted
<1>12. ASSUME NEW v \in T!Workers
       PROVE  work'[v].seen \subseteq T!Ids' /\ work'[v].pc \in PlacesOf(v)
  <2>1. CASE v # w
    BY <1>6, <1>9, <2>1 DEF TopicsBounded
  <2>2. CASE v = w
    <3>1. seen \subseteq T!Ids
      BY <1>2
    <3> HIDE DEF seen
    <3> QED BY <1>6, <1>7, <1>9, <2>2, <3>1, Places DEF TopicSteps
  <2> QED BY <2>1, <2>2
<1>13. story'.turns \in Nat /\ Len(topics') <= MaxTopics
  BY <1>2 DEF TopicsBounded
<1> QED BY <1>11, <1>12, <1>13 DEF TopicsBounded, PlacesOf

LEMMA TopicsBoundedStutter == TopicsBounded /\ UNCHANGED T!vars => TopicsBounded'
<1> SUFFICES ASSUME TopicsBounded, UNCHANGED T!vars PROVE TopicsBounded'
  OBVIOUS
<1>1. UNCHANGED <<story, topics, work, budget>>
  BY DEF T!vars
<1>2. T!Ids' = T!Ids /\ Left' = Left
  BY <1>1 DEF T!Ids, Left, MayCount
<1> QED BY <1>1, <1>2 DEF TopicsBounded, Counted, PlacesOf

LEMMA TopicsBoundedStep == TopicsInv /\ TopicsBounded /\ [T!Next]_(T!vars) => TopicsBounded'
<1> SUFFICES ASSUME TopicsInv, TopicsBounded, [T!Next]_(T!vars) PROVE TopicsBounded'
  OBVIOUS
<1>1. ASSUME NEW w \in T!Workers, T!Turn(w) PROVE TopicsBounded'
  <2>1. CASE T!AnswerWithoutSaving(w)
    BY <2>1, DoneBounded DEF T!AnswerWithoutSaving
  <2> QED BY <1>1, <2>1, BeginTurnBounded, AnswerBounded, BeginBounded, CreateBounded,
             UpdateBounded, FailsBounded, CountBounded, CountFailsBounded, ResetBounded DEF T!Turn
<1>2. ASSUME NEW w \in T!Workers, T!Ask(w) PROVE TopicsBounded'
  BY <1>2, AskBounded, ResolveBounded, PauseBounded DEF T!Ask
<1>3. CASE T!StartProfile \/ (\E i \in T!Ids : T!Age(i)) \/ T!ScrubRead \/ T!ScrubWrite
  BY <1>3, ProfileBounded, AgeBounded, ScrubReadBounded, ScrubWriteBounded
<1>4. CASE UNCHANGED T!vars
  BY <1>4, TopicsBoundedStutter
<1> QED BY <1>1, <1>2, <1>3, <1>4 DEF T!Next

LEMMA TopicsTypeFact == TopicsInv /\ TopicsBounded => T!TypeOK
<1> SUFFICES ASSUME TopicsInv, TopicsBounded PROVE T!TypeOK
  OBVIOUS
<1>1. PICK C : TopicsTyped(C)
  BY DEF TopicsInv
<1>2. /\ story \in TopicScenarios /\ Len(topics) <= MaxTopics
      /\ \A i \in T!Ids : topics[i].status \in T!Statuses
  BY <1>1, TopicAt DEF TopicsTyped, TopicsBounded, TopicType
<1>3. \A i \in T!Ids : topics[i].count \in 0..(Checkpoint + story.turns)
  <2>1. /\ story.turns \in Nat /\ Checkpoint \in Nat /\ Left \in Nat
        /\ \A i \in T!Ids : topics[i].count \in Nat /\ topics[i].count + Left <= Checkpoint + story.turns
    <3>1. MayCount(work["handler"]) \in {0, 1} /\ MayCount(work["retry"]) \in {0, 1}
      BY LeftBounds
    <3> QED BY <3>1, LeftBounds DEF TopicsBounded, Counted, Left
  <2> HIDE DEF Left
  <2> QED BY <2>1
<1>4. ASSUME NEW w \in T!Workers
      PROVE  work[w].dir \in T!Directives /\ work[w].seen \subseteq T!Ids /\ work[w].pc \in TopicSteps
  BY <1>1, TopicAt DEF StepType, TopicsBounded
<1> QED BY <1>2, <1>3, <1>4 DEF T!TypeOK, TopicSteps
-----------------------------------------------------------------------------
(* The dialogue: whichever part a behaviour runs, its invariant holds, and    *)
(* the chat's holds in all of them, for there no text is sent elsewhere.      *)
DialogueInv ==
  /\ ChatInv
  /\ world = "accounts" => AccountsInv
  /\ world = "accounts" => VoiceInv
  /\ world = "topics" => TopicsInv
  /\ world = "topics" => TopicsBounded
  /\ world = "settings" => SettingsInv
  /\ world = "settings" => SettingsTyped
  /\ world = "goals" => GoalsInv

LEMMA DialogueBegins == DialogueInit => Init /\ DialogueInv
<1> SUFFICES ASSUME DialogueInit PROVE Init /\ DialogueInv
  OBVIOUS
<1>1. Init
  BY DEF DialogueInit, Silent
<1>2. world = "accounts" => A!Init
  BY DEF DialogueInit
<1>3. world = "topics" => T!Init
  BY DEF DialogueInit
<1>4. world = "settings" => S!Init
  BY DEF DialogueInit
<1>5. world = "goals" => G!Init
  BY DEF DialogueInit
<1> QED BY <1>1, <1>2, <1>3, <1>4, <1>5, InitInv, AccountsInit, VoiceBegins, TopicsInit,
           TopicsBoundedBegin, SettingsInit, SettingsTypesBegin, GoalsBegin DEF DialogueInv

(* A step of the dialogue is one of the chat or leaves the chat alone, and so *)
(* for the other parts, each in its own world.                                *)
LEMMA DialogueMoves ==
  ASSUME [DialogueNext]_allVars
  PROVE  /\ [Next]_vars
         /\ world' = world
         /\ world = "accounts" => [A!Next]_(A!vars)
         /\ world = "topics" => [T!Next]_(T!vars)
         /\ world = "settings" => [S!Next]_(S!vars)
         /\ world = "goals" => [G!Next]_(G!vars)
<1>1. CASE InChat
  BY <1>1 DEF InChat
<1>2. CASE InSettings
  BY <1>2 DEF InSettings
<1>3. CASE InAccounts
  BY <1>3 DEF InAccounts
<1>4. CASE InTopics
  BY <1>4 DEF InTopics
<1>5. CASE InGoals
  BY <1>5 DEF InGoals
<1>6. CASE UNCHANGED allVars
  BY <1>6 DEF allVars, A!vars, T!vars, S!vars, G!vars, accountsOnly, topicsOnly,
              settingsOnly, goalsOnly
<1> QED BY <1>1, <1>2, <1>3, <1>4, <1>5, <1>6 DEF DialogueNext

LEMMA DialogueStep == DialogueInv /\ [DialogueNext]_allVars => DialogueInv'
<1> SUFFICES ASSUME DialogueInv, [DialogueNext]_allVars PROVE DialogueInv'
  OBVIOUS
<1>1. ChatInv'
  BY DialogueMoves, ChatStep DEF DialogueInv
<1>2. world' = "accounts" => AccountsInv' /\ VoiceInv'
  BY DialogueMoves, AccountsStep, VoiceInvStep DEF DialogueInv
<1>3. world' = "topics" => TopicsInv' /\ TopicsBounded'
  BY DialogueMoves, TopicsStep, TopicsBoundedStep DEF DialogueInv
<1>4. world' = "settings" => SettingsInv' /\ SettingsTyped'
  BY DialogueMoves, SettingsStep, SettingsTypes DEF DialogueInv
<1>5. world' = "goals" => GoalsInv'
  BY DialogueMoves, GoalsStep DEF DialogueInv
<1> QED BY <1>1, <1>2, <1>3, <1>4, <1>5 DEF DialogueInv

LEMMA DialogueInvariant == DialogueSpec => []DialogueInv
BY DialogueBegins, DialogueStep, PTL DEF DialogueSpec

(* Every variable has its type, a topic's count does not pass the checkpoint   *)
(* by more than the turns, a settings change that is written is one the        *)
(* validation let through, and a group's columns are those of a row: for every  *)
(* clock, grace, set of scenarios, number of restarts, topics, versions and     *)
(* rows.                                                                      *)
THEOREM DialogueIsTyped == DialogueSpec => []TypesOK
<1>1. DialogueInv => TypesOK
  <2> SUFFICES ASSUME DialogueInv PROVE TypesOK
    OBVIOUS
  <2>1. TypeOK
    BY DEF DialogueInv, ChatInv, TypeInv
  <2>2. world = "settings" => S!TypeOK
    BY SettingsTypeFact DEF DialogueInv
  <2>3. world = "accounts" => A!TypeOK
    BY AccountsTypeFact DEF DialogueInv
  <2>4. world = "topics" => T!TypeOK
    BY TopicsTypeFact DEF DialogueInv
  <2>5. world = "goals" => G!TypeOK
    BY GoalsTypedOK DEF DialogueInv
  <2> QED BY <2>1, <2>2, <2>3, <2>4, <2>5 DEF TypesOK
<1> QED BY <1>1, DialogueInvariant, PTL

(* One conversation topic is open unless two transactions crossed, a link     *)
(* makes one account, a message that a lock held back goes out once, and a    *)
(* month's spend is told once: for every clock, grace, set of scenarios and   *)
(* number of restarts (context.service.ts, access.service.ts,                 *)
(* maintenance.service.ts).                                                   *)
THEOREM WhatHappensOnce == DialogueSpec => []OnceIsOnce
<1>1. DialogueInv => OnceIsOnce
  BY InviteFact, ContactFact, SpendFact, OneTopicFact DEF DialogueInv, OnceIsOnce
<1> QED BY <1>1, DialogueInvariant, PTL

(* An account disappears only while its owner's request stands and when its   *)
(* grace is over, audio leaves only on a consent that stands or that the app  *)
(* took back beside the chat, and a write of a screen lands only on rows that *)
(* are as it showed them, a sensitive fact's only confirmed (access.service,  *)
(* transcription.service, memory and goals controllers, action-group.repository). *)
THEOREM NothingIsUnasked == DialogueSpec => NothingUnasked
<1>1. DialogueInv /\ [DialogueNext]_allVars =>
        [/\ world = "accounts" => A!AskedDeletion /\ A!AskedVoice
         /\ world = "goals" => G!HeededScreens]_allVars
  BY DialogueMoves, DeletionStep, VoiceStep, GoalsStep DEF DialogueInv
<1> QED BY <1>1, DialogueInvariant, PTL DEF DialogueSpec, NothingUnasked

(* An undo of the settings happens only while every column is what its group  *)
(* left; one of goals and facts finds each of its rows as the group left it   *)
(* and gives back what the group found, whoever wrote in between and however  *)
(* many actions of the group were on one row: for every start, every package  *)
(* of actions and every number of groups (action-group.repository.ts).        *)
THEOREM UndosAreExact == DialogueSpec => UndoIsExact
<1>1. DialogueInv /\ [DialogueNext]_allVars =>
        [/\ world = "settings" => S!OwnUndo
         /\ world = "goals" => G!ExactUndo]_allVars
  BY DialogueMoves, SettingsStep, GoalsStep DEF DialogueInv
<1> QED BY <1>1, DialogueInvariant, PTL DEF DialogueSpec, UndoIsExact

(* Beside whatever else the dialogue holds, its turns are those of ChatTurns: *)
(* no two work on one text, and a text has one effect.                        *)
THEOREM DialogueKeepsTurns == DialogueSpec => []TurnsAreApart /\ Refines
<1>1. DialogueInit => Contract!Init
  BY DialogueBegins, InitInv
<1>2. DialogueInv => TurnsAreApart
  BY ApartFact DEF DialogueInv
<1>3. DialogueInv /\ [DialogueNext]_allVars => [Contract!Next]_Effect
  BY DialogueMoves, EffectStep DEF DialogueInv
<1> QED BY <1>1, <1>2, <1>3, DialogueInvariant, PTL DEF DialogueSpec, Refines, Contract!Spec
=============================================================================
