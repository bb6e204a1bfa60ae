------------------------------ MODULE ActionGroups ------------------------------
(* The life of a package of actions: proposed by a chat turn, applied at once  *)
(* or kept as a card to confirm, undone within its window, expired, scrubbed,  *)
(* and repaired at boot.  Transactions take row locks one by one, and another  *)
(* transaction may hold what the next one needs.                               *)
(* Sources: actions/actions.service.ts, actions.repository.ts,                 *)
(* action-group.repository.ts; chat/chat.service.ts for the card a turn        *)
(* replaces; tasks/tasks.repository.ts for writers outside any group.          *)
EXTENDS Naturals, FiniteSets

CONSTANTS
  Tasks, Dates,   \* rows of tasks and of task_occurrences
  TaskOf,         \* the task of each date
  OneTime,        \* the dates of tasks without recurrence
  Rank,           \* the order of ids
  Groups,         \* packages
  Steps,          \* the actions of each package
  Gated,          \* the packages that wait for a confirmation
  Replaces,       \* the card a package answers, if any
  None,
  Original,       \* the content nobody has changed yet
  System,         \* the content a writer outside the packages left
  Chat, Retry,    \* updates of one chat run in order; so do repeated AI turns
  Web,            \* requests of the web client, and the lifecycle loop
  ConfirmTtl, UndoTtl,
  Horizon,        \* bound: the last moment; a card expires by then
  Scenarios       \* what may happen, and how often

Rows == Tasks \cup Dates
Handlers == {Chat, Retry} \cup Web

(* "create" makes its task; "edit" leaves its row open, "skip" closes a date,  *)
(* "finish" a one-time date and its task, "close" a task and its open date.    *)
Step ==
  [op: {"create", "edit", "close"}, row: Tasks]
    \cup [op: {"edit", "skip", "finish"}, row: Dates]

(* A scenario is the packages there may be and bounds: requests at a time,     *)
(* crashes, lost connections, undo requests and writes outside the packages.   *)
Scenario ==
  [groups: SUBSET Groups, handlers: Nat, crashes: Nat, faults: Nat,
   undos: Nat, writes: Nat]

(* The rows a package brings into being; their ids are new (randomUUID).       *)
Having(g, op) == {s.row : s \in {t \in Steps[g] : t.op = op}}
Creates(g) == Having(g, "create")

ASSUME GroupsAssumption ==
  /\ Tasks \cap Dates = {}
  /\ TaskOf \in [Dates -> Tasks]
  /\ OneTime \subseteq Dates
  /\ Rank \in [Rows -> Nat]
  /\ \A r, s \in Rows : Rank[r] = Rank[s] => r = s
  /\ Steps \in [Groups -> SUBSET Step]
  /\ \A g, k \in Groups : g # k => Creates(g) \cap Creates(k) = {}
  /\ Gated \subseteq Groups
  /\ None \notin Groups /\ Replaces \in [Groups -> Groups \cup {None}]
  /\ Original # System /\ {Original, System} \cap Groups = {}
  /\ {ConfirmTtl, UndoTtl, Horizon} \subseteq Nat
  /\ Chat # Retry /\ {Chat, Retry} \cap Web = {}
  /\ Scenarios \subseteq Scenario

VARIABLES
  scenario, clock,
  rows,      \* version, open or closed, and who wrote the content
  groups,    \* action_groups with their pending_actions and action_events
  handler,   \* requests: their step, locks and what they have read
  expiring,  \* the packages the expiry loop has found
  recovery,  \* boot: to be done, and the packages it has listed
  spent      \* counters for the bounds

vars == <<scenario, clock, rows, groups, handler, expiring, recovery, spent>>

Contents == Groups \cup {Original, System}
Statuses == {"none", "proposed", "rejected", "pending", "applying", "applied",
             "undoing", "undone", "cancelled", "expired", "failed"}
Final == {"undone", "cancelled", "expired", "failed"}
Places == {"idle", "dispose", "claim", "payload", "expire", "validate", "lock",
           "steps", "fail", "answer", "claim_undo", "lock_undo", "release",
           "write"}
Kinds == {"turn", "confirm", "undo", "touch", "close"}
Time == 0 .. Horizon

RowType == [exists: BOOLEAN, open: BOOLEAN, version: Nat, by: Contents]
(* One line of the journal: the row, whether the package created it, what it   *)
(* was before and the version it had after.                                    *)
Event ==
  [row: Rows, created: BOOLEAN, open: BOOLEAN, by: Contents, post: Nat]
GroupType ==
  [status: Statuses, payload: BOOLEAN, expires: Nat, undoUntil: Nat,
   expected: [Rows -> Nat], answers: Groups \cup {None}, journal: SUBSET Event,
   scrubbed: BOOLEAN]
Handler ==
  [pc: Places, kind: Kinds, group: Groups \cup {None}, now: Time,
   want: SUBSET Rows, held: SUBSET Rows, seen: [Rows -> Nat]]

Idle == [pc |-> "idle", kind |-> "turn", group |-> None, now |-> 0, want |-> {},
         held |-> {}, seen |-> [r \in Rows |-> 0]]
Init ==
  /\ scenario \in Scenarios
  /\ clock = 0
  /\ rows = [r \in Rows |-> [exists |-> \A g \in Groups : r \notin Creates(g), open |-> TRUE,
                             version |-> 1, by |-> Original]]
  /\ groups = [g \in Groups |->
       [status |-> "none", payload |-> FALSE, expires |-> 0, undoUntil |-> 0,
        expected |-> [r \in Rows |-> 0], answers |-> None, journal |-> {},
        scrubbed |-> FALSE]]
  /\ handler = [h \in Handlers |-> Idle]
  /\ expiring = {}
  /\ recovery = [due |-> FALSE, listed |-> {}]
  /\ spent = [crashes |-> 0, faults |-> 0, undos |-> 0, writes |-> 0]
-----------------------------------------------------------------------------
At(h, pc) == handler[h].pc = pc
Status(g) == groups[g].status
Busy == {h \in Handlers : ~At(h, "idle")}
Admit(h) == At(h, "idle") /\ Cardinality(Busy) < scenario.handlers
Spend(what) ==
  /\ spent[what] < scenario[what]
  /\ spent' = [spent EXCEPT ![what] = @ + 1]

Goto(h, pc) == handler' = [handler EXCEPT ![h].pc = pc]
Finish(h) == handler' = [handler EXCEPT ![h] = Idle]
SetStatus(g, status) == groups' = [groups EXCEPT ![g].status = status]

(* The rows a package names, those lockTargets locks, and those it changes.    *)
Named(g) == {s.row : s \in {t \in Steps[g] : t.op # "create"}}
Owners(dates) == {TaskOf[d] : d \in dates}
Targets(g) == Named(g) \cup Owners(Named(g) \cap Dates)
OpenDate(t) == {d \in Dates : TaskOf[d] = t /\ rows[d].exists /\ rows[d].open}
Changed(g) ==
  Named(g) \cup Owners(Having(g, "finish"))
    \cup UNION {OpenDate(t) : t \in Having(g, "close")}
Opens(g, r) ==
  \E s \in Steps[g] : s.row = r /\ s.op \in {"create", "edit"}

(* Row locks, taken one at a time: tasks before dates, each in the order of    *)
(* ids; a write outside the packages takes its date first.                     *)
FirstOf(set) ==
  LET table == IF set \cap Tasks # {} THEN set \cap Tasks ELSE set
  IN CHOOSE r \in table : \A s \in table : Rank[r] <= Rank[s]
NextRow(h) ==
  LET want == handler[h].want
  IN IF handler[h].kind \in {"touch", "close"} /\ want \cap Dates # {}
     THEN FirstOf(want \cap Dates) ELSE FirstOf(want)
Wanting(h, pc) == At(h, pc) /\ handler[h].want # {}
Satisfied(h, pc) == At(h, pc) /\ handler[h].want = {}
Free(r) == \A h \in Handlers : r \notin handler[h].held
Lock(h, r) ==
  LET held == handler[h].held
      want == handler[h].want
  IN handler' = [handler EXCEPT ![h] = [@ EXCEPT !.held = held \cup {r}, !.want = want \ {r}]]

(* The transaction is rolled back, and the caller's catch runs.                *)
Throw(h) ==
  LET k == handler[h].kind
      caught == IF k = "confirm" THEN "fail" ELSE "release"
  IN /\ handler' = [handler EXCEPT ![h] =
          IF k \in {"confirm", "undo"}
          THEN [@ EXCEPT !.pc = caught, !.want = {}, !.held = {}] ELSE Idle]
     /\ groups' = IF k = "turn"
                  THEN [groups EXCEPT ![handler[h].group].status = "rejected"]
                  ELSE groups
-----------------------------------------------------------------------------
(* A turn of the chat, or one repeated after an AI outage: the live card is    *)
(* read, the model answers, its short ids become rows and versions (prepare).  *)
(* A form of the web client applies at once and answers no card.               *)
Turn(h, g) ==
  LET card == Replaces[g]
      live == card # None /\ Status(card) = "pending" /\ groups[card].payload
                /\ groups[card].expires > clock
  IN /\ Admit(h)
     /\ h \in Web => g \notin Gated /\ card = None
     /\ g \in scenario.groups /\ Status(g) = "none"
     /\ clock + ConfirmTtl <= Horizon
     /\ \A r \in Named(g) : rows[r].exists
     /\ groups' = [groups EXCEPT ![g] = [@ EXCEPT !.status = "proposed",
          !.answers = IF live THEN card ELSE None,
          !.expected = [r \in Rows |-> IF r \in Named(g) THEN rows[r].version ELSE 0]]]
     /\ handler' = [handler EXCEPT ![h] = [Idle EXCEPT !.pc = "dispose", !.group = g,
                                             !.now = clock]]
     /\ UNCHANGED <<scenario, clock, rows, expiring, recovery, spent>>

(* handleProposed, a card: createPendingGroup. *)
StorePending(h) ==
  LET g == handler[h].group IN
  /\ At(h, "dispose") /\ g \in Gated
  /\ groups' = [groups EXCEPT ![g] = [@ EXCEPT !.status = "pending", !.payload = TRUE,
                                             !.expires = handler[h].now + ConfirmTtl]]
  /\ Goto(h, "answer")
  /\ UNCHANGED <<scenario, clock, rows, expiring, recovery, spent>>

(* handleProposed, at once: applyResolved without a stored group. *)
BeginApply(h) ==
  LET g == handler[h].group IN
  /\ At(h, "dispose") /\ g \notin Gated
  /\ handler' = [handler EXCEPT ![h] = [@ EXCEPT !.pc = "lock", !.want = Targets(g)]]
  /\ UNCHANGED <<scenario, clock, rows, groups, expiring, recovery, spent>>

(* The user is told; the card this turn answered is cancelled only now. *)
Answer(h) ==
  LET card == groups[handler[h].group].answers IN
  /\ At(h, "answer")
  /\ IF handler[h].kind = "turn" /\ card # None /\ Status(card) = "pending"
     THEN groups' = [groups EXCEPT ![card] = [@ EXCEPT !.status = "cancelled", !.payload = FALSE]]
     ELSE UNCHANGED groups
  /\ Finish(h)
  /\ UNCHANGED <<scenario, clock, rows, expiring, recovery, spent>>
-----------------------------------------------------------------------------
(* The user confirms a card, in words or by its button: both are in the chat.  *)
Confirm(g) ==
  /\ Admit(Chat)
  /\ Status(g) = "pending"
  /\ handler' = [handler EXCEPT ![Chat] = [Idle EXCEPT !.pc = "claim", !.kind = "confirm",
                                          !.group = g, !.now = clock]]
  /\ UNCHANGED <<scenario, clock, rows, groups, expiring, recovery, spent>>

(* claimPendingGroup takes the package first and looks at it afterwards. *)
Claim(h) ==
  LET g == handler[h].group IN
  /\ At(h, "claim")
  /\ IF Status(g) = "pending"
     THEN SetStatus(g, "applying") /\ Goto(h, "payload")
     ELSE UNCHANGED groups /\ Finish(h)
  /\ UNCHANGED <<scenario, clock, rows, expiring, recovery, spent>>

ReadPayload(h) ==
  LET g == handler[h].group IN
  /\ At(h, "payload")
  /\ Goto(h, IF groups[g].payload /\ groups[g].expires > handler[h].now
             THEN "validate" ELSE "expire")
  /\ UNCHANGED <<scenario, clock, rows, groups, expiring, recovery, spent>>

(* Nothing to apply, or too late: the update names the package by id alone. *)
ExpireClaimed(h) ==
  LET g == handler[h].group IN
  /\ At(h, "expire")
  /\ groups' = [groups EXCEPT ![g] = [@ EXCEPT !.status = "expired", !.payload = FALSE]]
  /\ Finish(h)
  /\ UNCHANGED <<scenario, clock, rows, expiring, recovery, spent>>

AsExpected(g) ==
  \A r \in Named(g) : rows[r].exists /\ rows[r].version = groups[g].expected[r]
(* validate compares versions; applyResolved starts where it finds no issue. *)
Validate(h) ==
  LET g == handler[h].group IN
  /\ At(h, "validate")
  /\ IF AsExpected(g)
     THEN handler' = [handler EXCEPT ![h] = [@ EXCEPT !.pc = "lock", !.want = Targets(g)]]
     ELSE Goto(h, "fail")
  /\ UNCHANGED <<scenario, clock, rows, groups, expiring, recovery, spent>>

(* Before any lock, applyResolved reads the task that a move names            *)
(* (prepareSteps), outside its try: where an undo took the task away since     *)
(* validate, the card stays "applying" until the next boot.                    *)
PrepareThrows(h) ==
  LET g == handler[h].group IN
  /\ At(h, "lock") /\ handler[h].kind = "confirm" /\ handler[h].want = Targets(g)
  /\ \E s \in Steps[g] : s.op = "edit" /\ s.row \in Tasks /\ ~rows[s.row].exists
  /\ Finish(h)
  /\ UNCHANGED <<scenario, clock, rows, groups, expiring, recovery, spent>>

(* Mutant: whatever the package has become. *)
FailedAnyway(g) ==
  [groups EXCEPT ![g] = [@ EXCEPT !.status = "failed", !.payload = FALSE]]

(* markFailed *)
Failed(g) ==
  LET status == IF Status(g) = "applying" THEN "failed" ELSE Status(g)
  IN [groups EXCEPT ![g] = [@ EXCEPT !.status = status, !.payload = FALSE]]
MarkFailed(h) ==
  /\ At(h, "fail")
  /\ groups' = Failed(handler[h].group)
  /\ Finish(h)
  /\ UNCHANGED <<scenario, clock, rows, expiring, recovery, spent>>

(* cancelPendingGroup, by the user. *)
CancelPending(g) ==
  /\ At(Chat, "idle")
  /\ Status(g) = "pending"
  /\ groups' = [groups EXCEPT ![g] = [@ EXCEPT !.status = "cancelled", !.payload = FALSE]]
  /\ UNCHANGED <<scenario, clock, rows, handler, expiring, recovery, spent>>
-----------------------------------------------------------------------------
(* apply: lockTargets, then the steps, which lock what else they change and    *)
(* refuse it where it changed since they read it, then finalizeGroup.          *)
LockTarget(h) ==
  LET r == NextRow(h) IN
  /\ Wanting(h, "lock") /\ Free(r)
  /\ IF rows[r].exists THEN Lock(h, r) /\ UNCHANGED groups ELSE Throw(h)
  /\ UNCHANGED <<scenario, clock, rows, expiring, recovery, spent>>

(* Mutant: the version the user saw is not compared. *)
ApplicableUnseen(g) ==
  /\ \A r \in Named(g) : rows[r].exists
  /\ \A s \in Steps[g] : s.op \in {"create", "edit"} \/ rows[s.row].open

(* Every step finds its row as expected and still open. *)
Applicable(g) ==
  /\ AsExpected(g)
  /\ \A s \in Steps[g] : s.op \in {"create", "edit"} \/ rows[s.row].open
BeginSteps(h) ==
  LET g == handler[h].group IN
  /\ Satisfied(h, "lock")
  /\ IF Applicable(g)
     THEN /\ handler' = [handler EXCEPT ![h] = [@ EXCEPT !.pc = "steps",
               !.want = Changed(g) \ handler[h].held,
               !.seen = [r \in Rows |-> rows[r].version]]]
          /\ UNCHANGED groups
     ELSE Throw(h)
  /\ UNCHANGED <<scenario, clock, rows, expiring, recovery, spent>>

LockStep(h) ==
  LET r == NextRow(h) IN
  /\ Wanting(h, "steps") /\ Free(r)
  /\ IF rows[r].version = handler[h].seen[r]
     THEN Lock(h, r) /\ UNCHANGED groups ELSE Throw(h)
  /\ UNCHANGED <<scenario, clock, rows, expiring, recovery, spent>>

(* Commit: the rows, their journal and the package's status in one step;      *)
(* finalizeGroup refuses a package that is no longer claimed.                  *)
CommitApply(h) ==
  LET g == handler[h].group
      changed == (Changed(g) \cap handler[h].held) \cup Creates(g)
  IN /\ Satisfied(h, "steps")
     /\ IF g \in Gated => Status(g) = "applying"
        THEN /\ rows' = [r \in Rows |-> IF r \notin changed THEN rows[r] ELSE
                  [exists |-> TRUE, open |-> Opens(g, r), by |-> g,
                   version |-> IF rows[r].exists THEN rows[r].version + 1 ELSE 1]]
             /\ groups' = [groups EXCEPT ![g] = [@ EXCEPT
                  !.status = "applied", !.payload = FALSE,
                  !.undoUntil = handler[h].now + UndoTtl,
                  !.journal = {[row |-> r, created |-> ~rows[r].exists,
                     open |-> rows[r].open, by |-> rows[r].by,
                     post |-> rows'[r].version] : r \in changed}]]
             /\ handler' = [handler EXCEPT ![h] = [@ EXCEPT !.pc = "answer", !.held = {}]]
        ELSE UNCHANGED rows /\ Throw(h)
     /\ UNCHANGED <<scenario, clock, expiring, recovery, spent>>
-----------------------------------------------------------------------------
(* Undo, within the window, by a button of the chat or of the web client. *)
Undo(h, g) ==
  /\ h # Retry
  /\ Admit(h)
  /\ Status(g) = "applied"
  /\ Spend("undos")
  /\ handler' = [handler EXCEPT ![h] = [Idle EXCEPT !.pc = "claim_undo", !.kind = "undo",
                                          !.group = g, !.now = clock]]
  /\ UNCHANGED <<scenario, clock, rows, groups, expiring, recovery>>

ClaimUndo(h) ==
  LET g == handler[h].group IN
  /\ At(h, "claim_undo")
  /\ IF Status(g) = "applied" /\ groups[g].undoUntil > handler[h].now
     THEN /\ SetStatus(g, "undoing")
          /\ handler' = [handler EXCEPT ![h] = [@ EXCEPT !.pc = "lock_undo",
                           !.want = {e.row : e \in groups[g].journal}]]
     ELSE UNCHANGED groups /\ Finish(h)
  /\ UNCHANGED <<scenario, clock, rows, expiring, recovery, spent>>

(* Mutant: the row must only exist. *)
UntouchedOrNot(g, r) == rows[r].exists

(* lockAndVerify: the row must be as the package left it. *)
Untouched(g, r) ==
  /\ rows[r].exists
  /\ \A e \in groups[g].journal : e.row = r => rows[r].version = e.post
LockUndo(h) ==
  LET r == NextRow(h) IN
  /\ Wanting(h, "lock_undo") /\ Free(r)
  /\ IF Untouched(handler[h].group, r)
     THEN Lock(h, r) /\ UNCHANGED groups ELSE Throw(h)
  /\ UNCHANGED <<scenario, clock, rows, expiring, recovery, spent>>

(* Restores every row from the journal, under a new version; a created row     *)
(* goes.  A scrubbed journal restores nothing but creations.                   *)
CommitUndo(h) ==
  LET g == handler[h].group
      journal == groups[g].journal
      before(r) == CHOOSE e \in journal : e.row = r
      complete == ~groups[g].scrubbed \/ \A e \in journal : e.created
      restored(r) ==
        IF before(r).created THEN [rows[r] EXCEPT !.exists = FALSE]
        ELSE [rows[r] EXCEPT !.open = before(r).open, !.by = before(r).by,
                             !.version = @ + 1]
  IN /\ Satisfied(h, "lock_undo")
     /\ IF complete /\ Status(g) = "undoing"
        THEN /\ rows' = [r \in Rows |->
                  IF r \in handler[h].held THEN restored(r) ELSE rows[r]]
             /\ SetStatus(g, "undone")
             /\ handler' = [handler EXCEPT ![h] = [@ EXCEPT !.pc = "answer", !.held = {}]]
        ELSE UNCHANGED rows /\ Throw(h)
     /\ UNCHANGED <<scenario, clock, expiring, recovery, spent>>

(* releaseUndoClaim *)
Released(g) ==
  [groups EXCEPT ![g].status = IF @ = "undoing" THEN "applied" ELSE @]
Release(h) ==
  /\ At(h, "release")
  /\ groups' = Released(handler[h].group)
  /\ Finish(h)
  /\ UNCHANGED <<scenario, clock, rows, expiring, recovery, spent>>
-----------------------------------------------------------------------------
(* A write outside the packages: the lifecycle loop or a button of the web     *)
(* client (transitionOccurrence, markOccurrenceOverdue) read a date, and       *)
(* update it, and its task when the date was its only one, where both are      *)
(* still at the version read.                                                  *)
BeginWrite(h, d, closes) ==
  /\ h \in Web
  /\ Admit(h)
  /\ rows[d].open
  /\ Spend("writes")
  /\ handler' = [handler EXCEPT ![h] = [Idle EXCEPT !.pc = "write",
       !.kind = IF closes THEN "close" ELSE "touch",
       !.want = IF closes /\ d \in OneTime THEN {d, TaskOf[d]} ELSE {d},
       !.seen = [r \in Rows |-> rows[r].version]]]
  /\ UNCHANGED <<scenario, clock, rows, groups, expiring, recovery>>

LockWrite(h) ==
  LET r == NextRow(h) IN
  /\ Wanting(h, "write") /\ Free(r)
  /\ IF rows[r].exists /\ rows[r].version = handler[h].seen[r]
     THEN Lock(h, r) /\ UNCHANGED groups ELSE Throw(h)
  /\ UNCHANGED <<scenario, clock, rows, expiring, recovery, spent>>

CommitWrite(h) ==
  /\ Satisfied(h, "write")
  /\ rows' = [r \in Rows |-> IF r \notin handler[h].held THEN rows[r] ELSE
        [rows[r] EXCEPT !.version = @ + 1, !.by = System,
                        !.open = handler[h].kind = "touch"]]
  /\ Finish(h)
  /\ UNCHANGED <<scenario, clock, groups, expiring, recovery, spent>>
-----------------------------------------------------------------------------
(* expirePendingGroups: read, then a transaction that drops the payloads of    *)
(* all it read, whatever they have become.                                     *)
FindExpired ==
  /\ expiring = {}
  /\ expiring' = {g \in Groups : groups[g].payload /\ groups[g].expires <= clock}
  /\ expiring' # {}
  /\ UNCHANGED <<scenario, clock, rows, groups, handler, recovery, spent>>

(* Mutant: the payloads go, the cards stay. *)
ExpirePayloads ==
  /\ expiring # {}
  /\ groups' = [g \in Groups |->
        [groups[g] EXCEPT !.payload = @ /\ g \notin expiring]]
  /\ expiring' = {}
  /\ UNCHANGED <<scenario, clock, rows, handler, recovery, spent>>

ExpirePending ==
  /\ expiring # {}
  /\ groups' = [g \in Groups |-> IF g \notin expiring THEN groups[g] ELSE
        [groups[g] EXCEPT !.status = IF @ = "pending" THEN "expired" ELSE @,
                          !.payload = FALSE]]
  /\ expiring' = {}
  /\ UNCHANGED <<scenario, clock, rows, handler, recovery, spent>>

(* Mutant: an applied package is scrubbed without regard to its window. *)
ScrubbableEarly(g) == Status(g) \in Final \cup {"applied"}
(* scrubExpiredActionPayloads *)
Scrubbable(g) ==
  Status(g) \in Final \/ (Status(g) = "applied" /\ groups[g].undoUntil <= clock)
Scrub ==
  /\ \E g \in Groups : Scrubbable(g) /\ groups[g].journal # {} /\ ~groups[g].scrubbed
  /\ groups' = [g \in Groups |->
        [groups[g] EXCEPT !.scrubbed = @ \/ (Scrubbable(g) /\ groups[g].journal # {})]]
  /\ UNCHANGED <<scenario, clock, rows, handler, expiring, recovery, spent>>

(* The process dies; its transactions are rolled back. *)
Crash ==
  /\ Spend("crashes")
  /\ handler' = [h \in Handlers |-> Idle]
  /\ groups' = [g \in Groups |->
        [groups[g] EXCEPT !.status = IF @ = "proposed" THEN "rejected" ELSE @]]
  /\ expiring' = {}
  /\ recovery' = [due |-> TRUE, listed |-> {}]
  /\ UNCHANGED <<scenario, clock, rows>>

(* Mutant: boot forgets the undos. *)
ListApplying ==
  /\ recovery.due
  /\ recovery' = [due |-> FALSE,
       listed |-> {[group |-> g, status |-> "applying"] :
                     g \in {k \in Groups : Status(k) = "applying"}}]
  /\ UNCHANGED <<scenario, clock, rows, groups, handler, expiring, spent>>

(* recoverInterruptedActions: what boot finds in progress was interrupted, or  *)
(* so it holds; requests are served meanwhile.                                 *)
ListInterrupted ==
  /\ recovery.due
  /\ recovery' = [due |-> FALSE,
       listed |-> {[group |-> g, status |-> Status(g)] :
                     g \in {k \in Groups : Status(k) \in {"applying", "undoing"}}}]
  /\ UNCHANGED <<scenario, clock, rows, groups, handler, expiring, spent>>

RecoverOne(x) ==
  /\ groups' = IF x.status = "applying" THEN Failed(x.group) ELSE Released(x.group)
  /\ recovery' = [recovery EXCEPT !.listed = @ \ {x}]
  /\ UNCHANGED <<scenario, clock, rows, handler, expiring, spent>>

(* The connection is lost.  A transaction in progress is rolled back; of an    *)
(* apply the caller only says that its outcome is unknown, the reads behind a  *)
(* claim have no catch, and a repair that fails is not repeated.               *)
LoseConnection(h) ==
  /\ handler[h].pc \in {"payload", "expire", "lock", "steps", "fail", "answer",
                        "lock_undo", "release", "write"}
  /\ At(h, "lock_undo") => handler[h].held = {}
  /\ Spend("faults")
  /\ Finish(h)
  /\ IF handler[h].kind = "turn" /\ ~At(h, "answer")
     THEN SetStatus(handler[h].group, "rejected") ELSE UNCHANGED groups
  /\ UNCHANGED <<scenario, clock, rows, expiring, recovery>>

(* In a transaction the caller may not recognise the loss, nor does undo ask;  *)
(* and what is lost may be the answer to a commit that took effect.            *)
LoseTransaction(h) ==
  /\ \/ handler[h].pc \in {"lock", "steps", "lock_undo"}
     \/ At(h, "answer") /\ handler[h].kind \in {"confirm", "undo"}
  /\ Spend("faults")
  /\ Throw(h)
  /\ UNCHANGED <<scenario, clock, rows, expiring, recovery>>

(* Transactions that wait for each other in a circle: the database picks one   *)
(* and rolls it back.                                                          *)
WaitsFor(h, k) ==
  /\ h # k
  /\ handler[h].want # {} /\ handler[k].held # {}
  /\ NextRow(h) \in handler[k].held
Circle(set) ==
  /\ set # {}
  /\ \A h \in set : \E k \in set : WaitsFor(h, k)
  /\ \A k \in set : \E h \in set : WaitsFor(h, k)

BreakCircle(h) ==
  /\ \E set \in SUBSET Handlers : h \in set /\ Circle(set)
  /\ Throw(h)
  /\ UNCHANGED <<scenario, clock, rows, expiring, recovery, spent>>

Tick ==
  /\ clock < Horizon
  /\ clock' = clock + 1
  /\ UNCHANGED <<scenario, rows, groups, handler, expiring, recovery, spent>>
-----------------------------------------------------------------------------
Serve(h) ==
  \/ StorePending(h) \/ BeginApply(h) \/ Answer(h)
  \/ Claim(h) \/ ReadPayload(h) \/ ExpireClaimed(h) \/ Validate(h) \/ MarkFailed(h)
  \/ PrepareThrows(h) \/ LockTarget(h) \/ BeginSteps(h) \/ LockStep(h) \/ CommitApply(h)
  \/ ClaimUndo(h) \/ LockUndo(h) \/ CommitUndo(h) \/ Release(h)
  \/ LockWrite(h) \/ CommitWrite(h)
  \/ BreakCircle(h)

Requests(h) ==
  \/ \E g \in Groups : Turn(h, g) \/ Undo(h, g)
  \/ \E d \in Dates, closes \in BOOLEAN : BeginWrite(h, d, closes)

Maintenance == FindExpired \/ ExpirePending \/ Scrub
Boot == ListInterrupted \/ \E x \in recovery.listed : RecoverOne(x)

Next ==
  \/ \E h \in Handlers : Serve(h) \/ Requests(h) \/ LoseConnection(h) \/ LoseTransaction(h)
  \/ \E g \in Groups : Confirm(g) \/ CancelPending(g)
  \/ Maintenance \/ Boot \/ Crash \/ Tick

Spec == Init /\ [][Next]_vars

(* Requests run to their end, the maintenance and the boot are driven by the   *)
(* runtime, and time passes; nothing obliges users, faults or crashes.         *)
FairSpec ==
  /\ Spec
  /\ \A h \in Handlers : WF_vars(Serve(h))
  /\ WF_vars(FindExpired) /\ WF_vars(ExpirePending)
  /\ WF_vars(Boot) /\ WF_vars(Tick)
-----------------------------------------------------------------------------
(* Types; and a card that waits has its actions. *)
TypeOK ==
  /\ scenario \in Scenarios /\ clock \in Time
  /\ rows \in [Rows -> RowType]
  /\ groups \in [Groups -> GroupType]
  /\ \A g \in Groups : Status(g) = "pending" => groups[g].payload
  /\ handler \in [Handlers -> Handler]
  /\ expiring \subseteq Groups
  /\ recovery \in [due: BOOLEAN,
                   listed: SUBSET [group: Groups, status: {"applying", "undoing"}]]
  /\ spent \in [{"crashes", "faults", "undos", "writes"} -> Nat]

(* A status says what became of the package: only a package that is applied,   *)
(* or being undone, has left its mark on any row.  "Failed", "expired" and     *)
(* "cancelled" mean that nothing happened, whatever raced: the confirmation,   *)
(* the expiry loop, boot's repair of what it takes for interrupted, an undo.   *)
OutcomeIsHonest ==
  \A g \in Groups : Status(g) \notin {"applied", "undoing"}
    => \A r \in Rows : rows[r].exists => rows[r].by # g

(* "A row that changed after the group refuses the undo" (undo): an undo never *)
(* writes over what anybody did later, and leaves no row of the package behind.*)
UndoLosesNothing ==
  [][\A g \in Groups : (Status(g) = "undoing" /\ Status(g)' = "undone")
       => \A r \in Rows :
            /\ rows'[r] # rows[r] => rows[r].by = g
            /\ rows'[r].exists => rows'[r].by # g]_vars

(* What is applied is what was proposed: the rows a package names are, as it   *)
(* is applied, at the version the user was shown, however long the card lay.   *)
NothingUnseen ==
  [][\A g \in Groups : (Status(g) # "applied" /\ Status(g)' = "applied"
                          /\ Status(g) # "undoing")
       => \A r \in Named(g) : rows[r].version = groups[g].expected[r]]_vars

(* "two groups that name a task of one series and an occurrence of another     *)
(* would otherwise take the same two task rows in opposite orders and          *)
(* deadlock" (lockTargets): packages being applied never wait in a circle.     *)
AppliesDoNotDeadlock ==
  \A set \in SUBSET {h \in Handlers : handler[h].kind \in {"turn", "confirm"}} :
    ~Circle(set)

(* The journal is kept for as long as the card offers to undo.                 *)
JournalOutlivesWindow ==
  \A g \in Groups : (Status(g) \in {"applied", "undoing"} /\ groups[g].undoUntil > clock)
    => ~groups[g].scrubbed

(* Nothing stays in progress: where no connection is lost, a package that      *)
(* waits, is being applied or undone comes to an end, crashes included; unless *)
(* a row it names is gone, which may leave it to the next boot (PrepareThrows).*)
Settled == Final \cup {"applied", "rejected"}
GroupsSettle ==
  \A g \in Groups : (scenario.faults = 0 /\ Status(g) \notin Settled \cup {"none"})
    ~> Status(g) \in Settled \/ \E r \in Named(g) : ~rows[r].exists

(* "the old card is cancelled and the action is applied" (AGENT_FLOW.md): a    *)
(* card and the package that answers it are not both in force.                 *)
ReplacedCardStaysUnapplied ==
  \A g \in Groups : groups[g].answers # None
    => ~(Status(g) = "applied" /\ Status(groups[g].answers) = "applied")
=============================================================================
