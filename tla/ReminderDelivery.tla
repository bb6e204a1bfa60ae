--------------------------- MODULE ReminderDelivery ---------------------------
(***************************************************************************)
(* Delivery of the reminders of one occurrence: the reminder_deliveries    *)
(* rows, the job queue that names the rows that are due, the workers that  *)
(* send them (reminders/reminder-queue.service.ts), the periodic sweep     *)
(* that repairs lost jobs, crash and boot recovery, and what the rest of   *)
(* the program does to the same rows meanwhile: closing the occurrence and *)
(* undoing that, rescheduling it and planning it anew, muting it,          *)
(* withdrawing one reminder, disabling and restoring the account.          *)
(*                                                                         *)
(* A worker is a program counter with what its handler read: every await   *)
(* of the handler ends a step, so everything else may happen between the   *)
(* read of a row and the update it leads to.  Rows belong to one default   *)
(* follow-up rule of a deadline task, the only kind that both waits for    *)
(* the digest and escalates; the scenario says how much of that applies.   *)
(***************************************************************************)
EXTENDS Integers, FiniteSets

CONSTANTS
  Rows,          \* the delivery rows there may ever be, as numbers
  Workers,       \* concurrent job handlers of the queue
  Interval,      \* criticalPostDueMinutes
  SlotTolerance, \* SAME_SLOT_TOLERANCE_MS
  MaxBundleWait, \* MAX_BUNDLE_WAIT_MS
  WaitStep,      \* how long a reminder waits before it asks again
  MaxAttempts,   \* MAX_DELIVERY_ATTEMPTS
  RetryDelay,    \* RETRY_DELAY_MS: when the queue runs a failed job again
  RetryAfter,    \* the retry_after values Telegram may answer with
  SweepAhead,    \* RECONCILE_HORIZON_MS
  Quiet, QuietSearch, Grace, MaxDeferral, \* see NotificationPolicy
  Horizon,       \* bound: the last moment; later moments are cut to it
  Scenarios      \* the tasks there may be, and the bounds for each

(* close and reopen are completing and undoing it; withdraw is "not this    *)
(* reminder"; disable and restore are the account's.                        *)
EditKinds == {"close", "reopen", "reschedule", "mute", "withdraw", "disable",
              "restore", "snooze"}

(* A scenario is a task: how important it is, the moment row 1 is planned   *)
(* for, the deadline and the slot of the recipient's digest; and bounds:    *)
(* which rows there may be, how many crashes, failing calls (429 answers    *)
(* among them) and edits, and edits of which kinds.                         *)
Scenario ==
  [importance: {"normal", "required", "critical"},
   firstAt: 0 .. Horizon, dueAt: 0 .. Horizon, briefingAt: 0 .. Horizon,
   rows: SUBSET Rows, crashes: Nat, faults: Nat, edits: Nat, kinds: SUBSET EditKinds]

ASSUME DeliveryAssumption ==
  /\ Rows \subseteq Nat /\ 1 \in Rows
  /\ IsFiniteSet(Workers)
  /\ {Interval, SlotTolerance, MaxBundleWait, WaitStep, RetryDelay} \subseteq Nat
  /\ {SweepAhead, Horizon} \subseteq Nat
  /\ Scenarios \subseteq Scenario
  /\ MaxAttempts \in Nat \ {0}
  /\ RetryAfter \subseteq Nat
  /\ QuietSearch \in Nat
  \* From every moment there is a first minute outside quiet hours.
  /\ \A t \in 0 .. Horizon : \E u \in t .. (t + QuietSearch) :
        u \notin Quiet /\ t .. (u - 1) \subseteq Quiet

VARIABLES
  scenario,  \* the task and the bounds, the same throughout
  now,       \* the clock
  process,   \* "down", "recovered" (rows reset, workers not started) or "up"
  row,       \* the reminder_deliveries table
  jobs,      \* the queue's jobs in state created (tries = 0) or retry
  worker,    \* the handlers
  sweep,     \* what the reconciliation pass has read and not yet enqueued
  occurrence,\* "open" or "closed"
  muted,     \* defaultRemindersSuppressed
  before,    \* the journal's before state of the action that closed it
  replan,    \* needsReminderRebuild
  active,    \* the recipient's account is active
  snoozed,   \* notificationsSnoozedUntil
  briefing,  \* the digest of the slot: "pending", "sent" or "gone"
  crashes, faults, edits, \* counters for the bounds
  contacts,  \* history: messages Telegram delivered, per row
  resets,    \* history: times a row was put back other than by its sender
  held       \* history: the rows Telegram has answered 429 for

domain == <<occurrence, muted, before, replan, active, snoozed, briefing>>
db == <<row, domain>>
bounds == <<crashes, faults, edits>>
history == <<contacts, resets, held>>
vars == <<scenario, now, process, row, jobs, worker, sweep, occurrence, muted, before,
          replan, active, snoozed, briefing, crashes, faults, edits, contacts, resets,
          held>>

NP == INSTANCE NotificationPolicy

Statuses == {"absent", "pending", "processing", "sent", "cancelled", "failed",
             "suppressed", "ambiguous"}
Reasons == {"none", "access", "quiet_stale", "snooze_stale",
            "no_longer_applicable", "superseded", "user_cancelled"}
(* The outcomes classifyTelegramSendError distinguishes; "transient" also  *)
(* stands for "unknown", which its callers treat alike.                    *)
Outcomes == {"none", "sent", "rejected", "rate_limited", "transient", "ambiguous"}
Steps == {"idle", "suppress", "defer", "enqueue", "bundle", "supersede",
          "claim", "send", "record", "escalate", "arm"}

(* The states from which a row never moves on its own. *)
Final == {"sent", "failed", "ambiguous", "cancelled"}
Live == {"pending", "processing"}

AtMost(t) == IF t <= Horizon THEN t ELSE Horizon

Time == 0 .. Horizon

(* One row.  escalation marks a deduplication key of the form              *)
(* rule:occurrence:critical-escalation:moment.                             *)
RowType == [status: Statuses, reason: Reasons, intended: Time, scheduled: Time,
            attempts: Nat, escalation: BOOLEAN]
NoRow == [status |-> "absent", reason |-> "none", intended |-> 0,
          scheduled |-> 0, attempts |-> 0, escalation |-> FALSE]
PlannedRow(at, escalation) ==
  [NoRow EXCEPT !.status = "pending", !.intended = at, !.scheduled = at,
                !.escalation = escalation]

(* A job names a row and the moment it becomes due.  The queue's "short"   *)
(* policy keeps one created job per row and moment, which the set does.    *)
Job == [id: Rows, at: Time, tries: 0 .. MaxAttempts]
Created(d, at) == [id |-> d, at |-> at, tries |-> 0]

(* A handler: the row it was called for, the attempts it read there, the    *)
(* time it read them at (seen), the moment its next update names (at), what *)
(* it is about to record (outcome, reason), and how often its job was tried.*)
(* That the occurrence was open when it looked is implied by its getting    *)
(* past the check.                                                          *)
Handler == [pc: Steps, id: Rows, attempts: Nat, seen: Time, at: Time,
            outcome: Outcomes, reason: Reasons, tries: 0 .. MaxAttempts]
Idle == [pc |-> "idle", id |-> 1, attempts |-> 0, seen |-> 0, at |-> 0,
         outcome |-> "none", reason |-> "none", tries |-> 0]

(* What undo restores besides the status. *)
Journal == [muted: BOOLEAN, replan: BOOLEAN]
NoJournal == [muted |-> FALSE, replan |-> FALSE]

Init ==
  /\ scenario \in Scenarios
  /\ now = 0
  /\ process = "up"
  /\ row = [d \in Rows |-> IF d = 1 THEN PlannedRow(scenario.firstAt, FALSE) ELSE NoRow]
  /\ jobs \in {{}, {Created(1, scenario.firstAt)}}
  /\ worker = [w \in Workers |-> Idle]
  /\ sweep = {}
  /\ occurrence = "open"
  /\ muted = FALSE
  /\ before = NoJournal
  /\ replan = FALSE
  /\ active = TRUE
  /\ snoozed = 0
  /\ briefing = "pending"
  /\ crashes = 0 /\ faults = 0 /\ edits = 0
  /\ contacts = [d \in Rows |-> 0]
  /\ resets = [d \in Rows |-> 0]
  /\ held = {}
-----------------------------------------------------------------------------
(* The contact of a row as the notification policy sees it: a task, whose   *)
(* boundary is its deadline, under a rule that respects quiet hours.        *)
Contact(r) == [intended |-> r.intended, kind |-> "task", boundary |-> scenario.dueAt,
               respect |-> TRUE, snoozedUntil |-> snoozed,
               attempted |-> r.attempts > 0]

Goto(w, pc) == worker' = [worker EXCEPT ![w].pc = pc]
Finish(w) == worker' = [worker EXCEPT ![w] = Idle]
At(w, pc) == process = "up" /\ worker[w].pc = pc

(* Mutant: the update does not look at the status. *)
Unguarded(w, expected, new) == row' = [row EXCEPT ![worker[w].id] = new]

(* UPDATE ... WHERE id = the handler's row AND status = expected. *)
Guarded(w, expected, new) ==
  row' = [row EXCEPT ![worker[w].id] = IF @.status = expected THEN new ELSE @]

(* Mutant: the queue retries once too often, and once more. *)
RetriesTooOften(h) ==
  {[id |-> h.id, at |-> AtMost(now + RetryDelay), tries |-> h.tries + 1]}

(* What the queue does with a failed job: run it again later, or give it up. *)
Retries(h) ==
  IF h.tries < MaxAttempts - 1
  THEN {[id |-> h.id, at |-> AtMost(now + RetryDelay), tries |-> h.tries + 1]}
  ELSE {}

(* The handler threw. *)
Throw(w) == jobs' = jobs \cup Retries(worker[w]) /\ Finish(w)

Fault == faults < scenario.faults /\ faults' = faults + 1

(* What deliver decides from one read of the row and everything joined to it.  *)
(* A row goes with its user, task, rule or date (its foreign keys cascade), so *)
(* "orphaned" finds nothing to write: the job ends like that of a row gone.    *)
Read(j) ==
  LET r == row[j.id]
      p == NP!Policy(Contact(r), now)
      h == [Idle EXCEPT !.id = j.id, !.tries = j.tries]
      suppressed(reason) == [h EXCEPT !.pc = "suppress", !.reason = reason]
  IN IF r.status # "pending" THEN Idle
     ELSE IF ~active THEN suppressed("access")
     ELSE IF muted \/ occurrence = "closed" THEN suppressed("no_longer_applicable")
     ELSE IF p.verdict \in NP!Suppressions THEN suppressed(p.verdict)
     ELSE IF p.at > now THEN [h EXCEPT !.pc = "defer", !.at = AtMost(p.at)]
     ELSE [h EXCEPT !.pc = "bundle", !.attempts = r.attempts, !.seen = now,
                    !.at = r.scheduled]

(* A worker fetches a due job and reads its row. *)
Take(w, j) ==
  /\ At(w, "idle")
  /\ j.at <= now
  /\ jobs' = jobs \ {j}
  /\ worker' = [worker EXCEPT ![w] = Read(j)]
  /\ UNCHANGED <<scenario, now, process, db, sweep, bounds, history>>

Suppress(w) ==
  /\ At(w, "suppress")
  /\ Guarded(w, "pending", [row[worker[w].id] EXCEPT
        !.status = "suppressed", !.reason = worker[w].reason])
  /\ Finish(w)
  /\ UNCHANGED <<scenario, now, process, jobs, sweep, domain, bounds, history>>

(* The moment moved: the row follows it, and a new job names it. *)
Defer(w) ==
  /\ At(w, "defer")
  /\ Guarded(w, "pending", [row[worker[w].id] EXCEPT !.scheduled = worker[w].at])
  /\ Goto(w, "enqueue")
  /\ UNCHANGED <<scenario, now, process, jobs, sweep, domain, bounds, history>>

Enqueue(w) ==
  /\ At(w, "enqueue")
  /\ jobs' = jobs \cup {Created(worker[w].id, worker[w].at)}
  /\ Finish(w)
  /\ UNCHANGED <<scenario, now, process, db, sweep, bounds, history>>

(* The queue is unreachable: the call throws out of the handler. *)
EnqueueFails(w) ==
  /\ At(w, "enqueue")
  /\ Fault
  /\ Throw(w)
  /\ UNCHANGED <<scenario, now, process, db, sweep, crashes, edits, history>>

(* bundleWithBriefing and reminderBriefingBundleDecision. *)
SameSlot(at) == at - scenario.briefingAt \in -SlotTolerance .. SlotTolerance
Bundle(w) ==
  LET h == worker[w]
      slot == scenario.importance # "normal" /\ SameSlot(h.at)
      wait == slot /\ briefing = "pending" /\ h.seen - scenario.briefingAt <= MaxBundleWait
  IN /\ At(w, "bundle")
     /\ worker' = [worker EXCEPT ![w] =
          IF slot /\ briefing = "sent" THEN [h EXCEPT !.pc = "supersede"]
          ELSE IF wait THEN [h EXCEPT !.pc = "enqueue", !.at = AtMost(h.seen + WaitStep)]
          ELSE [h EXCEPT !.pc = "claim", !.seen = 0, !.at = 0]]
     /\ UNCHANGED <<scenario, now, process, db, jobs, sweep, bounds, history>>

(* The digest was the contact of this slot; the escalation continues from it. *)
Supersede(w) ==
  /\ At(w, "supersede")
  /\ Guarded(w, "pending", [row[worker[w].id] EXCEPT
        !.status = "suppressed", !.reason = "superseded"])
  /\ worker' = [worker EXCEPT ![w].pc = "escalate", ![w].at = worker[w].seen]
  /\ UNCHANGED <<scenario, now, process, jobs, sweep, domain, bounds, history>>

(* Mutant: the handler does not look at whether its update matched. *)
ClaimUnchecked(w) ==
  /\ At(w, "claim")
  /\ Guarded(w, "pending", [row[worker[w].id] EXCEPT
        !.status = "processing", !.attempts = worker[w].attempts + 1])
  /\ Goto(w, "send")
  /\ UNCHANGED <<scenario, now, process, jobs, sweep, domain, bounds, history>>

Claim(w) ==
  /\ At(w, "claim")
  /\ Guarded(w, "pending", [row[worker[w].id] EXCEPT
        !.status = "processing", !.attempts = worker[w].attempts + 1])
  /\ IF row[worker[w].id].status = "pending" THEN Goto(w, "send") ELSE Finish(w)
  /\ UNCHANGED <<scenario, now, process, jobs, sweep, domain, bounds, history>>

(* The call to Telegram.  An ambiguous answer hides whether the message was *)
(* delivered; only a positive one and an ambiguous one can have done so.    *)
Send(w, outcome, delivered) ==
  /\ At(w, "send")
  /\ delivered => outcome \in {"sent", "ambiguous"}
  /\ outcome = "sent" => delivered
  /\ IF outcome = "rate_limited" THEN Fault ELSE UNCHANGED faults
  /\ worker' = [worker EXCEPT ![w].pc = "record", ![w].outcome = outcome,
                              ![w].at = now]
  /\ contacts' = IF delivered THEN [contacts EXCEPT ![worker[w].id] = @ + 1]
                              ELSE contacts
  /\ UNCHANGED <<scenario, now, process, db, jobs, sweep, crashes, edits,
                 resets, held>>

Recording(w, outcome) == At(w, "record") /\ worker[w].outcome = outcome

RecordSent(w) ==
  /\ Recording(w, "sent")
  /\ Guarded(w, "processing", [row[worker[w].id] EXCEPT !.status = "sent"])
  /\ Goto(w, "escalate")
  /\ UNCHANGED <<scenario, now, process, jobs, sweep, domain, bounds, history>>

(* The update that records a delivered message fails: the catch classifies  *)
(* the database error as unknown, as if nothing had been sent.              *)
RecordSentFails(w) ==
  /\ Recording(w, "sent")
  /\ Fault
  /\ worker' = [worker EXCEPT ![w].outcome = "transient"]
  /\ resets' = [resets EXCEPT ![worker[w].id] = @ + 1]
  /\ UNCHANGED <<scenario, now, process, db, jobs, sweep, crashes, edits,
                 contacts, held>>

(* A 429 gives the attempt back and waits for retry_after. *)
RecordRateLimited(w, after) ==
  LET h == worker[w] IN
  /\ Recording(w, "rate_limited")
  /\ Guarded(w, "processing", [row[h.id] EXCEPT !.status = "pending",
        !.attempts = h.attempts, !.scheduled = AtMost(now + after)])
  /\ worker' = [worker EXCEPT ![w].pc = "enqueue", ![w].at = AtMost(now + after)]
  /\ held' = held \cup {h.id}
  /\ UNCHANGED <<scenario, now, process, jobs, sweep, domain, bounds, contacts,
                 resets>>

(* A permanent rejection, or an outcome nobody can know: both are final. *)
RecordFinal(w) ==
  \E final \in {"rejected", "ambiguous"} :
    /\ Recording(w, final)
    /\ Guarded(w, "processing", [row[worker[w].id] EXCEPT
          !.status = IF final = "rejected" THEN "failed" ELSE "ambiguous"])
    /\ Finish(w)
    /\ UNCHANGED <<scenario, now, process, jobs, sweep, domain, bounds, history>>

(* Nothing was sent: the row waits for the queue's retry until its attempts *)
(* are spent.                                                               *)
RecordTransient(w) ==
  /\ Recording(w, "transient")
  /\ Guarded(w, "processing", [row[worker[w].id] EXCEPT !.status =
        IF worker[w].attempts + 1 >= MaxAttempts THEN "failed" ELSE "pending"])
  /\ Throw(w)
  /\ UNCHANGED <<scenario, now, process, sweep, domain, bounds, history>>

(* The database refuses recordSendFailure's own update: the row stays in    *)
(* processing, which only the next boot repairs.                            *)
RecordFailureFails(w) ==
  /\ At(w, "record")
  /\ worker[w].outcome # "sent"
  /\ Fault
  /\ Throw(w)
  /\ UNCHANGED <<scenario, now, process, db, sweep, crashes, edits, history>>
-----------------------------------------------------------------------------
(* scheduleNextCriticalEscalation, which trusts the occurrence deliver read.   *)
(* Its deduplication key is to the millisecond: contacts of one minute of the  *)
(* clock arm one row each, and no two contacts share a millisecond.            *)
Unused == {d \in Rows \cap scenario.rows : row[d].status = "absent"}
FreshRow == CHOOSE d \in Unused : TRUE
EscalationAt(at) == {d \in Rows : row[d].escalation /\ row[d].intended = at}

(* Mutant: a contact at the very deadline arms nothing. *)
EscalateAfterDue(w) ==
  LET next == AtMost(worker[w].at + Interval) IN
  /\ At(w, "escalate")
  /\ IF /\ scenario.importance = "critical"
        /\ scenario.dueAt < worker[w].at
        /\ Unused # {}
     THEN /\ row' = [row EXCEPT ![FreshRow] = PlannedRow(next, TRUE)]
          /\ worker' = [worker EXCEPT ![w].pc = "arm", ![w].at = next]
     ELSE Finish(w) /\ UNCHANGED row
  /\ UNCHANGED <<scenario, now, process, jobs, sweep, domain, bounds, history>>

Escalate(w) ==
  LET next == AtMost(worker[w].at + Interval) IN
  /\ At(w, "escalate")
  /\ IF /\ scenario.importance = "critical"
        /\ scenario.dueAt <= worker[w].at
        /\ Unused # {}
     THEN /\ row' = [row EXCEPT ![FreshRow] = PlannedRow(next, TRUE)]
          /\ worker' = [worker EXCEPT ![w].pc = "arm", ![w].at = next]
     ELSE Finish(w) /\ UNCHANGED row
  /\ UNCHANGED <<scenario, now, process, jobs, sweep, domain, bounds, history>>

(* The insert fails after the message was recorded as sent: the failure     *)
(* handler finds nothing in processing and rethrows.                        *)
EscalateFails(w) ==
  /\ At(w, "escalate")
  /\ Fault
  /\ Throw(w)
  /\ UNCHANGED <<scenario, now, process, db, sweep, crashes, edits, history>>

(* The new row is enqueued; one armed within the same minute is enqueued with  *)
(* it, twice at worst, as a sweep may do too.                                  *)
Arm(w) ==
  /\ At(w, "arm")
  /\ jobs' = jobs \cup {Created(d, worker[w].at) : d \in EscalationAt(worker[w].at)}
  /\ Finish(w)
  /\ UNCHANGED <<scenario, now, process, db, sweep, bounds, history>>

(* A failed enqueue is only logged: the sweep finds the row. *)
ArmFails(w) ==
  /\ At(w, "arm")
  /\ Fault
  /\ Finish(w)
  /\ UNCHANGED <<scenario, now, process, db, jobs, sweep, crashes, edits,
                 history>>

(* The handler outlives expireInSeconds: the queue runs the job again while *)
(* the handler goes on.  Its own end no longer reaches the queue.           *)
Expire(w) ==
  /\ process = "up"
  /\ worker[w].pc # "idle"
  /\ worker[w].tries < MaxAttempts
  /\ Fault
  /\ jobs' = jobs \cup Retries(worker[w])
  /\ worker' = [worker EXCEPT ![w].tries = MaxAttempts]
  /\ UNCHANGED <<scenario, now, process, db, sweep, crashes, edits, history>>
-----------------------------------------------------------------------------
(* Mutant: the sweep looks ahead only. *)
SweepReadAhead ==
  /\ process = "up"
  /\ sweep = {}
  /\ sweep' = {Created(d, row[d].scheduled) : d \in
        {e \in Rows : row[e].status = "pending"
                      /\ row[e].scheduled \in now .. (now + SweepAhead)}}
  /\ UNCHANGED <<scenario, now, process, db, jobs, worker, bounds, history>>

(* reconcile: every minute, all pending rows due soon are enqueued again,   *)
(* one queue call after another.  A call that fails is logged and skipped.  *)
SweepRead ==
  /\ process = "up"
  /\ sweep = {}
  /\ sweep' = {Created(d, row[d].scheduled) : d \in
        {e \in Rows : row[e].status = "pending" /\ row[e].scheduled <= now + SweepAhead}}
  /\ UNCHANGED <<scenario, now, process, db, jobs, worker, bounds, history>>

SweepSend(j) ==
  /\ process = "up"
  /\ j \in sweep
  /\ sweep' = sweep \ {j}
  /\ jobs' = jobs \cup {j}
  /\ UNCHANGED <<scenario, now, process, db, worker, bounds, history>>

SweepSendFails(j) ==
  /\ process = "up"
  /\ j \in sweep
  /\ Fault
  /\ sweep' = sweep \ {j}
  /\ UNCHANGED <<scenario, now, process, db, jobs, worker, crashes, edits,
                 history>>

(* The process dies: handlers are gone, and the queue expires their jobs.   *)
Crash ==
  /\ process # "down"
  /\ crashes < scenario.crashes
  /\ crashes' = crashes + 1
  /\ process' = "down"
  /\ jobs' = jobs \cup UNION {Retries(worker[w]) :
                  w \in {v \in Workers : worker[v].pc # "idle"}}
  /\ worker' = [w \in Workers |-> Idle]
  /\ sweep' = {}
  /\ UNCHANGED <<scenario, now, db, faults, edits, history>>

(* Mutant: boot forgets what was in processing. *)
RecoverNothing ==
  /\ process = "down"
  /\ process' = "recovered"
  /\ UNCHANGED <<scenario, now, db, jobs, worker, sweep, bounds, history>>

(* Boot, first: what the previous process left in processing is reset,      *)
(* before any worker runs.                                                  *)
Recover ==
  /\ process = "down"
  /\ process' = "recovered"
  /\ row' = [d \in Rows |-> IF row[d].status = "processing"
                            THEN [row[d] EXCEPT !.status = "pending"] ELSE row[d]]
  /\ resets' = [d \in Rows |-> IF row[d].status = "processing"
                               THEN resets[d] + 1 ELSE resets[d]]
  /\ UNCHANGED <<scenario, now, jobs, worker, sweep, domain, bounds, contacts,
                 held>>

(* Boot, second: everything pending is enqueued and the workers start. *)
Start ==
  /\ process = "recovered"
  /\ process' = "up"
  /\ jobs' = jobs \cup {Created(d, row[d].scheduled) :
                          d \in {e \in Rows : row[e].status = "pending"}}
  /\ UNCHANGED <<scenario, now, db, worker, sweep, bounds, history>>
-----------------------------------------------------------------------------
(* What users and operators do to the same rows, each in one transaction.   *)
Edit(kind) == kind \in scenario.kinds /\ edits < scenario.edits /\ edits' = edits + 1
UserEdit(kind) == process = "up" /\ Edit(kind)
OthersUnchanged == UNCHANGED <<scenario, now, process, jobs, worker, sweep,
                               crashes, faults>>

(* Mutant: only what is being sent is withdrawn. *)
WithdrawInFlight(which, status, reason) ==
  row' = [d \in Rows |->
            IF d \in which /\ row[d].status = "processing"
            THEN [row[d] EXCEPT !.status = status, !.reason = reason]
            ELSE row[d]]

(* Every live row of the occurrence, or the given ones, leaves the queue.   *)
Withdraw(which, status, reason) ==
  row' = [d \in Rows |->
            IF d \in which /\ row[d].status \in Live
            THEN [row[d] EXCEPT !.status = status, !.reason = reason]
            ELSE row[d]]

(* Rows suppressed for a reason that no longer holds come back if their     *)
(* moment has not passed.                                                   *)
Revivable(reason) ==
  {d \in Rows : /\ row[d].status = "suppressed"
                /\ row[d].reason = reason
                /\ row[d].scheduled > now}
Revive(reason) ==
  /\ row' = [d \in Rows |-> IF d \in Revivable(reason)
               THEN [row[d] EXCEPT !.status = "pending", !.reason = "none"]
               ELSE row[d]]
  /\ resets' = [d \in Rows |-> IF d \in Revivable(reason)
                               THEN resets[d] + 1 ELSE resets[d]]

(* completeOccurrenceInTx, updateOccurrenceInTx: done, skipped, cancelled. *)
Close ==
  /\ UserEdit("close")
  /\ occurrence = "open"
  /\ occurrence' = "closed"
  /\ before' = [muted |-> muted, replan |-> replan]
  /\ Withdraw(Rows, "suppressed", "no_longer_applicable")
  /\ OthersUnchanged /\ UNCHANGED <<muted, replan, active, snoozed, briefing,
                                    history>>

(* Undo of the above restores the whole row of the occurrence. *)
Reopen ==
  /\ UserEdit("reopen")
  /\ occurrence = "closed"
  /\ occurrence' = "open"
  /\ muted' = before.muted
  /\ replan' = before.replan
  /\ before' = NoJournal
  /\ Revive("no_longer_applicable")
  /\ OthersUnchanged /\ UNCHANGED <<active, snoozed, briefing, contacts, held>>

(* rescheduleOccurrenceInTx, changeReminderInTx: everything planned is      *)
(* cancelled and the occurrence asks for a new plan.                        *)
Reschedule ==
  /\ UserEdit("reschedule")
  /\ occurrence = "open"
  /\ replan' = TRUE
  /\ Withdraw(Rows, "cancelled", "superseded")
  /\ OthersUnchanged
  /\ UNCHANGED <<occurrence, muted, before, active, snoozed, briefing, history>>

(* rebuildOccurrence for the plan just asked for: rows planned meanwhile go,*)
(* escalations stay, and one contact is planned at a moment still to come.  *)
Replan(at) ==
  /\ process = "up"
  /\ replan
  /\ replan' = FALSE
  /\ IF occurrence = "closed" \/ muted
     THEN UNCHANGED <<row, jobs>>
     ELSE /\ Unused # {}
          /\ at >= now
          /\ row' = [d \in Rows |->
               IF d = FreshRow THEN PlannedRow(at, FALSE)
               ELSE IF row[d].status \in Live /\ ~row[d].escalation
               THEN [row[d] EXCEPT !.status = "cancelled", !.reason = "superseded"]
               ELSE row[d]]
          /\ jobs' = jobs \cup {Created(FreshRow, at)}
  /\ UNCHANGED <<scenario, now, process, worker, sweep, occurrence, muted,
                 before, active,
                 snoozed, briefing, bounds, history>>

(* muteDefaultReminders: the user asked the escalation to stop. *)
Mute ==
  /\ UserEdit("mute")
  /\ ~muted
  /\ muted' = TRUE
  /\ Withdraw(Rows, "suppressed", "user_cancelled")
  /\ OthersUnchanged
  /\ UNCHANGED <<occurrence, before, replan, active, snoozed, briefing, history>>

(* cancelUpcoming: one pending reminder is taken off the list. *)
CancelUpcoming(d) ==
  /\ UserEdit("withdraw")
  /\ row[d].status = "pending"
  /\ Withdraw({d}, "cancelled", "superseded")
  /\ OthersUnchanged /\ UNCHANGED <<domain, history>>

(* The account is disabled, or asks to be deleted; and comes back. *)
Disable ==
  /\ Edit("disable")
  /\ active
  /\ active' = FALSE
  /\ Withdraw(Rows, "suppressed", "access")
  /\ OthersUnchanged
  /\ UNCHANGED <<occurrence, muted, before, replan, snoozed, briefing, history>>

Restore ==
  /\ Edit("restore")
  /\ ~active
  /\ active' = TRUE
  /\ Revive("access")
  /\ OthersUnchanged
  /\ UNCHANGED <<occurrence, muted, before, replan, snoozed, briefing,
                 contacts, held>>

(* All notifications are held back until t. *)
Snooze(t) ==
  /\ UserEdit("snooze")
  /\ t > now
  /\ snoozed' = t
  /\ OthersUnchanged
  /\ UNCHANGED <<row, occurrence, muted, before, replan, active, briefing,
                 history>>

(* The digest of the slot is sent (or may have been), or will not be.       *)
BriefingSettles(status) ==
  /\ scenario.importance # "normal"
  /\ briefing = "pending"
  /\ now >= scenario.briefingAt
  /\ briefing' = status
  /\ UNCHANGED <<scenario, now, process, row, jobs, worker, sweep, occurrence,
                 muted,
                 before, replan, active, snoozed, bounds, history>>

Tick ==
  /\ now < Horizon
  /\ now' = now + 1
  /\ UNCHANGED <<scenario, process, db, jobs, worker, sweep, bounds, history>>

(* The end of the modelled time: nothing is left to do. *)
Done ==
  /\ now = Horizon
  /\ process = "up"
  /\ jobs = {} /\ sweep = {}
  /\ \A w \in Workers : worker[w].pc = "idle"
  /\ UNCHANGED vars
-----------------------------------------------------------------------------
Deliver(w) ==
  \/ \E j \in jobs : Take(w, j)
  \/ Suppress(w) \/ Defer(w) \/ Enqueue(w)
  \/ Bundle(w) \/ Supersede(w) \/ Claim(w)
  \/ \E o \in Outcomes \ {"none"}, delivered \in BOOLEAN : Send(w, o, delivered)
  \/ RecordSent(w) \/ RecordFinal(w) \/ RecordTransient(w)
  \/ \E after \in RetryAfter : RecordRateLimited(w, after)
  \/ Escalate(w) \/ Arm(w)

Fails(w) ==
  \/ EnqueueFails(w) \/ RecordSentFails(w) \/ RecordFailureFails(w)
  \/ EscalateFails(w) \/ ArmFails(w) \/ Expire(w)

Reconcile == SweepRead \/ \E j \in sweep : SweepSend(j)
Boot == Recover \/ Start

Users ==
  \/ Close \/ Reopen \/ Reschedule \/ Mute \/ Disable \/ Restore
  \/ \E t \in Time : Replan(t) \/ Snooze(t)
  \/ \E d \in Rows : CancelUpcoming(d)

Next ==
  \/ \E w \in Workers : Deliver(w) \/ Fails(w)
  \/ Reconcile
  \/ \E j \in sweep : SweepSendFails(j)
  \/ Crash \/ Boot
  \/ Users
  \/ \E status \in {"sent", "gone"} : BriefingSettles(status)
  \/ Tick \/ Done

Spec == Init /\ [][Next]_vars

(* Handlers, the sweep and boot are driven by timers and by the queue, and  *)
(* time passes; nothing obliges users, faults or crashes to happen.         *)
Fairness ==
  /\ \A w \in Workers : WF_vars(Deliver(w))
  /\ WF_vars(Reconcile)
  /\ WF_vars(Boot)
  /\ WF_vars(Tick)

FairSpec == Spec /\ Fairness
-----------------------------------------------------------------------------
TypeOK ==
  /\ scenario \in Scenarios
  /\ now \in Time
  /\ process \in {"down", "recovered", "up"}
  /\ row \in [Rows -> RowType]
  /\ jobs \subseteq Job
  /\ worker \in [Workers -> Handler]
  /\ sweep \subseteq Job
  /\ occurrence \in {"open", "closed"}
  /\ muted \in BOOLEAN /\ replan \in BOOLEAN /\ active \in BOOLEAN
  /\ before \in Journal
  /\ snoozed \in Time
  /\ briefing \in {"pending", "sent", "gone"}
  /\ crashes \in 0 .. scenario.crashes
  /\ faults \in 0 .. scenario.faults
  /\ edits \in 0 .. scenario.edits
  /\ contacts \in [Rows -> Nat]
  /\ resets \in [Rows -> Nat]
  /\ held \subseteq Rows

(* The handlers that have claimed row d and not yet recorded an outcome. *)
Senders(d) == {w \in Workers : worker[w].id = d /\ worker[w].pc \in {"send", "record"}}

(* A row in processing has a handler that is going to record its outcome,   *)
(* unless the database refused that record: nothing but a boot looks at     *)
(* such a row again, so it must not arise any other way.                    *)
ProcessingIsOwned ==
  \A d \in Rows :
    (process = "up" /\ faults = 0 /\ row[d].status = "processing") => Senders(d) # {}

(* One row makes one contact.  A second message for the same row needs a    *)
(* boot recovery, a revival or a lost record: no interleaving of handlers,  *)
(* retries, expired jobs, sweeps and edits is enough.                       *)
ContactsAreCounted == \A d \in Rows : contacts[d] <= 1 + resets[d]

(* A row is taken up only for a recipient who may be contacted, about an    *)
(* occurrence that is open and not muted, at the moment of the claim and    *)
(* not only when the handler looked some steps earlier: "Reminder state is  *)
(* rechecked at delivery time" (README).  A row that was put back after the *)
(* handler looked is the exception.                                         *)
ClaimsAreCurrent ==
  [][\A d \in Rows :
       /\ row[d].status = "pending" /\ row'[d].status = "processing"
       /\ resets[d] = 0
      => active /\ occurrence = "open" /\ ~muted]_vars

(* A row that was sent, rejected, cancelled or may have been sent is never  *)
(* touched again, whatever retries, sweeps, boots and undos come later.     *)
FinalIsFinal ==
  [][\A d \in Rows : row[d].status \in Final => row'[d].status = row[d].status]_vars

(* The contacts an escalation continues from: rows sent, or given up to the *)
(* digest of their slot, when the deadline had passed; and the escalations  *)
(* armed, or about to be.                                                   *)
Contacted ==
  {d \in Rows : /\ \/ row[d].status = "sent"
                   \/ row[d].status = "suppressed" /\ row[d].reason = "superseded"
                /\ row[d].intended >= scenario.dueAt}
Escalations == {d \in Rows : row[d].escalation}
Escalating == {w \in Workers : worker[w].pc = "escalate"}

(* "Critical post-due escalation must still continue from that contact      *)
(* while the obligation remains open": every contact about a critical task  *)
(* past its deadline has armed a next one, or its handler is about to.  So  *)
(* says reminder-queue.service.ts; as the rows and the time of a model are  *)
(* limited, the last contact has no successor.                              *)
EscalationContinues ==
  (scenario.importance = "critical" /\ occurrence = "open" /\ Unused # {}
     /\ now + Interval <= Horizon)
    => Cardinality(Contacted) <= Cardinality(Escalations) + Cardinality(Escalating)

(* One contact arms one next contact: escalations do not multiply, however  *)
(* many handlers race on one row.                                           *)
EscalationIsSingle == Cardinality(Escalations) <= Cardinality(Contacted)

(* Escalation keeps pace with the contacts as long as no call has failed: it *)
(* neither stops nor forks.                                                  *)
EscalationKeepsPace == faults = 0 => EscalationContinues /\ EscalationIsSingle

(* A row Telegram asked to wait is not given up as stale for the time it    *)
(* waited: "a 429 waits for Telegram's retry_after" (README).               *)
GivenUp(d) ==
  /\ row[d].status = "pending" /\ row'[d].status = "suppressed"
  /\ row'[d].reason = "no_longer_applicable"
  /\ occurrence = "open" /\ ~muted

RateLimitedIsKept == [][\A d \in held : ~GivenUp(d)]_vars

(* Every pending row is dealt with, whatever jobs are lost to crashes, to   *)
(* failing calls or to spent retries: the sweep finds it.                   *)
PendingIsServed ==
  \A d \in Rows : row[d].status = "pending" ~> row[d].status # "pending"
=============================================================================
