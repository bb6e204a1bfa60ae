--------------------------- MODULE BriefingDelivery ---------------------------
(***************************************************************************)
(* The morning digest of one recipient: the reconciliation pass that lays  *)
(* down one briefing_deliveries row per local date and chosen hour         *)
(* (briefings/briefing-scheduling.service.ts), and the workers that send   *)
(* the rows (briefings/briefing-queue.service.ts).  The weekly card is the *)
(* same program under another key.                                         *)
(*                                                                         *)
(* The pass reads the settings once, then for today and tomorrow reads the *)
(* rows of that date and updates them one statement after another, so what *)
(* it decides from may be old by the time it writes.  Unlike reminders,    *)
(* digests have no sweep of their own: the pass is also what repairs a     *)
(* lost job.                                                               *)
(*                                                                         *)
(* Time is an abstract clock; a day has Day moments, a row is named by its *)
(* date and its hour, and Zone shifts the recipient's calendar.            *)
(***************************************************************************)
EXTENDS Integers, FiniteSets

CONSTANTS
  Workers,      \* concurrent job handlers of the queue
  Day,          \* the moments of a day
  Slots,        \* the hours the digest may be set to
  Zones,        \* the offsets of digestTimezone
  LateGrace,    \* LATE_START_GRACE_MS
  MaxAttempts,  \* MAX_ATTEMPTS
  RetryDelay,   \* when the queue runs a failed job again
  RetryAfter,   \* the retry_after values Telegram may answer with
  Quiet,        \* the moments inside quiet hours
  QuietSearch,  \* how far the end of quiet hours is looked for
  Horizon,      \* bound: the last moment; later moments are cut to it
  Scenarios     \* bound: the disturbances there may be

EditKinds == {"digest", "zone", "snooze", "disable", "restore"}

(* A scenario bounds how many handlers run at once, how many crashes,        *)
(* failing calls (of the database or the queue, 429s, timeouts) and edits    *)
(* there may be, and edits of which kinds.                                   *)
Scenario ==
  [handlers: Nat, crashes: Nat, faults: Nat, edits: Nat, kinds: SUBSET EditKinds]

ASSUME BriefingAssumption ==
  /\ IsFiniteSet(Workers)
  /\ Day \in Nat \ {0}
  /\ Slots \subseteq 0 .. (Day - 1) /\ Slots # {}
  /\ Zones \subseteq 0 .. (Day - 1) /\ 0 \in Zones
  /\ {LateGrace, RetryDelay, QuietSearch} \subseteq Nat
  /\ RetryAfter \subseteq Nat /\ Quiet \subseteq Nat
  /\ MaxAttempts \in Nat \ {0}
  /\ Scenarios \subseteq Scenario
  /\ Horizon \in Nat

VARIABLES
  scenario, \* the bounds, the same throughout
  now,      \* the clock
  process,  \* "down", "recovered" (rows reset, workers not started) or "up"
  row,      \* the briefing_deliveries table, by deduplication key
  jobs,     \* the queue's jobs in state created (tries = 0) or retry
  worker,   \* the handlers
  pass,     \* the reconciliation pass
  settings, \* the recipient's digest: enabled, slot, zone
  active,   \* the recipient's account is active
  snoozed,  \* notificationsSnoozedUntil
  crashes, faults, edits, \* counters for the bounds
  contacts, \* history: cards Telegram delivered, per row
  resets,   \* history: times a row was put back other than by its sender
  wanted    \* history: the rows some settings asked for in time

user == <<settings, active, snoozed>>
bounds == <<crashes, faults, edits>>
history == <<contacts, resets, wanted>>
vars == <<scenario, now, process, row, jobs, worker, pass, settings, active, snoozed,
          crashes, faults, edits, contacts, resets, wanted>>

Time == 0 .. Horizon
AtMost(t) == IF t <= Horizon THEN t ELSE Horizon

(* localDateAt and localDateAndTimeToUtc. *)
LocalDate(t, zone) == (t + zone) \div Day
SlotAt(key, zone) == key.date * Day + key.slot - zone

(* ${date}:${time}: the key names the hour but not the time zone. *)
Dates == 0 .. (LocalDate(Horizon, Day) + 1)
Keys == [date: Dates, slot: Slots]

Live == {"pending", "processing"}
Final == {"sent", "failed", "ambiguous"}
Statuses == {"absent", "suppressed"} \cup Live \cup Final
Outcomes == {"none", "sent", "rejected", "rate_limited", "transient", "ambiguous"}
Steps == {"idle", "suppress", "defer", "enqueue", "claim", "build", "send", "record"}

(* scheduledFor may lie before the clock's start: yesterday's slot moved by *)
(* a time zone.                                                             *)
Moments == (-Day) .. (Horizon + 3 * Day)
RowType == [status: Statuses, reason: {"none", "access", "superseded", "other"},
            scheduled: Moments, attempts: Nat]
NoRow == [status |-> "absent", reason |-> "none", scheduled |-> 0, attempts |-> 0]

Job == [key: Keys, at: Moments, tries: 0 .. MaxAttempts]
Created(key, at) == [key |-> key, at |-> at, tries |-> 0]

AnyKey == [date |-> 0, slot |-> CHOOSE s \in Slots : TRUE]
Handler == [pc: Steps, key: Keys, attempts: Nat, at: Moments,
            outcome: Outcomes, access: BOOLEAN, tries: 0 .. MaxAttempts]
Idle == [pc |-> "idle", key |-> AnyKey, attempts |-> 0, at |-> 0,
         outcome |-> "none", access |-> FALSE, tries |-> 0]

(* The pass: the settings and the time it started from, the date it is at,  *)
(* and what it read of the rows of that date and has not dealt with yet.    *)
Seen == [status: Statuses, scheduled: Moments]
Settings == [enabled: BOOLEAN, slot: Slots, zone: Zones]
Pass == [pc: {"idle", "read", "apply", "enqueue"}, at: Time, by: Settings,
         date: Dates, seen: [Slots -> Seen]]
Unseen == [status |-> "absent", scheduled |-> 0]
NoPass == [pc |-> "idle", at |-> 0, date |-> 0, seen |-> [s \in Slots |-> Unseen],
           by |-> [enabled |-> FALSE, slot |-> AnyKey.slot, zone |-> 0]]

(* The rows these settings ask for while they can still be created. *)
Asked(by, t) ==
  {k \in Keys : /\ by.enabled /\ k.slot = by.slot
                /\ t <= SlotAt(k, by.zone) + LateGrace}

Init ==
  /\ scenario \in Scenarios
  /\ now = 0
  /\ process = "up"
  /\ row = [k \in Keys |-> NoRow]
  /\ jobs = {}
  /\ worker = [w \in Workers |-> Idle]
  /\ pass = NoPass
  /\ settings \in {s \in Settings : s.zone = 0}
  /\ active = TRUE
  /\ snoozed = 0
  /\ crashes = 0 /\ faults = 0 /\ edits = 0
  /\ contacts = [k \in Keys |-> 0]
  /\ resets = [k \in Keys |-> 0]
  /\ wanted = Asked(settings, 0)
-----------------------------------------------------------------------------
At(w, pc) == process = "up" /\ worker[w].pc = pc
Goto(w, pc) == worker' = [worker EXCEPT ![w].pc = pc]
Finish(w) == worker' = [worker EXCEPT ![w] = Idle]
Fault == faults < scenario.faults /\ faults' = faults + 1

(* UPDATE ... WHERE id = the handler's row AND status = expected. *)
Guarded(w, expected, new) ==
  row' = [row EXCEPT ![worker[w].key] = IF @.status = expected THEN new ELSE @]

(* Mutant: the queue retries once too often, and once more. *)
RetriesTooOften(h) ==
  {[key |-> h.key, at |-> AtMost(now + RetryDelay), tries |-> h.tries + 1]}

(* What the queue does with a failed job: run it again later, or give it up. *)
Retries(h) ==
  IF h.tries < MaxAttempts - 1
  THEN {[key |-> h.key, at |-> AtMost(now + RetryDelay), tries |-> h.tries + 1]}
  ELSE {}
Throw(w) == jobs' = jobs \cup Retries(worker[w]) /\ Finish(w)

(* When the card may go out: after the snooze, and then after quiet hours.  *)
(* The scan for their end gives up after QuietSearch and takes what it has. *)
AfterSnooze == IF snoozed > now THEN snoozed ELSE now
NextNonQuiet(t) ==
  CHOOSE u \in t .. (t + QuietSearch) :
    /\ u \notin Quiet \/ u = t + QuietSearch
    /\ t .. (u - 1) \subseteq Quiet

(* What deliver decides from one read of the row, the user and settings. *)
Read(j) ==
  LET r == row[j.key]
      next == NextNonQuiet(AfterSnooze)
      ofToday(t) == LocalDate(t, settings.zone) = j.key.date
      h == [Idle EXCEPT !.key = j.key, !.tries = j.tries]
  IN IF r.status # "pending" THEN Idle
     ELSE IF ~active THEN [h EXCEPT !.pc = "suppress", !.access = TRUE]
     ELSE IF r.scheduled > now THEN [h EXCEPT !.pc = "enqueue", !.at = r.scheduled]
     ELSE IF ~ofToday(now) \/ ~ofToday(next) THEN [h EXCEPT !.pc = "suppress"]
     ELSE IF next > now THEN [h EXCEPT !.pc = "defer", !.at = AtMost(next)]
     ELSE [h EXCEPT !.pc = "claim", !.attempts = r.attempts]

Busy == {w \in Workers : worker[w].pc # "idle"}

Take(w, j) ==
  /\ At(w, "idle")
  /\ Cardinality(Busy) < scenario.handlers
  /\ j.at <= now
  /\ jobs' = jobs \ {j}
  /\ worker' = [worker EXCEPT ![w] = Read(j)]
  /\ UNCHANGED <<scenario, now, process, row, pass, user, bounds, history>>

(* "access" can be revived; the reasons to do with time cannot. *)
Suppress(w) ==
  /\ At(w, "suppress")
  /\ Guarded(w, "pending", [row[worker[w].key] EXCEPT !.status = "suppressed",
        !.reason = IF worker[w].access THEN "access" ELSE "other"])
  /\ Finish(w)
  /\ UNCHANGED <<scenario, now, process, jobs, pass, user, bounds, history>>

Defer(w) ==
  /\ At(w, "defer")
  /\ Guarded(w, "pending", [row[worker[w].key] EXCEPT !.scheduled = worker[w].at])
  /\ Goto(w, "enqueue")
  /\ UNCHANGED <<scenario, now, process, jobs, pass, user, bounds, history>>

Enqueue(w) ==
  /\ At(w, "enqueue")
  /\ jobs' = jobs \cup {Created(worker[w].key, worker[w].at)}
  /\ Finish(w)
  /\ UNCHANGED <<scenario, now, process, row, pass, user, bounds, history>>

EnqueueFails(w) ==
  /\ At(w, "enqueue")
  /\ Fault
  /\ Throw(w)
  /\ UNCHANGED <<scenario, now, process, row, pass, user, crashes, edits,
                 history>>

(* Mutant: the handler does not look at whether its update matched. *)
ClaimUnchecked(w) ==
  /\ At(w, "claim")
  /\ Guarded(w, "pending", [row[worker[w].key] EXCEPT
        !.status = "processing", !.attempts = worker[w].attempts + 1])
  /\ Goto(w, "build")
  /\ UNCHANGED <<scenario, now, process, jobs, pass, user, bounds, history>>

Claim(w) ==
  /\ At(w, "claim")
  /\ Guarded(w, "pending", [row[worker[w].key] EXCEPT
        !.status = "processing", !.attempts = worker[w].attempts + 1])
  /\ IF row[worker[w].key].status = "pending" THEN Goto(w, "build") ELSE Finish(w)
  /\ UNCHANGED <<scenario, now, process, jobs, pass, user, bounds, history>>

(* The day has something to say, or the row is closed as empty. *)
Build(w) ==
  /\ At(w, "build")
  /\ \/ Goto(w, "send") /\ UNCHANGED row
     \/ /\ Guarded(w, "processing", [row[worker[w].key] EXCEPT
             !.status = "suppressed", !.reason = "other"])
        /\ Finish(w)
  /\ UNCHANGED <<scenario, now, process, jobs, pass, user, bounds, history>>

(* The call to Telegram; a card whose content could not be read ends as     *)
(* "transient" too.                                                         *)
Send(w, outcome, delivered) ==
  /\ At(w, "send")
  /\ delivered => outcome \in {"sent", "ambiguous"}
  /\ outcome = "sent" => delivered
  /\ IF outcome \in {"rate_limited", "ambiguous"} THEN Fault ELSE UNCHANGED faults
  /\ worker' = [worker EXCEPT ![w].pc = "record", ![w].outcome = outcome]
  /\ contacts' = IF delivered THEN [contacts EXCEPT ![worker[w].key] = @ + 1]
                              ELSE contacts
  /\ UNCHANGED <<scenario, now, process, row, jobs, pass, user, crashes, edits,
                 resets, wanted>>

Recording(w, outcome) == At(w, "record") /\ worker[w].outcome = outcome

(* Delivered, refused for good, or nobody knows: the row is closed. *)
FinalStatus == [sent |-> "sent", rejected |-> "failed", ambiguous |-> "ambiguous"]
RecordFinal(w) ==
  \E outcome \in DOMAIN FinalStatus :
    /\ Recording(w, outcome)
    /\ Guarded(w, "processing",
               [row[worker[w].key] EXCEPT !.status = FinalStatus[outcome]])
    /\ Finish(w)
    /\ UNCHANGED <<scenario, now, process, jobs, pass, user, bounds, history>>

(* The update that records a delivered card fails, and is taken for a send  *)
(* that failed.                                                             *)
RecordSentFails(w) ==
  /\ Recording(w, "sent")
  /\ Fault
  /\ worker' = [worker EXCEPT ![w].outcome = "transient"]
  /\ resets' = [resets EXCEPT ![worker[w].key] = @ + 1]
  /\ UNCHANGED <<scenario, now, process, row, jobs, pass, user, crashes, edits,
                 contacts, wanted>>

RecordRateLimited(w, after) ==
  LET h == worker[w] IN
  /\ Recording(w, "rate_limited")
  /\ Guarded(w, "processing", [row[h.key] EXCEPT !.status = "pending",
        !.attempts = h.attempts, !.scheduled = AtMost(now + after)])
  /\ worker' = [worker EXCEPT ![w].pc = "enqueue", ![w].at = AtMost(now + after)]
  /\ UNCHANGED <<scenario, now, process, jobs, pass, user, bounds, history>>

RecordTransient(w) ==
  /\ Recording(w, "transient")
  /\ Guarded(w, "processing", [row[worker[w].key] EXCEPT !.status =
        IF worker[w].attempts + 1 >= MaxAttempts THEN "failed" ELSE "pending"])
  /\ Throw(w)
  /\ UNCHANGED <<scenario, now, process, pass, user, bounds, history>>

(* The update inside the catch fails as well: only a boot sees the row again. *)
RecordFailureFails(w) ==
  /\ \E outcome \in Outcomes \ {"none", "sent"} : Recording(w, outcome)
  /\ Fault
  /\ Throw(w)
  /\ UNCHANGED <<scenario, now, process, row, pass, user, crashes, edits,
                 history>>
-----------------------------------------------------------------------------
(* The reconciliation pass.  Its timer never lets two passes overlap.       *)
PassAt(pc) == process # "down" /\ pass.pc = pc

(* reconcile: the settings, if the user is active, and what day it is. *)
PassBegin ==
  /\ PassAt("idle")
  /\ pass' = IF active
             THEN [NoPass EXCEPT !.pc = "read", !.at = now, !.by = settings,
                                 !.date = LocalDate(now, settings.zone)]
             ELSE NoPass
  /\ UNCHANGED <<scenario, now, process, row, jobs, worker, user, bounds,
                 history>>

PassRead ==
  /\ PassAt("read")
  /\ pass' = [pass EXCEPT !.pc = "apply", !.seen = [s \in Slots |->
        LET r == row[[date |-> pass.date, slot |-> s]]
        IN [status |-> r.status, scheduled |-> r.scheduled]]]
  /\ UNCHANGED <<scenario, now, process, row, jobs, worker, user, bounds,
                 history>>

Expected(s) == pass.by.enabled /\ s = pass.by.slot

(* The rows of this date the settings no longer ask for. *)
Obsolete == {s \in Slots : pass.seen[s].status \in Live /\ ~Expected(s)}

PassRetire(s) ==
  /\ PassAt("apply")
  /\ s \in Obsolete
  /\ row' = [row EXCEPT ![[date |-> pass.date, slot |-> s]] =
       IF @.status \in Live THEN [@ EXCEPT !.status = "suppressed", !.reason = "superseded"]
       ELSE @]
  /\ pass' = [pass EXCEPT !.seen[s] = Unseen]
  /\ UNCHANGED <<scenario, now, process, jobs, worker, user, bounds, history>>

(* materializeDate for the slot the settings ask for: nothing to do, the    *)
(* row read before is laid down again, or a new row.                        *)
NextDate ==
  IF pass.date = LocalDate(pass.at, pass.by.zone)
  THEN [pass EXCEPT !.pc = "read", !.date = @ + 1, !.seen = NoPass.seen]
  ELSE NoPass

PassKey == [date |-> pass.date, slot |-> pass.by.slot]
Due == SlotAt(PassKey, pass.by.zone)
Prior == pass.seen[pass.by.slot]

(* Mutant: an hour long gone is laid down all the same. *)
NothingTooLate ==
  \/ ~pass.by.enabled
  \/ Due < pass.at - Day
  \/ Prior.status \in {"sent", "processing", "failed"}
  \/ Prior.status = "suppressed" /\ Due <= pass.at

NothingToDo ==
  \/ ~pass.by.enabled
  \/ Due < pass.at - Day
  \/ Prior.status = "absent" /\ Due < pass.at - LateGrace
  \/ Prior.status \in {"sent", "processing", "failed"}
  \/ Prior.status = "suppressed" /\ Due <= pass.at

PassSkip ==
  /\ PassAt("apply") /\ Obsolete = {}
  /\ NothingToDo
  /\ pass' = NextDate
  /\ UNCHANGED <<scenario, now, process, row, jobs, worker, user, bounds,
                 history>>

(* The update looks at what was read, not at what the row is now. *)
PassRenew ==
  /\ PassAt("apply") /\ Obsolete = {}
  /\ ~NothingToDo /\ Prior.status # "absent"
  /\ IF Prior.status = "pending" /\ Prior.scheduled = Due
     THEN UNCHANGED <<row, resets>>
     ELSE /\ row' = [row EXCEPT ![PassKey] = [@ EXCEPT !.status = "pending",
                        !.reason = "none", !.scheduled = Due]]
          /\ resets' = [resets EXCEPT ![PassKey] =
                          IF row[PassKey].status = "pending" THEN @ ELSE @ + 1]
  /\ pass' = [pass EXCEPT !.pc = "enqueue"]
  /\ UNCHANGED <<scenario, now, process, jobs, worker, user, bounds, contacts,
                 wanted>>

PassInsert ==
  /\ PassAt("apply") /\ Obsolete = {}
  /\ ~NothingToDo /\ Prior.status = "absent"
  /\ IF row[PassKey].status = "absent"
     THEN /\ row' = [row EXCEPT ![PassKey] =
                       [NoRow EXCEPT !.status = "pending", !.scheduled = Due]]
          /\ pass' = [pass EXCEPT !.pc = "enqueue"]
     ELSE pass' = NextDate /\ UNCHANGED row
  /\ UNCHANGED <<scenario, now, process, jobs, worker, user, bounds, history>>

(* Mutant: the pass does not name the row to the queue. *)
PassEnqueueNothing ==
  /\ PassAt("enqueue")
  /\ pass' = NextDate
  /\ UNCHANGED <<scenario, now, process, row, jobs, worker, user, bounds,
                 history>>

PassEnqueue ==
  /\ PassAt("enqueue")
  /\ jobs' = jobs \cup {Created(PassKey, Due)}
  /\ pass' = NextDate
  /\ UNCHANGED <<scenario, now, process, row, worker, user, bounds, history>>

(* A failed enqueue is logged; any other failure ends the pass. *)
PassFails ==
  /\ process # "down" /\ pass.pc # "idle"
  /\ Fault
  /\ pass' = IF pass.pc = "enqueue" THEN NextDate ELSE NoPass
  /\ UNCHANGED <<scenario, now, process, row, jobs, worker, user, crashes,
                 edits, history>>
-----------------------------------------------------------------------------
Crash ==
  /\ process # "down"
  /\ crashes < scenario.crashes
  /\ crashes' = crashes + 1
  /\ process' = "down"
  /\ jobs' = jobs \cup UNION {Retries(worker[w]) : w \in Busy}
  /\ worker' = [w \in Workers |-> Idle]
  /\ pass' = NoPass
  /\ UNCHANGED <<scenario, now, row, user, faults, edits, history>>

(* Boot: what was being sent is reset, then pending rows are enqueued and   *)
(* the workers start.  The first pass may run before, between or after.     *)
Recover ==
  /\ process = "down"
  /\ process' = "recovered"
  /\ row' = [k \in Keys |-> IF row[k].status = "processing"
                            THEN [row[k] EXCEPT !.status = "pending"] ELSE row[k]]
  /\ resets' = [k \in Keys |-> IF row[k].status = "processing"
                               THEN resets[k] + 1 ELSE resets[k]]
  /\ UNCHANGED <<scenario, now, jobs, worker, pass, user, bounds, contacts,
                 wanted>>

Start ==
  /\ process = "recovered"
  /\ process' = "up"
  /\ jobs' = jobs \cup {Created(k, row[k].scheduled) :
                          k \in {l \in Keys : row[l].status = "pending"}}
  /\ UNCHANGED <<scenario, now, row, worker, pass, user, bounds, history>>
-----------------------------------------------------------------------------
Edit(kind) == kind \in scenario.kinds /\ edits < scenario.edits /\ edits' = edits + 1
Elsewhere == UNCHANGED <<scenario, now, process, jobs, worker, pass, crashes,
                         faults>>

(* The digest is turned on or off, or moved to another hour or zone.  Only  *)
(* the settings row is written.                                             *)
ChangeSettings(s) ==
  /\ \/ Edit("digest") /\ s.zone = settings.zone
     \/ Edit("zone") /\ s.enabled = settings.enabled /\ s.slot = settings.slot
  /\ s # settings
  /\ settings' = s
  /\ wanted' = wanted \cup Asked(s, now)
  /\ Elsewhere
  /\ UNCHANGED <<row, active, snoozed, contacts, resets>>

Snooze(t) ==
  /\ Edit("snooze")
  /\ t > now
  /\ snoozed' = t
  /\ Elsewhere
  /\ UNCHANGED <<row, settings, active, history>>

Disable ==
  /\ Edit("disable")
  /\ active
  /\ active' = FALSE
  /\ row' = [k \in Keys |-> IF row[k].status \in Live
       THEN [row[k] EXCEPT !.status = "suppressed", !.reason = "access"] ELSE row[k]]
  /\ Elsewhere
  /\ UNCHANGED <<settings, snoozed, history>>

(* Rows whose moment has not passed come back. *)
Restore ==
  LET back == {k \in Keys : row[k].status = "suppressed" /\ row[k].reason = "access"
                            /\ row[k].scheduled > now}
  IN /\ Edit("restore")
     /\ ~active
     /\ active' = TRUE
     /\ row' = [k \in Keys |-> IF k \in back
          THEN [row[k] EXCEPT !.status = "pending", !.reason = "none"] ELSE row[k]]
     /\ resets' = [k \in Keys |-> IF k \in back THEN resets[k] + 1 ELSE resets[k]]
     /\ Elsewhere
     /\ UNCHANGED <<settings, snoozed, contacts, wanted>>

Tick ==
  /\ now < Horizon
  /\ now' = now + 1
  /\ wanted' = wanted \cup Asked(settings, now + 1)
  /\ UNCHANGED <<scenario, process, row, jobs, worker, pass, user, bounds,
                 contacts, resets>>
-----------------------------------------------------------------------------
Deliver(w) ==
  \/ \E j \in jobs : Take(w, j)
  \/ Suppress(w) \/ Defer(w) \/ Enqueue(w) \/ Claim(w) \/ Build(w)
  \/ \E o \in Outcomes \ {"none"}, delivered \in BOOLEAN : Send(w, o, delivered)
  \/ RecordFinal(w) \/ RecordTransient(w)
  \/ \E after \in RetryAfter : RecordRateLimited(w, after)

Fails(w) == EnqueueFails(w) \/ RecordSentFails(w) \/ RecordFailureFails(w)

PassStep ==
  \/ PassBegin \/ PassRead \/ PassSkip \/ PassRenew \/ PassInsert \/ PassEnqueue
  \/ \E s \in Slots : PassRetire(s)

Boot == Recover \/ Start

Users ==
  \/ \E s \in Settings : ChangeSettings(s)
  \/ \E t \in Time : Snooze(t)
  \/ Disable \/ Restore

Next ==
  \/ \E w \in Workers : Deliver(w) \/ Fails(w)
  \/ PassStep \/ PassFails
  \/ Crash \/ Boot
  \/ Users
  \/ Tick

Spec == Init /\ [][Next]_vars

(* Handlers, the pass and boot are driven by the queue and by timers, and   *)
(* time passes; nothing obliges users, faults or crashes to happen.         *)
Fairness ==
  /\ \A w \in Workers : WF_vars(Deliver(w))
  /\ WF_vars(PassStep)
  /\ WF_vars(Boot)
  /\ WF_vars(Tick)

FairSpec == Spec /\ Fairness
-----------------------------------------------------------------------------
TypeOK ==
  /\ scenario \in Scenarios
  /\ now \in Time
  /\ process \in {"down", "recovered", "up"}
  /\ row \in [Keys -> RowType]
  /\ jobs \subseteq Job
  /\ worker \in [Workers -> Handler]
  /\ pass \in Pass
  /\ settings \in Settings
  /\ active \in BOOLEAN
  /\ snoozed \in Time
  /\ crashes \in 0 .. scenario.crashes
  /\ faults \in 0 .. scenario.faults
  /\ edits \in 0 .. scenario.edits
  /\ contacts \in [Keys -> Nat]
  /\ resets \in [Keys -> Nat]
  /\ wanted \subseteq Keys

(* One row makes one card.  A second card for the same row needs a boot     *)
(* recovery, a revival, a lost record or a pass that laid the row down      *)
(* again: no interleaving of handlers, retried jobs and edits is enough.    *)
ContactsAreCounted == \A k \in Keys : contacts[k] <= 1 + resets[k]

(* "Turning the morning card on in the evening must not send" it: a card is *)
(* sent only for an hour some settings asked for before it had long passed. *)
(* briefing-scheduling.service.ts says so of new rows; rows that were       *)
(* withdrawn and are asked for again must not bring it about either.        *)
LateSlotsStayUnsent == \A k \in Keys : contacts[k] > 0 => k \in wanted

(* A pending card of today is dealt with while it is still today, though    *)
(* jobs are lost to crashes, failing calls and spent retries and no sweep   *)
(* looks for them: the pass comes back to the row.                          *)
OfToday(k) == LocalDate(now, settings.zone) = k.date
PendingIsServed ==
  \A k \in Keys :
    row[k].status = "pending" /\ OfToday(k) /\ active
      ~> row[k].status # "pending" \/ ~OfToday(k) \/ ~active

(* A card whose delivery is unknown is "recorded as ambiguous and never     *)
(* resent automatically" (README).                                          *)
AmbiguousIsFinal ==
  [][\A k \in Keys : row[k].status = "ambiguous" => row'[k].status = "ambiguous"]_vars
=============================================================================
