------------------------ MODULE ReminderDeliveryProofs ------------------------
(***************************************************************************)
(* What is proved of ReminderDelivery for every number of rows, handlers,  *)
(* crashes, faults and edits, and every setting of the policy.             *)
(***************************************************************************)
EXTENDS ReminderDelivery, FiniteSetTheorems, TLAPS

(* A moment cut to the modelled time is a modelled time. *)
LEMMA AtMostIsTime ==
  ASSUME NEW t \in Nat PROVE AtMost(t) \in Time
BY DeliveryAssumption DEF DeliveryAssumption, AtMost, Time

(* So is a moment some minutes later. *)
LEMMA LaterIsTime ==
  ASSUME NEW t \in Time, NEW n \in Nat PROVE AtMost(t + n) \in Time
BY AtMostIsTime DEF Time

(* A scenario's moments are modelled times and its bounds are numbers. *)
LEMMA ScenarioTyped ==
  ASSUME NEW s \in Scenarios
  PROVE  /\ s.firstAt \in Time /\ s.dueAt \in Time
         /\ s.crashes \in Nat /\ s.faults \in Nat /\ s.edits \in Nat
BY DeliveryAssumption DEF DeliveryAssumption, Scenario, Time

(* The scan for the end of quiet hours finds a minute not before its start. *)
LEMMA QuietEndExists ==
  ASSUME NEW t \in Time
  PROVE  NP!NextNonQuietMinute(t) \in Nat /\ NP!NextNonQuietMinute(t) >= t
<1>1. QuietSearch \in Nat /\ \E u : u \in NP!QuietEnds(t)
  BY DeliveryAssumption DEF DeliveryAssumption, Time, NP!QuietEnds
<1>2. NP!NextNonQuietMinute(t) \in NP!QuietEnds(t)
  BY <1>1 DEF NP!NextNonQuietMinute
<1> QED
  BY <1>1, <1>2 DEF NP!QuietEnds, Time

(* The policy names a moment that is not before now when it lets a contact  *)
(* through.                                                                 *)
LEMMA PolicyMoment ==
  ASSUME TypeOK, NEW r \in RowType
  PROVE  NP!Policy(Contact(r), now).at \in Nat
<1> DEFINE c == Contact(r)
<1>1. /\ c.intended \in Time /\ c.snoozedUntil \in Time
      /\ c.boundary \in Time /\ now \in Time
  BY ScenarioTyped DEF TypeOK, RowType, Contact
<1>2. NP!Snoozed(c) \in Time
  BY <1>1 DEF NP!Snoozed, NP!Later
<1> HIDE DEF c
<1>3. Time \subseteq Nat
  BY DEF Time
<1>4. NP!DeferredTo(c, now) \in Nat
  BY <1>1, <1>2, <1>3, QuietEndExists DEF NP!DeferredTo, NP!Later
<1>5. NP!Later(NP!DeferredTo(c, now), now) \in Nat
  BY <1>1, <1>3, <1>4 DEF NP!Later
<1>6. NP!Policy(c, now).at \in {NP!Snoozed(c), now, NP!DeferredTo(c, now),
                                NP!Later(NP!DeferredTo(c, now), now)}
  BY DEF NP!Policy, NP!Outcome
<1> QED
  BY <1>1, <1>2, <1>3, <1>4, <1>5, <1>6 DEF c

(* Planned rows may be added to the table. *)
LEMMA RowsPlanned ==
  ASSUME NEW at \in Time, NEW e \in BOOLEAN PROVE PlannedRow(at, e) \in RowType
BY DEF PlannedRow, NoRow, RowType, Statuses, Reasons

(* The job that names a row for a moment is a job of the queue. *)
LEMMA JobsCreated ==
  ASSUME NEW d \in Rows, NEW at \in Time PROVE Created(d, at) \in Job
BY DeliveryAssumption DEF Created, Job, DeliveryAssumption

(* An idle handler is a handler. *)
LEMMA IdleIsHandler == Idle \in Handler
BY DeliveryAssumption
   DEF Idle, Handler, Steps, Outcomes, Reasons, Time, DeliveryAssumption

(* What the queue keeps of a failed job are jobs. *)
LEMMA RetriesAreJobs ==
  ASSUME TypeOK, NEW h \in Handler PROVE Retries(h) \subseteq Job
<1>1. AtMost(now + RetryDelay) \in Time
  BY AtMostIsTime, DeliveryAssumption DEF TypeOK, Time, DeliveryAssumption
<1> QED
  BY <1>1, DeliveryAssumption DEF Retries, Job, Handler, DeliveryAssumption

(* What a handler makes of a job and of the row it names. *)
LEMMA ReadIsHandler ==
  ASSUME TypeOK, NEW j \in Job PROVE Read(j) \in Handler
<1> DEFINE r == row[j.id]
           p == NP!Policy(Contact(r), now)
           h == [Idle EXCEPT !.id = j.id, !.tries = j.tries]
<1>1. r \in RowType
  BY DEF TypeOK, Job
<1>2. h \in Handler
  BY IdleIsHandler DEF Idle, Handler, Job
<1>3. p.at \in Nat /\ AtMost(p.at) \in Time
  BY <1>1, PolicyMoment, AtMostIsTime
<1> HIDE DEF p
<1>4. ASSUME NEW reason \in Reasons
      PROVE  [h EXCEPT !.pc = "suppress", !.reason = reason] \in Handler
  BY <1>2 DEF Handler, Steps
<1>5. [h EXCEPT !.pc = "defer", !.at = AtMost(p.at)] \in Handler
  BY <1>2, <1>3 DEF Handler, Steps
<1>6. [h EXCEPT !.pc = "bundle", !.attempts = r.attempts, !.seen = now,
                !.at = r.scheduled] \in Handler
  BY <1>1, <1>2 DEF Handler, Steps, RowType, TypeOK
<1>7. NP!Suppressions \cup {"access", "no_longer_applicable"} \subseteq Reasons
  BY DEF NP!Suppressions, Reasons
<1> HIDE DEF h, r
<1>8. Read(j) \in {Idle,
         [h EXCEPT !.pc = "suppress", !.reason = "access"],
         [h EXCEPT !.pc = "suppress", !.reason = "no_longer_applicable"],
         [h EXCEPT !.pc = "suppress", !.reason = p.verdict],
         [h EXCEPT !.pc = "defer", !.at = AtMost(p.at)],
         [h EXCEPT !.pc = "bundle", !.attempts = r.attempts, !.seen = now,
                   !.at = r.scheduled]}
       /\ (p.verdict \notin NP!Suppressions =>
             Read(j) \in {Idle,
         [h EXCEPT !.pc = "suppress", !.reason = "access"],
         [h EXCEPT !.pc = "suppress", !.reason = "no_longer_applicable"],
         [h EXCEPT !.pc = "defer", !.at = AtMost(p.at)],
         [h EXCEPT !.pc = "bundle", !.attempts = r.attempts, !.seen = now,
                   !.at = r.scheduled]})
  BY DEF Read, p, h, r
<1> QED
  BY <1>4, <1>5, <1>6, <1>7, <1>8, IdleIsHandler

(* A guarded update leaves a table of rows. *)
LEMMA GuardedKeepsType ==
  ASSUME TypeOK, NEW w \in Workers, NEW expected, NEW new \in RowType,
         Guarded(w, expected, new)
  PROVE  row' \in [Rows -> RowType]
BY DEF TypeOK, Guarded, Handler

(* The initial state is well typed. *)
LEMMA TypeInit == Init => TypeOK
<1> SUFFICES ASSUME Init PROVE TypeOK
  OBVIOUS
<1>1. /\ scenario \in Scenarios /\ scenario.firstAt \in Time
      /\ 0 \in Time /\ 1 \in Rows
  BY ScenarioTyped, DeliveryAssumption DEF Init, DeliveryAssumption, Time
<1>2. row \in [Rows -> RowType]
  BY <1>1, RowsPlanned DEF Init, NoRow, RowType, Statuses, Reasons, Time
<1>3. jobs \subseteq Job
  BY <1>1, JobsCreated DEF Init
<1>4. worker \in [Workers -> Handler]
  BY IdleIsHandler DEF Init
<1>5. /\ crashes \in 0 .. scenario.crashes /\ faults \in 0 .. scenario.faults
      /\ edits \in 0 .. scenario.edits
  BY <1>1, ScenarioTyped DEF Init
<1> QED
  BY <1>1, <1>2, <1>3, <1>4, <1>5 DEF Init, TypeOK, NoJournal, Journal

(* The handler's own steps. *)
LEMMA TypeDeliver ==
  ASSUME TypeOK, NEW w \in Workers, Deliver(w)
  PROVE  TypeOK'
<1> USE DEF TypeOK, domain, db, bounds, history
<1>1. /\ worker[w] \in Handler
      /\ worker[w].id \in Rows /\ row[worker[w].id] \in RowType
      /\ worker[w].seen \in Time /\ worker[w].at \in Time
      /\ worker[w].attempts \in Nat /\ worker[w].attempts + 1 \in Nat
  BY DEF Handler
<1>2. now \in Time
  OBVIOUS
<1>3. ASSUME NEW pc \in Steps
      PROVE  [worker EXCEPT ![w].pc = pc] \in [Workers -> Handler]
  BY <1>1 DEF Handler
<1>4. [worker EXCEPT ![w] = Idle] \in [Workers -> Handler]
  BY IdleIsHandler
<1>5. CASE \E j \in jobs : Take(w, j)
  BY <1>5, ReadIsHandler DEF Take
<1>6. CASE Suppress(w)
  <2>1. [row[worker[w].id] EXCEPT !.status = "suppressed",
           !.reason = worker[w].reason] \in RowType
    BY <1>1 DEF RowType, Handler, Statuses
  <2> QED
    BY <1>4, <1>6, <2>1, GuardedKeepsType DEF Suppress, Finish
<1>7. CASE Defer(w)
  <2>1. [row[worker[w].id] EXCEPT !.scheduled = worker[w].at] \in RowType
    BY <1>1 DEF RowType, Handler
  <2> QED
    BY <1>3, <1>7, <2>1, GuardedKeepsType DEF Defer, Goto, Steps
<1>8. CASE Enqueue(w)
  <2>1. Created(worker[w].id, worker[w].at) \in Job
    BY <1>1, JobsCreated DEF Handler
  <2> QED
    BY <1>4, <1>8, <2>1 DEF Enqueue, Finish
<1>9. CASE Bundle(w)
  <2>1. AtMost(worker[w].seen + WaitStep) \in Time /\ 0 \in Time
    BY <1>1, LaterIsTime, DeliveryAssumption DEF DeliveryAssumption, Time
  <2>2. /\ [worker[w] EXCEPT !.pc = "supersede"] \in Handler
        /\ [worker[w] EXCEPT !.pc = "enqueue",
             !.at = AtMost(worker[w].seen + WaitStep)] \in Handler
        /\ [worker[w] EXCEPT !.pc = "claim", !.seen = 0, !.at = 0] \in Handler
    BY <1>1, <2>1 DEF Handler, Steps
  <2>3. worker' \in [Workers -> Handler]
    BY <1>9, <2>2 DEF Bundle
  <2> QED
    BY <1>9, <2>3 DEF Bundle
<1>10. CASE Supersede(w)
  <2>1. [row[worker[w].id] EXCEPT !.status = "suppressed",
           !.reason = "superseded"] \in RowType
    BY <1>1 DEF RowType, Statuses, Reasons
  <2>2. [worker EXCEPT ![w].pc = "escalate", ![w].at = worker[w].seen]
           \in [Workers -> Handler]
    BY <1>1 DEF Handler, Steps
  <2> QED
    BY <1>10, <2>1, <2>2, GuardedKeepsType DEF Supersede
<1>11. CASE Claim(w)
  <2>1. [row[worker[w].id] EXCEPT !.status = "processing",
           !.attempts = worker[w].attempts + 1] \in RowType
    BY <1>1 DEF RowType, Statuses
  <2> QED
    BY <1>3, <1>4, <1>11, <2>1, GuardedKeepsType DEF Claim, Finish, Goto, Steps
<1>12. ASSUME NEW o \in Outcomes, NEW delivered \in BOOLEAN, Send(w, o, delivered)
       PROVE  TypeOK'
  <2>1. [worker EXCEPT ![w].pc = "record", ![w].outcome = o, ![w].at = now]
          \in [Workers -> Handler]
    BY <1>1 DEF Handler, Steps
  <2>2. contacts' \in [Rows -> Nat]
    BY <1>1, <1>12 DEF Send
  <2>3. faults' \in 0 .. scenario'.faults
    BY <1>12, ScenarioTyped DEF Send, Fault
  <2> QED
    BY <1>12, <2>1, <2>2, <2>3 DEF Send
<1>13. CASE RecordSent(w)
  <2>1. [row[worker[w].id] EXCEPT !.status = "sent"] \in RowType
    BY <1>1 DEF RowType, Statuses
  <2> QED
    BY <1>3, <1>13, <2>1, GuardedKeepsType DEF RecordSent, Goto, Steps
<1>14. CASE RecordFinal(w)
  <2>1. PICK final \in {"rejected", "ambiguous"} :
          /\ Guarded(w, "processing", [row[worker[w].id] EXCEPT
               !.status = IF final = "rejected" THEN "failed" ELSE "ambiguous"])
          /\ Finish(w)
          /\ UNCHANGED <<scenario, now, process, jobs, sweep, domain, bounds,
                         history>>
    BY <1>14 DEF RecordFinal
  <2>2. [row[worker[w].id] EXCEPT
           !.status = IF final = "rejected" THEN "failed" ELSE "ambiguous"] \in RowType
    BY <1>1 DEF RowType, Statuses
  <2> QED
    BY <1>4, <2>1, <2>2, GuardedKeepsType DEF Finish
<1>15. CASE RecordTransient(w)
  <2>1. [row[worker[w].id] EXCEPT !.status =
           IF worker[w].attempts + 1 >= MaxAttempts THEN "failed" ELSE "pending"]
             \in RowType
    BY <1>1 DEF RowType, Statuses
  <2>2. row' \in [Rows -> RowType]
    BY <1>15, <2>1, GuardedKeepsType DEF RecordTransient
  <2>3. jobs' \subseteq Job
    BY <1>1, <1>15, RetriesAreJobs DEF RecordTransient, Throw
  <2> QED
    BY <1>4, <1>15, <2>2, <2>3 DEF RecordTransient, Throw, Finish
<1>16. ASSUME NEW after \in RetryAfter, RecordRateLimited(w, after)
       PROVE  TypeOK'
  <2>1. AtMost(now + after) \in Time
    BY <1>2, LaterIsTime, DeliveryAssumption DEF DeliveryAssumption
  <2>2. [row[worker[w].id] EXCEPT !.status = "pending",
           !.attempts = worker[w].attempts, !.scheduled = AtMost(now + after)]
             \in RowType
    BY <1>1, <2>1 DEF RowType, Statuses, Handler
  <2>3. row' \in [Rows -> RowType]
    BY <1>16, <2>2, GuardedKeepsType DEF RecordRateLimited
  <2>4. [worker EXCEPT ![w].pc = "enqueue", ![w].at = AtMost(now + after)]
           \in [Workers -> Handler]
    BY <1>1, <2>1 DEF Handler, Steps
  <2>5. held' \subseteq Rows
    BY <1>1, <1>16 DEF RecordRateLimited
  <2> QED
    BY <1>16, <2>3, <2>4, <2>5 DEF RecordRateLimited
<1>17. CASE Escalate(w)
  <2>1. AtMost(worker[w].at + Interval) \in Time
    BY <1>1, LaterIsTime, DeliveryAssumption DEF DeliveryAssumption
  <2>2. PlannedRow(AtMost(worker[w].at + Interval), TRUE) \in RowType
    BY <2>1, RowsPlanned
  <2>3. row' \in [Rows -> RowType]
    BY <1>17, <2>2 DEF Escalate
  <2>4. [worker EXCEPT ![w].pc = "arm", ![w].at = AtMost(worker[w].at + Interval)]
           \in [Workers -> Handler]
    BY <1>1, <2>1 DEF Handler, Steps
  <2> QED
    BY <1>4, <1>17, <2>3, <2>4 DEF Escalate, Finish
<1>18. CASE Arm(w)
  <2>1. \A d \in EscalationAt(worker[w].at) : Created(d, worker[w].at) \in Job
    BY <1>1, JobsCreated DEF EscalationAt, Handler
  <2> QED
    BY <1>4, <1>18, <2>1 DEF Arm, Finish
<1> QED
  BY <1>5, <1>6, <1>7, <1>8, <1>9, <1>10, <1>11, <1>12, <1>13, <1>14, <1>15,
     <1>16, <1>17, <1>18 DEF Deliver

(* So does giving a failed job back to the queue. *)
LEMMA ThrowKeepsType ==
  ASSUME TypeOK, NEW w \in Workers, Throw(w)
  PROVE  jobs' \subseteq Job /\ worker' \in [Workers -> Handler]
BY RetriesAreJobs, IdleIsHandler DEF Throw, Finish, TypeOK

(* So does counting a fault. *)
LEMMA FaultKeepsType ==
  ASSUME TypeOK, Fault PROVE faults' \in 0 .. scenario.faults
BY ScenarioTyped DEF TypeOK, Fault

(* The failing forms of the same steps. *)
LEMMA TypeFails ==
  ASSUME TypeOK, NEW w \in Workers, Fails(w)
  PROVE  TypeOK'
<1> USE DEF TypeOK, domain, db, bounds, history
<1>1. /\ worker[w] \in Handler /\ worker[w].id \in Rows
  BY DEF Handler
<1>2. CASE EnqueueFails(w)
  BY <1>2, ThrowKeepsType, FaultKeepsType DEF EnqueueFails
<1>3. CASE RecordSentFails(w)
  <2>1. [worker EXCEPT ![w].outcome = "transient"] \in [Workers -> Handler]
    BY <1>1 DEF Handler, Outcomes
  <2>2. [resets EXCEPT ![worker[w].id] = @ + 1] \in [Rows -> Nat]
    BY <1>1
  <2> QED
    BY <1>3, <2>1, <2>2, FaultKeepsType DEF RecordSentFails
<1>4. CASE RecordFailureFails(w)
  BY <1>4, ThrowKeepsType, FaultKeepsType DEF RecordFailureFails
<1>5. CASE EscalateFails(w)
  BY <1>5, ThrowKeepsType, FaultKeepsType DEF EscalateFails
<1>6. CASE ArmFails(w)
  BY <1>6, IdleIsHandler, FaultKeepsType DEF ArmFails, Finish
<1>7. CASE Expire(w)
  <2>1. [worker EXCEPT ![w].tries = MaxAttempts] \in [Workers -> Handler]
    BY <1>1, DeliveryAssumption DEF Handler, DeliveryAssumption
  <2> QED
    BY <1>1, <1>7, <2>1, RetriesAreJobs, FaultKeepsType DEF Expire
<1> QED
  BY <1>2, <1>3, <1>4, <1>5, <1>6, <1>7 DEF Fails

(* The sweep, the process and the clock. *)
LEMMA TypeSystem ==
  ASSUME TypeOK,
         \/ Reconcile \/ Crash \/ Boot \/ Tick
         \/ \E j \in sweep : SweepSendFails(j)
         \/ \E status \in {"sent", "gone"} : BriefingSettles(status)
  PROVE  TypeOK'
<1> USE DEF TypeOK, domain, db, bounds, history
<1>1. \A d \in Rows : Created(d, row[d].scheduled) \in Job
  BY JobsCreated DEF RowType
<1>2. CASE Reconcile
  BY <1>1, <1>2 DEF Reconcile, SweepRead, SweepSend
<1>3. CASE \E j \in sweep : SweepSendFails(j)
  BY <1>3, FaultKeepsType DEF SweepSendFails
<1>4. CASE Crash
  <2>1. UNION {Retries(worker[w]) : w \in {v \in Workers : worker[v].pc # "idle"}}
           \subseteq Job
    BY RetriesAreJobs
  <2>2. crashes' \in 0 .. scenario'.crashes
    BY <1>4, ScenarioTyped DEF Crash
  <2> QED
    BY <1>4, <2>1, <2>2, IdleIsHandler DEF Crash
<1>5. CASE Recover
  <2>1. \A d \in Rows : [row[d] EXCEPT !.status = "pending"] \in RowType
    BY DEF RowType, Statuses
  <2>2. row' \in [Rows -> RowType]
    BY <1>5, <2>1 DEF Recover
  <2>3. resets' \in [Rows -> Nat]
    BY <1>5 DEF Recover
  <2> QED
    BY <1>5, <2>2, <2>3 DEF Recover
<1>6. CASE Start
  BY <1>1, <1>6 DEF Start
<1>7. CASE Tick
  BY <1>7, DeliveryAssumption DEF Tick, Time, DeliveryAssumption
<1>8. CASE \E status \in {"sent", "gone"} : BriefingSettles(status)
  BY <1>8 DEF BriefingSettles
<1> QED
  BY <1>2, <1>3, <1>4, <1>5, <1>6, <1>7, <1>8 DEF Boot

(* Withdrawing rows leaves a table of rows, ... *)
LEMMA WithdrawKeepsType ==
  ASSUME TypeOK, NEW which, NEW status \in Statuses, NEW reason \in Reasons,
         Withdraw(which, status, reason)
  PROVE  row' \in [Rows -> RowType]
<1>1. \A d \in Rows :
        [row[d] EXCEPT !.status = status, !.reason = reason] \in RowType
  BY DEF TypeOK, RowType
<1> QED
  BY <1>1 DEF Withdraw, TypeOK

(* ... and so does bringing them back. *)
LEMMA ReviveKeepsType ==
  ASSUME TypeOK, NEW reason, Revive(reason)
  PROVE  row' \in [Rows -> RowType] /\ resets' \in [Rows -> Nat]
<1>1. \A d \in Rows :
        [row[d] EXCEPT !.status = "pending", !.reason = "none"] \in RowType
  BY DEF TypeOK, RowType, Statuses, Reasons
<1>2. row' \in [Rows -> RowType]
  BY <1>1 DEF Revive, TypeOK
<1>3. \A d \in Rows : resets[d] \in Nat /\ resets[d] + 1 \in Nat
  BY DEF TypeOK
<1>4. resets' \in [Rows -> Nat]
  BY <1>3 DEF Revive
<1> QED
  BY <1>2, <1>4

(* Counting an edit keeps the counter within its bound. *)
LEMMA EditKeepsType ==
  ASSUME TypeOK, NEW kind, Edit(kind) PROVE edits' \in 0 .. scenario.edits
BY ScenarioTyped DEF TypeOK, Edit

(* Every edit of a user or operator keeps the types. *)
LEMMA TypeUsers == ASSUME TypeOK, Users PROVE TypeOK'
<1> USE DEF TypeOK, domain, bounds, history, OthersUnchanged, UserEdit
<1>1. {"suppressed", "cancelled"} \subseteq Statuses
      /\ {"no_longer_applicable", "superseded", "user_cancelled", "access"}
           \subseteq Reasons
  BY DEF Statuses, Reasons
<1>2. CASE Close
  BY <1>1, <1>2, WithdrawKeepsType, EditKeepsType DEF Close, Journal
<1>3. CASE Reopen
  BY <1>3, ReviveKeepsType, EditKeepsType DEF Reopen, Journal, NoJournal
<1>4. CASE Reschedule
  BY <1>1, <1>4, WithdrawKeepsType, EditKeepsType DEF Reschedule
<1>5. CASE Mute
  BY <1>1, <1>5, WithdrawKeepsType, EditKeepsType DEF Mute
<1>6. CASE Disable
  BY <1>1, <1>6, WithdrawKeepsType, EditKeepsType DEF Disable
<1>7. CASE Restore
  BY <1>7, ReviveKeepsType, EditKeepsType DEF Restore
<1>8. ASSUME NEW t \in Time, Snooze(t) PROVE TypeOK'
  BY <1>8, EditKeepsType DEF Snooze
<1>9. ASSUME NEW d \in Rows, CancelUpcoming(d) PROVE TypeOK'
  <2>1. row' \in [Rows -> RowType]
    BY <1>1, <1>9, WithdrawKeepsType DEF CancelUpcoming
  <2> QED
    BY <1>9, <2>1, EditKeepsType DEF CancelUpcoming
<1>10. ASSUME NEW t \in Time, Replan(t) PROVE TypeOK'
  <2>1. CASE occurrence = "closed" \/ muted
    BY <1>10, <2>1 DEF Replan
  <2>2. CASE ~(occurrence = "closed" \/ muted)
    <3>1. PlannedRow(t, FALSE) \in RowType
      BY RowsPlanned
    <3>2. \A d \in Rows : [row[d] EXCEPT !.status = "cancelled",
                                         !.reason = "superseded"] \in RowType
      BY <1>1 DEF RowType
    <3>3. row' \in [Rows -> RowType]
      BY <1>10, <2>2, <3>1, <3>2 DEF Replan
    <3>4. Created(FreshRow, t) \in Job
      <4>1. FreshRow \in Unused
        BY <1>10, <2>2 DEF Replan, FreshRow
      <4> QED
        BY <4>1, JobsCreated DEF Unused
    <3> QED
      BY <1>10, <2>2, <3>3, <3>4 DEF Replan
  <2> QED
    BY <2>1, <2>2
<1> QED
  BY <1>2, <1>3, <1>4, <1>5, <1>6, <1>7, <1>8, <1>9, <1>10 DEF Users

(* Every step keeps the types. *)
LEMMA TypeStep == TypeOK /\ [Next]_vars => TypeOK'
<1> SUFFICES ASSUME TypeOK, [Next]_vars PROVE TypeOK'
  OBVIOUS
<1>1. CASE \E w \in Workers : Deliver(w) \/ Fails(w)
  BY <1>1, TypeDeliver, TypeFails
<1>2. CASE Users
  BY <1>2, TypeUsers
<1>3. CASE UNCHANGED vars
  BY <1>3 DEF vars, TypeOK
<1> QED
  BY <1>1, <1>2, <1>3, TypeSystem DEF Next, Done

(* The program's state keeps its shape: attempts and job tries stay in      *)
(* range, and no moment leaves the modelled time.                           *)
THEOREM TypeCorrect == Spec => []TypeOK
<1>1. Init => TypeOK
  BY TypeInit
<1>2. TypeOK /\ [Next]_vars => TypeOK'
  BY TypeStep
<1> QED
  BY <1>1, <1>2, PTL DEF Spec
-----------------------------------------------------------------------------
FinalStays == \A d \in Rows : row[d].status \in Final => row'[d].status = row[d].status

(* An update guarded by the status pending or processing leaves final rows. *)
LEMMA GuardedLeavesFinal ==
  ASSUME TypeOK, NEW w \in Workers, NEW expected \in Live, NEW new,
         Guarded(w, expected, new)
  PROVE  FinalStays
BY DEF TypeOK, Guarded, Final, Live, FinalStays

(* No step changes a final row. *)
LEMMA FinalStep == TypeOK /\ [Next]_vars => FinalStays
<1> SUFFICES ASSUME TypeOK, [Next]_vars PROVE FinalStays
  OBVIOUS
<1>1. CASE UNCHANGED row
  BY <1>1 DEF FinalStays
<1>2. ASSUME NEW w \in Workers, Deliver(w) PROVE FinalStays
  <2>1. CASE Suppress(w) \/ Defer(w) \/ Supersede(w) \/ Claim(w)
    BY <2>1, GuardedLeavesFinal DEF Suppress, Defer, Supersede, Claim, Live
  <2>2. CASE RecordSent(w) \/ RecordFinal(w) \/ RecordTransient(w)
    BY <2>2, GuardedLeavesFinal DEF RecordSent, RecordFinal, RecordTransient, Live
  <2>3. ASSUME NEW after \in RetryAfter, RecordRateLimited(w, after)
        PROVE  FinalStays
    BY <2>3, GuardedLeavesFinal DEF RecordRateLimited, Live
  <2>4. CASE Escalate(w)
    <3>1. Unused # {} => FreshRow \in Unused
      BY DEF FreshRow
    <3> QED
      BY <2>4, <3>1 DEF FinalStays, Escalate, Unused, TypeOK, Final
  <2>5. CASE \/ \E j \in jobs : Take(w, j)
             \/ Enqueue(w) \/ Bundle(w) \/ Arm(w)
             \/ \E o \in Outcomes \ {"none"}, delivered \in BOOLEAN :
                   Send(w, o, delivered)
    BY <1>1, <2>5 DEF Take, Enqueue, Bundle, Arm, Send, db
  <2> QED
    BY <1>2, <2>1, <2>2, <2>3, <2>4, <2>5 DEF Deliver
<1>3. ASSUME NEW w \in Workers, Fails(w) PROVE FinalStays
  BY <1>1, <1>3 DEF Fails, EnqueueFails, RecordSentFails, RecordFailureFails,
                    EscalateFails, ArmFails, Expire, db
<1>4. CASE Recover
  BY <1>4 DEF FinalStays, Recover, TypeOK, Final
<1>5. ASSUME NEW which, NEW status, NEW reason, Withdraw(which, status, reason)
      PROVE  FinalStays
  BY <1>5 DEF FinalStays, Withdraw, TypeOK, Final, Live
<1>6. ASSUME NEW reason, Revive(reason) PROVE FinalStays
  BY <1>6 DEF FinalStays, Revive, Revivable, TypeOK, Final
<1>7. ASSUME NEW t \in Time, Replan(t) PROVE FinalStays
  <2>1. CASE occurrence = "closed" \/ muted
    BY <1>1, <1>7, <2>1 DEF Replan
  <2>2. CASE ~(occurrence = "closed" \/ muted)
    <3>1. FreshRow \in Unused
      BY <1>7, <2>2 DEF Replan, FreshRow
    <3> QED
      BY <1>7, <2>2, <3>1 DEF FinalStays, Replan, Unused, TypeOK, Final, Live
  <2> QED
    BY <2>1, <2>2
<1>8. CASE Users
  <2>1. CASE Close \/ Reschedule \/ Mute \/ Disable
    BY <1>5, <2>1 DEF Close, Reschedule, Mute, Disable
  <2>2. CASE Reopen \/ Restore
    BY <1>6, <2>2 DEF Reopen, Restore
  <2>3. CASE \E d \in Rows : CancelUpcoming(d)
    BY <1>5, <2>3 DEF CancelUpcoming
  <2>4. CASE \E t \in Time : Snooze(t)
    BY <1>1, <2>4 DEF Snooze
  <2> QED
    BY <1>7, <1>8, <2>1, <2>2, <2>3, <2>4 DEF Users
<1>9. CASE \/ Reconcile \/ Crash \/ Start \/ Tick \/ Done \/ UNCHANGED vars
           \/ \E j \in sweep : SweepSendFails(j)
           \/ \E status \in {"sent", "gone"} : BriefingSettles(status)
  BY <1>1, <1>9 DEF Reconcile, SweepRead, SweepSend, Crash, Start, Tick, Done,
                    SweepSendFails, BriefingSettles, db, vars
<1>10. CASE \E w \in Workers : Deliver(w) \/ Fails(w)
  BY <1>2, <1>3, <1>10
<1> QED
  BY <1>4, <1>8, <1>9, <1>10 DEF Next, Boot

(* What was sent, rejected, cancelled or may have been sent stays so. *)
THEOREM FinalRowsStayFinal == Spec => FinalIsFinal
<1>1. TypeOK /\ [Next]_vars => [FinalStays]_vars
  BY FinalStep
<1> QED
  BY <1>1, TypeCorrect, PTL DEF Spec, FinalIsFinal, FinalStays
-----------------------------------------------------------------------------
(* The handlers that looked, found nothing against a contact and have not   *)
(* yet claimed the row.                                                     *)
Looked(w) == worker[w].pc \in {"bundle", "claim"}

(* While such a handler's row can still be claimed, or is being sent by     *)
(* another one, what it looked at still holds: whoever changes that takes   *)
(* the row out of the queue in the same transaction.                        *)
LooksAreCurrent ==
  \A w \in Workers :
    Looked(w) =>
      /\ row[worker[w].id].status # "absent"
      /\ row[worker[w].id].status \in Live /\ resets[worker[w].id] = 0
           => active /\ occurrence = "open" /\ ~muted

(* At first no handler is looking at a row. *)
LEMMA LooksInit == Init => LooksAreCurrent
BY DEF Init, LooksAreCurrent, Looked, Idle

(* A row leaves the queue and nothing is put back: the looks stay current.  *)
LEMMA WithdrawKeepsLooks ==
  ASSUME TypeOK, LooksAreCurrent, NEW status \in Statuses \ (Live \cup {"absent"}),
         NEW reason, Withdraw(Rows, status, reason), UNCHANGED <<worker, resets>>
  PROVE  LooksAreCurrent'
<1>1. \A d \in Rows : row'[d].status \notin Live /\
                      (row'[d].status = "absent" => row[d].status = "absent")
  BY DEF Withdraw, TypeOK, RowType
<1>2. \A w \in Workers : worker[w].id \in Rows
  BY DEF TypeOK, Handler
<1> QED
  BY <1>1, <1>2 DEF LooksAreCurrent, Looked

(* A row that comes back counts as put back. *)
LEMMA ReviveKeepsLooks ==
  ASSUME TypeOK, NEW reason, Revive(reason), UNCHANGED worker,
         \A w \in Workers : Looked(w) =>
            /\ row[worker[w].id].status # "absent"
            /\ row[worker[w].id].status \notin Live \/ resets[worker[w].id] # 0
  PROVE  LooksAreCurrent'
<1>1. \A w \in Workers : worker[w].id \in Rows
  BY DEF TypeOK, Handler
<1>2. \A d \in Rows : resets[d] + 1 # 0
  BY DEF TypeOK
<1>3. \A d \in Rows :
        [row[d] EXCEPT !.status = "pending", !.reason = "none"].status = "pending"
  BY DEF TypeOK, RowType
<1>4. \A d \in Rows :
        \/ row'[d] = row[d] /\ resets'[d] = resets[d]
        \/ row'[d].status = "pending" /\ resets'[d] # 0
  BY <1>2, <1>3 DEF Revive
<1> QED
  BY <1>1, <1>4 DEF LooksAreCurrent, Looked, Live

(* No row becomes live that was not, or loses its history. *)
RowsSettle ==
  \A d \in Rows : row[d].status # "absent" =>
     /\ row'[d].status # "absent"
     /\ row'[d].status \in Live => row[d].status \in Live
     /\ resets'[d] = 0 => resets[d] = 0

(* A step that takes rows out of pending only closes looks. *)
LEMMA SettlingKeepsLooks ==
  ASSUME TypeOK, LooksAreCurrent, RowsSettle,
         \A v \in Workers : Looked(v)' => Looked(v) /\ worker'[v].id = worker[v].id,
         UNCHANGED <<active, occurrence, muted>>
  PROVE  LooksAreCurrent'
<1> SUFFICES ASSUME NEW v \in Workers, Looked(v)'
             PROVE  /\ (row[worker[v].id].status # "absent")'
                    /\ (row[worker[v].id].status \in Live /\ resets[worker[v].id] = 0
                         => active /\ occurrence = "open" /\ ~muted)'
  BY DEF LooksAreCurrent
<1>1. worker[v].id \in Rows
  BY DEF TypeOK, Handler
<1> QED
  BY <1>1 DEF LooksAreCurrent, RowsSettle

(* One handler moves to where it no longer stands by what it looked at, or  *)
(* goes on with the same row.                                               *)
LEMMA MoveKeepsLooks ==
  ASSUME TypeOK, LooksAreCurrent, RowsSettle, NEW w \in Workers,
         \A v \in Workers \ {w} : worker'[v] = worker[v],
         \/ worker'[w].pc \notin {"bundle", "claim"}
         \/ Looked(w) /\ worker'[w].id = worker[w].id,
         UNCHANGED <<active, occurrence, muted>>
  PROVE  LooksAreCurrent'
<1>1. \A v \in Workers : Looked(v)' => Looked(v) /\ worker'[v].id = worker[v].id
  BY DEF Looked, TypeOK
<1> QED
  BY <1>1, SettlingKeepsLooks

(* A guarded update takes no row back into pending. *)
LEMMA GuardedSettles ==
  ASSUME TypeOK, NEW w \in Workers, NEW expected \in Live, NEW new,
         Guarded(w, expected, new), new.status # "absent", UNCHANGED resets
  PROVE  RowsSettle
BY DEF Guarded, TypeOK, Handler, Live, RowsSettle

(* A handler changes only its own state. *)
Moves(w) == \A v \in Workers \ {w} : worker'[v] = worker[v]
Leaves(w) == Moves(w) /\ worker'[w].pc \notin {"bundle", "claim"}

(* The other handlers keep their place and their row. *)
LEMMA HandlersLeave ==
  ASSUME TypeOK, NEW w \in Workers
  PROVE  /\ \A pc \in Steps \ {"bundle", "claim"} : Goto(w, pc) => Leaves(w)
         /\ Finish(w) => Leaves(w)
         /\ Throw(w) => Leaves(w)
         /\ \A pc \in Steps \ {"bundle", "claim"} : \A at :
              worker' = [worker EXCEPT ![w].pc = pc, ![w].at = at] => Leaves(w)
<1>1. worker[w] \in Handler
  BY DEF TypeOK
<1>2. \A pc \in Steps \ {"bundle", "claim"} : Goto(w, pc) => Leaves(w)
  BY <1>1 DEF Goto, Leaves, Moves, TypeOK, Handler
<1>3. Finish(w) => Leaves(w)
  BY DEF Finish, Idle, Leaves, Moves, TypeOK
<1>4. ASSUME NEW pc \in Steps \ {"bundle", "claim"}, NEW at,
             worker' = [worker EXCEPT ![w].pc = pc, ![w].at = at]
      PROVE  Leaves(w)
  BY <1>1, <1>4 DEF Leaves, Moves, TypeOK, Handler
<1> QED
  BY <1>2, <1>3, <1>4 DEF Throw

(* Every step of a handler keeps the looks current, ... *)
LEMMA LooksDeliver ==
  ASSUME TypeOK, LooksAreCurrent, NEW w \in Workers, Deliver(w)
  PROVE  LooksAreCurrent'
<1> USE DEF domain, db, history
<1>1. /\ worker[w] \in Handler /\ worker[w].id \in Rows
      /\ row[worker[w].id] \in RowType
  BY DEF TypeOK, Handler
<1>2. ASSUME RowsSettle, Leaves(w), UNCHANGED <<active, occurrence, muted>>
      PROVE  LooksAreCurrent'
  BY <1>2, MoveKeepsLooks DEF Leaves, Moves
<1>3. UNCHANGED <<row, resets>> => RowsSettle
  BY DEF RowsSettle
<1>4. ASSUME NEW status, status # "absent", NEW x
      PROVE  /\ [row[worker[w].id] EXCEPT !.status = status].status # "absent"
             /\ [row[worker[w].id] EXCEPT !.status = status,
                                          !.reason = x].status # "absent"
             /\ [row[worker[w].id] EXCEPT !.status = status,
                                          !.attempts = x].status # "absent"
  BY <1>1, <1>4 DEF RowType
<1>5. ASSUME NEW j \in jobs, Take(w, j) PROVE LooksAreCurrent'
  <2>1. Read(j).pc \in {"bundle", "claim"}
          => /\ Read(j).id = j.id /\ row[j.id].status = "pending"
             /\ active /\ occurrence = "open" /\ ~muted
    BY DEF Read, Idle, TypeOK
  <2>2. j.id \in Rows
    BY DEF TypeOK, Job
  <2> QED
    BY <1>5, <2>1, <2>2 DEF Take, LooksAreCurrent, Looked, TypeOK
<1>6. CASE Suppress(w)
  BY <1>2, <1>4, <1>6, GuardedSettles, HandlersLeave DEF Suppress, Live
<1>7. CASE Defer(w)
  <2>1. [row[worker[w].id] EXCEPT !.scheduled = worker[w].at].status
          = row[worker[w].id].status
    BY <1>1 DEF RowType
  <2>2. RowsSettle
    BY <1>1, <1>7, <2>1 DEF Defer, Guarded, RowsSettle, TypeOK
  <2> QED
    BY <1>2, <1>7, <2>2, HandlersLeave DEF Defer, Steps
<1>8. CASE Enqueue(w) \/ Arm(w)
  BY <1>2, <1>3, <1>8, HandlersLeave DEF Enqueue, Arm
<1>9. CASE Bundle(w)
  <2>1. Moves(w) /\ worker'[w].id = worker[w].id
    BY <1>1, <1>9 DEF Bundle, Handler, Moves, TypeOK
  <2>2. Looked(w)
    BY <1>9 DEF Bundle, At, Looked
  <2> QED
    BY <1>3, <1>9, <2>1, <2>2, MoveKeepsLooks DEF Bundle, Moves
<1>10. CASE Supersede(w)
  <2>1. RowsSettle
    BY <1>4, <1>10, GuardedSettles DEF Supersede, Live
  <2> QED
    BY <1>2, <1>10, <2>1, HandlersLeave DEF Supersede, Steps
<1>11. CASE Claim(w)
  <2>1. RowsSettle
    BY <1>4, <1>11, GuardedSettles DEF Claim, Live
  <2> QED
    BY <1>2, <1>11, <2>1, HandlersLeave DEF Claim, Steps
<1>12. ASSUME NEW o, NEW delivered, Send(w, o, delivered) PROVE LooksAreCurrent'
  <2>1. Leaves(w)
    BY <1>1, <1>12 DEF Send, Handler, Leaves, Moves, TypeOK
  <2> QED
    BY <1>2, <1>3, <1>12, <2>1 DEF Send
<1>13. CASE RecordSent(w)
  <2>1. RowsSettle
    BY <1>4, <1>13, GuardedSettles DEF RecordSent, Live
  <2> QED
    BY <1>2, <1>13, <2>1, HandlersLeave DEF RecordSent, Steps
<1>14. CASE RecordFinal(w)
  BY <1>2, <1>4, <1>14, GuardedSettles, HandlersLeave DEF RecordFinal, Live
<1>15. CASE RecordTransient(w)
  BY <1>2, <1>4, <1>15, GuardedSettles, HandlersLeave DEF RecordTransient, Live
<1>16. ASSUME NEW after \in RetryAfter, RecordRateLimited(w, after)
       PROVE  LooksAreCurrent'
  <2>1. [row[worker[w].id] EXCEPT !.status = "pending",
           !.attempts = worker[w].attempts,
           !.scheduled = AtMost(now + after)].status # "absent"
    BY <1>1 DEF RowType
  <2>2. RowsSettle
    BY <1>16, <2>1, GuardedSettles DEF RecordRateLimited, Live
  <2> QED
    BY <1>2, <1>16, <2>2, HandlersLeave DEF RecordRateLimited, Steps
<1>17. CASE Escalate(w)
  <2>1. Unused # {} => FreshRow \in Unused
    BY DEF FreshRow
  <2>2. RowsSettle
    BY <1>17, <2>1 DEF Escalate, Unused, RowsSettle, TypeOK
  <2> QED
    BY <1>2, <1>17, <2>2, HandlersLeave DEF Escalate, Steps
<1> QED
  BY <1>5, <1>6, <1>7, <1>8, <1>9, <1>10, <1>11, <1>12, <1>13, <1>14, <1>15,
     <1>16, <1>17 DEF Deliver

(* ... and so does every failing call, ... *)
LEMMA LooksFails ==
  ASSUME TypeOK, LooksAreCurrent, NEW w \in Workers, Fails(w)
  PROVE  LooksAreCurrent'
<1> USE DEF domain, db, history
<1>1. worker[w] \in Handler /\ worker[w].id \in Rows
  BY DEF TypeOK, Handler
<1>2. ASSUME RowsSettle, Leaves(w), UNCHANGED <<active, occurrence, muted>>
      PROVE  LooksAreCurrent'
  BY <1>2, MoveKeepsLooks DEF Leaves, Moves
<1>3. UNCHANGED <<row, resets>> => RowsSettle
  BY DEF RowsSettle
<1>4. CASE EnqueueFails(w) \/ EscalateFails(w) \/ ArmFails(w) \/ RecordFailureFails(w)
  BY <1>2, <1>3, <1>4, HandlersLeave
     DEF EnqueueFails, EscalateFails, ArmFails, RecordFailureFails
<1>5. CASE RecordSentFails(w)
  <2>1. Leaves(w)
    BY <1>1, <1>5 DEF RecordSentFails, Recording, At, Handler, Leaves, Moves, TypeOK
  <2>2. RowsSettle
    BY <1>1, <1>5 DEF RecordSentFails, RowsSettle, TypeOK
  <2> QED
    BY <1>2, <1>5, <2>1, <2>2 DEF RecordSentFails
<1>6. CASE Expire(w)
  <2>1. Moves(w) /\ worker'[w].id = worker[w].id /\ worker'[w].pc = worker[w].pc
    BY <1>1, <1>6 DEF Expire, Handler, Moves, TypeOK
  <2> QED
    BY <1>3, <1>6, <2>1, MoveKeepsLooks DEF Expire, Looked, Moves
<1> QED
  BY <1>4, <1>5, <1>6 DEF Fails

(* ... and every edit: what it withdraws no handler still looks at as open. *)
LEMMA LooksUsers ==
  ASSUME TypeOK, LooksAreCurrent, Users PROVE LooksAreCurrent'
<1> USE DEF domain, history, OthersUnchanged
<1>1. CASE Close \/ Reschedule \/ Mute \/ Disable
  <2>1. {"suppressed", "cancelled"} \subseteq Statuses \ (Live \cup {"absent"})
    BY DEF Statuses, Live
  <2> QED
    BY <1>1, <2>1, WithdrawKeepsLooks DEF Close, Reschedule, Mute, Disable
<1>2. CASE Reopen \/ Restore
  <2>1. UNCHANGED worker /\ \E reason \in Reasons : Revive(reason)
    BY <1>2 DEF Reopen, Restore, Reasons
  <2>2. occurrence = "closed" \/ ~active
    BY <1>2 DEF Reopen, Restore
  <2> QED
    BY <2>1, <2>2, ReviveKeepsLooks DEF LooksAreCurrent
<1>3. ASSUME RowsSettle, UNCHANGED <<worker, active, occurrence, muted>>
      PROVE  LooksAreCurrent'
  <2>1. \A v \in Workers : Looked(v)' => Looked(v) /\ worker'[v].id = worker[v].id
    BY <1>3 DEF Looked
  <2> QED
    BY <1>3, <2>1, SettlingKeepsLooks
<1>4. ASSUME NEW d \in Rows, CancelUpcoming(d) PROVE LooksAreCurrent'
  <2>1. RowsSettle
    BY <1>4 DEF CancelUpcoming, Withdraw, RowsSettle, TypeOK, RowType
  <2> QED
    BY <1>3, <1>4, <2>1 DEF CancelUpcoming
<1>5. ASSUME NEW t, Snooze(t) PROVE LooksAreCurrent'
  BY <1>3, <1>5 DEF Snooze, RowsSettle
<1>6. ASSUME NEW t, Replan(t) PROVE LooksAreCurrent'
  <2>1. CASE occurrence = "closed" \/ muted
    BY <1>3, <1>6, <2>1 DEF Replan, RowsSettle
  <2>2. CASE ~(occurrence = "closed" \/ muted)
    <3>1. FreshRow \in Unused
      BY <1>6, <2>2 DEF Replan, FreshRow
    <3>2. \A d \in Rows : [row[d] EXCEPT !.status = "cancelled",
                            !.reason = "superseded"].status = "cancelled"
      BY DEF TypeOK, RowType
    <3>3. RowsSettle
      BY <1>6, <2>2, <3>1, <3>2 DEF Replan, Unused, RowsSettle, Live
    <3> QED
      BY <1>3, <1>6, <3>3 DEF Replan
  <2> QED
    BY <2>1, <2>2
<1> QED
  BY <1>1, <1>2, <1>4, <1>5, <1>6 DEF Users

(* Every step keeps the looks current. *)
LEMMA LooksStep == TypeOK /\ LooksAreCurrent /\ [Next]_vars => LooksAreCurrent'
<1> SUFFICES ASSUME TypeOK, LooksAreCurrent, [Next]_vars PROVE LooksAreCurrent'
  OBVIOUS
<1>1. CASE \E w \in Workers : Deliver(w) \/ Fails(w)
  BY <1>1, LooksDeliver, LooksFails
<1>2. CASE Users
  BY <1>2, LooksUsers
<1>3. CASE Crash
  BY <1>3 DEF Crash, LooksAreCurrent, Looked, Idle
<1>4. CASE Recover
  <2>1. RowsSettle
    BY <1>4 DEF Recover, RowsSettle, TypeOK, RowType, Live
  <2>2. \A v \in Workers : Looked(v)' => Looked(v) /\ worker'[v].id = worker[v].id
    BY <1>4 DEF Recover, Looked
  <2> QED
    BY <1>4, <2>1, <2>2, SettlingKeepsLooks DEF Recover, domain
<1>5. CASE UNCHANGED <<worker, row, resets, active, occurrence, muted>>
  BY <1>5 DEF LooksAreCurrent, Looked
<1>6. CASE \/ Reconcile \/ Start \/ Tick \/ Done \/ UNCHANGED vars
           \/ \E j \in sweep : SweepSendFails(j)
           \/ \E status \in {"sent", "gone"} : BriefingSettles(status)
  BY <1>5, <1>6 DEF Reconcile, SweepRead, SweepSend, Start, Tick, Done,
       SweepSendFails, BriefingSettles, db, domain, history, vars
<1> QED
  BY <1>1, <1>2, <1>3, <1>4, <1>6 DEF Next, Boot

ClaimIsCurrent ==
  \A d \in Rows :
    /\ row[d].status = "pending" /\ row'[d].status = "processing"
    /\ resets[d] = 0
   => active /\ occurrence = "open" /\ ~muted

NothingClaimed ==
  \A d \in Rows : row'[d].status = "processing" => row[d].status = "processing"

(* An update to anything but processing claims nothing. *)
LEMMA GuardedClaimsNothing ==
  ASSUME TypeOK, NEW w \in Workers, NEW expected, NEW new,
         Guarded(w, expected, new), new.status # "processing"
  PROVE  NothingClaimed
BY DEF Guarded, TypeOK, Handler, NothingClaimed

(* Claim is the only step that takes a row up. *)
LEMMA OnlyClaimTakesUp ==
  ASSUME TypeOK, [Next]_vars, \A w \in Workers : ~Claim(w)
  PROVE  NothingClaimed
<1> USE DEF db, domain
<1>1. CASE UNCHANGED row
  BY <1>1 DEF NothingClaimed
<1>2. ASSUME NEW w \in Workers, Deliver(w) PROVE NothingClaimed
  <2>1. worker[w].id \in Rows /\ row[worker[w].id] \in RowType
    BY DEF TypeOK, Handler
  <2>2. ASSUME NEW reason
        PROVE  [row[worker[w].id] EXCEPT !.status = "suppressed",
                                         !.reason = reason].status # "processing"
    BY <2>1 DEF RowType
  <2>3. CASE Suppress(w) \/ Supersede(w)
    BY <2>2, <2>3, GuardedClaimsNothing DEF Suppress, Supersede
  <2>4. CASE Defer(w)
    BY <2>1, <2>4 DEF Defer, Guarded, NothingClaimed, TypeOK, RowType
  <2>5. CASE RecordSent(w) \/ RecordFinal(w) \/ RecordTransient(w)
    <3>1. ASSUME NEW status, status # "processing"
          PROVE  [row[worker[w].id] EXCEPT !.status = status].status # "processing"
      BY <2>1, <3>1 DEF RowType
    <3> QED
      BY <2>5, <3>1, GuardedClaimsNothing DEF RecordSent, RecordFinal, RecordTransient
  <2>6. ASSUME NEW after \in RetryAfter, RecordRateLimited(w, after)
        PROVE  NothingClaimed
    <3>1. [row[worker[w].id] EXCEPT !.status = "pending",
             !.attempts = worker[w].attempts,
             !.scheduled = AtMost(now + after)].status # "processing"
      BY <2>1 DEF RowType
    <3> QED
      BY <2>6, <3>1, GuardedClaimsNothing DEF RecordRateLimited
  <2>7. CASE Escalate(w)
    <3>1. Unused # {} => FreshRow \in Unused
      BY DEF FreshRow
    <3> QED
      BY <2>7, <3>1 DEF Escalate, Unused, NothingClaimed, TypeOK, PlannedRow, NoRow
  <2>8. CASE \/ \E j \in jobs : Take(w, j)
             \/ Enqueue(w) \/ Bundle(w) \/ Arm(w)
             \/ \E o \in Outcomes \ {"none"}, delivered \in BOOLEAN :
                   Send(w, o, delivered)
    BY <1>1, <2>8 DEF Take, Enqueue, Bundle, Arm, Send
  <2> QED
    BY <1>2, <2>3, <2>4, <2>5, <2>6, <2>7, <2>8 DEF Deliver
<1>3. ASSUME NEW w \in Workers, Fails(w) PROVE NothingClaimed
  BY <1>1, <1>3 DEF Fails, EnqueueFails, RecordSentFails, RecordFailureFails,
                    EscalateFails, ArmFails, Expire
<1>4. CASE Recover
  BY <1>4 DEF Recover, NothingClaimed, TypeOK, RowType
<1>5. ASSUME NEW which, NEW status \in {"suppressed", "cancelled"}, NEW reason,
             Withdraw(which, status, reason)
      PROVE  NothingClaimed
  BY <1>5 DEF Withdraw, NothingClaimed, TypeOK, RowType
<1>6. ASSUME NEW reason, Revive(reason) PROVE NothingClaimed
  BY <1>6 DEF Revive, NothingClaimed, TypeOK, RowType
<1>7. ASSUME NEW t \in Time, Replan(t) PROVE NothingClaimed
  <2>1. CASE occurrence = "closed" \/ muted
    BY <1>1, <1>7, <2>1 DEF Replan
  <2>2. CASE ~(occurrence = "closed" \/ muted)
    <3>1. \A d \in Rows : [row[d] EXCEPT !.status = "cancelled",
                            !.reason = "superseded"].status = "cancelled"
      BY DEF TypeOK, RowType
    <3>2. PlannedRow(t, FALSE).status = "pending"
      BY DEF PlannedRow, NoRow
    <3> QED
      BY <1>7, <2>2, <3>1, <3>2 DEF Replan, NothingClaimed
  <2> QED
    BY <2>1, <2>2
<1>8. CASE Users
  <2>1. CASE Close \/ Reschedule \/ Mute \/ Disable
    BY <1>5, <2>1 DEF Close, Reschedule, Mute, Disable
  <2>2. CASE Reopen \/ Restore
    BY <1>6, <2>2 DEF Reopen, Restore
  <2>3. CASE \E d \in Rows : CancelUpcoming(d)
    BY <1>5, <2>3 DEF CancelUpcoming
  <2>4. CASE \E t \in Time : Snooze(t)
    BY <1>1, <2>4 DEF Snooze
  <2> QED
    BY <1>7, <1>8, <2>1, <2>2, <2>3, <2>4 DEF Users
<1>9. CASE \/ Reconcile \/ Crash \/ Start \/ Tick \/ Done \/ UNCHANGED vars
           \/ \E j \in sweep : SweepSendFails(j)
           \/ \E status \in {"sent", "gone"} : BriefingSettles(status)
  BY <1>1, <1>9 DEF Reconcile, SweepRead, SweepSend, Crash, Start, Tick, Done,
                    SweepSendFails, BriefingSettles, vars
<1>10. CASE \E w \in Workers : Deliver(w) \/ Fails(w)
  BY <1>2, <1>3, <1>10
<1> QED
  BY <1>4, <1>8, <1>9, <1>10 DEF Next, Boot

(* A step that claims a row finds the recipient and the task still open. *)
LEMMA ClaimStep == TypeOK /\ LooksAreCurrent /\ [Next]_vars => ClaimIsCurrent
<1> SUFFICES ASSUME TypeOK, LooksAreCurrent, [Next]_vars PROVE ClaimIsCurrent
  OBVIOUS
<1>1. ASSUME NEW w \in Workers, Claim(w) PROVE ClaimIsCurrent
  <2>1. Looked(w) /\ worker[w].id \in Rows
    BY <1>1 DEF Claim, At, Looked, TypeOK, Handler
  <2>2. \A d \in Rows : d # worker[w].id => row'[d] = row[d]
    BY <1>1 DEF Claim, Guarded, TypeOK
  <2> QED
    BY <2>1, <2>2 DEF ClaimIsCurrent, LooksAreCurrent, Live
<1> QED
  BY <1>1, OnlyClaimTakesUp DEF ClaimIsCurrent, NothingClaimed

(* A row is taken up only while the recipient, the occurrence and the mute  *)
(* still allow it: the check the handler made some steps before cannot go   *)
(* stale, because each of them is changed together with the rows.           *)
THEOREM ClaimsStayCurrent == Spec => ClaimsAreCurrent
<1>1. Init => TypeOK /\ LooksAreCurrent
  BY TypeInit, LooksInit
<1>2. TypeOK /\ LooksAreCurrent /\ [Next]_vars => TypeOK' /\ LooksAreCurrent'
  BY TypeStep, LooksStep
<1>3. TypeOK /\ LooksAreCurrent /\ [Next]_vars => [ClaimIsCurrent]_vars
  BY ClaimStep
<1> QED
  BY <1>1, <1>2, <1>3, PTL DEF Spec, ClaimsAreCurrent, ClaimIsCurrent
-----------------------------------------------------------------------------
(* A handler may still deliver a message for row d, or give the row back    *)
(* undelivered.                                                             *)
Owes(w, d) ==
  /\ worker[w].id = d
  /\ \/ worker[w].pc = "send"
     \/ /\ worker[w].pc = "record"
        /\ worker[w].outcome \in {"transient", "rate_limited"}
Owing(d) == {w \in Workers : Owes(w, d)}
Owed(w, d) == IF Owes(w, d) THEN 1 ELSE 0

(* The messages a row may have caused: one for each time it was put back,   *)
(* and one more once it has left the queue.                                 *)
Allowed(d) ==
  resets[d] + (IF row[d].status \in {"absent", "pending"} THEN 0 ELSE 1)

(* Every message delivered, and every one that still may be, is allowed.    *)
ContactsAreCovered ==
  \A d \in Rows : contacts[d] + Cardinality(Owing(d)) <= Allowed(d)

(* The counts are numbers. *)
LEMMA CountsTyped ==
  ASSUME TypeOK, NEW d \in Rows
  PROVE  /\ contacts[d] \in Nat /\ Allowed(d) \in Nat
         /\ IsFiniteSet(Owing(d)) /\ Cardinality(Owing(d)) \in Nat
<1>1. IsFiniteSet(Owing(d))
  BY FS_Subset, DeliveryAssumption DEF Owing, DeliveryAssumption
<1> QED
  BY <1>1, FS_CardinalityType DEF TypeOK, Allowed

(* When one handler moves, only its own debt changes. *)
LEMMA OneHandlerMoves ==
  ASSUME TypeOK, TypeOK', NEW w \in Workers, Moves(w), NEW d \in Rows
  PROVE  Cardinality(Owing(d)') - Owed(w, d)' = Cardinality(Owing(d)) - Owed(w, d)
<1>1. Owing(d)' \ {w} = Owing(d) \ {w}
  BY DEF Owing, Owes, Moves
<1>2. IsFiniteSet(Owing(d)) /\ IsFiniteSet(Owing(d)')
  BY FS_Subset, DeliveryAssumption DEF Owing, DeliveryAssumption
<1>3. /\ Cardinality(Owing(d)) \in Nat /\ Cardinality(Owing(d)') \in Nat
  BY <1>2, FS_CardinalityType
<1>4. /\ Cardinality(Owing(d) \ {w}) = Cardinality(Owing(d)) - Owed(w, d)
      /\ Cardinality(Owing(d)' \ {w}) = Cardinality(Owing(d)') - Owed(w, d)'
  <2>1. (w \in Owing(d) <=> Owes(w, d)) /\ (w \in Owing(d)' <=> Owes(w, d)')
    BY DEF Owing
  <2>2. /\ Cardinality(Owing(d) \ {w}) =
              IF w \in Owing(d) THEN Cardinality(Owing(d)) - 1 ELSE Cardinality(Owing(d))
        /\ Cardinality(Owing(d)' \ {w}) =
              IF w \in Owing(d)' THEN Cardinality(Owing(d)') - 1 ELSE Cardinality(Owing(d)')
    BY <1>2, FS_RemoveElement
  <2> QED
    BY <1>3, <2>1, <2>2 DEF Owed
<1> QED
  BY <1>1, <1>4

(* So its step is covered when what it adds to the messages and to its debt *)
(* is allowed.                                                              *)
LEMMA CoveredMove ==
  ASSUME TypeOK, TypeOK', ContactsAreCovered, NEW w \in Workers, Moves(w),
         \A d \in Rows : contacts'[d] + Owed(w, d)' + Allowed(d)
                            <= contacts[d] + Owed(w, d) + Allowed(d)'
  PROVE  ContactsAreCovered'
<1> SUFFICES ASSUME NEW d \in Rows
             PROVE  contacts'[d] + Cardinality(Owing(d)') <= Allowed(d)'
  BY DEF ContactsAreCovered
<1>1. Cardinality(Owing(d)') - Owed(w, d)' = Cardinality(Owing(d)) - Owed(w, d)
  BY OneHandlerMoves
<1>2. /\ contacts[d] \in Nat /\ Allowed(d) \in Nat /\ Cardinality(Owing(d)) \in Nat
      /\ contacts[d] + Cardinality(Owing(d)) <= Allowed(d)
  BY CountsTyped DEF ContactsAreCovered
<1>3. contacts'[d] \in Nat /\ Allowed(d)' \in Nat
  BY DEF TypeOK, Allowed
<1>4. Cardinality(Owing(d)') \in Nat
  BY FS_Subset, FS_CardinalityType, DeliveryAssumption DEF Owing, DeliveryAssumption
<1>5. Owed(w, d) \in {0, 1} /\ Owed(w, d)' \in {0, 1}
  BY DEF Owed
<1>6. contacts'[d] + Owed(w, d)' + Allowed(d) <= contacts[d] + Owed(w, d) + Allowed(d)'
  OBVIOUS
<1> HIDE DEF Owed, Allowed, Owing, TypeOK
<1> QED
  BY <1>1, <1>2, <1>3, <1>4, <1>5, <1>6

(* A step that moves no handler is covered when nothing is allowed less. *)
LEMMA CoveredChange ==
  ASSUME TypeOK, TypeOK', ContactsAreCovered, UNCHANGED <<worker, contacts>>,
         \A d \in Rows : Allowed(d) <= Allowed(d)'
  PROVE  ContactsAreCovered'
<1> SUFFICES ASSUME NEW d \in Rows
             PROVE  contacts'[d] + Cardinality(Owing(d)') <= Allowed(d)'
  BY DEF ContactsAreCovered
<1>1. Owing(d)' = Owing(d)
  BY DEF Owing, Owes
<1>2. /\ contacts[d] \in Nat /\ Allowed(d) \in Nat /\ Cardinality(Owing(d)) \in Nat
      /\ contacts[d] + Cardinality(Owing(d)) <= Allowed(d)
  BY CountsTyped DEF ContactsAreCovered
<1>3. Allowed(d)' \in Nat
  BY DEF TypeOK, Allowed
<1> QED
  BY <1>1, <1>2, <1>3

(* What an update guarded by status does to what its row may still cause.   *)
LEMMA GuardedAllows ==
  ASSUME TypeOK, NEW w \in Workers, NEW expected \in Live, NEW new,
         Guarded(w, expected, new), new.status \in Statuses \ {"absent"},
         UNCHANGED resets, NEW d \in Rows
  PROVE  /\ d # worker[w].id => Allowed(d)' = Allowed(d)
         /\ expected = "pending" => Allowed(d) <= Allowed(d)'
         /\ new.status # "pending" => Allowed(d) <= Allowed(d)'
         /\ Allowed(d) <= Allowed(d)' + 1
<1>1. row'[d] = row[d] \/ (d = worker[w].id /\ row[d].status = expected /\ row'[d] = new)
  BY DEF Guarded, TypeOK
<1>2. resets[d] \in Nat /\ resets'[d] = resets[d]
  BY DEF TypeOK
<1> QED
  BY <1>1, <1>2 DEF Allowed, Live

(* Every step of a handler keeps the contacts covered, ... *)
LEMMA CoveredDeliver ==
  ASSUME TypeOK, TypeOK', ContactsAreCovered, NEW w \in Workers, Deliver(w)
  PROVE  ContactsAreCovered'
<1> USE DEF domain, db, history
<1>1. /\ worker[w] \in Handler /\ worker[w].id \in Rows
      /\ row[worker[w].id] \in RowType
  BY DEF TypeOK, Handler
<1>2. \A d \in Rows : /\ contacts[d] \in Nat /\ contacts'[d] \in Nat
                      /\ Allowed(d) \in Nat /\ Allowed(d)' \in Nat
                      /\ Owed(w, d) \in {0, 1} /\ Owed(w, d)' \in {0, 1}
  BY DEF TypeOK, Allowed, Owed
<1> PICK own \in Rows : own = worker[w].id
  BY <1>1
(* Steps that neither deliver nor give a row back.                          *)
<1>3. ASSUME Moves(w), \A d \in Rows : Owed(w, d)' = 0, UNCHANGED contacts,
             \A d \in Rows : Allowed(d) <= Allowed(d)'
      PROVE  ContactsAreCovered'
  BY <1>2, <1>3, CoveredMove
(* Steps that end what the handler owed to its row.                         *)
<1>4. ASSUME Moves(w), \A d \in Rows : Owed(w, d)' = 0, UNCHANGED contacts,
             Owed(w, own) = 1, Allowed(own) <= Allowed(own)' + 1,
             \A d \in Rows : d # own => Allowed(d)' = Allowed(d)
      PROVE  ContactsAreCovered'
  <2>1. \A d \in Rows : contacts'[d] + Owed(w, d)' + Allowed(d)
                           <= contacts[d] + Owed(w, d) + Allowed(d)'
    BY <1>2, <1>4
  <2> QED
    BY <1>4, <2>1, CoveredMove
<1>5. UNCHANGED <<row, resets>> => \A d \in Rows : Allowed(d) <= Allowed(d)'
  BY <1>2 DEF Allowed
<1>6. Finish(w) => Moves(w) /\ \A d \in Rows : Owed(w, d)' = 0
  BY DEF Finish, Idle, Moves, Owed, Owes, TypeOK
<1>7. ASSUME NEW pc \in Steps \ {"send", "record"}
      PROVE  /\ Goto(w, pc) => Moves(w) /\ \A d \in Rows : Owed(w, d)' = 0
             /\ \A at : worker' = [worker EXCEPT ![w].pc = pc, ![w].at = at]
                  => Moves(w) /\ \A d \in Rows : Owed(w, d)' = 0
  BY <1>1, <1>7 DEF Goto, Moves, Owed, Owes, TypeOK, Handler
<1>8. ASSUME NEW j \in jobs, Take(w, j) PROVE ContactsAreCovered'
  <2>1. Read(j).pc \notin {"send", "record"}
    BY DEF Read, Idle
  <2>2. Moves(w) /\ \A d \in Rows : Owed(w, d)' = 0
    BY <1>8, <2>1 DEF Take, Moves, Owed, Owes, TypeOK
  <2> QED
    BY <1>3, <1>5, <1>8, <2>2 DEF Take
<1>9. CASE Suppress(w)
  <2>1. [row[worker[w].id] EXCEPT !.status = "suppressed",
           !.reason = worker[w].reason].status \in Statuses \ {"absent"}
    BY <1>1 DEF RowType, Statuses
  <2>2. \A d \in Rows : Allowed(d) <= Allowed(d)'
    BY <1>9, <2>1, GuardedAllows DEF Suppress, Live
  <2> QED
    BY <1>3, <1>6, <1>9, <2>2 DEF Suppress
<1>10. CASE Defer(w)
  <2>1. \A d \in Rows : row'[d].status = row[d].status
    BY <1>1, <1>10 DEF Defer, Guarded, TypeOK, RowType
  <2>2. \A d \in Rows : Allowed(d) <= Allowed(d)'
    BY <1>2, <1>10, <2>1 DEF Defer, Allowed
  <2> QED
    BY <1>3, <1>7, <1>10, <2>2 DEF Defer, Steps
<1>11. CASE Enqueue(w) \/ Arm(w)
  BY <1>3, <1>5, <1>6, <1>11 DEF Enqueue, Arm
<1>12. CASE Bundle(w)
  <2>1. Moves(w) /\ \A d \in Rows : Owed(w, d)' = 0
    BY <1>1, <1>12 DEF Bundle, Moves, Owed, Owes, TypeOK, Handler
  <2> QED
    BY <1>3, <1>5, <1>12, <2>1 DEF Bundle
<1>13. CASE Supersede(w)
  <2>1. [row[worker[w].id] EXCEPT !.status = "suppressed",
           !.reason = "superseded"].status \in Statuses \ {"absent"}
    BY <1>1 DEF RowType, Statuses
  <2>2. \A d \in Rows : Allowed(d) <= Allowed(d)'
    BY <1>13, <2>1, GuardedAllows DEF Supersede, Live
  <2> QED
    BY <1>3, <1>7, <1>13, <2>2 DEF Supersede, Steps
<1>14. CASE Claim(w)
  <2>1. [row[worker[w].id] EXCEPT !.status = "processing",
           !.attempts = worker[w].attempts + 1].status \in Statuses \ {"absent"}
    BY <1>1 DEF RowType, Statuses
  <2>2. \A d \in Rows : Allowed(d) <= Allowed(d)'
    BY <1>14, <2>1, GuardedAllows DEF Claim, Live
  <2>3. CASE row[worker[w].id].status # "pending"
    BY <1>3, <1>6, <1>14, <2>2, <2>3 DEF Claim
  <2>4. CASE row[worker[w].id].status = "pending"
    <3>1. /\ Moves(w)
          /\ \A d \in Rows : d # worker[w].id => Owed(w, d)' = 0
      BY <1>1, <1>14, <2>4 DEF Claim, Goto, Moves, Owed, Owes, TypeOK, Handler
    <3>2. Allowed(own)' = Allowed(own) + 1
      <4>1. row'[own].status = "processing"
        BY <1>1, <1>14, <2>4 DEF Claim, Guarded, TypeOK, RowType
      <4>2. resets[own] \in Nat
        BY <1>1 DEF TypeOK
      <4> QED
        BY <1>14, <2>4, <4>1, <4>2 DEF Claim, Allowed
    <3>3. \A d \in Rows : contacts'[d] + Owed(w, d)' + Allowed(d)
                             <= contacts[d] + Owed(w, d) + Allowed(d)'
      <4> SUFFICES ASSUME NEW d \in Rows
                   PROVE  contacts'[d] + Owed(w, d)' + Allowed(d)
                            <= contacts[d] + Owed(w, d) + Allowed(d)'
        OBVIOUS
      <4>1. contacts'[d] = contacts[d]
        BY <1>14 DEF Claim
      <4>2. CASE d = own
        BY <1>2, <3>2, <4>1, <4>2
      <4>3. CASE d # own
        BY <1>2, <2>2, <3>1, <4>1, <4>3
      <4> QED
        BY <4>2, <4>3
    <3> QED
      BY <3>1, <3>3, CoveredMove
  <2> QED
    BY <2>3, <2>4
<1>15. ASSUME NEW o \in Outcomes, NEW delivered \in BOOLEAN, Send(w, o, delivered)
       PROVE  ContactsAreCovered'
  <2>1. /\ Moves(w) /\ worker'[w].id = worker[w].id
        /\ worker'[w].pc = "record" /\ worker'[w].outcome = o
        /\ worker[w].pc = "send"
    BY <1>1, <1>15 DEF Send, At, Moves, TypeOK, Handler
  <2>2. \A d \in Rows : Allowed(d)' = Allowed(d)
    BY <1>15 DEF Send, Allowed
  <2>3. \A d \in Rows : contacts'[d] + Owed(w, d)' <= contacts[d] + Owed(w, d)
    <3>1. CASE delivered
      <4>1. o \in {"sent", "ambiguous"}
        BY <1>15, <3>1 DEF Send
      <4>2. \A d \in Rows : contacts'[d] = IF d = worker[w].id THEN contacts[d] + 1
                                                              ELSE contacts[d]
        BY <1>15, <3>1 DEF Send, TypeOK
      <4>3. \A d \in Rows : Owed(w, d)' = 0 /\ Owed(w, d) = IF d = worker[w].id THEN 1 ELSE 0
        BY <2>1, <4>1 DEF Owed, Owes
      <4> QED
        BY <1>2, <4>2, <4>3
    <3>2. CASE ~delivered
      <4>1. UNCHANGED contacts
        BY <1>15, <3>2 DEF Send
      <4>2. \A d \in Rows : Owed(w, d)' <= Owed(w, d)
        BY <2>1 DEF Owed, Owes
      <4> QED
        BY <1>2, <4>1, <4>2
    <3> QED
      BY <3>1, <3>2
  <2>4. \A d \in Rows : contacts'[d] + Owed(w, d)' + Allowed(d)
                           <= contacts[d] + Owed(w, d) + Allowed(d)'
    BY <1>2, <2>2, <2>3
  <2> QED
    BY <2>1, <2>4, CoveredMove
<1>16. CASE RecordSent(w)
  <2>1. [row[worker[w].id] EXCEPT !.status = "sent"].status
           \in Statuses \ {"absent", "pending"}
    BY <1>1 DEF RowType, Statuses
  <2>2. \A d \in Rows : Allowed(d) <= Allowed(d)'
    BY <1>16, <2>1, GuardedAllows DEF RecordSent, Live
  <2> QED
    BY <1>3, <1>7, <1>16, <2>2 DEF RecordSent, Steps
<1>17. CASE RecordFinal(w)
  <2>1. \A final : [row[worker[w].id] EXCEPT
           !.status = IF final = "rejected" THEN "failed" ELSE "ambiguous"].status
             \in Statuses \ {"absent", "pending"}
    BY <1>1 DEF RowType, Statuses
  <2>2. \A d \in Rows : Allowed(d) <= Allowed(d)'
    BY <1>17, <2>1, GuardedAllows DEF RecordFinal, Live
  <2> QED
    BY <1>3, <1>6, <1>17, <2>2 DEF RecordFinal
<1>18. CASE RecordTransient(w)
  <2>1. [row[worker[w].id] EXCEPT !.status =
           IF worker[w].attempts + 1 >= MaxAttempts THEN "failed" ELSE "pending"].status
             \in Statuses \ {"absent"}
    BY <1>1 DEF RowType, Statuses
  <2>2. \A d \in Rows : /\ d # own => Allowed(d)' = Allowed(d)
                        /\ Allowed(d) <= Allowed(d)' + 1
    BY <1>18, <2>1, GuardedAllows DEF RecordTransient, Live
  <2>3. Owed(w, own) = 1
    BY <1>18 DEF RecordTransient, Recording, At, Owed, Owes
  <2> QED
    BY <1>1, <1>2, <1>4, <1>6, <1>18, <2>2, <2>3 DEF RecordTransient, Throw
<1>19. ASSUME NEW after \in RetryAfter, RecordRateLimited(w, after)
       PROVE  ContactsAreCovered'
  <2>1. [row[worker[w].id] EXCEPT !.status = "pending",
           !.attempts = worker[w].attempts,
           !.scheduled = AtMost(now + after)].status \in Statuses \ {"absent"}
    BY <1>1 DEF RowType, Statuses
  <2>2. \A d \in Rows : /\ d # own => Allowed(d)' = Allowed(d)
                        /\ Allowed(d) <= Allowed(d)' + 1
    BY <1>19, <2>1, GuardedAllows DEF RecordRateLimited, Live
  <2>3. Owed(w, own) = 1
    BY <1>19 DEF RecordRateLimited, Recording, At, Owed, Owes
  <2> QED
    BY <1>1, <1>2, <1>4, <1>7, <1>19, <2>2, <2>3 DEF RecordRateLimited, Steps
<1>20. CASE Escalate(w)
  <2>1. Unused # {} => FreshRow \in Unused
    BY DEF FreshRow
  <2>2. \A at : PlannedRow(at, TRUE).status = "pending"
    BY DEF PlannedRow, NoRow
  <2>3. \A d \in Rows : \/ row'[d] = row[d]
                        \/ row[d].status = "absent" /\ row'[d].status = "pending"
    <3>1. \/ row' = row
          \/ /\ Unused # {}
             /\ row' = [row EXCEPT ![FreshRow] = PlannedRow(AtMost(worker[w].at + Interval), TRUE)]
      BY <1>20 DEF Escalate
    <3>2. Unused # {} => FreshRow \in Rows /\ row[FreshRow].status = "absent"
      BY <2>1 DEF Unused
    <3>3. row \in [Rows -> RowType]
      BY DEF TypeOK
    <3> QED
      BY <2>2, <3>1, <3>2, <3>3
  <2>4. \A d \in Rows : Allowed(d) <= Allowed(d)'
    BY <1>2, <1>20, <2>3 DEF Escalate, Allowed
  <2> QED
    BY <1>3, <1>6, <1>7, <1>20, <2>4 DEF Escalate, Steps
<1> QED
  BY <1>8, <1>9, <1>10, <1>11, <1>12, <1>13, <1>14, <1>15, <1>16, <1>17, <1>18,
     <1>19, <1>20 DEF Deliver
(* ... and so does every failing call: a record that is lost is counted, ... *)
LEMMA CoveredFails ==
  ASSUME TypeOK, TypeOK', ContactsAreCovered, NEW w \in Workers, Fails(w)
  PROVE  ContactsAreCovered'
<1> USE DEF domain, db, history
<1>1. worker[w] \in Handler /\ worker[w].id \in Rows
  BY DEF TypeOK, Handler
<1>2. \A d \in Rows : /\ contacts[d] \in Nat /\ contacts'[d] \in Nat
                      /\ Allowed(d) \in Nat /\ Allowed(d)' \in Nat
                      /\ Owed(w, d) \in {0, 1} /\ Owed(w, d)' \in {0, 1}
  BY DEF TypeOK, Allowed, Owed
<1>3. ASSUME Moves(w), UNCHANGED <<row, resets, contacts>>,
             \A d \in Rows : Owed(w, d)' <= Owed(w, d)
      PROVE  ContactsAreCovered'
  <2>1. \A d \in Rows : Allowed(d)' = Allowed(d)
    BY <1>3 DEF Allowed
  <2>2. \A d \in Rows : contacts'[d] + Owed(w, d)' + Allowed(d)
                           <= contacts[d] + Owed(w, d) + Allowed(d)'
    BY <1>2, <1>3, <2>1
  <2> QED
    BY <1>3, <2>2, CoveredMove
<1>4. CASE EnqueueFails(w) \/ EscalateFails(w) \/ ArmFails(w) \/ RecordFailureFails(w)
  <2>1. Moves(w) /\ \A d \in Rows : Owed(w, d)' = 0
    BY <1>4 DEF EnqueueFails, EscalateFails, ArmFails, RecordFailureFails, Throw,
                Finish, Idle, Moves, Owed, Owes, TypeOK
  <2> QED
    BY <1>2, <1>3, <1>4, <2>1
       DEF EnqueueFails, EscalateFails, ArmFails, RecordFailureFails
<1>5. CASE RecordSentFails(w)
  <2> PICK own \in Rows : own = worker[w].id
    BY <1>1
  <2>1. /\ Moves(w)
        /\ \A d \in Rows : d # own => Owed(w, d)' = 0
    BY <1>1, <1>5 DEF RecordSentFails, Recording, At, Moves, Owed, Owes, TypeOK, Handler
  <2>2. \A d \in Rows : resets'[d] = IF d = own THEN resets[d] + 1 ELSE resets[d]
    BY <1>5 DEF RecordSentFails, TypeOK
  <2>3. \A d \in Rows : Allowed(d)' = IF d = own THEN Allowed(d) + 1 ELSE Allowed(d)
    BY <1>5, <2>2 DEF RecordSentFails, Allowed, TypeOK
  <2>4. \A d \in Rows : contacts'[d] + Owed(w, d)' + Allowed(d)
                           <= contacts[d] + Owed(w, d) + Allowed(d)'
    <3> SUFFICES ASSUME NEW d \in Rows
                 PROVE  contacts'[d] + Owed(w, d)' + Allowed(d)
                          <= contacts[d] + Owed(w, d) + Allowed(d)'
      OBVIOUS
    <3>1. contacts'[d] = contacts[d]
      BY <1>5 DEF RecordSentFails
    <3>2. CASE d = own
      BY <1>2, <2>3, <3>1, <3>2
    <3>3. CASE d # own
      BY <1>2, <2>1, <2>3, <3>1, <3>3
    <3> QED
      BY <3>2, <3>3
  <2> QED
    BY <2>1, <2>4, CoveredMove
<1>6. CASE Expire(w)
  <2>1. Moves(w) /\ \A d \in Rows : Owed(w, d)' = Owed(w, d)
    BY <1>1, <1>6 DEF Expire, Moves, Owed, Owes, TypeOK, Handler
  <2> QED
    BY <1>2, <1>3, <1>6, <2>1 DEF Expire
<1> QED
  BY <1>4, <1>5, <1>6 DEF Fails

(* ... and every edit: what is put back is counted. *)
LEMMA CoveredUsers ==
  ASSUME TypeOK, TypeOK', ContactsAreCovered, Users
  PROVE  ContactsAreCovered'
<1> USE DEF domain, history, OthersUnchanged
<1>1. \A d \in Rows : resets[d] \in Nat /\ resets'[d] \in Nat
  BY DEF TypeOK
<1>2. ASSUME NEW which, NEW status \in Statuses \ {"absent", "pending"}, NEW reason,
             Withdraw(which, status, reason), UNCHANGED resets
      PROVE  \A d \in Rows : Allowed(d) <= Allowed(d)'
  <2>1. \A d \in Rows : row'[d] = row[d] \/ row'[d].status = status
    BY <1>2 DEF Withdraw, TypeOK, RowType
  <2> QED
    BY <1>1, <1>2, <2>1 DEF Allowed
<1>3. ASSUME NEW reason, Revive(reason)
      PROVE  \A d \in Rows : Allowed(d) <= Allowed(d)'
  <2>1. \A d \in Rows :
          \/ row'[d] = row[d] /\ resets'[d] = resets[d]
          \/ /\ row[d].status = "suppressed" /\ row'[d].status = "pending"
             /\ resets'[d] = resets[d] + 1
    BY <1>3 DEF Revive, Revivable, TypeOK, RowType
  <2> QED
    BY <1>1, <2>1 DEF Allowed
<1>4. CASE Close \/ Reschedule \/ Mute \/ Disable
  BY <1>2, <1>4, CoveredChange DEF Close, Reschedule, Mute, Disable, Statuses
<1>5. CASE Reopen \/ Restore
  BY <1>3, <1>5, CoveredChange DEF Reopen, Restore
<1>6. ASSUME NEW d \in Rows, CancelUpcoming(d) PROVE ContactsAreCovered'
  BY <1>2, <1>6, CoveredChange DEF CancelUpcoming, Statuses
<1>7. ASSUME NEW t, Snooze(t) PROVE ContactsAreCovered'
  BY <1>1, <1>7, CoveredChange DEF Snooze, Allowed
<1>8. ASSUME NEW t \in Time, Replan(t) PROVE ContactsAreCovered'
  <2>1. CASE occurrence = "closed" \/ muted
    <3>1. UNCHANGED <<row, resets, worker, contacts>>
      BY <1>8, <2>1 DEF Replan
    <3> QED
      BY <1>1, <3>1, CoveredChange DEF Allowed
  <2>2. CASE ~(occurrence = "closed" \/ muted)
    <3>1. FreshRow \in Unused
      BY <1>8, <2>2 DEF Replan, FreshRow
    <3>2. \A d \in Rows : [row[d] EXCEPT !.status = "cancelled",
                            !.reason = "superseded"].status = "cancelled"
      BY DEF TypeOK, RowType
    <3>3. PlannedRow(t, FALSE).status = "pending"
      BY DEF PlannedRow, NoRow
    <3>4. \A d \in Rows :
            \/ row'[d] = row[d] \/ row'[d].status = "cancelled"
            \/ row[d].status = "absent" /\ row'[d].status = "pending"
      <4>1. row' = [d \in Rows |->
               IF d = FreshRow THEN PlannedRow(t, FALSE)
               ELSE IF row[d].status \in Live /\ ~row[d].escalation
               THEN [row[d] EXCEPT !.status = "cancelled", !.reason = "superseded"]
               ELSE row[d]]
        BY <1>8, <2>2 DEF Replan
      <4>2. row[FreshRow].status = "absent"
        BY <3>1 DEF Unused
      <4>3. \A d \in Rows :
               \/ d = FreshRow /\ row'[d] = PlannedRow(t, FALSE)
               \/ row'[d] = row[d]
               \/ row'[d] = [row[d] EXCEPT !.status = "cancelled", !.reason = "superseded"]
        BY <4>1
      <4> QED
        BY <3>2, <3>3, <4>2, <4>3
    <3>5. \A d \in Rows : Allowed(d) <= Allowed(d)'
      <4>1. UNCHANGED resets
        BY <1>8 DEF Replan
      <4> QED
        BY <1>1, <3>4, <4>1 DEF Allowed
    <3> QED
      BY <1>8, <3>5, CoveredChange DEF Replan
  <2> QED
    BY <2>1, <2>2
<1> QED
  BY <1>4, <1>5, <1>6, <1>7, <1>8 DEF Users

(* At the start no message is delivered and none is owed. *)
LEMMA CoveredInit == Init => ContactsAreCovered
<1> SUFFICES ASSUME Init, NEW d \in Rows
             PROVE  contacts[d] + Cardinality(Owing(d)) <= Allowed(d)
  BY DEF ContactsAreCovered
<1>1. Owing(d) = {}
  BY DEF Init, Idle, Owing, Owes
<1>2. Cardinality(Owing(d)) = 0
  BY <1>1, FS_EmptySet
<1> QED
  BY <1>2 DEF Init, Allowed

(* Every step keeps the contacts covered. *)
LEMMA CoveredStep ==
  TypeOK /\ ContactsAreCovered /\ [Next]_vars => ContactsAreCovered'
<1> SUFFICES ASSUME TypeOK, TypeOK', ContactsAreCovered, [Next]_vars
             PROVE  ContactsAreCovered'
  BY TypeStep
<1>1. CASE \E w \in Workers : Deliver(w) \/ Fails(w)
  BY <1>1, CoveredDeliver, CoveredFails
<1>2. CASE Users
  BY <1>2, CoveredUsers
<1>3. CASE Crash
  <2> SUFFICES ASSUME NEW d \in Rows
               PROVE  contacts'[d] + Cardinality(Owing(d)') <= Allowed(d)'
    BY DEF ContactsAreCovered
  <2>1. Owing(d)' = {}
    BY <1>3 DEF Crash, Idle, Owing, Owes
  <2>2. Cardinality(Owing(d)') = 0
    BY <2>1, FS_EmptySet
  <2>3. contacts'[d] = contacts[d] /\ Allowed(d)' = Allowed(d)
    BY <1>3 DEF Crash, Allowed, db, history
  <2> QED
    BY <2>2, <2>3, CountsTyped DEF ContactsAreCovered
<1>4. CASE Recover
  <2>1. \A d \in Rows :
          \/ row'[d] = row[d] /\ resets'[d] = resets[d]
          \/ resets'[d] = resets[d] + 1
    BY <1>4 DEF Recover, TypeOK
  <2>2. \A d \in Rows : resets[d] \in Nat
    BY DEF TypeOK
  <2>3. \A d \in Rows : Allowed(d) <= Allowed(d)'
    BY <2>1, <2>2 DEF Allowed
  <2> QED
    BY <1>4, <2>3, CoveredChange DEF Recover
<1>5. CASE UNCHANGED <<worker, row, resets, contacts>>
  BY <1>5 DEF ContactsAreCovered, Owing, Owes, Allowed
<1>6. CASE \/ Reconcile \/ Start \/ Tick \/ Done \/ UNCHANGED vars
           \/ \E j \in sweep : SweepSendFails(j)
           \/ \E status \in {"sent", "gone"} : BriefingSettles(status)
  BY <1>5, <1>6 DEF Reconcile, SweepRead, SweepSend, Start, Tick, Done,
       SweepSendFails, BriefingSettles, db, domain, history, vars
<1> QED
  BY <1>1, <1>2, <1>3, <1>4, <1>6 DEF Next, Boot

(* A row causes one message, and at most one more for each time something   *)
(* other than its sender put it back: handlers, retries, jobs that outlive  *)
(* their time, sweeps and edits together cannot deliver a second one.       *)
THEOREM ContactsStayCounted == Spec => []ContactsAreCounted
<1>1. Init => TypeOK /\ ContactsAreCovered
  BY TypeInit, CoveredInit
<1>2. TypeOK /\ ContactsAreCovered /\ [Next]_vars => TypeOK' /\ ContactsAreCovered'
  BY TypeStep, CoveredStep
<1>3. TypeOK /\ ContactsAreCovered => ContactsAreCounted
  <2> SUFFICES ASSUME TypeOK, ContactsAreCovered, NEW d \in Rows
               PROVE  contacts[d] <= 1 + resets[d]
    BY DEF ContactsAreCounted
  <2>1. contacts[d] + Cardinality(Owing(d)) <= Allowed(d) /\ resets[d] \in Nat
    BY DEF ContactsAreCovered, TypeOK
  <2>2. Allowed(d) <= 1 + resets[d]
    BY <2>1 DEF Allowed
  <2> QED
    BY <2>1, <2>2, CountsTyped
<1> QED
  BY <1>1, <1>2, <1>3, PTL DEF Spec
-----------------------------------------------------------------------------
(* A handler is about to record what became of row d. *)
Tends(w, d) == worker[w].id = d /\ worker[w].pc \in {"send", "record"}

(* Nothing is left in processing between recovery and the start of the      *)
(* workers, and while no call has failed what is in processing afterwards   *)
(* has its handler.                                                         *)
ProcessingIsTended ==
  \A d \in Rows : row[d].status = "processing" =>
    /\ process # "recovered"
    /\ (process = "up" /\ faults = 0) => \E w \in Workers : Tends(w, d)

(* No step undoes a fault. *)
LEMMA FaultsGrow ==
  ASSUME TypeOK, [Next]_vars
  PROVE  faults \in Nat /\ faults' >= faults
<1>1. faults \in Nat
  BY ScenarioTyped DEF TypeOK
<1> USE DEF bounds, vars
<1>2. ASSUME NEW w \in Workers, Deliver(w) PROVE UNCHANGED faults \/ Fault
  BY <1>2 DEF Deliver, Take, Suppress, Defer, Enqueue, Bundle, Supersede, Claim, Send,
       RecordSent, RecordFinal, RecordTransient, RecordRateLimited, Escalate, Arm
<1>3. ASSUME NEW w \in Workers, Fails(w) PROVE Fault
  BY <1>3 DEF Fails, EnqueueFails, RecordSentFails, RecordFailureFails, EscalateFails,
       ArmFails, Expire
<1>4. Users => UNCHANGED faults
  BY DEF Users, Close, Reopen, Reschedule, Mute, Disable, Restore, Replan, Snooze,
       CancelUpcoming, OthersUnchanged
<1>5. ASSUME \/ Reconcile \/ Crash \/ Boot \/ Tick \/ Done \/ UNCHANGED vars
             \/ \E j \in sweep : SweepSendFails(j)
             \/ \E status \in {"sent", "gone"} : BriefingSettles(status)
      PROVE  UNCHANGED faults \/ Fault
  BY <1>5 DEF Reconcile, SweepRead, SweepSend, SweepSendFails, Crash, Boot, Recover,
       Start, BriefingSettles, Tick, Done
<1>6. UNCHANGED faults \/ Fault
  BY <1>2, <1>3, <1>4, <1>5 DEF Next
<1> QED
  BY <1>1, <1>6 DEF Fault

(* A step that takes no row up keeps what is in processing tended when each *)
(* handler goes on tending its row, or takes it out of processing.          *)
LEMMA TendingGoesOn ==
  ASSUME TypeOK, [Next]_vars, ProcessingIsTended, NothingClaimed,
         process' \in {process, "down"},
         \A d \in Rows, v \in Workers :
           (Tends(v, d) /\ row'[d].status = "processing") => Tends(v, d)'
  PROVE  ProcessingIsTended'
BY FaultsGrow DEF ProcessingIsTended, NothingClaimed

(* Every step of a handler keeps what is in processing tended, ... *)
LEMMA TendedDeliver ==
  ASSUME TypeOK, [Next]_vars, ProcessingIsTended, NEW w \in Workers, Deliver(w)
  PROVE  ProcessingIsTended'
<1> USE DEF domain, db, history
<1>1. /\ worker[w] \in Handler /\ worker[w].id \in Rows
      /\ row[worker[w].id] \in RowType
  BY DEF TypeOK, Handler
<1>2. ASSUME Moves(w), worker[w].pc \notin {"send", "record"}, NothingClaimed,
             process' = process
      PROVE  ProcessingIsTended'
  <2>1. \A d \in Rows, v \in Workers : Tends(v, d) => Tends(v, d)'
    BY <1>2 DEF Tends, Moves
  <2> QED
    BY <1>2, <2>1, TendingGoesOn
<1>3. ASSUME NEW new, Guarded(w, "processing", new), new.status # "processing",
             Moves(w), process' = process
      PROVE  ProcessingIsTended'
  <2>1. row'[worker[w].id].status # "processing"
    BY <1>1, <1>3 DEF Guarded, TypeOK
  <2>2. \A d \in Rows, v \in Workers :
           (Tends(v, d) /\ row'[d].status = "processing") => Tends(v, d)'
    BY <1>3, <2>1 DEF Tends, Moves
  <2> QED
    BY <1>3, <2>2, TendingGoesOn, GuardedClaimsNothing
<1>4. ASSUME NEW status, status # "processing", NEW x, NEW y
      PROVE  /\ [row[worker[w].id] EXCEPT !.status = status].status # "processing"
             /\ [row[worker[w].id] EXCEPT !.status = status, !.attempts = x,
                                          !.scheduled = y].status # "processing"
  BY <1>1, <1>4 DEF RowType
<1>5. /\ Finish(w) => Moves(w)
      /\ \A pc : Goto(w, pc) => Moves(w)
      /\ \A pc, at : worker' = [worker EXCEPT ![w].pc = pc, ![w].at = at] => Moves(w)
  BY DEF Finish, Goto, Moves, TypeOK
<1>6. CASE \A v \in Workers : ~Claim(v)
  <2>1. NothingClaimed
    BY <1>6, OnlyClaimTakesUp
  <2>2. CASE \E j \in jobs : Take(w, j)
    BY <1>2, <2>1, <2>2 DEF Take, At, Moves, TypeOK
  <2>3. CASE Suppress(w) \/ Defer(w) \/ Enqueue(w) \/ Arm(w) \/ Supersede(w)
    BY <1>2, <1>5, <2>1, <2>3 DEF Suppress, Defer, Enqueue, Arm, Supersede, At
  <2>4. CASE Bundle(w) \/ Escalate(w)
    BY <1>2, <1>5, <2>1, <2>4 DEF Bundle, Escalate, At, Moves, TypeOK
  <2>5. ASSUME NEW o, NEW delivered, Send(w, o, delivered)
        PROVE  ProcessingIsTended'
    <3>1. Moves(w) /\ worker'[w].id = worker[w].id /\ worker'[w].pc = "record"
      BY <1>1, <2>5 DEF Send, Moves, TypeOK, Handler
    <3>2. \A d \in Rows, v \in Workers : Tends(v, d) => Tends(v, d)'
      BY <3>1 DEF Tends, Moves
    <3> QED
      BY <2>1, <2>5, <3>2, TendingGoesOn DEF Send
  <2>6. CASE RecordSent(w)
    BY <1>3, <1>4, <1>5, <2>6 DEF RecordSent
  <2>7. CASE RecordFinal(w)
    BY <1>3, <1>4, <1>5, <2>7 DEF RecordFinal
  <2>8. CASE RecordTransient(w)
    BY <1>3, <1>4, <1>5, <2>8 DEF RecordTransient, Throw
  <2>9. ASSUME NEW after \in RetryAfter, RecordRateLimited(w, after)
        PROVE  ProcessingIsTended'
    BY <1>3, <1>4, <1>5, <2>9 DEF RecordRateLimited
  <2> QED
    BY <1>6, <2>2, <2>3, <2>4, <2>5, <2>6, <2>7, <2>8, <2>9 DEF Deliver
<1>7. ASSUME NEW v \in Workers, Claim(v) PROVE ProcessingIsTended'
  <2> PICK own \in Rows : own = worker[v].id
    BY DEF TypeOK, Handler
  <2>1. worker[v] \in Handler /\ row[own] \in RowType
    BY DEF TypeOK
  <2>2. CASE row[own].status # "pending"
    <3>1. row' = row /\ process' = process
      BY <1>7, <2>2 DEF Claim, Guarded, TypeOK
    <3>2. Moves(v) /\ worker[v].pc = "claim"
      BY <1>7, <2>2 DEF Claim, Finish, Moves, At, TypeOK
    <3>3. \A d \in Rows, u \in Workers : Tends(u, d) => Tends(u, d)'
      BY <3>2 DEF Tends, Moves
    <3> QED
      BY <3>1, <3>3, TendingGoesOn DEF NothingClaimed
  <2>3. CASE row[own].status = "pending"
    <3>1. Moves(v) /\ worker[v].pc = "claim" /\ Tends(v, own)'
      BY <1>7, <2>1, <2>3 DEF Claim, Goto, Moves, At, Tends, TypeOK, Handler
    <3>2. \A d \in Rows \ {own} : row'[d] = row[d]
      BY <1>7 DEF Claim, Guarded, TypeOK
    <3>3. \A d \in Rows, u \in Workers : Tends(u, d) => Tends(u, d)'
      BY <3>1 DEF Tends, Moves
    <3>4. process' = "up" /\ process = "up" /\ (faults' = 0 => faults = 0)
      BY <1>7 DEF Claim, At, bounds
    <3> QED
      BY <3>1, <3>2, <3>3, <3>4 DEF ProcessingIsTended
  <2> QED
    BY <2>2, <2>3
<1> QED
  BY <1>6, <1>7

(* ... and so does every failing call: one that leaves a row in processing  *)
(* is counted as a fault.                                                   *)
LEMMA TendedFails ==
  ASSUME TypeOK, [Next]_vars, ProcessingIsTended, NEW w \in Workers, Fails(w)
  PROVE  ProcessingIsTended'
<1> USE DEF domain, db, history
<1>1. UNCHANGED <<row, process>> /\ Fault
  BY DEF Fails, EnqueueFails, RecordSentFails, RecordFailureFails, EscalateFails,
         ArmFails, Expire
<1>2. faults' # 0
  BY <1>1, FaultsGrow DEF Fault
<1> QED
  BY <1>1, <1>2 DEF ProcessingIsTended

(* Every step keeps what is in processing tended. *)
LEMMA TendedStep ==
  TypeOK /\ ProcessingIsTended /\ [Next]_vars => ProcessingIsTended'
<1> SUFFICES ASSUME TypeOK, ProcessingIsTended, [Next]_vars PROVE ProcessingIsTended'
  OBVIOUS
<1> USE DEF domain, db, history
<1>1. CASE \E w \in Workers : Deliver(w) \/ Fails(w)
  BY <1>1, TendedDeliver, TendedFails
<1>2. CASE Crash
  BY <1>2 DEF Crash, ProcessingIsTended
<1>3. CASE Recover
  BY <1>3 DEF Recover, ProcessingIsTended, TypeOK, RowType
<1>4. CASE Start
  BY <1>4 DEF Start, ProcessingIsTended
<1>5. CASE Users
  <2>1. UNCHANGED <<worker, process>>
    BY <1>5 DEF Users, Close, Reopen, Reschedule, Mute, Disable, Restore, Replan, Snooze,
                CancelUpcoming, OthersUnchanged
  <2>2. \A v \in Workers : ~Claim(v)
    <3>1. \A v \in Workers : Claim(v) => worker'[v].pc # worker[v].pc
      BY DEF Claim, At, Goto, Finish, Idle, TypeOK, Handler
    <3> QED
      BY <2>1, <3>1
  <2>3. \A d \in Rows, v \in Workers : Tends(v, d) => Tends(v, d)'
    BY <2>1 DEF Tends
  <2> QED
    BY <2>1, <2>2, <2>3, OnlyClaimTakesUp, TendingGoesOn
<1>6. CASE UNCHANGED <<worker, row, process, faults>>
  BY <1>6 DEF ProcessingIsTended, Tends
<1>7. ASSUME NEW j, SweepSendFails(j) PROVE ProcessingIsTended'
  BY <1>7, FaultsGrow DEF SweepSendFails, ProcessingIsTended, Tends
<1>8. CASE \/ Reconcile \/ Tick \/ Done \/ UNCHANGED vars
           \/ \E status \in {"sent", "gone"} : BriefingSettles(status)
  BY <1>6, <1>8 DEF Reconcile, SweepRead, SweepSend, Tick, Done, BriefingSettles,
       bounds, vars
<1> QED
  BY <1>1, <1>2, <1>3, <1>4, <1>5, <1>7, <1>8 DEF Next, Boot

(* A row in processing has a handler that is going to record its outcome,   *)
(* as long as no call has failed: nothing but a boot would repair it.       *)
THEOREM ProcessingStaysOwned == Spec => []ProcessingIsOwned
<1>1. Init => TypeOK /\ ProcessingIsTended
  BY TypeInit DEF Init, ProcessingIsTended, PlannedRow, NoRow
<1>2. TypeOK /\ ProcessingIsTended /\ [Next]_vars => TypeOK' /\ ProcessingIsTended'
  BY TypeStep, TendedStep
<1>3. ProcessingIsTended => ProcessingIsOwned
  BY DEF ProcessingIsTended, ProcessingIsOwned, Senders, Tends
<1> QED
  BY <1>1, <1>2, <1>3, PTL DEF Spec
=============================================================================
