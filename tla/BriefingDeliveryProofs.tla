------------------------ MODULE BriefingDeliveryProofs ------------------------
(***************************************************************************)
(* What is proved of BriefingDelivery for every day, hour, zone and clock,  *)
(* and every number of handlers, crashes, failing calls and edits.          *)
(***************************************************************************)
EXTENDS BriefingDelivery, FiniteSetTheorems, WellFoundedInduction, TLAPS

(* A whole number of days fits in the time it was counted from. *)
LEMMA DaysOf ==
  ASSUME NEW t \in Nat
  PROVE  /\ t \div Day \in Nat
         /\ (t \div Day) * Day <= t
         /\ t < (t \div Day) * Day + Day
BY BriefingAssumption DEF BriefingAssumption

(* Later moments have later dates. *)
LEMMA DatesGrow ==
  ASSUME NEW t \in Nat, NEW u \in Nat, t <= u
  PROVE  t \div Day <= u \div Day
BY BriefingAssumption DEF BriefingAssumption

(* There is a last date. *)
LEMMA LastDate ==
  /\ LocalDate(Horizon, Day) \in Nat /\ Dates = 0 .. (LocalDate(Horizon, Day) + 1)
  /\ LocalDate(Horizon, Day) * Day <= Horizon + Day
<1>1. Horizon + Day \in Nat
  BY BriefingAssumption DEF BriefingAssumption
<1> QED
  BY <1>1, DaysOf DEF LocalDate, Dates

(* The date of a moment, and the next one, are dates. *)
LEMMA DateTyped ==
  ASSUME NEW t \in Time, NEW zone \in Zones
  PROVE  LocalDate(t, zone) \in Dates /\ LocalDate(t, zone) + 1 \in Dates
<1>1. /\ t + zone \in Nat /\ Horizon + Day \in Nat /\ t + zone <= Horizon + Day
  BY BriefingAssumption DEF BriefingAssumption, Time
<1>2. /\ (t + zone) \div Day \in Nat
      /\ (Horizon + Day) \div Day \in Nat
      /\ (t + zone) \div Day <= (Horizon + Day) \div Day
  BY <1>1, DaysOf, DatesGrow
<1> QED
  BY <1>2 DEF LocalDate, Dates

(* The moment of an hour of a date is a moment. *)
LEMMA SlotTyped ==
  ASSUME NEW k \in Keys, NEW zone \in Zones
  PROVE  SlotAt(k, zone) \in Moments
<1> DEFINE last == LocalDate(Horizon, Day)
<1>1. last \in Nat /\ last * Day <= Horizon + Day /\ Dates = 0 .. (last + 1)
  BY LastDate
<1> HIDE DEF last
<1>2. /\ k.date \in Nat /\ k.date <= last + 1
      /\ k.slot \in 0 .. (Day - 1) /\ zone \in 0 .. (Day - 1)
  <2>1. k.date \in 0 .. (last + 1) /\ k.slot \in Slots
    BY <1>1 DEF Keys
  <2>2. k.date \in Nat /\ k.date <= last + 1
    BY <1>1, <2>1
  <2>3. Slots \subseteq 0 .. (Day - 1) /\ Zones \subseteq 0 .. (Day - 1)
    BY BriefingAssumption DEF BriefingAssumption
  <2> QED
    BY <2>1, <2>2, <2>3
<1>3. Day \in Nat \ {0} /\ Horizon \in Nat
  BY BriefingAssumption DEF BriefingAssumption
<1>4. k.date * Day <= (last + 1) * Day
  BY <1>1, <1>2, <1>3
<1>5. (last + 1) * Day = last * Day + Day
  BY <1>1, <1>3
<1>6. k.date * Day \in Nat /\ last * Day \in Nat
  BY <1>1, <1>2, <1>3
<1>7. k.date * Day <= Horizon + Day + Day
  BY <1>1, <1>3, <1>4, <1>5, <1>6
<1> QED
  BY <1>2, <1>3, <1>6, <1>7 DEF SlotAt, Moments

(* A moment cut to the modelled time is a modelled time. *)
LEMMA AtMostIsTime ==
  ASSUME NEW t \in Nat PROVE AtMost(t) \in Time /\ AtMost(t) \in Moments
BY BriefingAssumption DEF BriefingAssumption, AtMost, Time, Moments

(* A set of numbers that is not empty has a least one. *)
LEMMA Least ==
  ASSUME NEW S \in SUBSET Nat, S # {}
  PROVE  \E n \in S : \A m \in S : n <= m
<1>1. PICK top \in S : TRUE
  OBVIOUS
<1> DEFINE T == {0 .. n : n \in {m \in S : m <= top}}
<1>2. IsWellFoundedOn(StrictSubsetOrdering(0 .. top), SUBSET (0 .. top))
  <2>1. IsFiniteSet(0 .. top)
    BY FS_Interval
  <2>2. FiniteSubsetsOf(0 .. top) = SUBSET (0 .. top)
    BY <2>1, FS_FiniteSubsetsOfFinite
  <2> QED
    BY <2>1, <2>2, FS_StrictSubsetOrderingWellFounded
<1>3. T \subseteq SUBSET (0 .. top) /\ T # {}
  <2>1. \A n \in S : n \in Nat
    OBVIOUS
  <2>2. top \in Nat /\ top <= top
    BY <2>1
  <2>3. 0 .. top \in T
    BY <2>2
  <2>4. \A n \in S : n <= top => 0 .. n \subseteq 0 .. top
    BY <2>1, <2>2
  <2> QED
    BY <2>3, <2>4
<1>4. PICK t \in T : \A u \in T : ~ (<<u, t>> \in StrictSubsetOrdering(0 .. top))
  <2> HIDE DEF T
  <2> QED BY <1>2, <1>3, WFMin
<1>5. PICK n \in S : n <= top /\ t = 0 .. n
  BY <1>4
<1>6. ASSUME NEW m \in S, m < n PROVE FALSE
  <2>1. /\ 0 .. m \in T /\ 0 .. m \subseteq 0 .. n
        /\ n \notin 0 .. m /\ n \in 0 .. n
    BY <1>5, <1>6
  <2>2. <<0 .. m, t>> \in StrictSubsetOrdering(0 .. top)
    BY <2>1, <1>5, <1>3 DEF StrictSubsetOrdering
  <2> QED BY <2>1, <2>2, <1>4
<1> QED BY <1>5, <1>6

(* The search for the end of quiet hours finds a moment not before its start. *)
LEMMA NextNonQuietExists ==
  ASSUME NEW t \in Nat
  PROVE  NextNonQuiet(t) \in Nat /\ NextNonQuiet(t) >= t
<1>1. QuietSearch \in Nat
  BY BriefingAssumption DEF BriefingAssumption
<1> DEFINE Ends == {u \in t .. (t + QuietSearch) : u \notin Quiet \/ u = t + QuietSearch}
<1>2. Ends \subseteq Nat /\ t + QuietSearch \in Ends
  BY <1>1
<1>3. PICK u \in Ends : \A v \in Ends : u <= v
  <2> HIDE DEF Ends
  <2> QED BY <1>2, Least
<1>4. t .. (u - 1) \subseteq Quiet
  <2> SUFFICES ASSUME NEW v \in t .. (u - 1), v \notin Quiet PROVE FALSE
    OBVIOUS
  <2>1. v \in Ends /\ v < u
    BY <1>1, <1>2, <1>3
  <2> QED BY <1>2, <1>3, <2>1
<1>5. NextNonQuiet(t) \in t .. (t + QuietSearch)
  BY <1>3, <1>4 DEF NextNonQuiet
<1> QED
  BY <1>1, <1>5

(* There is an hour, and with it a row to name. *)
LEMMA AnyKeyTyped == AnyKey \in Keys
<1>1. AnyKey.slot \in Slots
  BY BriefingAssumption DEF BriefingAssumption, AnyKey
<1>2. 0 \in Dates
  BY LastDate
<1> QED
  BY <1>1, <1>2 DEF AnyKey, Keys

(* No handler and no pass at all have their types. *)
LEMMA IdleTyped == Idle \in Handler /\ NoPass \in Pass /\ Unseen \in Seen
<1>1. AnyKey \in Keys /\ AnyKey.slot \in Slots /\ 0 \in Dates /\ 0 \in Zones
  BY AnyKeyTyped, BriefingAssumption DEF Keys, AnyKey, BriefingAssumption
<1>2. 0 \in Moments /\ 0 \in Time /\ 0 \in 0 .. MaxAttempts
  BY BriefingAssumption DEF BriefingAssumption, Moments, Time
<1>3. Idle \in Handler
  BY <1>1, <1>2 DEF Idle, Handler, Steps, Outcomes
<1>4. Unseen \in Seen
  BY <1>2 DEF Unseen, Seen, Statuses
<1> QED
  BY <1>1, <1>2, <1>3, <1>4 DEF NoPass, Pass, Settings

(* The bounds of a scenario are numbers. *)
LEMMA ScenarioTyped ==
  ASSUME NEW s \in Scenarios
  PROVE  s.crashes \in Nat /\ s.faults \in Nat /\ s.edits \in Nat
BY BriefingAssumption DEF BriefingAssumption, Scenario

(* The initial state has the types. *)
LEMMA TypeInit == Init => TypeOK
<1> SUFFICES ASSUME Init PROVE TypeOK
  OBVIOUS
<1>1. NoRow \in RowType /\ 0 \in Time
  BY BriefingAssumption DEF BriefingAssumption, NoRow, RowType, Statuses, Moments, Time
<1>2. /\ crashes \in 0 .. scenario.crashes /\ faults \in 0 .. scenario.faults
      /\ edits \in 0 .. scenario.edits
  BY ScenarioTyped DEF Init
<1> QED
  BY <1>1, <1>2, IdleTyped DEF Init, TypeOK, Asked

(* Rows that a handler or an edit changes stay rows. *)
LEMMA RowChanged ==
  ASSUME NEW r \in RowType, NEW status \in Statuses,
         NEW reason \in {"none", "access", "superseded", "other"},
         NEW at \in Moments, NEW n \in Nat
  PROVE  /\ [r EXCEPT !.status = status] \in RowType
         /\ [r EXCEPT !.status = status, !.reason = reason] \in RowType
         /\ [r EXCEPT !.scheduled = at] \in RowType
         /\ [r EXCEPT !.status = status, !.attempts = n] \in RowType
         /\ [r EXCEPT !.status = status, !.attempts = n, !.scheduled = at] \in RowType
         /\ [r EXCEPT !.status = status, !.reason = reason, !.scheduled = at] \in RowType
         /\ [r EXCEPT !.status = status, !.scheduled = at] \in RowType
BY DEF RowType

(* The same of the updates that look at the status. *)
LEMMA GuardedTyped ==
  ASSUME TypeOK, NEW w \in Workers, NEW expected, NEW new \in RowType,
         Guarded(w, expected, new)
  PROVE  row' \in [Keys -> RowType]
BY DEF TypeOK, Guarded, Handler

(* What the queue keeps of a failed job are jobs. *)
LEMMA RetriesTyped ==
  ASSUME TypeOK, NEW h \in Handler PROVE Retries(h) \subseteq Job
<1>1. AtMost(now + RetryDelay) \in Moments
  BY AtMostIsTime, BriefingAssumption DEF TypeOK, Time, BriefingAssumption
<1> QED
  BY <1>1, BriefingAssumption DEF Retries, Job, Handler, BriefingAssumption

(* A handler that ends, or gives its job back, leaves handlers and jobs. *)
LEMMA EndsTyped ==
  ASSUME TypeOK, NEW w \in Workers
  PROVE  /\ Finish(w) => worker' \in [Workers -> Handler]
         /\ Throw(w) => worker' \in [Workers -> Handler] /\ jobs' \subseteq Job
<1>1. Retries(worker[w]) \subseteq Job
  BY RetriesTyped DEF TypeOK
<1> QED
  BY <1>1, IdleTyped DEF Finish, Throw, TypeOK

(* Counting a fault stays within its bound. *)
LEMMA FaultTyped ==
  ASSUME TypeOK, Fault PROVE faults' \in 0 .. scenario.faults
BY ScenarioTyped DEF TypeOK, Fault

(* What a handler makes of a job and of the row it names. *)
LEMMA ReadTyped ==
  ASSUME TypeOK, NEW j \in Job PROVE Read(j) \in Handler
<1> DEFINE r == row[j.key]
           next == NextNonQuiet(AfterSnooze)
           h == [Idle EXCEPT !.key = j.key, !.tries = j.tries]
<1>1. r \in RowType
  BY DEF TypeOK, Job
<1>2. h \in Handler
  BY IdleTyped DEF Handler, Job
<1>3. AfterSnooze \in Nat
  BY DEF AfterSnooze, TypeOK, Time
<1>4. next \in Nat /\ AtMost(next) \in Moments
  BY <1>3, NextNonQuietExists, AtMostIsTime
<1> HIDE DEF next
<1>5. /\ [h EXCEPT !.pc = "suppress", !.access = TRUE] \in Handler
      /\ [h EXCEPT !.pc = "suppress"] \in Handler
      /\ [h EXCEPT !.pc = "defer", !.at = AtMost(next)] \in Handler
      /\ [h EXCEPT !.pc = "enqueue", !.at = r.scheduled] \in Handler
      /\ [h EXCEPT !.pc = "claim", !.attempts = r.attempts] \in Handler
  BY <1>1, <1>2, <1>4 DEF Handler, Steps, RowType
<1> HIDE DEF h, r
<1> QED
  BY <1>5, IdleTyped DEF Read, next, h, r

(* The handler's own steps. *)
LEMMA TypeDeliver ==
  ASSUME TypeOK, NEW w \in Workers, Deliver(w) PROVE TypeOK'
<1> USE DEF TypeOK, user, bounds, history
<1>1. /\ worker[w] \in Handler
      /\ worker[w].key \in Keys /\ row[worker[w].key] \in RowType
      /\ worker[w].at \in Moments
      /\ worker[w].attempts \in Nat /\ worker[w].attempts + 1 \in Nat
  BY DEF Handler
<1>2. now \in Nat
  BY DEF Time
<1>3. ASSUME NEW pc \in Steps
      PROVE  [worker EXCEPT ![w].pc = pc] \in [Workers -> Handler]
  BY <1>1 DEF Handler
<1>4. {"suppressed", "processing", "sent", "failed", "ambiguous", "pending"} \subseteq Statuses
  BY DEF Statuses, Live, Final
<1>5. CASE \E j \in jobs : Take(w, j)
  BY <1>5, ReadTyped DEF Take
<1>6. CASE Suppress(w)
  <2>1. [row[worker[w].key] EXCEPT !.status = "suppressed",
        !.reason = IF worker[w].access THEN "access" ELSE "other"] \in RowType
    BY <1>1, <1>4 DEF RowType
  <2> QED
    BY <1>6, <2>1, GuardedTyped, EndsTyped DEF Suppress
<1>7. CASE Defer(w)
  <2>1. [row[worker[w].key] EXCEPT !.scheduled = worker[w].at] \in RowType
    BY <1>1 DEF RowType
  <2> QED
    BY <1>3, <1>7, <2>1, GuardedTyped DEF Defer, Goto, Steps
<1>8. CASE Enqueue(w)
  <2>1. Created(worker[w].key, worker[w].at) \in Job
    BY <1>1, BriefingAssumption DEF Created, Job, BriefingAssumption
  <2> QED
    BY <1>8, <2>1, EndsTyped DEF Enqueue
<1>9. CASE Claim(w)
  <2>1. [row[worker[w].key] EXCEPT !.status = "processing",
           !.attempts = worker[w].attempts + 1] \in RowType
    BY <1>1, <1>4 DEF RowType
  <2>2. row' \in [Keys -> RowType]
    BY <1>9, <2>1, GuardedTyped DEF Claim
  <2>3. worker' \in [Workers -> Handler]
    BY <1>3, <1>9, EndsTyped DEF Claim, Goto, Steps
  <2> QED
    BY <1>9, <2>2, <2>3 DEF Claim
<1>10. CASE Build(w)
  <2>1. [row[worker[w].key] EXCEPT !.status = "suppressed",
           !.reason = "other"] \in RowType
    BY <1>1, <1>4 DEF RowType
  <2>2. row' \in [Keys -> RowType]
    BY <1>10, <2>1, GuardedTyped DEF Build
  <2>3. worker' \in [Workers -> Handler]
    BY <1>3, <1>10, EndsTyped DEF Build, Goto, Steps
  <2> QED
    BY <1>10, <2>2, <2>3 DEF Build
<1>11. ASSUME NEW o \in Outcomes, NEW delivered \in BOOLEAN, Send(w, o, delivered)
       PROVE  TypeOK'
  <2>1. [worker EXCEPT ![w].pc = "record", ![w].outcome = o] \in [Workers -> Handler]
    BY <1>1 DEF Handler, Steps
  <2>2. contacts' \in [Keys -> Nat]
    BY <1>1, <1>11 DEF Send
  <2>3. faults' \in 0 .. scenario.faults
    BY <1>11, FaultTyped DEF Send
  <2> QED
    BY <1>11, <2>1, <2>2, <2>3 DEF Send
<1>12. CASE RecordFinal(w)
  <2>1. PICK outcome \in DOMAIN FinalStatus :
          /\ Guarded(w, "processing",
                     [row[worker[w].key] EXCEPT !.status = FinalStatus[outcome]])
          /\ Finish(w)
          /\ UNCHANGED <<scenario, now, process, jobs, pass, user, bounds, history>>
    BY <1>12 DEF RecordFinal
  <2>2. FinalStatus[outcome] \in Statuses
    BY <1>4 DEF FinalStatus
  <2>3. [row[worker[w].key] EXCEPT !.status = FinalStatus[outcome]] \in RowType
    BY <1>1, <2>2 DEF RowType
  <2>4. row' \in [Keys -> RowType]
    BY <2>1, <2>3, GuardedTyped
  <2>5. worker' \in [Workers -> Handler]
    BY <2>1, EndsTyped
  <2> QED
    BY <2>1, <2>4, <2>5
<1>13. CASE RecordTransient(w)
  <2>1. [row[worker[w].key] EXCEPT !.status =
           IF worker[w].attempts + 1 >= MaxAttempts THEN "failed" ELSE "pending"] \in RowType
    BY <1>1, <1>4 DEF RowType
  <2>2. row' \in [Keys -> RowType]
    BY <1>13, <2>1, GuardedTyped DEF RecordTransient
  <2>3. worker' \in [Workers -> Handler] /\ jobs' \subseteq Job
    BY <1>13, EndsTyped DEF RecordTransient
  <2> QED
    BY <1>13, <2>2, <2>3 DEF RecordTransient
<1>14. ASSUME NEW after \in RetryAfter, RecordRateLimited(w, after) PROVE TypeOK'
  <2>1. AtMost(now + after) \in Moments
    BY <1>2, AtMostIsTime, BriefingAssumption DEF BriefingAssumption
  <2>2. [row[worker[w].key] EXCEPT !.status = "pending",
           !.attempts = worker[w].attempts, !.scheduled = AtMost(now + after)] \in RowType
    BY <1>1, <1>4, <2>1 DEF RowType
  <2>3. row' \in [Keys -> RowType]
    BY <1>14, <2>2, GuardedTyped DEF RecordRateLimited
  <2>4. [worker EXCEPT ![w].pc = "enqueue", ![w].at = AtMost(now + after)]
           \in [Workers -> Handler]
    BY <1>1, <2>1 DEF Handler, Steps
  <2> QED
    BY <1>14, <2>3, <2>4 DEF RecordRateLimited
<1> QED
  BY <1>5, <1>6, <1>7, <1>8, <1>9, <1>10, <1>11, <1>12, <1>13, <1>14 DEF Deliver

(* The failing forms of the same steps. *)
LEMMA TypeFails ==
  ASSUME TypeOK, NEW w \in Workers, Fails(w) PROVE TypeOK'
<1> USE DEF TypeOK, user, bounds, history
<1>1. /\ worker[w] \in Handler /\ worker[w].key \in Keys
  BY DEF Handler
<1>2. CASE EnqueueFails(w)
  BY <1>2, EndsTyped, FaultTyped DEF EnqueueFails
<1>3. CASE RecordSentFails(w)
  <2>1. [worker EXCEPT ![w].outcome = "transient"] \in [Workers -> Handler]
    BY <1>1 DEF Handler, Outcomes
  <2>2. [resets EXCEPT ![worker[w].key] = @ + 1] \in [Keys -> Nat]
    BY <1>1
  <2> QED
    BY <1>3, <2>1, <2>2, FaultTyped DEF RecordSentFails
<1>4. CASE RecordFailureFails(w)
  BY <1>4, EndsTyped, FaultTyped DEF RecordFailureFails
<1> QED
  BY <1>2, <1>3, <1>4 DEF Fails

(* What the pass names is a row of the table, and when it is due a moment.  *)
LEMMA PassKeyTyped ==
  ASSUME TypeOK
  PROVE  /\ PassKey \in Keys /\ Due \in Moments /\ NextDate \in Pass
         /\ \A s \in Slots : [date |-> pass.date, slot |-> s] \in Keys
         /\ Prior \in Seen
<1>1. pass \in Pass /\ pass.by \in Settings /\ pass.date \in Dates
  BY DEF TypeOK, Pass
<1>2. pass.by.zone \in Zones /\ pass.by.slot \in Slots /\ pass.at \in Time
  BY <1>1 DEF Settings, Pass
<1>3. PassKey \in Keys /\ \A s \in Slots : [date |-> pass.date, slot |-> s] \in Keys
  BY <1>1, <1>2 DEF PassKey, Keys
<1>4. Due \in Moments
  BY <1>2, <1>3, SlotTyped DEF Due
<1>5. NextDate \in Pass
  <2>1. CASE pass.date = LocalDate(pass.at, pass.by.zone)
    <3>1. pass.date + 1 \in Dates /\ NoPass.seen \in [Slots -> Seen]
      BY <1>2, <2>1, DateTyped, IdleTyped DEF NoPass
    <3> QED
      BY <1>1, <2>1, <3>1 DEF NextDate, Pass
  <2>2. CASE pass.date # LocalDate(pass.at, pass.by.zone)
    BY <2>2, IdleTyped DEF NextDate
  <2> QED
    BY <2>1, <2>2
<1>6. Prior \in Seen
  BY <1>1, <1>2 DEF Prior, Pass
<1> QED
  BY <1>3, <1>4, <1>5, <1>6

(* The steps of the reconciliation pass. *)
LEMMA TypePass ==
  ASSUME TypeOK, PassStep \/ PassFails PROVE TypeOK'
<1> USE DEF TypeOK, user, bounds, history
<1>1. /\ pass \in Pass /\ pass.by \in Settings /\ pass.date \in Dates
      /\ pass.seen \in [Slots -> Seen]
  BY DEF Pass
<1>2. PassKey \in Keys /\ row[PassKey] \in RowType
  BY PassKeyTyped
<1>3. {"suppressed", "pending"} \subseteq Statuses
  BY DEF Statuses, Live
<1>4. [pass EXCEPT !.pc = "enqueue"] \in Pass
  BY <1>1 DEF Pass
<1>5. CASE PassBegin
  <2>1. LocalDate(now, settings.zone) \in Dates
    BY DateTyped DEF Settings
  <2>2. [NoPass EXCEPT !.pc = "read", !.at = now, !.by = settings,
           !.date = LocalDate(now, settings.zone)] \in Pass
    BY <2>1, IdleTyped DEF Pass
  <2> QED
    BY <1>5, <2>2, IdleTyped DEF PassBegin
<1>6. CASE PassRead
  <2>1. \A s \in Slots : [status |-> row[[date |-> pass.date, slot |-> s]].status,
                         scheduled |-> row[[date |-> pass.date, slot |-> s]].scheduled]
                           \in Seen
    BY PassKeyTyped DEF RowType, Seen
  <2>2. [s \in Slots |-> LET r == row[[date |-> pass.date, slot |-> s]]
                        IN [status |-> r.status, scheduled |-> r.scheduled]]
          \in [Slots -> Seen]
    BY <2>1
  <2>3. \A seen \in [Slots -> Seen] :
          [pass EXCEPT !.pc = "apply", !.seen = seen] \in Pass
    BY <1>1 DEF Pass
  <2>4. pass' \in Pass
    BY <1>6, <2>2, <2>3 DEF PassRead
  <2> QED
    BY <1>6, <2>4 DEF PassRead
<1>7. ASSUME NEW s \in Slots, PassRetire(s) PROVE TypeOK'
  <2> DEFINE key == [date |-> pass.date, slot |-> s]
  <2>1. key \in Keys /\ row[key] \in RowType
    BY PassKeyTyped
  <2>2. [row[key] EXCEPT !.status = "suppressed", !.reason = "superseded"] \in RowType
    BY <1>3, <2>1 DEF RowType
  <2>3. row' \in [Keys -> RowType]
    BY <1>7, <2>1, <2>2 DEF PassRetire
  <2>4. [pass EXCEPT !.seen[s] = Unseen] \in Pass
    BY <1>1, IdleTyped DEF Pass
  <2> QED
    BY <1>7, <2>3, <2>4 DEF PassRetire
<1>8. CASE PassSkip
  BY <1>8, PassKeyTyped DEF PassSkip
<1>9. CASE PassRenew
  <2>1. [row[PassKey] EXCEPT !.status = "pending", !.reason = "none",
           !.scheduled = Due] \in RowType
    BY <1>2, <1>3, PassKeyTyped DEF RowType
  <2>2. row' \in [Keys -> RowType]
    BY <1>9, <2>1 DEF PassRenew
  <2>3. resets' \in [Keys -> Nat]
    BY <1>2, <1>9 DEF PassRenew
  <2> QED
    BY <1>4, <1>9, <2>2, <2>3 DEF PassRenew
<1>10. CASE PassInsert
  <2>1. [NoRow EXCEPT !.status = "pending", !.scheduled = Due] \in RowType
    BY <1>3, PassKeyTyped DEF RowType, NoRow
  <2>2. row' \in [Keys -> RowType]
    BY <1>10, <2>1 DEF PassInsert
  <2>3. pass' \in Pass
    BY <1>4, <1>10, PassKeyTyped DEF PassInsert
  <2> QED
    BY <1>10, <2>2, <2>3 DEF PassInsert
<1>11. CASE PassEnqueue
  <2>1. Created(PassKey, Due) \in Job
    BY PassKeyTyped, BriefingAssumption DEF Created, Job, BriefingAssumption
  <2> QED
    BY <1>11, <2>1, PassKeyTyped DEF PassEnqueue
<1>12. CASE PassFails
  BY <1>12, PassKeyTyped, IdleTyped, FaultTyped DEF PassFails
<1> QED
  BY <1>5, <1>6, <1>7, <1>8, <1>9, <1>10, <1>11, <1>12 DEF PassStep

(* The process, the clock and the recipient. *)
LEMMA TypeRest ==
  ASSUME TypeOK, Crash \/ Boot \/ Users \/ Tick PROVE TypeOK'
<1> USE DEF TypeOK, user, bounds, history
<1>1. \A k \in Keys : row[k] \in RowType /\ Created(k, row[k].scheduled) \in Job
  BY BriefingAssumption DEF RowType, Created, Job, BriefingAssumption
<1>2. \A k \in Keys :
        /\ [row[k] EXCEPT !.status = "pending"] \in RowType
        /\ [row[k] EXCEPT !.status = "suppressed", !.reason = "access"] \in RowType
        /\ [row[k] EXCEPT !.status = "pending", !.reason = "none"] \in RowType
  BY <1>1 DEF RowType, Statuses, Live
<1>3. \A kind : Edit(kind) => edits' \in 0 .. scenario.edits
  BY ScenarioTyped DEF Edit
<1>4. CASE Crash
  <2>1. UNION {Retries(worker[w]) : w \in Busy} \subseteq Job
    BY RetriesTyped DEF Busy
  <2>2. crashes' \in 0 .. scenario.crashes
    BY <1>4, ScenarioTyped DEF Crash
  <2> QED
    BY <1>4, <2>1, <2>2, IdleTyped DEF Crash
<1>5. CASE Recover
  <2>1. row' \in [Keys -> RowType]
    BY <1>1, <1>2, <1>5 DEF Recover
  <2>2. resets' \in [Keys -> Nat]
    BY <1>5 DEF Recover
  <2> QED
    BY <1>5, <2>1, <2>2 DEF Recover
<1>6. CASE Start
  BY <1>1, <1>6 DEF Start
<1>7. ASSUME NEW s \in Settings, ChangeSettings(s) PROVE TypeOK'
  BY <1>3, <1>7 DEF ChangeSettings, Elsewhere, Asked
<1>8. ASSUME NEW t \in Time, Snooze(t) PROVE TypeOK'
  BY <1>3, <1>8 DEF Snooze, Elsewhere
<1>9. CASE Disable
  <2>1. row' \in [Keys -> RowType]
    BY <1>1, <1>2, <1>9 DEF Disable
  <2> QED
    BY <1>3, <1>9, <2>1 DEF Disable, Elsewhere
<1>10. CASE Restore
  <2>1. row' \in [Keys -> RowType]
    BY <1>1, <1>2, <1>10 DEF Restore
  <2>2. resets' \in [Keys -> Nat]
    <3>1. \A back : [k \in Keys |-> IF k \in back THEN resets[k] + 1 ELSE resets[k]]
                      \in [Keys -> Nat]
      OBVIOUS
    <3> QED
      BY <1>10, <3>1 DEF Restore
  <2> QED
    BY <1>3, <1>10, <2>1, <2>2 DEF Restore, Elsewhere
<1>11. CASE Tick
  BY <1>11, BriefingAssumption DEF Tick, Time, Asked, BriefingAssumption
<1> QED
  BY <1>4, <1>5, <1>6, <1>7, <1>8, <1>9, <1>10, <1>11 DEF Boot, Users

(* Every step keeps the types. *)
LEMMA TypeStep == TypeOK /\ [Next]_vars => TypeOK'
<1> SUFFICES ASSUME TypeOK, [Next]_vars PROVE TypeOK'
  OBVIOUS
<1>1. CASE UNCHANGED vars
  BY <1>1 DEF TypeOK, vars
<1> QED
  BY <1>1, TypeDeliver, TypeFails, TypePass, TypeRest DEF Next

(* Type correctness: what the program writes to the rows, the queue and its *)
(* own state has the shape it is declared with, the dates of a pass among   *)
(* them.                                                                    *)
THEOREM TypeCorrect == Spec => []TypeOK
<1>1. Init => TypeOK
  BY TypeInit
<1>2. TypeOK /\ [Next]_vars => TypeOK'
  BY TypeStep
<1> QED
  BY <1>1, <1>2, PTL DEF Spec
-----------------------------------------------------------------------------
(* A handler may still deliver a card of row k, or give the row back        *)
(* undelivered.                                                             *)
Owes(w, k) ==
  /\ worker[w].key = k
  /\ \/ worker[w].pc \in {"build", "send"}
     \/ /\ worker[w].pc = "record"
        /\ worker[w].outcome \in {"transient", "rate_limited"}
Owing(k) == {w \in Workers : Owes(w, k)}
Owed(w, k) == IF Owes(w, k) THEN 1 ELSE 0

(* The cards a row may have caused: one for each time it was put back, and  *)
(* one more once it has left the queue.                                     *)
Allowed(k) ==
  resets[k] + (IF row[k].status \in {"absent", "pending"} THEN 0 ELSE 1)

(* Every card delivered, and every one that still may be, is allowed.       *)
ContactsAreCovered ==
  \A k \in Keys : contacts[k] + Cardinality(Owing(k)) <= Allowed(k)

(* The counts are numbers. *)
LEMMA CountsTyped ==
  ASSUME TypeOK, NEW k \in Keys
  PROVE  /\ contacts[k] \in Nat /\ Allowed(k) \in Nat
         /\ IsFiniteSet(Owing(k)) /\ Cardinality(Owing(k)) \in Nat
<1>1. IsFiniteSet(Owing(k))
  BY FS_Subset, BriefingAssumption DEF Owing, BriefingAssumption
<1> QED
  BY <1>1, FS_CardinalityType DEF TypeOK, Allowed

(* A handler changes only its own state. *)
Moves(w) == \A v \in Workers \ {w} : worker'[v] = worker[v]

(* When one handler moves, only its own debt changes. *)
LEMMA OneHandlerMoves ==
  ASSUME TypeOK, TypeOK', NEW w \in Workers, Moves(w), NEW k \in Keys
  PROVE  Cardinality(Owing(k)') - Owed(w, k)' = Cardinality(Owing(k)) - Owed(w, k)
<1>1. Owing(k)' \ {w} = Owing(k) \ {w}
  BY DEF Owing, Owes, Moves
<1>2. IsFiniteSet(Owing(k)) /\ IsFiniteSet(Owing(k)')
  BY FS_Subset, BriefingAssumption DEF Owing, BriefingAssumption
<1>3. /\ Cardinality(Owing(k)) \in Nat /\ Cardinality(Owing(k)') \in Nat
  BY <1>2, FS_CardinalityType
<1>4. /\ Cardinality(Owing(k) \ {w}) = Cardinality(Owing(k)) - Owed(w, k)
      /\ Cardinality(Owing(k)' \ {w}) = Cardinality(Owing(k)') - Owed(w, k)'
  <2>1. (w \in Owing(k) <=> Owes(w, k)) /\ (w \in Owing(k)' <=> Owes(w, k)')
    BY DEF Owing
  <2>2. /\ Cardinality(Owing(k) \ {w}) =
              IF w \in Owing(k) THEN Cardinality(Owing(k)) - 1 ELSE Cardinality(Owing(k))
        /\ Cardinality(Owing(k)' \ {w}) =
              IF w \in Owing(k)' THEN Cardinality(Owing(k)') - 1 ELSE Cardinality(Owing(k)')
    BY <1>2, FS_RemoveElement
  <2> QED
    BY <1>3, <2>1, <2>2 DEF Owed
<1> QED
  BY <1>1, <1>4

(* So its step is covered when what it adds to the cards and to its debt is *)
(* allowed.                                                                 *)
LEMMA CoveredMove ==
  ASSUME TypeOK, TypeOK', ContactsAreCovered, NEW w \in Workers, Moves(w),
         \A k \in Keys : contacts'[k] + Owed(w, k)' + Allowed(k)
                            <= contacts[k] + Owed(w, k) + Allowed(k)'
  PROVE  ContactsAreCovered'
<1> SUFFICES ASSUME NEW k \in Keys
             PROVE  contacts'[k] + Cardinality(Owing(k)') <= Allowed(k)'
  BY DEF ContactsAreCovered
<1>1. Cardinality(Owing(k)') - Owed(w, k)' = Cardinality(Owing(k)) - Owed(w, k)
  BY OneHandlerMoves
<1>2. /\ contacts[k] \in Nat /\ Allowed(k) \in Nat /\ Cardinality(Owing(k)) \in Nat
      /\ contacts[k] + Cardinality(Owing(k)) <= Allowed(k)
  BY CountsTyped DEF ContactsAreCovered
<1>3. contacts'[k] \in Nat /\ Allowed(k)' \in Nat
  BY DEF TypeOK, Allowed
<1>4. Cardinality(Owing(k)') \in Nat
  BY FS_Subset, FS_CardinalityType, BriefingAssumption DEF Owing, BriefingAssumption
<1>5. Owed(w, k) \in {0, 1} /\ Owed(w, k)' \in {0, 1}
  BY DEF Owed
<1>6. contacts'[k] + Owed(w, k)' + Allowed(k) <= contacts[k] + Owed(w, k) + Allowed(k)'
  OBVIOUS
<1> QED
  BY <1>1, <1>2, <1>3, <1>4, <1>5, <1>6

(* A step that moves no handler is covered when nothing is allowed less. *)
LEMMA CoveredChange ==
  ASSUME TypeOK, TypeOK', ContactsAreCovered, UNCHANGED <<worker, contacts>>,
         \A k \in Keys : Allowed(k) <= Allowed(k)'
  PROVE  ContactsAreCovered'
<1> SUFFICES ASSUME NEW k \in Keys
             PROVE  contacts'[k] + Cardinality(Owing(k)') <= Allowed(k)'
  BY DEF ContactsAreCovered
<1>1. Owing(k)' = Owing(k)
  BY DEF Owing, Owes
<1>2. /\ contacts[k] \in Nat /\ Allowed(k) \in Nat /\ Cardinality(Owing(k)) \in Nat
      /\ contacts[k] + Cardinality(Owing(k)) <= Allowed(k)
  BY CountsTyped DEF ContactsAreCovered
<1>3. Allowed(k)' \in Nat
  BY DEF TypeOK, Allowed
<1> QED
  BY <1>1, <1>2, <1>3

(* What an update guarded by status does to what its row may still cause.   *)
LEMMA GuardedAllows ==
  ASSUME TypeOK, NEW w \in Workers, NEW expected \in Live, NEW new,
         Guarded(w, expected, new), new.status \in Statuses \ {"absent"},
         UNCHANGED resets, NEW k \in Keys
  PROVE  /\ k # worker[w].key => Allowed(k)' = Allowed(k)
         /\ expected = "pending" => Allowed(k) <= Allowed(k)'
         /\ new.status # "pending" => Allowed(k) <= Allowed(k)'
         /\ Allowed(k) <= Allowed(k)' + 1
<1>1. row'[k] = row[k] \/ (k = worker[w].key /\ row[k].status = expected /\ row'[k] = new)
  BY DEF Guarded, TypeOK
<1>2. resets[k] \in Nat /\ resets'[k] = resets[k]
  BY DEF TypeOK
<1> QED
  BY <1>1, <1>2 DEF Allowed, Live

(* Every step of a handler keeps the contacts covered, ... *)
LEMMA CoveredDeliver ==
  ASSUME TypeOK, TypeOK', ContactsAreCovered, NEW w \in Workers, Deliver(w)
  PROVE  ContactsAreCovered'
<1> USE DEF history
<1>1. /\ worker[w] \in Handler /\ worker[w].key \in Keys
      /\ row[worker[w].key] \in RowType
  BY DEF TypeOK, Handler
<1>2. \A k \in Keys : /\ contacts[k] \in Nat /\ contacts'[k] \in Nat
                      /\ Allowed(k) \in Nat /\ Allowed(k)' \in Nat
                      /\ Owed(w, k) \in {0, 1} /\ Owed(w, k)' \in {0, 1}
  BY DEF TypeOK, Allowed, Owed
<1> PICK own \in Keys : own = worker[w].key
  BY <1>1
(* Steps that neither deliver nor give a row back.                          *)
<1>3. ASSUME Moves(w), \A k \in Keys : Owed(w, k)' <= Owed(w, k), UNCHANGED contacts,
             \A k \in Keys : Allowed(k) <= Allowed(k)'
      PROVE  ContactsAreCovered'
  <2>1. \A k \in Keys : contacts'[k] + Owed(w, k)' + Allowed(k)
                           <= contacts[k] + Owed(w, k) + Allowed(k)'
    BY <1>2, <1>3
  <2> QED
    BY <1>3, <2>1, CoveredMove
(* Steps that end what the handler owed to its row.                         *)
<1>4. ASSUME Moves(w), \A k \in Keys : Owed(w, k)' = 0, UNCHANGED contacts,
             Owed(w, own) = 1, Allowed(own) <= Allowed(own)' + 1,
             \A k \in Keys : k # own => Allowed(k)' = Allowed(k)
      PROVE  ContactsAreCovered'
  <2>1. \A k \in Keys : contacts'[k] + Owed(w, k)' + Allowed(k)
                           <= contacts[k] + Owed(w, k) + Allowed(k)'
    BY <1>2, <1>4
  <2> QED
    BY <1>4, <2>1, CoveredMove
<1>5. UNCHANGED <<row, resets>> => \A k \in Keys : Allowed(k) <= Allowed(k)'
  BY <1>2 DEF Allowed
<1>6. ASSUME Moves(w), worker'[w].pc \notin {"build", "send", "record"}
      PROVE  \A k \in Keys : Owed(w, k)' = 0 /\ Owed(w, k)' <= Owed(w, k)
  BY <1>2, <1>6 DEF Owed, Owes
<1>7. Finish(w) => Moves(w) /\ worker'[w].pc = "idle"
  BY DEF Finish, Idle, Moves, TypeOK
<1>8. "pending" \in Live /\ "processing" \in Live /\ "pending" \in Statuses \ {"absent"}
  BY DEF Live, Statuses
<1>9. ASSUME NEW j \in jobs, Take(w, j) PROVE ContactsAreCovered'
  <2>1. Read(j).pc \notin {"build", "send", "record"}
    BY DEF Read, Idle
  <2>2. Moves(w) /\ worker'[w].pc \notin {"build", "send", "record"}
    BY <1>9, <2>1 DEF Take, Moves, TypeOK
  <2> QED
    BY <1>3, <1>5, <1>6, <1>9, <2>2 DEF Take
<1>10. CASE Suppress(w)
  <2> DEFINE new == [row[worker[w].key] EXCEPT !.status = "suppressed",
                       !.reason = IF worker[w].access THEN "access" ELSE "other"]
  <2>1. new.status = "suppressed"
    BY <1>1 DEF RowType
  <2>2. Guarded(w, "pending", new) /\ UNCHANGED resets
    BY <1>10 DEF Suppress
  <2> HIDE DEF new
  <2>3. \A k \in Keys : Allowed(k) <= Allowed(k)'
    BY <1>8, <2>1, <2>2, GuardedAllows DEF Statuses
  <2> QED
    BY <1>3, <1>6, <1>7, <1>10, <2>3 DEF Suppress
<1>11. CASE Defer(w)
  <2>1. \A k \in Keys : row'[k].status = row[k].status
    BY <1>1, <1>11 DEF Defer, Guarded, TypeOK, RowType
  <2>2. \A k \in Keys : Allowed(k) <= Allowed(k)'
    BY <1>2, <1>11, <2>1 DEF Defer, Allowed
  <2>3. Moves(w) /\ worker'[w].pc = "enqueue"
    BY <1>1, <1>11 DEF Defer, Goto, Moves, TypeOK, Handler
  <2> QED
    BY <1>3, <1>6, <1>11, <2>2, <2>3 DEF Defer
<1>12. CASE Enqueue(w)
  BY <1>3, <1>5, <1>6, <1>7, <1>12 DEF Enqueue
<1>13. CASE Claim(w)
  <2> DEFINE new == [row[worker[w].key] EXCEPT !.status = "processing",
                                                !.attempts = worker[w].attempts + 1]
  <2>4. new.status = "processing"
    BY <1>1 DEF RowType
  <2>5. Guarded(w, "pending", new) /\ UNCHANGED resets
    BY <1>13 DEF Claim
  <2> HIDE DEF new
  <2>1. \A k \in Keys : Allowed(k) <= Allowed(k)'
    BY <1>8, <2>4, <2>5, GuardedAllows DEF Statuses, Live
  <2>2. CASE row[own].status # "pending"
    BY <1>3, <1>6, <1>7, <1>13, <2>1, <2>2 DEF Claim
  <2>3. CASE row[own].status = "pending"
    <3>1. /\ Moves(w)
          /\ \A k \in Keys : k # own => Owed(w, k)' = 0
      BY <1>1, <1>13, <2>3 DEF Claim, Goto, Moves, Owed, Owes, TypeOK, Handler
    <3>2. Allowed(own)' = Allowed(own) + 1
      <4>1. row'[own].status = "processing"
        BY <1>1, <1>13, <2>3 DEF Claim, Guarded, TypeOK, RowType
      <4>2. resets[own] \in Nat
        BY DEF TypeOK
      <4> QED
        BY <1>13, <2>3, <4>1, <4>2 DEF Claim, Allowed
    <3>3. contacts' = contacts
      BY <1>13 DEF Claim
    <3>4. \A k \in Keys : contacts'[k] + Owed(w, k)' + Allowed(k)
                             <= contacts[k] + Owed(w, k) + Allowed(k)'
      BY <1>2, <2>1, <3>1, <3>2, <3>3
    <3> QED
      BY <3>1, <3>4, CoveredMove
  <2> QED
    BY <2>2, <2>3
<1>14. CASE Build(w)
  <2>1. CASE Goto(w, "send") /\ UNCHANGED row
    <3>1. Moves(w) /\ \A k \in Keys : Owed(w, k)' <= Owed(w, k)
      BY <1>1, <1>14, <2>1 DEF Build, At, Goto, Moves, Owed, Owes, TypeOK, Handler
    <3> QED
      BY <1>3, <1>5, <1>14, <2>1, <3>1 DEF Build
  <2>2. CASE ~(Goto(w, "send") /\ UNCHANGED row)
    <3> DEFINE new == [row[worker[w].key] EXCEPT !.status = "suppressed",
                                                  !.reason = "other"]
    <3>2. new.status = "suppressed"
      BY <1>1 DEF RowType
    <3>3. Guarded(w, "processing", new) /\ UNCHANGED resets
      BY <1>14, <2>2 DEF Build
    <3> HIDE DEF new
    <3>1. \A k \in Keys : Allowed(k) <= Allowed(k)'
      BY <1>8, <3>2, <3>3, GuardedAllows DEF Statuses
    <3> QED
      BY <1>3, <1>6, <1>7, <1>14, <2>2, <3>1 DEF Build
  <2> QED
    BY <2>1, <2>2
<1>15. ASSUME NEW o \in Outcomes, NEW delivered \in BOOLEAN, Send(w, o, delivered)
       PROVE  ContactsAreCovered'
  <2>1. /\ Moves(w) /\ worker'[w].key = worker[w].key
        /\ worker'[w].pc = "record" /\ worker'[w].outcome = o
        /\ worker[w].pc = "send"
    BY <1>1, <1>15 DEF Send, At, Moves, TypeOK, Handler
  <2>2. \A k \in Keys : Allowed(k)' = Allowed(k)
    BY <1>15 DEF Send, Allowed
  <2>3. \A k \in Keys : contacts'[k] + Owed(w, k)' <= contacts[k] + Owed(w, k)
    <3>1. CASE delivered
      <4>1. o \in {"sent", "ambiguous"}
        BY <1>15, <3>1 DEF Send
      <4>2. \A k \in Keys : contacts'[k] = IF k = own THEN contacts[k] + 1 ELSE contacts[k]
        BY <1>15, <3>1 DEF Send, TypeOK
      <4>3. \A k \in Keys : Owed(w, k)' = 0 /\ Owed(w, k) = IF k = own THEN 1 ELSE 0
        BY <2>1, <4>1 DEF Owed, Owes
      <4> QED
        BY <1>2, <4>2, <4>3
    <3>2. CASE ~delivered
      <4>1. UNCHANGED contacts
        BY <1>15, <3>2 DEF Send
      <4>2. \A k \in Keys : Owed(w, k)' <= Owed(w, k)
        BY <2>1 DEF Owed, Owes
      <4> QED
        BY <1>2, <4>1, <4>2
    <3> QED
      BY <3>1, <3>2
  <2>4. \A k \in Keys : contacts'[k] + Owed(w, k)' + Allowed(k)
                           <= contacts[k] + Owed(w, k) + Allowed(k)'
    BY <1>2, <2>2, <2>3
  <2> QED
    BY <2>1, <2>4, CoveredMove
<1>16. CASE RecordFinal(w)
  <2>1. PICK outcome \in DOMAIN FinalStatus :
          /\ Guarded(w, "processing",
                     [row[worker[w].key] EXCEPT !.status = FinalStatus[outcome]])
          /\ Finish(w) /\ UNCHANGED history
    BY <1>16 DEF RecordFinal
  <2>2. FinalStatus[outcome] \in Statuses \ {"absent", "pending"}
    BY DEF FinalStatus, Statuses, Live, Final
  <2> DEFINE new == [row[worker[w].key] EXCEPT !.status = FinalStatus[outcome]]
  <2>4. new.status = FinalStatus[outcome]
    BY <1>1 DEF RowType
  <2>5. Guarded(w, "processing", new) /\ UNCHANGED resets
    BY <2>1
  <2> HIDE DEF new
  <2>3. \A k \in Keys : Allowed(k) <= Allowed(k)'
    BY <1>8, <2>2, <2>4, <2>5, GuardedAllows
  <2> QED
    BY <1>3, <1>6, <1>7, <2>1, <2>3
<1>17. CASE RecordTransient(w)
  <2>1. \A k \in Keys : /\ k # own => Allowed(k)' = Allowed(k)
                        /\ Allowed(k) <= Allowed(k)' + 1
    <3> DEFINE after == IF worker[w].attempts + 1 >= MaxAttempts
                        THEN "failed" ELSE "pending"
               new == [row[worker[w].key] EXCEPT !.status = after]
    <3>1. new.status = after
      BY <1>1 DEF RowType
    <3>2. after \in Statuses \ {"absent"}
      BY DEF Statuses, Live, Final
    <3>3. Guarded(w, "processing", new) /\ UNCHANGED resets
      BY <1>17 DEF RecordTransient
    <3> HIDE DEF after, new
    <3> QED
      BY <1>8, <3>1, <3>2, <3>3, GuardedAllows
  <2>2. Owed(w, own) = 1
    BY <1>17 DEF RecordTransient, Recording, At, Owed, Owes
  <2> QED
    BY <1>2, <1>4, <1>6, <1>7, <1>17, <2>1, <2>2 DEF RecordTransient, Throw
<1>18. ASSUME NEW after \in RetryAfter, RecordRateLimited(w, after)
       PROVE  ContactsAreCovered'
  <2>1. \A k \in Keys : /\ k # own => Allowed(k)' = Allowed(k)
                        /\ Allowed(k) <= Allowed(k)' + 1
    <3> DEFINE new == [row[worker[w].key] EXCEPT !.status = "pending",
                         !.attempts = worker[w].attempts, !.scheduled = AtMost(now + after)]
    <3>1. new.status = "pending"
      BY <1>1 DEF RowType
    <3>2. Guarded(w, "processing", new) /\ UNCHANGED resets
      BY <1>18 DEF RecordRateLimited
    <3> HIDE DEF new
    <3> QED
      BY <1>8, <3>1, <3>2, GuardedAllows
  <2>2. Owed(w, own) = 1
    BY <1>18 DEF RecordRateLimited, Recording, At, Owed, Owes
  <2>3. Moves(w) /\ worker'[w].pc = "enqueue"
    BY <1>1, <1>18 DEF RecordRateLimited, Moves, TypeOK, Handler
  <2> QED
    BY <1>2, <1>4, <1>6, <1>18, <2>1, <2>2, <2>3 DEF RecordRateLimited
<1> QED
  BY <1>9, <1>10, <1>11, <1>12, <1>13, <1>14, <1>15, <1>16, <1>17, <1>18 DEF Deliver

(* ... and so does every call of one that fails.                            *)
LEMMA CoveredFails ==
  ASSUME TypeOK, TypeOK', ContactsAreCovered, NEW w \in Workers, Fails(w)
  PROVE  ContactsAreCovered'
<1> USE DEF history
<1>1. /\ worker[w] \in Handler /\ worker[w].key \in Keys
  BY DEF TypeOK, Handler
<1>2. \A k \in Keys : /\ contacts[k] \in Nat /\ resets[k] \in Nat
                      /\ Allowed(k) \in Nat /\ Allowed(k)' \in Nat
                      /\ Owed(w, k) \in {0, 1} /\ Owed(w, k)' \in {0, 1}
  BY DEF TypeOK, Allowed, Owed
<1>3. ASSUME Finish(w), UNCHANGED <<row, contacts, resets>>
      PROVE  ContactsAreCovered'
  <2>1. Moves(w) /\ \A k \in Keys : Owed(w, k)' = 0
    BY <1>3 DEF Finish, Idle, Moves, TypeOK, Owed, Owes
  <2>2. \A k \in Keys : contacts'[k] + Owed(w, k)' + Allowed(k)
                           <= contacts[k] + Owed(w, k) + Allowed(k)'
    BY <1>2, <1>3, <2>1 DEF Allowed
  <2> QED
    BY <2>1, <2>2, CoveredMove
<1>4. CASE EnqueueFails(w)
  BY <1>3, <1>4 DEF EnqueueFails, Throw
<1>5. CASE RecordSentFails(w)
  <2>1. Moves(w) /\ worker'[w].key = worker[w].key
    BY <1>1, <1>5 DEF RecordSentFails, Moves, TypeOK, Handler
  <2>2. \A k \in Keys : k # worker[w].key => Owed(w, k)' = 0
    BY <2>1 DEF Owed, Owes
  <2>3. \A k \in Keys : Allowed(k)' =
                           IF k = worker[w].key THEN Allowed(k) + 1 ELSE Allowed(k)
    <3>1. \A k \in Keys : resets'[k] = IF k = worker[w].key THEN resets[k] + 1
                                                          ELSE resets[k]
      BY <1>5 DEF RecordSentFails, TypeOK
    <3> QED
      BY <1>2, <1>5, <3>1 DEF RecordSentFails, Allowed
  <2>4. \A k \in Keys : contacts'[k] + Owed(w, k)' + Allowed(k)
                           <= contacts[k] + Owed(w, k) + Allowed(k)'
    BY <1>2, <1>5, <2>2, <2>3 DEF RecordSentFails
  <2> QED
    BY <2>1, <2>4, CoveredMove
<1>6. CASE RecordFailureFails(w)
  BY <1>3, <1>6 DEF RecordFailureFails, Throw
<1> QED
  BY <1>4, <1>5, <1>6 DEF Fails

(* The pass may lay a row down again only at the price of a reset.          *)
LEMMA CoveredPass ==
  ASSUME TypeOK, TypeOK', ContactsAreCovered, PassStep \/ PassFails
  PROVE  ContactsAreCovered'
<1> USE DEF history
<1>1. \A k \in Keys : /\ resets[k] \in Nat /\ row[k] \in RowType
                      /\ Allowed(k) \in Nat /\ Allowed(k)' \in Nat
  BY DEF TypeOK, Allowed
<1>2. ASSUME UNCHANGED <<worker, contacts, row, resets>>
      PROVE  ContactsAreCovered'
  BY <1>1, <1>2, CoveredChange DEF Allowed
<1>3. CASE PassBegin \/ PassRead \/ PassSkip \/ PassEnqueue \/ PassFails
  BY <1>2, <1>3 DEF PassBegin, PassRead, PassSkip, PassEnqueue, PassFails
<1>4. ASSUME NEW s \in Slots, PassRetire(s) PROVE ContactsAreCovered'
  <2> DEFINE own == [date |-> pass.date, slot |-> s]
             new == [row[own] EXCEPT !.status = "suppressed", !.reason = "superseded"]
  <2>1. own \in Keys => new.status = "suppressed"
    BY <1>1 DEF RowType
  <2>2. \A k \in Keys : row'[k] = row[k] \/
                        (k = own /\ row[k].status \in Live /\ row'[k] = new)
    BY <1>4 DEF PassRetire, TypeOK
  <2> HIDE DEF own, new
  <2>3. UNCHANGED <<worker, contacts, resets>>
    BY <1>4 DEF PassRetire
  <2>4. \A k \in Keys : Allowed(k) <= Allowed(k)'
    BY <1>1, <2>1, <2>2, <2>3 DEF Allowed, Live
  <2> QED
    BY <2>3, <2>4, CoveredChange
<1>5. CASE PassRenew
  <2>1. CASE UNCHANGED <<row, resets>>
    BY <1>2, <1>5, <2>1 DEF PassRenew
  <2>2. CASE ~UNCHANGED <<row, resets>>
    <3> DEFINE new == [row[PassKey] EXCEPT !.status = "pending", !.reason = "none",
                                           !.scheduled = Due]
    <3>1. PassKey \in Keys => new.status = "pending"
      BY <1>1 DEF RowType
    <3>2. \A k \in Keys : row'[k] = IF k = PassKey THEN new ELSE row[k]
      BY <1>5, <2>2 DEF PassRenew, TypeOK
    <3>3. \A k \in Keys : resets'[k] = IF k = PassKey /\ row[k].status # "pending"
                                        THEN resets[k] + 1 ELSE resets[k]
      BY <1>5, <2>2 DEF PassRenew, TypeOK
    <3> HIDE DEF new
    <3>4. UNCHANGED <<worker, contacts>>
      BY <1>5 DEF PassRenew
    <3>5. \A k \in Keys : Allowed(k) <= Allowed(k)'
      BY <1>1, <3>1, <3>2, <3>3 DEF Allowed
    <3> QED
      BY <3>4, <3>5, CoveredChange
  <2> QED
    BY <2>1, <2>2
<1>6. CASE PassInsert
  <2>1. UNCHANGED <<worker, contacts, resets>>
    BY <1>6 DEF PassInsert
  <2>2. \A k \in Keys : row[k].status = "absent" \/ row'[k] = row[k]
    BY <1>6 DEF PassInsert, TypeOK
  <2>3. \A k \in Keys : Allowed(k) <= Allowed(k)'
    BY <1>1, <2>1, <2>2 DEF Allowed
  <2> QED
    BY <2>1, <2>3, CoveredChange
<1> QED
  BY <1>3, <1>4, <1>5, <1>6 DEF PassStep

(* A crash ends every debt at once; a boot and a restored account pay for   *)
(* each row they put back.                                                  *)
LEMMA CoveredRest ==
  ASSUME TypeOK, TypeOK', ContactsAreCovered, Crash \/ Boot \/ Users \/ Tick
  PROVE  ContactsAreCovered'
<1> USE DEF history, Elsewhere
<1>1. \A k \in Keys : /\ resets[k] \in Nat /\ row[k] \in RowType
                      /\ Allowed(k) \in Nat /\ Allowed(k)' \in Nat
  BY DEF TypeOK, Allowed
<1>2. ASSUME UNCHANGED <<worker, contacts, row, resets>>
      PROVE  ContactsAreCovered'
  BY <1>1, <1>2, CoveredChange DEF Allowed
<1>3. CASE Crash
  <2> SUFFICES ASSUME NEW k \in Keys
               PROVE  contacts'[k] + Cardinality(Owing(k)') <= Allowed(k)'
    BY DEF ContactsAreCovered
  <2>1. Owing(k)' = {}
    BY <1>3 DEF Crash, Idle, Owing, Owes
  <2>2. Cardinality(Owing(k)') = 0
    BY <2>1, FS_EmptySet
  <2>3. contacts'[k] = contacts[k] /\ Allowed(k)' = Allowed(k)
    BY <1>3 DEF Crash, Allowed
  <2>4. /\ contacts[k] \in Nat /\ Allowed(k) \in Nat /\ Cardinality(Owing(k)) \in Nat
        /\ contacts[k] + Cardinality(Owing(k)) <= Allowed(k)
    BY CountsTyped DEF ContactsAreCovered
  <2> QED
    BY <2>2, <2>3, <2>4
<1>4. ASSUME NEW S \in SUBSET Keys, NEW reason \in [Keys -> RowType],
             \A k \in S : reason[k].status = "pending" /\ row[k].status # "pending",
             \A k \in Keys : row'[k] = (IF k \in S THEN reason[k] ELSE row[k]),
             \A k \in Keys : resets'[k] = (IF k \in S THEN resets[k] + 1 ELSE resets[k]),
             UNCHANGED <<worker, contacts>>
      PROVE  ContactsAreCovered'
  <2>1. \A k \in Keys : Allowed(k) <= Allowed(k)'
    BY <1>1, <1>4 DEF Allowed
  <2> QED
    BY <1>4, <2>1, CoveredChange
<1>5. CASE Recover
  <2> DEFINE back == {k \in Keys : row[k].status = "processing"}
             new == [k \in Keys |-> [row[k] EXCEPT !.status = "pending"]]
  <2>1. new \in [Keys -> RowType] /\ \A k \in Keys : new[k].status = "pending"
    BY <1>1 DEF RowType, Statuses, Live
  <2>2. \A k \in Keys : row'[k] = (IF k \in back THEN new[k] ELSE row[k])
    BY <1>5 DEF Recover
  <2>3. \A k \in Keys : resets'[k] = (IF k \in back THEN resets[k] + 1 ELSE resets[k])
    BY <1>5 DEF Recover
  <2>4. UNCHANGED <<worker, contacts>>
    BY <1>5 DEF Recover
  <2>5. back \in SUBSET Keys /\ \A k \in back : row[k].status # "pending"
    OBVIOUS
  <2> HIDE DEF back, new
  <2>6. \A k \in back : new[k].status = "pending" /\ row[k].status # "pending"
    BY <2>1, <2>5
  <2> QED
    BY <1>4, <2>1, <2>2, <2>3, <2>4, <2>5, <2>6
<1>6. CASE Start
  BY <1>2, <1>6 DEF Start
<1>7. CASE Disable
  <2>1. UNCHANGED <<worker, contacts, resets>>
    BY <1>7 DEF Disable
  <2>2. \A k \in Keys : \/ row'[k] = row[k]
                        \/ row[k].status \in Live /\ row'[k].status = "suppressed"
    BY <1>1, <1>7 DEF Disable, RowType
  <2>3. \A k \in Keys : Allowed(k) <= Allowed(k)'
    BY <1>1, <2>1, <2>2 DEF Allowed, Live
  <2> QED
    BY <2>1, <2>3, CoveredChange
<1>8. CASE Restore
  <2> DEFINE back == {k \in Keys : row[k].status = "suppressed"
                                   /\ row[k].reason = "access" /\ row[k].scheduled > now}
             new == [k \in Keys |-> [row[k] EXCEPT !.status = "pending",
                                                  !.reason = "none"]]
  <2>1. new \in [Keys -> RowType] /\ \A k \in Keys : new[k].status = "pending"
    BY <1>1 DEF RowType, Statuses, Live
  <2>2. \A k \in Keys : row'[k] = (IF k \in back THEN new[k] ELSE row[k])
    BY <1>8 DEF Restore
  <2>3. \A k \in Keys : resets'[k] = (IF k \in back THEN resets[k] + 1 ELSE resets[k])
    BY <1>8 DEF Restore
  <2>4. UNCHANGED <<worker, contacts>>
    BY <1>8 DEF Restore
  <2>5. back \in SUBSET Keys /\ \A k \in back : row[k].status # "pending"
    OBVIOUS
  <2> HIDE DEF back, new
  <2>6. \A k \in back : new[k].status = "pending" /\ row[k].status # "pending"
    BY <2>1, <2>5
  <2> QED
    BY <1>4, <2>1, <2>2, <2>3, <2>4, <2>5, <2>6
<1>9. CASE Tick \/ (\E s \in Settings : ChangeSettings(s)) \/ (\E t \in Time : Snooze(t))
  BY <1>2, <1>9 DEF Tick, ChangeSettings, Snooze
<1> QED
  BY <1>3, <1>5, <1>6, <1>7, <1>8, <1>9 DEF Boot, Users

LEMMA CoveredStep ==
  ASSUME TypeOK, TypeOK', ContactsAreCovered, [Next]_vars
  PROVE  ContactsAreCovered'
<1>1. ASSUME NEW w \in Workers, Deliver(w) PROVE ContactsAreCovered'
  BY <1>1, CoveredDeliver
<1>2. ASSUME NEW w \in Workers, Fails(w) PROVE ContactsAreCovered'
  BY <1>2, CoveredFails
<1>3. CASE PassStep \/ PassFails
  BY <1>3, CoveredPass
<1>4. CASE Crash \/ Boot \/ Users \/ Tick
  BY <1>4, CoveredRest
<1>5. CASE UNCHANGED vars
  BY <1>5 DEF vars, ContactsAreCovered, Owing, Owes, Allowed
<1> QED
  BY <1>1, <1>2, <1>3, <1>4, <1>5 DEF Next

LEMMA CoveredInit ==
  ASSUME Init PROVE ContactsAreCovered
<1> SUFFICES ASSUME NEW k \in Keys
             PROVE  contacts[k] + Cardinality(Owing(k)) <= Allowed(k)
  BY DEF ContactsAreCovered
<1>1. Owing(k) = {}
  BY DEF Init, Idle, Owing, Owes
<1>2. Cardinality(Owing(k)) = 0
  BY <1>1, FS_EmptySet
<1>3. contacts[k] = 0 /\ Allowed(k) = 0
  BY DEF Init, NoRow, Allowed
<1> QED
  BY <1>2, <1>3

(* ContactsAreCounted, for any number of handlers, days, hours and zones:   *)
(* one row makes one card, and a second one needs a boot recovery, a        *)
(* revival, a lost record or a pass that laid the row down again.           *)
THEOREM ContactsStayCounted == Spec => []ContactsAreCounted
<1>1. Init => ContactsAreCovered
  BY CoveredInit
<1>2. TypeOK /\ TypeOK' /\ ContactsAreCovered /\ [Next]_vars => ContactsAreCovered'
  BY CoveredStep
<1>3. TypeOK /\ ContactsAreCovered => ContactsAreCounted
  <2> SUFFICES ASSUME TypeOK, ContactsAreCovered, NEW k \in Keys
               PROVE  contacts[k] <= 1 + resets[k]
    BY DEF ContactsAreCounted
  <2>1. /\ contacts[k] \in Nat /\ Cardinality(Owing(k)) \in Nat
        /\ contacts[k] + Cardinality(Owing(k)) <= Allowed(k)
    BY CountsTyped DEF ContactsAreCovered
  <2>2. resets[k] \in Nat /\ Allowed(k) \in Nat /\ Allowed(k) <= 1 + resets[k]
    BY DEF TypeOK, Allowed
  <2> QED
    BY <2>1, <2>2
<1> QED
  BY <1>1, <1>2, <1>3, TypeCorrect, PTL DEF Spec
-----------------------------------------------------------------------------
(* Which rows there are: only the pass makes one, and none is taken away.   *)
There(k) == row[k].status # "absent"

(* The rows that exist, the handlers' rows and what the pass has read are   *)
(* all rows some settings asked for in time; so are the rows the settings   *)
(* of now, and those the pass started from, still ask for.                  *)
RowsWereWanted ==
  /\ \A k \in Keys : There(k) \/ contacts[k] > 0 => k \in wanted
  /\ \A w \in Workers : worker[w].pc # "idle" => There(worker[w].key)
  /\ Asked(settings, now) \subseteq wanted
  /\ pass.pc # "idle" =>
       /\ Asked(pass.by, pass.at) \subseteq wanted
       /\ \A s \in Slots : pass.seen[s].status # "absent"
                            => There([date |-> pass.date, slot |-> s])

(* An update guarded by status makes no row and takes none away. *)
LEMMA GuardedKeeps ==
  ASSUME TypeOK, NEW w \in Workers, NEW expected \in Live, NEW new,
         Guarded(w, expected, new), new.status # "absent", NEW k \in Keys
  PROVE  There(k)' <=> There(k)
<1>1. row'[k] = row[k] \/ (row[k].status = expected /\ row'[k] = new)
  BY DEF Guarded, TypeOK
<1> QED
  BY <1>1 DEF There, Live

LEMMA DeliverKeepsRows ==
  ASSUME TypeOK, NEW w \in Workers, Deliver(w), NEW k \in Keys
  PROVE  There(k)' <=> There(k)
<1>1. row[worker[w].key] \in RowType
  BY DEF TypeOK, Handler
<1>2. UNCHANGED row => (There(k)' <=> There(k))
  BY DEF There
<1>3. "pending" \in Live /\ "processing" \in Live
  BY DEF Live
<1>4. CASE Suppress(w)
  <2> DEFINE new == [row[worker[w].key] EXCEPT !.status = "suppressed",
                       !.reason = IF worker[w].access THEN "access" ELSE "other"]
  <2>1. new.status # "absent"
    BY <1>1 DEF RowType
  <2>2. Guarded(w, "pending", new)
    BY <1>4 DEF Suppress
  <2> HIDE DEF new
  <2> QED
    BY <1>3, <2>1, <2>2, GuardedKeeps
<1>5. CASE Defer(w)
  <2>1. \/ row'[k] = row[k]
        \/ k = worker[w].key /\ row'[k] = [row[k] EXCEPT !.scheduled = worker[w].at]
    BY <1>5 DEF Defer, Guarded, TypeOK
  <2> QED
    BY <1>1, <2>1 DEF There, RowType
<1>6. CASE Claim(w)
  <2> DEFINE new == [row[worker[w].key] EXCEPT !.status = "processing",
                                                !.attempts = worker[w].attempts + 1]
  <2>1. new.status # "absent"
    BY <1>1 DEF RowType
  <2>2. Guarded(w, "pending", new)
    BY <1>6 DEF Claim
  <2> HIDE DEF new
  <2> QED
    BY <1>3, <2>1, <2>2, GuardedKeeps
<1>7. CASE Build(w)
  <2> DEFINE new == [row[worker[w].key] EXCEPT !.status = "suppressed",
                                                !.reason = "other"]
  <2>1. new.status # "absent"
    BY <1>1 DEF RowType
  <2>2. UNCHANGED row \/ Guarded(w, "processing", new)
    BY <1>7 DEF Build
  <2> HIDE DEF new
  <2> QED
    BY <1>2, <1>3, <2>1, <2>2, GuardedKeeps
<1>8. CASE RecordFinal(w)
  <2>1. PICK outcome \in DOMAIN FinalStatus :
          Guarded(w, "processing",
                  [row[worker[w].key] EXCEPT !.status = FinalStatus[outcome]])
    BY <1>8 DEF RecordFinal
  <2> DEFINE new == [row[worker[w].key] EXCEPT !.status = FinalStatus[outcome]]
  <2>2. new.status # "absent"
    BY <1>1 DEF RowType, FinalStatus
  <2>3. Guarded(w, "processing", new)
    BY <2>1
  <2> HIDE DEF new
  <2> QED
    BY <1>3, <2>2, <2>3, GuardedKeeps
<1>9. CASE RecordTransient(w)
  <2> DEFINE new == [row[worker[w].key] EXCEPT !.status =
                       IF worker[w].attempts + 1 >= MaxAttempts
                       THEN "failed" ELSE "pending"]
  <2>1. new.status # "absent"
    BY <1>1 DEF RowType
  <2>2. Guarded(w, "processing", new)
    BY <1>9 DEF RecordTransient
  <2> HIDE DEF new
  <2> QED
    BY <1>3, <2>1, <2>2, GuardedKeeps
<1>10. ASSUME NEW after \in RetryAfter, RecordRateLimited(w, after)
       PROVE  There(k)' <=> There(k)
  <2> DEFINE new == [row[worker[w].key] EXCEPT !.status = "pending",
                       !.attempts = worker[w].attempts, !.scheduled = AtMost(now + after)]
  <2>1. new.status # "absent"
    BY <1>1 DEF RowType
  <2>2. Guarded(w, "processing", new)
    BY <1>10 DEF RecordRateLimited
  <2> HIDE DEF new
  <2> QED
    BY <1>3, <2>1, <2>2, GuardedKeeps
<1> QED
  BY <1>2, <1>4, <1>5, <1>6, <1>7, <1>8, <1>9, <1>10 DEF Deliver, Take, Enqueue, Send

(* Only the pass makes a row, the one it is laying down. *)
LEMMA RowsCome ==
  ASSUME TypeOK, RowsWereWanted, [Next]_vars, NEW k \in Keys
  PROVE  /\ There(k) => There(k)'
         /\ There(k)' => There(k) \/ (PassInsert /\ k = PassKey)
<1>1. \A l \in Keys : row[l] \in RowType
  BY DEF TypeOK
<1>2. UNCHANGED row => (There(k)' <=> There(k))
  BY DEF There
<1>3. ASSUME NEW w \in Workers, Deliver(w) PROVE There(k)' <=> There(k)
  BY <1>3, DeliverKeepsRows
<1>4. ASSUME NEW w \in Workers, Fails(w) PROVE There(k)' <=> There(k)
  BY <1>2, <1>4 DEF Fails, EnqueueFails, RecordSentFails, RecordFailureFails
<1>5. CASE PassInsert
  <2>1. (row[k].status = "absent" /\ k = PassKey) \/ row'[k] = row[k]
    BY <1>5 DEF PassInsert, TypeOK
  <2> QED
    BY <1>5, <2>1 DEF There
<1>6. CASE PassRenew
  <2> DEFINE new == [row[PassKey] EXCEPT !.status = "pending", !.reason = "none",
                                         !.scheduled = Due]
  <2>1. PassKey \in Keys => new.status = "pending"
    BY <1>1 DEF RowType
  <2>2. row'[k] = row[k] \/ (k = PassKey /\ row'[k] = new)
    BY <1>6 DEF PassRenew, TypeOK
  <2>3. k = PassKey => There(k)
    BY <1>6 DEF PassRenew, Prior, PassAt, PassKey, RowsWereWanted, TypeOK, Pass, Settings
  <2> QED
    BY <2>1, <2>2, <2>3 DEF There
<1>7. ASSUME NEW s \in Slots, PassRetire(s) PROVE There(k)' <=> There(k)
  <2> DEFINE own == [date |-> pass.date, slot |-> s]
             new == [row[own] EXCEPT !.status = "suppressed", !.reason = "superseded"]
  <2>1. own \in Keys => new.status = "suppressed"
    BY <1>1 DEF RowType
  <2>2. row'[k] = row[k] \/ (k = own /\ row[k].status \in Live /\ row'[k] = new)
    BY <1>7 DEF PassRetire, TypeOK
  <2> HIDE DEF own, new
  <2> QED
    BY <2>1, <2>2 DEF There, Live
<1>8. CASE Recover
  <2>1. \/ row'[k] = row[k]
        \/ row[k].status = "processing" /\ row'[k].status = "pending"
    BY <1>1, <1>8 DEF Recover, RowType
  <2> QED
    BY <2>1 DEF There
<1>9. CASE Disable
  <2>1. \/ row'[k] = row[k]
        \/ row[k].status \in Live /\ row'[k].status = "suppressed"
    BY <1>1, <1>9 DEF Disable, RowType
  <2> QED
    BY <2>1 DEF There, Live
<1>10. CASE Restore
  <2>1. \/ row'[k] = row[k]
        \/ row[k].status = "suppressed" /\ row'[k].status = "pending"
    BY <1>1, <1>10 DEF Restore, RowType
  <2> QED
    BY <2>1 DEF There
<1>11. CASE PassBegin \/ PassRead \/ PassSkip \/ PassEnqueue \/ PassFails
  BY <1>2, <1>11 DEF PassBegin, PassRead, PassSkip, PassEnqueue, PassFails
<1>12. CASE Crash \/ Start \/ Tick \/ (\E s \in Settings : ChangeSettings(s))
            \/ (\E t \in Time : Snooze(t)) \/ UNCHANGED vars
  BY <1>2, <1>12 DEF Crash, Start, Tick, ChangeSettings, Snooze, vars
<1> QED
  BY <1>3, <1>4, <1>5, <1>6, <1>7, <1>8, <1>9, <1>10, <1>11, <1>12
  DEF Next, PassStep, Boot, Users

(* A handler is at work on a row that exists. *)
Works(w) == worker[w].pc # "idle" => There(worker[w].key)

LEMMA WorksStep ==
  ASSUME TypeOK, RowsWereWanted, [Next]_vars, NEW v \in Workers
  PROVE  Works(v)'
<1>1. /\ worker[v] \in Handler /\ worker[v].key \in Keys /\ Works(v)
  BY DEF TypeOK, Handler, RowsWereWanted, Works
<1>2. PICK own \in Keys : own = worker[v].key
  BY <1>1
<1>3. There(own) => There(own)'
  BY RowsCome
<1>4. worker'[v].pc = "idle" => Works(v)'
  BY DEF Works
<1>5. worker'[v].key = own /\ worker[v].pc # "idle" => Works(v)'
  BY <1>1, <1>2, <1>3 DEF Works
<1>6. worker'[v] = worker[v] => Works(v)'
  BY <1>4, <1>5, <1>2
<1>7. ASSUME NEW w \in Workers, Finish(w) PROVE Works(v)'
  BY <1>4, <1>6, <1>7 DEF Finish, Idle, TypeOK
<1>8. ASSUME NEW w \in Workers, NEW pc, Goto(w, pc), worker[w].pc # "idle"
      PROVE  Works(v)'
  BY <1>1, <1>2, <1>5, <1>6, <1>8 DEF Goto, TypeOK, Handler
<1>9. ASSUME NEW w \in Workers, NEW j \in jobs, Take(w, j) PROVE Works(v)'
  <2>1. CASE v = w
    <3>1. worker'[w] = Read(j) /\ row' = row
      BY <1>9 DEF Take, TypeOK
    <3>2. Read(j).pc # "idle" => Read(j).key = j.key /\ row[j.key].status = "pending"
      BY DEF Read, Idle
    <3> QED
      BY <2>1, <3>1, <3>2 DEF Works, There
  <2>2. CASE v # w
    BY <1>6, <1>9, <2>2 DEF Take, TypeOK
  <2> QED
    BY <2>1, <2>2
<1>10. ASSUME NEW w \in Workers, Deliver(w) PROVE Works(v)'
  <2>1. CASE Suppress(w) \/ Enqueue(w) \/ RecordFinal(w) \/ RecordTransient(w)
    BY <1>7, <2>1 DEF Suppress, Enqueue, RecordFinal, RecordTransient, Throw
  <2>2. CASE Defer(w) \/ Claim(w) \/ Build(w)
    BY <1>7, <1>8, <2>2 DEF Defer, Claim, Build, At
  <2>3. ASSUME NEW o \in Outcomes, NEW delivered \in BOOLEAN, Send(w, o, delivered)
        PROVE  Works(v)'
    <3>1. worker[w].pc # "idle" /\ (v # w => worker'[v] = worker[v])
          /\ worker'[v].key = worker[v].key
      BY <1>1, <2>3 DEF Send, At, TypeOK, Handler
    <3> QED
      BY <1>2, <1>5, <1>6, <3>1
  <2>4. ASSUME NEW after \in RetryAfter, RecordRateLimited(w, after)
        PROVE  Works(v)'
    <3>1. worker[w].pc # "idle" /\ (v # w => worker'[v] = worker[v])
          /\ worker'[v].key = worker[v].key
      BY <1>1, <2>4 DEF RecordRateLimited, Recording, At, TypeOK, Handler
    <3> QED
      BY <1>2, <1>5, <1>6, <3>1
  <2> QED
    BY <1>9, <1>10, <2>1, <2>2, <2>3, <2>4 DEF Deliver
<1>11. ASSUME NEW w \in Workers, Fails(w) PROVE Works(v)'
  <2>1. CASE EnqueueFails(w) \/ RecordFailureFails(w)
    BY <1>7, <2>1 DEF EnqueueFails, RecordFailureFails, Throw
  <2>2. CASE RecordSentFails(w)
    <3>1. worker[w].pc # "idle" /\ (v # w => worker'[v] = worker[v])
          /\ worker'[v].key = worker[v].key
      BY <1>1, <2>2 DEF RecordSentFails, Recording, At, TypeOK, Handler
    <3> QED
      BY <1>2, <1>5, <1>6, <3>1
  <2> QED
    BY <1>11, <2>1, <2>2 DEF Fails
<1>12. CASE PassStep \/ PassFails
  BY <1>6, <1>12 DEF PassStep, PassBegin, PassRead, PassSkip, PassRenew, PassInsert,
                     PassEnqueue, PassRetire, PassFails
<1>13. CASE Crash
  BY <1>4, <1>13 DEF Crash, Idle
<1>14. CASE Boot \/ Users \/ Tick \/ UNCHANGED vars
  BY <1>6, <1>14 DEF Boot, Recover, Start, Users, ChangeSettings, Snooze, Disable,
                     Restore, Elsewhere, Tick, vars
<1> QED
  BY <1>10, <1>11, <1>12, <1>13, <1>14 DEF Next

(* What was wanted in time stays so, and what the settings ask for now is.  *)
LEMMA WantedStep ==
  ASSUME RowsWereWanted, [Next]_vars
  PROVE  wanted \subseteq wanted' /\ Asked(settings, now)' \subseteq wanted'
<1> USE DEF history
<1>1. Asked(settings, now) \subseteq wanted
  BY DEF RowsWereWanted
<1>2. UNCHANGED <<settings, now, wanted>> =>
        wanted \subseteq wanted' /\ Asked(settings, now)' \subseteq wanted'
  BY <1>1 DEF Asked
<1>3. ASSUME NEW w \in Workers, Deliver(w) \/ Fails(w)
      PROVE  UNCHANGED <<settings, now, wanted>>
  BY <1>3 DEF Deliver, Take, Suppress, Defer, Enqueue, Claim, Build, Send, RecordFinal,
              RecordTransient, RecordRateLimited, Fails, EnqueueFails, RecordSentFails,
              RecordFailureFails, user
<1>4. CASE PassStep \/ PassFails \/ Crash \/ Boot
  BY <1>2, <1>4 DEF PassStep, PassBegin, PassRead, PassSkip, PassRenew, PassInsert,
                    PassEnqueue, PassRetire, PassFails, Crash, Boot, Recover, Start, user
<1>5. ASSUME NEW s \in Settings, ChangeSettings(s)
      PROVE  wanted \subseteq wanted' /\ Asked(settings, now)' \subseteq wanted'
  BY <1>5 DEF ChangeSettings, Elsewhere, Asked
<1>6. CASE Tick
  BY <1>6 DEF Tick, Asked, user
<1>7. CASE (\E t \in Time : Snooze(t)) \/ Disable \/ Restore \/ UNCHANGED vars
  BY <1>2, <1>7 DEF Snooze, Disable, Restore, Elsewhere, vars
<1> QED
  BY <1>2, <1>3, <1>4, <1>5, <1>6, <1>7 DEF Next, Users

(* A card is delivered for a row that exists. *)
LEMMA CardsCome ==
  ASSUME TypeOK, RowsWereWanted, [Next]_vars, NEW k \in Keys, contacts'[k] > 0
  PROVE  contacts[k] > 0 \/ There(k)
<1> USE DEF history
<1>1. contacts'[k] = contacts[k] => contacts[k] > 0
  OBVIOUS
<1>2. ASSUME NEW w \in Workers, NEW o \in Outcomes, NEW delivered \in BOOLEAN,
             Send(w, o, delivered)
      PROVE  contacts[k] > 0 \/ There(k)
  <2>1. There(worker[w].key)
    BY <1>2 DEF Send, At, RowsWereWanted
  <2>2. contacts'[k] = contacts[k] \/ k = worker[w].key
    BY <1>2 DEF Send, TypeOK
  <2> QED
    BY <1>1, <2>1, <2>2
<1>3. ASSUME NEW w \in Workers, Deliver(w) \/ Fails(w)
      PROVE  contacts[k] > 0 \/ There(k)
  BY <1>1, <1>2, <1>3
  DEF Deliver, Take, Suppress, Defer, Enqueue, Claim, Build, RecordFinal, RecordTransient,
      RecordRateLimited, Fails, EnqueueFails, RecordSentFails, RecordFailureFails
<1>4. CASE PassStep \/ PassFails \/ Crash \/ Boot
  BY <1>1, <1>4 DEF PassStep, PassBegin, PassRead, PassSkip, PassRenew, PassInsert,
                    PassEnqueue, PassRetire, PassFails, Crash, Boot, Recover, Start
<1>5. CASE Users \/ Tick \/ UNCHANGED vars
  BY <1>1, <1>5 DEF Users, ChangeSettings, Snooze, Disable, Restore, Elsewhere, Tick, vars
<1> QED
  BY <1>3, <1>4, <1>5 DEF Next

(* What the pass has read are rows that exist, and the settings it started  *)
(* from were the recipient's.                                               *)
PassIsSound ==
  pass.pc # "idle" =>
    /\ Asked(pass.by, pass.at) \subseteq wanted
    /\ \A s \in Slots : pass.seen[s].status # "absent"
                         => There([date |-> pass.date, slot |-> s])

LEMMA PassStaysSound ==
  ASSUME TypeOK, RowsWereWanted, [Next]_vars
  PROVE  PassIsSound'
<1>1. /\ pass \in Pass /\ pass.date \in Dates
      /\ \A s \in Slots : [date |-> pass.date, slot |-> s] \in Keys
  BY DEF TypeOK, Pass, Keys
<1>2. wanted \subseteq wanted' /\ \A k \in Keys : There(k) => There(k)'
  BY WantedStep, RowsCome
(* A step that goes on with the same settings and reads no more.            *)
<1>3. ASSUME pass.pc # "idle", pass'.by = pass.by, pass'.at = pass.at,
             \A s \in Slots : \/ pass'.seen[s].status = "absent"
                             \/ /\ pass'.date = pass.date
                                /\ pass'.seen[s] = pass.seen[s]
      PROVE  PassIsSound'
  <2>1. PassIsSound
    BY DEF RowsWereWanted, PassIsSound
  <2>2. Asked(pass.by, pass.at)' = Asked(pass.by, pass.at)
    BY <1>3 DEF Asked
  <2>3. ASSUME NEW s \in Slots, pass'.seen[s].status # "absent"
        PROVE  There([date |-> pass.date, slot |-> s])'
    <3> PICK own \in Keys : own = [date |-> pass.date, slot |-> s]
      BY <1>1
    <3>1. There(own) /\ own = [date |-> pass'.date, slot |-> s]
      BY <1>3, <2>1, <2>3 DEF PassIsSound
    <3>2. There(own)'
      BY <1>2, <3>1
    <3> QED
      BY <3>1, <3>2 DEF There
  <2> QED
    BY <1>2, <1>3, <2>1, <2>2, <2>3 DEF PassIsSound
<1>4. pass' = NoPass => PassIsSound'
  BY DEF NoPass, PassIsSound
<1>5. pass' = pass => PassIsSound'
  BY <1>3 DEF PassIsSound
<1>6. pass' = NextDate /\ pass.pc # "idle" => PassIsSound'
  <2>1. ASSUME pass' = NextDate, NextDate # NoPass, pass.pc # "idle"
        PROVE  PassIsSound'
    <3>1. /\ pass'.by = pass.by /\ pass'.at = pass.at
          /\ \A s \in Slots : pass'.seen[s].status = "absent"
      BY <1>1, <2>1 DEF NextDate, NoPass, Unseen, Pass
    <3> QED
      BY <1>3, <2>1, <3>1
  <2> QED
    BY <1>4, <2>1
<1>7. ASSUME pass.pc # "idle", pass' = [pass EXCEPT !.pc = "enqueue"]
      PROVE  PassIsSound'
  BY <1>1, <1>3, <1>7 DEF Pass
<1>8. CASE PassBegin
  <2>1. CASE active
    <3>1. /\ pass'.by = settings /\ pass'.at = now
          /\ \A s \in Slots : pass'.seen[s].status = "absent"
      BY <1>8, <2>1 DEF PassBegin, NoPass, Unseen
    <3>2. Asked(settings, now) \subseteq wanted
      BY DEF RowsWereWanted
    <3>3. Asked(pass.by, pass.at)' = Asked(settings, now)
      BY <3>1 DEF Asked
    <3> QED
      BY <1>2, <3>1, <3>2, <3>3 DEF PassIsSound
  <2>2. CASE ~active
    BY <1>4, <1>8, <2>2 DEF PassBegin
  <2> QED
    BY <2>1, <2>2
<1>9. CASE PassRead
  <2>1. /\ pass.pc # "idle" /\ pass'.by = pass.by /\ pass'.at = pass.at
        /\ pass'.date = pass.date /\ row' = row
        /\ \A s \in Slots :
             pass'.seen[s].status = row[[date |-> pass.date, slot |-> s]].status
    BY <1>1, <1>9 DEF PassRead, PassAt, Pass
  <2>2. Asked(pass.by, pass.at)' = Asked(pass.by, pass.at)
    BY <2>1 DEF Asked
  <2>3. Asked(pass.by, pass.at) \subseteq wanted
    BY <2>1 DEF RowsWereWanted
  <2> QED
    BY <1>2, <2>1, <2>2, <2>3 DEF PassIsSound, There
<1>10. CASE PassSkip \/ PassEnqueue
  BY <1>6, <1>10 DEF PassSkip, PassEnqueue, PassAt
<1>11. CASE PassRenew
  BY <1>7, <1>11 DEF PassRenew, PassAt
<1>12. CASE PassInsert
  BY <1>6, <1>7, <1>12 DEF PassInsert, PassAt
<1>13. ASSUME NEW s \in Slots, PassRetire(s) PROVE PassIsSound'
  <2>1. /\ pass.pc # "idle" /\ pass'.by = pass.by /\ pass'.at = pass.at
        /\ pass'.date = pass.date
        /\ \A t \in Slots : pass'.seen[t] = IF t = s THEN Unseen ELSE pass.seen[t]
    BY <1>1, <1>13 DEF PassRetire, PassAt, Pass
  <2> QED
    BY <1>3, <2>1 DEF Unseen
<1>14. CASE PassFails
  BY <1>4, <1>6, <1>14 DEF PassFails
<1>15. CASE Crash
  BY <1>4, <1>15 DEF Crash
<1>16. ASSUME NEW w \in Workers, Deliver(w) \/ Fails(w) PROVE pass' = pass
  BY <1>16 DEF Deliver, Take, Suppress, Defer, Enqueue, Claim, Build, Send, RecordFinal,
               RecordTransient, RecordRateLimited, Fails, EnqueueFails, RecordSentFails,
               RecordFailureFails
<1>17. CASE Boot \/ Users \/ Tick \/ UNCHANGED vars
  BY <1>5, <1>17 DEF Boot, Recover, Start, Users, ChangeSettings, Snooze, Disable,
                     Restore, Elsewhere, Tick, vars
<1> QED
  BY <1>5, <1>8, <1>9, <1>10, <1>11, <1>12, <1>13, <1>14, <1>15, <1>16, <1>17
  DEF Next, PassStep

LEMMA RowsWereWantedStep ==
  ASSUME TypeOK, RowsWereWanted, [Next]_vars
  PROVE  RowsWereWanted'
<1>1. ASSUME NEW k \in Keys, There(k)' \/ contacts'[k] > 0
      PROVE  k \in wanted'
  <2>1. There(k) \/ contacts[k] > 0 => k \in wanted'
    BY WantedStep DEF RowsWereWanted
  <2>2. CASE PassInsert /\ k = PassKey /\ ~There(k)
    <3>1. pass.pc # "idle" /\ Asked(pass.by, pass.at) \subseteq wanted
      BY <2>2 DEF PassInsert, PassAt, RowsWereWanted
    <3>2. /\ pass.by.enabled /\ k.slot = pass.by.slot
          /\ SlotAt(k, pass.by.zone) \in Int /\ pass.at \in Int /\ LateGrace \in Int
          /\ ~(SlotAt(k, pass.by.zone) < pass.at - LateGrace)
      <4>1. k.slot = pass.by.slot /\ ~NothingToDo /\ Prior.status = "absent"
        BY <2>2 DEF PassInsert, PassKey
      <4>2. SlotAt(k, pass.by.zone) = Due
        BY <2>2 DEF Due
      <4>3. pass.at \in Int /\ pass.by.zone \in Zones
        BY DEF TypeOK, Pass, Settings, Time
      <4>4. SlotAt(k, pass.by.zone) \in Int
        <5>1. SlotAt(k, pass.by.zone) \in Moments
          BY <4>3, SlotTyped
        <5>2. Moments \subseteq Int
          BY DEF Moments
        <5> QED
          BY <5>1, <5>2
      <4>5. LateGrace \in Int
        BY BriefingAssumption DEF BriefingAssumption
      <4> QED
        BY <4>1, <4>2, <4>3, <4>4, <4>5 DEF NothingToDo
    <3>3. k \in Asked(pass.by, pass.at)
      BY <3>2 DEF Asked
    <3> QED
      BY <3>1, <3>3, WantedStep
  <2> QED
    BY <1>1, <2>1, <2>2, RowsCome, CardsCome
<1>2. \A w \in Workers : Works(w)'
  BY WorksStep
<1>3. PassIsSound'
  BY PassStaysSound
<1>4. Asked(settings, now)' \subseteq wanted'
  BY WantedStep
<1> QED
  BY <1>1, <1>2, <1>3, <1>4 DEF RowsWereWanted, Works, PassIsSound

LEMMA RowsWereWantedInit ==
  ASSUME Init PROVE RowsWereWanted
BY DEF Init, NoRow, Idle, NoPass, RowsWereWanted, There

(* LateSlotsStayUnsent, for every calendar, every choice of hours and zones *)
(* and any interleaving of the pass with edits of the settings: no card is  *)
(* sent for an hour that nothing asked for before it had long passed.       *)
THEOREM LateSlotsAreNeverSent == Spec => []LateSlotsStayUnsent
<1>1. Init => RowsWereWanted
  BY RowsWereWantedInit
<1>2. TypeOK /\ RowsWereWanted /\ [Next]_vars => RowsWereWanted'
  BY RowsWereWantedStep
<1>3. RowsWereWanted => LateSlotsStayUnsent
  BY DEF RowsWereWanted, LateSlotsStayUnsent
<1> QED
  BY <1>1, <1>2, <1>3, TypeCorrect, PTL DEF Spec
=============================================================================
