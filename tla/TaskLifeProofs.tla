---------------------------- MODULE TaskLifeProofs ----------------------------
(***************************************************************************)
(* What is proved of a task's life: of a series, for every set of rules,    *)
(* horizon and number of changes, undos, answers and crashes; of a task     *)
(* without a date, for every set of reminders and number of rebuilds; of    *)
(* the reminders of a date, for every set of moments, reminders and         *)
(* rebuilds and every number of changes, undos and crashes (as long as no   *)
(* change falls into a rebuild they are those the date and its rules ask    *)
(* for, however many rebuilds overlap); and of the three together.          *)
(***************************************************************************)
EXTENDS TaskLife, FiniteSetTheorems, TLAPS
-----------------------------------------------------------------------------
(* The series.                                                              *)

Excused == {"late", "begun"}
Answered == Live \cup {"done", "skipped"}
Ops == {"none", "pause", "edit", "cancel"}

JournalType ==
  /\ journal.op \in Ops /\ journal.series \in SeriesType
  /\ journal.dates \in [Slots -> DateType] /\ journal.touched \subseteq Slots
SpentType == spent \in [changes: Nat, edits: Nat, answers: Nat, undos: Nat, crashes: Nat]
Typed == TypeOK /\ JournalType /\ SpentType

(* A date in progress is marked as such, and one that is not there is not.  *)
Marked ==
  \A s \in Slots :
    /\ dates[s].status = "in_progress" => dates[s].mark \in Excused
    /\ dates[s].status = "none" => dates[s].mark = ""

(* What a refill has read is an active series, and is the series there is    *)
(* now unless the version says otherwise; it inserts dates of what it read. *)
Refilling ==
  \A w \in Refills : refill[w].pc # "idle" =>
    /\ refill[w].seen.status = "active" /\ refill[w].seen.version <= series.version
    /\ refill[w].seen.version = series.version => refill[w].seen = series
    /\ refill[w].pc = "insert" => \A s \in refill[w].missing : s[1] = refill[w].seen.revision

(* What the journal has of the last change is what was so before it, and what *)
(* the change left alone has only been answered since.                      *)
Journaled ==
  journal.op # "none" =>
    /\ journal.series.status \in {"active", "paused"}
    /\ series.version = journal.series.version + 1
    /\ journal.series.status = "paused" => series.status \in {"paused", "cancelled"}
    /\ \A s \in journal.touched : journal.dates[s].status \in Live
    /\ \A s \in Slots :
         /\ journal.dates[s].mark \in Excused => dates[s].mark \in Excused
         /\ journal.dates[s].status = "in_progress" => journal.dates[s].mark \in Excused
         /\ /\ journal.series.status = "paused" /\ journal.dates[s].status \in Live
            /\ StillFuture(s)
            => journal.dates[s].mark \in Excused
         /\ s \notin journal.touched /\ journal.dates[s].status \in Live
              => dates[s].status \in Answered

SeriesInv ==
  Typed /\ Marked /\ Refilling /\ Journaled /\ StoppedIsQuiet /\ DatesFollowTheRule
-----------------------------------------------------------------------------
(* What an update of a date leaves of the row.                              *)
Reminding == {"none", "due", "planned"}
Marks == {"", "late", "begun", "older"}

LEMMA RowSet ==
  ASSUME NEW row \in DateType, NEW st \in Statuses, NEW re \in Reasons
  PROVE  /\ SetStatus(row, st, re) \in DateType
         /\ SetStatus(row, st, re).status = st
         /\ SetStatus(row, st, re).mark = row.mark
         /\ SetStatus(row, st, re).version = row.version + 1
         /\ SetStatus(row, st, re).reminds = row.reminds
<1> DEFINE v == row.version + 1
<1>1. SetStatus(row, st, re) = [row EXCEPT !.status = st, !.reason = re, !.version = v]
  BY DEF SetStatus
<1>2. v \in Nat
  <2>1. row.version \in Nat
    BY DEF DateType
  <2> QED BY <2>1
<1>3. v = row.version + 1
  OBVIOUS
<1> HIDE DEF v
<1> DEFINE goes == [row EXCEPT !.status = st, !.reason = re, !.version = v]
<1>4. /\ goes \in DateType /\ goes.status = st /\ goes.mark = row.mark /\ goes.version = v
      /\ goes.reminds = row.reminds
  BY <1>2 DEF DateType
<1> QED BY <1>1, <1>3, <1>4

Reset(row, st, re, rm, ma) == [SetStatus(row, st, re) EXCEPT !.reminds = rm, !.mark = ma]
Closed(row, st, re) == [SetStatus(row, st, re) EXCEPT !.reminds = "none"]

LEMMA RowReset ==
  ASSUME NEW row \in DateType, NEW st \in Statuses, NEW re \in Reasons,
         NEW rm \in Reminding, NEW ma \in Marks
  PROVE  /\ Reset(row, st, re, rm, ma) \in DateType
         /\ Reset(row, st, re, rm, ma).status = st /\ Reset(row, st, re, rm, ma).mark = ma
<1> DEFINE set == SetStatus(row, st, re)
<1>1. set \in DateType /\ set.status = st /\ set.mark = row.mark
  BY RowSet
<1>2. Reset(row, st, re, rm, ma) = [set EXCEPT !.reminds = rm, !.mark = ma]
  BY DEF Reset
<1> HIDE DEF set
<1> QED BY <1>1, <1>2 DEF DateType, Reminding, Marks

LEMMA RowClosed ==
  ASSUME NEW row \in DateType, NEW st \in Statuses, NEW re \in Reasons
  PROVE  /\ Closed(row, st, re) \in DateType
         /\ Closed(row, st, re).status = st /\ Closed(row, st, re).mark = row.mark
<1> DEFINE set == SetStatus(row, st, re)
<1>1. set \in DateType /\ set.status = st /\ set.mark = row.mark
  BY RowSet
<1>2. Closed(row, st, re) = [set EXCEPT !.reminds = "none"]
  BY DEF Closed
<1> HIDE DEF set
<1> QED BY <1>1, <1>2 DEF DateType

LEMMA RowOverdue ==
  ASSUME NEW row \in DateType, NEW v \in Nat
  PROVE  /\ [row EXCEPT !.overdue = TRUE, !.version = v] \in DateType
         /\ [row EXCEPT !.overdue = TRUE, !.version = v].status = row.status
         /\ [row EXCEPT !.overdue = TRUE, !.version = v].mark = row.mark
BY DEF DateType

LEMMA RowsTyped ==
  ASSUME TypeOK
  PROVE  /\ dates \in [Slots -> DateType]
         /\ \A s \in Slots : /\ dates[s] \in DateType
                             /\ dates[s].status \in Statuses /\ dates[s].reason \in Reasons
                             /\ dates[s].version \in Nat /\ dates[s].overdue \in BOOLEAN
                             /\ dates[s].reminds \in {"none", "due", "planned"}
                             /\ dates[s].mark \in {"", "late", "begun", "older"}
<1>1. dates \in [Slots -> DateType]
  BY DEF TypeOK
<1> QED BY <1>1 DEF DateType

LEMMA ChangedRow ==
  ASSUME TypeOK, NEW s \in Slots, NEW op \in {"pause", "resume", "cancel", "edit"}
  PROVE  /\ Changed(op, s) \in DateType
         /\ Changed(op, s).status = IF op = "resume" THEN RestoredStatus ELSE "cancelled"
         /\ Changed(op, s).mark = IF op = "resume" /\ dates[s].mark = "" /\ s[1] # series.revision
                                   THEN "older" ELSE dates[s].mark
         /\ RestoredStatus \in {"open", "scheduled"}
<1> DEFINE row == dates[s]
           st == IF op = "resume" THEN RestoredStatus ELSE "cancelled"
           re == IF op = "resume" THEN "" ELSE ReasonOf(op)
           ma == IF op = "resume" /\ dates[s].mark = "" /\ s[1] # series.revision
                 THEN "older" ELSE dates[s].mark
<1>1. st \in Statuses /\ re \in Reasons /\ RestoredStatus \in {"open", "scheduled"}
  BY DEF Statuses, Live, Reasons, ReasonOf, RestoredStatus
<1>2. row \in DateType /\ ma \in Marks /\ "none" \in Reminding
  BY RowsTyped DEF Marks, Reminding
<1>3. Changed(op, s) = Reset(row, st, re, "none", ma)
  BY DEF Changed, Reset
<1> HIDE DEF row, st, re, ma
<1>4. /\ Changed(op, s) \in DateType /\ Changed(op, s).status = st /\ Changed(op, s).mark = ma
  BY <1>1, <1>2, <1>3, RowReset
<1> QED BY <1>1, <1>4 DEF st, ma

LEMMA NewRow ==
  ASSUME NEW s \in Slots, NEW seen, NEW now
  PROVE  /\ NewDate(s, seen, now) \in DateType
         /\ NewDate(s, seen, now).status \in {"scheduled", "open"}
         /\ NewDate(s, seen, now).mark \in {"", "late"}
         /\ NewDate(s, seen, now).mark = "" <=> seen.version = series.version
<1>1. ProjectedStatus(s, seen, now) \in {"scheduled", "open"}
  BY DEF ProjectedStatus
<1> DEFINE row == NoDate
           st == ProjectedStatus(s, seen, now)
           ma == IF seen.version = series.version THEN "" ELSE "late"
           goes == [row EXCEPT !.status = st, !.version = 1, !.reminds = "planned", !.mark = ma]
<1>2. NewDate(s, seen, now) = goes
  BY DEF NewDate
<1>3. row \in DateType
  BY DEF NoDate, DateType, Statuses, Live, Reasons
<1>4. ma \in {"", "late"} /\ st \in Statuses
  BY <1>1 DEF Statuses, Live
<1> HIDE DEF st, ma, row
<1>5. goes \in DateType /\ goes.status = st /\ goes.mark = ma
  BY <1>3, <1>4 DEF DateType
<1> QED BY <1>1, <1>2, <1>5 DEF st, ma
-----------------------------------------------------------------------------
(* What an answer, the lifecycle loop or a rebuild may do to a date.        *)
Settles(s) ==
  /\ dates'[s] \in DateType
  /\ dates'[s].status \in Live => IsLive(s)
  /\ IsLive(s) => dates'[s].status \in Answered
  /\ dates[s].status \in {"done", "skipped"} => dates'[s].status \in {"done", "skipped"}
  /\ dates[s].mark \in Excused => dates'[s].mark \in Excused
  /\ dates[s].mark = "late" => dates'[s].mark = "late"
  /\ dates[s].mark # "" => dates'[s].mark # ""
  /\ dates'[s].status = "in_progress" => dates'[s].mark \in Excused
  /\ dates'[s].status = "none" => dates'[s].mark = ""
Settled == dates' \in [Slots -> DateType] /\ \A s \in Slots : Settles(s)

LEMMA OneSettles ==
  ASSUME TypeOK, Marked, NEW s \in Slots, NEW row, dates' = [dates EXCEPT ![s] = row],
         row \in DateType, dates'[s] = row => Settles(s)
  PROVE  Settled
<1>1. dates'[s] = row /\ dates' \in [Slots -> DateType]
  BY RowsTyped
<1>2. ASSUME NEW t \in Slots, t # s PROVE Settles(t)
  <2>1. dates'[t] = dates[t]
    BY <1>2, RowsTyped
  <2> QED BY <2>1, RowsTyped DEF Settles, Marked, IsLive, Answered
<1> QED BY <1>1, <1>2 DEF Settled

LEMMA AnswerSettles ==
  ASSUME TypeOK, Marked, NEW s \in Slots, NEW status \in Statuses, Answer(s, status)
  PROVE  Settled
<1> DEFINE row == dates[s]
           re == IF status \in Live THEN row.reminds ELSE "none"
           ma == IF status = "in_progress" /\ row.mark # "late" THEN "begun" ELSE row.mark
           goes == [SetStatus(row, status, row.reason) EXCEPT !.reminds = re, !.mark = ma]
<1>1. /\ row \in DateType /\ row.reason \in Reasons /\ re \in Reminding /\ ma \in Marks
  BY RowsTyped DEF Reminding, Marks
<1>2. dates' = [dates EXCEPT ![s] = goes] /\ <<row.status, status>> \in Answers
  BY DEF Answer
<1>3. row.status \in Live /\ status \in Answered
  BY <1>2 DEF Answers, Live, Answered
<1> HIDE DEF re, ma
<1>4. goes \in DateType /\ goes.status = status /\ goes.mark = ma
  <2>1. goes = Reset(row, status, row.reason, re, ma)
    BY DEF Reset
  <2> HIDE DEF row, goes
  <2> QED BY <1>1, <2>1, RowReset
<1> HIDE DEF goes
<1>5. ASSUME dates'[s] = goes PROVE Settles(s)
  BY <1>1, <1>3, <1>4, <1>5 DEF Settles, IsLive, Answered, Live, Excused, ma, Marked
<1> QED BY <1>2, <1>4, <1>5, OneSettles

LEMMA MaintainSettles ==
  ASSUME TypeOK, Marked, NEW s \in Slots, Maintain(s)
  PROVE  Settled
<1>1. dates' = dates \/ dates' = [dates EXCEPT ![s] = Decided(s)]
  BY DEF Maintain
<1>2. CASE dates' = dates
  BY <1>2, RowsTyped DEF Settled, Settles, Marked, IsLive, Answered
<1>3. CASE dates' = [dates EXCEPT ![s] = Decided(s)]
  <2> DEFINE row == dates[s]
  <2>0. /\ row \in DateType /\ row.reason \in Reasons /\ row.status \in Statuses
        /\ row.version \in Nat
    BY RowsTyped
  <2>1. CASE Expired(s)
    <3>1. /\ Decided(s) \in DateType /\ Decided(s).status = "skipped" /\ Decided(s).mark = row.mark
      <4>1. Decided(s) = Closed(row, "skipped", "expired")
        BY <2>1 DEF Decided, Closed
      <4>2. "skipped" \in Statuses /\ "expired" \in Reasons
        BY DEF Statuses, Reasons
      <4> HIDE DEF row
      <4> QED BY <2>0, <4>1, <4>2, RowClosed
    <3>2. ASSUME dates'[s] = Decided(s) PROVE Settles(s)
      BY <2>0, <3>1, <3>2 DEF Settles, Answered, Live, Excused
    <3> QED BY <1>3, <3>1, <3>2, OneSettles
  <2>2. CASE ~Expired(s) /\ Opens(s)
    <3>1. /\ Decided(s) \in DateType /\ Decided(s).status = "open" /\ Decided(s).mark = row.mark
          /\ row.status = "scheduled"
      <4>1. Decided(s) = SetStatus(row, "open", row.reason)
        BY <2>2 DEF Decided
      <4>2. "open" \in Statuses /\ row.status = "scheduled"
        BY <2>2 DEF Statuses, Live, Opens
      <4> QED BY <2>0, <4>1, <4>2, RowSet
    <3>2. ASSUME dates'[s] = Decided(s) PROVE Settles(s)
      BY <2>0, <3>1, <3>2 DEF Settles, Answered, Live, Excused, IsLive
    <3> QED BY <1>3, <3>1, <3>2, OneSettles
  <2>3. CASE ~Expired(s) /\ ~Opens(s)
    <3> DEFINE v == row.version + 1
    <3>1. Decided(s) = [row EXCEPT !.overdue = TRUE, !.version = v] /\ v \in Nat
      BY <2>0, <2>3 DEF Decided
    <3> HIDE DEF row, v
    <3>2. /\ Decided(s) \in DateType /\ Decided(s).status = row.status /\ Decided(s).mark = row.mark
      BY <2>0, <3>1, RowOverdue
    <3>3. ASSUME dates'[s] = Decided(s) PROVE Settles(s)
      BY <2>0, <3>2, <3>3 DEF Settles, Answered, Live, Excused, IsLive, Marked, row
    <3> QED BY <1>3, <3>2, <3>3, OneSettles
  <2> QED BY <2>1, <2>2, <2>3
<1> QED BY <1>1, <1>2, <1>3

LEMMA RebuildSettles ==
  ASSUME TypeOK, Marked, NEW s \in Slots, Rebuild(s)
  PROVE  Settled
<1> DEFINE row == dates[s]
           re == IF series.status = "active" /\ IsLive(s) THEN "planned" ELSE "none"
           goes == [row EXCEPT !.reminds = re]
<1>1. dates' = [dates EXCEPT ![s] = goes]
  BY DEF Rebuild
<1>2. row \in DateType /\ re \in {"none", "due", "planned"}
  BY RowsTyped
<1> HIDE DEF re, row
<1>3. goes \in DateType /\ goes.status = row.status /\ goes.mark = row.mark
  BY <1>2 DEF DateType
<1> HIDE DEF goes
<1>4. ASSUME dates'[s] = goes PROVE Settles(s)
  BY <1>2, <1>3, <1>4 DEF Settles, IsLive, Answered, Marked, row
<1> QED BY <1>1, <1>3, <1>4, OneSettles

LEMMA SettledKeeps ==
  ASSUME TypeOK, Marked, Refilling, Journaled, StoppedIsQuiet, DatesFollowTheRule, Settled,
         UNCHANGED <<scenario, today, series, refill, journal>>
  PROVE  Marked' /\ Refilling' /\ Journaled' /\ StoppedIsQuiet' /\ DatesFollowTheRule'
<1> USE DEF Settled, Settles, IsLive
<1>1. \A s \in Slots : StillFuture(s)' = StillFuture(s)
  BY DEF StillFuture
<1>2. Marked'
  BY DEF Marked
<1>3. Refilling'
  BY DEF Refilling
<1>4. Journaled'
  BY <1>1 DEF Journaled, Answered
<1>5. StoppedIsQuiet'
  BY <1>1 DEF StoppedIsQuiet, Excused
<1>6. DatesFollowTheRule'
  BY <1>1 DEF DatesFollowTheRule
<1> QED BY <1>2, <1>3, <1>4, <1>5, <1>6
-----------------------------------------------------------------------------
LEMMA SlotsAreDays == \A s \in Slots : OnDay(s) \in Nat /\ s[1] \in Revisions
BY SeriesAssumption DEF Slots, Day, OnDay, Revisions

LEMMA SeriesTyped ==
  ASSUME Typed
  PROVE  /\ series \in SeriesType /\ series.status \in {"active", "paused", "cancelled"}
         /\ series.rule \in Rules /\ series.revision \in Revisions /\ series.version \in Nat
         /\ journal.op \in Ops /\ journal.series \in SeriesType
         /\ journal.series.status \in {"active", "paused", "cancelled"}
         /\ journal.series.rule \in Rules /\ journal.series.revision \in Revisions
         /\ journal.series.version \in Nat
         /\ today \in Day
BY DEF Typed, TypeOK, JournalType, SeriesType

LEMMA NoJournalTyped ==
  /\ NoJournal.op = "none" /\ NoJournal.series \in SeriesType
  /\ NoJournal.dates \in [Slots -> DateType] /\ NoJournal.touched \subseteq Slots
<1>1. 1 \in Revisions
  BY SeriesAssumption DEF Revisions
<1>2. NoDate \in DateType
  BY DEF NoDate, DateType, Statuses, Reasons, Live
<1> HIDE DEF NoDate
<1> QED BY SeriesAssumption, <1>1, <1>2 DEF NoJournal, SeriesType

LEMMA RestingTyped ==
  /\ Resting \in [pc: {"idle", "seen", "insert"}, seen: SeriesType,
                  now: Day, missing: SUBSET Slots]
  /\ Resting.pc = "idle"
<1>1. NoJournal.series \in SeriesType
  BY NoJournalTyped
<1> HIDE DEF NoJournal
<1>2. 0 \in Day
  BY SeriesAssumption DEF Day
<1> QED BY <1>1, <1>2 DEF Resting

LEMMA ProjectedAreSlots ==
  ASSUME NEW seen \in SeriesType, NEW now
  PROVE  /\ Projected(seen, now) \subseteq Slots
         /\ \A s \in Projected(seen, now) : s[1] = seen.revision
<1>1. DatesOf[seen.rule] \subseteq Day /\ seen.revision \in Revisions
  BY SeriesAssumption DEF SeriesType
<1> QED BY <1>1 DEF Projected, Slots

LEMMA InitKeeps == Init => SeriesInv
<1> SUFFICES ASSUME Init PROVE SeriesInv
  OBVIOUS
<1>1. series \in SeriesType /\ series.status = "active" /\ today = 0 /\ 0 \in Day
  BY SeriesAssumption DEF Init, SeriesType, Revisions, Day
<1> DEFINE new == Projected(series, 0)
<1>2. new \subseteq Slots /\ \A s \in new : s[1] = series.revision
  BY <1>1, ProjectedAreSlots
<1>3. dates = [s \in Slots |-> IF s \in new THEN NewDate(s, series, 0) ELSE NoDate]
  BY DEF Init
<1> HIDE DEF new
<1>4. NoDate \in DateType /\ NoDate.status = "none" /\ NoDate.mark = ""
  BY DEF NoDate, DateType, Statuses, Reasons, Live
<1>5. \A s \in Slots : /\ NewDate(s, series, 0) \in DateType
                       /\ NewDate(s, series, 0).status \in {"scheduled", "open"}
                       /\ NewDate(s, series, 0).mark = ""
  BY NewRow
<1> HIDE DEF NoDate
<1>6. dates \in [Slots -> DateType]
  BY <1>3, <1>4, <1>5
<1>7. \A s \in Slots : /\ dates[s].mark = ""
                       /\ dates[s].status \in {"none", "scheduled", "open"}
                       /\ dates[s].status # "none" => s[1] = series.revision
  BY <1>2, <1>3, <1>4, <1>5
<1>8. \A w \in Refills : refill[w].pc = "idle"
  BY RestingTyped DEF Init
<1>9. TypeOK
  BY SeriesAssumption, <1>1, <1>6, RestingTyped DEF Init, TypeOK
<1>10. Typed /\ journal.op = "none"
  BY <1>9, NoJournalTyped DEF Init, Typed, JournalType, SpentType, Ops
<1>11. Marked /\ StoppedIsQuiet /\ DatesFollowTheRule
  BY <1>1, <1>7 DEF Marked, StoppedIsQuiet, DatesFollowTheRule, IsLive, Live
<1>12. Refilling /\ Journaled
  BY <1>8, <1>10 DEF Refilling, Journaled
<1> QED BY <1>10, <1>11, <1>12 DEF SeriesInv
-----------------------------------------------------------------------------
LEMMA OneDateKeeps ==
  ASSUME SeriesInv, NEW s \in Slots,
         Rebuild(s) \/ (\E status \in Statuses : Answer(s, status)) \/ Maintain(s)
  PROVE  SeriesInv'
<1>0. Typed /\ TypeOK /\ Marked /\ Refilling /\ Journaled /\ StoppedIsQuiet /\ DatesFollowTheRule
  BY DEF SeriesInv, Typed
<1>1. Settled
  BY <1>0, RebuildSettles, AnswerSettles, MaintainSettles
<1>2. /\ UNCHANGED <<scenario, today, series, refill, journal, after>>
      /\ scan' = scan \/ scan' = {}
  BY DEF Rebuild, Answer, Maintain
<1>3. SpentType'
  <2>1. CASE spent' = spent
    BY <1>0, <2>1 DEF Typed, SpentType
  <2>2. CASE Spend("answers")
    BY <1>0, <2>2 DEF Typed, SpentType, Spend
  <2> QED BY <2>1, <2>2 DEF Rebuild, Answer, Maintain
<1>4. Typed'
  BY <1>0, <1>1, <1>2, <1>3 DEF Typed, TypeOK, JournalType, Settled
<1>5. Marked' /\ Refilling' /\ Journaled' /\ StoppedIsQuiet' /\ DatesFollowTheRule'
  BY <1>0, <1>1, <1>2, SettledKeeps
<1> QED BY <1>4, <1>5 DEF SeriesInv

(* Steps that leave the series, its dates and the journal alone.            *)
LEMMA LeftAloneKeeps ==
  ASSUME SeriesInv, UNCHANGED <<scenario, today, series, dates, journal>>, Typed', Refilling'
  PROVE  SeriesInv'
<1>0. Marked /\ Journaled /\ StoppedIsQuiet /\ DatesFollowTheRule
  BY DEF SeriesInv
<1>1. \A s \in Slots : StillFuture(s)' = StillFuture(s) /\ IsLive(s)' = IsLive(s)
  BY DEF StillFuture, IsLive
<1>2. Marked'
  BY <1>0 DEF Marked
<1>3. Journaled'
  BY <1>0, <1>1 DEF Journaled
<1>4. StoppedIsQuiet' /\ DatesFollowTheRule'
  BY <1>0, <1>1 DEF StoppedIsQuiet, DatesFollowTheRule
<1> QED BY <1>2, <1>3, <1>4 DEF SeriesInv

LEMMA BeginKeeps ==
  ASSUME SeriesInv, NEW w \in Refills, BeginRefill(w)
  PROVE  SeriesInv'
<1> DEFINE r == IF series.status = "active"
                THEN [pc |-> "seen", seen |-> series, now |-> today, missing |-> {}]
                ELSE Resting
           Now == [pc: {"idle", "seen", "insert"}, seen: SeriesType, now: Day,
                   missing: SUBSET Slots]
<1>0. Typed /\ Refilling /\ refill \in [Refills -> Now]
  BY DEF SeriesInv, Typed, TypeOK
<1>1. refill' = [refill EXCEPT ![w] = r]
  BY DEF BeginRefill
<1>2. r \in Now
  BY <1>0, RestingTyped, SeriesTyped
<1>3. r.pc # "idle" => r.pc = "seen" /\ r.seen = series /\ series.status = "active"
  BY RestingTyped
<1> HIDE DEF r, Now
<1>4. refill' \in [Refills -> Now] /\ \A v \in Refills : refill'[v] = IF v = w THEN r ELSE refill[v]
  BY <1>0, <1>1, <1>2
<1>5. UNCHANGED <<scenario, today, series, dates, scan, journal, spent>> /\ after' \in BOOLEAN
  BY DEF BeginRefill
<1>6. Typed'
  BY <1>0, <1>4, <1>5 DEF Typed, TypeOK, JournalType, SpentType, Now
<1>7. Refilling'
  BY <1>0, <1>3, <1>4, <1>5, SeriesTyped DEF Refilling
<1> QED BY <1>5, <1>6, <1>7, LeftAloneKeeps

LEMMA ReadKeeps ==
  ASSUME SeriesInv, NEW w \in Refills, ReadExisting(w)
  PROVE  SeriesInv'
<1> DEFINE q == refill[w]
           missing == Projected(q.seen, q.now) \ Existing(q.seen.revision)
           r == IF missing = {} THEN Resting ELSE [q EXCEPT !.pc = "insert", !.missing = missing]
           Now == [pc: {"idle", "seen", "insert"}, seen: SeriesType, now: Day,
                   missing: SUBSET Slots]
<1>0. Typed /\ Refilling /\ refill \in [Refills -> Now]
  BY DEF SeriesInv, Typed, TypeOK
<1>1. refill' = [refill EXCEPT ![w] = r] /\ q.pc = "seen"
  BY DEF ReadExisting
<1>2. missing \subseteq Slots /\ \A s \in missing : s[1] = q.seen.revision
  BY <1>0, ProjectedAreSlots
<1>3. q \in Now
  BY <1>0
<1> HIDE DEF q, missing
<1>4. /\ r \in Now
      /\ r.pc # "idle" => r.pc = "insert" /\ r.seen = q.seen /\ r.missing = missing
  BY <1>2, <1>3, RestingTyped
<1> HIDE DEF r, Now
<1>5. refill' \in [Refills -> Now] /\ \A v \in Refills : refill'[v] = IF v = w THEN r ELSE refill[v]
  BY <1>0, <1>1, <1>4
<1>6. UNCHANGED <<scenario, today, series, dates, scan, after, journal, spent>>
  BY DEF ReadExisting
<1>7. Typed'
  BY <1>0, <1>5, <1>6 DEF Typed, TypeOK, JournalType, SpentType, Now
<1>8. Refilling'
  BY <1>0, <1>1, <1>2, <1>4, <1>5, <1>6 DEF Refilling, q
<1> QED BY <1>6, <1>7, <1>8, LeftAloneKeeps

LEMMA ScanKeeps ==
  ASSUME SeriesInv, NEW s \in Slots, ScanDate(s)
  PROVE  SeriesInv'
<1>0. Typed /\ Refilling
  BY DEF SeriesInv
<1>1. dates[s].version \in Nat
  BY <1>0, RowsTyped DEF Typed
<1>2. /\ UNCHANGED <<scenario, today, series, dates, refill, after, journal, spent>>
      /\ scan' \subseteq Slots \X Nat
  BY <1>1 DEF ScanDate
<1>3. Typed' /\ Refilling'
  BY <1>0, <1>2 DEF Typed, TypeOK, JournalType, SpentType, Refilling
<1> QED BY <1>2, <1>3, LeftAloneKeeps

LEMMA CrashKeeps ==
  ASSUME SeriesInv, Crash
  PROVE  SeriesInv'
<1>0. Typed
  BY DEF SeriesInv
<1>1. UNCHANGED <<scenario, today, series, dates, journal>>
  BY DEF Crash
<1>2. Refilling'
  BY RestingTyped DEF Crash, Refilling
<1>3. SpentType'
  BY <1>0 DEF Crash, Spend, Typed, SpentType
<1>4. Typed'
  BY <1>0, <1>1, <1>3, RestingTyped DEF Crash, Typed, TypeOK, JournalType
<1> QED BY <1>1, <1>2, <1>4, LeftAloneKeeps

LEMMA StutterKeeps ==
  ASSUME SeriesInv, UNCHANGED vars
  PROVE  SeriesInv'
<1>1. Typed' /\ Refilling'
  BY DEF SeriesInv, Typed, TypeOK, JournalType, SpentType, Refilling, vars
<1> QED BY <1>1, LeftAloneKeeps DEF vars
-----------------------------------------------------------------------------
(* A day ends: fewer dates are ahead, and the journal may have gone.        *)
LEMMA NewDayKeeps ==
  ASSUME SeriesInv, NewDay
  PROVE  SeriesInv'
<1>0. Typed /\ Marked /\ Refilling /\ Journaled /\ StoppedIsQuiet /\ DatesFollowTheRule
  BY DEF SeriesInv
<1>1. UNCHANGED <<scenario, series, dates, refill, scan, after, spent>>
  BY DEF NewDay
<1>2. today' \in Day /\ today \in Nat /\ today' = today + 1
  BY SeriesAssumption, <1>0, SeriesTyped DEF NewDay, Day
<1>3. \A s \in Slots : /\ StillFuture(s)' => StillFuture(s)
                       /\ IsLive(s)' = IsLive(s)
  <2> SUFFICES ASSUME NEW s \in Slots
               PROVE  (StillFuture(s)' => StillFuture(s)) /\ IsLive(s)' = IsLive(s)
    OBVIOUS
  <2>1. OnDay(s) \in Nat /\ OnDay(s)' = OnDay(s)
    BY SlotsAreDays DEF OnDay
  <2> QED BY <1>1, <1>2, <2>1 DEF StillFuture, IsLive
<1>4. journal' = NoJournal \/ journal' = journal
  BY DEF NewDay
<1>5. Typed'
  BY <1>0, <1>1, <1>2, <1>4, NoJournalTyped DEF Typed, TypeOK, JournalType, SpentType, Ops
<1>6. Marked' /\ Refilling'
  BY <1>0, <1>1 DEF Marked, Refilling
<1>7. Journaled'
  <2>1. CASE journal' = NoJournal
    BY <2>1, NoJournalTyped DEF Journaled
  <2>2. CASE journal' = journal
    BY <1>0, <1>1, <1>3, <2>2 DEF Journaled
  <2> QED BY <1>4, <2>1, <2>2
<1>8. StoppedIsQuiet' /\ DatesFollowTheRule'
  BY <1>0, <1>1, <1>3 DEF StoppedIsQuiet, DatesFollowTheRule
<1> QED BY <1>5, <1>6, <1>7, <1>8 DEF SeriesInv

(* A refill inserts: a date of an older reading of the series is marked so, *)
(* and one of the series as it is belongs to an active series and its rule. *)
LEMMA InsertKeeps ==
  ASSUME SeriesInv, NEW w \in Refills, Insert(w)
  PROVE  SeriesInv'
<1>0. Typed /\ TypeOK /\ Marked /\ Refilling /\ Journaled /\ StoppedIsQuiet /\ DatesFollowTheRule
  BY DEF SeriesInv, Typed
<1> DEFINE r == refill[w]
           clash == \E s \in r.missing : dates[s].status # "none"
           new == IF clash THEN {} ELSE r.missing
           Now == [pc: {"idle", "seen", "insert"}, seen: SeriesType, now: Day,
                   missing: SUBSET Slots]
<1>1. /\ refill' = [refill EXCEPT ![w] = Resting] /\ r.pc = "insert"
      /\ UNCHANGED <<scenario, today, series, scan, after, journal, spent>>
  BY DEF Insert
<1>2. refill \in [Refills -> Now] /\ dates \in [Slots -> DateType]
  BY <1>0 DEF TypeOK
<1>3. new \subseteq Slots /\ \A s \in new : dates[s].status = "none"
  BY <1>2
<1>4. dates' = [s \in Slots |-> IF s \in new THEN NewDate(s, r.seen, r.now) ELSE dates[s]]
  <2>1. CASE clash
    BY <1>2, <2>1 DEF Insert
  <2>2. CASE ~clash
    BY <2>2 DEF Insert
  <2> QED BY <2>1, <2>2
<1>5. \A s \in new : s[1] = r.seen.revision
  BY <1>0, <1>1 DEF Refilling
<1>6. r.seen.version = series.version => r.seen = series /\ series.status = "active"
  BY <1>0, <1>1 DEF Refilling
<1> HIDE DEF new, clash, r, Now
<1>7. dates' \in [Slots -> DateType]
  BY <1>2, <1>4, NewRow
<1>8. \A s \in Slots \ new : dates'[s] = dates[s]
  BY <1>4
<1>9. \A s \in new : /\ dates'[s].status \in {"scheduled", "open"}
                     /\ dates'[s].mark \in {"", "late"} /\ dates[s].mark = ""
                     /\ dates'[s].mark # "late" =>
                          s[1] = series.revision /\ series.status = "active"
  <2> SUFFICES ASSUME NEW s \in new
               PROVE  /\ dates'[s].status \in {"scheduled", "open"}
                      /\ dates'[s].mark \in {"", "late"} /\ dates[s].mark = ""
                      /\ dates'[s].mark # "late" =>
                           s[1] = series.revision /\ series.status = "active"
    OBVIOUS
  <2>1. s \in Slots /\ dates'[s] = NewDate(s, r.seen, r.now) /\ dates[s].mark = ""
    BY <1>0, <1>3, <1>4 DEF Marked
  <2>2. /\ NewDate(s, r.seen, r.now).status \in {"scheduled", "open"}
        /\ NewDate(s, r.seen, r.now).mark \in {"", "late"}
        /\ NewDate(s, r.seen, r.now).mark = "" <=> r.seen.version = series.version
    BY <2>1, NewRow
  <2> QED BY <1>5, <1>6, <2>1, <2>2
<1>10. \A s \in Slots : StillFuture(s)' = StillFuture(s)
  BY <1>1 DEF StillFuture
<1>11. Typed'
  <2>1. refill' \in [Refills -> Now]
    BY <1>1, <1>2, RestingTyped DEF Now
  <2> QED BY <1>0, <1>1, <1>7, <2>1 DEF Typed, TypeOK, JournalType, SpentType, Now
<1>12. Marked'
  BY <1>0, <1>8, <1>9 DEF Marked
<1>13. Refilling'
  BY <1>0, <1>1, <1>2, RestingTyped DEF Refilling
<1>14. Journaled'
  BY <1>0, <1>1, <1>8, <1>9, <1>10 DEF Journaled, Answered, Live, Excused
<1>15. StoppedIsQuiet' /\ DatesFollowTheRule'
  <2> SUFFICES ASSUME NEW s \in Slots, IsLive(s)'
               PROVE  /\ (series.status = "paused" /\ StillFuture(s)
                               => dates[s].mark \in {"late", "begun"})'
                      /\ (series.status = "cancelled" => dates[s].mark = "late")'
                      /\ (StillFuture(s) => s[1] = series.revision \/ dates[s].mark # "")'
    BY DEF StoppedIsQuiet, DatesFollowTheRule
  <2>1. CASE s \in new
    BY <1>1, <1>9, <2>1
  <2>2. CASE s \notin new
    BY <1>0, <1>1, <1>8, <1>10, <2>2 DEF StoppedIsQuiet, DatesFollowTheRule, IsLive
  <2> QED BY <2>1, <2>2
<1> QED BY <1>11, <1>12, <1>13, <1>14, <1>15 DEF SeriesInv
-----------------------------------------------------------------------------
(* The user changes the series: what is live and ahead is taken, but a date *)
(* in progress; a resume marks what it brings back of an older rule.        *)
LEMMA ChangeKeeps ==
  ASSUME SeriesInv, NEW op \in {"pause", "resume", "cancel", "edit"},
         NEW rule \in Rules, ChangeSeries(op, rule)
  PROVE  SeriesInv'
<1>0. Typed /\ TypeOK /\ Marked /\ Refilling /\ Journaled /\ StoppedIsQuiet /\ DatesFollowTheRule
  BY DEF SeriesInv, Typed
<1> DEFINE touched == {s \in Slots : Taken(op, s) \/ Revived(op, s)}
           changed == [s \in Slots |-> IF s \in touched THEN Changed(op, s) ELSE dates[s]]
<1>1. /\ dates' = changed
      /\ journal' = IF op = "resume" THEN NoJournal
             ELSE [op |-> op, series |-> series, dates |-> dates, touched |-> touched,
                   post |-> [s \in Slots |-> changed[s].version], until |-> today + 1]
  BY DEF ChangeSeries
<1>2. /\ series' = [series EXCEPT !.status = StatusAfter(op), !.rule = rule,
                         !.version = @ + 1, !.revision = IF op = "edit" THEN @ + 1 ELSE @]
      /\ UNCHANGED <<scenario, today, refill, scan>> /\ after' = (after \/ Reconciles(op))
      /\ Allowed(op) /\ SpendChange(op)
  BY DEF ChangeSeries
<1>3. /\ op = "pause" => series.status = "active" /\ StatusAfter(op) = "paused"
      /\ op = "resume" => series.status = "paused" /\ StatusAfter(op) = "active"
      /\ op = "cancel" => series.status \in {"active", "paused"} /\ StatusAfter(op) = "cancelled"
      /\ op = "edit" => series.status \in {"active", "paused"} /\ StatusAfter(op) = series.status
  BY <1>2 DEF Allowed, StatusAfter
<1>4. /\ series' \in SeriesType /\ series'.status = StatusAfter(op)
      /\ series'.version = series.version + 1
      /\ op # "edit" => series'.revision = series.revision
  <2> DEFINE status == StatusAfter(op)
             v == series.version + 1
             revision == IF op = "edit" THEN series.revision + 1 ELSE series.revision
  <2>1. series' = [series EXCEPT !.status = status, !.rule = rule, !.version = v,
                                 !.revision = revision]
    BY <1>2
  <2>2. status \in {"active", "paused", "cancelled"} /\ v \in Nat
    BY <1>0, <1>3, SeriesTyped
  <2>3. revision \in Revisions
    BY SeriesAssumption, <1>0, <1>2, SeriesTyped DEF SpendChange, Revisions
  <2>4. series \in SeriesType
    BY <1>0, SeriesTyped
  <2> HIDE DEF status, v, revision
  <2>5. series' \in SeriesType /\ series'.status = status /\ series'.version = v
        /\ series'.revision = revision
    BY <2>1, <2>2, <2>3, <2>4 DEF SeriesType
  <2> QED BY <2>5 DEF status, v, revision
<1>5. /\ touched \subseteq Slots
      /\ \A s \in touched : op = "resume" \/ (IsLive(s) /\ op \in {"pause", "edit", "cancel"})
  BY DEF Taken, Revived
<1>6. \A s \in Slots : IsLive(s) /\ s \notin touched =>
        /\ op \in {"pause", "edit"} /\ StillFuture(s) => dates[s].status = "in_progress"
        /\ op # "cancel"
  BY DEF Taken
<1>7. dates \in [Slots -> DateType]
  BY <1>0 DEF TypeOK
<1> HIDE DEF touched
<1>8. /\ dates' \in [Slots -> DateType]
      /\ \A s \in Slots \ touched : dates'[s] = dates[s]
      /\ \A s \in touched : dates'[s] = Changed(op, s)
  BY <1>0, <1>1, <1>5, <1>7, ChangedRow
<1> HIDE DEF changed
<1>9. \A s \in touched :
        /\ dates'[s].status \in {"cancelled", "open", "scheduled"}
        /\ op # "resume" => dates'[s].status = "cancelled" /\ dates'[s].mark = dates[s].mark
        /\ op = "resume" /\ s[1] # series.revision => dates'[s].mark # ""
        /\ dates'[s].mark # dates[s].mark => dates[s].mark = ""
  <2> SUFFICES ASSUME NEW s \in touched
        PROVE /\ dates'[s].status \in {"cancelled", "open", "scheduled"}
              /\ op # "resume" => dates'[s].status = "cancelled" /\ dates'[s].mark = dates[s].mark
              /\ op = "resume" /\ s[1] # series.revision => dates'[s].mark # ""
              /\ dates'[s].mark # dates[s].mark => dates[s].mark = ""
    OBVIOUS
  <2>1. s \in Slots /\ dates'[s] = Changed(op, s)
    BY <1>5, <1>8
  <2>2. /\ Changed(op, s).status = IF op = "resume" THEN RestoredStatus ELSE "cancelled"
        /\ Changed(op, s).mark = IF op = "resume" /\ dates[s].mark = "" /\ s[1] # series.revision
                                 THEN "older" ELSE dates[s].mark
        /\ RestoredStatus \in {"open", "scheduled"}
    BY <1>0, <2>1, ChangedRow
  <2> QED BY <2>1, <2>2
<1>10. \A s \in Slots : StillFuture(s)' = StillFuture(s)
  BY <1>2 DEF StillFuture
<1>11. SpentType'
  <2>1. /\ spent \in [changes: Nat, edits: Nat, answers: Nat, undos: Nat, crashes: Nat]
        /\ spent.changes + 1 \in Nat /\ spent.edits + 1 \in Nat
    BY <1>0 DEF Typed, SpentType
  <2> DEFINE c == spent.changes + 1
             e == IF op = "edit" THEN spent.edits + 1 ELSE spent.edits
  <2>2. spent' = [spent EXCEPT !.changes = c, !.edits = e]
    BY <1>2 DEF SpendChange
  <2>3. c \in Nat /\ e \in Nat
    BY <2>1
  <2> HIDE DEF c, e
  <2> QED BY <2>1, <2>2, <2>3 DEF SpentType
<1>12. JournalType'
  <2>1. CASE op = "resume"
    BY <1>1, <2>1, NoJournalTyped DEF JournalType, Ops
  <2>2. CASE op # "resume"
    <3>1. /\ journal'.op = op /\ journal'.series = series /\ journal'.dates = dates
          /\ journal'.touched = touched
      BY <1>1, <2>2
    <3> QED BY <1>0, <1>5, <1>7, <2>2, <3>1, SeriesTyped DEF JournalType, Ops
  <2> QED BY <2>1, <2>2
<1>13. Typed'
  BY <1>0, <1>2, <1>4, <1>8, <1>11, <1>12 DEF Typed, TypeOK
<1>14. Marked'
  BY <1>0, <1>8, <1>9 DEF Marked
<1>15. Refilling'
  <2>1. \A w \in Refills : refill[w].pc # "idle" => refill[w].seen.version \in Nat
    BY <1>0 DEF TypeOK, SeriesType
  <2> QED BY <1>0, <1>2, <1>4, <2>1, SeriesTyped DEF Refilling
<1>16. Journaled'
  <2>1. CASE op = "resume"
    BY <1>1, <2>1, NoJournalTyped DEF Journaled
  <2>2. CASE op # "resume"
    <3>1. /\ journal'.op = op /\ journal'.series = series /\ journal'.dates = dates
          /\ journal'.touched = touched
      BY <1>1, <2>2
    <3>2. /\ series.status \in {"active", "paused"}
          /\ series.status = "paused" => series'.status \in {"paused", "cancelled"}
      BY <1>3, <1>4, <2>2
    <3>3. \A s \in touched : dates[s].status \in Live
      BY <1>5, <2>2 DEF IsLive
    <3>4. \A s \in Slots : dates'[s].mark = dates[s].mark
      BY <1>8, <1>9, <2>2
    <3>5. \A s \in Slots : /\ dates[s].status = "in_progress" => dates[s].mark \in Excused
                           /\ series.status = "paused" /\ dates[s].status \in Live /\ StillFuture(s)
                                => dates[s].mark \in Excused
      BY <1>0 DEF Marked, StoppedIsQuiet, IsLive, Excused
    <3>6. \A s \in Slots \ touched : dates[s].status \in Live => dates'[s].status \in Answered
      BY <1>8 DEF Answered
    <3> QED BY <1>4, <1>10, <3>1, <3>2, <3>3, <3>4, <3>5, <3>6 DEF Journaled
  <2> QED BY <2>1, <2>2
<1>17. StoppedIsQuiet'
  <2> SUFFICES ASSUME NEW s \in Slots, IsLive(s)'
               PROVE  /\ (series.status = "paused" /\ StillFuture(s)
                               => dates[s].mark \in {"late", "begun"})'
                      /\ (series.status = "cancelled" => dates[s].mark = "late")'
    BY DEF StoppedIsQuiet
  <2>1. CASE s \in touched
    <3>1. op = "resume"
      BY <1>9, <2>1 DEF IsLive, Live
    <3> QED BY <1>3, <1>4, <3>1
  <2>2. CASE s \notin touched
    <3>1. dates'[s] = dates[s] /\ IsLive(s)
      BY <1>8, <2>2 DEF IsLive
    <3> QED BY <1>0, <1>3, <1>4, <1>6, <1>10, <2>2, <3>1 DEF Marked, Excused
  <2> QED BY <2>1, <2>2
<1>18. DatesFollowTheRule'
  <2> SUFFICES ASSUME NEW s \in Slots, IsLive(s)', StillFuture(s)'
               PROVE  s[1] = series'.revision \/ dates'[s].mark # ""
    BY DEF DatesFollowTheRule
  <2>1. CASE s \in touched
    <3>1. op = "resume"
      BY <1>9, <2>1 DEF IsLive, Live
    <3> QED BY <1>4, <1>9, <2>1, <3>1
  <2>2. CASE s \notin touched
    <3>1. dates'[s] = dates[s] /\ IsLive(s) /\ StillFuture(s)
      BY <1>8, <1>10, <2>2 DEF IsLive
    <3>2. CASE op = "edit"
      BY <1>0, <1>6, <2>2, <3>1, <3>2 DEF Marked, Excused
    <3>3. CASE op # "edit"
      BY <1>0, <1>4, <3>1, <3>3 DEF DatesFollowTheRule
    <3> QED BY <3>2, <3>3
  <2> QED BY <2>1, <2>2
<1> QED BY <1>13, <1>14, <1>15, <1>16, <1>17, <1>18 DEF SeriesInv
-----------------------------------------------------------------------------
(* The user undoes the change: what the journal has comes back as it was,   *)
(* what it left alone has only been answered, and the rest is taken away.   *)
LEMMA UndoneRows ==
  ASSUME SeriesInv, UndoChange
  PROVE  /\ dates' \in [Slots -> DateType]
         /\ \A s \in Slots :
              /\ dates'[s].mark = dates[s].mark
              /\ dates'[s].status \in Live => s[1] = journal.series.revision
              /\ s[1] = journal.series.revision \/ dates'[s].status \in Live =>
                   dates'[s].status = IF s \in journal.touched THEN journal.dates[s].status
                                      ELSE dates[s].status
              /\ dates'[s].status = "none" => dates[s].status = "none"
<1>0. Typed /\ Journaled /\ dates \in [Slots -> DateType] /\ journal.dates \in [Slots -> DateType]
  BY DEF SeriesInv, Typed, TypeOK, JournalType
<1>1. journal.op # "none" /\ dates' = Withdrawn(PutBack, Newer(PutBack))
  BY DEF UndoChange
<1> SUFFICES ASSUME NEW s \in Slots
             PROVE  /\ dates'[s] \in DateType
                    /\ dates'[s].mark = dates[s].mark
                    /\ dates'[s].status \in Live => s[1] = journal.series.revision
                    /\ s[1] = journal.series.revision \/ dates'[s].status \in Live =>
                         dates'[s].status = IF s \in journal.touched THEN journal.dates[s].status
                                            ELSE dates[s].status
                    /\ dates'[s].status = "none" => dates[s].status = "none"
  <2>1. dates' = [s \in Slots |-> dates'[s]]
    BY <1>1 DEF Withdrawn
  <2> QED BY <2>1
<1> DEFINE pb == PutBack[s]
<1>2. /\ pb \in DateType /\ pb.mark = dates[s].mark
      /\ pb.status = IF s \in journal.touched THEN journal.dates[s].status ELSE dates[s].status
  <2>1. CASE s \notin journal.touched
    <3>1. pb = dates[s]
      BY <2>1 DEF PutBack
    <3> QED BY <1>0, <2>1, <3>1
  <2>2. CASE s \in journal.touched
    <3> DEFINE row == journal.dates[s]
               v == dates[s].version + 1
               ma == dates[s].mark
    <3>1. pb = [row EXCEPT !.version = v, !.reminds = "due", !.mark = ma]
      BY <2>2 DEF PutBack
    <3>2. row \in DateType /\ ma \in {"", "late", "begun", "older"} /\ v \in Nat
      <4>1. ma \in {"", "late", "begun", "older"}
        BY <1>0 DEF DateType
      <4>2. row \in DateType
        BY <1>0
      <4>3. v \in Nat
        <5>1. dates[s].version \in Nat
          BY <1>0 DEF DateType
        <5> QED BY <5>1
      <4> QED BY <4>1, <4>2, <4>3
    <3> HIDE DEF pb, row, v, ma
    <3>3. pb \in DateType /\ pb.mark = ma /\ pb.status = row.status
      BY <3>1, <3>2 DEF DateType
    <3> QED BY <2>2, <3>3 DEF ma, row
  <2> QED BY <2>1, <2>2
<1>3. pb.status = "none" => dates[s].status = "none"
  BY <1>0, <1>1, <1>2 DEF Journaled, Live
<1>4. s \in Newer(PutBack) <=> s[1] # journal.series.revision /\ pb.status \in Live
  BY DEF Newer
<1>5. dates'[s] = IF s \in Newer(PutBack) THEN Closed(pb, "cancelled", "undone") ELSE pb
  BY <1>1 DEF Withdrawn, Closed
<1> HIDE DEF pb
<1>6. /\ Closed(pb, "cancelled", "undone") \in DateType
      /\ Closed(pb, "cancelled", "undone").status = "cancelled"
      /\ Closed(pb, "cancelled", "undone").mark = pb.mark
  <2>1. "cancelled" \in Statuses /\ "undone" \in Reasons
    BY DEF Statuses, Reasons
  <2> QED BY <1>2, <2>1, RowClosed
<1>7. CASE s \in Newer(PutBack)
  <2>1. dates'[s] = Closed(pb, "cancelled", "undone")
    BY <1>5, <1>7
  <2> QED BY <1>2, <1>4, <1>6, <1>7, <2>1 DEF Live
<1>8. CASE s \notin Newer(PutBack)
  <2>1. dates'[s] = pb
    BY <1>5, <1>8
  <2> QED BY <1>2, <1>3, <1>4, <1>8, <2>1
<1> QED BY <1>7, <1>8

LEMMA UndoKeeps ==
  ASSUME SeriesInv, UndoChange
  PROVE  SeriesInv' /\ ExactUndo
<1>0. Typed /\ TypeOK /\ Marked /\ Refilling /\ Journaled /\ StoppedIsQuiet /\ DatesFollowTheRule
  BY DEF SeriesInv, Typed
<1>1. /\ journal.op # "none" /\ journal' = NoJournal /\ after' = TRUE
      /\ UNCHANGED <<scenario, today, refill, scan>> /\ Spend("undos")
      /\ series.version = journal.series.version + 1
  BY DEF UndoChange, Unchanged
<1>2. /\ series' \in SeriesType /\ series'.status = journal.series.status
      /\ series'.revision = journal.series.revision /\ series'.version = series.version + 1
  <2> DEFINE row == journal.series
             v == series.version + 1
  <2>1. series' = [row EXCEPT !.version = v] /\ row \in SeriesType /\ v \in Nat
    BY <1>0, SeriesTyped DEF UndoChange
  <2> HIDE DEF row, v
  <2>2. /\ series' \in SeriesType /\ series'.status = row.status /\ series'.version = v
        /\ series'.revision = row.revision
    BY <2>1 DEF SeriesType
  <2> QED BY <2>2 DEF row, v
<1>3. \A s \in Slots : StillFuture(s)' = StillFuture(s)
  BY <1>1 DEF StillFuture
<1>4. SpentType'
  <2>1. spent \in [changes: Nat, edits: Nat, answers: Nat, undos: Nat, crashes: Nat]
    BY <1>0 DEF Typed, SpentType
  <2> QED BY <1>1, <2>1 DEF SpentType, Spend
<1>5. Typed'
  BY <1>0, <1>1, <1>2, <1>4, UndoneRows, NoJournalTyped DEF Typed, TypeOK, JournalType, Ops
<1>6. Marked'
  <2> SUFFICES ASSUME NEW s \in Slots
               PROVE  /\ dates'[s].status = "in_progress" => dates'[s].mark \in Excused
                      /\ dates'[s].status = "none" => dates'[s].mark = ""
    BY DEF Marked
  <2>1. dates'[s].status = "none" => dates'[s].mark = ""
    BY <1>0, UndoneRows DEF Marked
  <2>2. ASSUME dates'[s].status = "in_progress" PROVE dates'[s].mark \in Excused
    <3>1. /\ dates'[s].mark = dates[s].mark
          /\ dates'[s].status = IF s \in journal.touched THEN journal.dates[s].status
                                ELSE dates[s].status
      BY <2>2, UndoneRows DEF Live
    <3>2. CASE s \in journal.touched
      BY <1>0, <1>1, <2>2, <3>1, <3>2 DEF Journaled
    <3>3. CASE s \notin journal.touched
      BY <1>0, <2>2, <3>1, <3>3 DEF Marked
    <3> QED BY <3>2, <3>3
  <2> QED BY <2>1, <2>2
<1>7. Refilling'
  <2>1. \A w \in Refills : refill[w].pc # "idle" => refill[w].seen.version \in Nat
    BY <1>0 DEF TypeOK, SeriesType
  <2> QED BY <1>0, <1>1, <1>2, <2>1, SeriesTyped DEF Refilling
<1>8. Journaled'
  BY <1>1, NoJournalTyped DEF Journaled
<1>9. StoppedIsQuiet'
  <2> SUFFICES ASSUME NEW s \in Slots, IsLive(s)'
               PROVE  /\ (series.status = "paused" /\ StillFuture(s)
                               => dates[s].mark \in {"late", "begun"})'
                      /\ (series.status = "cancelled" => dates[s].mark = "late")'
    BY DEF StoppedIsQuiet
  <2>1. /\ dates'[s].status \in Live /\ dates'[s].mark = dates[s].mark
        /\ dates'[s].status = IF s \in journal.touched THEN journal.dates[s].status
                              ELSE dates[s].status
    BY UndoneRows DEF IsLive
  <2>2. series'.status # "cancelled"
    BY <1>0, <1>1, <1>2 DEF Journaled
  <2>3. ASSUME series'.status = "paused", StillFuture(s) PROVE dates[s].mark \in Excused
    <3>1. /\ journal.series.status = "paused" /\ series.status \in {"paused", "cancelled"}
      BY <1>0, <1>1, <1>2, <2>3 DEF Journaled
    <3>2. CASE s \in journal.touched
      BY <1>0, <1>1, <2>1, <2>3, <3>1, <3>2 DEF Journaled
    <3>3. CASE s \notin journal.touched
      BY <1>0, <2>1, <2>3, <3>1, <3>3 DEF StoppedIsQuiet, IsLive, Excused
    <3> QED BY <3>2, <3>3
  <2> QED BY <1>3, <2>1, <2>2, <2>3 DEF Excused
<1>10. DatesFollowTheRule'
  BY <1>2, UndoneRows DEF DatesFollowTheRule, IsLive
<1>11. ExactUndo
  <2> SUFFICES ASSUME NEW s \in Slots
               PROVE  /\ s[1] = journal.series.revision => Kept(s)
                      /\ dates'[s].status \in Live => s[1] = journal.series.revision
    BY DEF ExactUndo
  <2>1. ASSUME s[1] = journal.series.revision, journal.dates[s].status \in Live
        PROVE  dates'[s].status \in Answered
    <3>1. dates'[s].status = IF s \in journal.touched THEN journal.dates[s].status
                             ELSE dates[s].status
      BY <2>1, UndoneRows
    <3> QED BY <1>0, <1>1, <2>1, <3>1 DEF Journaled, Answered
  <2> QED BY <2>1, UndoneRows DEF Kept, Answered
<1> QED BY <1>5, <1>6, <1>7, <1>8, <1>9, <1>10, <1>11 DEF SeriesInv
-----------------------------------------------------------------------------
(* No other step spends an undo.                                            *)
LEMMA NoOtherUndo ==
  ASSUME SpentType, Next \/ UNCHANGED vars, ~UndoChange
  PROVE  spent'.undos = spent.undos
<1>1. spent \in [changes: Nat, edits: Nat, answers: Nat, undos: Nat, crashes: Nat]
  BY DEF SpentType
<1>2. CASE spent' = spent
  BY <1>2
<1>3. CASE Spend("answers") \/ Spend("crashes")
  BY <1>1, <1>3 DEF Spend
<1>4. ASSUME NEW op \in {"pause", "resume", "cancel", "edit"}, SpendChange(op)
      PROVE  spent'.undos = spent.undos
  BY <1>1, <1>4 DEF SpendChange
<1>5. ASSUME NEW w \in Refills, BeginRefill(w) \/ ReadExisting(w) \/ Insert(w)
      PROVE  spent' = spent
  BY <1>5 DEF BeginRefill, ReadExisting, Insert
<1>6. ASSUME NEW s \in Slots, NEW status \in Statuses,
             Rebuild(s) \/ Answer(s, status) \/ ScanDate(s) \/ Maintain(s)
      PROVE  spent' = spent \/ Spend("answers")
  BY <1>6 DEF Rebuild, Answer, ScanDate, Maintain
<1>7. NewDay \/ UNCHANGED vars => spent' = spent
  BY DEF NewDay, vars
<1>8. \A op \in {"pause", "resume", "cancel", "edit"}, rule \in Rules :
         ChangeSeries(op, rule) => SpendChange(op)
  BY DEF ChangeSeries
<1>9. Crash => Spend("crashes")
  BY DEF Crash
<1>10. "none" \in Statuses
  BY DEF Statuses
<1> QED BY <1>2, <1>3, <1>4, <1>5, <1>6, <1>7, <1>8, <1>9, <1>10 DEF Next

LEMMA StepKeeps ==
  ASSUME SeriesInv, [Next]_vars
  PROVE  SeriesInv' /\ [ExactUndo]_vars
<1>1. ASSUME NEW w \in Refills, BeginRefill(w) \/ ReadExisting(w) \/ Insert(w)
      PROVE  SeriesInv'
  BY <1>1, BeginKeeps, ReadKeeps, InsertKeeps
<1>2. ASSUME NEW op \in {"pause", "resume", "cancel", "edit"}, NEW rule \in Rules,
             ChangeSeries(op, rule)
      PROVE  SeriesInv'
  BY <1>2, ChangeKeeps
<1>3. ASSUME NEW s \in Slots,
             Rebuild(s) \/ (\E status \in Statuses : Answer(s, status)) \/ Maintain(s)
      PROVE  SeriesInv'
  BY <1>3, OneDateKeeps
<1>4. ASSUME NEW s \in Slots, ScanDate(s) PROVE SeriesInv'
  BY <1>4, ScanKeeps
<1>5. NewDay \/ Crash \/ UNCHANGED vars => SeriesInv'
  BY NewDayKeeps, CrashKeeps, StutterKeeps
<1>6. UndoChange => SeriesInv' /\ ExactUndo
  BY UndoKeeps
<1>7. SeriesInv'
  BY <1>1, <1>2, <1>3, <1>4, <1>5, <1>6 DEF Next
<1>8. ~UndoChange => ExactUndo
  BY NoOtherUndo DEF SeriesInv, Typed, ExactUndo
<1> QED BY <1>6, <1>7, <1>8

THEOREM SeriesInvariant == Spec => []SeriesInv
<1>1. Init => SeriesInv
  BY InitKeeps
<1>2. SeriesInv /\ [Next]_vars => SeriesInv'
  BY StepKeeps
<1> QED BY <1>1, <1>2, PTL DEF Spec

(* Every variable keeps its type: tasks, task_occurrences and the refill's   *)
(* memory are what the services read them as.                               *)
THEOREM TypeCorrect == Spec => []TypeOK
<1>1. SeriesInv => TypeOK
  BY DEF SeriesInv, Typed
<1> QED BY <1>1, SeriesInvariant, PTL

(* changeSeriesInTx leaves no live date ahead of a paused series and none of *)
(* a cancelled one, whatever refills were under way and whatever has been   *)
(* undone since, but what was in progress and what a refill put in late.    *)
THEOREM StoppedSeriesIsQuiet == Spec => []StoppedIsQuiet
<1>1. SeriesInv => StoppedIsQuiet
  BY DEF SeriesInv
<1> QED BY <1>1, SeriesInvariant, PTL

(* An edit and its undo leave no date ahead of another rule than the one     *)
(* the series has.                                                          *)
THEOREM DatesKeepToTheRule == Spec => []DatesFollowTheRule
<1>1. SeriesInv => DatesFollowTheRule
  BY DEF SeriesInv
<1> QED BY <1>1, SeriesInvariant, PTL

(* The undo of a change of the series gives back every date the rule it      *)
(* restores had then, and leaves no live date of another.                   *)
THEOREM ExactUndos == Spec => UndoIsExact
<1> SUFFICES Spec => [][ExactUndo]_vars
  BY DEF UndoIsExact
<1>1. SeriesInv /\ [Next]_vars => [ExactUndo]_vars
  BY StepKeeps
<1> QED BY <1>1, SeriesInvariant, PTL DEF Spec
-----------------------------------------------------------------------------
(* The task without a date.                                                 *)

PendingReviews == {i \in U!Ids : reviews[i].delivery = "pending"}
(* The task has no use for a review: it has a date, or is cancelled.        *)
Unreviewed == task.dated \/ task.status = "cancelled"
Suited == U!Covered \/ Unreviewed => PendingReviews = {}

ReadType ==
  [pc: {"idle", "rules", "replace", "own"}, task: U!TaskType, existing: SUBSET U!Ids,
   covered: BOOLEAN, unplanned: SUBSET Own]
UndatedTyped ==
  /\ U!TypeOK /\ worker \in [UndatedWorkers -> ReadType]
  /\ did \in [kind: {"none", "add", "replace", "clear", "date", "cancel", "close"},
                  task: U!TaskType, post: Nat, retired: SUBSET U!Ids, before: SUBSET Own,
                  inserted: SUBSET Own]

(* One review is active, and none for a task that has no use for it.        *)
OneReview ==
  /\ \A i, j \in U!Reviewing : i = j
  /\ Unreviewed => U!Reviewing = {}

(* What an undo would bring back is the one review that a date or a          *)
(* cancellation took away, and it brings it to a task that has none.        *)
RetiredOnce ==
  /\ \A i, j \in did.retired : i = j
  /\ did.retired # {} => did.kind \in {"date", "cancel"} /\ ~did.task.dated
  /\ did.kind \in {"date", "cancel"} => Unreviewed
  /\ did.task.status = "active"
  /\ did.task.dated => did.kind = "cancel"
  /\ did.kind = "close" => did.before = {} /\ did.inserted = {}

(* One rebuild is under way, and what it has read is still so.              *)
ReadStill ==
  /\ \A v, w \in U!UnderWay : v = w
  /\ \A w \in U!UnderWay :
       /\ worker[w].task = task
       /\ worker[w].pc \in {"rules", "replace"} => worker[w].existing = U!Reviewing
       /\ worker[w].pc = "replace" => worker[w].covered = U!Covered
       /\ worker[w].pc = "own" => Suited

Rebuilt == due = 0 /\ U!UnderWay = {} => Suited

UndatedInv ==
  /\ UndatedTyped /\ PendingReviews \subseteq U!Reviewing
  /\ ~raced => OneReview /\ RetiredOnce /\ ReadStill /\ Rebuilt
-----------------------------------------------------------------------------
LEMMA ReviewFields ==
  ASSUME NEW r \in U!Rule
  PROVE  r.active \in BOOLEAN /\ r.delivery \in U!Delivery
BY DEF U!Rule

LEMMA RestingIsRead ==
  U!Resting \in ReadType /\ U!Resting.pc = "idle" /\ U!Resting.task \in U!TaskType
BY DEF U!Resting, ReadType, U!TaskType

LEMMA NoJournalHolds ==
  /\ U!NoJournal \in [kind: {"none", "add", "replace", "clear", "date", "cancel", "close"},
                    task: U!TaskType, post: Nat, retired: SUBSET U!Ids, before: SUBSET Own,
                    inserted: SUBSET Own]
  /\ U!NoJournal.kind = "none" /\ U!NoJournal.retired = {}
  /\ U!NoJournal.task.status = "active" /\ ~U!NoJournal.task.dated
BY RestingIsRead DEF U!NoJournal, U!Resting

LEMMA UndatedInitKeeps ==
  ASSUME U!Init
  PROVE  UndatedInv
<1> USE DEF U!Init
<1>1. U!NoRule \in U!Rule /\ U!Live \in U!Rule /\ ~U!NoRule.active /\ U!NoRule.delivery # "pending"
  BY DEF U!NoRule, U!Live, U!Rule, U!Delivery
<1>2. worker \in [UndatedWorkers -> ReadType] /\ U!UnderWay = {} /\ task \in U!TaskType
  BY RestingIsRead DEF U!UnderWay
<1>3. U!TypeOK
  BY <1>1, <1>2, LifeAssumption DEF U!TypeOK
<1>4. UndatedTyped
  BY <1>2, <1>3, NoJournalHolds DEF UndatedTyped
<1>5. \A i \in U!Ids : i # 1 => ~reviews[i].active /\ reviews[i].delivery # "pending"
  BY <1>1
<1>6. PendingReviews \subseteq U!Reviewing /\ \A i, j \in U!Reviewing : i = j
  BY <1>1, <1>5 DEF PendingReviews, U!Reviewing, U!Live
<1>7. ~Unreviewed /\ U!Asked = {}
  BY <1>1 DEF Unreviewed, U!Resting, U!Asked
<1> QED
  BY <1>2, <1>4, <1>6, <1>7, NoJournalHolds
     DEF UndatedInv, OneReview, RetiredOnce, ReadStill, Rebuilt, Suited, U!Covered
-----------------------------------------------------------------------------
(* The rebuild.                                                             *)
LEMMA ReadTaskKeeps ==
  ASSUME UndatedInv, NEW w \in UndatedWorkers, U!ReadTask(w)
  PROVE  UndatedInv'
<1> DEFINE seen == [U!Resting EXCEPT !.pc = "rules", !.task = task, !.existing = U!Reviewing]
<1>1. /\ worker' = [worker EXCEPT ![w] = seen] /\ raced' = (raced \/ U!UnderWay # {})
      /\ UNCHANGED <<story, task, reviews, own, past, did, used>>
      /\ due' \in Nat
  BY DEF U!ReadTask, UndatedInv, UndatedTyped, U!TypeOK
<1>2. seen \in ReadType /\ seen.pc = "rules" /\ seen.task = task /\ seen.existing = U!Reviewing
  <2>1. task \in U!TaskType /\ U!Reviewing \in SUBSET U!Ids
    BY DEF UndatedInv, UndatedTyped, U!TypeOK, U!Reviewing
  <2> QED BY <2>1, RestingIsRead DEF ReadType
<1> HIDE DEF seen
<1>3. worker \in [UndatedWorkers -> ReadType]
  BY DEF UndatedInv, UndatedTyped
<1>4. UndatedTyped'
  BY <1>1, <1>2, <1>3 DEF UndatedInv, UndatedTyped, U!TypeOK, U!UnderWay
<1>5. PendingReviews' = PendingReviews /\ U!Reviewing' = U!Reviewing
  BY <1>1 DEF PendingReviews, U!Reviewing
<1>6. ASSUME ~raced' PROVE (OneReview /\ RetiredOnce /\ ReadStill /\ Rebuilt)'
  <2>1. U!UnderWay = {} /\ OneReview /\ RetiredOnce
    BY <1>1, <1>6 DEF UndatedInv
  <2>2. U!UnderWay' = {w} /\ worker'[w] = seen
    BY <1>1, <1>2, <1>3, <2>1 DEF U!UnderWay
  <2> QED BY <1>1, <1>2, <1>5, <2>1, <2>2
             DEF OneReview, RetiredOnce, ReadStill, Rebuilt, Unreviewed
<1> QED BY <1>4, <1>5, <1>6 DEF UndatedInv

LEMMA ReadRulesKeeps ==
  ASSUME UndatedInv, NEW w \in UndatedWorkers, U!ReadRules(w)
  PROVE  UndatedInv'
<1> DEFINE plan == IF worker[w].task.status = "active"
                   THEN {r \in U!Asked : own[r].delivery = "none"} ELSE {}
           seen == [worker[w] EXCEPT !.pc = "replace", !.covered = U!Covered, !.unplanned = plan]
<1>1. /\ worker' = [worker EXCEPT ![w] = seen] /\ worker[w].pc = "rules"
      /\ UNCHANGED <<story, task, reviews, own, past, due, did, raced, used>>
  BY DEF U!ReadRules, UndatedInv, UndatedTyped, ReadType
<1>2. worker \in [UndatedWorkers -> ReadType] /\ worker[w] \in ReadType
  BY DEF UndatedInv, UndatedTyped
<1>3. plan \in SUBSET Own /\ U!Covered \in BOOLEAN
  BY DEF U!Asked, U!Covered
<1> HIDE DEF plan
<1>4. /\ seen \in ReadType /\ seen.pc = "replace" /\ seen.covered = U!Covered
      /\ seen.task = worker[w].task /\ seen.existing = worker[w].existing
  BY <1>2, <1>3 DEF ReadType
<1> HIDE DEF seen
<1>5. UndatedTyped'
  BY <1>1, <1>2, <1>4 DEF UndatedInv, UndatedTyped, U!TypeOK
<1>6. /\ PendingReviews' = PendingReviews /\ U!Reviewing' = U!Reviewing /\ U!Covered' = U!Covered
      /\ Unreviewed' = Unreviewed /\ U!UnderWay' = U!UnderWay /\ w \in U!UnderWay
  BY <1>1, <1>2, <1>4 DEF PendingReviews, U!Reviewing, U!Covered, U!Asked, Unreviewed, U!UnderWay
<1>7. ASSUME ~raced' PROVE (OneReview /\ RetiredOnce /\ ReadStill /\ Rebuilt)'
  <2>1. OneReview /\ RetiredOnce /\ ReadStill /\ Rebuilt
    BY <1>1, <1>7 DEF UndatedInv
  <2>2. U!UnderWay = {w} /\ worker'[w] = seen
    BY <1>1, <1>2, <1>6, <2>1 DEF ReadStill
  <2>3. ReadStill'
    BY <1>1, <1>4, <1>6, <2>1, <2>2 DEF ReadStill
  <2> QED BY <1>1, <1>6, <2>1, <2>2, <2>3 DEF OneReview, RetiredOnce, Rebuilt
<1> QED BY <1>5, <1>6, <1>7 DEF UndatedInv

LEMMA ReplaceReviewKeeps ==
  ASSUME UndatedInv, NEW w \in UndatedWorkers, U!ReplaceReview(w)
  PROVE  UndatedInv'
<1> DEFINE seen == worker[w]
           next == U!Next1
<1>1. /\ worker' = [worker EXCEPT ![w].pc = "own"] /\ seen.pc = "replace"
      /\ reviews' = [i \in U!Ids |-> IF i \in seen.existing THEN U!Withdraw(i)
                                   ELSE IF U!Wanted(seen) /\ i = next THEN U!Live ELSE reviews[i]]
      /\ UNCHANGED <<story, task, own, past, due, did, raced, used>>
  BY DEF U!ReplaceReview
<1> HIDE DEF next
<1>2. worker \in [UndatedWorkers -> ReadType] /\ seen \in ReadType
  BY DEF UndatedInv, UndatedTyped
<1>3. \A i \in U!Ids :
        /\ reviews[i] \in U!Rule
        /\ U!Withdraw(i) \in U!Rule /\ ~U!Withdraw(i).active /\ U!Withdraw(i).delivery # "pending"
  BY DEF UndatedInv, UndatedTyped, U!TypeOK, U!Rule, U!Delivery, U!Withdraw
<1>4. U!Live \in U!Rule
  BY DEF U!Live, U!Rule, U!Delivery
<1>5. reviews' \in [U!Ids -> U!Rule]
  BY <1>1, <1>3, <1>4
<1>6. /\ worker' \in [UndatedWorkers -> ReadType] /\ worker'[w].pc = "own"
      /\ worker'[w].task = seen.task /\ \A v \in UndatedWorkers \ {w} : worker'[v] = worker[v]
  BY <1>1, <1>2 DEF ReadType
<1>7. UndatedTyped'
  BY <1>1, <1>5, <1>6 DEF UndatedInv, UndatedTyped, U!TypeOK
<1>8. /\ U!UnderWay' = U!UnderWay /\ w \in U!UnderWay /\ U!Covered' = U!Covered
      /\ Unreviewed' = Unreviewed
  BY <1>1, <1>2, <1>6 DEF U!UnderWay, U!Covered, U!Asked, Unreviewed
<1>9. PendingReviews' \subseteq U!Reviewing'
  <2> SUFFICES ASSUME NEW i \in U!Ids, reviews'[i].delivery = "pending" PROVE reviews'[i].active
    BY DEF PendingReviews, U!Reviewing
  <2>1. reviews[i].delivery = "pending" => reviews[i].active
    BY DEF UndatedInv, PendingReviews, U!Reviewing
  <2> QED BY <1>1, <1>3, <2>1 DEF U!Live
<1>10. ASSUME ~raced' PROVE (OneReview /\ RetiredOnce /\ ReadStill /\ Rebuilt)'
  <2>1. OneReview /\ RetiredOnce /\ ReadStill
    BY <1>1, <1>10 DEF UndatedInv
  <2>2. /\ U!UnderWay = {w} /\ seen.task = task /\ seen.existing = U!Reviewing
        /\ seen.covered = U!Covered
    BY <1>1, <1>8, <2>1 DEF ReadStill
  <2>3. \A i \in U!Reviewing' : U!Wanted(seen) /\ i = next
    BY <1>1, <1>3, <2>2 DEF U!Reviewing
  <2>4. U!Wanted(seen) => ~U!Covered /\ ~Unreviewed
    BY <2>2 DEF U!Wanted, Unreviewed
  <2>5. Suited'
    BY <1>8, <1>9, <2>3, <2>4 DEF Suited
  <2>6. OneReview'
    BY <1>8, <2>3, <2>4 DEF OneReview
  <2>7. ReadStill'
    BY <1>1, <1>6, <1>8, <2>2, <2>5 DEF ReadStill
  <2> QED BY <1>1, <1>8, <2>1, <2>2, <2>5, <2>6, <2>7 DEF RetiredOnce, Rebuilt
<1> QED BY <1>7, <1>9, <1>10 DEF UndatedInv

LEMMA PlanOwnKeeps ==
  ASSUME UndatedInv, NEW w \in UndatedWorkers, U!PlanOwn(w)
  PROVE  UndatedInv'
<1>1. /\ worker' = [worker EXCEPT ![w] = U!Resting] /\ worker[w].pc = "own"
      /\ own' = [r \in Own |->
           IF r \in worker[w].unplanned /\ own[r].delivery = "none"
           THEN [own[r] EXCEPT !.delivery = "pending"] ELSE own[r]]
      /\ UNCHANGED <<story, task, reviews, past, due, did, raced, used>>
  BY DEF U!PlanOwn
<1>2. worker \in [UndatedWorkers -> ReadType] /\ own \in [Own -> U!Rule]
  BY DEF UndatedInv, UndatedTyped, U!TypeOK
<1>3. own' \in [Own -> U!Rule] /\ \A r \in Own : own'[r].active = own[r].active
  BY <1>1, <1>2 DEF U!Rule, U!Delivery
<1>4. /\ worker' \in [UndatedWorkers -> ReadType] /\ worker'[w] = U!Resting
      /\ \A v \in UndatedWorkers \ {w} : worker'[v] = worker[v]
  BY <1>1, <1>2, RestingIsRead
<1>5. UndatedTyped'
  BY <1>1, <1>3, <1>4 DEF UndatedInv, UndatedTyped, U!TypeOK
<1>6. U!Covered' = U!Covered
  BY <1>3 DEF U!Covered, U!Asked
<1>7. /\ U!UnderWay' = U!UnderWay \ {w} /\ w \in U!UnderWay
      /\ PendingReviews' = PendingReviews /\ U!Reviewing' = U!Reviewing
      /\ Unreviewed' = Unreviewed
  BY <1>1, <1>4, RestingIsRead DEF U!UnderWay, PendingReviews, U!Reviewing, Unreviewed
<1>8. ASSUME ~raced' PROVE (OneReview /\ RetiredOnce /\ ReadStill /\ Rebuilt)'
  <2>1. OneReview /\ RetiredOnce /\ ReadStill
    BY <1>1, <1>8 DEF UndatedInv
  <2>2. U!UnderWay' = {} /\ Suited
    BY <1>1, <1>7, <2>1 DEF ReadStill
  <2> QED BY <1>1, <1>6, <1>7, <2>1, <2>2
             DEF OneReview, RetiredOnce, ReadStill, Rebuilt, Suited
<1> QED BY <1>5, <1>7, <1>8 DEF UndatedInv
-----------------------------------------------------------------------------
(* The changes.  What a commit leaves besides the tables it writes.         *)
LEMMA CommitSays ==
  ASSUME UndatedInv, NEW kind \in {"add", "replace", "clear", "date", "cancel", "close"},
         NEW changed \in U!TaskType, NEW retired \in SUBSET U!Ids, NEW before \in SUBSET Own,
         NEW inserted \in SUBSET Own, U!Commit(kind, changed, retired, before, inserted)
  PROVE  /\ task.status = "active" /\ raced' = (raced \/ U!UnderWay # {})
         /\ task' \in U!TaskType /\ task'.status = changed.status /\ task'.dated = changed.dated
         /\ did' \in [kind: {"none", "add", "replace", "clear", "date", "cancel", "close"},
                          task: U!TaskType, post: Nat, retired: SUBSET U!Ids,
                          before: SUBSET Own, inserted: SUBSET Own]
         /\ did'.kind = kind /\ did'.task = task /\ did'.retired = retired
         /\ did'.before = before /\ did'.inserted = inserted
<1>1. /\ task.status = "active" /\ raced' = (raced \/ U!UnderWay # {})
      /\ task' = [changed EXCEPT !.version = task.version + 1]
      /\ did' = [kind |-> kind, task |-> task, post |-> task.version + 1,
                     retired |-> retired, before |-> before, inserted |-> inserted]
  BY DEF U!Commit
<1>2. task \in U!TaskType /\ task.version \in Nat
  BY DEF UndatedInv, UndatedTyped, U!TypeOK, U!TaskType
<1>3. task' \in U!TaskType /\ task'.status = changed.status /\ task'.dated = changed.dated
  BY <1>1, <1>2 DEF U!TaskType
<1> QED BY <1>1, <1>2, <1>3

(* A task that loses its use for a review loses the review.                 *)
LEMMA RetireKeeps ==
  ASSUME UndatedInv, NEW kind \in {"date", "cancel"}, NEW changed \in U!TaskType,
         U!Commit(kind, changed, U!Reviewing, {}, {}), U!Retire,
         changed.dated \/ changed.status = "cancelled", kind = "date" => ~task.dated,
         UNCHANGED <<story, own, past, worker, due>>
  PROVE  UndatedInv'
<1>1. U!Reviewing \in SUBSET U!Ids
  BY DEF U!Reviewing
<1>2. /\ task.status = "active" /\ raced' = (raced \/ U!UnderWay # {})
      /\ task' \in U!TaskType /\ task'.status = changed.status /\ task'.dated = changed.dated
      /\ did' \in [kind: {"none", "add", "replace", "clear", "date", "cancel", "close"},
                       task: U!TaskType, post: Nat, retired: SUBSET U!Ids,
                       before: SUBSET Own, inserted: SUBSET Own]
      /\ did'.kind = kind /\ did'.task = task /\ did'.retired = U!Reviewing
  BY <1>1, CommitSays
<1>3. \A i \in U!Ids :
        reviews[i] \in U!Rule /\ (reviews[i].delivery = "pending" => reviews[i].active)
  BY DEF UndatedInv, UndatedTyped, U!TypeOK, PendingReviews, U!Reviewing
<1>4. /\ reviews' \in [U!Ids -> U!Rule]
      /\ \A i \in U!Ids : ~reviews'[i].active /\ reviews'[i].delivery # "pending"
  BY <1>3 DEF U!Retire, U!Rule, U!Delivery
<1>5. UndatedTyped'
  BY <1>2, <1>4 DEF UndatedInv, UndatedTyped, U!TypeOK
<1>6. PendingReviews' = {} /\ U!Reviewing' = {} /\ U!UnderWay' = U!UnderWay /\ Unreviewed'
  BY <1>2, <1>4 DEF PendingReviews, U!Reviewing, U!UnderWay, Unreviewed
<1>7. ASSUME ~raced' PROVE (OneReview /\ RetiredOnce /\ ReadStill /\ Rebuilt)'
  <2>1. U!UnderWay = {} /\ OneReview
    BY <1>2, <1>7 DEF UndatedInv
  <2>2. task.dated => U!Reviewing = {}
    BY <2>1 DEF OneReview, Unreviewed
  <2>3. RetiredOnce'
    BY <1>2, <1>6, <2>1, <2>2 DEF OneReview, RetiredOnce
  <2> QED BY <1>6, <2>1, <2>3 DEF OneReview, ReadStill, Rebuilt, Suited
<1> QED BY <1>5, <1>6, <1>7 DEF UndatedInv

LEMMA DatesAndCancellationsKeep ==
  ASSUME UndatedInv, U!GiveDate \/ U!CancelTask
  PROVE  UndatedInv'
<1>1. task \in U!TaskType
  BY DEF UndatedInv, UndatedTyped, U!TypeOK
<1>2. CASE U!GiveDate
  <2> DEFINE changed == [task EXCEPT !.dated = TRUE]
  <2>1. changed \in U!TaskType /\ changed.dated
    BY <1>1 DEF U!TaskType
  <2> HIDE DEF changed
  <2>2. /\ U!Commit("date", changed, U!Reviewing, {}, {}) /\ U!Retire /\ ~task.dated
        /\ UNCHANGED <<story, own, past, worker, due>>
    BY <1>2 DEF U!GiveDate, changed
  <2> QED BY <2>1, <2>2, RetireKeeps
<1>3. CASE U!CancelTask
  <2> DEFINE changed == [task EXCEPT !.status = "cancelled"]
  <2>1. changed \in U!TaskType /\ changed.status = "cancelled"
    BY <1>1 DEF U!TaskType
  <2> HIDE DEF changed
  <2>2. /\ U!Commit("cancel", changed, U!Reviewing, {}, {}) /\ U!Retire
        /\ UNCHANGED <<story, own, past, worker, due>>
    BY <1>3 DEF U!CancelTask, changed
  <2> QED BY <2>1, <2>2, RetireKeeps
<1> QED BY <1>2, <1>3

LEMMA CompleteTaskKeeps ==
  ASSUME UndatedInv, U!CompleteTask
  PROVE  UndatedInv'
<1> DEFINE changed == [task EXCEPT !.status = "closed"]
<1>1. changed \in U!TaskType /\ changed.status = "closed" /\ changed.dated = task.dated
  BY DEF UndatedInv, UndatedTyped, U!TypeOK, U!TaskType
<1> HIDE DEF changed
<1>2. /\ ~task.dated /\ U!Commit("close", changed, {}, {}, {})
      /\ UNCHANGED <<story, reviews, own, past, worker, due>>
  BY DEF U!CompleteTask, changed
<1>3. /\ task.status = "active" /\ raced' = (raced \/ U!UnderWay # {})
      /\ task' \in U!TaskType /\ task'.status = "closed" /\ ~task'.dated
      /\ did' \in [kind: {"none", "add", "replace", "clear", "date", "cancel", "close"},
                       task: U!TaskType, post: Nat, retired: SUBSET U!Ids,
                       before: SUBSET Own, inserted: SUBSET Own]
      /\ did'.kind = "close" /\ did'.task = task /\ did'.retired = {}
      /\ did'.before = {} /\ did'.inserted = {}
  BY <1>1, <1>2, CommitSays
<1>4. UndatedTyped'
  BY <1>2, <1>3 DEF UndatedInv, UndatedTyped, U!TypeOK
<1>5. /\ PendingReviews' = PendingReviews /\ U!Reviewing' = U!Reviewing /\ U!UnderWay' = U!UnderWay
      /\ U!Covered' = U!Covered /\ ~Unreviewed' /\ ~Unreviewed
  BY <1>2, <1>3 DEF PendingReviews, U!Reviewing, U!UnderWay, U!Covered, U!Asked, Unreviewed
<1>6. ASSUME ~raced' PROVE (OneReview /\ RetiredOnce /\ ReadStill /\ Rebuilt)'
  <2>1. U!UnderWay = {} /\ OneReview /\ Rebuilt
    BY <1>3, <1>6 DEF UndatedInv
  <2> QED BY <1>2, <1>3, <1>5, <2>1 DEF OneReview, RetiredOnce, ReadStill, Rebuilt, Suited
<1> QED BY <1>4, <1>5, <1>6 DEF UndatedInv

(* A change of the user's reminders leaves a rebuild to be begun.           *)
LEMMA ChangeReminderKeeps ==
  ASSUME UndatedInv, NEW mode \in {"add", "replace", "clear"}, NEW rule \in Own,
         U!ChangeReminder(mode, rule)
  PROVE  UndatedInv'
<1> DEFINE before == IF mode = "add" THEN {} ELSE U!Asked
           inserted == IF mode = "clear" THEN {} ELSE {rule}
<1>1. before \in SUBSET Own /\ inserted \in SUBSET Own /\ {} \in SUBSET U!Ids
  BY DEF U!Asked
<1>2. /\ ~task.dated /\ U!Commit(mode, task, {}, before, inserted) /\ due' = due + 1
      /\ own' = [r \in Own |->
           IF r \in inserted THEN [active |-> TRUE, delivery |-> "none"]
           ELSE IF r \in before
                THEN [active |-> FALSE, delivery |->
                        IF own[r].delivery = "pending" THEN "cancelled" ELSE own[r].delivery]
                ELSE own[r]]
      /\ UNCHANGED <<story, reviews, past, worker>>
  BY DEF U!ChangeReminder
<1> HIDE DEF before, inserted
<1>3. /\ task \in U!TaskType /\ own \in [Own -> U!Rule] /\ due \in Nat
  BY DEF UndatedInv, UndatedTyped, U!TypeOK
<1>4. own' \in [Own -> U!Rule] /\ due' \in Nat /\ due' # 0
  BY <1>2, <1>3 DEF U!Rule, U!Delivery
<1>5. /\ task.status = "active" /\ raced' = (raced \/ U!UnderWay # {})
      /\ task' \in U!TaskType /\ task'.status = task.status /\ task'.dated = task.dated
      /\ did' \in [kind: {"none", "add", "replace", "clear", "date", "cancel", "close"},
                       task: U!TaskType, post: Nat, retired: SUBSET U!Ids,
                       before: SUBSET Own, inserted: SUBSET Own]
      /\ did'.kind = mode /\ did'.task = task /\ did'.retired = {}
  BY <1>1, <1>2, <1>3, CommitSays
<1>6. UndatedTyped'
  BY <1>2, <1>4, <1>5 DEF UndatedInv, UndatedTyped, U!TypeOK
<1>7. /\ PendingReviews' = PendingReviews /\ U!Reviewing' = U!Reviewing /\ U!UnderWay' = U!UnderWay
      /\ Unreviewed' = Unreviewed /\ ~Unreviewed
  BY <1>2, <1>5 DEF PendingReviews, U!Reviewing, U!UnderWay, Unreviewed
<1>8. ASSUME ~raced' PROVE (OneReview /\ RetiredOnce /\ ReadStill /\ Rebuilt)'
  <2>1. U!UnderWay = {} /\ OneReview
    BY <1>5, <1>8 DEF UndatedInv
  <2> QED BY <1>2, <1>4, <1>5, <1>7, <2>1 DEF OneReview, RetiredOnce, ReadStill, Rebuilt
<1> QED BY <1>6, <1>7, <1>8 DEF UndatedInv

(* An undo brings a review back to a task that has none, and asks for a      *)
(* rebuild, except after a completion, which took none away.             *)
LEMMA UndatedUndoKeeps ==
  ASSUME UndatedInv, U!UndoChange
  PROVE  UndatedInv'
<1>1. /\ raced' = (raced \/ U!UnderWay # {}) /\ did' = U!NoJournal
      /\ task' = [did.task EXCEPT !.version = task.version + 1]
      /\ reviews' = [i \in U!Ids |->
           IF i \notin did.retired THEN reviews[i]
           ELSE [active |-> TRUE, delivery |->
                   IF reviews[i].delivery = "suppressed" /\ ~past THEN "pending"
                   ELSE reviews[i].delivery]]
      /\ own' = [r \in Own |->
           IF r \in did.inserted THEN U!NoRule
           ELSE IF r \in did.before THEN [own[r] EXCEPT !.active = TRUE] ELSE own[r]]
      /\ due' = IF did.kind = "close" THEN due ELSE due + 1
      /\ UNCHANGED <<story, past, worker>>
  BY DEF U!UndoChange
<1>2. /\ task \in U!TaskType /\ task.version \in Nat /\ did.task \in U!TaskType
      /\ reviews \in [U!Ids -> U!Rule] /\ own \in [Own -> U!Rule] /\ due \in Nat
  BY <1>1 DEF UndatedInv, UndatedTyped, U!TypeOK, U!TaskType
<1>3. /\ task' \in U!TaskType /\ task'.status = did.task.status
      /\ task'.dated = did.task.dated
  BY <1>1, <1>2 DEF U!TaskType
<1>4. reviews' \in [U!Ids -> U!Rule] /\ own' \in [Own -> U!Rule] /\ due' \in Nat
  <2>1. \A i \in U!Ids : reviews'[i] \in U!Rule
    <3> SUFFICES ASSUME NEW i \in U!Ids PROVE reviews'[i] \in U!Rule
      OBVIOUS
    <3>1. reviews[i] \in U!Rule
      BY <1>2
    <3> QED BY <1>1, <3>1 DEF U!Rule, U!Delivery
  <2>2. \A r \in Own : own'[r] \in U!Rule
    <3> SUFFICES ASSUME NEW r \in Own PROVE own'[r] \in U!Rule
      OBVIOUS
    <3>1. own[r] \in U!Rule
      BY <1>2
    <3> QED BY <1>1, <3>1 DEF U!Rule, U!Delivery, U!NoRule
  <2> QED BY <1>1, <1>2, <2>1, <2>2
<1>5. UndatedTyped'
  <2>1. raced' \in BOOLEAN
    BY <1>1 DEF UndatedInv, UndatedTyped, U!TypeOK
  <2> QED BY <1>1, <1>3, <1>4, <2>1, NoJournalHolds DEF UndatedInv, UndatedTyped, U!TypeOK
<1>6. /\ PendingReviews' \subseteq U!Reviewing'
      /\ U!Reviewing' = U!Reviewing \cup (did.retired \cap U!Ids)
  BY <1>1 DEF UndatedInv, PendingReviews, U!Reviewing
<1>7. did.retired \subseteq U!Ids /\ U!UnderWay' = U!UnderWay
  BY <1>1 DEF UndatedInv, UndatedTyped, U!UnderWay
<1>8. ASSUME ~raced' PROVE (OneReview /\ RetiredOnce /\ ReadStill /\ Rebuilt)'
  <2>1. U!UnderWay = {} /\ OneReview /\ RetiredOnce /\ Rebuilt
    BY <1>1, <1>8 DEF UndatedInv
  <2>2. RetiredOnce'
    BY <1>1, NoJournalHolds DEF RetiredOnce
  <2>3. Unreviewed' <=> did.task.dated
    BY <1>3, <2>1 DEF RetiredOnce, Unreviewed
  <2>4. did.retired # {} => U!Reviewing = {} /\ ~did.task.dated
    BY <2>1 DEF RetiredOnce, OneReview
  <2>5. did.task.dated => U!Reviewing = {}
    BY <2>1 DEF RetiredOnce, OneReview
  <2>6. OneReview'
    BY <1>6, <1>7, <2>1, <2>3, <2>4, <2>5 DEF OneReview, RetiredOnce
  <2>7. Rebuilt'
    <3>1. CASE did.kind # "close"
      BY <1>1, <1>2, <3>1 DEF Rebuilt
    <3>2. CASE did.kind = "close"
      <4>1. /\ did.retired = {} /\ did.before = {} /\ did.inserted = {}
            /\ ~did.task.dated
        BY <3>2, <2>1 DEF RetiredOnce
      <4>2. reviews' = reviews /\ own' = own /\ due' = due
        BY <1>1, <1>2, <3>2, <4>1
      <4>3. PendingReviews' = PendingReviews /\ U!Covered' = U!Covered /\ ~Unreviewed'
        BY <4>1, <4>2, <2>3 DEF PendingReviews, U!Covered, U!Asked
      <4> QED BY <1>7, <4>2, <4>3, <2>1 DEF Rebuilt, Suited
    <3> QED BY <3>1, <3>2
  <2> QED BY <1>7, <2>1, <2>2, <2>6, <2>7 DEF ReadStill
<1> QED BY <1>5, <1>6, <1>8 DEF UndatedInv
-----------------------------------------------------------------------------
(* The moment and the crash.                                                *)
LEMMA DeliverKeeps ==
  ASSUME UndatedInv, U!Deliver
  PROVE  UndatedInv'
<1> DEFINE Out(row) ==
      IF row.delivery # "pending" THEN row
      ELSE [row EXCEPT !.delivery = IF task.status = "active" THEN "sent" ELSE "suppressed"]
<1>1. /\ past' = TRUE /\ reviews' = [i \in U!Ids |-> Out(reviews[i])]
      /\ own' = [r \in Own |-> Out(own[r])]
      /\ UNCHANGED <<story, task, worker, due, did, raced, used>>
  BY DEF U!Deliver
<1>2. \A row \in U!Rule : /\ Out(row) \in U!Rule /\ Out(row).active = row.active
                        /\ Out(row).delivery # "pending"
  BY DEF U!Rule, U!Delivery
<1> HIDE DEF Out
<1>3. reviews \in [U!Ids -> U!Rule] /\ own \in [Own -> U!Rule]
  BY DEF UndatedInv, UndatedTyped, U!TypeOK
<1>4. /\ reviews' \in [U!Ids -> U!Rule] /\ own' \in [Own -> U!Rule]
      /\ \A i \in U!Ids : reviews'[i].active = reviews[i].active /\ reviews'[i].delivery # "pending"
      /\ \A r \in Own : own'[r].active = own[r].active
  BY <1>1, <1>2, <1>3
<1>5. UndatedTyped'
  BY <1>1, <1>4 DEF UndatedInv, UndatedTyped, U!TypeOK
<1>6. /\ PendingReviews' = {} /\ U!Reviewing' = U!Reviewing /\ U!Covered' = U!Covered
      /\ Unreviewed' = Unreviewed /\ U!UnderWay' = U!UnderWay
  BY <1>1, <1>4 DEF PendingReviews, U!Reviewing, U!Covered, U!Asked, Unreviewed, U!UnderWay
<1> QED BY <1>1, <1>5, <1>6
           DEF UndatedInv, OneReview, RetiredOnce, ReadStill, Rebuilt, Suited

LEMMA UndatedCrashKeeps ==
  ASSUME UndatedInv, U!Crash
  PROVE  UndatedInv'
<1>1. /\ worker' = [w \in UndatedWorkers |-> U!Resting] /\ due' = 0
      /\ raced' = (raced \/ due > 0 \/ U!UnderWay # {})
      /\ UNCHANGED <<story, task, reviews, own, past, did>>
  BY DEF U!Crash
<1>2. UndatedTyped'
  BY <1>1, RestingIsRead DEF UndatedInv, UndatedTyped, U!TypeOK
<1>3. /\ PendingReviews' = PendingReviews /\ U!Reviewing' = U!Reviewing /\ U!Covered' = U!Covered
      /\ Unreviewed' = Unreviewed /\ U!UnderWay' = {}
  BY <1>1, RestingIsRead DEF PendingReviews, U!Reviewing, U!Covered, U!Asked, Unreviewed, U!UnderWay
<1>4. ASSUME ~raced' PROVE (OneReview /\ RetiredOnce /\ ReadStill /\ Rebuilt)'
  <2>1. U!UnderWay = {} /\ ~(due > 0) /\ ~raced
    BY <1>1, <1>4
  <2>2. due \in Nat
    BY DEF UndatedInv, UndatedTyped, U!TypeOK
  <2>3. due = 0 /\ OneReview /\ RetiredOnce /\ Rebuilt
    BY <2>1, <2>2 DEF UndatedInv
  <2> QED BY <1>1, <1>3, <2>1, <2>3 DEF OneReview, RetiredOnce, ReadStill, Rebuilt, Suited
<1> QED BY <1>2, <1>3, <1>4 DEF UndatedInv

LEMMA UndatedStepKeeps ==
  ASSUME UndatedInv, [U!Next]_(U!vars)
  PROVE  UndatedInv'
<1>1. CASE UNCHANGED U!vars
  BY <1>1 DEF U!vars, UndatedInv, UndatedTyped, U!TypeOK, PendingReviews, U!Reviewing, OneReview,
              RetiredOnce, ReadStill, Rebuilt, Suited, U!Covered, U!Asked, Unreviewed, U!UnderWay
<1>2. ASSUME NEW w \in UndatedWorkers,
             U!ReadTask(w) \/ U!ReadRules(w) \/ U!ReplaceReview(w) \/ U!PlanOwn(w)
      PROVE  UndatedInv'
  BY <1>2, ReadTaskKeeps, ReadRulesKeeps, ReplaceReviewKeeps, PlanOwnKeeps
<1> QED BY <1>1, <1>2, ChangeReminderKeeps, DatesAndCancellationsKeep, CompleteTaskKeeps,
           UndatedUndoKeeps, DeliverKeeps, UndatedCrashKeeps DEF U!Next

(* What the invariant says of contacts.                                     *)
LEMMA SameCardinality == \A S : U!Cardinality(S) = Cardinality(S)
BY DEF U!Cardinality, Cardinality

LEMMA OneContact == UndatedInv => U!ContactIsSingle
<1> SUFFICES ASSUME UndatedInv, ~raced
             PROVE  /\ Cardinality(PendingReviews) <= 1
                    /\ U!Idle /\ (U!Covered \/ ~U!Undated) /\ task.status # "closed" =>
                         PendingReviews = {}
  BY SameCardinality DEF U!ContactIsSingle, PendingReviews
<1>1. PendingReviews = {} \/ \E i : PendingReviews = {i}
  BY DEF UndatedInv, OneReview
<1>2. Cardinality(PendingReviews) <= 1
  BY <1>1, FS_EmptySet, FS_Singleton
<1>3. ~U!Undated /\ task.status # "closed" => Unreviewed
  BY DEF UndatedInv, UndatedTyped, U!TypeOK, U!TaskType, U!Undated, Unreviewed
<1> QED BY <1>2, <1>3 DEF UndatedInv, U!Idle, Rebuilt, Suited
-----------------------------------------------------------------------------
(* The reminders of a date.                                                 *)

(* The parameters as the code has them: rules of the user are rows with ids  *)
(* of their own, and a date has a moment.                                   *)
DateParameters ==
  /\ Moments # {} /\ LastVersion \in Nat \ {0} /\ RebuildScenarios \subseteq R!Scenario
  /\ "default" \notin Explicit \cup FollowUps /\ "escalation" \notin Explicit \cup FollowUps

LEMMA DatesAsAssumed == DateParameters
BY LifeAssumption DEF DateParameters

DateTyped ==
  /\ R!TypeOK
  /\ did.before \in R!DateType /\ did.before.open

(* What a date asks for, as rule and moment.                                *)
Wants(d, r, m) ==
  \/ r = "default" /\ ~d.muted /\ m = d.at
  \/ r \in d.rules /\ m = R!OwnMoment

(* A set of deliveries is what a date asks for: each is wanted, what is      *)
(* wanted is there unless it was withdrawn, and it is there once.           *)
Serves(live, d) ==
  /\ \A k \in live : k[1] # "escalation" => Wants(d, k[1], k[3])
  /\ \A r, m : Wants(d, r, m) =>
       \/ \E k \in live : k[1] = r /\ k[3] = m
       \/ \E k \in R!Keys : rows[k] = "withdrawn" /\ k[1] = r /\ k[3] = m
  /\ \A j, k \in live : j[1] = k[1] /\ j[3] = k[3] => j = k
Suppressed == {k \in R!Keys : rows[k] = "closed"}

(* Deliveries are suppressed by a completion only while the date is closed,  *)
(* and the last change of a closed date is its completion.                  *)
ClosedByJournal ==
  /\ date.open => Suppressed = {}
  /\ ~date.open <=> did.kind = "close"

(* There is one escalation, and no plan has another.                        *)
EscalationIsOne ==
  /\ \A k \in R!Keys : k[1] = "escalation" /\ rows[k] # "none" => k = <<"escalation", 0, R!OwnMoment>>
  /\ \A w \in RebuildWorkers : \A k \in worker[w].plan : k[1] # "escalation"

(* Unless a change has come between, what a rebuild has read is still so,    *)
(* and when it has cancelled what was there, only the same plan came since. *)
SameBut(seen) ==
  /\ seen.at = date.at /\ seen.version = date.version /\ seen.muted = date.muted
RebuildsAgree ==
  raced # "yes" =>
    \A w \in R!UnderWay :
      /\ date.open /\ SameBut(worker[w].seen)
      /\ worker[w].pc \in {"rules", "replace"} => worker[w].plan = R!PlanOf(date, date.rules)
      /\ worker[w].pc = "replace" =>
           \A k \in R!Pending : k[1] # "escalation" => k \in worker[w].cancels \cup worker[w].plan

(* Without a flag the plan is current, and that of a closed date would be     *)
(* if it were opened again.                                                 *)
PlanHolds ==
  raced = "no" =>
    /\ date.open /\ ~date.flagged => Serves(R!Pending, date)
    /\ ~date.open /\ ~did.before.flagged =>
         Serves(Suppressed, did.before) /\ R!Pending = {}

RebuildInv ==
  DateTyped /\ ClosedByJournal /\ EscalationIsOne /\ RebuildsAgree /\ PlanHolds
-----------------------------------------------------------------------------
LEMMA KeyShape ==
  /\ \A k \in R!Keys :
       /\ k = <<k[1], k[2], k[3]>> /\ k[1] \in R!ReminderRules /\ k[2] \in R!Versions
       /\ k[3] \in Moments \cup {R!OwnMoment}
  /\ \A r \in R!ReminderRules, v \in R!Versions, m \in Moments \cup {R!OwnMoment} :
       <<r, v, m>> \in R!Keys
BY DEF R!Keys

LEMMA DateFields ==
  ASSUME NEW d \in R!DateType
  PROVE  /\ d.open \in BOOLEAN /\ d.at \in Moments /\ d.version \in R!Versions
         /\ d.flagged \in BOOLEAN /\ d.muted \in BOOLEAN
         /\ d.rules \subseteq Explicit \cup FollowUps
BY DEF R!DateType

(* planReminders: the keys of a plan, of which none is an escalation.       *)
LEMMA PlanShape ==
  ASSUME DateParameters, NEW d \in R!DateType, NEW rules \in SUBSET (Explicit \cup FollowUps)
  PROVE  /\ R!PlanOf(d, rules) \subseteq R!Keys
         /\ \A k \in R!PlanOf(d, rules) : k[1] # "escalation" /\ k = <<k[1], d.version, k[3]>>
<1>1. d.version \in R!Versions /\ d.at \in Moments
  BY DateFields
<1>2. \A k \in R!PlanOf(d, rules) :
        k = <<"default", d.version, d.at>> \/ \E r \in rules : k = <<r, d.version, R!OwnMoment>>
  BY DEF R!PlanOf
<1> QED BY <1>1, <1>2 DEF DateParameters, R!Keys, R!ReminderRules

(* A plan is what its date asks for.                                        *)
LEMMA PlanServes ==
  ASSUME DateParameters, NEW d \in R!DateType
  PROVE  /\ \A k \in R!PlanOf(d, d.rules) : Wants(d, k[1], k[3])
         /\ \A r, m : Wants(d, r, m) => <<r, d.version, m>> \in R!PlanOf(d, d.rules)
<1>1. ASSUME NEW k \in R!PlanOf(d, d.rules) PROVE Wants(d, k[1], k[3])
  <2>1. \/ ~d.muted /\ k = <<"default", d.version, d.at>>
        \/ \E r \in d.rules : k = <<r, d.version, R!OwnMoment>>
    BY DEF R!PlanOf
  <2> QED BY <2>1 DEF Wants
<1>2. ASSUME NEW r, NEW m, Wants(d, r, m) PROVE <<r, d.version, m>> \in R!PlanOf(d, d.rules)
  BY <1>2 DEF Wants, R!PlanOf
<1> QED BY <1>1, <1>2

(* The properties of the model in the words of this module.                 *)
LEMMA WantedIs ==
  ASSUME DateParameters, NEW d \in R!DateType, NEW r, NEW m
  PROVE  <<r, m>> \in {<<k[1], k[3]>> : k \in R!PlanOf(d, d.rules)} <=> Wants(d, r, m)
<1>1. ASSUME <<r, m>> \in {<<k[1], k[3]>> : k \in R!PlanOf(d, d.rules)} PROVE Wants(d, r, m)
  <2>1. PICK k \in R!PlanOf(d, d.rules) : <<r, m>> = <<k[1], k[3]>>
    BY <1>1
  <2> QED BY <2>1, PlanServes
<1>2. ASSUME Wants(d, r, m) PROVE <<r, m>> \in {<<k[1], k[3]>> : k \in R!PlanOf(d, d.rules)}
  <2> DEFINE k == <<r, d.version, m>>
  <2>1. k \in R!PlanOf(d, d.rules) /\ k[1] = r /\ k[3] = m
    BY <1>2, PlanServes
  <2> HIDE DEF k
  <2> QED BY <2>1
<1> QED BY <1>1, <1>2

LEMMA ServesIsCurrent ==
  ASSUME DateParameters, DateTyped, Serves(R!Pending, date)
  PROVE  /\ R!Planned \subseteq R!Wanted /\ R!Wanted \subseteq R!Planned \cup R!Withdrawn
         /\ \A j, k \in R!Pending : j[1] = k[1] /\ j[3] = k[3] => j = k
<1>1. date \in R!DateType
  BY DEF DateTyped, R!TypeOK
<1>2. R!Planned \subseteq R!Wanted
  <2> SUFFICES ASSUME NEW p \in R!Planned PROVE p \in R!Wanted
    OBVIOUS
  <2>1. PICK k \in R!Pending \ R!OfRules({"escalation"}) : p = <<k[1], k[3]>>
    BY DEF R!Planned
  <2>2. Wants(date, k[1], k[3])
    BY <2>1 DEF Serves, R!OfRules, R!Pending
  <2> QED BY <1>1, <2>1, <2>2, WantedIs DEF R!Wanted
<1>3. R!Wanted \subseteq R!Planned \cup R!Withdrawn
  <2> SUFFICES ASSUME NEW p \in R!Wanted PROVE p \in R!Planned \cup R!Withdrawn
    OBVIOUS
  <2>1. PICK q \in R!PlanOf(date, date.rules) : p = <<q[1], q[3]>>
    BY DEF R!Wanted
  <2>2. Wants(date, q[1], q[3]) /\ q[1] # "escalation"
    <3>1. date.rules \in SUBSET (Explicit \cup FollowUps)
      BY <1>1, DateFields
    <3> QED BY <1>1, <3>1, PlanServes, PlanShape
  <2>3. CASE \E k \in R!Pending : k[1] = q[1] /\ k[3] = q[3]
    <3>1. PICK k \in R!Pending : k[1] = q[1] /\ k[3] = q[3]
      BY <2>3
    <3>2. k \in R!Pending \ R!OfRules({"escalation"}) /\ p = <<k[1], k[3]>>
      BY <2>1, <2>2, <3>1 DEF R!OfRules
    <3> QED BY <3>2 DEF R!Planned
  <2>4. CASE \E k \in R!Keys : rows[k] = "withdrawn" /\ k[1] = q[1] /\ k[3] = q[3]
    <3>1. PICK k \in R!Keys : rows[k] = "withdrawn" /\ k[1] = q[1] /\ k[3] = q[3]
      BY <2>4
    <3>2. k \in {j \in R!Keys : rows[j] = "withdrawn"} /\ p = <<k[1], k[3]>>
      BY <2>1, <3>1
    <3> QED BY <3>2 DEF R!Withdrawn
  <2> QED BY <2>2, <2>3, <2>4 DEF Serves
<1> QED BY <1>2, <1>3 DEF Serves
-----------------------------------------------------------------------------
LEMMA FirstDate ==
  ASSUME DateParameters
  PROVE  /\ R!FirstMoment \in Moments /\ R!NewDate \in R!DateType /\ R!NewDate.open /\ R!NewDate.at = R!FirstMoment
         /\ R!NewDate.rules = {} /\ ~R!NewDate.muted /\ 0 \in R!Versions
         /\ R!Resting \in R!Worker /\ R!Resting.pc = "idle" /\ R!Resting.plan = {}
         /\ R!NoJournal.kind = "none" /\ R!NoJournal.before = R!NewDate
<1>1. R!FirstMoment \in Moments
  BY DEF R!FirstMoment, DateParameters
<1>2. 1 \in R!Versions /\ 0 \in R!Versions
  BY DEF R!Versions, DateParameters
<1> HIDE DEF R!FirstMoment
<1>3. /\ R!NewDate \in R!DateType /\ R!NewDate.open /\ R!NewDate.at = R!FirstMoment /\ R!NewDate.rules = {}
      /\ ~R!NewDate.muted
  BY <1>1, <1>2 DEF R!NewDate, R!DateType
<1> HIDE DEF R!NewDate
<1> QED BY <1>1, <1>2, <1>3 DEF R!Resting, R!Worker, R!NoJournal

LEMMA DateInitKeeps == DateParameters /\ R!Init => RebuildInv
<1> SUFFICES ASSUME DateParameters, R!Init PROVE RebuildInv
  OBVIOUS
<1> DEFINE first == <<"default", 0, R!FirstMoment>>
           armed == <<"escalation", 0, R!OwnMoment>>
<1>1. first \in R!Keys /\ armed \in R!Keys /\ first # armed /\ first[1] = "default" /\ first[3] = R!FirstMoment
      /\ armed[1] = "escalation"
  BY FirstDate DEF R!Keys, R!ReminderRules
<1> HIDE DEF first, armed
<1>2. rows = [k \in R!Keys |-> IF k = first \/ (story.overdue /\ k = armed)
                             THEN "pending" ELSE "none"]
  BY DEF R!Init, first, armed
<1> HIDE DEF R!FirstMoment, R!NewDate, R!Resting, R!NoJournal
<1>3. DateTyped
  BY <1>2, FirstDate DEF R!Init, DateTyped, R!TypeOK, R!Row, DateParameters
<1>4. ClosedByJournal
  BY <1>2, FirstDate DEF R!Init, ClosedByJournal, Suppressed
<1>5. EscalationIsOne
  BY <1>1, <1>2, FirstDate DEF R!Init, EscalationIsOne, armed
<1>6. R!UnderWay = {} /\ raced = "no" /\ date.open
  BY FirstDate DEF R!Init, R!UnderWay
<1>7. Serves(R!Pending, date)
  <2>1. \A k \in R!Pending : k = first \/ k = armed
    BY <1>2 DEF R!Pending
  <2>2. first \in R!Pending
    BY <1>1, <1>2 DEF R!Pending
  <2>3. \A r, m : Wants(date, r, m) <=> r = "default" /\ m = R!FirstMoment
    BY FirstDate DEF R!Init, Wants
  <2> QED BY <1>1, <2>1, <2>2, <2>3 DEF Serves
<1> QED BY <1>3, <1>4, <1>5, <1>6, <1>7 DEF RebuildInv, RebuildsAgree, PlanHolds
-----------------------------------------------------------------------------
(* A rebuild reads the date.                                                *)
LEMMA ReadDateKeeps ==
  ASSUME DateParameters, RebuildInv, NEW w \in RebuildWorkers, R!ReadDate(w)
  PROVE  RebuildInv'
<1>0. /\ DateTyped /\ ClosedByJournal /\ EscalationIsOne /\ RebuildsAgree /\ PlanHolds
      /\ date \in R!DateType /\ worker \in [RebuildWorkers -> R!Worker] /\ due \in Nat
  BY DEF RebuildInv, DateTyped, R!TypeOK
<1>1. /\ UNCHANGED <<story, rows, did>> /\ worker[w].pc = "idle"
      /\ raced' = IF raced = "yes" /\ R!UnderWay = {} THEN "healing" ELSE raced
  BY DEF R!ReadDate
<1>2. due' \in Nat
  BY <1>0 DEF R!ReadDate
<1>3. raced' = "no" => raced = "no"
  BY <1>1
<1>4. CASE date.open
  <2> DEFINE r == [R!Resting EXCEPT !.pc = "read", !.seen = date]
  <2>1. date' = date /\ worker' = [worker EXCEPT ![w] = r]
    BY <1>4 DEF R!ReadDate
  <2>2. r \in R!Worker /\ r.pc = "read" /\ r.seen = date /\ r.plan = {}
    BY <1>0, FirstDate DEF R!Resting, R!Worker
  <2> HIDE DEF r
  <2>3. worker' \in [RebuildWorkers -> R!Worker] /\ \A v \in RebuildWorkers : worker'[v] = IF v = w THEN r ELSE worker[v]
    BY <1>0, <2>1, <2>2
  <2>4. DateTyped'
    BY <1>0, <1>1, <1>2, <2>1, <2>3 DEF DateTyped, R!TypeOK
  <2>5. ClosedByJournal' /\ PlanHolds'
    BY <1>0, <1>1, <1>3, <2>1 DEF ClosedByJournal, Suppressed, PlanHolds, Serves, R!Pending
  <2>6. EscalationIsOne'
    BY <1>0, <1>1, <2>2, <2>3 DEF EscalationIsOne
  <2>7. RebuildsAgree'
    <3> SUFFICES ASSUME raced' # "yes", NEW v \in R!UnderWay'
                 PROVE  /\ date'.open /\ SameBut(worker[v].seen)'
                        /\ worker'[v].pc \in {"rules", "replace"} =>
                             worker'[v].plan = R!PlanOf(date', date'.rules)
                        /\ worker'[v].pc = "replace" => \A k \in R!Pending' :
                             k[1] # "escalation" => k \in worker'[v].cancels \cup worker'[v].plan
      BY DEF RebuildsAgree
    <3>1. CASE v = w
      BY <1>4, <2>1, <2>2, <2>3, <3>1 DEF SameBut
    <3>2. CASE v # w
      <4>1. v \in R!UnderWay /\ worker'[v] = worker[v]
        BY <2>3, <3>2 DEF R!UnderWay
      <4>2. raced # "yes"
        BY <1>1, <4>1
      <4> QED BY <1>0, <1>1, <2>1, <4>1, <4>2 DEF RebuildsAgree, SameBut, R!Pending
    <3> QED BY <3>1, <3>2
  <2> QED BY <2>4, <2>5, <2>6, <2>7 DEF RebuildInv
<1>5. CASE ~date.open
  <2>1. date' = [date EXCEPT !.flagged = FALSE] /\ worker' = worker
    BY <1>5 DEF R!ReadDate
  <2>2. date' \in R!DateType /\ date'.open = date.open
    BY <1>0, <2>1 DEF R!DateType
  <2>3. DateTyped'
    BY <1>0, <1>1, <1>2, <2>1, <2>2 DEF DateTyped, R!TypeOK
  <2>4. ClosedByJournal'
    BY <1>0, <1>1, <2>2 DEF ClosedByJournal, Suppressed
  <2>5. EscalationIsOne'
    BY <1>0, <1>1, <2>1 DEF EscalationIsOne
  <2>6. R!UnderWay' = {} \/ raced' = "yes"
    <3>1. CASE raced # "yes"
      BY <1>0, <1>5, <2>1, <3>1 DEF RebuildsAgree, R!UnderWay
    <3>2. CASE raced = "yes"
      BY <1>1, <2>1, <3>2 DEF R!UnderWay
    <3> QED BY <3>1, <3>2
  <2>7. RebuildsAgree'
    BY <2>6 DEF RebuildsAgree
  <2>8. PlanHolds'
    BY <1>0, <1>1, <1>3, <1>5, <2>2 DEF PlanHolds, Serves, Suppressed, R!Pending
  <2> QED BY <2>3, <2>4, <2>5, <2>7, <2>8 DEF RebuildInv
<1> QED BY <1>4, <1>5

(* A rebuild reads the rules, or cancels what is pending: only its own       *)
(* memory changes.                                                          *)
LEMMA OwnMemoryKeeps ==
  ASSUME DateParameters, RebuildInv, NEW w \in RebuildWorkers, NEW r \in R!Worker,
         worker' = [worker EXCEPT ![w] = r],
         UNCHANGED <<story, date, rows, due, did, raced>>,
         worker[w].pc # "idle", r.pc # "idle", r.seen = worker[w].seen,
         \A k \in r.plan : k[1] # "escalation",
         raced # "yes" /\ date.open /\ SameBut(r.seen) =>
           /\ r.pc \in {"rules", "replace"} => r.plan = R!PlanOf(date, date.rules)
           /\ r.pc = "replace" =>
                \A k \in R!Pending : k[1] # "escalation" => k \in r.cancels \cup r.plan
  PROVE  RebuildInv'
<1>0. /\ DateTyped /\ ClosedByJournal /\ EscalationIsOne /\ RebuildsAgree /\ PlanHolds
      /\ worker \in [RebuildWorkers -> R!Worker]
  BY DEF RebuildInv, DateTyped, R!TypeOK
<1>1. worker' \in [RebuildWorkers -> R!Worker] /\ \A v \in RebuildWorkers : worker'[v] = IF v = w THEN r ELSE worker[v]
  BY <1>0
<1>2. DateTyped' /\ ClosedByJournal' /\ PlanHolds'
  BY <1>0, <1>1 DEF DateTyped, R!TypeOK, ClosedByJournal, Suppressed, PlanHolds, Serves, R!Pending
<1>3. EscalationIsOne'
  BY <1>0, <1>1 DEF EscalationIsOne
<1>4. RebuildsAgree'
  <2> SUFFICES ASSUME raced # "yes", NEW v \in R!UnderWay'
               PROVE  /\ date.open /\ SameBut(worker'[v].seen)
                      /\ worker'[v].pc \in {"rules", "replace"} =>
                           worker'[v].plan = R!PlanOf(date, date.rules)
                      /\ worker'[v].pc = "replace" => \A k \in R!Pending :
                           k[1] # "escalation" => k \in worker'[v].cancels \cup worker'[v].plan
    BY DEF RebuildsAgree, SameBut, R!Pending
  <2>1. CASE v = w
    <3>1. w \in R!UnderWay /\ worker'[v] = r
      BY <1>1, <2>1 DEF R!UnderWay
    <3>2. date.open /\ SameBut(r.seen)
      BY <1>0, <3>1 DEF RebuildsAgree
    <3> QED BY <3>1, <3>2
  <2>2. CASE v # w
    <3>1. v \in R!UnderWay /\ worker'[v] = worker[v]
      BY <1>1, <2>2 DEF R!UnderWay
    <3> QED BY <1>0, <3>1 DEF RebuildsAgree
  <2> QED BY <2>1, <2>2
<1> QED BY <1>2, <1>3, <1>4 DEF RebuildInv

LEMMA RulesReadKeeps ==
  ASSUME DateParameters, RebuildInv, NEW w \in RebuildWorkers, R!ReadRules(w)
  PROVE  RebuildInv'
<1> DEFINE q == worker[w]
           plan == R!PlanOf(q.seen, date.rules)
           r == [q EXCEPT !.pc = "rules", !.plan = plan]
<1>1. q \in R!Worker /\ date \in R!DateType
  BY DEF RebuildInv, DateTyped, R!TypeOK
<1>2. /\ worker' = [worker EXCEPT ![w] = r] /\ q.pc = "read"
      /\ UNCHANGED <<story, date, rows, due, did, raced>>
  BY DEF R!ReadRules
<1>3. q.seen \in R!DateType /\ date.rules \in SUBSET (Explicit \cup FollowUps)
  BY <1>1, DateFields DEF R!Worker
<1>4. plan \subseteq R!Keys /\ \A k \in plan : k[1] # "escalation"
  BY <1>3, PlanShape
<1>5. SameBut(q.seen) => plan = R!PlanOf(date, date.rules)
  BY DEF SameBut, R!PlanOf
<1> HIDE DEF q, plan
<1>6. r \in R!Worker /\ r.pc = "rules" /\ r.seen = q.seen /\ r.plan = plan
  BY <1>1, <1>4 DEF R!Worker
<1> HIDE DEF r
<1> QED BY <1>2, <1>4, <1>5, <1>6, OwnMemoryKeeps DEF q

LEMMA CancelLiveKeeps ==
  ASSUME DateParameters, RebuildInv, NEW w \in RebuildWorkers, R!CancelLive(w)
  PROVE  RebuildInv'
<1> DEFINE q == worker[w]
           cancels == R!Pending \ R!OfRules({"escalation"})
           r == [q EXCEPT !.pc = "replace", !.cancels = cancels]
<1>1. /\ q \in R!Worker /\ EscalationIsOne /\ RebuildsAgree
  BY DEF RebuildInv, DateTyped, R!TypeOK
<1>2. /\ worker' = [worker EXCEPT ![w] = r] /\ q.pc = "rules"
      /\ UNCHANGED <<story, date, rows, due, did, raced>>
  BY DEF R!CancelLive
<1>3. cancels \subseteq R!Keys /\ \A k \in R!Pending : k[1] # "escalation" => k \in cancels
  BY DEF R!Pending, R!OfRules
<1>4. raced # "yes" => q.plan = R!PlanOf(date, date.rules)
  BY <1>1, <1>2 DEF RebuildsAgree, R!UnderWay
<1>5. \A k \in q.plan : k[1] # "escalation"
  BY <1>1 DEF EscalationIsOne
<1> HIDE DEF q, cancels
<1>6. r \in R!Worker /\ r.pc = "replace" /\ r.seen = q.seen /\ r.plan = q.plan /\ r.cancels = cancels
  BY <1>1, <1>3 DEF R!Worker
<1> HIDE DEF r
<1> QED BY <1>2, <1>3, <1>4, <1>5, <1>6, OwnMemoryKeeps DEF q

(* A rebuild commits: what is pending afterwards is its plan, which is what  *)
(* the date asks for, unless a change came between.                         *)
LEMMA ReplaceKeeps ==
  ASSUME DateParameters, RebuildInv, NEW w \in RebuildWorkers, R!Replace(w)
  PROVE  RebuildInv'
<1>0. /\ DateTyped /\ ClosedByJournal /\ EscalationIsOne /\ RebuildsAgree /\ PlanHolds
      /\ date \in R!DateType /\ worker \in [RebuildWorkers -> R!Worker] /\ rows \in [R!Keys -> R!Row]
  BY DEF RebuildInv, DateTyped, R!TypeOK
<1> DEFINE q == worker[w]
<1>1. /\ UNCHANGED <<story, due, did>> /\ q.pc = "replace"
      /\ worker' = [worker EXCEPT ![w] = R!Resting]
  BY DEF R!Replace
<1>2. /\ worker' \in [RebuildWorkers -> R!Worker]
      /\ \A v \in RebuildWorkers : worker'[v] = IF v = w THEN R!Resting ELSE worker[v]
  BY <1>0, <1>1, FirstDate
<1>3. R!UnderWay' = R!UnderWay \ {w} /\ w \in R!UnderWay
  BY <1>1, <1>2, FirstDate DEF R!UnderWay
<1>4. \A v \in RebuildWorkers : \A k \in worker'[v].plan : k[1] # "escalation"
  BY <1>0, <1>2, FirstDate DEF EscalationIsOne
<1>5. CASE R!Taken(w) # {}
  <2>1. UNCHANGED <<rows, date, raced>>
    BY <1>5 DEF R!Replace
  <2>2. DateTyped' /\ ClosedByJournal' /\ EscalationIsOne' /\ PlanHolds'
    BY <1>0, <1>1, <1>2, <1>4, <2>1 DEF DateTyped, R!TypeOK, ClosedByJournal, Suppressed,
       EscalationIsOne, PlanHolds, Serves, R!Pending
  <2>3. RebuildsAgree'
    BY <1>0, <1>2, <1>3, <2>1 DEF RebuildsAgree, SameBut, R!Pending, R!UnderWay
  <2> QED BY <2>2, <2>3 DEF RebuildInv
<1>6. CASE R!Taken(w) = {}
  <2>1. /\ rows' = [k \in R!Keys |-> IF k \in q.plan THEN "pending"
                      ELSE IF k \in q.cancels /\ rows[k] = "pending" THEN "cancelled"
                      ELSE rows[k]]
        /\ date' = [date EXCEPT !.flagged = FALSE]
        /\ raced' = IF raced = "healing" THEN "no" ELSE raced
    BY <1>6 DEF R!Replace
  <2>2. q.plan \subseteq R!Keys /\ q.cancels \subseteq R!Keys /\ q \in R!Worker
    BY <1>0 DEF R!Worker
  <2>3. /\ date' \in R!DateType /\ date'.open = date.open /\ date'.at = date.at
        /\ date'.version = date.version /\ date'.muted = date.muted /\ date'.rules = date.rules
        /\ ~date'.flagged
    BY <1>0, <2>1 DEF R!DateType
  <2>4. rows' \in [R!Keys -> R!Row]
    BY <1>0, <2>1 DEF R!Row
  <2>5. DateTyped'
    BY <1>0, <1>1, <1>2, <2>1, <2>3, <2>4 DEF DateTyped, R!TypeOK
  <2>6. ClosedByJournal'
    BY <1>0, <1>1, <2>1, <2>3 DEF ClosedByJournal, Suppressed
  <2>7. EscalationIsOne'
    BY <1>0, <1>4, <2>1 DEF EscalationIsOne
  <2>8. \A r, m : Wants(date, r, m)' <=> Wants(date, r, m)
    BY <2>3 DEF Wants
  <2>9. R!PlanOf(date, date.rules)' = R!PlanOf(date, date.rules)
    BY <2>3 DEF R!PlanOf
  <2>10. raced # "yes" => date.open /\ q.plan = R!PlanOf(date, date.rules)
    BY <1>0, <1>1, <1>3 DEF RebuildsAgree
  <2>11. raced # "yes" => \A k \in R!Pending' : k[1] # "escalation" => k \in q.plan
    BY <1>0, <1>1, <1>3, <2>1 DEF RebuildsAgree, R!Pending
  <2>12. q.plan \subseteq R!Pending'
    BY <2>1, <2>2 DEF R!Pending
  <2>13. RebuildsAgree'
    <3> SUFFICES ASSUME raced' # "yes", NEW v \in R!UnderWay'
                 PROVE  /\ date'.open /\ SameBut(worker[v].seen)'
                        /\ worker'[v].pc \in {"rules", "replace"} =>
                             worker'[v].plan = R!PlanOf(date', date'.rules)
                        /\ worker'[v].pc = "replace" => \A k \in R!Pending' :
                             k[1] # "escalation" => k \in worker'[v].cancels \cup worker'[v].plan
      BY DEF RebuildsAgree
    <3>1. v \in R!UnderWay /\ worker'[v] = worker[v] /\ raced # "yes"
      BY <1>2, <1>3, <2>1 DEF R!UnderWay
    <3>2. date'.open /\ SameBut(worker[v].seen)'
      BY <1>0, <2>3, <3>1 DEF RebuildsAgree, SameBut
    <3>3. worker[v].pc \in {"rules", "replace"} => worker[v].plan = R!PlanOf(date, date.rules)
      BY <1>0, <3>1 DEF RebuildsAgree
    <3> QED BY <2>9, <2>10, <2>11, <3>1, <3>2, <3>3
  <2>14. PlanHolds'
    <3> SUFFICES ASSUME raced' = "no" PROVE date'.open /\ Serves(R!Pending, date)'
      BY DEF PlanHolds
    <3>1. raced # "yes"
      BY <2>1
    <3>2. /\ \A k \in q.plan : Wants(date, k[1], k[3]) /\ k = <<k[1], date.version, k[3]>>
          /\ \A r, m : Wants(date, r, m) => <<r, date.version, m>> \in q.plan
      <4>1. date.rules \in SUBSET (Explicit \cup FollowUps)
        BY <1>0, DateFields
      <4> QED BY <1>0, <2>10, <3>1, <4>1, PlanServes, PlanShape
    <3>3. ASSUME NEW k \in R!Pending', k[1] # "escalation" PROVE Wants(date, k[1], k[3])'
      BY <2>8, <2>11, <3>1, <3>2, <3>3
    <3>4. ASSUME NEW r, NEW m, Wants(date, r, m)' PROVE \E k \in R!Pending' : k[1] = r /\ k[3] = m
      <4> DEFINE k == <<r, date.version, m>>
      <4>1. k \in R!Pending' /\ k[1] = r /\ k[3] = m
        BY <2>8, <2>12, <3>2, <3>4
      <4> HIDE DEF k
      <4> QED BY <4>1
    <3>5. ASSUME NEW j \in R!Pending', NEW k \in R!Pending', j[1] = k[1], j[3] = k[3] PROVE j = k
      <4>1. CASE j[1] # "escalation"
        BY <2>11, <3>1, <3>2, <3>5, <4>1
      <4>2. CASE j[1] = "escalation"
        <5>1. j \in R!Keys /\ k \in R!Keys /\ rows'[j] # "none" /\ rows'[k] # "none"
          BY DEF R!Pending
        <5> QED BY <2>7, <3>5, <4>2, <5>1 DEF EscalationIsOne
      <4> QED BY <4>1, <4>2
    <3>6. date'.open
      BY <2>3, <2>10, <3>1
    <3> QED BY <3>3, <3>4, <3>5, <3>6 DEF Serves
  <2> QED BY <2>5, <2>6, <2>7, <2>13, <2>14 DEF RebuildInv
<1> QED BY <1>5, <1>6
-----------------------------------------------------------------------------
(* A change of anything else ends the agreement of the rebuilds it meets.   *)
LEMMA RaceTells ==
  ASSUME RebuildInv, R!Race, worker' = worker
  PROVE  /\ RebuildsAgree' /\ (raced' = "no" => raced = "no")
         /\ raced' \in {"no", "yes", "healing"} /\ worker' \in [RebuildWorkers -> R!Worker]
<1>1. R!UnderWay' = R!UnderWay /\ raced \in {"no", "yes", "healing"} /\ worker \in [RebuildWorkers -> R!Worker]
  BY DEF R!UnderWay, RebuildInv, DateTyped, R!TypeOK
<1>2. raced' # "yes" => R!UnderWay' = {}
  BY <1>1 DEF R!Race
<1> QED BY <1>1, <1>2 DEF R!Race, RebuildsAgree

(* No action but a start makes an escalation.                               *)
LEMMA NoNewEscalation ==
  ASSUME RebuildInv, worker' = worker,
         \A k \in R!Keys : rows'[k] # "none" => rows[k] # "none" \/ k[1] # "escalation"
  PROVE  EscalationIsOne'
BY DEF RebuildInv, EscalationIsOne

(* What becomes of the deliveries that are resolved.                        *)
LEMMA Resolved ==
  ASSUME DateTyped, NEW keys \in SUBSET R!Pending,
         NEW status \in {"cancelled", "withdrawn", "closed", "muted"},
         rows' = R!Resolve(keys, status)
  PROVE  /\ rows' \in [R!Keys -> R!Row] /\ R!Pending' = R!Pending \ keys
         /\ \A k \in R!Keys : rows'[k] = IF k \in keys THEN status ELSE rows[k]
         /\ \A k \in R!Keys : rows'[k] # "none" => rows[k] # "none"
         /\ \A k \in R!Keys : rows[k] = "withdrawn" => rows'[k] = "withdrawn"
         /\ Suppressed' = IF status = "closed" THEN Suppressed \cup keys ELSE Suppressed
<1>1. rows \in [R!Keys -> R!Row] /\ keys \subseteq R!Keys /\ \A k \in keys : rows[k] = "pending"
  BY DEF DateTyped, R!TypeOK, R!Pending
<1>2. rows' \in [R!Keys -> R!Row]
  BY <1>1 DEF R!Resolve, R!Row
<1>3. \A k \in R!Keys : rows'[k] = IF k \in keys THEN status ELSE rows[k]
  BY DEF R!Resolve
<1> QED BY <1>1, <1>2, <1>3 DEF R!Pending, Suppressed

(* A plan serves a date that wants the same.                                *)
LEMMA ServesStill ==
  ASSUME NEW live, NEW d, NEW then, Serves(live, d),
         then.muted = d.muted, then.at = d.at, then.rules = d.rules
  PROVE  Serves(live, then)
BY DEF Serves, Wants

(* A change of the date: what is pending is withdrawn and the flag raised;    *)
(* a completion keeps what was pending, to bring it back.                   *)
LEMMA DateChangeKeeps ==
  ASSUME DateParameters, RebuildInv, NEW kind, NEW then \in R!DateType,
         NEW resolution \in {"cancelled", "closed"}, due' \in Nat,
         R!Change(kind, then, resolution),
         kind = "close" <=> resolution = "closed", then.open <=> kind # "close",
         then.open => then.flagged
  PROVE  RebuildInv'
<1>0. /\ DateTyped /\ ClosedByJournal /\ PlanHolds /\ date \in R!DateType
  BY DEF RebuildInv, DateTyped, R!TypeOK
<1>1. /\ date.open /\ date' = then /\ rows' = R!Resolve(R!Pending, resolution)
      /\ did' = [kind |-> kind, before |-> date, post |-> then.version]
      /\ R!Race /\ UNCHANGED <<story, worker>>
  BY DEF R!Change
<1>2. /\ rows' \in [R!Keys -> R!Row] /\ R!Pending' = {}
      /\ \A k \in R!Keys : rows'[k] # "none" => rows[k] # "none"
      /\ \A k \in R!Keys : rows[k] = "withdrawn" => rows'[k] = "withdrawn"
      /\ Suppressed' = IF resolution = "closed" THEN Suppressed \cup R!Pending ELSE Suppressed
  BY <1>0, <1>1, Resolved
<1>3. did'.kind = kind /\ did'.before = date
  BY <1>1
<1>4. RebuildsAgree' /\ (raced' = "no" => raced = "no")
  BY <1>1, RaceTells
<1>5. DateTyped'
  BY <1>0, <1>1, <1>2, <1>3, RaceTells DEF DateTyped, R!TypeOK
<1>6. EscalationIsOne'
  BY <1>1, <1>2, NoNewEscalation
<1>7. ClosedByJournal'
  BY <1>0, <1>1, <1>2, <1>3 DEF ClosedByJournal
<1>8. PlanHolds'
  <2> SUFFICES ASSUME raced' = "no", ~date'.open, ~date.flagged
               PROVE  Serves(Suppressed, did.before)'
    BY <1>1, <1>2, <1>3 DEF PlanHolds
  <2>1. Serves(R!Pending, date) /\ Suppressed' = R!Pending
    BY <1>0, <1>1, <1>2, <1>4 DEF PlanHolds, ClosedByJournal
  <2> QED BY <1>2, <1>3, <2>1 DEF Serves
<1> QED BY <1>4, <1>5, <1>6, <1>7, <1>8 DEF RebuildInv

LEMMA RescheduleKeeps ==
  ASSUME DateParameters, RebuildInv, NEW at \in Moments, R!Reschedule(at)
  PROVE  RebuildInv'
<1> DEFINE then == R!Rescheduled(at)
<1>1. /\ date \in R!DateType /\ due \in Nat /\ date.version < LastVersion /\ date.open
      /\ R!Change("reschedule", then, "cancelled") /\ due' = due + 1
  BY DEF RebuildInv, DateTyped, R!TypeOK, R!Reschedule, R!Change
<1>2. date.version + 1 \in R!Versions /\ date.rules \ FollowUps \subseteq Explicit \cup FollowUps
  BY <1>1, DateFields DEF DateParameters, R!Versions
<1>3. then \in R!DateType /\ then.open /\ then.flagged
  BY <1>1, <1>2 DEF R!Rescheduled, R!DateType
<1>4. due' \in Nat
  BY <1>1
<1> HIDE DEF then
<1> QED BY <1>1, <1>3, <1>4, DateChangeKeeps

LEMMA ReminderChangeKeeps ==
  ASSUME DateParameters, RebuildInv, NEW mode \in {"add", "replace", "clear"},
         NEW rule \in Explicit, R!ChangeReminder(mode, rule)
  PROVE  RebuildInv'
<1> DEFINE then == R!Reminded(mode, rule)
           rules == (IF mode = "add" THEN date.rules ELSE date.rules \ Explicit)
                      \cup (IF mode = "clear" THEN {} ELSE {rule})
<1>1. /\ date \in R!DateType /\ due \in Nat /\ date.version < LastVersion /\ date.open
      /\ R!Change(mode, then, "cancelled") /\ due' = due + 1
  BY DEF RebuildInv, DateTyped, R!TypeOK, R!ChangeReminder, R!Change
<1>2. date.version + 1 \in R!Versions /\ rules \subseteq Explicit \cup FollowUps
  BY <1>1, DateFields DEF DateParameters, R!Versions
<1>3. then = [date EXCEPT !.version = @ + 1, !.flagged = TRUE, !.muted = @ \/ mode # "add",
                           !.rules = rules]
  BY <1>1 DEF R!Reminded, R!DateType
<1> HIDE DEF then, rules
<1>4. (date.muted \/ mode # "add") \in BOOLEAN
  OBVIOUS
<1>5. then \in R!DateType /\ then.open /\ then.flagged
  BY <1>1, <1>2, <1>3, <1>4 DEF R!DateType
<1>6. due' \in Nat
  BY <1>1
<1> QED BY <1>1, <1>5, <1>6, DateChangeKeeps

LEMMA CloseKeeps ==
  ASSUME DateParameters, RebuildInv, R!Close
  PROVE  RebuildInv'
<1> DEFINE then == [date EXCEPT !.open = FALSE, !.version = @ + 1]
<1>1. /\ date \in R!DateType /\ due' \in Nat /\ date.version < LastVersion
      /\ R!Change("close", then, "closed")
  BY DEF RebuildInv, DateTyped, R!TypeOK, R!Close, R!Change
<1>2. date.version + 1 \in R!Versions
  BY <1>1, DateFields DEF DateParameters, R!Versions
<1>3. then \in R!DateType /\ ~then.open
  BY <1>1, <1>2 DEF R!DateType
<1> HIDE DEF then
<1> QED BY <1>1, <1>3, DateChangeKeeps

(* Undo: the date is as it was, and planned again; that of a completion      *)
(* brings back what was pending before it.                                  *)
LEMMA DateUndoKeeps ==
  ASSUME DateParameters, RebuildInv, R!UndoChange
  PROVE  RebuildInv'
<1> DEFINE closed == did.kind = "close"
           before == did.before
           rules == IF did.kind = "reschedule" THEN date.rules ELSE before.rules
           then == [before EXCEPT !.version = date.version + 1, !.rules = rules,
                                   !.flagged = @ \/ ~closed]
<1>0. /\ DateTyped /\ ClosedByJournal /\ PlanHolds /\ date \in R!DateType /\ before \in R!DateType
      /\ before.open /\ due \in Nat /\ rows \in [R!Keys -> R!Row]
  BY DEF RebuildInv, DateTyped, R!TypeOK
<1>1. /\ date' = then /\ date.version < LastVersion /\ did' = R!NoJournal
      /\ rows' = IF closed
             THEN [k \in R!Keys |-> IF rows[k] = "closed" THEN "pending" ELSE rows[k]]
             ELSE IF did.kind = "reschedule" THEN rows ELSE R!Resolve(R!Pending, "cancelled")
      /\ due' = IF closed THEN due ELSE due + 1
      /\ R!Race /\ UNCHANGED <<story, worker>>
  BY DEF R!UndoChange
<1>2. date.version + 1 \in R!Versions /\ rules \subseteq Explicit \cup FollowUps
  <2>1. date.version + 1 \in R!Versions
    BY <1>0, <1>1, DateFields DEF DateParameters, R!Versions
  <2>2. rules \subseteq Explicit \cup FollowUps
    BY <1>0, DateFields
  <2> QED BY <2>1, <2>2
<1>3. closed => rules = before.rules
  OBVIOUS
<1>4. (before.flagged \/ ~closed) \in BOOLEAN /\ due' \in Nat /\ closed \in BOOLEAN
  BY <1>0, <1>1
<1>5. closed <=> ~date.open
  BY <1>0 DEF ClosedByJournal
<1> HIDE DEF closed, rules
<1>6. /\ then \in R!DateType /\ then.open /\ then.at = before.at /\ then.muted = before.muted
      /\ then.rules = rules /\ (~then.flagged => ~before.flagged /\ closed)
  BY <1>0, <1>2, <1>4 DEF R!DateType
<1> HIDE DEF then
<1>7. ASSUME closed
      PROVE  /\ rows' \in [R!Keys -> R!Row] /\ Suppressed' = {}
             /\ \A k \in R!Keys : rows'[k] # "none" => rows[k] # "none"
             /\ raced = "no" /\ ~date'.flagged => Serves(R!Pending, date)'
  <2>1. rows' = [k \in R!Keys |-> IF rows[k] = "closed" THEN "pending" ELSE rows[k]]
    BY <1>1, <1>7
  <2>2. /\ rows' \in [R!Keys -> R!Row] /\ \A k \in R!Keys : rows'[k] # "none" => rows[k] # "none"
        /\ \A k \in R!Keys : rows[k] = "withdrawn" => rows'[k] = "withdrawn"
        /\ Suppressed' = {} /\ R!Pending' = R!Pending \cup Suppressed
    BY <1>0, <2>1 DEF R!Row, R!Pending, Suppressed
  <2>3. raced = "no" /\ ~date'.flagged => Serves(R!Pending, date)'
    <3> SUFFICES ASSUME raced = "no", ~date'.flagged PROVE Serves(R!Pending, date)'
      OBVIOUS
    <3>1. Serves(Suppressed, before) /\ R!Pending' = Suppressed
      BY <1>0, <1>1, <1>5, <1>6, <1>7, <2>2 DEF PlanHolds
    <3>2. Serves(Suppressed, then)
      BY <1>3, <1>6, <1>7, <3>1, ServesStill
    <3> QED BY <1>1, <2>2, <3>1, <3>2 DEF Serves
  <2> QED BY <2>2, <2>3
<1>8. ASSUME ~closed
      PROVE  /\ rows' \in [R!Keys -> R!Row] /\ Suppressed' = {}
             /\ \A k \in R!Keys : rows'[k] # "none" => rows[k] # "none"
             /\ raced = "no" /\ ~date'.flagged => Serves(R!Pending, date)'
  <2>1. rows' = rows \/ rows' = R!Resolve(R!Pending, "cancelled")
    BY <1>1, <1>8
  <2>2. /\ rows' \in [R!Keys -> R!Row] /\ \A k \in R!Keys : rows'[k] # "none" => rows[k] # "none"
        /\ Suppressed' = Suppressed
    <3>1. CASE rows' = rows
      BY <1>0, <3>1 DEF Suppressed
    <3>2. CASE rows' = R!Resolve(R!Pending, "cancelled")
      BY <1>0, <3>2, Resolved
    <3> QED BY <2>1, <3>1, <3>2
  <2>3. Suppressed' = {} /\ date'.flagged
    <3>1. Suppressed' = {}
      BY <1>0, <1>5, <1>8, <2>2 DEF ClosedByJournal
    <3> QED BY <1>1, <1>6, <1>8, <3>1
  <2> QED BY <2>2, <2>3
<1>9. /\ rows' \in [R!Keys -> R!Row] /\ \A k \in R!Keys : rows'[k] # "none" => rows[k] # "none"
      /\ Suppressed' = {}
  BY <1>4, <1>7, <1>8
<1>10. raced = "no" /\ ~date'.flagged => Serves(R!Pending, date)'
  BY <1>4, <1>7, <1>8
<1>11. did'.kind # "close" /\ did'.before \in R!DateType /\ did'.before.open
  BY <1>1, FirstDate
<1>12. date' \in R!DateType /\ date'.open
  BY <1>1, <1>6
<1>13. RebuildsAgree' /\ EscalationIsOne' /\ (raced' = "no" => raced = "no")
  BY <1>1, <1>9, RaceTells, NoNewEscalation
<1>14. DateTyped'
  BY <1>0, <1>1, <1>4, <1>9, <1>11, <1>12, RaceTells DEF DateTyped, R!TypeOK
<1>15. ClosedByJournal' /\ PlanHolds'
  BY <1>9, <1>10, <1>11, <1>12, <1>13 DEF ClosedByJournal, PlanHolds
<1> QED BY <1>13, <1>14, <1>15 DEF RebuildInv

(* A mute or a withdrawal: the plan loses what the date no longer asks for,   *)
(* or what the user has withdrawn.                                          *)
LEMMA MuteKeeps ==
  ASSUME DateParameters, RebuildInv, R!Mute
  PROVE  RebuildInv'
<1> DEFINE keys == R!Pending \cap R!OfRules({"default"})
<1>0. /\ DateTyped /\ ClosedByJournal /\ PlanHolds /\ date \in R!DateType /\ date.open
      /\ keys \subseteq R!Pending
  BY DEF RebuildInv, DateTyped, R!TypeOK, R!Mute
<1>1. /\ date' = [date EXCEPT !.muted = TRUE] /\ rows' = R!Resolve(keys, "muted")
      /\ R!Race /\ UNCHANGED <<story, worker, due, did>>
  BY DEF R!Mute
<1>2. \A k \in R!Pending : k \in keys <=> k[1] = "default"
  BY DEF R!Pending, R!OfRules
<1> HIDE DEF keys
<1>3. /\ rows' \in [R!Keys -> R!Row] /\ R!Pending' = R!Pending \ keys
      /\ \A k \in R!Keys : rows'[k] # "none" => rows[k] # "none"
      /\ \A k \in R!Keys : rows[k] = "withdrawn" => rows'[k] = "withdrawn"
      /\ Suppressed' = Suppressed
  BY <1>0, <1>1, Resolved
<1>4. /\ date' \in R!DateType /\ date'.open /\ date'.muted /\ date'.rules = date.rules
      /\ date'.flagged = date.flagged
  BY <1>0, <1>1 DEF R!DateType
<1>5. "default" \notin date.rules
  BY <1>0, DateFields DEF DateParameters
<1>6. RebuildsAgree' /\ EscalationIsOne' /\ (raced' = "no" => raced = "no")
  BY <1>1, <1>3, RaceTells, NoNewEscalation
<1>7. DateTyped'
  BY <1>0, <1>1, <1>3, <1>4, RaceTells DEF DateTyped, R!TypeOK
<1>8. ClosedByJournal'
  BY <1>0, <1>1, <1>3, <1>4 DEF ClosedByJournal
<1>9. Serves(R!Pending, date) => Serves(R!Pending, date)'
  <2> SUFFICES ASSUME Serves(R!Pending, date) PROVE Serves(R!Pending, date)'
    OBVIOUS
  <2>1. \A r, m : Wants(date, r, m)' <=> Wants(date, r, m) /\ r # "default"
    BY <1>4, <1>5 DEF Wants
  <2>2. \A k \in R!Pending' : k \in R!Pending /\ k[1] # "default"
    BY <1>2, <1>3
  <2> QED BY <1>2, <1>3, <2>1, <2>2 DEF Serves
<1>10. PlanHolds'
  BY <1>0, <1>4, <1>6, <1>9 DEF PlanHolds
<1> QED BY <1>6, <1>7, <1>8, <1>10 DEF RebuildInv

LEMMA WithdrawKeeps ==
  ASSUME DateParameters, RebuildInv, NEW k \in R!Keys, R!Withdraw(k)
  PROVE  RebuildInv'
<1>0. /\ DateTyped /\ ClosedByJournal /\ PlanHolds /\ k \in R!Pending /\ rows' = R!Resolve({k}, "withdrawn")
      /\ R!Race /\ UNCHANGED <<story, date, worker, due, did>>
  BY DEF RebuildInv, R!Withdraw
<1>1. /\ rows' \in [R!Keys -> R!Row] /\ R!Pending' = R!Pending \ {k} /\ rows'[k] = "withdrawn"
      /\ \A j \in R!Keys : rows'[j] # "none" => rows[j] # "none"
      /\ \A j \in R!Keys : rows[j] = "withdrawn" => rows'[j] = "withdrawn"
      /\ Suppressed' = Suppressed
  <2> DEFINE keys == {k}
  <2>1. keys \in SUBSET R!Pending /\ rows' = R!Resolve(keys, "withdrawn") /\ k \in keys
    BY <1>0
  <2>2. R!Pending' = R!Pending \ keys
    BY <2>1, <1>0, Resolved
  <2> HIDE DEF keys
  <2>3. /\ rows' \in [R!Keys -> R!Row]
        /\ \A j \in R!Keys : rows'[j] = IF j \in keys THEN "withdrawn" ELSE rows[j]
        /\ \A j \in R!Keys : rows'[j] # "none" => rows[j] # "none"
        /\ \A j \in R!Keys : rows[j] = "withdrawn" => rows'[j] = "withdrawn"
        /\ Suppressed' = Suppressed
    BY <2>1, <1>0, Resolved
  <2>4. rows'[k] = "withdrawn"
    BY <2>1, <2>3
  <2> QED BY <2>2, <2>3, <2>4 DEF keys
<1>2. RebuildsAgree' /\ EscalationIsOne' /\ (raced' = "no" => raced = "no")
  BY <1>0, <1>1, RaceTells, NoNewEscalation
<1>3. DateTyped'
  BY <1>0, <1>1, RaceTells DEF DateTyped, R!TypeOK
<1>4. ClosedByJournal'
  BY <1>0, <1>1 DEF ClosedByJournal
<1>5. date' = date /\ did' = did
  BY <1>0
<1>6. Serves(R!Pending, date) => Serves(R!Pending, date)'
  <2> SUFFICES ASSUME Serves(R!Pending, date) PROVE Serves(R!Pending, date)'
    OBVIOUS
  <2>1. ASSUME NEW r, NEW m, Wants(date, r, m)
        PROVE  \/ \E j \in R!Pending' : j[1] = r /\ j[3] = m
               \/ \E j \in R!Keys : rows'[j] = "withdrawn" /\ j[1] = r /\ j[3] = m
    BY <1>1, <2>1 DEF Serves
  <2> QED BY <1>1, <1>5, <2>1 DEF Serves
<1>7. Serves(Suppressed, did.before) => Serves(Suppressed, did.before)'
  <2> SUFFICES ASSUME Serves(Suppressed, did.before) PROVE Serves(Suppressed, did.before)'
    OBVIOUS
  <2>1. ASSUME NEW r, NEW m, Wants(did.before, r, m)
        PROVE  \/ \E j \in Suppressed : j[1] = r /\ j[3] = m
               \/ \E j \in R!Keys : rows'[j] = "withdrawn" /\ j[1] = r /\ j[3] = m
    BY <1>1, <2>1 DEF Serves
  <2> QED BY <1>1, <1>5, <2>1 DEF Serves
<1>8. PlanHolds'
  BY <1>0, <1>1, <1>2, <1>5, <1>6, <1>7 DEF PlanHolds
<1> QED BY <1>2, <1>3, <1>4, <1>8 DEF RebuildInv

(* A snooze: its rule takes the place of the follow-up there was, and its    *)
(* delivery that of the one there was.                                      *)
LEMMA SnoozeKeeps ==
  ASSUME DateParameters, RebuildInv, NEW rule \in FollowUps, R!Snooze(rule)
  PROVE  RebuildInv'
<1> DEFINE old == date.rules \cap FollowUps
           keys == R!Pending \cap R!OfRules(old)
           new == <<rule, 0, R!OwnMoment>>
<1>0. /\ DateTyped /\ ClosedByJournal /\ PlanHolds /\ date \in R!DateType /\ date.open
      /\ rule \notin date.rules /\ rows[new] = "none" /\ rows \in [R!Keys -> R!Row]
  BY DEF RebuildInv, DateTyped, R!TypeOK, R!Snooze
<1>1. /\ date' = [date EXCEPT !.rules = (@ \ FollowUps) \cup {rule}]
      /\ rows' = [R!Resolve(keys, "cancelled") EXCEPT ![new] = "pending"]
      /\ R!Race /\ UNCHANGED <<story, worker, due, did>>
  BY DEF R!Snooze
<1>2. new \in R!Keys /\ new[1] = rule /\ new[3] = R!OwnMoment /\ rule # "escalation" /\ rule # "default"
  BY FirstDate DEF R!Keys, R!ReminderRules, DateParameters
<1>3. date.rules \subseteq Explicit \cup FollowUps /\ "default" \notin date.rules
  BY <1>0, DateFields DEF DateParameters
<1>4. \A k \in R!Pending : k \in keys <=> k[1] \in old
  BY DEF R!Pending, R!OfRules
<1> HIDE DEF new, keys
<1>5. /\ rows' \in [R!Keys -> R!Row] /\ rows'[new] = "pending"
      /\ \A k \in R!Keys : k # new => rows'[k] = IF k \in keys THEN "cancelled" ELSE rows[k]
  BY <1>0, <1>1, <1>2 DEF R!Resolve, R!Row
<1>6. keys \subseteq R!Pending
  BY DEF keys
<1>7. /\ R!Pending' = (R!Pending \ keys) \cup {new} /\ new \notin R!Pending
      /\ \A k \in R!Keys : rows'[k] # "none" => rows[k] # "none" \/ k[1] # "escalation"
      /\ \A k \in R!Keys : rows[k] = "withdrawn" => rows'[k] = "withdrawn"
      /\ Suppressed' = Suppressed
  BY <1>0, <1>2, <1>5, <1>6 DEF R!Pending, Suppressed
<1>8. /\ date' \in R!DateType /\ date'.open /\ date'.muted = date.muted /\ date'.at = date.at
      /\ date'.rules = (date.rules \ FollowUps) \cup {rule} /\ date'.flagged = date.flagged
  <2>1. (date.rules \ FollowUps) \cup {rule} \subseteq Explicit \cup FollowUps
    BY <1>3
  <2> QED BY <1>0, <1>1, <2>1 DEF R!DateType
<1>9. RebuildsAgree' /\ EscalationIsOne' /\ (raced' = "no" => raced = "no")
  BY <1>1, <1>7, RaceTells, NoNewEscalation
<1>10. DateTyped'
  BY <1>0, <1>1, <1>5, <1>8, RaceTells DEF DateTyped, R!TypeOK
<1>11. ClosedByJournal'
  BY <1>0, <1>1, <1>7, <1>8 DEF ClosedByJournal
<1>12. Serves(R!Pending, date) => Serves(R!Pending, date)'
  <2> SUFFICES ASSUME Serves(R!Pending, date) PROVE Serves(R!Pending, date)'
    OBVIOUS
  <2>1. \A r, m : Wants(date, r, m)' <=>
          (Wants(date, r, m) /\ r \notin old) \/ (r = rule /\ m = R!OwnMoment)
    BY <1>2, <1>3, <1>8 DEF Wants
  <2>2. \A k \in R!Pending : k[1] # rule
    BY <1>0, <1>2 DEF Serves, Wants
  <2>3. ASSUME NEW k \in R!Pending', k[1] # "escalation" PROVE Wants(date, k[1], k[3])'
    BY <1>2, <1>4, <1>7, <2>1, <2>3 DEF Serves
  <2>4. ASSUME NEW r, NEW m, Wants(date, r, m)'
        PROVE  \/ \E k \in R!Pending' : k[1] = r /\ k[3] = m
               \/ \E k \in R!Keys : rows'[k] = "withdrawn" /\ k[1] = r /\ k[3] = m
    <3>1. CASE r = rule /\ m = R!OwnMoment
      BY <1>2, <1>7, <3>1
    <3>2. CASE Wants(date, r, m) /\ r \notin old
      BY <1>4, <1>7, <3>2 DEF Serves
    <3> QED BY <2>1, <2>4, <3>1, <3>2
  <2>5. ASSUME NEW j \in R!Pending', NEW k \in R!Pending', j[1] = k[1], j[3] = k[3] PROVE j = k
    BY <1>2, <1>7, <2>2, <2>5 DEF Serves
  <2> QED BY <2>3, <2>4, <2>5 DEF Serves
<1>13. PlanHolds'
  BY <1>0, <1>8, <1>9, <1>12 DEF PlanHolds
<1> QED BY <1>9, <1>10, <1>11, <1>13 DEF RebuildInv

(* A crash: the rebuilds under way are forgotten, and so are those due; the  *)
(* flag is what is left of them.                                            *)
LEMMA DateCrashKeeps ==
  ASSUME DateParameters, RebuildInv, R!Crash
  PROVE  RebuildInv'
<1>0. /\ DateTyped /\ ClosedByJournal /\ EscalationIsOne /\ PlanHolds
      /\ raced \in {"no", "yes", "healing"}
  BY DEF RebuildInv, DateTyped, R!TypeOK
<1>1. /\ worker' = [w \in RebuildWorkers |-> R!Resting] /\ due' = 0 /\ R!Race
      /\ UNCHANGED <<story, date, rows, did>>
  BY DEF R!Crash
<1>2. worker' \in [RebuildWorkers -> R!Worker] /\ R!UnderWay' = {} /\ \A w \in RebuildWorkers : worker'[w].plan = {}
  BY <1>1, FirstDate DEF R!UnderWay
<1>3. raced' \in {"no", "yes", "healing"} /\ (raced' = "no" => raced = "no")
  BY <1>0, <1>1 DEF R!Race
<1>4. DateTyped'
  BY <1>0, <1>1, <1>2, <1>3 DEF DateTyped, R!TypeOK
<1>5. ClosedByJournal' /\ EscalationIsOne' /\ RebuildsAgree'
  BY <1>0, <1>1, <1>2 DEF ClosedByJournal, Suppressed, EscalationIsOne, RebuildsAgree
<1>6. PlanHolds'
  BY <1>0, <1>1, <1>3 DEF PlanHolds, Serves, Suppressed, R!Pending
<1> QED BY <1>4, <1>5, <1>6 DEF RebuildInv

LEMMA DateStutterKeeps ==
  ASSUME RebuildInv, UNCHANGED R!vars
  PROVE  RebuildInv'
BY DEF R!vars, RebuildInv, DateTyped, R!TypeOK, ClosedByJournal, Suppressed, EscalationIsOne,
   RebuildsAgree, SameBut, R!UnderWay, R!Pending, PlanHolds, Serves

LEMMA DateStepKeeps == DateParameters /\ RebuildInv /\ [R!Next]_(R!vars) => RebuildInv'
<1> SUFFICES ASSUME DateParameters, RebuildInv, [R!Next]_(R!vars) PROVE RebuildInv'
  OBVIOUS
<1>1. ASSUME NEW w \in RebuildWorkers, R!ReadDate(w) \/ R!ReadRules(w) \/ R!CancelLive(w) \/ R!Replace(w)
      PROVE  RebuildInv'
  BY <1>1, ReadDateKeeps, RulesReadKeeps, CancelLiveKeeps, ReplaceKeeps
<1>2. ASSUME NEW at \in Moments, R!Reschedule(at) PROVE RebuildInv'
  BY <1>2, RescheduleKeeps
<1>3. ASSUME NEW mode \in {"add", "replace", "clear"}, NEW rule \in Explicit,
             R!ChangeReminder(mode, rule)
      PROVE  RebuildInv'
  BY <1>3, ReminderChangeKeeps
<1>4. CASE R!Close \/ R!UndoChange \/ R!Mute \/ R!Crash
  BY <1>4, CloseKeeps, DateUndoKeeps, MuteKeeps, DateCrashKeeps
<1>5. ASSUME NEW k \in R!Keys, R!Withdraw(k) PROVE RebuildInv'
  BY <1>5, WithdrawKeeps
<1>6. ASSUME NEW rule \in FollowUps, R!Snooze(rule) PROVE RebuildInv'
  BY <1>6, SnoozeKeeps
<1>7. CASE UNCHANGED R!vars
  BY <1>7, DateStutterKeeps
<1> QED BY <1>1, <1>2, <1>3, <1>4, <1>5, <1>6, <1>7 DEF R!Next

LEMMA DateInvariant == R!Spec => []RebuildInv
<1>1. R!Init => RebuildInv
  BY DateInitKeeps, DatesAsAssumed
<1>2. RebuildInv /\ [R!Next]_(R!vars) => RebuildInv'
  BY DateStepKeeps, DatesAsAssumed
<1> QED BY <1>1, <1>2, PTL DEF R!Spec

(* The date, its deliveries and the rebuilds keep to their types, whatever    *)
(* the number of rebuilds, changes, undos and crashes.                      *)
THEOREM DatesAreTyped == R!Spec => []R!TypeOK
<1>1. RebuildInv => R!TypeOK
  BY DEF RebuildInv, DateTyped
<1> QED BY <1>1, DateInvariant, PTL

(* A date whose flag is down and that no rebuild is working on has exactly    *)
(* the reminders its rules ask for, each once, less those withdrawn one by   *)
(* one: over reschedules, changed reminders, completions, their undos,       *)
(* mutes, snoozes, failed rebuilds and rebuilds that overlap.               *)
THEOREM PlansStayCurrent == R!Spec => []R!PlanIsCurrent
<1>1. RebuildInv => R!PlanIsCurrent
  BY ServesIsCurrent, DatesAsAssumed DEF RebuildInv, PlanHolds, R!PlanIsCurrent
<1> QED BY <1>1, DateInvariant, PTL
-----------------------------------------------------------------------------
(* The three together.                                                      *)
LifeInv ==
  /\ world \in {"series", "rebuild", "undated"}
  /\ SeriesInv
  /\ world = "rebuild" => RebuildInv
  /\ world = "undated" => UndatedInv

LEMMA LifeBegins == LifeInit => LifeInv
<1> SUFFICES ASSUME LifeInit PROVE LifeInv
  OBVIOUS
<1>1. Init => SeriesInv
  BY InitKeeps
<1>2. R!Init => RebuildInv
  BY DateInitKeeps, DatesAsAssumed
<1>3. U!Init => UndatedInv
  BY UndatedInitKeeps
<1> QED BY <1>1, <1>2, <1>3 DEF LifeInit, LifeInv, Created

LEMMA LifeGoesOn == LifeInv /\ [LifeNext]_allVars => LifeInv' /\ [ExactUndo]_vars
<1> SUFFICES ASSUME LifeInv, [LifeNext]_allVars PROVE LifeInv' /\ [ExactUndo]_vars
  OBVIOUS
<1>1. ASSUME [Next]_vars PROVE SeriesInv' /\ [ExactUndo]_vars
  BY <1>1, StepKeeps DEF LifeInv
<1>2. ASSUME RebuildInv, [R!Next]_(R!vars) PROVE RebuildInv'
  BY <1>2, DateStepKeeps, DatesAsAssumed
<1>3. CASE InSeries(Next)
  BY <1>1, <1>3 DEF InSeries, LifeInv
<1>4. CASE InRebuild(R!Next)
  BY <1>1, <1>2, <1>4 DEF InRebuild, LifeInv
<1>5. CASE InUndated(U!Next)
  BY <1>1, <1>5, UndatedStepKeeps DEF InUndated, LifeInv
<1>6. CASE UNCHANGED allVars
  <2>1. SeriesInv' /\ [ExactUndo]_vars
    BY <1>1, <1>6 DEF allVars
  <2>2. RebuildInv => RebuildInv'
    BY <1>2, <1>6 DEF allVars, planning, rebuildOnly, vars, R!vars
  <2>3. UndatedInv => UndatedInv'
    BY <1>6, UndatedStepKeeps DEF allVars, planning, undatedOnly, vars, U!vars
  <2> QED BY <1>6, <2>1, <2>2, <2>3 DEF LifeInv, allVars
<1> QED BY <1>3, <1>4, <1>5, <1>6 DEF LifeNext

LEMMA LifeInvariant == LifeSpec => []LifeInv
<1>1. LifeInv /\ [LifeNext]_allVars => LifeInv'
  BY LifeGoesOn
<1> QED BY <1>1, LifeBegins, PTL DEF LifeSpec

(* Whichever of the three a task's life is, every variable keeps its type.  *)
THEOREM LifeIsTyped == LifeSpec => []TypesOK
<1>1. LifeInv => TypesOK
  BY DEF LifeInv, TypesOK, SeriesInv, Typed, UndatedInv, UndatedTyped, RebuildInv, DateTyped
<1> QED BY <1>1, LifeInvariant, PTL

(* A series in a life of any of the three kinds is as its own theorems have  *)
(* it: quiet when stopped, true to its rule, and undone exactly.            *)
THEOREM LifeKeepsSeries ==
  LifeSpec => []StoppedIsQuiet /\ []DatesFollowTheRule /\ UndoIsExact
<1>1. LifeInv => StoppedIsQuiet /\ DatesFollowTheRule
  BY DEF LifeInv, SeriesInv
<1>2. LifeInv /\ [LifeNext]_allVars => [ExactUndo]_vars
  BY LifeGoesOn
<1>3. LifeSpec => [][ExactUndo]_vars
  BY <1>2, LifeInvariant, PTL DEF LifeSpec
<1> QED BY <1>1, <1>3, LifeInvariant, PTL DEF UndoIsExact

(* A date that no rebuild is due for has the reminders its rules ask for,    *)
(* and a task without a date makes one contact in the minute of its review, *)
(* for every set of moments and reminders, every number of rebuilds at work *)
(* and every bound on the changes, undos and crashes.                       *)
THEOREM RemindersStayCurrent == LifeSpec => []RemindersAreCurrent
<1>1. RebuildInv => R!PlanIsCurrent
  BY ServesIsCurrent, DatesAsAssumed DEF RebuildInv, PlanHolds, R!PlanIsCurrent
<1>2. LifeInv => RemindersAreCurrent
  BY <1>1, OneContact DEF LifeInv, RemindersAreCurrent
<1> QED BY <1>2, LifeInvariant, PTL
=============================================================================
