------------------------ MODULE ReminderPlanningProofs ------------------------
(***************************************************************************)
(* What the notification policy promises of every contact of every plan,   *)
(* for all quiet hours, tasks, rules and snoozes.  The inductive invariant *)
(* says that the candidates of a plan are what the policy said of the      *)
(* rules and the task as they still are: every edit of either cancels the  *)
(* plan in the same transaction.  The rest is about the policy alone.      *)
(***************************************************************************)
EXTENDS ReminderPlanning, FunctionTheorems, FiniteSetTheorems, SequenceTheorems, WellFoundedInduction, TLAPS

(* The search for the end of quiet hours returns a minute outside them. *)
LEMMA QuietEndFound ==
  ASSUME NEW t \in Int, QuietEnds(t) # {}
  PROVE  /\ NextNonQuietMinute(t) \in Int
         /\ NextNonQuietMinute(t) >= t
         /\ ~IsQuietAt(NextNonQuietMinute(t))
<1>1. NextNonQuietMinute(t) \in QuietEnds(t)
  BY DEF NextNonQuietMinute
<1> QED
  BY <1>1, PolicyAssumption DEF QuietEnds, IsQuietAt, PolicyAssumption

(* A contact as the policy expects it. *)
IsContact(c) ==
  /\ c.intended \in Int /\ c.boundary \in Int /\ c.snoozedUntil \in Int
  /\ c.kind \in {"task", "event"}
  /\ c.respect \in BOOLEAN /\ c.attempted \in BOOLEAN

(* When the policy lets a contact through, quiet hours had an end to find   *)
(* if they mattered, and the moment is where it was put off to, or now.     *)
LEMMA AllowedContact ==
  ASSUME NEW c, IsContact(c), NEW n \in Int, Policy(c, n).verdict = "ok"
  PROVE  /\ QuietDefers(c) => QuietEnds(Snoozed(c)) # {}
         /\ Policy(c, n).at = Later(DeferredTo(c, n), n)
         /\ Snoozed(c) > c.intended => ~StaleForEvent(c, Snoozed(c))
         /\ QuietDefers(c) => ~StaleForEvent(c, DeferredTo(c, n))
         /\ DeferredTo(c, n) - c.intended <= MaxDeferral
         /\ n - DeferredTo(c, n) <= Grace \/ c.attempted
         /\ Snoozed(c) \in Int /\ DeferredTo(c, n) \in Int
<1>1. Snoozed(c) \in Int
  BY DEF Snoozed, Later, IsContact
<1>2. /\ ~(Snoozed(c) > c.intended /\ StaleForEvent(c, Snoozed(c)))
      /\ ~(QuietDefers(c) /\ QuietEnds(Snoozed(c)) = {})
      /\ ~(QuietDefers(c) /\ StaleForEvent(c, DeferredTo(c, n)))
      /\ ~(DeferredTo(c, n) - c.intended > MaxDeferral)
      /\ ~(n - DeferredTo(c, n) > Grace /\ ~c.attempted)
      /\ Policy(c, n).at = Later(DeferredTo(c, n), n)
  BY DEF Policy, Outcome
<1>3. DeferredTo(c, n) \in Int
  BY <1>1, <1>2, QuietEndFound DEF DeferredTo, Later, IsContact
<1> QED
  BY <1>1, <1>2, <1>3, PolicyAssumption DEF PolicyAssumption, IsContact

(* Quiet hours hold for a contact still to come, but for the task's own     *)
(* moment.                                                                  *)
LEMMA PolicyKeepsQuiet ==
  ASSUME NEW c, IsContact(c), NEW n \in Int, Policy(c, n).verdict = "ok",
         Policy(c, n).at > n, c.respect, IsQuietAt(Policy(c, n).at)
  PROVE  c.kind = "task" /\ Policy(c, n).at = c.boundary
<1>1. Policy(c, n).at = DeferredTo(c, n)
  BY AllowedContact DEF Later
<1>2. CASE ~QuietDefers(c)
  BY <1>1, <1>2 DEF DeferredTo, QuietDefers
<1>3. CASE QuietDefers(c) /\ ~CappedAtTask(c)
  <2>1. ~IsQuietAt(NextNonQuietMinute(Snoozed(c)))
    BY <1>3, AllowedContact, QuietEndFound
  <2> QED
    BY <1>1, <1>3, <2>1 DEF DeferredTo
<1>4. CASE QuietDefers(c) /\ CappedAtTask(c)
  BY <1>1, <1>4 DEF DeferredTo, CappedAtTask, Later
<1> QED
  BY <1>2, <1>3, <1>4

(* A contact about an event is not put off beyond the event. *)
LEMMA PolicyStopsAtEvent ==
  ASSUME NEW c, IsContact(c), NEW n \in Int, Policy(c, n).verdict = "ok",
         c.kind = "event", c.boundary # NoBoundary, Policy(c, n).at > c.boundary
  PROVE  Policy(c, n).at = n \/ Policy(c, n).at = c.intended
<1>1. CASE Policy(c, n).at # DeferredTo(c, n)
  BY <1>1, AllowedContact DEF Later
<1>2. CASE Policy(c, n).at = DeferredTo(c, n) /\ QuietDefers(c)
  BY <1>2, AllowedContact DEF StaleForEvent
<1>3. CASE Policy(c, n).at = DeferredTo(c, n) /\ ~QuietDefers(c)
  <2>1. Policy(c, n).at = Snoozed(c)
    BY <1>3 DEF DeferredTo
  <2>2. ~(Snoozed(c) > c.intended)
    BY <2>1, AllowedContact DEF StaleForEvent
  <2> QED
    BY <2>1, <2>2 DEF Snoozed, Later, IsContact
<1> QED
  BY <1>1, <1>2, <1>3

(* A contact allowed at n for a later moment is allowed again at that       *)
(* moment, and for the length of Grace after it.                            *)
LEMMA PolicyAgrees ==
  ASSUME NEW c, IsContact(c), NEW n \in Int, Policy(c, n).verdict = "ok",
         Policy(c, n).at > n,
         NEW m \in Int, m \in Policy(c, n).at .. (Policy(c, n).at + Grace),
         m - c.intended <= MaxDeferral
  PROVE  Policy(c, m) = Outcome("ok", m)
<1>1. Policy(c, n).at = DeferredTo(c, n) /\ DeferredTo(c, n) \in Int
  BY AllowedContact DEF Later
<1>2. /\ DeferredTo(c, n) <= m
      /\ m - DeferredTo(c, n) <= Grace
  BY <1>1, PolicyAssumption DEF PolicyAssumption
<1>3. \/ DeferredTo(c, m) = DeferredTo(c, n)
      \/ DeferredTo(c, m) = m /\ CappedAtTask(c)
  <2>1. CASE QuietDefers(c) /\ CappedAtTask(c)
    <3>1. DeferredTo(c, n) = c.boundary
      BY <1>1, <2>1 DEF DeferredTo, Later
    <3> QED
      BY <1>2, <2>1, <3>1 DEF DeferredTo, Later, IsContact
  <2>2. CASE ~(QuietDefers(c) /\ CappedAtTask(c))
    BY <2>2 DEF DeferredTo
  <2> QED
    BY <2>1, <2>2
<1>4. DeferredTo(c, m) \in Int /\ DeferredTo(c, m) <= m /\ m - DeferredTo(c, m) <= Grace
  BY <1>1, <1>2, <1>3, PolicyAssumption DEF PolicyAssumption
<1>5. ~(Snoozed(c) > c.intended /\ StaleForEvent(c, Snoozed(c)))
  BY AllowedContact
<1>6. ~(QuietDefers(c) /\ QuietEnds(Snoozed(c)) = {})
  BY AllowedContact
<1>7. ~(QuietDefers(c) /\ StaleForEvent(c, DeferredTo(c, m)))
  <2>1. CASE CappedAtTask(c)
    BY <2>1 DEF CappedAtTask, StaleForEvent
  <2>2. CASE DeferredTo(c, m) = DeferredTo(c, n)
    BY <2>2, AllowedContact
  <2> QED
    BY <1>3, <2>1, <2>2
<1>8. ~(DeferredTo(c, m) - c.intended > MaxDeferral)
  BY <1>4, PolicyAssumption DEF PolicyAssumption, IsContact
<1>9. ~(m - DeferredTo(c, m) > Grace)
  BY <1>4, PolicyAssumption DEF PolicyAssumption
<1>10. Later(DeferredTo(c, m), m) = m
  BY <1>4 DEF Later
<1> QED
  BY <1>5, <1>6, <1>7, <1>8, <1>9, <1>10 DEF Policy
-----------------------------------------------------------------------------
(* The candidates are what the policy said of the rules and the task as     *)
(* they are.                                                                *)
RatedByPolicy ==
  /\ now \in Int /\ planned.at \in Int
  /\ snoozed \in Int /\ planned.until \in Int
  /\ task \in Tasks /\ rules \in Seq(Rules)
  /\ \A i \in DOMAIN rated :
       i \in DOMAIN rules /\ rated[i] = Policy(ContactOf(i), planned.at)

(* The empty plan has no candidates. *)
LEMMA NoPlanIsEmpty == DOMAIN NoPlan = {}
BY DEF NoPlan

(* The initial state has no candidates. *)
LEMMA RatedInit == Init => RatedByPolicy
BY NoPlanIsEmpty DEF Init, RatedByPolicy

(* Every step keeps the candidates in line with what they were rated from. *)
LEMMA RatedStep == RatedByPolicy /\ [Next]_vars => RatedByPolicy'
<1> SUFFICES ASSUME RatedByPolicy, [Next]_vars PROVE RatedByPolicy'
  OBVIOUS
<1>1. ASSUME NEW r \in Rules, AddRule(r) PROVE RatedByPolicy'
  <2>1. rules' \in Seq(Rules)
    BY <1>1 DEF AddRule, RatedByPolicy
  <2>2. DOMAIN rated' = {}
    BY <1>1, NoPlanIsEmpty DEF AddRule, Ask
  <2> QED
    BY <1>1, <2>1, <2>2 DEF AddRule, RatedByPolicy
<1>2. ASSUME NEW t \in Tasks, Reschedule(t) PROVE RatedByPolicy'
  <2>1. DOMAIN rated' = {}
    BY <1>2, NoPlanIsEmpty DEF Reschedule, Ask
  <2> QED
    BY <1>2, <2>1 DEF Reschedule, RatedByPolicy
<1>3. CASE Rebuild
  <2>1. /\ planned'.at = now /\ planned'.until = snoozed
        /\ UNCHANGED <<now, task, rules, snoozed>>
        /\ rated' = Rated(task, rules, snoozed, now)
    BY <1>3 DEF Rebuild
  <2>2. ASSUME NEW i \in DOMAIN rated'
        PROVE  i \in DOMAIN rules' /\ rated'[i] = Policy(ContactOf(i), planned.at)'
    BY <2>1 DEF Rated, ContactOf
  <2> QED
    BY <2>1, <2>2 DEF RatedByPolicy
<1>4. ASSUME NEW t \in Snoozes, Snooze(t) PROVE RatedByPolicy'
  BY <1>4, PlanningAssumption DEF Snooze, RatedByPolicy, PlanningAssumption, ContactOf
<1>5. CASE Tick
  BY <1>5 DEF Tick, RatedByPolicy, ContactOf
<1>6. CASE UNCHANGED vars
  BY <1>6 DEF vars, RatedByPolicy, ContactOf
<1> QED
  BY <1>1, <1>2, <1>3, <1>4, <1>5, <1>6 DEF Next

(* A candidate's contact is one the policy expects. *)
LEMMA RatedContact ==
  ASSUME RatedByPolicy, NEW i \in Allowed
  PROVE  /\ IsContact(ContactOf(i))
         /\ rated[i] = Policy(ContactOf(i), planned.at)
         /\ rated[i].verdict = "ok"
         /\ ContactOf(i).kind = task.kind
         /\ ContactOf(i).boundary = task.boundary
         /\ ContactOf(i).respect = rules[i].respect
         /\ ContactOf(i).intended = Intent(task, rules[i])
         /\ now \in Int /\ planned.at \in Int
<1>1. /\ i \in DOMAIN rules /\ rated[i].verdict = "ok"
      /\ rated[i] = Policy(ContactOf(i), planned.at)
  BY DEF RatedByPolicy, Allowed
<1>2. rules[i] \in RuleType /\ task \in TaskType
  BY <1>1, PlanningAssumption DEF RatedByPolicy, PlanningAssumption
<1>3. Intent(task, rules[i]) \in Int
  BY <1>2 DEF Intent, RuleType, TaskType
<1>4. IsContact(ContactOf(i))
  BY <1>2, <1>3 DEF IsContact, ContactOf, Contact, RuleType, TaskType, RatedByPolicy
<1>5. now \in Int /\ planned.at \in Int
  BY DEF RatedByPolicy
<1> QED
  BY <1>1, <1>4, <1>5 DEF ContactOf, Contact

(* The candidates keep quiet hours, ... *)
LEMMA RatedQuiet == RatedByPolicy => QuietIsKept
<1> SUFFICES ASSUME RatedByPolicy, NEW i \in Allowed,
                    ToCome(i), rules[i].respect, IsQuietAt(rated[i].at)
             PROVE  task.kind = "task" /\ rated[i].at = task.boundary
  BY DEF QuietIsKept
<1> DEFINE c == ContactOf(i)
<1>1. /\ IsContact(c) /\ rated[i] = Policy(c, planned.at) /\ rated[i].verdict = "ok"
      /\ c.kind = task.kind /\ c.boundary = task.boundary
      /\ c.respect = rules[i].respect /\ c.intended = Intent(task, rules[i])
      /\ now \in Int /\ planned.at \in Int
  BY RatedContact
<1> HIDE DEF c
<1> QED
  BY <1>1, PolicyKeepsQuiet DEF ToCome

(* ... stop at the event, ... *)
LEMMA RatedEvent == RatedByPolicy => DeferralStopsAtEvent
<1> SUFFICES ASSUME RatedByPolicy, NEW i \in Allowed,
                    task.kind = "event", task.boundary # NoBoundary,
                    rated[i].at > task.boundary
             PROVE  rated[i].at = planned.at \/ rated[i].at = Intent(task, rules[i])
  BY DEF DeferralStopsAtEvent
<1> DEFINE c == ContactOf(i)
<1>1. /\ IsContact(c) /\ rated[i] = Policy(c, planned.at) /\ rated[i].verdict = "ok"
      /\ c.kind = task.kind /\ c.boundary = task.boundary
      /\ c.respect = rules[i].respect /\ c.intended = Intent(task, rules[i])
      /\ now \in Int /\ planned.at \in Int
  BY RatedContact
<1> HIDE DEF c
<1> QED
  BY <1>1, PolicyStopsAtEvent

(* ... and are judged the same when they are delivered. *)
LEMMA RatedAgrees == RatedByPolicy => DeliveryAgrees
<1> SUFFICES ASSUME RatedByPolicy, NEW i \in Allowed,
                    ToCome(i), now \in rated[i].at .. (rated[i].at + Grace),
                    now - Intent(task, rules[i]) <= MaxDeferral
             PROVE  Policy(ContactOf(i), now) = Outcome("ok", now)
  BY DEF DeliveryAgrees
<1> DEFINE c == ContactOf(i)
<1>1. /\ IsContact(c) /\ rated[i] = Policy(c, planned.at) /\ rated[i].verdict = "ok"
      /\ c.kind = task.kind /\ c.boundary = task.boundary
      /\ c.respect = rules[i].respect /\ c.intended = Intent(task, rules[i])
      /\ now \in Int /\ planned.at \in Int
  BY RatedContact
<1> HIDE DEF c
<1> QED
  BY <1>1, PolicyAgrees DEF ToCome, c

-----------------------------------------------------------------------------
(* A set of numbers that is not empty has a least one: the merge is shown   *)
(* of the least number of candidates that would break it.                   *)
LEMMA Least ==
  ASSUME NEW X \in SUBSET Nat, X # {}
  PROVE  \E n \in X : \A m \in X : n <= m
<1> DEFINE R == {ss \in Nat \X Nat : ss[1] < ss[2]}
<1>1. IsWellFoundedOn(R, Nat)
  BY NatLessThanWellFounded DEF OpToRel
<1>2. \A m, n \in Nat : m < n => <<m, n>> \in R
  OBVIOUS
<1> HIDE DEF R
<1>3. PICK n \in X : \A m \in X : <<m, n>> \notin R
  BY <1>1, WFMin
<1>4. ASSUME NEW m \in X PROVE n <= m
  <2>1. ~(m < n)
    BY <1>2, <1>3, Zenon
  <2> QED BY <2>1
<1> QED BY <1>4

(* Candidates the merge can order: each has a number and a moment. *)
Candidates(c) ==
  /\ IsFiniteSet(DOMAIN c) /\ DOMAIN c \subseteq Int
  /\ \A i \in DOMAIN c : c[i].at \in Int

IsOrder(c, s) ==
  /\ s \in [1 .. Cardinality(DOMAIN c) -> DOMAIN c]
  /\ \A m, n \in DOMAIN s : m < n => Before(c, s[m], s[n])

(* Candidates have an order: one has as its place how many are not after it. *)
LEMMA OrderExists ==
  ASSUME NEW c, Candidates(c)
  PROVE  \E s : IsOrder(c, s)
<1> DEFINE S == DOMAIN c
           k == Cardinality(S)
           Down(i) == {j \in S : j = i \/ Before(c, j, i)}
           f == [i \in S |-> Cardinality(Down(i))]
<1>1. IsFiniteSet(S) /\ k \in Nat
  BY FS_CardinalityType DEF Candidates
<1>2. \A i, j \in S : i = j \/ Before(c, i, j) \/ Before(c, j, i)
  BY DEF Before, Candidates
<1>3. \A i, j, h \in S : Before(c, i, j) /\ Before(c, j, h) => Before(c, i, h)
  BY DEF Before, Candidates
<1>4. \A i \in S : ~Before(c, i, i)
  BY DEF Before, Candidates
<1>5. ASSUME NEW i \in S
      PROVE  IsFiniteSet(Down(i)) /\ Cardinality(Down(i)) \in 1 .. k
  <2>1. Down(i) \in SUBSET S /\ i \in Down(i)
    OBVIOUS
  <2> HIDE DEF Down
  <2>2. IsFiniteSet(Down(i)) /\ Cardinality(Down(i)) <= k
    BY <1>1, <2>1, FS_Subset
  <2>3. Cardinality(Down(i)) \in Nat /\ Cardinality(Down(i)) # 0
    BY <2>1, <2>2, FS_CardinalityType, FS_EmptySet
  <2> QED BY <1>1, <2>2, <2>3
<1>6. ASSUME NEW i \in S, NEW j \in S, Before(c, i, j)
      PROVE  Cardinality(Down(i)) < Cardinality(Down(j))
  <2>1. Down(i) \in SUBSET Down(j)
    BY <1>3, <1>6
  <2>2. j \in Down(j) /\ j \notin Down(i)
    BY <1>3, <1>4, <1>6
  <2>3. /\ IsFiniteSet(Down(j)) /\ Cardinality(Down(i)) \in Int /\ Cardinality(Down(j)) \in Int
    BY <1>5
  <2> HIDE DEF Down
  <2>4. Cardinality(Down(i)) <= Cardinality(Down(j)) /\ Cardinality(Down(i)) # Cardinality(Down(j))
    BY <2>1, <2>2, <2>3, FS_Subset
  <2> QED BY <2>3, <2>4
<1> HIDE DEF Down
<1>7. f \in [S -> 1 .. k]
  BY <1>5
<1>8. \A i, j \in S : Before(c, i, j) => f[i] < f[j]
  BY <1>6
<1>9. \A i, j \in S : f[i] \in Int
  BY <1>7
<1> HIDE DEF f
<1>10. \A i, j \in S : f[i] = f[j] => i = j
  BY <1>2, <1>8, <1>9
<1>11. f \in Injection(S, 1 .. k)
  BY <1>7, <1>10 DEF Injection, IsInjective
<1>12. IsFiniteSet(1 .. k) /\ Cardinality(1 .. k) = k
  BY <1>1, FS_Interval
<1>13. f \in Surjection(S, 1 .. k)
  BY <1>11, <1>12, FS_Injection
<1>14. \A n \in 1 .. k : \E i \in S : f[i] = n
  BY <1>13 DEF Surjection
<1> DEFINE s == [n \in 1 .. k |-> CHOOSE i \in S : f[i] = n]
<1>15. s \in [1 .. k -> S] /\ \A n \in 1 .. k : f[s[n]] = n
  BY <1>14
<1> HIDE DEF s
<1>16. ASSUME NEW m \in 1 .. k, NEW n \in 1 .. k, m < n
       PROVE  Before(c, s[m], s[n])
  <2>1. s[m] \in S /\ s[n] \in S /\ f[s[m]] = m /\ f[s[n]] = n
    BY <1>15
  <2> QED BY <1>2, <1>8, <1>16, <2>1
<1>17. IsOrder(c, s)
  BY <1>15, <1>16 DEF IsOrder
<1> QED BY <1>17

(* InOrder puts every candidate in its place. *)
LEMMA InOrderIsOrder ==
  ASSUME NEW c, Candidates(c)
  PROVE  /\ IsOrder(c, InOrder(c))
         /\ InOrder(c) \in Seq(DOMAIN c) /\ Len(InOrder(c)) = Cardinality(DOMAIN c)
         /\ \A i \in DOMAIN c : \E n \in 1 .. Len(InOrder(c)) : InOrder(c)[n] = i
<1> DEFINE s == InOrder(c)
           S == DOMAIN c
           k == Cardinality(S)
<1>1. IsOrder(c, s)
  BY OrderExists DEF InOrder, IsOrder
<1> HIDE DEF s
<1>2. IsFiniteSet(S) /\ k \in Nat
  BY FS_CardinalityType DEF Candidates
<1>3. s \in [1 .. k -> S] /\ \A m, n \in 1 .. k : m < n => Before(c, s[m], s[n])
  BY <1>1 DEF IsOrder
<1>4. \A i \in S : ~Before(c, i, i)
  BY DEF Before, Candidates
<1>5. \A m, n \in 1 .. k : s[m] = s[n] => m = n
  <2> SUFFICES ASSUME NEW m \in 1 .. k, NEW n \in 1 .. k, s[m] = s[n], m < n PROVE FALSE
    BY <1>2
  <2> QED BY <1>3, <1>4
<1>6. s \in Injection(1 .. k, S)
  BY <1>3, <1>5 DEF Injection, IsInjective
<1>7. Cardinality(1 .. k) = k
  BY <1>2, FS_Interval
<1>8. s \in Surjection(1 .. k, S)
  BY <1>2, <1>6, <1>7, FS_Injection
<1>9. \A i \in S : \E n \in 1 .. k : s[n] = i
  BY <1>8 DEF Surjection
<1>10. s \in Seq(S) /\ Len(s) = k
  BY <1>2, <1>3
<1> QED BY <1>1, <1>9, <1>10 DEF s
-----------------------------------------------------------------------------
(* The merge: a function of how many candidates have joined.                *)
IsMerge(f, c, rs, m) ==
  f = [n \in 0 .. m |-> IF n = 0 THEN <<>> ELSE Joined(c, rs, f[n - 1], InOrder(c)[n])]

LEMMA MergeExists ==
  ASSUME NEW c, NEW rs, Len(InOrder(c)) \in Nat
  PROVE  \E f : IsMerge(f, c, rs, Len(InOrder(c)))
<1> DEFINE order == InOrder(c)
           X == {m \in Nat : m <= Len(order) /\ ~ \E f : IsMerge(f, c, rs, m)}
<1>1. IsMerge([n \in 0 .. 0 |-> <<>>], c, rs, 0)
  BY DEF IsMerge
<1>2. ASSUME NEW m \in Nat, NEW f, IsMerge(f, c, rs, m)
      PROVE  \E g : IsMerge(g, c, rs, m + 1)
  <2> DEFINE g == [n \in 0 .. m + 1 |->
                     IF n = m + 1 THEN Joined(c, rs, f[m], order[m + 1]) ELSE f[n]]
  <2>1. \A n \in 0 .. m : g[n] = f[n]
    OBVIOUS
  <2>2. \A n \in 0 .. m : f[n] = IF n = 0 THEN <<>> ELSE Joined(c, rs, f[n - 1], order[n])
    BY <1>2 DEF IsMerge
  <2>3. ASSUME NEW n \in 0 .. m + 1
        PROVE  g[n] = IF n = 0 THEN <<>> ELSE Joined(c, rs, g[n - 1], order[n])
    <3>1. CASE n = m + 1
      <4>1. g[n] = Joined(c, rs, f[m], order[n]) /\ n # 0 /\ n - 1 = m
        BY <3>1
      <4>2. g[n - 1] = f[m]
        BY <2>1, <4>1
      <4> HIDE DEF g, order
      <4> QED BY <4>1, <4>2
    <3>2. CASE n \in 0 .. m
      <4>1. g[n] = f[n] /\ (n # 0 => n - 1 \in 0 .. m)
        BY <2>1, <3>2
      <4>2. n # 0 => g[n - 1] = f[n - 1]
        BY <2>1, <4>1
      <4> HIDE DEF g, order
      <4> QED BY <2>2, <3>2, <4>1, <4>2
    <3> QED BY <3>1, <3>2
  <2>4. g = [n \in 0 .. m + 1 |-> g[n]]
    OBVIOUS
  <2> HIDE DEF g
  <2>5. IsMerge(g, c, rs, m + 1)
    BY <2>3, <2>4 DEF IsMerge
  <2> QED BY <2>5
<1>3. X = {}
  <2> SUFFICES ASSUME X # {} PROVE FALSE
    OBVIOUS
  <2>1. PICK m \in X : \A k \in X : m <= k
    BY Least
  <2>2. m \in Nat /\ m # 0 /\ m <= Len(order)
    BY <1>1, <2>1
  <2>3. m - 1 \in Nat /\ m - 1 \notin X /\ m - 1 <= Len(order)
    BY <2>1, <2>2
  <2>4. PICK f : IsMerge(f, c, rs, m - 1)
    BY <2>3
  <2>5. \E g : IsMerge(g, c, rs, (m - 1) + 1)
    BY <1>2, <2>3, <2>4
  <2>6. (m - 1) + 1 = m
    BY <2>2
  <2> QED BY <2>1, <2>5, <2>6
<1> QED BY <1>3

LEMMA MergeGoes ==
  ASSUME NEW c, NEW rs, Len(InOrder(c)) \in Nat
  PROVE  \E f : /\ Merge(c, rs) = f[Len(InOrder(c))] /\ f[0] = <<>>
               /\ \A n \in 1 .. Len(InOrder(c)) :
                    f[n] = Joined(c, rs, f[n - 1], InOrder(c)[n])
<1> DEFINE f == CHOOSE f : IsMerge(f, c, rs, Len(InOrder(c)))
<1>1. IsMerge(f, c, rs, Len(InOrder(c)))
  BY MergeExists
<1>2. Merge(c, rs) = f[Len(InOrder(c))]
  BY DEF Merge, IsMerge
<1> HIDE DEF f
<1>3. /\ f[0] = <<>>
      /\ \A n \in 1 .. Len(InOrder(c)) : f[n] = Joined(c, rs, f[n - 1], InOrder(c)[n])
  BY <1>1 DEF IsMerge
<1> QED BY <1>2, <1>3

(* What has joined comes from the first candidates, and for each of them    *)
(* that the user asked for one is there that the user asked for, no more    *)
(* than a gap later for every candidate that has joined since.              *)
Speaks(c, rs, i) == c[i].verdict = "ok" /\ Explicit(rs, i)

Heard(c, rs, q, n) ==
  /\ q \in Seq(DOMAIN c)
  /\ \A m \in 1 .. Len(q) : \E k \in 1 .. n : q[m] = InOrder(c)[k]
  /\ \A k \in 1 .. n : Speaks(c, rs, InOrder(c)[k]) =>
       \E m \in 1 .. Len(q) : /\ Speaks(c, rs, q[m])
                              /\ c[q[m]].at - c[InOrder(c)[k]].at \in 0 .. (Gap * (n - k))

LEMMA GapsAdd ==
  ASSUME NEW n \in Nat, NEW k \in Nat, k <= n
  PROVE  /\ Gap \in Nat /\ Gap * (n - k) \in Nat
         /\ Gap * ((n + 1) - k) = Gap * (n - k) + Gap
BY PlanningAssumption DEF PlanningAssumption

(* What stays in the merge goes on speaking. *)
LEMMA StaysHeard ==
  ASSUME NEW c, Candidates(c), NEW n \in Nat, NEW k \in 1 .. n,
         NEW i \in DOMAIN c, NEW j \in DOMAIN c, NEW h \in DOMAIN c,
         c[j].at - c[i].at \in 0 .. (Gap * (n - k)),
         c[h].at - c[j].at \in 0 .. Gap
  PROVE  c[h].at - c[i].at \in 0 .. (Gap * ((n + 1) - k))
<1>1. /\ Gap \in Nat /\ Gap * (n - k) \in Nat
      /\ Gap * ((n + 1) - k) = Gap * (n - k) + Gap
  BY GapsAdd
<1>2. c[i].at \in Int /\ c[j].at \in Int /\ c[h].at \in Int
  BY DEF Candidates
<1> QED BY <1>1, <1>2

LEMMA JoinedIsHeard ==
  ASSUME NEW c, NEW rs, Candidates(c), NEW n \in Nat, n + 1 <= Len(InOrder(c)),
         NEW q, Heard(c, rs, q, n)
  PROVE  Heard(c, rs, Joined(c, rs, q, InOrder(c)[n + 1]), n + 1)
<1> DEFINE order == InOrder(c)
           i == order[n + 1]
           p == Joined(c, rs, q, i)
<1>1. /\ order \in Seq(DOMAIN c) /\ Len(order) \in Nat /\ i \in DOMAIN c
      /\ \A k \in 1 .. n + 1 : order[k] \in DOMAIN c
      /\ \A k \in 1 .. n : Before(c, order[k], i)
  BY InOrderIsOrder DEF IsOrder
<1>2. q \in Seq(DOMAIN c) /\ Len(q) \in Nat /\ \A m \in 1 .. Len(q) : q[m] \in DOMAIN c
  BY DEF Heard
<1> HIDE DEF order, i
<1>3. /\ \A m \in 1 .. Len(q) : \E k \in 1 .. n : q[m] = order[k]
      /\ \A k \in 1 .. n : Speaks(c, rs, order[k]) =>
           \E m \in 1 .. Len(q) : /\ Speaks(c, rs, q[m])
                                  /\ c[q[m]].at - c[order[k]].at \in 0 .. (Gap * (n - k))
  BY DEF Heard, order
<1>4. order[n + 1] = i
  BY DEF i
<1>5. Gap \in Nat /\ 0 \in 0 .. Gap
  BY PlanningAssumption DEF PlanningAssumption
<1>6. \A j \in DOMAIN c : c[j].at \in Int /\ c[j].at - c[j].at \in 0 .. Gap
  BY <1>5 DEF Candidates
<1>7. ASSUME NEW k \in 1 .. n, NEW h \in DOMAIN c, Speaks(c, rs, h), NEW m \in 1 .. Len(q),
             c[q[m]].at - c[order[k]].at \in 0 .. (Gap * (n - k)),
             c[h].at - c[q[m]].at \in 0 .. Gap
      PROVE  c[h].at - c[order[k]].at \in 0 .. (Gap * ((n + 1) - k))
  <2>1. order[k] \in DOMAIN c /\ q[m] \in DOMAIN c
    BY <1>1, <1>2
  <2> QED BY <1>7, <2>1, StaysHeard
<1>8. c[i].at - c[i].at \in 0 .. (Gap * ((n + 1) - (n + 1)))
  BY <1>1, <1>5, <1>6
<1>9. CASE ~TooClose(c, q, i)
  <2>0. p = Append(q, i)
    BY <1>9 DEF Joined
  <2>1. p \in Seq(DOMAIN c) /\ Len(p) = Len(q) + 1 /\ p[Len(p)] = i
    BY <1>1, <1>2, <2>0
  <2>2. \A m \in 1 .. Len(q) : p[m] = q[m]
    BY <1>2, <2>0
  <2> HIDE DEF p
  <2>3. ASSUME NEW m \in 1 .. Len(p) PROVE \E k \in 1 .. n + 1 : p[m] = order[k]
    <3>1. CASE m = Len(p)
      BY <1>4, <2>1, <3>1
    <3>2. CASE m \in 1 .. Len(q)
      <4>1. PICK k \in 1 .. n : q[m] = order[k]
        BY <1>3, <3>2
      <4> QED BY <2>2, <3>2, <4>1
    <3> QED BY <1>2, <2>1, <3>1, <3>2
  <2>4. ASSUME NEW k \in 1 .. n + 1, Speaks(c, rs, order[k])
        PROVE  \E m \in 1 .. Len(p) :
                 /\ Speaks(c, rs, p[m])
                 /\ c[p[m]].at - c[order[k]].at \in 0 .. (Gap * ((n + 1) - k))
    <3>1. CASE k = n + 1
      <4>1. Len(p) \in 1 .. Len(p)
        BY <1>2, <2>1
      <4> QED BY <1>4, <1>8, <2>1, <2>4, <3>1, <4>1
    <3>2. CASE k \in 1 .. n
      <4>1. PICK m \in 1 .. Len(q) : /\ Speaks(c, rs, q[m])
                                     /\ c[q[m]].at - c[order[k]].at \in 0 .. (Gap * (n - k))
        BY <1>3, <2>4, <3>2
      <4>2. c[q[m]].at - c[order[k]].at \in 0 .. (Gap * ((n + 1) - k))
        BY <1>2, <1>6, <1>7, <3>2, <4>1
      <4>3. m \in 1 .. Len(p) /\ p[m] = q[m]
        BY <1>2, <2>1, <2>2
      <4> QED BY <4>1, <4>2, <4>3
    <3> QED BY <3>1, <3>2
  <2> QED BY <2>1, <2>3, <2>4 DEF Heard, order, p, i
<1>10. CASE TooClose(c, q, i) /\ Explicit(rs, Last(q)) /\ ~Explicit(rs, i)
  <2>1. p = q /\ ~Speaks(c, rs, order[n + 1])
    BY <1>4, <1>10 DEF Joined, Speaks
  <2> HIDE DEF p
  <2>2. ASSUME NEW m \in 1 .. Len(q) PROVE \E k \in 1 .. n + 1 : q[m] = order[k]
    <3>1. PICK k \in 1 .. n : q[m] = order[k]
      BY <1>3
    <3> QED BY <3>1
  <2>3. ASSUME NEW k \in 1 .. n + 1, Speaks(c, rs, order[k])
        PROVE  \E m \in 1 .. Len(q) :
                 /\ Speaks(c, rs, q[m])
                 /\ c[q[m]].at - c[order[k]].at \in 0 .. (Gap * ((n + 1) - k))
    <3>1. k \in 1 .. n
      BY <2>1, <2>3
    <3>2. PICK m \in 1 .. Len(q) : /\ Speaks(c, rs, q[m])
                                   /\ c[q[m]].at - c[order[k]].at \in 0 .. (Gap * (n - k))
      BY <2>3, <1>3, <3>1
    <3>3. c[q[m]].at - c[order[k]].at \in 0 .. (Gap * ((n + 1) - k))
      BY <1>2, <1>6, <1>7, <3>1, <3>2
    <3> QED BY <3>2, <3>3
  <2>4. Heard(c, rs, p, n + 1)
    BY <1>2, <2>1, <2>2, <2>3 DEF Heard, order
  <2> QED BY <2>4 DEF p, i, order
<1>11. CASE TooClose(c, q, i) /\ ~(Explicit(rs, Last(q)) /\ ~Explicit(rs, i))
  <2>1. p = Append(Front(q), i)
    BY <1>11 DEF Joined
  <2>2. Len(q) # 0 /\ Last(q) = q[Len(q)] /\ Len(q) \in 1 .. Len(q)
    BY <1>2, <1>11 DEF TooClose, Last
  <2>3. /\ p \in Seq(DOMAIN c) /\ Len(p) = Len(q) /\ p[Len(q)] = i
        /\ \A m \in 1 .. Len(q) - 1 : p[m] = q[m]
    <3> DEFINE l == Len(q) - 1
               r == SubSeq(q, 1, l)
    <3>0. l \in Nat /\ \A m \in 1 .. l : q[m] \in DOMAIN c
      BY <1>2, <2>2
    <3>1. Front(q) = r
      BY DEF Front
    <3> HIDE DEF l
    <3>2. /\ r \in Seq(DOMAIN c)
          /\ Len(r) = IF 1 <= l THEN l - 1 + 1 ELSE 0
          /\ \A m \in 1 .. l - 1 + 1 : r[m] = q[1 + m - 1]
      BY <3>0, SubSeqProperties
    <3> HIDE DEF r
    <3>3. Len(r) = l /\ \A m \in 1 .. l : r[m] = q[m]
      BY <3>0, <3>2
    <3> QED BY <1>1, <1>2, <2>1, <2>2, <3>1, <3>2, <3>3 DEF l
  <2> HIDE DEF p
  <2>4. c[i].verdict = "ok" /\ c[i].at - c[q[Len(q)]].at < Gap
    BY <1>11, <2>2 DEF TooClose
  <2>5. Speaks(c, rs, q[Len(q)]) => Speaks(c, rs, i)
    BY <1>11, <2>2, <2>4 DEF Speaks
  <2>6. c[i].at - c[q[Len(q)]].at \in 0 .. Gap
    <3>1. PICK k \in 1 .. n : q[Len(q)] = order[k]
      BY <1>3, <2>2
    <3>2. c[order[k]].at <= c[i].at
      <4>1. order[k] \in DOMAIN c /\ Before(c, order[k], i)
        BY <1>1
      <4>2. c[order[k]].at \in Int /\ c[i].at \in Int
        BY <1>1, <1>6, <4>1
      <4> QED BY <4>1, <4>2 DEF Before
    <3>3. c[q[Len(q)]].at \in Int /\ c[i].at \in Int
      BY <1>1, <1>2, <1>6, <2>2
    <3> QED BY <1>5, <2>4, <3>1, <3>2, <3>3
  <2>7. ASSUME NEW m \in 1 .. Len(p) PROVE \E k \in 1 .. n + 1 : p[m] = order[k]
    <3>1. CASE m = Len(q)
      BY <1>4, <2>3, <3>1
    <3>2. CASE m \in 1 .. Len(q) - 1
      <4>1. PICK k \in 1 .. n : q[m] = order[k]
        BY <1>2, <1>3, <3>2
      <4> QED BY <2>3, <3>2, <4>1
    <3> QED BY <1>2, <2>3, <3>1, <3>2
  <2>8. ASSUME NEW k \in 1 .. n + 1, Speaks(c, rs, order[k])
        PROVE  \E m \in 1 .. Len(p) :
                 /\ Speaks(c, rs, p[m])
                 /\ c[p[m]].at - c[order[k]].at \in 0 .. (Gap * ((n + 1) - k))
    <3>1. CASE k = n + 1
      BY <1>4, <1>8, <2>2, <2>3, <2>8, <3>1
    <3>2. CASE k \in 1 .. n
      <4>1. PICK m \in 1 .. Len(q) : /\ Speaks(c, rs, q[m])
                                     /\ c[q[m]].at - c[order[k]].at \in 0 .. (Gap * (n - k))
        BY <1>3, <2>8, <3>2
      <4>2. CASE m = Len(q)
        <5>1. Speaks(c, rs, i)
          BY <2>5, <4>1, <4>2
        <5>2. c[i].at - c[order[k]].at \in 0 .. (Gap * ((n + 1) - k))
          BY <1>1, <1>7, <2>6, <3>2, <4>1, <4>2, <5>1
        <5> QED BY <2>2, <2>3, <5>1, <5>2
      <4>3. CASE m \in 1 .. Len(q) - 1
        <5>1. c[q[m]].at - c[order[k]].at \in 0 .. (Gap * ((n + 1) - k))
          BY <1>2, <1>6, <1>7, <3>2, <4>1
        <5>2. m \in 1 .. Len(p) /\ p[m] = q[m]
          BY <2>3, <4>3
        <5> QED BY <4>1, <5>1, <5>2
      <4> QED BY <1>2, <4>1, <4>2, <4>3
    <3> QED BY <3>1, <3>2
  <2>9. Heard(c, rs, p, n + 1)
    BY <2>3, <2>7, <2>8 DEF Heard, order
  <2> QED BY <2>9 DEF p, i, order
<1> QED BY <1>9, <1>10, <1>11
(* No matter how many candidates: what merges is heard. *)
LEMMA MergeIsHeard ==
  ASSUME NEW c, NEW rs, Candidates(c)
  PROVE  Heard(c, rs, Merge(c, rs), Len(InOrder(c)))
<1> DEFINE k == Len(InOrder(c))
<1>1. k \in Nat
  BY InOrderIsOrder, FS_CardinalityType DEF Candidates
<1>2. PICK f : /\ Merge(c, rs) = f[k] /\ f[0] = <<>>
               /\ \A n \in 1 .. k : f[n] = Joined(c, rs, f[n - 1], InOrder(c)[n])
  BY <1>1, MergeGoes
<1>3. Heard(c, rs, f[0], 0)
  BY <1>2 DEF Heard
<1> DEFINE X == {n \in Nat : n <= k /\ ~Heard(c, rs, f[n], n)}
<1>4. X = {}
  <2> SUFFICES ASSUME X # {} PROVE FALSE
    OBVIOUS
  <2>1. PICK n \in X : \A m \in X : n <= m
    BY Least
  <2>2. n \in Nat /\ n <= k /\ n # 0 /\ ~Heard(c, rs, f[n], n)
    BY <1>3, <2>1
  <2> DEFINE m == n - 1
  <2>3. m \in Nat /\ m + 1 = n /\ m < n /\ m \notin X
    BY <2>1, <2>2
  <2>4. Heard(c, rs, f[m], m) /\ m + 1 <= k /\ n \in 1 .. k
    BY <2>2, <2>3
  <2>5. f[n] = Joined(c, rs, f[m], InOrder(c)[m + 1])
    BY <1>2, <2>3, <2>4
  <2> HIDE DEF m, X
  <2>6. Heard(c, rs, Joined(c, rs, f[m], InOrder(c)[m + 1]), m + 1)
    BY <2>3, <2>4, JoinedIsHeard DEF k
  <2> QED BY <2>2, <2>3, <2>5, <2>6
<1>5. Heard(c, rs, f[k], k)
  BY <1>1, <1>4
<1> QED BY <1>2, <1>5
-----------------------------------------------------------------------------
(* Whatever the verdict, the policy names a moment. *)
LEMMA PolicyNamesMoment ==
  ASSUME NEW c, IsContact(c), NEW n \in Int
  PROVE  Policy(c, n).at \in Int
<1>1. Snoozed(c) \in Int
  BY DEF Snoozed, Later, IsContact
<1>2. (QuietDefers(c) => QuietEnds(Snoozed(c)) # {})
        => DeferredTo(c, n) \in Int
  BY <1>1, QuietEndFound DEF DeferredTo, Later, IsContact
<1> QED
  BY <1>1, <1>2 DEF Policy, Outcome, Later

(* The inductive invariant: a plan is the merge of its candidates, and      *)
(* these are what the policy said.                                          *)
PlanIsMerge ==
  /\ RatedByPolicy
  /\ now \in 0 .. Horizon /\ snoozed \in Snoozes \cup {0} /\ asked \in BOOLEAN
  /\ planned \in [at: 0 .. Horizon, until: Snoozes \cup {0}]
  /\ (rated = NoPlan /\ plan = NoPlan) \/ plan = Merge(rated, rules)

LEMMA MergeInit == Init => PlanIsMerge
<1> SUFFICES ASSUME Init PROVE PlanIsMerge
  OBVIOUS
<1>1. 0 \in 0 .. Horizon
  BY PlanningAssumption DEF PlanningAssumption
<1>2. planned \in [at: 0 .. Horizon, until: Snoozes \cup {0}]
  BY <1>1 DEF Init
<1>3. now = 0 /\ snoozed = 0 /\ asked = FALSE /\ rated = NoPlan /\ plan = NoPlan
  BY DEF Init
<1> QED
  BY <1>1, <1>2, <1>3, RatedInit DEF PlanIsMerge

LEMMA MergeStep == PlanIsMerge /\ [Next]_vars => PlanIsMerge'
<1> SUFFICES ASSUME PlanIsMerge, [Next]_vars PROVE PlanIsMerge'
  OBVIOUS
<1>0. RatedByPolicy'
  BY RatedStep DEF PlanIsMerge
<1>1. ASSUME NEW r \in Rules, AddRule(r) PROVE PlanIsMerge'
  BY <1>0, <1>1 DEF AddRule, Ask, PlanIsMerge, NoPlan
<1>2. ASSUME NEW t \in Tasks, Reschedule(t) PROVE PlanIsMerge'
  BY <1>0, <1>2 DEF Reschedule, Ask, PlanIsMerge, NoPlan
<1>3. CASE Rebuild
  <2>1. planned' \in [at: 0 .. Horizon, until: Snoozes \cup {0}]
    BY <1>3 DEF Rebuild, PlanIsMerge
  <2>2. plan' = Merge(rated', rules')
    BY <1>3 DEF Rebuild
  <2>3. asked' \in BOOLEAN /\ UNCHANGED <<now, snoozed>>
    BY <1>3 DEF Rebuild
  <2> QED BY <1>0, <2>1, <2>2, <2>3 DEF PlanIsMerge
<1>4. ASSUME NEW t \in Snoozes, Snooze(t) PROVE PlanIsMerge'
  BY <1>0, <1>4 DEF Snooze, PlanIsMerge, NoPlan
<1>5. CASE Tick
  BY <1>0, <1>5, PlanningAssumption DEF Tick, PlanIsMerge, NoPlan, PlanningAssumption
<1>6. CASE UNCHANGED vars
  BY <1>0, <1>6 DEF vars, PlanIsMerge, NoPlan
<1> QED
  BY <1>1, <1>2, <1>3, <1>4, <1>5, <1>6 DEF Next

(* The candidates of a plan can be ordered, and are no more than its rules. *)
LEMMA RatedAreCandidates ==
  ASSUME PlanIsMerge
  PROVE  /\ Candidates(rated) /\ Cardinality(DOMAIN rated) <= Len(rules)
         /\ DOMAIN rated \subseteq DOMAIN rules
<1>1. rules \in Seq(Rules) /\ DOMAIN rules = 1 .. Len(rules) /\ Len(rules) \in Nat
  BY DEF PlanIsMerge, RatedByPolicy
<1>2. DOMAIN rated \subseteq DOMAIN rules
  BY DEF PlanIsMerge, RatedByPolicy
<1>3. IsFiniteSet(1 .. Len(rules)) /\ Cardinality(1 .. Len(rules)) = Len(rules)
  BY <1>1, FS_Interval
<1>4. IsFiniteSet(DOMAIN rated) /\ Cardinality(DOMAIN rated) <= Len(rules)
  BY <1>1, <1>2, <1>3, FS_Subset
<1>5. ASSUME NEW i \in DOMAIN rated PROVE rated[i].at \in Int
  <2>1. rated[i] = Policy(ContactOf(i), planned.at) /\ planned.at \in Int
    BY DEF PlanIsMerge, RatedByPolicy
  <2>2. rules[i] \in RuleType /\ task \in TaskType
    BY <1>1, <1>2, PlanningAssumption DEF PlanIsMerge, RatedByPolicy, PlanningAssumption
  <2>3. Intent(task, rules[i]) \in Int
    BY <2>2 DEF Intent, RuleType, TaskType
  <2>4. IsContact(ContactOf(i))
    BY <2>2, <2>3 DEF IsContact, ContactOf, Contact, RuleType, TaskType, PlanIsMerge, RatedByPolicy
  <2> QED BY <2>1, <2>4, PolicyNamesMoment
<1>6. DOMAIN rated \subseteq Int
  BY <1>1, <1>2
<1> QED BY <1>2, <1>4, <1>5, <1>6 DEF Candidates

LEMMA PlanIsHeard ==
  ASSUME PlanIsMerge
  PROVE  Heard(rated, rules, plan, Len(InOrder(rated)))
<1>1. CASE plan = Merge(rated, rules)
  BY <1>1, RatedAreCandidates, MergeIsHeard
<1>2. CASE rated = NoPlan /\ plan = NoPlan
  <2>1. DOMAIN rated = {} /\ Candidates(rated)
    BY <1>2, NoPlanIsEmpty, RatedAreCandidates
  <2>2. Len(InOrder(rated)) = 0
    BY <2>1, InOrderIsOrder, FS_EmptySet
  <2> QED BY <1>2, <2>2 DEF Heard, NoPlan
<1> QED BY <1>1, <1>2 DEF PlanIsMerge

LEMMA MergeTyped == PlanIsMerge => TypeOK
<1> SUFFICES ASSUME PlanIsMerge PROVE TypeOK
  OBVIOUS
<1>1. \A n \in DOMAIN plan : plan[n] \in DOMAIN rated
  BY PlanIsHeard DEF Heard
<1>2. DOMAIN rated \subseteq DOMAIN rules
  BY RatedAreCandidates
<1> QED BY <1>1, <1>2 DEF TypeOK, PlanIsMerge, RatedByPolicy

LEMMA Fewer ==
  ASSUME NEW n \in Nat, NEW m \in Nat, n <= m
  PROVE  Gap * n \in Nat /\ Gap * m \in Nat /\ Gap * n <= Gap * m
<1>1. Gap \in Nat
  BY PlanningAssumption DEF PlanningAssumption
<1>2. PICK d \in Nat : m = n + d
  BY m - n \in Nat, m = n + (m - n)
<1>3. Gap * m = Gap * n + Gap * d /\ Gap * d \in Nat /\ Gap * n \in Nat
  BY <1>1, <1>2
<1> QED BY <1>3

LEMMA MergeHears == PlanIsMerge => ExplicitIsHeard
<1> SUFFICES ASSUME PlanIsMerge, NEW i \in Allowed, rules[i].explicit
             PROVE  \E j \in Contacts :
                      /\ rules[j].explicit
                      /\ rated[j].at - rated[i].at \in 0 .. (Gap * Len(rules))
  BY DEF ExplicitIsHeard
<1> DEFINE k == Len(InOrder(rated))
<1>1. i \in DOMAIN rated /\ rated[i].verdict = "ok"
  BY DEF Allowed
<1>2. /\ Candidates(rated) /\ k \in Nat /\ k <= Len(rules) /\ Len(rules) \in Nat
      /\ \A h \in DOMAIN rated : rated[h].at \in Int
  BY RatedAreCandidates, InOrderIsOrder, FS_CardinalityType
     DEF Candidates, PlanIsMerge, RatedByPolicy
<1>3. PICK n \in 1 .. k : InOrder(rated)[n] = i
  BY <1>1, <1>2, InOrderIsOrder
<1>4. Speaks(rated, rules, InOrder(rated)[n])
  BY <1>1, <1>3 DEF Speaks, Explicit
<1>5. /\ plan \in Seq(DOMAIN rated)
      /\ \E m \in 1 .. Len(plan) : /\ Speaks(rated, rules, plan[m])
                                   /\ rated[plan[m]].at - rated[i].at \in 0 .. (Gap * (k - n))
  BY <1>3, <1>4, PlanIsHeard DEF Heard
<1> HIDE DEF k
<1>6. PICK m \in 1 .. Len(plan) :
        /\ Speaks(rated, rules, plan[m])
        /\ rated[plan[m]].at - rated[i].at \in 0 .. (Gap * (k - n))
  BY <1>5
<1>7. plan[m] \in Contacts /\ rules[plan[m]].explicit
  BY <1>5, <1>6 DEF Contacts, Allowed, Speaks, Explicit
<1>8. rated[plan[m]].at \in Int /\ rated[i].at \in Int
  BY <1>1, <1>2, <1>5
<1>9. k - n \in Nat /\ k - n <= Len(rules)
  BY <1>2
<1>10. Gap * (k - n) \in Nat /\ Gap * Len(rules) \in Nat /\ Gap * (k - n) <= Gap * Len(rules)
  BY <1>2, <1>9, Fewer
<1>11. rated[plan[m]].at - rated[i].at \in 0 .. (Gap * Len(rules))
  BY <1>6, <1>8, <1>10
<1> QED BY <1>7, <1>11

(* Every plan has its type: its rows are rules the policy has judged, each  *)
(* still a rule of the occurrence (rebuildOccurrence).                      *)
THEOREM TypeCorrect == Spec => []TypeOK
<1> QED
  BY MergeInit, MergeStep, MergeTyped, PTL DEF Spec

(* However many rules there are, planReminders displaces a reminder the     *)
(* user asked for only by another one the user asked for, and not further   *)
(* than a gap for each rule.                                                *)
THEOREM UserIsHeard == Spec => []ExplicitIsHeard
<1> QED
  BY MergeInit, MergeStep, MergeHears, PTL DEF Spec
-----------------------------------------------------------------------------
(* A contact planned for later respects quiet hours, but for the moment of  *)
(* the task itself: the behaviour of applyNotificationPolicy, for every     *)
(* plan.                                                                    *)
THEOREM QuietHoursAreKept == Spec => []QuietIsKept
<1>1. RatedByPolicy => QuietIsKept
  BY RatedQuiet
<1> QED
  BY RatedInit, RatedStep, <1>1, PTL DEF Spec

(* No reminder of an event is put off beyond the event. *)
THEOREM EventsBoundDeferral == Spec => []DeferralStopsAtEvent
<1>1. RatedByPolicy => DeferralStopsAtEvent
  BY RatedEvent
<1> QED
  BY RatedInit, RatedStep, <1>1, PTL DEF Spec

(* What was planned for later is still allowed when a worker reaches it in  *)
(* time: the two evaluations of the policy agree.                           *)
THEOREM PlanningAndDeliveryAgree == Spec => []DeliveryAgrees
<1>1. RatedByPolicy => DeliveryAgrees
  BY RatedAgrees
<1> QED
  BY RatedInit, RatedStep, <1>1, PTL DEF Spec
=============================================================================
