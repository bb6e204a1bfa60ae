-------------------------- MODULE ActionGroupsProofs --------------------------
(***************************************************************************)
(* What is proved of ActionGroups for every set of tasks, dates, packages  *)
(* and requests, every scenario, horizon and window.                       *)
(***************************************************************************)
EXTENDS ActionGroups, FiniteSetTheorems, WellFoundedInduction, TLAPS

(* Before a confirmation takes it, a package has one of these.              *)
Early == {"none", "proposed", "pending"}

InTransaction(h) == handler[h].pc \in {"lock", "steps", "lock_undo", "write"}
ByPackage(h) == handler[h].kind \in {"turn", "confirm", "undo"}
Applying(h) == handler[h].kind \in {"turn", "confirm"}
Proposing(h) ==
  handler[h].kind = "turn" /\ handler[h].pc \in {"dispose", "lock", "steps"}

(* Which kind of request may be at which step; locks are a transaction's.   *)
Fits(h) ==
  /\ At(h, "dispose") => handler[h].kind = "turn"
  /\ handler[h].pc \in {"claim", "payload", "expire", "validate", "fail"}
       => handler[h].kind = "confirm"
  /\ handler[h].pc \in {"lock", "steps"} => Applying(h)
  /\ handler[h].pc \in {"claim_undo", "lock_undo", "release"}
       => handler[h].kind = "undo"
  /\ At(h, "answer") => ByPackage(h)
  /\ At(h, "write") => handler[h].kind \in {"touch", "close"}
  /\ (~At(h, "idle") /\ ByPackage(h)) => handler[h].group \in Groups
  /\ ~InTransaction(h) => handler[h].held = {} /\ handler[h].want = {}

PlacesFit == \A h \in Handlers : Fits(h)

(* How far the package of a request has come.                               *)
Stage(h) ==
  /\ Proposing(h) => Status(handler[h].group) = "proposed"
  /\ (Proposing(h) /\ ~At(h, "dispose")) => handler[h].group \notin Gated
  /\ (~At(h, "idle") /\ handler[h].kind = "confirm") => handler[h].group \in Gated
  /\ (handler[h].pc \notin {"idle", "claim"} /\ handler[h].kind = "confirm")
       => Status(handler[h].group) \notin Early
  /\ (~At(h, "idle") /\ handler[h].kind = "undo")
       => Status(handler[h].group) \notin Early \cup {"applying"}

Stages ==
  /\ \A g \in Groups : Status(g) = "pending" => g \in Gated
  /\ \A h \in Handlers : Stage(h)
  /\ \A h, k \in Handlers :
       (Proposing(h) /\ Proposing(k) /\ handler[h].group = handler[k].group)
         => h = k
  /\ \A x \in recovery.listed : Status(x.group) \notin Early

(* An undo locks the rows of its journal.                                   *)
UndoLocks ==
  \A h \in Handlers : At(h, "lock_undo")
    => handler[h].held \cup handler[h].want
         = {e.row : e \in groups[handler[h].group].journal}

TypeInv == TypeOK /\ PlacesFit /\ Stages /\ UndoLocks

(* What a package creates is not there before it is applied.                *)
NotYetCreated ==
  \A g \in Groups : Status(g) \in Early \cup {"applying"}
    => \A r \in Creates(g) : ~rows[r].exists

(* Row locks: one holder each; an apply holds or needs its targets, and the *)
(* tasks it holds exist.  One that has them holds every row it names, at    *)
(* the version it expects, and needs dates only.                            *)
LocksOf(h) ==
  /\ At(h, "lock")
       => handler[h].held \cup handler[h].want = Targets(handler[h].group)
  /\ handler[h].pc \in {"lock", "steps"}
       => \A r \in handler[h].held \cap Tasks : rows[r].exists
  /\ At(h, "steps") => /\ Named(handler[h].group) \subseteq handler[h].held
                       /\ AsExpected(handler[h].group)
                       /\ handler[h].want \subseteq Dates
Locks ==
  /\ \A h, k \in Handlers : h # k => handler[h].held \cap handler[k].held = {}
  /\ \A h \in Handlers : LocksOf(h)

LockInv == TypeInv /\ NotYetCreated /\ Locks

(* The order of locks: tasks before dates, each by id.                      *)
Before(r, s) ==
  \/ r \in Tasks /\ s \in Dates
  \/ r \in Tasks /\ s \in Tasks /\ Rank[r] < Rank[s]
  \/ r \in Dates /\ s \in Dates /\ Rank[r] < Rank[s]

(* A package in its lock phase goes by that order; later it holds the task   *)
(* of each date it holds or needs.                                          *)
Ordered ==
  \A h \in Handlers :
    /\ At(h, "lock")
         => \A r \in handler[h].held, s \in handler[h].want : Before(r, s)
    /\ At(h, "steps")
         => \A d \in (handler[h].held \cup handler[h].want) \cap Dates :
              TaskOf[d] \in handler[h].held

OrderInv == LockInv /\ Ordered
-----------------------------------------------------------------------------
(* A set of numbers that is not empty has a least one.                      *)
LEMMA Least ==
  ASSUME NEW X, NEW f \in [X -> Nat], X # {}
  PROVE  \E x \in X : \A y \in X : f[x] <= f[y]
<1>1. PICK top \in X : TRUE
  OBVIOUS
<1> DEFINE N == f[top]
           T == {0 .. f[x] : x \in {y \in X : f[y] <= N}}
<1>2. IsWellFoundedOn(StrictSubsetOrdering(0 .. N), SUBSET (0 .. N))
  <2>1. IsFiniteSet(0 .. N)
    BY FS_Interval
  <2>2. FiniteSubsetsOf(0 .. N) = SUBSET (0 .. N)
    BY <2>1, FS_FiniteSubsetsOfFinite
  <2> QED
    BY <2>2, FS_StrictSubsetOrderingWellFounded
<1>3. T \subseteq SUBSET (0 .. N) /\ T # {}
  BY <1>1
<1>4. PICK t \in T : \A u \in T : ~ (<<u, t>> \in StrictSubsetOrdering(0 .. N))
  <2> HIDE DEF T, N
  <2> QED BY <1>2, <1>3, WFMin
<1>5. PICK x \in X : f[x] <= N /\ t = 0 .. f[x]
  BY <1>4
<1>6. ASSUME NEW y \in X, f[y] < f[x] PROVE FALSE
  <2>1. /\ 0 .. f[y] \in T /\ 0 .. f[y] \subseteq 0 .. f[x]
        /\ f[x] \notin 0 .. f[y] /\ f[x] \in 0 .. f[x]
    BY <1>5, <1>6
  <2>2. <<0 .. f[y], t>> \in StrictSubsetOrdering(0 .. N)
    BY <2>1, <1>5, <1>3 DEF StrictSubsetOrdering
  <2> QED BY <2>1, <2>2, <1>4
<1> QED BY <1>5, <1>6

(* FirstOf finds the first row of a set in the order of locks.              *)
LEMMA FirstOfFinds ==
  ASSUME NEW set \in SUBSET Rows, set # {}
  PROVE  /\ FirstOf(set) \in set
         /\ \A r \in set \ {FirstOf(set)} : Before(FirstOf(set), r)
<1> DEFINE table == IF set \cap Tasks # {} THEN set \cap Tasks ELSE set
           f == [r \in table |-> Rank[r]]
<1>1. table # {} /\ f \in [table -> Nat]
  BY GroupsAssumption DEF GroupsAssumption, Rows
<1>2. \E r \in table : \A s \in table : Rank[r] <= Rank[s]
  <2>1. PICK r \in table : \A s \in table : f[r] <= f[s]
    <3> HIDE DEF table, f
    <3> QED BY <1>1, Least
  <2> QED BY <2>1
<1>3. FirstOf(set) \in table /\ \A s \in table : Rank[FirstOf(set)] <= Rank[s]
  BY <1>2 DEF FirstOf
<1> QED
  BY <1>3, GroupsAssumption DEF GroupsAssumption, Rows, Before

(* What a transaction locks next is something it needs.                     *)
LEMMA NextRowNeeded ==
  ASSUME TypeOK, NEW h \in Handlers, handler[h].want # {}
  PROVE  /\ NextRow(h) \in handler[h].want /\ NextRow(h) \in Rows
         /\ Applying(h) => \A r \in handler[h].want \ {NextRow(h)} :
                             Before(NextRow(h), r)
<1>1. handler[h].want \subseteq Rows
  BY DEF TypeOK, Handler
<1>2. CASE handler[h].kind \in {"touch", "close"} /\ handler[h].want \cap Dates # {}
  BY <1>1, <1>2, FirstOfFinds DEF NextRow, Applying
<1>3. CASE ~(handler[h].kind \in {"touch", "close"} /\ handler[h].want \cap Dates # {})
  BY <1>1, <1>3, FirstOfFinds DEF NextRow, Applying
<1> QED BY <1>2, <1>3

(* The rows of a package are rows.                                          *)
LEMMA PackagesTyped ==
  ASSUME NEW g \in Groups
  PROVE  /\ Named(g) \subseteq Targets(g) /\ Targets(g) \subseteq Rows
         /\ Creates(g) \subseteq Tasks /\ Changed(g) \subseteq Rows
<1>1. Steps[g] \subseteq Step /\ TaskOf \in [Dates -> Tasks]
  BY GroupsAssumption DEF GroupsAssumption
<1>2. Named(g) \subseteq Rows /\ Creates(g) \subseteq Tasks
  BY <1>1 DEF Named, Creates, Having, Step, Rows
<1>3. Named(g) \subseteq Targets(g) /\ Targets(g) \subseteq Rows
  BY <1>1, <1>2 DEF Targets, Owners, Rows
<1>4. Changed(g) \subseteq Rows
  <2>1. Having(g, "finish") \subseteq Dates
    BY <1>1 DEF Having, Step
  <2> QED BY <1>1, <1>2, <2>1 DEF Changed, Owners, Rows, OpenDate
<1> QED BY <1>2, <1>3, <1>4

(* No request at all is a request.                                          *)
LEMMA IdleTyped == Idle \in Handler
BY GroupsAssumption DEF GroupsAssumption, Idle, Handler, Places, Kinds, Time, Rows

(* The initial state has the types, and no package.                         *)
LEMMA TypeInit == Init => TypeInv
<1> SUFFICES ASSUME Init PROVE TypeInv
  OBVIOUS
<1>1. TypeOK
  <2>1. rows \in [Rows -> RowType]
    BY DEF Init, RowType, Contents
  <2>2. groups \in [Groups -> GroupType]
    BY DEF Init, GroupType, Statuses
  <2>3. handler \in [Handlers -> Handler]
    BY IdleTyped DEF Init
  <2>4. scenario \in Scenarios /\ clock \in Time /\ spent \in [{"crashes", "faults", "undos", "writes"} -> Nat]
    BY GroupsAssumption DEF Init, Time, GroupsAssumption
  <2> QED BY <2>1, <2>2, <2>3, <2>4 DEF Init, TypeOK, Status
<1>2. \A h \in Handlers : At(h, "idle")
  BY DEF Init, Idle, At
<1>3. \A g \in Groups : Status(g) = "none"
  BY DEF Init, Status
<1> QED
  BY <1>1, <1>2, <1>3 DEF Init, TypeInv, PlacesFit, Fits, Stages, Stage, UndoLocks, Proposing,
     InTransaction, At, Idle

(* The bounds of a scenario are numbers.                                    *)
LEMMA ScenarioTyped ==
  ASSUME NEW s \in Scenarios
  PROVE  /\ s.groups \subseteq Groups /\ s.handlers \in Nat /\ s.crashes \in Nat
         /\ s.faults \in Nat /\ s.undos \in Nat /\ s.writes \in Nat
BY GroupsAssumption DEF GroupsAssumption, Scenario

(* A count of disturbances stays a number.                                  *)
LEMMA SpendTyped ==
  ASSUME TypeOK, NEW what \in {"crashes", "faults", "undos", "writes"}, Spend(what)
  PROVE  spent' \in [{"crashes", "faults", "undos", "writes"} -> Nat]
BY DEF TypeOK, Spend

(* A package that only changes its status to one where nothing waits.       *)
LEMMA StatusTyped ==
  ASSUME TypeOK, NEW g \in Groups, NEW status \in Statuses \ {"pending"},
         SetStatus(g, status)
  PROVE  /\ groups' \in [Groups -> GroupType]
         /\ \A k \in Groups : Status(k)' = "pending" => groups'[k].payload
<1>1. groups \in [Groups -> GroupType]
      /\ \A k \in Groups : groups[k].status = "pending" => groups[k].payload
  BY DEF TypeOK, Status
<1> QED BY <1>1 DEF SetStatus, GroupType, Status

(* A package with another status is a package, with its actions or without. *)
LEMMA PackageMoved ==
  ASSUME NEW p \in GroupType, NEW s \in Statuses
  PROVE  /\ [p EXCEPT !.status = s] \in GroupType
         /\ [p EXCEPT !.status = s].status = s
         /\ [p EXCEPT !.status = s].payload = p.payload
BY DEF GroupType
(* A package that is closed keeps the shape of a package.                   *)
LEMMA PackageClosed ==
  ASSUME NEW p \in GroupType, NEW s \in Statuses
  PROVE  /\ [p EXCEPT !.status = s, !.payload = FALSE] \in GroupType
         /\ [p EXCEPT !.status = s, !.payload = FALSE].status = s
BY DEF GroupType

(* A row written under a new version is a row.                              *)
LEMMA RowWritten ==
  ASSUME NEW p \in RowType, NEW open \in BOOLEAN, NEW by \in Contents
  PROVE  [p EXCEPT !.open = open, !.by = by, !.version = @ + 1] \in RowType
<1>1. p.version + 1 \in Nat
  BY DEF RowType
<1> QED BY <1>1 DEF RowType
(* A row that is closed keeps the shape of a row.                           *)
LEMMA RowClosed ==
  ASSUME NEW p \in RowType, NEW open \in BOOLEAN, System \in Contents
  PROVE  [p EXCEPT !.version = @ + 1, !.by = System, !.open = open] \in RowType
<1>1. p.version + 1 \in Nat
  BY DEF RowType
<1> QED BY <1>1 DEF RowType

(* A request whose transaction is rolled back is a request.                 *)
LEMMA RequestThrown ==
  ASSUME NEW p \in Handler, NEW pc \in Places
  PROVE  [p EXCEPT !.pc = pc, !.want = {}, !.held = {}] \in Handler
BY DEF Handler

(* A rolled back transaction leaves a request and a package.                *)
LEMMA ThrowTyped ==
  ASSUME TypeOK, PlacesFit, NEW h \in Handlers, Throw(h), ~At(h, "idle")
  PROVE  /\ handler' \in [Handlers -> Handler]
         /\ groups' \in [Groups -> GroupType]
         /\ \A g \in Groups : Status(g)' = "pending" => groups'[g].payload
<1>0. handler \in [Handlers -> Handler] /\ groups \in [Groups -> GroupType]
      /\ \A g \in Groups : groups[g].status = "pending" => groups[g].payload
  BY DEF TypeOK, Status
<1>1. handler' \in [Handlers -> Handler]
  <2>1. CASE handler[h].kind = "confirm"
    <3>1. handler' = [handler EXCEPT ![h] =
                        [handler[h] EXCEPT !.pc = "fail", !.want = {}, !.held = {}]]
      BY <1>0, <2>1 DEF Throw
    <3>2. handler[h] \in Handler /\ "fail" \in Places
      BY <1>0 DEF Places
    <3>3. [handler[h] EXCEPT !.pc = "fail", !.want = {}, !.held = {}] \in Handler
      BY <3>2, RequestThrown
    <3> QED BY <1>0, <3>1, <3>3
  <2>2. CASE handler[h].kind = "undo"
    <3>1. handler' = [handler EXCEPT ![h] =
                        [handler[h] EXCEPT !.pc = "release", !.want = {}, !.held = {}]]
      BY <1>0, <2>2 DEF Throw
    <3>2. handler[h] \in Handler /\ "release" \in Places
      BY <1>0 DEF Places
    <3>3. [handler[h] EXCEPT !.pc = "release", !.want = {}, !.held = {}] \in Handler
      BY <3>2, RequestThrown
    <3> QED BY <1>0, <3>1, <3>3
  <2>3. CASE handler[h].kind \notin {"confirm", "undo"}
    BY <1>0, <2>3, IdleTyped DEF Throw
  <2> QED BY <2>1, <2>2, <2>3
<1>2. CASE handler[h].kind = "turn"
  <2>1. handler[h].group \in Groups
    BY <1>2 DEF PlacesFit, Fits, ByPackage
  <2>2. SetStatus(handler[h].group, "rejected")
    BY <1>2 DEF Throw, SetStatus
  <2> QED BY <1>1, <2>1, <2>2, StatusTyped DEF Statuses
<1>3. CASE handler[h].kind # "turn"
  BY <1>0, <1>1, <1>3 DEF Throw, Status
<1> QED BY <1>2, <1>3

(* A lock taken leaves a request.                                           *)
LEMMA LockTyped ==
  ASSUME TypeOK, NEW h \in Handlers, NEW r \in Rows, Lock(h, r)
  PROVE  handler' \in [Handlers -> Handler]
<1>1. handler \in [Handlers -> Handler]
  BY DEF TypeOK
<1> QED BY <1>1 DEF Lock, Handler

(* A request that only moves on stays a request.                            *)
LEMMA GotoTyped ==
  ASSUME TypeOK, NEW h \in Handlers, NEW pc \in Places, Goto(h, pc)
  PROVE  handler' \in [Handlers -> Handler]
<1>1. handler \in [Handlers -> Handler]
  BY DEF TypeOK
<1> QED BY <1>1 DEF Goto, Handler

(* A finished one too.                                                      *)
LEMMA FinishTyped ==
  ASSUME TypeOK, NEW h \in Handlers, Finish(h)
  PROVE  handler' \in [Handlers -> Handler]
BY IdleTyped DEF Finish, TypeOK

(* One package changed, the others as they were.                            *)
LEMMA GroupsTyped ==
  ASSUME TypeOK, NEW g \in Groups, NEW p \in GroupType,
         p.status = "pending" => p.payload, groups' = [groups EXCEPT ![g] = p]
  PROVE  /\ groups' \in [Groups -> GroupType]
         /\ \A k \in Groups : Status(k)' = "pending" => groups'[k].payload
BY DEF TypeOK, Status

(* Every package changed, to one where a card still has its actions.        *)
LEMMA AllGroupsTyped ==
  ASSUME \A g \in Groups : /\ groups'[g] \in GroupType
                           /\ groups'[g].status = "pending" => groups'[g].payload,
         groups' = [g \in Groups |-> groups'[g]]
  PROVE  /\ groups' \in [Groups -> GroupType]
         /\ \A k \in Groups : Status(k)' = "pending" => groups'[k].payload
BY DEF Status

(* What a failed or a released package becomes.                             *)
LEMMA RepairTyped ==
  ASSUME TypeOK, NEW g \in Groups
  PROVE  /\ Failed(g) \in [Groups -> GroupType]
         /\ Released(g) \in [Groups -> GroupType]
         /\ \A k \in Groups \ {g} : Failed(g)[k] = groups[k] /\ Released(g)[k] = groups[k]
         /\ Failed(g)[g].status = IF Status(g) = "applying" THEN "failed" ELSE Status(g)
         /\ Released(g)[g].status = IF Status(g) = "undoing" THEN "applied" ELSE Status(g)
         /\ Released(g)[g].payload = groups[g].payload
         /\ Failed(g)[g].expected = groups[g].expected
         /\ Released(g)[g].expected = groups[g].expected
<1>1. groups[g] \in GroupType /\ DOMAIN groups = Groups /\ Status(g) \in Statuses
  BY DEF TypeOK, GroupType, Status
<1> DEFINE f == IF Status(g) = "applying" THEN "failed" ELSE Status(g)
           r == IF Status(g) = "undoing" THEN "applied" ELSE Status(g)
<1>2. f \in Statuses /\ r \in Statuses
  BY <1>1 DEF Statuses
<1>3. /\ Failed(g) = [groups EXCEPT ![g] = [groups[g] EXCEPT !.status = f, !.payload = FALSE]]
      /\ Released(g) = [groups EXCEPT ![g] = [groups[g] EXCEPT !.status = r]]
  BY <1>1 DEF Failed, Released, Status
<1> HIDE DEF f, r
<1>4. /\ [groups[g] EXCEPT !.status = f, !.payload = FALSE] \in GroupType
      /\ [groups[g] EXCEPT !.status = r] \in GroupType
  BY <1>1, <1>2, PackageMoved, PackageClosed
<1>5. Failed(g) \in [Groups -> GroupType] /\ Released(g) \in [Groups -> GroupType]
  BY <1>3, <1>4 DEF TypeOK
<1>6. /\ Failed(g)[g] = [groups[g] EXCEPT !.status = f, !.payload = FALSE]
      /\ Released(g)[g] = [groups[g] EXCEPT !.status = r]
      /\ \A k \in Groups \ {g} : Failed(g)[k] = groups[k] /\ Released(g)[k] = groups[k]
  BY <1>1, <1>3
<1> QED
  BY <1>1, <1>5, <1>6 DEF GroupType, f, r

(* Types, and cards with their actions, are kept by every step.             *)
LEMMA TypeStep == TypeInv /\ [Next]_vars => TypeOK'
<1> SUFFICES ASSUME TypeOK, PlacesFit, Stages, UndoLocks, [Next]_vars PROVE TypeOK'
  BY DEF TypeInv
<1> DEFINE CardsKept == \A k \in Groups : Status(k)' = "pending" => groups'[k].payload
           GroupsKept == groups' \in [Groups -> GroupType] /\ CardsKept
           HandlersKept == handler' \in [Handlers -> Handler]
<1>0. ASSUME UNCHANGED groups PROVE GroupsKept
  BY <1>0 DEF TypeOK, Status
<1>h. /\ Handlers = {Chat, Retry} \cup Web /\ Chat \in Handlers /\ Retry \in Handlers
      /\ {"idle", "dispose", "claim", "payload", "expire", "validate", "lock",
          "steps", "fail", "answer", "claim_undo", "lock_undo", "release",
          "write"} \subseteq Places
  BY DEF Handlers, Places
<1>y. handler \in [Handlers -> Handler] /\ groups \in [Groups -> GroupType]
      /\ \A k \in Groups : groups[k].status = "pending" => groups[k].payload
  BY DEF TypeOK, Status
<1>t. clock \in Nat /\ clock \in Time /\ ConfirmTtl \in Nat /\ UndoTtl \in Nat
      /\ Horizon \in Nat /\ \A n \in Time : n \in Nat
  BY GroupsAssumption DEF GroupsAssumption, TypeOK, Time
<1>1. ASSUME NEW h \in Handlers, NEW g \in Groups, Turn(h, g) PROVE TypeOK'
  <2>1. Named(g) \subseteq Rows /\ Replaces[g] \in Groups \cup {None}
    BY PackagesTyped, GroupsAssumption DEF GroupsAssumption
  <2>2. groups' \in [Groups -> GroupType] /\ CardsKept
    <3> DEFINE e == [r \in Rows |-> IF r \in Named(g) THEN rows[r].version ELSE 0]
    <3>1. e \in [Rows -> Nat]
      BY DEF TypeOK, RowType
    <3> HIDE DEF e
    <3>2. PICK a \in Groups \cup {None} : groups' = [groups EXCEPT ![g] =
               [groups[g] EXCEPT !.status = "proposed", !.answers = a, !.expected = e]]
      BY <1>1, <2>1 DEF Turn, e, TypeOK
    <3>3. [groups[g] EXCEPT !.status = "proposed", !.answers = a, !.expected = e] \in GroupType
      BY <1>y, <3>1 DEF GroupType, Statuses
    <3>4. [groups[g] EXCEPT !.status = "proposed", !.answers = a, !.expected = e].status # "pending"
      BY <1>y DEF GroupType
    <3> QED BY <3>2, <3>3, <3>4, GroupsTyped
  <2>3. HandlersKept
    BY <1>1, <1>h, <1>t, <1>y, IdleTyped DEF Turn, Handler
  <2> QED BY <1>1, <2>2, <2>3 DEF Turn, TypeOK
<1>2. ASSUME NEW h \in Handlers, StorePending(h) PROVE TypeOK'
  <2>1. handler[h].group \in Groups /\ handler[h].now \in Nat
    BY <1>2, <1>t DEF StorePending, PlacesFit, Fits, At, ByPackage, TypeOK, Handler
  <2>2. GroupsKept
    <3> DEFINE g == handler[h].group
               until == handler[h].now + ConfirmTtl
               after == [groups[g] EXCEPT !.status = "pending", !.payload = TRUE,
                                          !.expires = until]
    <3>1. until \in Nat /\ groups[g] \in GroupType
      BY <2>1, <1>t, <1>y
    <3>2. groups' = [groups EXCEPT ![g] = after]
      BY <1>2 DEF StorePending
    <3> HIDE DEF until, g
    <3>3. after \in GroupType /\ after.payload
      BY <3>1 DEF GroupType, Statuses
    <3> HIDE DEF after
    <3> QED BY <2>1, <3>2, <3>3, GroupsTyped DEF g
  <2> QED BY <1>2, <1>h, <2>2, GotoTyped DEF StorePending, TypeOK
<1>3. ASSUME NEW h \in Handlers, BeginApply(h) PROVE TypeOK'
  <2>1. handler[h].group \in Groups
    BY <1>3 DEF BeginApply, PlacesFit, Fits, At, ByPackage
  <2>2. HandlersKept
    <3>1. Targets(handler[h].group) \in SUBSET Rows
      BY <2>1, PackagesTyped
    <3> QED BY <1>3, <1>h, <1>y, <3>1 DEF BeginApply, Handler
  <2> QED BY <1>0, <1>3, <2>2 DEF BeginApply, TypeOK
<1>4. ASSUME NEW h \in Handlers, Answer(h) PROVE TypeOK'
  <2>1. GroupsKept
    <3>1. CASE UNCHANGED groups
      BY <1>0, <3>1
    <3>2. CASE groups' # groups
      <4> DEFINE card == groups[handler[h].group].answers
      <4>1. handler[h].group \in Groups /\ card \in Groups
        BY <1>4, <3>2 DEF Answer, PlacesFit, Fits, At, ByPackage, TypeOK, GroupType
      <4>2. groups' = [groups EXCEPT ![card] =
                         [groups[card] EXCEPT !.status = "cancelled", !.payload = FALSE]]
        BY <1>4, <3>2, <4>1 DEF Answer, TypeOK
      <4>3. groups[card] \in GroupType /\ "cancelled" \in Statuses
        BY <1>y, <4>1 DEF Statuses
      <4> HIDE DEF card
      <4>4. /\ [groups[card] EXCEPT !.status = "cancelled", !.payload = FALSE] \in GroupType
            /\ [groups[card] EXCEPT !.status = "cancelled", !.payload = FALSE].status # "pending"
        BY <4>3, PackageClosed
      <4> QED BY <4>1, <4>2, <4>4, GroupsTyped
    <3> QED BY <3>1, <3>2
  <2> QED BY <1>4, <2>1, FinishTyped DEF Answer, TypeOK
<1>5. ASSUME NEW g \in Groups, Confirm(g) PROVE TypeOK'
  <2>1. HandlersKept
    BY <1>5, <1>h, <1>t, IdleTyped DEF Confirm, TypeOK, Handler, Kinds
  <2> QED BY <1>0, <1>5, <2>1 DEF Confirm, TypeOK
<1>6. ASSUME NEW h \in Handlers, Claim(h) PROVE TypeOK'
  <2>1. handler[h].group \in Groups
    BY <1>6 DEF Claim, PlacesFit, Fits, At, ByPackage
  <2>2. GroupsKept /\ HandlersKept
    <3>1. CASE Status(handler[h].group) = "pending"
      BY <1>6, <1>h, <2>1, <3>1, StatusTyped, GotoTyped DEF Claim, Statuses
    <3>2. CASE Status(handler[h].group) # "pending"
      BY <1>0, <1>6, <3>2, FinishTyped DEF Claim
    <3> QED BY <3>1, <3>2
  <2> QED BY <1>6, <2>2 DEF Claim, TypeOK
<1>7. ASSUME NEW h \in Handlers, ReadPayload(h) PROVE TypeOK'
  <2>1. HandlersKept
    BY <1>7, <1>h, GotoTyped DEF ReadPayload
  <2> QED BY <1>0, <1>7, <2>1 DEF ReadPayload, TypeOK
<1>8. ASSUME NEW h \in Handlers, ExpireClaimed(h) PROVE TypeOK'
  <2>1. handler[h].group \in Groups
    BY <1>8 DEF ExpireClaimed, PlacesFit, Fits, At, ByPackage
  <2>2. GroupsKept
    <3> DEFINE g == handler[h].group
    <3>1. groups[g] \in GroupType /\ "expired" \in Statuses
      BY <1>y, <2>1 DEF Statuses
    <3>2. groups' = [groups EXCEPT ![g] =
                       [groups[g] EXCEPT !.status = "expired", !.payload = FALSE]]
      BY <1>8 DEF ExpireClaimed
    <3> HIDE DEF g
    <3>3. /\ [groups[g] EXCEPT !.status = "expired", !.payload = FALSE] \in GroupType
          /\ [groups[g] EXCEPT !.status = "expired", !.payload = FALSE].status # "pending"
      BY <3>1, PackageClosed
    <3> QED BY <2>1, <3>2, <3>3, GroupsTyped DEF g
  <2> QED BY <1>8, <2>2, FinishTyped DEF ExpireClaimed, TypeOK
<1>9. ASSUME NEW h \in Handlers, Validate(h) PROVE TypeOK'
  <2>1. handler[h].group \in Groups
    BY <1>9 DEF Validate, PlacesFit, Fits, At, ByPackage
  <2>2. HandlersKept
    <3>1. CASE AsExpected(handler[h].group)
      <4>1. Targets(handler[h].group) \in SUBSET Rows
        BY <2>1, PackagesTyped
      <4> DEFINE want == Targets(handler[h].group)
      <4>2. handler' = [handler EXCEPT ![h] = [handler[h] EXCEPT !.pc = "lock", !.want = want]]
        BY <1>9, <3>1 DEF Validate
      <4> HIDE DEF want
      <4> QED BY <4>2, <1>h, <1>y, <4>1 DEF Handler, want
    <3>2. CASE ~AsExpected(handler[h].group)
      BY <1>9, <1>h, <3>2, GotoTyped DEF Validate
    <3> QED BY <3>1, <3>2
  <2> QED BY <1>0, <1>9, <2>2 DEF Validate, TypeOK
<1>10. ASSUME NEW h \in Handlers, MarkFailed(h) PROVE TypeOK'
  <2>1. handler[h].group \in Groups /\ Status(handler[h].group) # "pending"
    BY <1>10 DEF MarkFailed, PlacesFit, Fits, Stages, Stage, At, ByPackage, Early
  <2>2. GroupsKept
    <3> DEFINE k == handler[h].group
    <3>1. groups' = Failed(k)
      BY <1>10 DEF MarkFailed
    <3> HIDE DEF k
    <3> QED BY <1>y, <3>1, <2>1, RepairTyped DEF Status, k
  <2> QED BY <1>10, <2>2, FinishTyped DEF MarkFailed, TypeOK
<1>11. ASSUME NEW g \in Groups, CancelPending(g) PROVE TypeOK'
  <2>1. GroupsKept
    <3>1. groups[g] \in GroupType /\ "cancelled" \in Statuses
      BY <1>y DEF Statuses
    <3>2. /\ [groups[g] EXCEPT !.status = "cancelled", !.payload = FALSE] \in GroupType
          /\ [groups[g] EXCEPT !.status = "cancelled", !.payload = FALSE].status # "pending"
      BY <3>1, PackageClosed
    <3> QED BY <1>11, <3>2, GroupsTyped DEF CancelPending
  <2> QED BY <1>11, <2>1 DEF CancelPending, TypeOK
<1>12. ASSUME NEW h \in Handlers, LockTarget(h) \/ LockStep(h) \/ LockUndo(h) \/ LockWrite(h)
       PROVE  TypeOK'
  <2>1. handler[h].want # {} /\ ~At(h, "idle")
    BY <1>12 DEF LockTarget, LockStep, LockUndo, LockWrite, Wanting, At
  <2>2. NextRow(h) \in Rows
    BY <2>1, NextRowNeeded
  <2>3. (Lock(h, NextRow(h)) /\ UNCHANGED groups) \/ Throw(h)
    BY <1>12 DEF LockTarget, LockStep, LockUndo, LockWrite
  <2>4. GroupsKept /\ HandlersKept
    BY <1>0, <2>1, <2>2, <2>3, LockTyped, ThrowTyped
  <2> QED BY <1>12, <2>4 DEF LockTarget, LockStep, LockUndo, LockWrite, TypeOK
<1>13. ASSUME NEW h \in Handlers, BeginSteps(h) PROVE TypeOK'
  <2>1. handler[h].group \in Groups /\ ~At(h, "idle")
    BY <1>13 DEF BeginSteps, Satisfied, PlacesFit, Fits, At, ByPackage, Applying
  <2>2. GroupsKept /\ HandlersKept
    <3>1. CASE Applicable(handler[h].group)
      <4>1. [r \in Rows |-> rows[r].version] \in [Rows -> Nat]
        BY DEF TypeOK, RowType
      <4> DEFINE seen == [r \in Rows |-> rows[r].version]
                 want == Changed(handler[h].group) \ handler[h].held
                 after == [handler[h] EXCEPT !.pc = "steps", !.want = want, !.seen = seen]
      <4>2. want \in SUBSET Rows /\ handler[h] \in Handler
        BY <2>1, PackagesTyped DEF TypeOK
      <4>3. handler' = [handler EXCEPT ![h] = after] /\ UNCHANGED groups
        BY <1>13, <3>1 DEF BeginSteps, TypeOK
      <4> HIDE DEF seen, want
      <4>4. after \in Handler
        BY <1>h, <4>1, <4>2 DEF Handler, seen
      <4> HIDE DEF after
      <4> QED BY <1>0, <4>3, <4>4 DEF TypeOK
    <3>2. CASE ~Applicable(handler[h].group)
      BY <1>13, <2>1, <3>2, ThrowTyped DEF BeginSteps
    <3> QED BY <3>1, <3>2
  <2> QED BY <1>13, <2>2 DEF BeginSteps, TypeOK
<1>14. ASSUME NEW h \in Handlers, CommitApply(h) PROVE TypeOK'
  <2> DEFINE g == handler[h].group
             changed == (Changed(g) \cap handler[h].held) \cup Creates(g)
             journal == {[row |-> r, created |-> ~rows[r].exists,
                          open |-> rows[r].open, by |-> rows[r].by,
                          post |-> rows'[r].version] : r \in changed}
  <2>1. g \in Groups /\ ~At(h, "idle") /\ changed \subseteq Rows
    BY <1>14, PackagesTyped
       DEF CommitApply, Satisfied, PlacesFit, Fits, At, ByPackage, Applying, Rows
  <2>2. CASE Throw(h) /\ UNCHANGED rows
    BY <1>14, <2>1, <2>2, ThrowTyped DEF CommitApply, TypeOK
  <2>3. CASE ~(Throw(h) /\ UNCHANGED rows)
    <3>1. /\ rows' = [r \in Rows |-> IF r \notin changed THEN rows[r] ELSE
                       [exists |-> TRUE, open |-> Opens(g, r), by |-> g,
                        version |-> IF rows[r].exists THEN rows[r].version + 1 ELSE 1]]
          /\ groups' = [groups EXCEPT ![g] = [groups[g] EXCEPT !.status = "applied",
               !.payload = FALSE, !.undoUntil = handler[h].now + UndoTtl,
               !.journal = journal]]
          /\ handler' = [handler EXCEPT ![h] = [handler[h] EXCEPT !.pc = "answer", !.held = {}]]
      BY <1>14, <2>1, <2>3 DEF CommitApply, TypeOK
    <3>2. rows' \in [Rows -> RowType]
      <4>1. \A r \in Rows : Opens(g, r) \in BOOLEAN
        BY DEF Opens
      <4> QED BY <3>1, <2>1, <4>1 DEF TypeOK, RowType, Contents
    <3>3. journal \subseteq Event
      <4>1. ASSUME NEW r \in changed
            PROVE  [row |-> r, created |-> ~rows[r].exists, open |-> rows[r].open,
                    by |-> rows[r].by, post |-> rows'[r].version] \in Event
        <5>1. r \in Rows
          BY <2>1
        <5>2. rows[r] \in RowType /\ rows'[r] \in RowType
          BY <5>1, <3>2 DEF TypeOK
        <5> QED BY <5>1, <5>2 DEF Event, RowType
      <4> QED BY <4>1
    <3>4. GroupsKept
      <4> DEFINE until == handler[h].now + UndoTtl
                 after == [groups[g] EXCEPT !.status = "applied", !.payload = FALSE,
                             !.undoUntil = until, !.journal = journal]
      <4>1. until \in Nat /\ groups[g] \in GroupType
        <5>1. handler[h].now \in Nat
          BY <1>t, <1>y DEF Handler
        <5> QED BY <1>t, <1>y, <2>1, <5>1
      <4> HIDE DEF until, journal
      <4>2. after \in GroupType /\ after.status # "pending"
        BY <4>1, <3>3 DEF GroupType, Statuses
      <4>3. groups' = [groups EXCEPT ![g] = after]
        BY <3>1 DEF until
      <4> HIDE DEF after, g
      <4> QED BY <2>1, <4>2, <4>3, GroupsTyped
    <3>5. HandlersKept
      BY <1>h, <1>y, <3>1 DEF Handler
    <3> QED BY <1>14, <3>2, <3>4, <3>5 DEF CommitApply, TypeOK
  <2> QED BY <2>2, <2>3
<1>15. ASSUME NEW h \in Handlers, NEW g \in Groups, Undo(h, g) PROVE TypeOK'
  <2>1. HandlersKept
    BY <1>15, <1>h, <1>t, IdleTyped DEF Undo, TypeOK, Handler, Kinds
  <2> QED BY <1>0, <1>15, <2>1, SpendTyped DEF Undo, TypeOK
<1>16. ASSUME NEW h \in Handlers, ClaimUndo(h) PROVE TypeOK'
  <2> DEFINE g == handler[h].group
  <2>1. g \in Groups
    BY <1>16 DEF ClaimUndo, PlacesFit, Fits, At, ByPackage
  <2>2. CASE Status(g) = "applied" /\ groups[g].undoUntil > handler[h].now
    <3>1. {e.row : e \in groups[g].journal} \subseteq Rows
      BY <2>1 DEF TypeOK, GroupType, Event
    <3>2. HandlersKept
      <4> DEFINE want == {e.row : e \in groups[g].journal}
      <4>1. handler' = [handler EXCEPT ![h] =
                          [handler[h] EXCEPT !.pc = "lock_undo", !.want = want]]
        BY <1>16, <2>2 DEF ClaimUndo
      <4>2. want \in SUBSET Rows
        BY <3>1
      <4> HIDE DEF want
      <4> QED BY <1>h, <1>y, <4>1, <4>2 DEF Handler
    <3> QED BY <1>16, <2>1, <2>2, <3>2, StatusTyped DEF ClaimUndo, TypeOK, Statuses
  <2>3. CASE ~(Status(g) = "applied" /\ groups[g].undoUntil > handler[h].now)
    BY <1>0, <1>16, <2>3, FinishTyped DEF ClaimUndo, TypeOK
  <2> QED BY <2>2, <2>3
<1>17. ASSUME NEW h \in Handlers, CommitUndo(h) PROVE TypeOK'
  <2> DEFINE g == handler[h].group
  <2>1. g \in Groups /\ ~At(h, "idle")
    BY <1>17 DEF CommitUndo, Satisfied, PlacesFit, Fits, At, ByPackage
  <2>2. CASE Throw(h) /\ UNCHANGED rows
    BY <1>17, <2>1, <2>2, ThrowTyped DEF CommitUndo, TypeOK
  <2>3. CASE ~(Throw(h) /\ UNCHANGED rows)
    <3> DEFINE before(r) == CHOOSE e \in groups[g].journal : e.row = r
               restored(r) ==
                 IF before(r).created THEN [rows[r] EXCEPT !.exists = FALSE]
                 ELSE [rows[r] EXCEPT !.open = before(r).open, !.by = before(r).by,
                                      !.version = @ + 1]
    <3>1. /\ rows' = [r \in Rows |-> IF r \in handler[h].held THEN restored(r) ELSE rows[r]]
          /\ SetStatus(g, "undone")
          /\ handler' = [handler EXCEPT ![h] = [handler[h] EXCEPT !.pc = "answer", !.held = {}]]
      BY <1>17, <2>3 DEF CommitUndo, TypeOK
    <3>2. ASSUME NEW r \in handler[h].held PROVE \E e \in groups[g].journal : e.row = r
      <4>1. At(h, "lock_undo")
        BY <1>17 DEF CommitUndo, Satisfied
      <4>2. r \in {e.row : e \in groups[g].journal}
        BY <4>1 DEF UndoLocks
      <4> QED BY <4>2
    <3>3. \A r \in handler[h].held : before(r) \in Event
      BY <3>2, <2>1 DEF TypeOK, GroupType
    <3>4. rows' \in [Rows -> RowType]
      <4>1. ASSUME NEW r \in handler[h].held PROVE restored(r) \in RowType
        <5>1. r \in Rows /\ rows[r] \in RowType
          BY DEF TypeOK, Handler
        <5>2. before(r).open \in BOOLEAN /\ before(r).by \in Contents
          BY <3>3 DEF Event
        <5> HIDE DEF before
        <5>3. CASE before(r).created
          BY <5>1, <5>3 DEF RowType
        <5>4. CASE ~before(r).created
          <6> DEFINE open == before(r).open
                     by == before(r).by
                     p == rows[r]
          <6>1. open \in BOOLEAN /\ by \in Contents /\ p \in RowType
            BY <5>1, <5>2
          <6>2. restored(r) = [p EXCEPT !.open = open, !.by = by, !.version = @ + 1]
            BY <5>4
          <6> HIDE DEF open, by, p, restored
          <6>3. [p EXCEPT !.open = open, !.by = by, !.version = @ + 1] \in RowType
            BY <6>1, RowWritten
          <6> QED BY <6>2, <6>3
        <5> QED BY <5>3, <5>4
      <4> HIDE DEF restored
      <4> QED BY <3>1, <4>1 DEF TypeOK
    <3>5. GroupsKept
      BY <3>1, <2>1, StatusTyped DEF Statuses
    <3>6. HandlersKept
      BY <1>h, <1>y, <3>1 DEF Handler
    <3> QED BY <1>17, <3>4, <3>5, <3>6 DEF CommitUndo, TypeOK
  <2> QED BY <2>2, <2>3
<1>18. ASSUME NEW h \in Handlers, Release(h) PROVE TypeOK'
  <2>1. handler[h].group \in Groups
    BY <1>18 DEF Release, PlacesFit, Fits, At, ByPackage
  <2>2. GroupsKept
    <3> DEFINE k == handler[h].group
    <3>1. groups' = Released(k)
      BY <1>18 DEF Release
    <3> HIDE DEF k
    <3> QED BY <1>y, <3>1, <2>1, RepairTyped DEF Status, k
  <2> QED BY <1>18, <2>2, FinishTyped DEF Release, TypeOK
<1>19. ASSUME NEW h \in Handlers, NEW d \in Dates, NEW closes \in BOOLEAN,
              BeginWrite(h, d, closes) PROVE TypeOK'
  <2>1. TaskOf[d] \in Rows /\ d \in Rows
    BY GroupsAssumption DEF GroupsAssumption, Rows
  <2>2. HandlersKept
    <3>1. [r \in Rows |-> rows[r].version] \in [Rows -> Nat]
      BY DEF TypeOK, RowType
    <3> DEFINE kind == IF closes THEN "close" ELSE "touch"
               want == IF closes /\ d \in OneTime THEN {d, TaskOf[d]} ELSE {d}
               seen == [r \in Rows |-> rows[r].version]
               after == [Idle EXCEPT !.pc = "write", !.kind = kind, !.want = want, !.seen = seen]
    <3>2. kind \in Kinds /\ want \in SUBSET Rows
      BY <2>1 DEF Kinds
    <3>3. handler' = [handler EXCEPT ![h] = after]
      BY <1>19 DEF BeginWrite
    <3> HIDE DEF kind, want, seen
    <3>4. after \in Handler
      BY <1>h, <3>1, <3>2, IdleTyped DEF Handler, seen
    <3> HIDE DEF after
    <3> QED BY <3>3, <3>4 DEF TypeOK
  <2> QED BY <1>0, <1>19, <2>2, SpendTyped DEF BeginWrite, TypeOK
<1>20. ASSUME NEW h \in Handlers, CommitWrite(h) PROVE TypeOK'
  <2>1. rows' \in [Rows -> RowType]
    <3>1. ASSUME NEW r \in Rows
          PROVE  [rows[r] EXCEPT !.version = @ + 1, !.by = System,
                                 !.open = handler[h].kind = "touch"] \in RowType
      <4>1. rows[r] \in RowType /\ System \in Contents
            /\ (handler[h].kind = "touch") \in BOOLEAN
        BY DEF TypeOK, Contents
      <4> DEFINE open == handler[h].kind = "touch"
                 p == rows[r]
      <4>2. open \in BOOLEAN /\ p \in RowType
        BY <4>1
      <4> HIDE DEF open, p
      <4>3. [p EXCEPT !.version = @ + 1, !.by = System, !.open = open] \in RowType
        BY <4>1, <4>2, RowClosed
      <4> QED BY <4>3 DEF p, open
    <3> QED BY <1>20, <3>1 DEF CommitWrite, TypeOK
  <2> QED BY <1>0, <1>20, <2>1, FinishTyped DEF CommitWrite, TypeOK
<1>21. CASE FindExpired
  BY <1>0, <1>21 DEF FindExpired, TypeOK
<1>22. CASE ExpirePending
  <2>1. GroupsKept
    <3>1. ASSUME NEW g \in Groups
          PROVE  /\ groups'[g] \in GroupType
                 /\ groups'[g].status = "pending" => groups'[g].payload
      <4> DEFINE s == IF groups[g].status = "pending" THEN "expired" ELSE groups[g].status
      <4>1. groups[g] \in GroupType /\ s \in Statuses /\ s # "pending"
        BY DEF TypeOK, GroupType, Statuses
      <4>2. groups'[g] = groups[g]
            \/ groups'[g] = [groups[g] EXCEPT !.status = s, !.payload = FALSE]
        BY <1>22, <4>1 DEF ExpirePending, GroupType
      <4> HIDE DEF s
      <4>3. /\ [groups[g] EXCEPT !.status = s, !.payload = FALSE] \in GroupType
            /\ [groups[g] EXCEPT !.status = s, !.payload = FALSE].status = s
        BY <4>1, PackageClosed
      <4> QED BY <1>y, <4>1, <4>2, <4>3
    <3>2. groups' = [g \in Groups |-> groups'[g]]
      BY <1>22 DEF ExpirePending
    <3> QED BY <3>1, <3>2, AllGroupsTyped
  <2> QED BY <1>22, <2>1 DEF ExpirePending, TypeOK
<1>23. CASE Scrub
  <2>1. GroupsKept
    <3>1. ASSUME NEW g \in Groups
          PROVE  /\ groups'[g] \in GroupType
                 /\ groups'[g].status = "pending" => groups'[g].payload
      <4> DEFINE b == groups[g].scrubbed \/ (Scrubbable(g) /\ groups[g].journal # {})
      <4>1. groups[g] \in GroupType /\ b \in BOOLEAN
        BY DEF TypeOK, GroupType
      <4>2. groups'[g] = [groups[g] EXCEPT !.scrubbed = b]
        BY <1>23 DEF Scrub
      <4> HIDE DEF b
      <4>3. groups'[g] \in GroupType /\ groups'[g].status = groups[g].status
            /\ groups'[g].payload = groups[g].payload
        <5> DEFINE p == groups[g]
        <5>1. p \in GroupType /\ groups'[g] = [p EXCEPT !.scrubbed = b]
          BY <4>1, <4>2
        <5> HIDE DEF p
        <5>2. groups'[g] \in GroupType /\ groups'[g].status = p.status
              /\ groups'[g].payload = p.payload
          BY <4>1, <5>1 DEF GroupType
        <5> QED BY <5>2 DEF p
      <4> QED BY <1>y, <4>3
    <3>2. groups' = [g \in Groups |-> groups'[g]]
      BY <1>23 DEF Scrub
    <3> QED BY <3>1, <3>2, AllGroupsTyped
  <2> QED BY <1>23, <2>1 DEF Scrub, TypeOK
<1>24. CASE ListInterrupted
  BY <1>0, <1>24 DEF ListInterrupted, TypeOK
<1>25. ASSUME NEW x \in recovery.listed, RecoverOne(x) PROVE TypeOK'
  <2>1. x.group \in Groups /\ Status(x.group) # "pending"
    BY DEF TypeOK, Stages, Early
  <2>2. GroupsKept
    <3> DEFINE k == x.group
    <3>1. groups' = Failed(k) \/ groups' = Released(k)
      BY <1>25 DEF RecoverOne
    <3>2. k \in Groups /\ Status(k) # "pending"
      BY <2>1
    <3> HIDE DEF k
    <3>3. CASE groups' = Failed(k)
      BY <3>2, <3>3, <1>y, RepairTyped DEF Status
    <3>4. CASE groups' = Released(k)
      BY <3>2, <3>4, <1>y, RepairTyped DEF Status
    <3> QED BY <3>1, <3>3, <3>4
  <2>3. recovery' \in [due: BOOLEAN,
                       listed: SUBSET [group: Groups, status: {"applying", "undoing"}]]
    BY <1>25 DEF RecoverOne, TypeOK
  <2> QED BY <1>25, <2>2, <2>3 DEF RecoverOne, TypeOK
<1>26. CASE Crash
  <2>1. GroupsKept
    <3>1. ASSUME NEW g \in Groups
          PROVE  /\ groups'[g] \in GroupType
                 /\ groups'[g].status = "pending" => groups'[g].payload
      <4> DEFINE s == IF groups[g].status = "proposed" THEN "rejected" ELSE groups[g].status
      <4>1. groups[g] \in GroupType /\ s \in Statuses
            /\ (s = "pending" => groups[g].status = "pending")
        BY DEF TypeOK, GroupType, Statuses
      <4>2. groups'[g] = [groups[g] EXCEPT !.status = s]
        BY <1>26 DEF Crash
      <4> HIDE DEF s
      <4>3. /\ [groups[g] EXCEPT !.status = s] \in GroupType
            /\ [groups[g] EXCEPT !.status = s].status = s
            /\ [groups[g] EXCEPT !.status = s].payload = groups[g].payload
        BY <4>1, PackageMoved
      <4> QED BY <1>y, <4>1, <4>2, <4>3
    <3>2. groups' = [g \in Groups |-> groups'[g]]
      BY <1>26 DEF Crash
    <3> QED BY <3>1, <3>2, AllGroupsTyped
  <2>2. HandlersKept
    BY <1>26, IdleTyped DEF Crash
  <2> QED BY <1>26, <2>1, <2>2, SpendTyped DEF Crash, TypeOK
<1>27. ASSUME NEW h \in Handlers, LoseConnection(h) PROVE TypeOK'
  <2>1. GroupsKept
    <3>1. CASE UNCHANGED groups
      BY <1>0, <3>1
    <3>2. CASE groups' # groups
      BY <1>27, <3>2, StatusTyped DEF LoseConnection, PlacesFit, Fits, At, ByPackage, Statuses
    <3> QED BY <3>1, <3>2
  <2> QED BY <1>27, <2>1, FinishTyped, SpendTyped DEF LoseConnection, TypeOK
<1>32. ASSUME NEW h \in Handlers, PrepareThrows(h) PROVE TypeOK'
  BY <1>0, <1>32, FinishTyped DEF PrepareThrows, TypeOK
<1>28. ASSUME NEW h \in Handlers, LoseTransaction(h) PROVE TypeOK'
  BY <1>28, ThrowTyped, SpendTyped DEF LoseTransaction, TypeOK, At
<1>29. ASSUME NEW h \in Handlers, BreakCircle(h) PROVE TypeOK'
  <2>1. ~At(h, "idle")
    BY <1>29 DEF BreakCircle, Circle, WaitsFor, PlacesFit, Fits, InTransaction, At
  <2> QED BY <1>29, <2>1, ThrowTyped DEF BreakCircle, TypeOK
<1>30. CASE Tick
  BY <1>0, <1>30, <1>t DEF Tick, TypeOK, Time
<1>31. CASE UNCHANGED vars
  BY <1>31 DEF vars, TypeOK, Status
<1> QED
  BY <1>1, <1>2, <1>3, <1>4, <1>5, <1>6, <1>7, <1>8, <1>9, <1>10, <1>11, <1>12,
     <1>13, <1>14, <1>15, <1>16, <1>17, <1>18, <1>19, <1>20, <1>21, <1>22, <1>23,
     <1>24, <1>25, <1>26, <1>27, <1>28, <1>29, <1>30, <1>31, <1>32
     DEF Next, Serve, Requests, Maintenance, Boot
-----------------------------------------------------------------------------
(* The steps a request takes, by what they leave of it.                     *)
Others(h) == \A k \in Handlers \ {h} : handler'[k] = handler[k]
Same(h) == handler'[h].kind = handler[h].kind /\ handler'[h].group = handler[h].group
LocksSame(h) ==
  handler'[h].held = handler[h].held /\ handler'[h].want = handler[h].want

(* Goto moves one request and leaves its locks.                             *)
LEMMA GotoMoves ==
  ASSUME TypeOK, NEW h \in Handlers, NEW pc \in Places, Goto(h, pc)
  PROVE  Others(h) /\ Same(h) /\ LocksSame(h) /\ handler'[h].pc = pc
<1>1. handler \in [Handlers -> Handler]
  BY DEF TypeOK
<1> QED BY <1>1 DEF Goto, Handler, Others, Same, LocksSame

(* Finish ends one request, whose locks go with its transaction.            *)
LEMMA FinishMoves ==
  ASSUME TypeOK, NEW h \in Handlers, Finish(h)
  PROVE  /\ Others(h) /\ handler'[h] = Idle
         /\ handler'[h].pc = "idle" /\ handler'[h].held = {} /\ handler'[h].want = {}
BY DEF Finish, TypeOK, Others, Idle

(* Lock passes one row from what a request wants to what it holds.          *)
LEMMA LockMoves ==
  ASSUME TypeOK, NEW h \in Handlers, NEW r \in Rows, Lock(h, r)
  PROVE  /\ Others(h) /\ Same(h) /\ handler'[h].pc = handler[h].pc
         /\ handler'[h].held = handler[h].held \cup {r}
         /\ handler'[h].want = handler[h].want \ {r}
<1>1. handler \in [Handlers -> Handler]
  BY DEF TypeOK
<1> QED BY <1>1 DEF Lock, Handler, Others, Same

(* A caught failure drops the locks and goes to the caller's catch.         *)
LEMMA ThrowMoves ==
  ASSUME TypeOK, NEW h \in Handlers, Throw(h)
  PROVE  /\ Others(h) /\ handler'[h].held = {} /\ handler'[h].want = {}
         /\ \/ handler[h].kind = "confirm" /\ handler'[h].pc = "fail" /\ Same(h)
            \/ handler[h].kind = "undo" /\ handler'[h].pc = "release" /\ Same(h)
            \/ handler[h].kind \notin {"confirm", "undo"} /\ handler'[h] = Idle
                 /\ handler'[h].pc = "idle"
<1>1. handler \in [Handlers -> Handler]
  BY DEF TypeOK
<1>2. CASE handler[h].kind = "confirm"
  <2>1. handler' = [handler EXCEPT ![h] =
                      [handler[h] EXCEPT !.pc = "fail", !.want = {}, !.held = {}]]
    BY <1>1, <1>2 DEF Throw
  <2> QED BY <1>1, <1>2, <2>1 DEF Handler, Others, Same
<1>3. CASE handler[h].kind = "undo"
  <2>1. handler' = [handler EXCEPT ![h] =
                      [handler[h] EXCEPT !.pc = "release", !.want = {}, !.held = {}]]
    BY <1>1, <1>3 DEF Throw
  <2> QED BY <1>1, <1>3, <2>1 DEF Handler, Others, Same
<1>4. CASE handler[h].kind \notin {"confirm", "undo"}
  BY <1>1, <1>4 DEF Throw, Idle, Others
<1> QED BY <1>2, <1>3, <1>4

(* A request that begins.                                                   *)
LEMMA TurnMoves ==
  ASSUME TypeOK, NEW h \in Handlers, NEW g \in Groups, Turn(h, g)
  PROVE  /\ Others(h) /\ handler'[h].pc = "dispose"
         /\ handler'[h].kind = "turn" /\ handler'[h].group = g
         /\ handler'[h].held = {} /\ handler'[h].want = {}
BY DEF Turn, TypeOK, Idle, Others

(* undoGroup begins without locks.                                          *)
LEMMA UndoMoves ==
  ASSUME TypeOK, NEW h \in Handlers, NEW g \in Groups, Undo(h, g)
  PROVE  /\ Others(h) /\ handler'[h].pc = "claim_undo"
         /\ handler'[h].kind = "undo" /\ handler'[h].group = g
         /\ handler'[h].held = {} /\ handler'[h].want = {}
BY DEF Undo, TypeOK, Idle, Others

(* confirm begins without locks.                                            *)
LEMMA ConfirmMoves ==
  ASSUME TypeOK, NEW g \in Groups, Confirm(g)
  PROVE  /\ Chat \in Handlers /\ Others(Chat) /\ handler'[Chat].pc = "claim"
         /\ handler'[Chat].kind = "confirm" /\ handler'[Chat].group = g
         /\ handler'[Chat].held = {} /\ handler'[Chat].want = {}
<1>1. Chat \in Handlers
  BY DEF Handlers
<1> QED BY <1>1 DEF Confirm, TypeOK, Idle, Others

(* A write of the lifecycle loop begins without locks.                      *)
LEMMA WriteMoves ==
  ASSUME TypeOK, NEW h \in Handlers, NEW d \in Dates, NEW closes \in BOOLEAN,
         BeginWrite(h, d, closes)
  PROVE  /\ Others(h) /\ handler'[h].pc = "write"
         /\ handler'[h].kind \in {"touch", "close"}
         /\ handler'[h].held = {}
BY DEF BeginWrite, TypeOK, Idle, Others


(* A request that enters a transaction, its steps, or commits.              *)
Enters(h, pc, want) ==
  handler' = [handler EXCEPT ![h] = [@ EXCEPT !.pc = pc, !.want = want]]
(* A request that goes to a step of its transaction keeps what it holds.    *)
LEMMA EnterMoves ==
  ASSUME TypeOK, NEW h \in Handlers, NEW pc, NEW want, Enters(h, pc, want)
  PROVE  /\ Others(h) /\ Same(h) /\ handler'[h].pc = pc
         /\ handler'[h].held = handler[h].held /\ handler'[h].want = want
<1>1. handler \in [Handlers -> Handler]
  BY DEF TypeOK
<1> QED BY <1>1 DEF Enters, Handler, Others, Same

(* The steps of an apply want what the package closes beside its targets.   *)
LEMMA StepsMoves ==
  ASSUME TypeOK, NEW h \in Handlers, BeginSteps(h), Applicable(handler[h].group)
  PROVE  /\ Others(h) /\ Same(h) /\ handler'[h].pc = "steps"
         /\ handler'[h].held = handler[h].held
         /\ handler'[h].want = Changed(handler[h].group) \ handler[h].held
<1>1. handler \in [Handlers -> Handler]
  BY DEF TypeOK
<1> DEFINE want == Changed(handler[h].group) \ handler[h].held
           seen == [r \in Rows |-> rows[r].version]
<1>2. handler' = [handler EXCEPT ![h] = [handler[h] EXCEPT !.pc = "steps",
                                           !.want = want, !.seen = seen]]
  BY DEF BeginSteps
<1> HIDE DEF want, seen
<1>3. /\ Others(h) /\ Same(h) /\ handler'[h].pc = "steps"
      /\ handler'[h].held = handler[h].held /\ handler'[h].want = want
  BY <1>1, <1>2 DEF Handler, Others, Same
<1> QED BY <1>3 DEF want

(* A commit releases what the request held.                                 *)
LEMMA CommitMoves ==
  ASSUME TypeOK, NEW h \in Handlers,
         handler' = [handler EXCEPT ![h] = [@ EXCEPT !.pc = "answer", !.held = {}]]
  PROVE  /\ Others(h) /\ Same(h) /\ handler'[h].pc = "answer"
         /\ handler'[h].held = {} /\ handler'[h].want = handler[h].want
<1>1. handler \in [Handlers -> Handler]
  BY DEF TypeOK
<1> QED BY <1>1 DEF Handler, Others, Same


(* Requests stay where their kind belongs.                                  *)
LEMMA PlacesStep == TypeInv /\ [Next]_vars => PlacesFit'
<1> SUFFICES ASSUME TypeOK, PlacesFit, Stages, UndoLocks, [Next]_vars PROVE PlacesFit'
  BY DEF TypeInv
<1> USE DEF At, ByPackage, Applying, InTransaction
<1>a. ASSUME NEW h \in Handlers, Others(h), Fits(h)' PROVE PlacesFit'
  BY <1>a DEF PlacesFit, Fits, Others
<1>b. ASSUME UNCHANGED handler PROVE PlacesFit'
  BY <1>b DEF PlacesFit, Fits
<1>f. ASSUME NEW h \in Handlers, Finish(h) PROVE PlacesFit'
  BY <1>a, <1>f, FinishMoves DEF Fits
<1>t. ASSUME NEW h \in Handlers, Throw(h), ~At(h, "idle") PROVE PlacesFit'
  <2>1. Fits(h)' /\ Others(h)
    BY <1>t, ThrowMoves DEF PlacesFit, Fits, Same
  <2> QED BY <2>1, <1>a
<1>g. ASSUME NEW h \in Handlers, NEW pc \in Places, Goto(h, pc),
             \/ At(h, "dispose") /\ pc = "answer"
             \/ At(h, "claim") /\ pc = "payload"
             \/ At(h, "payload") /\ pc \in {"validate", "expire"}
             \/ At(h, "validate") /\ pc = "fail"
      PROVE  PlacesFit'
  <2>1. Fits(h)' /\ Others(h)
    BY <1>g, GotoMoves DEF PlacesFit, Fits, Same, LocksSame
  <2> QED BY <2>1, <1>a
<1>p. {"answer", "payload", "validate", "expire", "fail"} \subseteq Places
  BY DEF Places
<1>1. ASSUME NEW h \in Handlers, NEW g \in Groups, Turn(h, g) PROVE PlacesFit'
  BY <1>1, <1>a, TurnMoves DEF Fits
<1>2. ASSUME NEW h \in Handlers, StorePending(h) PROVE PlacesFit'
  BY <1>2, <1>g, <1>p DEF StorePending
<1>3. ASSUME NEW h \in Handlers, BeginApply(h) PROVE PlacesFit'
  <2> DEFINE want == Targets(handler[h].group)
  <2>1. At(h, "dispose") /\ Enters(h, "lock", want)
    BY <1>3 DEF BeginApply, Enters
  <2> HIDE DEF want
  <2>2. Fits(h)' /\ Others(h)
    BY <2>1, EnterMoves DEF PlacesFit, Fits, Same
  <2> QED BY <2>2, <1>a
<1>4. ASSUME NEW h \in Handlers, Claim(h) PROVE PlacesFit'
  BY <1>4, <1>f, <1>g, <1>p DEF Claim
<1>5. ASSUME NEW h \in Handlers, ReadPayload(h) PROVE PlacesFit'
  BY <1>5, <1>g, <1>p DEF ReadPayload
<1>6. ASSUME NEW h \in Handlers, Validate(h) PROVE PlacesFit'
  <2>1. CASE Goto(h, "fail")
    BY <1>6, <2>1, <1>g, <1>p DEF Validate
  <2>2. CASE ~Goto(h, "fail")
    <3> DEFINE want == Targets(handler[h].group)
    <3>1. At(h, "validate") /\ Enters(h, "lock", want)
      BY <1>6, <2>2 DEF Validate, Enters
    <3> HIDE DEF want
    <3>2. Fits(h)' /\ Others(h)
      BY <3>1, EnterMoves DEF PlacesFit, Fits, Same
    <3> QED BY <3>2, <1>a
  <2> QED BY <2>1, <2>2
<1>7. ASSUME NEW g \in Groups, Confirm(g) PROVE PlacesFit'
  BY <1>7, <1>a, ConfirmMoves DEF Fits
<1>8. ASSUME NEW h \in Handlers, LockTarget(h) \/ LockStep(h) \/ LockUndo(h) \/ LockWrite(h)
      PROVE  PlacesFit'
  <2>1. handler[h].want # {} /\ ~At(h, "idle") /\ InTransaction(h)
    BY <1>8 DEF LockTarget, LockStep, LockUndo, LockWrite, Wanting
  <2>2. NextRow(h) \in Rows
    BY <2>1, NextRowNeeded
  <2>3. Lock(h, NextRow(h)) \/ Throw(h)
    BY <1>8 DEF LockTarget, LockStep, LockUndo, LockWrite
  <2>4. ASSUME Lock(h, NextRow(h)) PROVE Fits(h)' /\ Others(h)
    <3>1. Others(h) /\ Same(h) /\ handler'[h].pc = handler[h].pc
      BY <2>2, <2>4, LockMoves
    <3> QED BY <2>1, <3>1 DEF PlacesFit, Fits, Same
  <2> QED BY <2>1, <2>3, <2>4, <1>a, <1>t
<1>9. ASSUME NEW h \in Handlers, BeginSteps(h) PROVE PlacesFit'
  <2>1. At(h, "lock") /\ (Applicable(handler[h].group) \/ Throw(h))
    BY <1>9 DEF BeginSteps, Satisfied
  <2>2. ASSUME Applicable(handler[h].group) PROVE Fits(h)' /\ Others(h)
    BY <1>9, <2>1, <2>2, StepsMoves DEF PlacesFit, Fits, Same
  <2> QED BY <2>1, <2>2, <1>a, <1>t
<1>10. ASSUME NEW h \in Handlers, CommitApply(h) \/ CommitUndo(h) PROVE PlacesFit'
  <2>1. /\ handler[h].want = {} /\ handler[h].pc \in {"steps", "lock_undo"}
        /\ \/ Throw(h)
           \/ handler' = [handler EXCEPT ![h] = [@ EXCEPT !.pc = "answer", !.held = {}]]
    BY <1>10 DEF CommitApply, CommitUndo, Satisfied
  <2>2. CASE Throw(h)
    BY <2>1, <2>2, <1>t
  <2>3. CASE ~Throw(h)
    <3>1. Fits(h)' /\ Others(h)
      BY <2>1, <2>3, CommitMoves DEF PlacesFit, Fits, Same
    <3> QED BY <3>1, <1>a
  <2> QED BY <2>2, <2>3
<1>11. ASSUME NEW h \in Handlers, NEW g \in Groups, Undo(h, g) PROVE PlacesFit'
  BY <1>11, <1>a, UndoMoves DEF Fits
<1>12. ASSUME NEW h \in Handlers, ClaimUndo(h) PROVE PlacesFit'
  <2> DEFINE want == {e.row : e \in groups[handler[h].group].journal}
  <2>1. At(h, "claim_undo")
        /\ (Finish(h) \/ Enters(h, "lock_undo", want))
    BY <1>12 DEF ClaimUndo, Enters
  <2> HIDE DEF want
  <2>2. CASE Finish(h)
    BY <2>2, <1>f
  <2>3. CASE ~Finish(h)
    <3>1. Fits(h)' /\ Others(h)
      BY <2>1, <2>3, EnterMoves DEF PlacesFit, Fits, Same
    <3> QED BY <3>1, <1>a
  <2> QED BY <2>2, <2>3
<1>13. ASSUME NEW h \in Handlers, NEW d \in Dates, NEW closes \in BOOLEAN,
              BeginWrite(h, d, closes) PROVE PlacesFit'
  BY <1>13, <1>a, WriteMoves DEF Fits
<1>14. ASSUME NEW h \in Handlers, LoseTransaction(h) PROVE PlacesFit'
  BY <1>14, <1>t DEF LoseTransaction
<1>15. ASSUME NEW h \in Handlers, BreakCircle(h) PROVE PlacesFit'
  <2>1. ~At(h, "idle")
    BY <1>15 DEF BreakCircle, Circle, WaitsFor, PlacesFit, Fits
  <2> QED BY <1>15, <2>1, <1>t DEF BreakCircle
<1>16. CASE Crash
  <2>1. \A h \in Handlers : handler'[h] = Idle
    BY <1>16 DEF Crash
  <2> QED BY <2>1 DEF PlacesFit, Fits, Idle
<1>17. ASSUME NEW h \in Handlers,
              Answer(h) \/ ExpireClaimed(h) \/ MarkFailed(h) \/ Release(h)
                \/ CommitWrite(h) \/ LoseConnection(h) \/ PrepareThrows(h)
       PROVE  PlacesFit'
  BY <1>17, <1>f DEF Answer, ExpireClaimed, MarkFailed, Release, CommitWrite, LoseConnection,
       PrepareThrows
<1>18. CASE \/ \E g \in Groups : CancelPending(g)
            \/ \E x \in recovery.listed : RecoverOne(x)
            \/ FindExpired \/ ExpirePending \/ Scrub \/ ListInterrupted \/ Tick
            \/ UNCHANGED vars
  BY <1>18, <1>b DEF CancelPending, RecoverOne, FindExpired, ExpirePending, Scrub,
     ListInterrupted, Tick, vars
<1> QED
  BY <1>1, <1>2, <1>3, <1>4, <1>5, <1>6, <1>7, <1>8, <1>9, <1>10, <1>11, <1>12,
     <1>13, <1>14, <1>15, <1>16, <1>17, <1>18
     DEF Next, Serve, Requests, Maintenance, Boot

-----------------------------------------------------------------------------
(* The steps a package takes: never back to where it came from, what the    *)
(* user saw is never rewritten, nor the journal once it is there; and one   *)
(* being proposed is decided by the request that proposes it.               *)
Became(g) == groups'[g].status
Onward(g) ==
  /\ Status(g) # "none" => groups'[g].expected = groups[g].expected
  /\ Became(g) \in Early => Status(g) \in Early
  /\ Became(g) \in Early \cup {"applying"} => Status(g) \in Early \cup {"applying"}
  /\ Became(g) = "pending" => Status(g) = "pending" \/ g \in Gated
  /\ Status(g) \notin Early \cup {"applying"} => groups'[g].journal = groups[g].journal
  /\ (Became(g) = "applied" /\ Status(g) \notin {"applied", "undoing"})
       => \E h \in Handlers : At(h, "steps") /\ handler[h].group = g
  /\ (Status(g) = "proposed" /\ Became(g) # "proposed")
       => \/ \A h \in Handlers : ~Proposing(h)'
          \/ \E h \in Handlers :
               Proposing(h) /\ handler[h].group = g /\ ~Proposing(h)'

Kept(g) ==
  groups'[g].expected = groups[g].expected /\ groups'[g].journal = groups[g].journal
OthersKept(g) == \A k \in Groups \ {g} : groups'[k] = groups[k]
Closes(g, status) ==
  groups' = [groups EXCEPT ![g] = [@ EXCEPT !.status = status, !.payload = FALSE]]

(* setGroupStatus moves one package and nothing else of it.                 *)
LEMMA StatusMoves ==
  ASSUME TypeOK, NEW g \in Groups, NEW s \in Statuses, SetStatus(g, s)
  PROVE  Kept(g) /\ OthersKept(g) /\ Became(g) = s
<1>1. groups \in [Groups -> GroupType]
  BY DEF TypeOK
<1> QED BY <1>1 DEF SetStatus, GroupType, Kept, OthersKept, Status, Became

(* Closing a package keeps what it showed and what it wrote.                *)
LEMMA CloseMoves ==
  ASSUME TypeOK, NEW g \in Groups, NEW s \in Statuses, Closes(g, s)
  PROVE  Kept(g) /\ OthersKept(g) /\ Became(g) = s
<1>1. groups \in [Groups -> GroupType]
  BY DEF TypeOK
<1> QED BY <1>1 DEF Closes, GroupType, Kept, OthersKept, Status, Became

(* recoverInterruptedActions takes back only what was in progress.          *)
LEMMA RepairMoves ==
  ASSUME TypeOK, NEW g \in Groups, groups' \in {Failed(g), Released(g)}
  PROVE  /\ Kept(g) /\ OthersKept(g)
         /\ \/ Became(g) = Status(g)
            \/ Status(g) = "applying" /\ Became(g) = "failed"
            \/ Status(g) = "undoing" /\ Became(g) = "applied"
<1> DEFINE s == IF Status(g) = "applying" THEN "failed" ELSE Status(g)
           t == IF Status(g) = "undoing" THEN "applied" ELSE Status(g)
<1>1. s \in Statuses /\ t \in Statuses
  BY DEF TypeOK, GroupType, Statuses, Status, Became
<1>2. CASE groups' = Failed(g)
  <2>1. Closes(g, s)
    BY <1>2 DEF Failed, Closes
  <2> HIDE DEF s
  <2>2. Kept(g) /\ OthersKept(g) /\ Became(g) = s
    BY <1>1, <2>1, CloseMoves
  <2> QED BY <2>2 DEF s
<1>3. CASE groups' = Released(g)
  <2>1. SetStatus(g, t)
    BY <1>3 DEF Released, SetStatus, Status, Became
  <2> HIDE DEF t
  <2>2. Kept(g) /\ OthersKept(g) /\ Became(g) = t
    BY <1>1, <2>1, StatusMoves
  <2> QED BY <2>2 DEF t
<1> QED BY <1>2, <1>3

(* A caught failure ends the package of a turn, and leaves every other.     *)
LEMMA ThrowSettles ==
  ASSUME TypeInv, NEW h \in Handlers, Throw(h), ~At(h, "idle")
  PROVE  /\ handler[h].kind # "turn" => groups' = groups
         /\ handler[h].kind = "turn" =>
              /\ handler[h].group \in Groups
              /\ Kept(handler[h].group) /\ OthersKept(handler[h].group)
              /\ Became(handler[h].group) = "rejected" /\ ~Proposing(h)'
<1>1. CASE handler[h].kind = "turn"
  <2>1. SetStatus(handler[h].group, "rejected") /\ handler[h].group \in Groups
    BY <1>1 DEF Throw, SetStatus, TypeInv, PlacesFit, Fits, ByPackage
  <2>2. handler'[h].pc = "idle"
    BY <1>1, ThrowMoves DEF TypeInv
  <2>3. TypeOK /\ "rejected" \in Statuses
    BY DEF TypeInv, Statuses
  <2>4. /\ Kept(handler[h].group) /\ OthersKept(handler[h].group)
        /\ Became(handler[h].group) = "rejected"
    BY <2>1, <2>3, StatusMoves
  <2>5. ~Proposing(h)'
    BY <2>2 DEF Proposing
  <2> QED BY <1>1, <2>1, <2>4, <2>5
<1>2. CASE handler[h].kind # "turn"
  BY <1>2 DEF Throw
<1> QED BY <1>1, <1>2


(* In every step every package stays or goes on, never back.                *)
LEMMA Onwards == TypeInv /\ [Next]_vars => \A g \in Groups : Onward(g)
<1> SUFFICES ASSUME TypeInv, [Next]_vars PROVE \A g \in Groups : Onward(g)
  OBVIOUS
<1>0. TypeOK /\ PlacesFit /\ Stages
  BY DEF TypeInv
<1>y. handler \in [Handlers -> Handler] /\ groups \in [Groups -> GroupType]
  BY <1>0 DEF TypeOK
<1>s. {"proposed", "rejected", "pending", "applying", "applied", "undoing", "undone",
       "cancelled", "expired", "failed"} \subseteq Statuses
  BY DEF Statuses
<1> USE DEF At, Early
(* A package that is left alone, and the one that is not.                   *)
<1>a. ASSUME NEW g \in Groups, groups'[g] = groups[g] PROVE Onward(g)
  BY <1>0, <1>a DEF Onward, Status, Became, Stages
<1>b. ASSUME NEW g \in Groups, OthersKept(g), Onward(g) PROVE \A k \in Groups : Onward(k)
  BY <1>a, <1>b DEF OthersKept
<1>c. ASSUME UNCHANGED groups PROVE \A k \in Groups : Onward(k)
  BY <1>a, <1>c
<1>t. ASSUME NEW h \in Handlers, Throw(h), ~At(h, "idle"),
             handler[h].kind = "turn" => Proposing(h)
      PROVE  \A k \in Groups : Onward(k)
  <2>1. CASE handler[h].kind = "turn"
    <3>1. /\ handler[h].group \in Groups /\ Status(handler[h].group) = "proposed"
      BY <1>0, <2>1, <1>t, ThrowSettles DEF Stages, Stage
    <3>2. /\ Kept(handler[h].group) /\ OthersKept(handler[h].group)
          /\ Became(handler[h].group) = "rejected" /\ ~Proposing(h)'
      BY <2>1, <1>t, ThrowSettles
    <3>3. Onward(handler[h].group)
      BY <1>t, <2>1, <3>1, <3>2 DEF Onward, Kept
    <3> QED BY <3>1, <3>2, <3>3, <1>b
  <2>2. CASE handler[h].kind # "turn"
    BY <2>2, <1>t, <1>c, ThrowSettles
  <2> QED BY <2>1, <2>2
<1>1. ASSUME NEW h \in Handlers, NEW g \in Groups, Turn(h, g)
      PROVE  \A k \in Groups : Onward(k)
  <2>1. Status(g) = "none" /\ OthersKept(g) /\ Became(g) = "proposed"
    BY <1>1, <1>y DEF Turn, OthersKept, Status, Became, GroupType
  <2>2. Onward(g)
    BY <2>1 DEF Onward
  <2> QED BY <2>1, <2>2, <1>b
<1>2. ASSUME NEW h \in Handlers, StorePending(h) PROVE \A k \in Groups : Onward(k)
  <2> DEFINE g == handler[h].group
  <2>1. Proposing(h) /\ g \in Groups /\ Status(g) = "proposed"
    BY <1>0, <1>2 DEF StorePending, PlacesFit, Fits, ByPackage, Stages, Stage, Proposing
  <2>2. Kept(g) /\ OthersKept(g) /\ Became(g) = "pending" /\ g \in Gated
    <3> DEFINE until == handler[h].now + ConfirmTtl
    <3>1. groups' = [groups EXCEPT ![g] = [groups[g] EXCEPT !.status = "pending",
                       !.payload = TRUE, !.expires = until]]
          /\ g \in Gated
      BY <1>2 DEF StorePending
    <3> HIDE DEF until, g
    <3> QED BY <1>y, <2>1, <3>1 DEF GroupType, Kept, OthersKept, Status, Became
  <2>3. handler'[h].pc = "answer"
    BY <1>0, <1>2, GotoMoves DEF StorePending, Places
  <2>4. Onward(g)
    BY <2>1, <2>2, <2>3 DEF Onward, Kept, Proposing
  <2> HIDE DEF g
  <2> QED BY <2>1, <2>2, <2>4, <1>b
<1>3. ASSUME NEW h \in Handlers, Answer(h) PROVE \A k \in Groups : Onward(k)
  <2>1. CASE UNCHANGED groups
    BY <2>1, <1>c
  <2>2. CASE ~UNCHANGED groups
    <3> DEFINE card == groups[handler[h].group].answers
    <3>1. card # None /\ Status(card) = "pending" /\ Closes(card, "cancelled")
      BY <1>3, <2>2 DEF Answer, Closes
    <3>2. card \in Groups
      BY <1>0, <1>3, <1>y, <3>1 DEF Answer, PlacesFit, Fits, ByPackage, GroupType
    <3> HIDE DEF card
    <3>3. Kept(card) /\ OthersKept(card) /\ Became(card) = "cancelled"
      BY <1>0, <1>s, <3>1, <3>2, CloseMoves
    <3>4. Onward(card)
      BY <3>1, <3>3 DEF Onward, Kept
    <3> QED BY <3>2, <3>3, <3>4, <1>b
  <2> QED BY <2>1, <2>2
<1>4. ASSUME NEW h \in Handlers, Claim(h) PROVE \A k \in Groups : Onward(k)
  <2> DEFINE g == handler[h].group
  <2>1. CASE Status(g) = "pending"
    <3>1. g \in Groups /\ SetStatus(g, "applying")
      BY <1>0, <1>4, <2>1 DEF Claim, PlacesFit, Fits, ByPackage
    <3> HIDE DEF g
    <3>2. Kept(g) /\ OthersKept(g) /\ Became(g) = "applying"
      BY <1>0, <1>s, <3>1, StatusMoves
    <3>3. Onward(g)
      BY <2>1, <3>2 DEF Onward, Kept
    <3> QED BY <3>1, <3>2, <3>3, <1>b
  <2>2. CASE Status(g) # "pending"
    BY <1>4, <2>2, <1>c DEF Claim
  <2> QED BY <2>1, <2>2
<1>5. ASSUME NEW h \in Handlers, ExpireClaimed(h) PROVE \A k \in Groups : Onward(k)
  <2> DEFINE g == handler[h].group
  <2>1. g \in Groups /\ Closes(g, "expired") /\ Status(g) \notin Early
    BY <1>0, <1>5 DEF ExpireClaimed, Closes, PlacesFit, Fits, ByPackage, Stages, Stage
  <2> HIDE DEF g
  <2>2. Kept(g) /\ OthersKept(g) /\ Became(g) = "expired"
    BY <1>0, <1>s, <2>1, CloseMoves
  <2>3. Onward(g)
    BY <2>1, <2>2 DEF Onward, Kept
  <2> QED BY <2>1, <2>2, <2>3, <1>b
<1>r. ASSUME NEW g \in Groups, Status(g) \notin Early, groups' \in {Failed(g), Released(g)}
      PROVE  \A k \in Groups : Onward(k)
  <2>1. /\ Kept(g) /\ OthersKept(g)
        /\ \/ Became(g) = Status(g)
           \/ Status(g) = "applying" /\ Became(g) = "failed"
           \/ Status(g) = "undoing" /\ Became(g) = "applied"
    BY <1>0, <1>r, RepairMoves
  <2>2. Onward(g)
    BY <1>r, <2>1 DEF Onward, Kept
  <2> QED BY <2>1, <2>2, <1>b
<1>6. ASSUME NEW h \in Handlers, MarkFailed(h) \/ Release(h)
      PROVE  \A k \in Groups : Onward(k)
  <2>1. handler[h].group \in Groups /\ Status(handler[h].group) \notin Early
    BY <1>0, <1>6 DEF MarkFailed, Release, PlacesFit, Fits, ByPackage, Stages, Stage
  <2> QED BY <1>6, <1>r, <2>1 DEF MarkFailed, Release
<1>7. ASSUME NEW x \in recovery.listed, RecoverOne(x) PROVE \A k \in Groups : Onward(k)
  <2>1. x.group \in Groups /\ Status(x.group) \notin Early
    BY <1>0 DEF TypeOK, Stages
  <2> QED BY <1>7, <1>r, <2>1 DEF RecoverOne
<1>8. ASSUME NEW g \in Groups, CancelPending(g) PROVE \A k \in Groups : Onward(k)
  <2>1. Status(g) = "pending" /\ Closes(g, "cancelled")
    BY <1>8 DEF CancelPending, Closes
  <2>2. Kept(g) /\ OthersKept(g) /\ Became(g) = "cancelled"
    BY <1>0, <1>s, <2>1, CloseMoves
  <2>3. Onward(g)
    BY <2>1, <2>2 DEF Onward, Kept
  <2> QED BY <2>2, <2>3, <1>b
<1>9. ASSUME NEW h \in Handlers, LockTarget(h) \/ LockStep(h) \/ LockUndo(h) \/ LockWrite(h)
      PROVE  \A k \in Groups : Onward(k)
  <2>1. UNCHANGED groups \/ Throw(h)
    BY <1>9 DEF LockTarget, LockStep, LockUndo, LockWrite
  <2>2. ~At(h, "idle") /\ (handler[h].kind = "turn" => Proposing(h))
    BY <1>0, <1>9 DEF LockTarget, LockStep, LockUndo, LockWrite, Wanting, PlacesFit, Fits,
       Proposing
  <2> QED BY <2>1, <2>2, <1>c, <1>t
<1>10. ASSUME NEW h \in Handlers, BeginSteps(h) PROVE \A k \in Groups : Onward(k)
  <2>1. UNCHANGED groups \/ Throw(h)
    BY <1>10 DEF BeginSteps
  <2>2. ~At(h, "idle") /\ (handler[h].kind = "turn" => Proposing(h))
    BY <1>10 DEF BeginSteps, Satisfied, Proposing
  <2> QED BY <2>1, <2>2, <1>c, <1>t
<1>11. ASSUME NEW h \in Handlers, CommitApply(h) PROVE \A k \in Groups : Onward(k)
  <2> DEFINE g == handler[h].group
  <2>1. /\ At(h, "steps") /\ g \in Groups /\ Applying(h)
        /\ handler[h].kind = "turn" => Proposing(h) /\ Status(g) = "proposed"
        /\ handler[h].kind = "confirm" => g \in Gated
    BY <1>0, <1>11 DEF CommitApply, Satisfied, PlacesFit, Fits, ByPackage, Applying,
       Stages, Stage, Proposing
  <2>2. CASE Throw(h)
    BY <2>1, <2>2, <1>t
  <2>3. CASE ~Throw(h)
    <3> DEFINE changed == (Changed(g) \cap handler[h].held) \cup Creates(g)
               journal == {[row |-> r, created |-> ~rows[r].exists,
                            open |-> rows[r].open, by |-> rows[r].by,
                            post |-> rows'[r].version] : r \in changed}
               until == handler[h].now + UndoTtl
    <3>1. /\ g \in Gated => Status(g) = "applying"
          /\ groups' = [groups EXCEPT ![g] = [groups[g] EXCEPT !.status = "applied",
               !.payload = FALSE, !.undoUntil = until, !.journal = journal]]
          /\ handler' = [handler EXCEPT ![h] = [@ EXCEPT !.pc = "answer", !.held = {}]]
      BY <1>11, <2>3 DEF CommitApply
    <3> HIDE DEF g, journal, until
    <3>2. /\ groups'[g].expected = groups[g].expected /\ OthersKept(g)
          /\ Became(g) = "applied"
      BY <1>y, <2>1, <3>1 DEF GroupType, OthersKept, Status, Became
    <3>3. Status(g) \in {"proposed", "applying"}
      BY <2>1, <3>1 DEF Applying
    <3>4. handler'[h].pc = "answer"
      BY <1>0, <3>1, CommitMoves
    <3>5. Onward(g)
      BY <1>0, <2>1, <3>1, <3>2, <3>3, <3>4 DEF Onward, Proposing, Applying, Stages, Stage, g
    <3> QED BY <2>1, <3>2, <3>5, <1>b
  <2> QED BY <2>2, <2>3
<1>12. ASSUME NEW h \in Handlers, ClaimUndo(h) PROVE \A k \in Groups : Onward(k)
  <2> DEFINE g == handler[h].group
  <2>1. CASE UNCHANGED groups
    BY <2>1, <1>c
  <2>2. CASE ~UNCHANGED groups
    <3>1. g \in Groups /\ Status(g) = "applied" /\ SetStatus(g, "undoing")
      BY <1>0, <1>12, <2>2 DEF ClaimUndo, PlacesFit, Fits, ByPackage
    <3> HIDE DEF g
    <3>2. Kept(g) /\ OthersKept(g) /\ Became(g) = "undoing"
      BY <1>0, <1>s, <3>1, StatusMoves
    <3>3. Onward(g)
      BY <3>1, <3>2 DEF Onward, Kept
    <3> QED BY <3>1, <3>2, <3>3, <1>b
  <2> QED BY <2>1, <2>2
<1>13. ASSUME NEW h \in Handlers, CommitUndo(h) PROVE \A k \in Groups : Onward(k)
  <2> DEFINE g == handler[h].group
  <2>1. At(h, "lock_undo") /\ g \in Groups /\ handler[h].kind = "undo"
    BY <1>0, <1>13 DEF CommitUndo, Satisfied, PlacesFit, Fits, ByPackage
  <2>2. CASE Throw(h)
    BY <2>1, <2>2, <1>t
  <2>3. CASE ~Throw(h)
    <3>1. Status(g) = "undoing" /\ SetStatus(g, "undone")
      BY <1>13, <2>3 DEF CommitUndo
    <3> HIDE DEF g
    <3>2. Kept(g) /\ OthersKept(g) /\ Became(g) = "undone"
      BY <1>0, <1>s, <2>1, <3>1, StatusMoves
    <3>3. Onward(g)
      BY <3>1, <3>2 DEF Onward, Kept
    <3> QED BY <2>1, <3>2, <3>3, <1>b
  <2> QED BY <2>2, <2>3
<1>14. CASE ExpirePending
  <2> SUFFICES ASSUME NEW g \in Groups PROVE Onward(g)
    OBVIOUS
  <2>1. /\ Kept(g)
        /\ Became(g) = Status(g) \/ (Status(g) = "pending" /\ Became(g) = "expired")
    BY <1>14, <1>y DEF ExpirePending, GroupType, Kept, Status, Became
  <2> QED BY <1>0, <2>1 DEF Onward, Kept, Stages
<1>15. CASE Scrub
  <2> SUFFICES ASSUME NEW g \in Groups PROVE Onward(g)
    OBVIOUS
  <2>1. Kept(g) /\ Became(g) = Status(g)
    <3> DEFINE b == groups[g].scrubbed \/ (Scrubbable(g) /\ groups[g].journal # {})
    <3>1. groups'[g] = [groups[g] EXCEPT !.scrubbed = b]
      BY <1>15 DEF Scrub
    <3> HIDE DEF b
    <3> QED BY <1>y, <3>1 DEF GroupType, Kept, Status, Became
  <2> QED BY <1>0, <2>1 DEF Onward, Kept, Stages
<1>16. CASE Crash
  <2> SUFFICES ASSUME NEW g \in Groups PROVE Onward(g)
    OBVIOUS
  <2>1. /\ Kept(g)
        /\ Became(g) = Status(g) \/ (Status(g) = "proposed" /\ Became(g) = "rejected")
    BY <1>16, <1>y DEF Crash, GroupType, Kept, Status, Became
  <2>2. \A h \in Handlers : ~Proposing(h)'
    BY <1>16 DEF Crash, Proposing, Idle
  <2> QED BY <1>0, <2>1, <2>2 DEF Onward, Kept, Stages
<1>17. ASSUME NEW h \in Handlers, LoseConnection(h) PROVE \A k \in Groups : Onward(k)
  <2> DEFINE g == handler[h].group
  <2>1. CASE UNCHANGED groups
    BY <2>1, <1>c
  <2>2. CASE ~UNCHANGED groups
    <3>1. /\ g \in Groups /\ SetStatus(g, "rejected") /\ Proposing(h)
          /\ Status(g) = "proposed"
      BY <1>0, <1>17, <2>2 DEF LoseConnection, PlacesFit, Fits, ByPackage, Proposing,
         Applying, Stages, Stage
    <3>2. ~Proposing(h)'
      BY <1>0, <1>17, FinishMoves DEF LoseConnection, Proposing
    <3>3. Kept(g) /\ OthersKept(g) /\ Became(g) = "rejected"
      BY <1>0, <1>s, <3>1, StatusMoves
    <3>4. Onward(g)
      BY <3>1, <3>2, <3>3 DEF Onward, Kept
    <3> QED BY <3>1, <3>3, <3>4, <1>b
  <2> QED BY <2>1, <2>2
<1>18. ASSUME NEW h \in Handlers, LoseTransaction(h) PROVE \A k \in Groups : Onward(k)
  <2>1. ~At(h, "idle") /\ Throw(h) /\ (handler[h].kind = "turn" => Proposing(h))
    BY <1>0, <1>18 DEF LoseTransaction, PlacesFit, Fits, Proposing
  <2> QED BY <2>1, <1>t
<1>19. ASSUME NEW h \in Handlers, BreakCircle(h) PROVE \A k \in Groups : Onward(k)
  <2>1. handler[h].want # {} /\ Throw(h)
    BY <1>19 DEF BreakCircle, Circle, WaitsFor
  <2>2. ~At(h, "idle") /\ (handler[h].kind = "turn" => Proposing(h))
    BY <1>0, <2>1 DEF PlacesFit, Fits, InTransaction, Proposing
  <2> QED BY <2>1, <2>2, <1>t
<1>20. CASE UNCHANGED groups
  BY <1>20, <1>c
<1>21. UNCHANGED groups \/ Next
  BY DEF vars
<1>22. ASSUME NEW h \in Handlers,
              BeginApply(h) \/ ReadPayload(h) \/ Validate(h) \/ CommitWrite(h)
                \/ PrepareThrows(h)
                \/ (\E g \in Groups : Undo(h, g))
                \/ (\E d \in Dates, closes \in BOOLEAN : BeginWrite(h, d, closes))
       PROVE  UNCHANGED groups
  BY <1>22 DEF BeginApply, ReadPayload, Validate, CommitWrite, PrepareThrows, Undo, BeginWrite
<1>23. ASSUME \/ \E g \in Groups : Confirm(g)
              \/ FindExpired \/ ListInterrupted \/ Tick
       PROVE  UNCHANGED groups
  BY <1>23 DEF Confirm, FindExpired, ListInterrupted, Tick
<1> QED
  BY <1>1, <1>2, <1>3, <1>4, <1>5, <1>6, <1>7, <1>8, <1>9, <1>10, <1>11, <1>12,
     <1>13, <1>14, <1>15, <1>16, <1>17, <1>18, <1>19, <1>20, <1>21, <1>22, <1>23
     DEF Next, Serve, Requests, Maintenance, Boot


(* Only boot, a repair and a crash touch what is listed for repair.          *)
LEMMA RecoveryMoves ==
  ASSUME [Next]_vars
  PROVE  \/ recovery' = recovery \/ Crash \/ ListInterrupted
         \/ \E x \in recovery.listed : RecoverOne(x)
<1>1. ASSUME NEW h \in Handlers, Serve(h) \/ Requests(h) PROVE recovery' = recovery
  BY <1>1 DEF Serve, Requests, StorePending, BeginApply, Answer, Claim, ReadPayload,
     ExpireClaimed, Validate, MarkFailed, PrepareThrows, LockTarget, BeginSteps, LockStep, CommitApply,
     ClaimUndo, LockUndo, CommitUndo, Release, LockWrite, CommitWrite, BreakCircle,
     Turn, Undo, BeginWrite
<1>2. ASSUME NEW h \in Handlers, LoseConnection(h) \/ LoseTransaction(h)
      PROVE  recovery' = recovery
  BY <1>2 DEF LoseConnection, LoseTransaction
<1>3. ASSUME NEW g \in Groups, Confirm(g) \/ CancelPending(g) PROVE recovery' = recovery
  BY <1>3 DEF Confirm, CancelPending
<1>4. CASE Maintenance \/ Tick \/ UNCHANGED vars
  BY <1>4 DEF Maintenance, FindExpired, ExpirePending, Scrub, Tick, vars
<1> QED BY <1>1, <1>2, <1>3, <1>4 DEF Next, Boot

(* A request after a step: as far as its package, and proposing only what it *)
(* proposed or has just begun to propose.                                    *)
Goes(h) ==
  /\ Stage(h)'
  /\ Proposing(h)' => \/ Proposing(h) /\ Same(h)
                      \/ \E g \in Groups : Turn(h, g)

(* The package of a request is as far as the request is.                    *)
LEMMA StagesStep == TypeInv /\ [Next]_vars => Stages'
<1> SUFFICES ASSUME TypeInv, [Next]_vars PROVE Stages'
  OBVIOUS
<1>0. TypeOK /\ PlacesFit /\ Stages
  BY DEF TypeInv
<1>o. /\ \A g \in Groups : Onward(g)
      /\ \A g \in Groups : (groups'[g].status = "pending") => g \in Gated
  BY <1>0, Onwards DEF Onward, Became, Stages
<1>y. handler \in [Handlers -> Handler]
  BY <1>0 DEF TypeOK
<1> USE DEF At
(* A request that stays where it is, or goes on.                            *)
<1>k. ASSUME NEW k \in Handlers, handler'[k] = handler[k] PROVE Goes(k)
  <2>1. Stage(k)
    BY <1>0 DEF Stages
  <2>2. (handler[k].pc # "idle" /\ ByPackage(k)) => handler[k].group \in Groups
    BY <1>0 DEF PlacesFit, Fits
  <2>3. ASSUME Proposing(k), handler[k].group \in Groups
        PROVE  groups'[handler[k].group].status = "proposed"
    <3>1. Status(handler[k].group) = "proposed" /\ Proposing(k)'
      BY <1>k, <2>1, <2>3 DEF Stage, Proposing
    <3>2. ASSUME NEW h \in Handlers, Proposing(h), handler[h].group = handler[k].group,
                 ~Proposing(h)'
          PROVE  FALSE
      BY <1>0, <2>3, <3>1, <3>2 DEF Stages
    <3> QED BY <1>o, <2>3, <3>1, <3>2 DEF Onward, Became
  <2>4. ASSUME NEW g \in Groups
        PROVE  /\ Status(g) \notin Early => groups'[g].status \notin Early
               /\ Status(g) \notin Early \cup {"applying"}
                    => groups'[g].status \notin Early \cup {"applying"}
    BY <1>o DEF Onward, Became
  <2> QED BY <1>k, <2>1, <2>2, <2>3, <2>4 DEF Stage, Goes, Same, Proposing, ByPackage, Status
<1>a. ASSUME NEW h \in Handlers, Others(h), Goes(h) PROVE \A k \in Handlers : Goes(k)
  BY <1>a, <1>k DEF Others
<1>f. ASSUME NEW h \in Handlers, handler'[h].pc = "idle" PROVE Goes(h)
  BY <1>f DEF Stage, Goes, Proposing
(* One that goes on with its package, when it does not propose any more.    *)
<1>g. ASSUME NEW h \in Handlers, ~At(h, "idle"), Same(h), ~Proposing(h)',
             handler[h].kind \in {"confirm", "undo"} => handler[h].group \in Groups,
             At(h, "claim") => handler[h].kind = "confirm" /\ Became(handler[h].group) \notin Early
      PROVE  Goes(h)
  <2>1. Stage(h)
    BY <1>0 DEF Stages
  <2>2. ASSUME NEW g \in Groups
        PROVE  /\ Status(g) \notin Early => groups'[g].status \notin Early
               /\ Status(g) \notin Early \cup {"applying"}
                    => groups'[g].status \notin Early \cup {"applying"}
    BY <1>o DEF Onward, Became
  <2> QED BY <1>g, <2>1, <2>2 DEF Stage, Goes, Same, Status, Became
<1>t. ASSUME NEW h \in Handlers, Throw(h), ~At(h, "idle"), ~At(h, "claim")
      PROVE  \A k \in Handlers : Goes(k)
  <2>1. /\ Others(h)
        /\ \/ handler'[h].pc = "idle"
           \/ Same(h) /\ handler'[h].pc \in {"fail", "release"}
    BY <1>0, <1>t, ThrowMoves
  <2>2. ASSUME Same(h), handler'[h].pc \in {"fail", "release"} PROVE Goes(h)
    BY <1>0, <1>t, <1>g, <2>2 DEF Proposing, PlacesFit, Fits, ByPackage
  <2> QED BY <2>1, <2>2, <1>a, <1>f
(* One that goes on while the packages stay as they are.                     *)
<1>s. ASSUME NEW h \in Handlers, ~At(h, "idle"), Same(h), UNCHANGED groups,
             Proposing(h)' => Proposing(h), handler[h].pc # "claim",
             handler'[h].pc = "dispose" \/ handler[h].group \notin Gated
               \/ handler[h].kind # "turn"
      PROVE  Goes(h)
  <2>1. Stage(h)
    BY <1>0 DEF Stages
  <2> QED BY <1>s, <2>1 DEF Stage, Goes, Same, Status, Proposing
<1>1. ASSUME NEW h \in Handlers, NEW g \in Groups, Turn(h, g)
      PROVE  \A k \in Handlers : Goes(k)
  <2>1. groups'[g].status = "proposed"
    BY <1>0, <1>1 DEF Turn, TypeOK, GroupType
  <2>2. Others(h) /\ Goes(h)
    BY <1>0, <1>1, <2>1, TurnMoves DEF Goes, Stage, Proposing, Status
  <2> QED BY <2>2, <1>a
<1>2. ASSUME NEW h \in Handlers, StorePending(h) PROVE \A k \in Handlers : Goes(k)
  <2>1. Others(h) /\ Same(h) /\ handler'[h].pc = "answer"
    BY <1>0, <1>2, GotoMoves DEF StorePending, Places
  <2>2. Goes(h)
    BY <1>0, <1>2, <2>1, <1>g DEF StorePending, Proposing, PlacesFit, Fits, ByPackage
  <2> QED BY <2>1, <2>2, <1>a
<1>3. ASSUME NEW h \in Handlers, BeginApply(h) PROVE \A k \in Handlers : Goes(k)
  <2> DEFINE want == Targets(handler[h].group)
  <2>1. At(h, "dispose") /\ Enters(h, "lock", want)
    BY <1>3 DEF BeginApply, Enters
  <2> HIDE DEF want
  <2>2. Others(h) /\ Same(h) /\ handler'[h].pc = "lock"
    BY <1>0, <2>1, EnterMoves
  <2>3. Goes(h)
    BY <1>0, <1>3, <2>1, <2>2, <1>s DEF BeginApply, Proposing, PlacesFit, Fits
  <2> QED BY <2>2, <2>3, <1>a
<1>4. ASSUME NEW h \in Handlers, Claim(h) PROVE \A k \in Handlers : Goes(k)
  <2> DEFINE g == handler[h].group
  <2>1. CASE Status(g) = "pending"
    <3>1. At(h, "claim") /\ g \in Groups /\ handler[h].kind = "confirm"
          /\ SetStatus(g, "applying") /\ Goto(h, "payload")
      BY <1>0, <1>4, <2>1 DEF Claim, PlacesFit, Fits, ByPackage
    <3>2. Others(h) /\ Same(h) /\ handler'[h].pc = "payload"
      BY <1>0, <3>1, GotoMoves DEF Places
    <3>3. Became(g) = "applying"
      <4> HIDE DEF g
      <4> QED BY <1>0, <3>1, StatusMoves DEF Statuses
    <3>4. Goes(h)
      BY <3>1, <3>2, <3>3, <1>g DEF Proposing, Early
    <3> QED BY <3>2, <3>4, <1>a
  <2>2. CASE Status(g) # "pending"
    BY <1>0, <1>4, <2>2, <1>a, <1>f, FinishMoves DEF Claim
  <2> QED BY <2>1, <2>2
<1>5. ASSUME NEW h \in Handlers, NEW pc \in {"validate", "expire", "fail"}, Goto(h, pc),
             handler[h].pc \in {"payload", "validate"}
      PROVE  \A k \in Handlers : Goes(k)
  <2>1. Others(h) /\ Same(h) /\ handler'[h].pc = pc
    BY <1>0, <1>5, GotoMoves DEF Places
  <2>2. Goes(h)
    BY <1>0, <1>5, <2>1, <1>g DEF Proposing, PlacesFit, Fits, ByPackage
  <2> QED BY <2>1, <2>2, <1>a
<1>6. ASSUME NEW h \in Handlers, ReadPayload(h) PROVE \A k \in Handlers : Goes(k)
  BY <1>5, <1>6 DEF ReadPayload
<1>7. ASSUME NEW h \in Handlers, Validate(h) PROVE \A k \in Handlers : Goes(k)
  <2>1. CASE Goto(h, "fail")
    BY <1>7, <2>1, <1>5 DEF Validate
  <2>2. CASE ~Goto(h, "fail")
    <3> DEFINE want == Targets(handler[h].group)
    <3>1. At(h, "validate") /\ Enters(h, "lock", want)
      BY <1>7, <2>2 DEF Validate, Enters
    <3> HIDE DEF want
    <3>2. Others(h) /\ Same(h) /\ handler'[h].pc = "lock"
      BY <1>0, <3>1, EnterMoves
    <3>3. Goes(h)
      BY <1>0, <3>1, <3>2, <1>g DEF Same, Proposing, PlacesFit, Fits, ByPackage
    <3> QED BY <3>2, <3>3, <1>a
  <2> QED BY <2>1, <2>2
<1>8. ASSUME NEW g \in Groups, Confirm(g) PROVE \A k \in Handlers : Goes(k)
  <2>1. Status(g) = "pending" /\ g \in Gated /\ UNCHANGED groups
    BY <1>0, <1>8 DEF Confirm, Stages
  <2>2. Chat \in Handlers /\ Others(Chat) /\ Goes(Chat)
    BY <1>0, <1>8, <2>1, ConfirmMoves DEF Goes, Stage, Proposing
  <2> QED BY <2>2, <1>a
<1>9. ASSUME NEW h \in Handlers, LockTarget(h) \/ LockStep(h) \/ LockUndo(h) \/ LockWrite(h)
      PROVE  \A k \in Handlers : Goes(k)
  <2>1. handler[h].want # {} /\ InTransaction(h)
        /\ (Throw(h) \/ (Lock(h, NextRow(h)) /\ UNCHANGED groups))
    BY <1>9 DEF LockTarget, LockStep, LockUndo, LockWrite, Wanting, InTransaction
  <2>2. CASE Throw(h)
    BY <2>1, <2>2, <1>t DEF InTransaction
  <2>3. CASE ~Throw(h)
    <3>1. NextRow(h) \in Rows
      BY <1>0, <2>1, NextRowNeeded
    <3>2. Others(h) /\ Same(h) /\ handler'[h].pc = handler[h].pc
      BY <1>0, <2>1, <2>3, <3>1, LockMoves
    <3>3. Stage(h)
      BY <1>0 DEF Stages
    <3>4. Goes(h)
      BY <1>0, <2>1, <2>3, <3>2, <3>3, <1>s
         DEF Same, Proposing, InTransaction, Stage, PlacesFit, Fits
    <3> QED BY <3>2, <3>4, <1>a
  <2> QED BY <2>2, <2>3
<1>10. ASSUME NEW h \in Handlers, BeginSteps(h) PROVE \A k \in Handlers : Goes(k)
  <2>1. At(h, "lock") /\ (Throw(h) \/ (Applicable(handler[h].group) /\ UNCHANGED groups))
    BY <1>10 DEF BeginSteps, Satisfied
  <2>2. CASE Throw(h)
    BY <2>1, <2>2, <1>t
  <2>3. CASE ~Throw(h)
    <3>1. Others(h) /\ Same(h) /\ handler'[h].pc = "steps"
      BY <1>0, <1>10, <2>1, <2>3, StepsMoves
    <3>2. Stage(h)
      BY <1>0 DEF Stages
    <3>3. Goes(h)
      BY <2>1, <2>3, <3>1, <3>2, <1>s DEF Same, Proposing, Stage
    <3> QED BY <3>1, <3>3, <1>a
  <2> QED BY <2>2, <2>3
<1>11. ASSUME NEW h \in Handlers, CommitApply(h) \/ CommitUndo(h)
       PROVE  \A k \in Handlers : Goes(k)
  <2>1. /\ handler[h].pc \in {"steps", "lock_undo"}
        /\ \/ Throw(h)
           \/ handler' = [handler EXCEPT ![h] = [@ EXCEPT !.pc = "answer", !.held = {}]]
    BY <1>11 DEF CommitApply, CommitUndo, Satisfied
  <2>2. CASE Throw(h)
    BY <2>1, <2>2, <1>t
  <2>3. CASE ~Throw(h)
    <3>1. Others(h) /\ Same(h) /\ handler'[h].pc = "answer"
      BY <1>0, <2>1, <2>3, CommitMoves
    <3>2. Goes(h)
      BY <1>0, <2>1, <3>1, <1>g DEF Proposing, PlacesFit, Fits, ByPackage
    <3> QED BY <3>1, <3>2, <1>a
  <2> QED BY <2>2, <2>3
<1>12. ASSUME NEW h \in Handlers, NEW g \in Groups, Undo(h, g)
       PROVE  \A k \in Handlers : Goes(k)
  <2>1. Status(g) = "applied" /\ UNCHANGED groups
    BY <1>12 DEF Undo
  <2>2. Others(h) /\ Goes(h)
    BY <1>0, <1>12, <2>1, UndoMoves DEF Goes, Stage, Proposing, Status, Early
  <2> QED BY <2>2, <1>a
<1>13. ASSUME NEW h \in Handlers, ClaimUndo(h) PROVE \A k \in Handlers : Goes(k)
  <2> DEFINE want == {e.row : e \in groups[handler[h].group].journal}
  <2>1. At(h, "claim_undo") /\ (Finish(h) \/ Enters(h, "lock_undo", want))
    BY <1>13 DEF ClaimUndo, Enters
  <2> HIDE DEF want
  <2>2. CASE Finish(h)
    BY <1>0, <2>2, <1>a, <1>f, FinishMoves
  <2>3. CASE ~Finish(h)
    <3>1. Others(h) /\ Same(h) /\ handler'[h].pc = "lock_undo"
      BY <1>0, <2>1, <2>3, EnterMoves
    <3>2. Goes(h)
      BY <1>0, <2>1, <3>1, <1>g DEF Proposing, PlacesFit, Fits, ByPackage
    <3> QED BY <3>1, <3>2, <1>a
  <2> QED BY <2>2, <2>3
<1>14. ASSUME NEW h \in Handlers, NEW d \in Dates, NEW closes \in BOOLEAN,
              BeginWrite(h, d, closes)
       PROVE  \A k \in Handlers : Goes(k)
  <2>1. Others(h) /\ Goes(h)
    BY <1>0, <1>14, WriteMoves DEF Goes, Stage, Proposing
  <2> QED BY <2>1, <1>a
<1>15. ASSUME NEW h \in Handlers,
              Answer(h) \/ ExpireClaimed(h) \/ MarkFailed(h) \/ Release(h)
                \/ CommitWrite(h) \/ LoseConnection(h) \/ PrepareThrows(h)
       PROVE  \A k \in Handlers : Goes(k)
  <2>1. Finish(h)
    BY <1>15 DEF Answer, ExpireClaimed, MarkFailed, Release, CommitWrite, LoseConnection,
       PrepareThrows
  <2> QED BY <1>0, <2>1, <1>a, <1>f, FinishMoves
<1>16. ASSUME NEW h \in Handlers, LoseTransaction(h) PROVE \A k \in Handlers : Goes(k)
  BY <1>16, <1>t DEF LoseTransaction
<1>17. ASSUME NEW h \in Handlers, BreakCircle(h) PROVE \A k \in Handlers : Goes(k)
  <2>1. handler[h].want # {} /\ Throw(h)
    BY <1>17 DEF BreakCircle, Circle, WaitsFor
  <2>2. ~At(h, "idle") /\ ~At(h, "claim")
    BY <1>0, <2>1 DEF PlacesFit, Fits, InTransaction
  <2> QED BY <2>1, <2>2, <1>t
<1>18. ASSUME Crash PROVE \A k \in Handlers : Goes(k)
  <2>1. \A h \in Handlers : handler'[h].pc = "idle"
    BY <1>18 DEF Crash, Idle
  <2> QED BY <2>1, <1>f
<1>19. ASSUME \/ \E g \in Groups : CancelPending(g)
              \/ \E x \in recovery.listed : RecoverOne(x)
              \/ FindExpired \/ ExpirePending \/ Scrub \/ ListInterrupted \/ Tick
              \/ UNCHANGED vars
       PROVE  \A k \in Handlers : Goes(k)
  BY <1>19, <1>k DEF CancelPending, RecoverOne, FindExpired, ExpirePending, Scrub,
     ListInterrupted, Tick, vars
<1>20. \A k \in Handlers : Goes(k)
  BY <1>1, <1>2, <1>3, <1>4, <1>6, <1>7, <1>8, <1>9, <1>10, <1>11, <1>12, <1>13,
     <1>14, <1>15, <1>16, <1>17, <1>18, <1>19
     DEF Next, Serve, Requests, Maintenance, Boot
<1>21. ASSUME NEW h \in Handlers, NEW k \in Handlers, Proposing(h)', Proposing(k)',
              handler'[h].group = handler'[k].group
       PROVE  h = k
  <2>1. CASE Proposing(h) /\ Same(h) /\ Proposing(k) /\ Same(k)
    BY <1>0, <1>21, <2>1 DEF Same, Stages
  <2>2. ASSUME NEW i \in Handlers, NEW j \in Handlers, NEW g \in Groups, Turn(i, g),
               Proposing(j)', i # j, handler'[i].group = handler'[j].group
        PROVE  FALSE
    <3>1. handler'[j] = handler[j] /\ handler'[i].group = g /\ Status(g) = "none"
      BY <1>0, <2>2, TurnMoves DEF Others, Turn
    <3>2. Proposing(j) /\ handler[j].group = g
      BY <2>2, <3>1 DEF Proposing
    <3>3. Status(handler[j].group) = "proposed"
      BY <1>0, <3>2 DEF Stages, Stage
    <3> QED BY <3>1, <3>2, <3>3
  <2> QED BY <1>20, <1>21, <2>1, <2>2 DEF Goes
<1>22. \A x \in recovery'.listed : groups'[x.group].status \notin Early
  <2>1. ASSUME NEW x \in recovery.listed
        PROVE  groups'[x.group].status \notin Early
    BY <1>0, <1>o DEF Onward, Became, Stages, TypeOK
  <2>2. CASE ListInterrupted
    BY <2>2 DEF ListInterrupted, Early, Status
  <2>3. CASE ~ListInterrupted
    <3>1. recovery'.listed \subseteq recovery.listed
      <4>1. recovery' = recovery \/ Crash \/ \E x \in recovery.listed : RecoverOne(x)
        BY <2>3, RecoveryMoves
      <4>2. recovery \in [due: BOOLEAN,
                   listed: SUBSET [group: Groups, status: {"applying", "undoing"}]]
        BY <1>0 DEF TypeOK
      <4> QED BY <4>1, <4>2 DEF Crash, RecoverOne
    <3> QED BY <2>1, <3>1
  <2> QED BY <2>2, <2>3
<1> QED BY <1>o, <1>20, <1>21, <1>22 DEF Goes, Stages, Status

-----------------------------------------------------------------------------
(* The steps of a transaction.                                              *)
Outside(h) ==
  /\ handler'[h].pc \notin {"lock", "steps", "lock_undo", "write"}
  /\ handler'[h].held = {} /\ handler'[h].want = {}
Entering(h) ==
  /\ Others(h) /\ Same(h) /\ Applying(h)
  /\ handler[h].pc \in {"dispose", "validate"} /\ handler'[h].pc = "lock"
  /\ handler'[h].held = {} /\ handler'[h].want = Targets(handler[h].group)
  /\ UNCHANGED <<rows, groups>>
Locking(h) ==
  /\ Others(h) /\ Same(h) /\ InTransaction(h) /\ handler'[h].pc = handler[h].pc
  /\ handler[h].want # {} /\ Free(NextRow(h))
  /\ handler[h].pc \in {"lock", "write"} => rows[NextRow(h)].exists
  /\ At(h, "lock_undo") => Untouched(handler[h].group, NextRow(h))
  /\ handler'[h].held = handler[h].held \cup {NextRow(h)}
  /\ handler'[h].want = handler[h].want \ {NextRow(h)}
  /\ UNCHANGED <<rows, groups>>
Stepping(h) ==
  /\ Others(h) /\ Same(h) /\ At(h, "lock") /\ handler'[h].pc = "steps"
  /\ handler[h].want = {} /\ Applicable(handler[h].group)
  /\ handler'[h].held = handler[h].held
  /\ handler'[h].want = Changed(handler[h].group) \ handler[h].held
  /\ UNCHANGED <<rows, groups>>
Undoing(h) ==
  /\ Others(h) /\ Same(h) /\ At(h, "claim_undo") /\ handler'[h].pc = "lock_undo"
  /\ handler'[h].held = {}
  /\ handler'[h].want = {e.row : e \in groups[handler[h].group].journal}
  /\ Kept(handler[h].group)
Writing(h) ==
  /\ Others(h) /\ handler'[h].pc = "write" /\ handler'[h].held = {}
  /\ handler'[h].kind \in {"touch", "close"}
Transacts(h) ==
  \/ handler'[h] = handler[h] \/ Outside(h)
  \/ Entering(h) \/ Locking(h) \/ Stepping(h) \/ Undoing(h) \/ Writing(h)

(* Every step of a request is one of the steps of its transaction.          *)
LEMMA Transacting == TypeInv /\ [Next]_vars => \A h \in Handlers : Transacts(h)
<1> SUFFICES ASSUME TypeInv, [Next]_vars PROVE \A h \in Handlers : Transacts(h)
  OBVIOUS
<1>0. TypeOK /\ PlacesFit /\ Stages /\ UndoLocks
  BY DEF TypeInv
<1> USE DEF At
<1>a. ASSUME NEW h \in Handlers, Others(h), Transacts(h)
      PROVE  \A k \in Handlers : Transacts(k)
  BY <1>a DEF Others, Transacts
<1>b. ASSUME UNCHANGED handler PROVE \A k \in Handlers : Transacts(k)
  BY <1>b DEF Transacts
<1>f. ASSUME NEW h \in Handlers, Finish(h) PROVE \A k \in Handlers : Transacts(k)
  BY <1>0, <1>f, <1>a, FinishMoves DEF Transacts, Outside
<1>t. ASSUME NEW h \in Handlers, Throw(h) PROVE \A k \in Handlers : Transacts(k)
  <2>1. Others(h) /\ Outside(h)
    BY <1>0, <1>t, ThrowMoves DEF Outside
  <2> QED BY <2>1, <1>a DEF Transacts
<1>g. ASSUME NEW h \in Handlers, ~InTransaction(h),
             NEW pc \in {"answer", "payload", "validate", "expire", "fail"}, Goto(h, pc)
      PROVE  \A k \in Handlers : Transacts(k)
  <2>1. Others(h) /\ LocksSame(h) /\ handler'[h].pc = pc
    BY <1>0, <1>g, GotoMoves DEF Places
  <2>2. handler[h].held = {} /\ handler[h].want = {}
    BY <1>0, <1>g DEF PlacesFit, Fits
  <2>3. Outside(h)
    BY <1>g, <2>1, <2>2 DEF Outside, LocksSame
  <2> QED BY <2>1, <2>3, <1>a DEF Transacts
<1>e. ASSUME NEW h \in Handlers, handler[h].pc \in {"dispose", "validate"},
             Enters(h, "lock", Targets(handler[h].group)), UNCHANGED <<rows, groups>>
      PROVE  \A k \in Handlers : Transacts(k)
  <2> DEFINE want == Targets(handler[h].group)
  <2>1. Enters(h, "lock", want)
    BY <1>e
  <2> HIDE DEF want
  <2>2. /\ Others(h) /\ Same(h) /\ handler'[h].pc = "lock"
        /\ handler'[h].held = handler[h].held /\ handler'[h].want = want
    BY <1>0, <2>1, EnterMoves
  <2>3. handler[h].held = {} /\ Applying(h)
    BY <1>0, <1>e DEF PlacesFit, Fits, InTransaction, Applying
  <2>4. Entering(h)
    BY <1>e, <2>2, <2>3 DEF Entering, want
  <2> QED BY <2>2, <2>4, <1>a DEF Transacts
<1>1. ASSUME NEW h \in Handlers, NEW g \in Groups, Turn(h, g) \/ Undo(h, g)
      PROVE  \A k \in Handlers : Transacts(k)
  <2>1. Others(h) /\ Outside(h)
    BY <1>0, <1>1, TurnMoves, UndoMoves DEF Outside
  <2> QED BY <2>1, <1>a DEF Transacts
<1>2. ASSUME NEW h \in Handlers, StorePending(h) \/ ReadPayload(h)
      PROVE  \A k \in Handlers : Transacts(k)
  BY <1>2, <1>g DEF StorePending, ReadPayload, InTransaction
<1>3. ASSUME NEW h \in Handlers, BeginApply(h) PROVE \A k \in Handlers : Transacts(k)
  BY <1>3, <1>e DEF BeginApply, Enters
<1>4. ASSUME NEW h \in Handlers, Claim(h) PROVE \A k \in Handlers : Transacts(k)
  BY <1>4, <1>g, <1>f DEF Claim, InTransaction
<1>5. ASSUME NEW h \in Handlers, Validate(h) PROVE \A k \in Handlers : Transacts(k)
  BY <1>5, <1>e, <1>g DEF Validate, Enters, InTransaction
<1>6. ASSUME NEW g \in Groups, Confirm(g) PROVE \A k \in Handlers : Transacts(k)
  <2>1. Chat \in Handlers /\ Others(Chat) /\ Outside(Chat)
    BY <1>0, <1>6, ConfirmMoves DEF Outside
  <2> QED BY <2>1, <1>a DEF Transacts
<1>7. ASSUME NEW h \in Handlers, LockTarget(h) \/ LockStep(h) \/ LockUndo(h) \/ LockWrite(h)
      PROVE  \A k \in Handlers : Transacts(k)
  <2>1. handler[h].want # {} /\ InTransaction(h) /\ Free(NextRow(h))
        /\ (Throw(h) \/ (Lock(h, NextRow(h)) /\ UNCHANGED <<rows, groups>>
              /\ (handler[h].pc \in {"lock", "write"} => rows[NextRow(h)].exists)
              /\ (At(h, "lock_undo") => Untouched(handler[h].group, NextRow(h)))))
    BY <1>7 DEF LockTarget, LockStep, LockUndo, LockWrite, Wanting, InTransaction
  <2>2. CASE Throw(h)
    BY <2>2, <1>t
  <2>3. CASE ~Throw(h)
    <3>1. NextRow(h) \in Rows
      BY <1>0, <2>1, NextRowNeeded
    <3>2. /\ Others(h) /\ Same(h) /\ handler'[h].pc = handler[h].pc
          /\ handler'[h].held = handler[h].held \cup {NextRow(h)}
          /\ handler'[h].want = handler[h].want \ {NextRow(h)}
      BY <1>0, <2>1, <2>3, <3>1, LockMoves
    <3>3. Locking(h)
      BY <2>1, <2>3, <3>2 DEF Locking
    <3> QED BY <3>2, <3>3, <1>a DEF Transacts
  <2> QED BY <2>2, <2>3
<1>8. ASSUME NEW h \in Handlers, BeginSteps(h) PROVE \A k \in Handlers : Transacts(k)
  <2>1. At(h, "lock") /\ handler[h].want = {}
        /\ (Throw(h) \/ (Applicable(handler[h].group) /\ UNCHANGED <<rows, groups>>))
    BY <1>8 DEF BeginSteps, Satisfied
  <2>2. CASE Throw(h)
    BY <2>2, <1>t
  <2>3. CASE ~Throw(h)
    <3>1. Stepping(h)
      BY <1>0, <1>8, <2>1, <2>3, StepsMoves DEF Stepping
    <3> QED BY <3>1, <1>a DEF Transacts, Stepping
  <2> QED BY <2>2, <2>3
<1>9. ASSUME NEW h \in Handlers, CommitApply(h) \/ CommitUndo(h)
      PROVE  \A k \in Handlers : Transacts(k)
  <2>1. /\ handler[h].want = {}
        /\ \/ Throw(h)
           \/ handler' = [handler EXCEPT ![h] = [@ EXCEPT !.pc = "answer", !.held = {}]]
    BY <1>9 DEF CommitApply, CommitUndo, Satisfied
  <2>2. CASE Throw(h)
    BY <2>2, <1>t
  <2>3. CASE ~Throw(h)
    <3>1. Others(h) /\ Outside(h)
      BY <1>0, <2>1, <2>3, CommitMoves DEF Outside
    <3> QED BY <3>1, <1>a DEF Transacts
  <2> QED BY <2>2, <2>3
<1>10. ASSUME NEW h \in Handlers, ClaimUndo(h) PROVE \A k \in Handlers : Transacts(k)
  <2> DEFINE g == handler[h].group
             want == {e.row : e \in groups[g].journal}
  <2>1. CASE Finish(h)
    BY <2>1, <1>f
  <2>2. CASE ~Finish(h)
    <3>1. /\ At(h, "claim_undo") /\ g \in Groups /\ handler[h].held = {}
          /\ SetStatus(g, "undoing") /\ Enters(h, "lock_undo", want)
      BY <1>0, <1>10, <2>2 DEF ClaimUndo, Enters, PlacesFit, Fits, ByPackage, InTransaction
    <3> HIDE DEF want
    <3>2. /\ Others(h) /\ Same(h) /\ handler'[h].pc = "lock_undo"
          /\ handler'[h].held = handler[h].held /\ handler'[h].want = want
      BY <1>0, <3>1, EnterMoves
    <3>3. Kept(g)
      <4> HIDE DEF g
      <4> QED BY <1>0, <3>1, StatusMoves DEF Statuses
    <3>4. Undoing(h)
      BY <3>1, <3>2, <3>3 DEF Undoing, want
    <3> QED BY <3>2, <3>4, <1>a DEF Transacts
  <2> QED BY <2>1, <2>2
<1>11. ASSUME NEW h \in Handlers, NEW d \in Dates, NEW closes \in BOOLEAN,
              BeginWrite(h, d, closes)
       PROVE  \A k \in Handlers : Transacts(k)
  <2>1. Writing(h)
    BY <1>0, <1>11, WriteMoves DEF Writing
  <2> QED BY <2>1, <1>a DEF Transacts, Writing
<1>12. ASSUME NEW h \in Handlers,
              Answer(h) \/ ExpireClaimed(h) \/ MarkFailed(h) \/ Release(h)
                \/ CommitWrite(h) \/ LoseConnection(h) \/ PrepareThrows(h)
       PROVE  \A k \in Handlers : Transacts(k)
  BY <1>12, <1>f DEF Answer, ExpireClaimed, MarkFailed, Release, CommitWrite, LoseConnection,
       PrepareThrows
<1>13. ASSUME NEW h \in Handlers, LoseTransaction(h) \/ BreakCircle(h)
       PROVE  \A k \in Handlers : Transacts(k)
  BY <1>13, <1>t DEF LoseTransaction, BreakCircle
<1>14. ASSUME Crash PROVE \A k \in Handlers : Transacts(k)
  BY <1>14 DEF Crash, Idle, Transacts, Outside
<1>15. ASSUME \/ \E g \in Groups : CancelPending(g)
              \/ \E x \in recovery.listed : RecoverOne(x)
              \/ FindExpired \/ ExpirePending \/ Scrub \/ ListInterrupted \/ Tick
              \/ UNCHANGED vars
       PROVE  \A k \in Handlers : Transacts(k)
  BY <1>15, <1>b DEF CancelPending, RecoverOne, FindExpired, ExpirePending, Scrub,
     ListInterrupted, Tick, vars
<1> QED
  BY <1>1, <1>2, <1>3, <1>4, <1>5, <1>6, <1>7, <1>8, <1>9, <1>10, <1>11, <1>12,
     <1>13, <1>14, <1>15
     DEF Next, Serve, Requests, Maintenance, Boot

(* An undo goes on holding and needing the rows of its journal.             *)
LEMMA UndoLocksStep == TypeInv /\ [Next]_vars => UndoLocks'
<1> SUFFICES ASSUME TypeInv, [Next]_vars, NEW h \in Handlers, handler'[h].pc = "lock_undo"
             PROVE  handler'[h].held \cup handler'[h].want
                      = {e.row : e \in groups'[handler'[h].group].journal}
  BY DEF UndoLocks, At
<1>0. TypeOK /\ PlacesFit /\ Stages /\ UndoLocks /\ Transacts(h)
  BY Transacting DEF TypeInv
<1>1. CASE handler'[h] = handler[h]
  <2>1. handler[h].group \in Groups
        /\ Status(handler[h].group) \notin Early \cup {"applying"}
    BY <1>0, <1>1 DEF PlacesFit, Fits, ByPackage, Stages, Stage, At
  <2>2. groups'[handler[h].group].journal = groups[handler[h].group].journal
    BY <2>1, Onwards DEF Onward
  <2> QED BY <1>0, <1>1, <2>2 DEF UndoLocks, At
<1>2. CASE Locking(h)
  <2>1. NextRow(h) \in handler[h].want /\ At(h, "lock_undo")
    BY <1>0, <1>2, NextRowNeeded DEF Locking, At
  <2> QED BY <1>0, <1>2, <2>1 DEF UndoLocks, Locking, Same
<1>3. CASE Undoing(h)
  BY <1>3 DEF Undoing, Kept, Same
<1> QED BY <1>0, <1>1, <1>2, <1>3 DEF Transacts, Outside, Entering, Stepping, Writing

(* Types, places, stages: an invariant.                                     *)
LEMMA TypeInductive == TypeInv /\ [Next]_vars => TypeInv'
BY TypeStep, PlacesStep, StagesStep, UndoLocksStep DEF TypeInv

(* Whatever happens, the state has its types, and a card that waits has its *)
(* actions: no race of the confirmation, the expiry loop, boot's repair and *)
(* a lost connection leaves a card that can be confirmed and holds nothing. *)
THEOREM TypeCorrect == Spec => []TypeOK
<1>1. TypeInv => TypeOK
  BY DEF TypeInv
<1> QED BY TypeInit, TypeInductive, <1>1, PTL DEF Spec

-----------------------------------------------------------------------------
(* The steps that change rows: a package or an undo that takes effect, or a *)
(* write outside the packages.                                              *)
Applied(h) ==
  /\ At(h, "steps") /\ handler[h].group \in Groups
  /\ Status(handler[h].group) \in {"proposed", "applying"}
  /\ Became(handler[h].group) = "applied"
  /\ handler'[h].pc = "answer"
  /\ \A r \in Rows :
       r \notin handler[h].held \cup Creates(handler[h].group) => rows'[r] = rows[r]
  /\ \A r \in Rows : rows[r].exists => rows'[r].exists
Restored(h) ==
  /\ At(h, "lock_undo") /\ Outside(h)
  /\ \A r \in Rows : r \notin handler[h].held => rows'[r] = rows[r]
  /\ \A r \in Rows : rows'[r].exists => rows[r].exists
Written(h) ==
  /\ At(h, "write") /\ Outside(h)
  /\ \A r \in Rows : r \notin handler[h].held => rows'[r] = rows[r]
  /\ \A r \in Rows : rows'[r].exists = rows[r].exists

(* Rows change in the step that commits, made by one that holds them.       *)
LEMMA RowsMove ==
  TypeInv /\ [Next]_vars
    => \/ rows' = rows
       \/ \E h \in Handlers : Applied(h) \/ Restored(h) \/ Written(h)
<1> SUFFICES ASSUME TypeInv, [Next]_vars
             PROVE  \/ rows' = rows
                    \/ \E h \in Handlers : Applied(h) \/ Restored(h) \/ Written(h)
  OBVIOUS
<1>0. TypeOK /\ PlacesFit /\ Stages /\ UndoLocks
  BY DEF TypeInv
<1>y. rows \in [Rows -> RowType] /\ groups \in [Groups -> GroupType]
  BY <1>0 DEF TypeOK
<1>1. ASSUME NEW h \in Handlers, CommitApply(h) PROVE rows' = rows \/ Applied(h)
  <2> DEFINE g == handler[h].group
             changed == (Changed(g) \cap handler[h].held) \cup Creates(g)
             journal == {[row |-> r, created |-> ~rows[r].exists,
                          open |-> rows[r].open, by |-> rows[r].by,
                          post |-> rows'[r].version] : r \in changed}
             until == handler[h].now + UndoTtl
  <2>1. CASE UNCHANGED rows
    BY <2>1
  <2>2. CASE ~UNCHANGED rows
    <3>1. /\ At(h, "steps") /\ g \in Groups /\ Applying(h)
          /\ handler[h].kind = "turn" => Status(g) = "proposed"
          /\ handler[h].kind = "confirm" => g \in Gated
      BY <1>0, <1>1 DEF CommitApply, Satisfied, PlacesFit, Fits, ByPackage, Applying,
         Stages, Stage, Proposing, At
    <3>2. /\ g \in Gated => Status(g) = "applying"
          /\ rows' = [r \in Rows |-> IF r \notin changed THEN rows[r] ELSE
                  [exists |-> TRUE, open |-> Opens(g, r), by |-> g,
                   version |-> IF rows[r].exists THEN rows[r].version + 1 ELSE 1]]
          /\ groups' = [groups EXCEPT ![g] = [groups[g] EXCEPT !.status = "applied",
               !.payload = FALSE, !.undoUntil = until, !.journal = journal]]
          /\ handler' = [handler EXCEPT ![h] = [@ EXCEPT !.pc = "answer", !.held = {}]]
      BY <1>1, <2>2 DEF CommitApply
    <3>3. \A r \in Rows : r \notin changed => rows'[r] = rows[r]
      BY <3>2
    <3>4. \A r \in Rows : rows[r].exists => rows'[r].exists
      BY <3>2
    <3>5. \A r \in Rows : r \notin handler[h].held \cup Creates(g) => rows'[r] = rows[r]
      BY <3>3
    <3> HIDE DEF g, journal, until, changed
    <3>6. Became(g) = "applied"
      BY <1>y, <3>1, <3>2 DEF GroupType, Became
    <3>7. handler'[h].pc = "answer"
      BY <1>0, <3>2, CommitMoves
    <3>8. Status(g) \in {"proposed", "applying"}
      BY <3>1, <3>2 DEF Applying
    <3> QED BY <3>1, <3>4, <3>5, <3>6, <3>7, <3>8 DEF Applied, g
  <2> QED BY <2>1, <2>2
<1>2. ASSUME NEW h \in Handlers, CommitUndo(h) PROVE rows' = rows \/ Restored(h)
  <2>1. CASE UNCHANGED rows
    BY <2>1
  <2>2. CASE ~UNCHANGED rows
    <3> DEFINE journal == groups[handler[h].group].journal
               before(r) == CHOOSE e \in journal : e.row = r
               restored(r) ==
                 IF before(r).created THEN [rows[r] EXCEPT !.exists = FALSE]
                 ELSE [rows[r] EXCEPT !.open = before(r).open, !.by = before(r).by,
                                      !.version = @ + 1]
    <3>1. /\ At(h, "lock_undo") /\ handler[h].want = {}
          /\ rows' = [r \in Rows |-> IF r \in handler[h].held THEN restored(r) ELSE rows[r]]
          /\ handler' = [handler EXCEPT ![h] = [@ EXCEPT !.pc = "answer", !.held = {}]]
      BY <1>2, <2>2 DEF CommitUndo, Satisfied
    <3>2. ASSUME NEW r \in Rows PROVE restored(r).exists => rows[r].exists
      <4> DEFINE p == rows[r]
                 open == before(r).open
                 by == before(r).by
      <4>1. p \in RowType
        BY <1>y
      <4>2. restored(r) = [p EXCEPT !.exists = FALSE]
            \/ restored(r) = [p EXCEPT !.open = open, !.by = by, !.version = @ + 1]
        OBVIOUS
      <4> HIDE DEF p, open, by, restored
      <4>3. restored(r).exists => p.exists
        BY <4>1, <4>2 DEF RowType
      <4> QED BY <4>3 DEF p
    <3> HIDE DEF restored
    <3>3. Outside(h)
      BY <1>0, <3>1, CommitMoves DEF Outside
    <3> QED BY <3>1, <3>2, <3>3 DEF Restored
  <2> QED BY <2>1, <2>2
<1>3. ASSUME NEW h \in Handlers, CommitWrite(h) PROVE Written(h)
  <2>1. At(h, "write") /\ Finish(h)
        /\ rows' = [r \in Rows |-> IF r \notin handler[h].held THEN rows[r] ELSE
              [rows[r] EXCEPT !.version = @ + 1, !.by = System,
                              !.open = handler[h].kind = "touch"]]
    BY <1>3 DEF CommitWrite, Satisfied
  <2>2. Outside(h)
    BY <1>0, <2>1, FinishMoves DEF Outside
  <2>3. \A r \in Rows : rows'[r].exists = rows[r].exists
    BY <1>y, <2>1 DEF RowType
  <2> QED BY <2>1, <2>2, <2>3 DEF Written
<1>4. ASSUME NEW h \in Handlers, Serve(h) \/ Requests(h),
             ~CommitApply(h), ~CommitUndo(h), ~CommitWrite(h)
      PROVE  rows' = rows
  BY <1>4 DEF Serve, Requests, StorePending, BeginApply, Answer, Claim, ReadPayload,
     ExpireClaimed, Validate, MarkFailed, PrepareThrows, LockTarget, BeginSteps, LockStep,
     ClaimUndo, LockUndo, Release, LockWrite, BreakCircle, Turn, Undo, BeginWrite
<1>5. ASSUME NEW h \in Handlers, LoseConnection(h) \/ LoseTransaction(h)
      PROVE  rows' = rows
  BY <1>5 DEF LoseConnection, LoseTransaction
<1>6. ASSUME NEW g \in Groups, Confirm(g) \/ CancelPending(g) PROVE rows' = rows
  BY <1>6 DEF Confirm, CancelPending
<1>7. ASSUME Maintenance \/ Boot \/ Crash \/ Tick \/ UNCHANGED vars PROVE rows' = rows
  BY <1>7 DEF Maintenance, FindExpired, ExpirePending, Scrub, Boot, ListInterrupted,
     RecoverOne, Crash, Tick, vars
<1> QED BY <1>1, <1>2, <1>3, <1>4, <1>5, <1>6, <1>7 DEF Next

-----------------------------------------------------------------------------
(* Row locks keep one holder.                                               *)
LEMMA HolderStep ==
  ASSUME LockInv, [Next]_vars, NEW h \in Handlers, NEW k \in Handlers, h # k
  PROVE  handler'[h].held \cap handler'[k].held = {}
<1>1. /\ Transacts(h) /\ Transacts(k)
      /\ handler[h].held \cap handler[k].held = {}
  BY Transacting DEF LockInv, Locks
<1>2. ASSUME NEW i \in Handlers, NEW j \in Handlers, i # j, Locking(i),
             handler[i].held \cap handler[j].held = {}
      PROVE  handler'[i].held \cap handler'[j].held = {}
  <2>1. handler'[j] = handler[j] /\ NextRow(i) \notin handler[j].held
    BY <1>2 DEF Locking, Others, Free
  <2> QED BY <1>2, <2>1 DEF Locking
<1>3. ASSUME NEW i \in Handlers, Stepping(i) PROVE handler'[i].held = handler[i].held
  BY <1>3 DEF Stepping
<1>4. ASSUME NEW i \in Handlers, Outside(i) \/ Entering(i) \/ Undoing(i) \/ Writing(i)
      PROVE  handler'[i].held = {}
  BY <1>4 DEF Outside, Entering, Undoing, Writing
<1>5. CASE ~Locking(h) /\ ~Locking(k)
  BY <1>1, <1>3, <1>4, <1>5 DEF Transacts
<1> QED BY <1>1, <1>2, <1>5

(* Nothing makes what a package creates before the package itself.          *)
LEMMA CreatedStep == LockInv /\ [Next]_vars => NotYetCreated'
<1> SUFFICES ASSUME LockInv, [Next]_vars, NEW g \in Groups,
                    Became(g) \in Early \cup {"applying"}, NEW r \in Creates(g)
             PROVE  ~rows'[r].exists
  BY DEF NotYetCreated, Became, Status
<1>1. Status(g) \in Early \cup {"applying"} /\ r \in Tasks /\ r \in Rows
  BY Onwards, PackagesTyped DEF LockInv, Onward, Rows
<1>2. ~rows[r].exists
  BY <1>1 DEF LockInv, NotYetCreated
<1>3. ASSUME NEW h \in Handlers, Applied(h) PROVE ~rows'[r].exists
  <2>1. handler[h].group # g /\ handler[h].group \in Groups
    BY <1>3 DEF Applied, Early
  <2>2. r \notin Creates(handler[h].group)
    BY <2>1, GroupsAssumption DEF GroupsAssumption
  <2>3. r \notin handler[h].held
    BY <1>1, <1>2, <1>3 DEF Applied, LockInv, Locks, LocksOf, At
  <2> QED BY <1>1, <1>2, <1>3, <2>2, <2>3 DEF Applied
<1>4. ASSUME NEW h \in Handlers, Restored(h) \/ Written(h) PROVE ~rows'[r].exists
  BY <1>1, <1>2, <1>4 DEF Restored, Written
<1> QED BY <1>2, <1>3, <1>4, RowsMove DEF LockInv

(* While a package is being applied, nobody else changes what it holds.     *)
LEMMA HeldRowsStay ==
  ASSUME LockInv, [Next]_vars, NEW k \in Handlers, handler[k].pc \in {"lock", "steps"},
         ~Outside(k), NEW r \in handler[k].held \cap Rows, rows[r].exists
  PROVE  rows'[r] = rows[r]
<1>1. ASSUME NEW h \in Handlers, Applied(h) \/ Restored(h) \/ Written(h), h # k
      PROVE  rows'[r] = rows[r]
  <2>1. r \notin handler[h].held
    BY <1>1 DEF LockInv, Locks
  <2>2. ASSUME Applied(h) PROVE r \notin Creates(handler[h].group)
    BY <2>2 DEF Applied, LockInv, NotYetCreated, Early
  <2> QED BY <1>1, <2>1, <2>2 DEF Applied, Restored, Written
<1>2. ~Applied(k) /\ ~Restored(k) /\ ~Written(k)
  <2>1. ASSUME Applied(k) PROVE FALSE
    <3>1. Transacts(k) /\ handler'[k].pc = "answer" /\ handler[k].pc = "steps"
      BY <2>1, Transacting DEF Applied, LockInv, At
    <3> QED BY <3>1 DEF Transacts, Entering, Locking, Stepping, Undoing, Writing, At
  <2> QED BY <2>1 DEF Restored, Written, At
<1> QED BY <1>1, <1>2, RowsMove DEF LockInv

(* Locks are kept as they should be.                                        *)
LEMMA LocksStep == LockInv /\ [Next]_vars => Locks'
<1> SUFFICES ASSUME LockInv, [Next]_vars PROVE Locks'
  OBVIOUS
<1>0. TypeInv /\ TypeOK /\ PlacesFit /\ Stages
  BY DEF LockInv, TypeInv
<1> USE DEF At
<1> SUFFICES ASSUME NEW h \in Handlers PROVE LocksOf(h)'
  BY HolderStep DEF Locks
<1>1. Transacts(h) /\ LocksOf(h) /\ Fits(h)
  BY <1>0, Transacting DEF LockInv, Locks, PlacesFit
<1>w. handler[h].held \subseteq Rows /\ Tasks \subseteq Rows
  BY <1>0 DEF TypeOK, Handler, Rows
<1>2. CASE Outside(h)
  BY <1>2 DEF Outside, LocksOf
<1>3. CASE Undoing(h) \/ Writing(h)
  BY <1>3 DEF Undoing, Writing, LocksOf
<1>4. CASE Entering(h)
  BY <1>4 DEF Entering, Same, LocksOf
<1>5. CASE handler'[h] = handler[h] /\ handler[h].pc \in {"lock", "steps"} /\ ~Outside(h)
  <2>1. \A r \in handler[h].held : rows[r].exists => rows'[r] = rows[r]
    BY <1>0, <1>5, <1>w, HeldRowsStay
  <2>2. \A r \in handler'[h].held \cap Tasks : rows'[r].exists
    BY <1>1, <1>5, <2>1 DEF LocksOf
  <2>3. ASSUME handler[h].pc = "steps" PROVE AsExpected(handler[h].group)'
    <3> DEFINE g == handler[h].group
    <3>1. g \in Groups /\ Status(g) # "none"
      BY <1>0, <1>1, <2>3 DEF Fits, ByPackage, Applying, Stages, Stage, Proposing, Early
    <3>2. groups'[g].expected = groups[g].expected
      BY <1>0, <3>1, Onwards DEF Onward
    <3>3. Named(g) \subseteq handler[h].held /\ AsExpected(g)
      BY <1>1, <2>3 DEF LocksOf
    <3>4. \A r \in Named(g) : rows'[r] = rows[r]
      BY <2>1, <3>3 DEF AsExpected
    <3>5. handler'[h].group = g
      BY <1>5
    <3> QED BY <3>2, <3>3, <3>4, <3>5 DEF AsExpected
  <2> QED BY <1>1, <1>5, <2>2, <2>3 DEF LocksOf
<1>6. CASE Locking(h)
  <2>1. NextRow(h) \in handler[h].want /\ NextRow(h) \in Rows
    BY <1>0, <1>6, NextRowNeeded DEF Locking
  <2>2. ASSUME handler[h].pc = "lock" PROVE LocksOf(h)'
    BY <1>1, <1>6, <2>1, <2>2 DEF LocksOf, Locking, Same
  <2>3. ASSUME handler[h].pc = "steps" PROVE LocksOf(h)'
    <3>1. NextRow(h) \notin Tasks
      BY <1>1, <2>1, <2>3, GroupsAssumption DEF LocksOf, GroupsAssumption
    <3>2. AsExpected(handler[h].group)'
      BY <1>1, <1>6, <2>3 DEF LocksOf, Locking, Same, AsExpected
    <3> QED BY <1>1, <1>6, <2>3, <3>1, <3>2 DEF LocksOf, Locking, Same
  <2> QED BY <1>6, <2>2, <2>3 DEF Locking, LocksOf
<1>7. CASE Stepping(h)
  <2> DEFINE g == handler[h].group
  <2>1. handler[h].held = Targets(g) /\ g \in Groups
    BY <1>1, <1>7 DEF Stepping, LocksOf, Fits, ByPackage, Applying
  <2>2. Changed(g) \ Targets(g) \subseteq Dates
    <3>1. Having(g, "finish") \subseteq Named(g) \cap Dates
      BY <2>1, GroupsAssumption DEF GroupsAssumption, Having, Named, Step
    <3>2. Owners(Having(g, "finish")) \subseteq Targets(g)
      BY <3>1 DEF Owners, Targets
    <3>3. Named(g) \subseteq Targets(g)
      BY DEF Targets
    <3> QED BY <3>2, <3>3 DEF Changed, OpenDate
  <2>3. AsExpected(g)' /\ Named(g) \subseteq Targets(g)
    BY <1>7 DEF Stepping, Same, Applicable, AsExpected, Targets
  <2>4. \A r \in handler'[h].held \cap Tasks : rows'[r].exists
    BY <1>1, <1>7 DEF Stepping, LocksOf
  <2> QED BY <1>7, <2>1, <2>2, <2>3, <2>4 DEF Stepping, Same, LocksOf
<1>8. CASE handler'[h] = handler[h] /\ handler[h].pc \notin {"lock", "steps"}
  BY <1>8 DEF LocksOf
<1> QED BY <1>1, <1>2, <1>3, <1>4, <1>5, <1>6, <1>7, <1>8 DEF Transacts

(* Before the first request nothing is locked.                              *)
LEMMA LockInit == Init => LockInv
<1> SUFFICES ASSUME Init PROVE LockInv
  OBVIOUS
<1>1. NotYetCreated
  BY PackagesTyped DEF Init, NotYetCreated, Rows
<1>2. Locks
  BY DEF Init, Idle, Locks, LocksOf, At
<1> QED BY <1>1, <1>2, TypeInit DEF LockInv

(* The invariant on locks and versions is inductive.                        *)
LEMMA LockInductive == LockInv /\ [Next]_vars => LockInv'
BY TypeInductive, CreatedStep, LocksStep DEF LockInv

(* The version the user was shown is the version that is changed, however   *)
(* long the card lay and whoever writes meanwhile: finalizeGroup's package  *)
(* still holds every row it names as BeginSteps compared it.                *)
THEOREM AppliedAsSeen == Spec => NothingUnseen
<1> DEFINE Seen ==
      \A g \in Groups : (Status(g) # "applied" /\ Status(g)' = "applied"
                            /\ Status(g) # "undoing")
         => \A r \in Named(g) : rows[r].version = groups[g].expected[r]
<1>1. LockInv /\ [Next]_vars => Seen
  <2> SUFFICES ASSUME LockInv, [Next]_vars, NEW g \in Groups, Became(g) = "applied",
                      Status(g) \notin {"applied", "undoing"}, NEW r \in Named(g)
               PROVE  rows[r].version = groups[g].expected[r]
    BY DEF Became, Status
  <2>1. PICK h \in Handlers : At(h, "steps") /\ handler[h].group = g
    BY Onwards DEF LockInv, Onward
  <2> QED BY <2>1 DEF LockInv, Locks, LocksOf, AsExpected
<1>2. LockInv /\ [Next]_vars => [Seen]_vars
  BY <1>1
<1> QED BY LockInit, LockInductive, <1>2, PTL DEF Spec, NothingUnseen
-----------------------------------------------------------------------------
(* Before the first request nothing is out of order.                        *)
LEMMA OrderInit == Init => OrderInv
<1> SUFFICES ASSUME Init PROVE OrderInv
  OBVIOUS
<1>1. Ordered
  BY DEF Init, Idle, Ordered, At
<1> QED BY <1>1, LockInit DEF OrderInv

(* Each lock that lockTargets takes comes after those it holds.             *)
LEMMA OrderInductive == OrderInv /\ [Next]_vars => OrderInv'
<1> SUFFICES ASSUME OrderInv, [Next]_vars PROVE OrderInv'
  OBVIOUS
<1>0. LockInv /\ TypeInv /\ TypeOK /\ PlacesFit
  BY DEF OrderInv, LockInv, TypeInv
<1>1. LockInv'
  BY <1>0, LockInductive
<1> USE DEF At
<1>2. ASSUME NEW h \in Handlers
      PROVE  /\ handler'[h].pc = "lock"
                  => \A r \in handler'[h].held, s \in handler'[h].want : Before(r, s)
             /\ handler'[h].pc = "steps"
                  => \A d \in (handler'[h].held \cup handler'[h].want) \cap Dates :
                       TaskOf[d] \in handler'[h].held
  <2>1. Transacts(h) /\ LocksOf(h) /\ Fits(h)
    BY <1>0, Transacting DEF LockInv, Locks, PlacesFit
  <2>2. CASE handler'[h] = handler[h]
    BY <2>2 DEF OrderInv, Ordered
  <2>3. CASE Outside(h) \/ Undoing(h) \/ Writing(h) \/ Entering(h)
    BY <2>3 DEF Outside, Undoing, Writing, Entering
  <2>4. CASE Locking(h)
    <3>1. ASSUME handler[h].pc \in {"lock", "steps"}
          PROVE  /\ NextRow(h) \in handler[h].want
                 /\ \A r \in handler[h].want \ {NextRow(h)} : Before(NextRow(h), r)
      BY <1>0, <2>1, <2>4, <3>1, NextRowNeeded DEF Locking, Fits
    <3> QED BY <2>4, <3>1 DEF Locking, OrderInv, Ordered
  <2>5. CASE Stepping(h)
    <3> DEFINE g == handler[h].group
    <3>1. handler[h].held = Targets(g) /\ g \in Groups
      BY <2>1, <2>5 DEF Stepping, LocksOf, Fits, ByPackage, Applying
    <3>2. ASSUME NEW d \in Targets(g) \cap Dates PROVE TaskOf[d] \in Targets(g)
      BY <3>1, GroupsAssumption DEF GroupsAssumption, Targets, Owners
    <3>3. ASSUME NEW d \in (Changed(g) \ Targets(g)) \cap Dates
          PROVE  TaskOf[d] \in Targets(g)
      <4>1. Having(g, "finish") \subseteq Dates /\ Having(g, "close") \subseteq Named(g)
        BY <3>1, GroupsAssumption DEF GroupsAssumption, Having, Named, Step
      <4>2. Owners(Having(g, "finish")) \subseteq Tasks
        BY <4>1, GroupsAssumption DEF GroupsAssumption, Owners
      <4>3. PICK t \in Having(g, "close") : d \in OpenDate(t)
        BY <4>2, GroupsAssumption DEF GroupsAssumption, Changed, Targets
      <4> QED BY <4>1, <4>3 DEF OpenDate, Targets
    <3> QED BY <2>5, <3>1, <3>2, <3>3 DEF Stepping
  <2> QED BY <2>1, <2>2, <2>3, <2>4, <2>5 DEF Transacts
<1> QED BY <1>1, <1>2 DEF OrderInv, Ordered

(* An apply that waits and holds a date holds its task too, and so does one *)
(* that waits for a date.                                                   *)
LEMMA DatesGoWithTasks ==
  ASSUME OrderInv, NEW h \in Handlers, Applying(h), handler[h].want # {}, NEW d \in Dates,
         d \in handler[h].held \/ d = NextRow(h)
  PROVE  TaskOf[d] \in handler[h].held
<1>1. TypeOK /\ Fits(h) /\ LocksOf(h)
  BY DEF OrderInv, LockInv, Locks, TypeInv, PlacesFit
<1>2. handler[h].pc \in {"lock", "steps"} /\ handler[h].group \in Groups
  BY <1>1 DEF Fits, InTransaction, Applying, ByPackage, At
<1>3. /\ NextRow(h) \in handler[h].want
      /\ \A r \in handler[h].want \ {NextRow(h)} : Before(NextRow(h), r)
  BY <1>1, NextRowNeeded
<1>4. TaskOf[d] \in Tasks /\ Tasks \cap Dates = {}
  BY GroupsAssumption DEF GroupsAssumption
<1>5. CASE At(h, "steps")
  BY <1>3, <1>5 DEF OrderInv, Ordered
<1>6. CASE At(h, "lock")
  <2>1. d \in Targets(handler[h].group)
    BY <1>1, <1>3, <1>6 DEF LocksOf
  <2>2. TaskOf[d] \in Targets(handler[h].group)
    BY <1>4, <2>1, GroupsAssumption DEF GroupsAssumption, Targets, Owners
  <2>3. TaskOf[d] \notin handler[h].want
    <3>1. ASSUME d \in handler[h].held, TaskOf[d] \in handler[h].want PROVE FALSE
      BY <1>4, <1>6, <3>1 DEF OrderInv, Ordered, Before
    <3>2. ASSUME d = NextRow(h), TaskOf[d] \in handler[h].want PROVE FALSE
      BY <1>3, <1>4, <3>2 DEF Before
    <3> QED BY <3>1, <3>2
  <2> QED BY <1>1, <1>6, <2>2, <2>3 DEF LocksOf
<1> QED BY <1>2, <1>5, <1>6 DEF At

(* Packages being applied never wait for each other in a circle, whatever   *)
(* tasks and dates they name: the order lockTargets locks in is enough, and *)
(* the dates a step locks later are guarded by the tasks already locked.    *)
THEOREM AppliesAreOrdered == Spec => []AppliesDoNotDeadlock
<1>1. ASSUME OrderInv, NEW set \in SUBSET {h \in Handlers : Applying(h)}, Circle(set)
      PROVE  FALSE
  <2>0. /\ TypeOK /\ PlacesFit /\ Locks /\ Ordered
        /\ \A h \in set : h \in Handlers /\ Applying(h)
    BY <1>1 DEF OrderInv, LockInv, TypeInv
  <2>1. ASSUME NEW h \in set
        PROVE  /\ handler[h].want # {} /\ NextRow(h) \in handler[h].want
               /\ NextRow(h) \in Rows
    <3>1. handler[h].want # {}
      BY <1>1 DEF Circle, WaitsFor
    <3> QED BY <2>0, <3>1, NextRowNeeded
  (* Nobody in the circle waits for a date: its task has one holder.        *)
  <2>2. ASSUME NEW h \in set PROVE NextRow(h) \in Tasks
    <3>1. PICK k \in set : h # k /\ NextRow(h) \in handler[k].held
      BY <1>1 DEF Circle, WaitsFor
    <3>2. ASSUME NextRow(h) \in Dates PROVE FALSE
      <4>1. TaskOf[NextRow(h)] \in handler[h].held
        BY <2>0, <2>1, <3>2, <1>1, DatesGoWithTasks
      <4>2. TaskOf[NextRow(h)] \in handler[k].held
        BY <2>0, <2>1, <3>1, <3>2, <1>1, DatesGoWithTasks
      <4>3. handler[h].held \cap handler[k].held = {}
        BY <2>0, <3>1 DEF Locks
      <4> QED BY <4>1, <4>2, <4>3
    <3> QED BY <2>1, <3>2 DEF Rows
  (* So each waits for a task that comes before the one its holder awaits.  *)
  <2>3. ASSUME NEW h \in set, NEW k \in set, WaitsFor(h, k)
        PROVE  Rank[NextRow(h)] < Rank[NextRow(k)]
    <3>1. NextRow(h) \in handler[k].held /\ NextRow(k) \in handler[k].want
      BY <2>1, <2>3 DEF WaitsFor
    <3>2. NextRow(h) \in Tasks /\ NextRow(k) \in Tasks /\ Tasks \cap Dates = {}
      BY <2>2, GroupsAssumption DEF GroupsAssumption
    <3>3. At(k, "lock")
      <4>1. handler[k].pc \in {"lock", "steps"}
        BY <2>0, <2>1 DEF PlacesFit, Fits, InTransaction, Applying, At
      <4>2. ~At(k, "steps")
        BY <2>0, <3>1, <3>2 DEF Locks, LocksOf
      <4> QED BY <4>1, <4>2 DEF At
    <3>4. Before(NextRow(h), NextRow(k))
      BY <2>0, <3>1, <3>3 DEF Ordered
    <3> QED BY <3>2, <3>4 DEF Before
  <2> DEFINE f == [h \in set |-> Rank[NextRow(h)]]
  <2>4. f \in [set -> Nat] /\ set # {}
    <3>1. Rank \in [Rows -> Nat]
      BY GroupsAssumption DEF GroupsAssumption
    <3> QED BY <1>1, <2>1, <3>1 DEF Circle
  <2>5. PICK k \in set : \A h \in set : f[k] <= f[h]
    <3> HIDE DEF f
    <3> QED BY <2>4, Least
  <2>6. PICK h \in set : WaitsFor(h, k)
    BY <1>1 DEF Circle
  <2>7. f[h] < f[k] /\ f[k] <= f[h] /\ f[h] \in Nat /\ f[k] \in Nat
    BY <2>3, <2>4, <2>5, <2>6
  <2> HIDE DEF f
  <2> QED BY <2>7
<1>2. OrderInv => AppliesDoNotDeadlock
  BY <1>1 DEF AppliesDoNotDeadlock, Applying
<1> QED BY OrderInit, OrderInductive, <1>2, PTL DEF Spec

-----------------------------------------------------------------------------
(***************************************************************************)
(* The journals: whose content the rows have, what an undo restores, and    *)
(* for how long it can be asked for.                                        *)
(***************************************************************************)
(* What the journals say.  A package in force is applied, and may be being  *)
(* undone.                                                                  *)
InForce == {"applied", "undoing"}

(* Confirmations are the chat's, and what one has claimed and not looked at *)
(* yet is not in force.                                                     *)
Confirmations ==
  \A h \in Handlers : handler[h].kind = "confirm" /\ ~At(h, "idle") =>
    /\ h = Chat
    /\ handler[h].pc \in {"payload", "expire"} => Status(handler[h].group) \notin InForce

(* Dates are there from the start; a task to be created is as it will start.  *)
RowsBegin ==
  /\ \A d \in Dates : rows[d].exists
  /\ \A g \in Groups : Status(g) \in Early \cup {"applying"}
       => \A r \in Creates(g) : rows[r].version = 1

(* What is locked is there, and what an undo has locked is as its package   *)
(* left it.                                                                 *)
HeldRows ==
  \A h \in Handlers : \A r \in handler[h].held :
    /\ rows[r].exists
    /\ At(h, "lock_undo") => Untouched(handler[h].group, r)

(* The journal of a package in force: one line for each row, at a version   *)
(* the row has passed, or else still has, as the package left it.           *)
JournalHolds(g) ==
  /\ \A e, f \in groups[g].journal : e.row = f.row => e = f
  /\ \A e \in groups[g].journal :
       /\ e.created => e.row \in Tasks
       /\ e.post <= rows[e.row].version
       /\ rows[e.row].exists /\ rows[e.row].version = e.post => rows[e.row].by = g
       /\ \A k \in Groups : e.row \in Creates(k) => Status(k) \notin Early \cup {"applying"}

(* Package g has a line for row r, at a version before the given one.       *)
WroteBefore(g, r, version) ==
  Status(g) \in InForce /\ \E f \in groups[g].journal : f.row = r /\ f.post < version

(* Whose content a row has, and whose content a journal would restore, is   *)
(* that of a package in force that says so in its own journal.              *)
Traces ==
  /\ \A r \in Rows, g \in Groups : rows[r].exists /\ rows[r].by = g
       => WroteBefore(g, r, rows[r].version + 1)
  /\ \A k, g \in Groups : Status(k) \in InForce =>
       \A e \in groups[k].journal : ~e.created /\ e.by = g
         => WroteBefore(g, e.row, e.post)

Chronicle ==
  /\ Confirmations /\ RowsBegin /\ HeldRows /\ Traces
  /\ \A g \in Groups : Status(g) \in InForce => JournalHolds(g)

(* A journal is scrubbed only after its window, or when it has no more use.  *)
ScrubbedLate ==
  \A g \in Groups : groups[g].scrubbed =>
    \/ Status(g) \in Final
    \/ Status(g) \in InForce /\ groups[g].undoUntil <= clock
-----------------------------------------------------------------------------
(* What a step does to a package.  Its journal is left alone, ...           *)
Marks(g) ==
  /\ groups'[g].journal = groups[g].journal
  /\ groups'[g].undoUntil = groups[g].undoUntil
  /\ groups'[g].scrubbed = groups[g].scrubbed

(* ... it is proposed, claimed, closed or refused before it is in force, ... *)
Begins(g) ==
  /\ Status(g) \in Early \cup {"applying"} /\ Became(g) \notin InForce
  /\ groups'[g].scrubbed = groups[g].scrubbed

(* ... takes effect, ...                                                    *)
Applies(h) ==
  LET g == handler[h].group IN
  /\ At(h, "steps") /\ g \in Groups /\ Status(g) \in {"proposed", "applying"}
  /\ Became(g) = "applied" /\ OthersKept(g) /\ handler'[h].held = {}
  /\ groups'[g].scrubbed = groups[g].scrubbed
  /\ \E changed \in SUBSET Rows :
       /\ changed \subseteq handler[h].held \cup Creates(g)
       /\ \A r \in changed :
            /\ rows'[r].exists /\ rows'[r].by = g
            /\ rows'[r].version = IF rows[r].exists THEN rows[r].version + 1 ELSE 1
       /\ \A r \in Rows \ changed : rows'[r] = rows[r]
       /\ groups'[g].journal =
            {[row |-> r, created |-> ~rows[r].exists, open |-> rows[r].open,
              by |-> rows[r].by, post |-> rows'[r].version] : r \in changed}

(* ... or is undone: every row it locked, from its line of the journal.     *)
Undoes(h) ==
  LET g == handler[h].group IN
  /\ At(h, "lock_undo") /\ g \in Groups /\ handler[h].want = {} /\ handler'[h].held = {}
  /\ Status(g) = "undoing" /\ Became(g) = "undone" /\ OthersKept(g) /\ Marks(g)
  /\ \A r \in Rows \ handler[h].held : rows'[r] = rows[r]
  /\ \A r \in handler[h].held : \E e \in groups[g].journal :
       /\ e.row = r
       /\ e.created => ~rows'[r].exists /\ rows'[r].version = rows[r].version
       /\ ~e.created => /\ rows'[r].exists = rows[r].exists /\ rows'[r].by = e.by
                        /\ rows'[r].version = rows[r].version + 1

(* A write outside the packages leaves them alone.                          *)
Writes(h) ==
  /\ At(h, "write") /\ UNCHANGED groups /\ handler'[h].held = {}
  /\ \A r \in Rows \ handler[h].held : rows'[r] = rows[r]
  /\ \A r \in handler[h].held : /\ rows'[r].exists = rows[r].exists
                                /\ rows'[r].version = rows[r].version + 1
                                /\ rows'[r].by = System

Life(g) ==
  \/ Became(g) = Status(g) /\ Marks(g)
  \/ Begins(g)
  \/ Status(g) \in InForce /\ Became(g) \in InForce /\ Marks(g)
  \/ \E h \in Handlers : handler[h].group = g /\ (Applies(h) \/ Undoes(h))
  \/ \E h \in Handlers : /\ handler[h].group = g /\ At(h, "expire")
                         /\ Became(g) = "expired" /\ Marks(g)
  \/ /\ Scrubbable(g) /\ Became(g) = Status(g)
     /\ groups'[g].journal = groups[g].journal
     /\ groups'[g].undoUntil = groups[g].undoUntil

(* setGroupStatus, and closing a package, move one and nothing of its journal. *)
LEMMA StatusMarks ==
  ASSUME TypeOK, NEW g \in Groups, NEW s \in Statuses, SetStatus(g, s) \/ Closes(g, s)
  PROVE  Marks(g) /\ OthersKept(g) /\ Became(g) = s
<1>1. groups \in [Groups -> GroupType]
  BY DEF TypeOK
<1>2. CASE SetStatus(g, s)
  BY <1>1, <1>2 DEF SetStatus, GroupType, Marks, OthersKept, Became
<1>3. CASE Closes(g, s)
  BY <1>1, <1>3 DEF Closes, GroupType, Marks, OthersKept, Became
<1> QED BY <1>2, <1>3

(* So do the repairs of boot and of a failed request.                       *)
LEMMA RepairMarks ==
  ASSUME TypeOK, NEW g \in Groups, groups' \in {Failed(g), Released(g)}
  PROVE  Marks(g)
<1> DEFINE s == IF Status(g) = "applying" THEN "failed" ELSE Status(g)
           t == IF Status(g) = "undoing" THEN "applied" ELSE Status(g)
<1>1. s \in Statuses /\ t \in Statuses
  BY DEF TypeOK, GroupType, Statuses, Status
<1>2. Closes(g, s) \/ SetStatus(g, t)
  BY DEF Failed, Closes, Released, SetStatus, Status
<1> HIDE DEF s, t
<1> QED BY <1>1, <1>2, StatusMarks

(* A package that takes effect.                                             *)
LEMMA CommitApplies ==
  ASSUME TypeInv, NEW h \in Handlers, CommitApply(h), ~(UNCHANGED rows /\ Throw(h))
  PROVE  Applies(h)
<1>0. TypeOK /\ PlacesFit /\ Stages
  BY DEF TypeInv
<1>y. rows \in [Rows -> RowType] /\ groups \in [Groups -> GroupType]
  BY <1>0 DEF TypeOK
<1> DEFINE g == handler[h].group
           changed == (Changed(g) \cap handler[h].held) \cup Creates(g)
           journal == {[row |-> r, created |-> ~rows[r].exists,
                        open |-> rows[r].open, by |-> rows[r].by,
                        post |-> rows'[r].version] : r \in changed}
           until == handler[h].now + UndoTtl
<1>1. /\ At(h, "steps") /\ g \in Groups /\ Applying(h)
      /\ handler[h].kind = "turn" => Status(g) = "proposed"
      /\ handler[h].kind = "confirm" => g \in Gated
  BY <1>0 DEF CommitApply, Satisfied, PlacesFit, Fits, ByPackage, Applying,
     Stages, Stage, Proposing, At
<1>2. /\ g \in Gated => Status(g) = "applying"
      /\ rows' = [r \in Rows |-> IF r \notin changed THEN rows[r] ELSE
              [exists |-> TRUE, open |-> Opens(g, r), by |-> g,
               version |-> IF rows[r].exists THEN rows[r].version + 1 ELSE 1]]
      /\ groups' = [groups EXCEPT ![g] = [groups[g] EXCEPT !.status = "applied",
           !.payload = FALSE, !.undoUntil = until, !.journal = journal]]
  BY DEF CommitApply
<1>3. changed \in SUBSET Rows /\ changed \subseteq handler[h].held \cup Creates(g)
  BY <1>0, <1>1, PackagesTyped DEF TypeOK, Handler, Rows
<1>4. \A r \in changed :
        /\ rows'[r].exists /\ rows'[r].by = g
        /\ rows'[r].version = IF rows[r].exists THEN rows[r].version + 1 ELSE 1
  BY <1>2, <1>3
<1>5. \A r \in Rows \ changed : rows'[r] = rows[r]
  BY <1>2
<1>6. Status(g) \in {"proposed", "applying"}
  BY <1>1, <1>2 DEF Applying
<1>8. handler'[h].held = {}
  BY <1>0, CommitMoves DEF CommitApply
<1>7. groups'[g].journal = journal /\ groups'[g].scrubbed = groups[g].scrubbed
      /\ Became(g) = "applied" /\ OthersKept(g)
  <2> HIDE DEF g, journal, until
  <2> QED BY <1>y, <1>1, <1>2 DEF GroupType, Became, OthersKept
<1> HIDE DEF changed
<1> QED BY <1>1, <1>3, <1>4, <1>5, <1>6, <1>7, <1>8 DEF Applies

(* A package that is undone.                                                *)
LEMMA CommitUndoes ==
  ASSUME TypeInv, NEW h \in Handlers, CommitUndo(h), ~(UNCHANGED rows /\ Throw(h))
  PROVE  Undoes(h)
<1>0. TypeOK /\ PlacesFit /\ Stages /\ UndoLocks
  BY DEF TypeInv
<1>y. rows \in [Rows -> RowType] /\ handler[h].held \subseteq Rows
  BY <1>0 DEF TypeOK, Handler
<1> DEFINE g == handler[h].group
           journal == groups[g].journal
           before(r) == CHOOSE e \in journal : e.row = r
           restored(r) ==
             IF before(r).created THEN [rows[r] EXCEPT !.exists = FALSE]
             ELSE [rows[r] EXCEPT !.open = before(r).open, !.by = before(r).by,
                                  !.version = @ + 1]
<1>1. /\ At(h, "lock_undo") /\ g \in Groups /\ handler[h].want = {}
      /\ Status(g) = "undoing" /\ SetStatus(g, "undone")
      /\ rows' = [r \in Rows |-> IF r \in handler[h].held THEN restored(r) ELSE rows[r]]
  BY <1>0 DEF CommitUndo, Satisfied, PlacesFit, Fits, ByPackage, At
<1>2. Marks(g) /\ OthersKept(g) /\ Became(g) = "undone"
  <2> HIDE DEF g
  <2> QED BY <1>0, <1>1, StatusMarks DEF Statuses
<1>5. handler[h].held = {e.row : e \in journal}
  BY <1>0, <1>1 DEF UndoLocks
<1>3. ASSUME NEW r \in handler[h].held
      PROVE  \E e \in journal :
               /\ e.row = r
               /\ e.created => ~rows'[r].exists /\ rows'[r].version = rows[r].version
               /\ ~e.created => /\ rows'[r].exists = rows[r].exists /\ rows'[r].by = e.by
                                /\ rows'[r].version = rows[r].version + 1
  <2>1. \E e \in journal : e.row = r
    BY <1>5
  <2>2. before(r) \in journal /\ before(r).row = r
    BY <2>1
  <2>3. rows'[r] = restored(r)
    BY <1>1, <1>y
  <2> DEFINE e == before(r)
             p == rows[r]
             open == e.open
             by == e.by
  <2>4. p \in RowType
    BY <1>y
  <2>5. /\ e.created => rows'[r] = [p EXCEPT !.exists = FALSE]
        /\ ~e.created => rows'[r] = [p EXCEPT !.open = open, !.by = by, !.version = @ + 1]
    BY <2>3
  <2>6. e \in journal /\ e.row = r /\ by = e.by
    BY <2>2
  <2> HIDE DEF e, open, by, p
  <2>7. /\ e.created => ~rows'[r].exists /\ rows'[r].version = p.version
        /\ ~e.created => /\ rows'[r].exists = p.exists /\ rows'[r].by = by
                         /\ rows'[r].version = p.version + 1
    BY <2>4, <2>5 DEF RowType
  <2> QED BY <2>6, <2>7 DEF p
<1>4. \A r \in Rows \ handler[h].held : rows'[r] = rows[r]
  BY <1>1
<1>6. handler'[h].held = {}
  BY <1>0, CommitMoves DEF CommitUndo
<1> HIDE DEF before, restored
<1> QED BY <1>1, <1>2, <1>3, <1>4, <1>6 DEF Undoes

(* A write that takes effect.                                               *)
LEMMA CommitWrites ==
  ASSUME TypeInv, NEW h \in Handlers, CommitWrite(h)
  PROVE  Writes(h)
<1>1. rows \in [Rows -> RowType] /\ handler[h].held \subseteq Rows
  BY DEF TypeInv, TypeOK, Handler
<1>2. /\ At(h, "write") /\ UNCHANGED groups
      /\ rows' = [r \in Rows |-> IF r \notin handler[h].held THEN rows[r] ELSE
            [rows[r] EXCEPT !.version = @ + 1, !.by = System,
                            !.open = handler[h].kind = "touch"]]
  BY DEF CommitWrite, Satisfied
<1>3. handler'[h].held = {}
  BY FinishMoves DEF CommitWrite, TypeInv
<1> QED BY <1>1, <1>2, <1>3 DEF Writes, RowType

(* Nothing else changes a row.                                              *)
LEMMA RowsStay ==
  ASSUME [Next]_vars,
         \A h \in Handlers : ~CommitApply(h) /\ ~CommitUndo(h) /\ ~CommitWrite(h)
  PROVE  rows' = rows
<1>1. ASSUME NEW h \in Handlers, Serve(h) \/ Requests(h) PROVE rows' = rows
  BY <1>1 DEF Serve, Requests, StorePending, BeginApply, Answer, Claim, ReadPayload,
     ExpireClaimed, Validate, MarkFailed, PrepareThrows, LockTarget, BeginSteps, LockStep,
     ClaimUndo, LockUndo, Release, LockWrite, BreakCircle, Turn, Undo, BeginWrite
<1>2. ASSUME NEW h \in Handlers, LoseConnection(h) \/ LoseTransaction(h)
      PROVE  rows' = rows
  BY <1>2 DEF LoseConnection, LoseTransaction
<1>3. ASSUME NEW g \in Groups, Confirm(g) \/ CancelPending(g) PROVE rows' = rows
  BY <1>3 DEF Confirm, CancelPending
<1>4. ASSUME Maintenance \/ Boot \/ Crash \/ Tick \/ UNCHANGED vars PROVE rows' = rows
  BY <1>4 DEF Maintenance, FindExpired, ExpirePending, Scrub, Boot, ListInterrupted,
     RecoverOne, Crash, Tick, vars
<1> QED BY <1>1, <1>2, <1>3, <1>4 DEF Next

LEMMA RowsChange ==
  ASSUME TypeInv, [Next]_vars
  PROVE  \/ rows' = rows
         \/ \E h \in Handlers : Applies(h) \/ Undoes(h) \/ Writes(h)
<1>1. ASSUME NEW h \in Handlers, CommitApply(h) PROVE rows' = rows \/ Applies(h)
  BY <1>1, CommitApplies
<1>2. ASSUME NEW h \in Handlers, CommitUndo(h) PROVE rows' = rows \/ Undoes(h)
  BY <1>2, CommitUndoes
<1>3. ASSUME NEW h \in Handlers, CommitWrite(h) PROVE Writes(h)
  BY <1>3, CommitWrites
<1> QED BY <1>1, <1>2, <1>3, RowsStay

(* In every step, every package lives on in one of these ways.              *)
LEMMA Lives ==
  ASSUME TypeInv, [Next]_vars, NEW k \in Groups
  PROVE  Life(k)
<1>0. TypeOK /\ PlacesFit /\ Stages
  BY DEF TypeInv
<1>y. groups \in [Groups -> GroupType]
  BY <1>0 DEF TypeOK
<1>s. {"proposed", "rejected", "pending", "applying", "applied", "undoing", "undone",
       "cancelled", "expired", "failed"} \subseteq Statuses
  BY DEF Statuses
<1> USE DEF At
(* A package that is left alone, and the one that is not.                   *)
<1>a. ASSUME groups'[k] = groups[k] PROVE Life(k)
  BY <1>a DEF Life, Marks, Status, Became
<1>b. ASSUME NEW g \in Groups, OthersKept(g), Life(g) PROVE Life(k)
  BY <1>a, <1>b DEF OthersKept
<1>m. ASSUME NEW g \in Groups, OthersKept(g), Marks(g),
             \/ Became(g) = Status(g)
             \/ Status(g) \in Early \cup {"applying"} /\ Became(g) \notin InForce
             \/ Status(g) \in InForce /\ Became(g) \in InForce
      PROVE  Life(k)
  <2>1. Life(g)
    BY <1>m DEF Life, Begins, Marks
  <2> QED BY <1>b, <1>m, <2>1
<1>t. ASSUME NEW h \in Handlers, Throw(h), ~At(h, "idle"),
             handler[h].kind = "turn" => Proposing(h)
      PROVE  Life(k)
  <2>1. CASE handler[h].kind = "turn"
    <3> DEFINE g == handler[h].group
    <3>1. g \in Groups /\ Status(g) = "proposed" /\ SetStatus(g, "rejected")
      BY <1>0, <2>1, <1>t, ThrowSettles DEF Stages, Stage, Throw, SetStatus
    <3> HIDE DEF g
    <3>2. Marks(g) /\ OthersKept(g) /\ Became(g) = "rejected"
      BY <1>0, <1>s, <3>1, StatusMarks
    <3> QED BY <1>m, <3>1, <3>2 DEF Early, InForce
  <2>2. CASE handler[h].kind # "turn"
    BY <1>a, <1>t, <2>2, ThrowSettles
  <2> QED BY <2>1, <2>2
<1>1. ASSUME NEW h \in Handlers, NEW g \in Groups, Turn(h, g) PROVE Life(k)
  <2>1. /\ Status(g) = "none" /\ OthersKept(g) /\ Became(g) = "proposed"
        /\ groups'[g].scrubbed = groups[g].scrubbed
    BY <1>1, <1>y DEF Turn, OthersKept, Status, Became, GroupType
  <2>2. Life(g)
    BY <2>1 DEF Life, Begins, Early, InForce
  <2> QED BY <1>b, <2>1, <2>2
<1>2. ASSUME NEW h \in Handlers, StorePending(h) PROVE Life(k)
  <2> DEFINE g == handler[h].group
             until == handler[h].now + ConfirmTtl
  <2>1. g \in Groups /\ Status(g) = "proposed"
    BY <1>0, <1>2 DEF StorePending, PlacesFit, Fits, ByPackage, Stages, Stage, Proposing
  <2>2. groups' = [groups EXCEPT ![g] = [groups[g] EXCEPT !.status = "pending",
                     !.payload = TRUE, !.expires = until]]
    BY <1>2 DEF StorePending
  <2> HIDE DEF g, until
  <2>3. Marks(g) /\ OthersKept(g) /\ Became(g) = "pending"
    BY <1>y, <2>1, <2>2 DEF GroupType, Marks, OthersKept, Became
  <2> QED BY <1>m, <2>1, <2>3 DEF Early, InForce
<1>3. ASSUME NEW h \in Handlers, Answer(h) PROVE Life(k)
  <2> DEFINE card == groups[handler[h].group].answers
  <2>1. CASE UNCHANGED groups
    BY <1>a, <2>1
  <2>2. CASE ~UNCHANGED groups
    <3>1. card # None /\ Status(card) = "pending" /\ Closes(card, "cancelled")
      BY <1>3, <2>2 DEF Answer, Closes
    <3>2. card \in Groups
      BY <1>0, <1>3, <1>y, <3>1 DEF Answer, PlacesFit, Fits, ByPackage, GroupType
    <3> HIDE DEF card
    <3>3. Marks(card) /\ OthersKept(card) /\ Became(card) = "cancelled"
      BY <1>0, <1>s, <3>1, <3>2, StatusMarks
    <3> QED BY <1>m, <3>1, <3>2, <3>3 DEF Early, InForce
  <2> QED BY <2>1, <2>2
<1>4. ASSUME NEW h \in Handlers, Claim(h) PROVE Life(k)
  <2> DEFINE g == handler[h].group
  <2>1. CASE Status(g) = "pending"
    <3>1. g \in Groups /\ SetStatus(g, "applying")
      BY <1>0, <1>4, <2>1 DEF Claim, PlacesFit, Fits, ByPackage
    <3> HIDE DEF g
    <3>2. Marks(g) /\ OthersKept(g) /\ Became(g) = "applying"
      BY <1>0, <1>s, <3>1, StatusMarks
    <3> QED BY <1>m, <2>1, <3>1, <3>2 DEF Early, InForce
  <2>2. CASE Status(g) # "pending"
    BY <1>4, <1>a, <2>2 DEF Claim
  <2> QED BY <2>1, <2>2
<1>5. ASSUME NEW h \in Handlers, ExpireClaimed(h) PROVE Life(k)
  <2> DEFINE g == handler[h].group
  <2>1. g \in Groups /\ Closes(g, "expired") /\ At(h, "expire")
    BY <1>0, <1>5 DEF ExpireClaimed, Closes, PlacesFit, Fits, ByPackage
  <2>2. Marks(g) /\ OthersKept(g) /\ Became(g) = "expired"
    <3> HIDE DEF g
    <3> QED BY <1>0, <1>s, <2>1, StatusMarks
  <2>3. Life(g)
    BY <2>1, <2>2 DEF Life
  <2> QED BY <1>b, <2>1, <2>2, <2>3
<1>r. ASSUME NEW g \in Groups, groups' \in {Failed(g), Released(g)} PROVE Life(k)
  <2>1. /\ Marks(g) /\ OthersKept(g)
        /\ \/ Became(g) = Status(g)
           \/ Status(g) = "applying" /\ Became(g) = "failed"
           \/ Status(g) = "undoing" /\ Became(g) = "applied"
    BY <1>0, <1>r, RepairMoves, RepairMarks
  <2> QED BY <1>m, <2>1 DEF InForce
<1>6. ASSUME NEW h \in Handlers, MarkFailed(h) \/ Release(h) PROVE Life(k)
  <2>1. handler[h].group \in Groups
    BY <1>0, <1>6 DEF MarkFailed, Release, PlacesFit, Fits, ByPackage
  <2> QED BY <1>6, <1>r, <2>1 DEF MarkFailed, Release
<1>7. ASSUME NEW x \in recovery.listed, RecoverOne(x) PROVE Life(k)
  <2>1. x.group \in Groups
    BY <1>0 DEF TypeOK
  <2> QED BY <1>7, <1>r, <2>1 DEF RecoverOne
<1>8. ASSUME NEW g \in Groups, CancelPending(g) PROVE Life(k)
  <2>1. Status(g) = "pending" /\ Closes(g, "cancelled")
    BY <1>8 DEF CancelPending, Closes
  <2>2. Marks(g) /\ OthersKept(g) /\ Became(g) = "cancelled"
    BY <1>0, <1>s, <2>1, StatusMarks
  <2> QED BY <1>m, <2>1, <2>2 DEF Early, InForce
<1>9. ASSUME NEW h \in Handlers, LockTarget(h) \/ LockStep(h) \/ LockUndo(h) \/ LockWrite(h)
      PROVE  Life(k)
  <2>1. UNCHANGED groups \/ Throw(h)
    BY <1>9 DEF LockTarget, LockStep, LockUndo, LockWrite
  <2>2. ~At(h, "idle") /\ (handler[h].kind = "turn" => Proposing(h))
    BY <1>0, <1>9 DEF LockTarget, LockStep, LockUndo, LockWrite, Wanting, PlacesFit, Fits,
       Proposing
  <2> QED BY <1>a, <1>t, <2>1, <2>2
<1>10. ASSUME NEW h \in Handlers, BeginSteps(h) PROVE Life(k)
  <2>1. UNCHANGED groups \/ Throw(h)
    BY <1>10 DEF BeginSteps
  <2>2. ~At(h, "idle") /\ (handler[h].kind = "turn" => Proposing(h))
    BY <1>10 DEF BeginSteps, Satisfied, Proposing
  <2> QED BY <1>a, <1>t, <2>1, <2>2
<1>11. ASSUME NEW h \in Handlers, CommitApply(h) PROVE Life(k)
  <2>1. CASE UNCHANGED rows /\ Throw(h)
    BY <1>11, <1>t, <2>1 DEF CommitApply, Satisfied, Proposing
  <2>2. CASE ~(UNCHANGED rows /\ Throw(h))
    <3>1. Applies(h)
      BY <1>11, <2>2, CommitApplies
    <3> PICK g \in Groups : g = handler[h].group
      BY <3>1 DEF Applies
    <3>2. Life(g) /\ OthersKept(g)
      BY <3>1 DEF Life, Applies
    <3> QED BY <1>b, <3>2
  <2> QED BY <2>1, <2>2
<1>12. ASSUME NEW h \in Handlers, ClaimUndo(h) PROVE Life(k)
  <2> DEFINE g == handler[h].group
  <2>1. CASE UNCHANGED groups
    BY <1>a, <2>1
  <2>2. CASE ~UNCHANGED groups
    <3>1. g \in Groups /\ Status(g) = "applied" /\ SetStatus(g, "undoing")
      BY <1>0, <1>12, <2>2 DEF ClaimUndo, PlacesFit, Fits, ByPackage
    <3> HIDE DEF g
    <3>2. Marks(g) /\ OthersKept(g) /\ Became(g) = "undoing"
      BY <1>0, <1>s, <3>1, StatusMarks
    <3> QED BY <1>m, <3>1, <3>2 DEF InForce
  <2> QED BY <2>1, <2>2
<1>13. ASSUME NEW h \in Handlers, CommitUndo(h) PROVE Life(k)
  <2>1. CASE UNCHANGED rows /\ Throw(h)
    <3>1. At(h, "lock_undo") /\ handler[h].kind = "undo"
      BY <1>0, <1>13 DEF CommitUndo, Satisfied, PlacesFit, Fits
    <3> QED BY <1>t, <2>1, <3>1
  <2>2. CASE ~(UNCHANGED rows /\ Throw(h))
    <3>1. Undoes(h)
      BY <1>13, <2>2, CommitUndoes
    <3> PICK g \in Groups : g = handler[h].group
      BY <3>1 DEF Undoes
    <3>2. Life(g) /\ OthersKept(g)
      BY <3>1 DEF Life, Undoes
    <3> QED BY <1>b, <3>2
  <2> QED BY <2>1, <2>2
<1>14. CASE ExpirePending
  <2>1. /\ Marks(k)
        /\ Became(k) = Status(k) \/ (Status(k) = "pending" /\ Became(k) = "expired")
    BY <1>14, <1>y DEF ExpirePending, GroupType, Marks, Status, Became
  <2> QED BY <2>1 DEF Life, Begins, Marks, Early, InForce
<1>15. CASE Scrub
  <2> DEFINE b == groups[k].scrubbed \/ (Scrubbable(k) /\ groups[k].journal # {})
  <2>1. groups'[k] = [groups[k] EXCEPT !.scrubbed = b] /\ groups[k] \in GroupType
    BY <1>15, <1>y DEF Scrub
  <2>2. CASE Scrubbable(k)
    <3> HIDE DEF b
    <3>1. /\ Became(k) = Status(k)
          /\ groups'[k].journal = groups[k].journal
          /\ groups'[k].undoUntil = groups[k].undoUntil
      BY <2>1 DEF GroupType, Status, Became
    <3> QED BY <2>2, <3>1 DEF Life
  <2>3. CASE ~Scrubbable(k)
    <3>1. b = groups[k].scrubbed
      BY <2>1, <2>3 DEF GroupType
    <3> HIDE DEF b
    <3>2. groups'[k] = groups[k]
      BY <2>1, <3>1 DEF GroupType
    <3> QED BY <1>a, <3>2
  <2> QED BY <2>2, <2>3
<1>16. CASE Crash
  <2>1. /\ Marks(k)
        /\ Became(k) = Status(k) \/ (Status(k) = "proposed" /\ Became(k) = "rejected")
    BY <1>16, <1>y DEF Crash, GroupType, Marks, Status, Became
  <2> QED BY <2>1 DEF Life, Begins, Marks, Early, InForce
<1>17. ASSUME NEW h \in Handlers, LoseConnection(h) PROVE Life(k)
  <2> DEFINE g == handler[h].group
  <2>1. CASE UNCHANGED groups
    BY <1>a, <2>1
  <2>2. CASE ~UNCHANGED groups
    <3>1. g \in Groups /\ SetStatus(g, "rejected") /\ Status(g) = "proposed"
      BY <1>0, <1>17, <2>2 DEF LoseConnection, PlacesFit, Fits, ByPackage, Proposing,
         Applying, Stages, Stage
    <3> HIDE DEF g
    <3>2. Marks(g) /\ OthersKept(g) /\ Became(g) = "rejected"
      BY <1>0, <1>s, <3>1, StatusMarks
    <3> QED BY <1>m, <3>1, <3>2 DEF Early, InForce
  <2> QED BY <2>1, <2>2
<1>18. ASSUME NEW h \in Handlers, LoseTransaction(h) PROVE Life(k)
  <2>1. ~At(h, "idle") /\ Throw(h) /\ (handler[h].kind = "turn" => Proposing(h))
    BY <1>0, <1>18 DEF LoseTransaction, PlacesFit, Fits, Proposing
  <2> QED BY <1>t, <2>1
<1>19. ASSUME NEW h \in Handlers, BreakCircle(h) PROVE Life(k)
  <2>1. handler[h].want # {} /\ Throw(h)
    BY <1>19 DEF BreakCircle, Circle, WaitsFor
  <2>2. ~At(h, "idle") /\ (handler[h].kind = "turn" => Proposing(h))
    BY <1>0, <2>1 DEF PlacesFit, Fits, InTransaction, Proposing
  <2> QED BY <1>t, <2>1, <2>2
<1>20. CASE UNCHANGED groups
  BY <1>20, <1>a
<1>21. UNCHANGED groups \/ Next
  BY DEF vars
<1>22. ASSUME NEW h \in Handlers,
              BeginApply(h) \/ ReadPayload(h) \/ Validate(h) \/ CommitWrite(h)
                \/ PrepareThrows(h)
                \/ (\E g \in Groups : Undo(h, g))
                \/ (\E d \in Dates, closes \in BOOLEAN : BeginWrite(h, d, closes))
       PROVE  UNCHANGED groups
  BY <1>22 DEF BeginApply, ReadPayload, Validate, CommitWrite, PrepareThrows, Undo, BeginWrite
<1>23. ASSUME \/ \E g \in Groups : Confirm(g)
              \/ FindExpired \/ ListInterrupted \/ Tick
       PROVE  UNCHANGED groups
  BY <1>23 DEF Confirm, FindExpired, ListInterrupted, Tick
<1> QED
  BY <1>1, <1>2, <1>3, <1>4, <1>5, <1>6, <1>7, <1>8, <1>9, <1>10, <1>11, <1>12,
     <1>13, <1>14, <1>15, <1>16, <1>17, <1>18, <1>19, <1>20, <1>21, <1>22, <1>23
     DEF Next, Serve, Requests, Maintenance, Boot

(* The clock stands or goes on.                                             *)
LEMMA ClockMoves ==
  ASSUME [Next]_vars PROVE clock' = clock \/ clock' = clock + 1
<1>1. ASSUME NEW h \in Handlers, Serve(h) \/ Requests(h) PROVE clock' = clock
  BY <1>1 DEF Serve, Requests, StorePending, BeginApply, Answer, Claim, ReadPayload,
     ExpireClaimed, Validate, MarkFailed, PrepareThrows, LockTarget, BeginSteps, LockStep, CommitApply,
     ClaimUndo, LockUndo, CommitUndo, Release, LockWrite, CommitWrite, BreakCircle,
     Turn, Undo, BeginWrite
<1>2. ASSUME NEW h \in Handlers, LoseConnection(h) \/ LoseTransaction(h)
      PROVE  clock' = clock
  BY <1>2 DEF LoseConnection, LoseTransaction
<1>3. ASSUME NEW g \in Groups, Confirm(g) \/ CancelPending(g) PROVE clock' = clock
  BY <1>3 DEF Confirm, CancelPending
<1>4. CASE Maintenance \/ Boot \/ Crash \/ UNCHANGED vars
  BY <1>4 DEF Maintenance, FindExpired, ExpirePending, Scrub, Boot, ListInterrupted,
     RecoverOne, Crash, vars
<1> QED BY <1>1, <1>2, <1>3, <1>4 DEF Next, Tick

(* scrubExpiredActionPayloads goes by the same clock as the window.         *)
LEMMA ScrubbedLateStep ==
  ASSUME TypeInv, ScrubbedLate, [Next]_vars
  PROVE  ScrubbedLate'
<1> SUFFICES ASSUME NEW g \in Groups, groups'[g].scrubbed
             PROVE  \/ Became(g) \in Final
                    \/ Became(g) \in InForce /\ groups'[g].undoUntil <= clock'
  BY DEF ScrubbedLate, Became, Status
<1>1. /\ clock \in Nat /\ clock' \in Nat /\ clock <= clock'
      /\ groups[g].undoUntil \in Nat
  <2>1. clock' = clock \/ clock' = clock + 1
    BY ClockMoves
  <2> QED BY <2>1, GroupsAssumption DEF TypeInv, TypeOK, Time, GroupType, GroupsAssumption
<1>2. Life(g)
  BY Lives
<1>3. ASSUME groups[g].scrubbed
      PROVE  Status(g) \in Final \/ (Status(g) \in InForce /\ groups[g].undoUntil <= clock)
  BY <1>3 DEF ScrubbedLate
<1>4. CASE Became(g) = Status(g) /\ Marks(g)
  BY <1>1, <1>3, <1>4 DEF Marks
<1>5. CASE Begins(g)
  BY <1>3, <1>5 DEF Begins, Early, Final, InForce
<1>6. CASE Status(g) \in InForce /\ Became(g) \in InForce /\ Marks(g)
  BY <1>1, <1>3, <1>6 DEF Marks, InForce, Final
<1>7. ASSUME NEW h \in Handlers, handler[h].group = g, Applies(h) PROVE FALSE
  BY <1>3, <1>7 DEF Applies, Final, InForce
<1>8. ASSUME NEW h \in Handlers, handler[h].group = g, Undoes(h)
      PROVE  Became(g) \in Final
  BY <1>8 DEF Undoes, Final
<1>9. CASE Became(g) = "expired"
  BY <1>9 DEF Final
<1>10. CASE /\ Scrubbable(g) /\ Became(g) = Status(g)
            /\ groups'[g].undoUntil = groups[g].undoUntil
  BY <1>1, <1>10 DEF Scrubbable, InForce
<1> QED BY <1>2, <1>4, <1>5, <1>6, <1>7, <1>8, <1>9, <1>10 DEF Life

(* At first no journal is there to be scrubbed.                             *)
LEMMA ScrubbedLateInit == Init => ScrubbedLate
BY DEF Init, ScrubbedLate

(* The journal is kept for as long as the card offers to undo.              *)
THEOREM JournalsLast == Spec => []JournalOutlivesWindow
<1>1. ASSUME TypeInv, ScrubbedLate PROVE JournalOutlivesWindow
  <2> SUFFICES ASSUME NEW g \in Groups, Status(g) \in {"applied", "undoing"},
                      groups[g].undoUntil > clock, groups[g].scrubbed
               PROVE  FALSE
    BY DEF JournalOutlivesWindow
  <2>1. groups[g].undoUntil \in Nat /\ clock \in Nat
    BY <1>1, GroupsAssumption DEF TypeInv, TypeOK, GroupType, Time, GroupsAssumption
  <2>2. groups[g].undoUntil <= clock
    BY <1>1 DEF ScrubbedLate, Final
  <2> QED BY <2>1, <2>2
<1>2. TypeInv /\ ScrubbedLate /\ [Next]_vars => (TypeInv /\ ScrubbedLate)'
  BY TypeInductive, ScrubbedLateStep
<1>3. Init => TypeInv /\ ScrubbedLate
  BY TypeInit, ScrubbedLateInit
<1>4. TypeInv /\ ScrubbedLate => JournalOutlivesWindow
  BY <1>1
<1> QED BY <1>2, <1>3, <1>4, PTL DEF Spec
-----------------------------------------------------------------------------
(* A confirmation moves along its own path, and claims its package before   *)
(* it looks at it.                                                          *)
Confirms(h) ==
  \/ handler'[h] = handler[h]
  \/ handler'[h].pc = "idle" \/ handler'[h].kind # "confirm"
  \/ h = Chat /\ handler'[h].pc = "claim"
  \/ Same(h) /\ ~At(h, "idle") /\ handler'[h].pc \notin {"payload", "expire"}
  \/ Same(h) /\ At(h, "claim") /\ Became(handler[h].group) = "applying"
  \/ Same(h) /\ At(h, "payload") /\ UNCHANGED groups

LEMMA Confirming ==
  ASSUME TypeInv, [Next]_vars, NEW k \in Handlers
  PROVE  Confirms(k)
<1>0. TypeOK /\ PlacesFit /\ Stages
  BY DEF TypeInv
<1> USE DEF At
<1>a. ASSUME NEW h \in Handlers, Others(h), Confirms(h) PROVE Confirms(k)
  BY <1>a DEF Others, Confirms
<1>b. ASSUME UNCHANGED handler PROVE Confirms(k)
  BY <1>b DEF Confirms
<1>f. ASSUME NEW h \in Handlers, Finish(h) PROVE Confirms(k)
  BY <1>0, <1>f, <1>a, FinishMoves DEF Confirms
<1>t. ASSUME NEW h \in Handlers, Throw(h), ~At(h, "idle") PROVE Confirms(k)
  <2>1. Others(h) /\ Confirms(h)
    BY <1>0, <1>t, ThrowMoves DEF Confirms
  <2> QED BY <2>1, <1>a
<1>e. ASSUME NEW h \in Handlers, ~At(h, "idle"),
             NEW pc \in Places \ {"payload", "expire"}, NEW want,
             Goto(h, pc) \/ Enters(h, pc, want)
      PROVE  Confirms(k)
  <2>1. Others(h) /\ Same(h) /\ handler'[h].pc = pc
    BY <1>0, <1>e, GotoMoves, EnterMoves
  <2> QED BY <1>a, <1>e, <2>1 DEF Confirms
<1>1. ASSUME NEW h \in Handlers, NEW g \in Groups, Turn(h, g) \/ Undo(h, g)
      PROVE  Confirms(k)
  <2>1. Others(h) /\ handler'[h].kind # "confirm"
    BY <1>0, <1>1, TurnMoves, UndoMoves
  <2> QED BY <2>1, <1>a DEF Confirms
<1>2. ASSUME NEW h \in Handlers, NEW d \in Dates, NEW closes \in BOOLEAN,
             BeginWrite(h, d, closes)
      PROVE  Confirms(k)
  <2>1. Others(h) /\ handler'[h].kind # "confirm"
    BY <1>0, <1>2, WriteMoves
  <2> QED BY <2>1, <1>a DEF Confirms
<1>3. ASSUME NEW g \in Groups, Confirm(g) PROVE Confirms(k)
  BY <1>0, <1>3, <1>a, ConfirmMoves DEF Confirms
<1>4. ASSUME NEW h \in Handlers, StorePending(h) PROVE Confirms(k)
  BY <1>4, <1>e DEF StorePending, Places
<1>5. ASSUME NEW h \in Handlers, BeginApply(h) PROVE Confirms(k)
  <2> DEFINE want == Targets(handler[h].group)
  <2>1. Enters(h, "lock", want)
    BY <1>5 DEF BeginApply, Enters
  <2> HIDE DEF want
  <2> QED BY <1>5, <2>1, <1>e DEF BeginApply, Places
<1>6. ASSUME NEW h \in Handlers, Claim(h) PROVE Confirms(k)
  <2> DEFINE g == handler[h].group
  <2>1. CASE Finish(h)
    BY <2>1, <1>f
  <2>2. CASE ~Finish(h)
    <3>1. g \in Groups /\ SetStatus(g, "applying") /\ Goto(h, "payload") /\ At(h, "claim")
      BY <1>0, <1>6, <2>2 DEF Claim, PlacesFit, Fits, ByPackage
    <3>2. Became(g) = "applying"
      <4> HIDE DEF g
      <4> QED BY <1>0, <3>1, StatusMoves DEF Statuses
    <3>3. Others(h) /\ Same(h)
      BY <1>0, <3>1, GotoMoves DEF Places
    <3> QED BY <3>1, <3>2, <3>3, <1>a DEF Confirms
  <2> QED BY <2>1, <2>2
<1>7. ASSUME NEW h \in Handlers, ReadPayload(h) PROVE Confirms(k)
  <2>1. At(h, "payload") /\ UNCHANGED groups
        /\ \E pc \in {"validate", "expire"} : Goto(h, pc)
    BY <1>7 DEF ReadPayload
  <2>2. Others(h) /\ Same(h)
    BY <1>0, <2>1, GotoMoves DEF Places
  <2> QED BY <2>1, <2>2, <1>a DEF Confirms
<1>8. ASSUME NEW h \in Handlers, Validate(h) PROVE Confirms(k)
  <2> DEFINE want == Targets(handler[h].group)
  <2>1. At(h, "validate") /\ (Enters(h, "lock", want) \/ Goto(h, "fail"))
    BY <1>8 DEF Validate, Enters
  <2> HIDE DEF want
  <2> QED BY <2>1, <1>e DEF Places
<1>9. ASSUME NEW h \in Handlers, LockTarget(h) \/ LockStep(h) \/ LockUndo(h) \/ LockWrite(h)
      PROVE  Confirms(k)
  <2>1. /\ handler[h].want # {} /\ handler[h].pc \in {"lock", "steps", "lock_undo", "write"}
        /\ Throw(h) \/ Lock(h, NextRow(h))
    BY <1>9 DEF LockTarget, LockStep, LockUndo, LockWrite, Wanting
  <2>2. CASE Lock(h, NextRow(h))
    <3>1. NextRow(h) \in Rows
      BY <1>0, <2>1, NextRowNeeded
    <3>2. Others(h) /\ Same(h) /\ handler'[h].pc = handler[h].pc
      BY <1>0, <2>2, <3>1, LockMoves
    <3> QED BY <2>1, <3>2, <1>a DEF Confirms
  <2> QED BY <2>1, <2>2, <1>t
<1>10. ASSUME NEW h \in Handlers, BeginSteps(h) PROVE Confirms(k)
  <2>1. At(h, "lock") /\ (Throw(h) \/ Applicable(handler[h].group))
    BY <1>10 DEF BeginSteps, Satisfied
  <2>2. CASE Applicable(handler[h].group)
    BY <1>0, <1>10, <2>1, <2>2, <1>a, StepsMoves DEF Confirms
  <2> QED BY <2>1, <2>2, <1>t
<1>11. ASSUME NEW h \in Handlers, CommitApply(h) \/ CommitUndo(h) PROVE Confirms(k)
  <2>1. /\ handler[h].pc \in {"steps", "lock_undo"}
        /\ \/ Throw(h)
           \/ handler' = [handler EXCEPT ![h] = [@ EXCEPT !.pc = "answer", !.held = {}]]
    BY <1>11 DEF CommitApply, CommitUndo, Satisfied
  <2>2. CASE ~Throw(h)
    BY <1>0, <2>1, <2>2, <1>a, CommitMoves DEF Confirms
  <2> QED BY <2>1, <2>2, <1>t
<1>12. ASSUME NEW h \in Handlers, ClaimUndo(h) PROVE Confirms(k)
  <2> DEFINE want == {e.row : e \in groups[handler[h].group].journal}
  <2>1. At(h, "claim_undo") /\ (Finish(h) \/ Enters(h, "lock_undo", want))
    BY <1>12 DEF ClaimUndo, Enters
  <2> HIDE DEF want
  <2> QED BY <2>1, <1>e, <1>f DEF Places
<1>13. ASSUME NEW h \in Handlers,
              Answer(h) \/ ExpireClaimed(h) \/ MarkFailed(h) \/ Release(h)
                \/ CommitWrite(h) \/ LoseConnection(h) \/ PrepareThrows(h)
       PROVE  Confirms(k)
  BY <1>13, <1>f DEF Answer, ExpireClaimed, MarkFailed, Release, CommitWrite, LoseConnection,
       PrepareThrows
<1>14. ASSUME NEW h \in Handlers, LoseTransaction(h) PROVE Confirms(k)
  BY <1>14, <1>t DEF LoseTransaction
<1>15. ASSUME NEW h \in Handlers, BreakCircle(h) PROVE Confirms(k)
  <2>1. Throw(h) /\ handler[h].want # {}
    BY <1>15 DEF BreakCircle, Circle, WaitsFor
  <2>2. ~At(h, "idle")
    BY <1>0, <2>1 DEF PlacesFit, Fits, InTransaction
  <2> QED BY <2>1, <2>2, <1>t
<1>16. ASSUME Crash PROVE Confirms(k)
  BY <1>16 DEF Crash, Idle, Confirms
<1>17. ASSUME \/ \E g \in Groups : CancelPending(g)
              \/ \E x \in recovery.listed : RecoverOne(x)
              \/ FindExpired \/ ExpirePending \/ Scrub \/ ListInterrupted \/ Tick
              \/ UNCHANGED vars
       PROVE  Confirms(k)
  BY <1>17, <1>b DEF CancelPending, RecoverOne, FindExpired, ExpirePending, Scrub,
     ListInterrupted, Tick, vars
<1> QED
  BY <1>1, <1>2, <1>3, <1>4, <1>5, <1>6, <1>7, <1>8, <1>9, <1>10, <1>11, <1>12,
     <1>13, <1>14, <1>15, <1>16, <1>17
     DEF Next, Serve, Requests, Maintenance, Boot

JournalInv == LockInv /\ Chronicle

(* Only the chat confirms, and what it has claimed stays out of force.      *)
LEMMA ConfirmationsStep ==
  ASSUME JournalInv, [Next]_vars
  PROVE  Confirmations'
<1>0. TypeInv /\ PlacesFit /\ Stages /\ Confirmations
  BY DEF JournalInv, LockInv, TypeInv, Chronicle
<1> SUFFICES ASSUME NEW h \in Handlers, handler'[h].kind = "confirm",
                    handler'[h].pc # "idle"
             PROVE  /\ h = Chat
                    /\ handler'[h].pc \in {"payload", "expire"}
                         => Became(handler'[h].group) \notin InForce
  BY DEF Confirmations, At, Status, Became
<1>1. Confirms(h)
  BY <1>0, Confirming
<1>2. CASE handler'[h] = handler[h]
  <2> DEFINE g == handler[h].group
  <2>1. h = Chat /\ handler[h].kind = "confirm" /\ ~At(h, "idle") /\ g \in Groups
    BY <1>0, <1>2 DEF Confirmations, PlacesFit, Fits, ByPackage, At
  <2>2. ASSUME handler[h].pc \in {"payload", "expire"} PROVE Became(g) \notin InForce
    <3>1. Status(g) \notin InForce \cup Early
      BY <1>0, <2>1, <2>2 DEF Confirmations, Stages, Stage
    <3>2. ASSUME NEW k \in Handlers, handler[k].group = g, Applies(k) PROVE FALSE
      <4>1. At(k, "steps") /\ Applying(k) /\ Status(g) # "proposed"
        BY <1>0, <3>1, <3>2 DEF Applies, PlacesFit, Fits, At, Early
      <4>2. handler[k].kind = "confirm"
        BY <1>0, <3>2, <4>1 DEF Applying, Stages, Stage, Proposing, At
      <4> QED BY <1>0, <2>1, <2>2, <4>1, <4>2 DEF Confirmations, At
    <3>3. ASSUME NEW k \in Handlers, handler[k].group = g, Undoes(k) PROVE FALSE
      BY <3>1, <3>3 DEF Undoes, InForce
    <3>4. Life(g)
      BY <1>0, <2>1, Lives
    <3> QED BY <3>1, <3>2, <3>3, <3>4 DEF Life, Begins, InForce
  <2> QED BY <1>2, <2>1, <2>2
<1>3. CASE h = Chat /\ handler'[h].pc = "claim"
  BY <1>3
<1>4. CASE Same(h) /\ ~At(h, "idle") /\ handler'[h].pc \notin {"payload", "expire"}
  BY <1>0, <1>4 DEF Same, Confirmations
<1>5. CASE Same(h) /\ At(h, "claim") /\ Became(handler[h].group) = "applying"
  BY <1>0, <1>5 DEF Same, Confirmations, At, InForce
<1>6. CASE Same(h) /\ At(h, "payload") /\ UNCHANGED groups
  BY <1>0, <1>6 DEF Same, Confirmations, At, Became, Status
<1> QED BY <1>1, <1>2, <1>3, <1>4, <1>5, <1>6 DEF Confirms

(* A row that is locked and there is changed by its holder alone.           *)
LEMMA HeldByOne ==
  ASSUME JournalInv, [Next]_vars, NEW h \in Handlers, NEW r \in handler'[h].held,
         handler'[h] = handler[h]
  PROVE  r \in Rows /\ rows[r].exists /\ rows'[r] = rows[r]
<1>0. TypeInv /\ TypeOK /\ Locks /\ NotYetCreated /\ HeldRows
  BY DEF JournalInv, LockInv, TypeInv, Chronicle
<1>1. r \in handler[h].held /\ r \in Rows /\ rows[r].exists
  BY <1>0 DEF HeldRows, TypeOK, Handler
<1>2. ASSUME NEW k \in Handlers, Applies(k) \/ Undoes(k) \/ Writes(k)
      PROVE  rows'[r] = rows[r]
  <2>1. k # h
    BY <1>2 DEF Applies, Undoes, Writes
  <2>2. r \notin handler[k].held
    BY <1>0, <1>1, <2>1 DEF Locks
  <2>3. ASSUME Applies(k) PROVE r \notin Creates(handler[k].group)
    BY <1>0, <1>1, <2>3 DEF Applies, NotYetCreated, Early
  <2> QED BY <1>1, <1>2, <2>2, <2>3 DEF Applies, Undoes, Writes
<1> QED BY <1>0, <1>1, <1>2, RowsChange

(* What a package in force wrote down stays as it is.                       *)
LEMMA JournalStays ==
  ASSUME TypeInv, [Next]_vars, NEW g \in Groups, Status(g) \notin Early \cup {"applying"}
  PROVE  groups'[g].journal = groups[g].journal
BY Onwards DEF Onward

(* What is locked stays there, and as it was found.                         *)
LEMMA HeldRowsStep ==
  ASSUME JournalInv, [Next]_vars
  PROVE  HeldRows'
<1>0. TypeInv /\ PlacesFit /\ Stages /\ Locks /\ HeldRows /\ RowsBegin
  BY DEF JournalInv, LockInv, TypeInv, Chronicle
<1> SUFFICES ASSUME NEW h \in Handlers, NEW r \in handler'[h].held
             PROVE  /\ rows'[r].exists
                    /\ handler'[h].pc = "lock_undo" => Untouched(handler[h].group, r)'
                                                        /\ Same(h)
  BY DEF HeldRows, At, Untouched, Same
<1>1. CASE handler'[h] = handler[h]
  <2> DEFINE g == handler[h].group
  <2>1. r \in handler[h].held /\ rows[r].exists /\ rows'[r] = rows[r]
    BY <1>1, HeldByOne
  <2>2. ASSUME At(h, "lock_undo") PROVE Untouched(g, r)'
    <3>1. g \in Groups /\ Status(g) \notin Early \cup {"applying"}
      BY <1>0, <2>2 DEF PlacesFit, Fits, ByPackage, Stages, Stage, At
    <3>2. groups'[g].journal = groups[g].journal
      BY <1>0, <3>1, JournalStays
    <3>3. Untouched(g, r)
      BY <1>0, <2>1, <2>2 DEF HeldRows
    <3>4. handler'[h].group = g
      BY <1>1
    <3> QED BY <2>1, <3>2, <3>3, <3>4 DEF Untouched
  <2> QED BY <1>1, <2>1, <2>2 DEF At, Same
<1>2. CASE Locking(h)
  <2>1. CASE r = NextRow(h)
    <3>1. ASSUME At(h, "steps") PROVE rows[r].exists
      <4>1. r \in Dates
        BY <1>0, <1>2, <2>1, <3>1, NextRowNeeded DEF Locking, Locks, LocksOf, TypeInv
      <4> QED BY <1>0, <4>1 DEF RowsBegin
    <3>2. rows[r].exists /\ (At(h, "lock_undo") => Untouched(handler[h].group, r))
      BY <1>2, <2>1, <3>1 DEF Locking, InTransaction, At, Untouched
    <3> QED BY <1>2, <3>2 DEF Locking, Same, Untouched, At
  <2>2. CASE r # NextRow(h)
    <3>1. r \in handler[h].held
      BY <1>2, <2>2 DEF Locking
    <3> QED BY <1>0, <1>2, <3>1 DEF Locking, Same, Untouched, At, HeldRows
  <2> QED BY <2>1, <2>2
<1>3. CASE Stepping(h)
  BY <1>0, <1>3 DEF Stepping, HeldRows
<1>4. CASE Outside(h) \/ Entering(h) \/ Undoing(h) \/ Writing(h)
  BY <1>4 DEF Outside, Entering, Undoing, Writing
<1> QED BY <1>0, <1>1, <1>2, <1>3, <1>4, Transacting DEF Transacts

(* What Applies changes: a row that is locked is there and gets a new       *)
(* version, and one that is not is there for the first time.                *)
LEMMA WrittenRows ==
  ASSUME JournalInv, NEW h \in Handlers, Applies(h),
         NEW r \in handler[h].held \cup Creates(handler[h].group)
  PROVE  /\ r \in Rows
         /\ ~rows[r].exists => r \in Creates(handler[h].group) /\ rows[r].version = 1
         /\ \A k \in Groups \ {handler[h].group} :
              r \in Creates(k) => Status(k) \notin Early \cup {"applying"}
<1>0. TypeOK /\ NotYetCreated /\ HeldRows /\ RowsBegin
  BY DEF JournalInv, LockInv, TypeInv, Chronicle
<1> DEFINE g == handler[h].group
<1>1. g \in Groups /\ Status(g) \in Early \cup {"applying"}
  BY DEF Applies, Early
<1>2. r \in Rows
  BY <1>0, <1>1, PackagesTyped DEF TypeOK, Handler, Rows
<1>3. CASE r \in handler[h].held
  BY <1>0, <1>2, <1>3 DEF HeldRows, NotYetCreated
<1>4. CASE r \in Creates(g)
  BY <1>0, <1>1, <1>2, <1>4, GroupsAssumption DEF RowsBegin, GroupsAssumption
<1> QED BY <1>3, <1>4

(* A version is never taken back.                                           *)
LEMMA VersionsGrow ==
  ASSUME JournalInv, [Next]_vars, NEW r \in Rows
  PROVE  rows[r].version \in Nat /\ rows[r].version <= rows'[r].version
<1>0. TypeInv
  BY DEF JournalInv, LockInv
<1>1. rows[r].version \in Nat
  BY <1>0 DEF TypeInv, TypeOK, RowType
<1>2. ASSUME NEW h \in Handlers, Applies(h), rows'[r] # rows[r]
      PROVE  rows[r].version <= rows'[r].version
  <2>1. /\ r \in handler[h].held \cup Creates(handler[h].group)
        /\ rows'[r].version = IF rows[r].exists THEN rows[r].version + 1 ELSE 1
    BY <1>2 DEF Applies
  <2>2. ~rows[r].exists => rows[r].version = 1
    BY <1>2, <2>1, WrittenRows
  <2> QED BY <1>1, <2>1, <2>2
<1>3. ASSUME NEW h \in Handlers, Undoes(h) \/ Writes(h), rows'[r] # rows[r]
      PROVE  rows[r].version <= rows'[r].version
  <2>1. rows'[r].version \in {rows[r].version, rows[r].version + 1}
    BY <1>3 DEF Undoes, Writes
  <2> QED BY <1>1, <2>1
<1> QED BY <1>0, <1>1, <1>2, <1>3, RowsChange

(* Dates are never taken away, and tasks to be created never touched.       *)
LEMMA RowsBeginStep ==
  ASSUME JournalInv, [Next]_vars
  PROVE  RowsBegin'
<1>0. /\ TypeInv /\ TypeOK /\ NotYetCreated /\ HeldRows /\ RowsBegin
      /\ \A g \in Groups : Status(g) \in InForce => JournalHolds(g)
  BY DEF JournalInv, LockInv, TypeInv, Chronicle
<1>1. ASSUME NEW d \in Dates PROVE rows'[d].exists
  <2>1. rows[d].exists /\ d \in Rows /\ d \notin Tasks
    BY <1>0, GroupsAssumption DEF RowsBegin, Rows, GroupsAssumption
  <2>2. ASSUME NEW h \in Handlers, Undoes(h) PROVE rows'[d].exists
    <3>1. ASSUME d \in handler[h].held
          PROVE  rows'[d].exists
      <4>1. PICK e \in groups[handler[h].group].journal :
              e.row = d /\ (~e.created => rows'[d].exists = rows[d].exists)
        BY <2>2, <3>1 DEF Undoes
      <4>2. ~e.created
        BY <1>0, <2>1, <2>2, <4>1 DEF Undoes, JournalHolds, InForce
      <4> QED BY <2>1, <4>1, <4>2
    <3> QED BY <2>1, <2>2, <3>1 DEF Undoes
  <2>3. ASSUME NEW h \in Handlers, Applies(h) \/ Writes(h) PROVE rows'[d].exists
    BY <2>1, <2>3 DEF Applies, Writes
  <2> QED BY <1>0, <2>1, <2>2, <2>3, RowsChange
<1>2. ASSUME NEW g \in Groups, Became(g) \in Early \cup {"applying"}, NEW r \in Creates(g)
      PROVE  rows'[r].version = 1
  <2>1. Status(g) \in Early \cup {"applying"} /\ r \in Rows
    BY <1>0, <1>2, Onwards, PackagesTyped DEF Onward, Rows
  <2>2. rows[r].version = 1 /\ \A h \in Handlers : r \notin handler[h].held
    BY <1>0, <2>1 DEF RowsBegin, NotYetCreated, HeldRows
  <2>3. ASSUME NEW h \in Handlers, Applies(h) PROVE rows'[r] = rows[r]
    <3>1. handler[h].group \in Groups /\ handler[h].group # g
      BY <1>2, <2>3 DEF Applies, Early
    <3>2. r \notin Creates(handler[h].group)
      BY <3>1, GroupsAssumption DEF GroupsAssumption
    <3> QED BY <2>1, <2>2, <2>3, <3>2 DEF Applies
  <2>4. ASSUME NEW h \in Handlers, Undoes(h) \/ Writes(h) PROVE rows'[r] = rows[r]
    BY <2>1, <2>2, <2>4 DEF Undoes, Writes
  <2> QED BY <1>0, <2>2, <2>3, <2>4, RowsChange
<1> QED BY <1>1, <1>2 DEF RowsBegin, Became, Status

(* What a package that takes effect writes down.                            *)
LEMMA LinesWritten ==
  ASSUME JournalInv, NEW h \in Handlers, Applies(h),
         NEW e \in groups'[handler[h].group].journal
  PROVE  /\ e.row \in handler[h].held \cup Creates(handler[h].group)
         /\ e.created = ~rows[e.row].exists /\ e.by = rows[e.row].by
         /\ e.post = rows'[e.row].version /\ rows'[e.row].by = handler[h].group
         /\ rows[e.row].exists => e.post = rows[e.row].version + 1
         /\ \A f \in groups'[handler[h].group].journal : e.row = f.row => e = f
BY DEF Applies

(* How a package comes to be in force, and stays so.                        *)
LEMMA InForceBefore ==
  ASSUME TypeInv, [Next]_vars, NEW g \in Groups, Became(g) \in InForce
  PROVE  \/ Status(g) \in InForce /\ groups'[g].journal = groups[g].journal
         \/ \E h \in Handlers : handler[h].group = g /\ Applies(h)
<1>1. Life(g)
  BY Lives
<1> QED BY <1>1 DEF Life, Marks, Begins, Undoes, InForce

(* A journal that is right stays right.                                     *)
LEMMA JournalHoldsStep ==
  ASSUME JournalInv, [Next]_vars, NEW g \in Groups, Became(g) \in InForce
  PROVE  JournalHolds(g)'
<1>0. /\ TypeInv /\ TypeOK /\ NotYetCreated /\ HeldRows
      /\ \A k \in Groups : Status(k) \in InForce => JournalHolds(k)
  BY DEF JournalInv, LockInv, TypeInv, Chronicle
<1>1. \A k \in Groups : Status(k) \notin Early \cup {"applying"}
        => Became(k) \notin Early \cup {"applying"}
  BY <1>0, Onwards DEF Onward
<1>2. CASE Status(g) \in InForce /\ groups'[g].journal = groups[g].journal
  <2>1. JournalHolds(g) /\ groups[g].journal \subseteq Event
    BY <1>0, <1>2 DEF TypeOK, GroupType
  <2>2. ASSUME NEW e \in groups[g].journal, rows'[e.row].exists,
               rows'[e.row].version = e.post
        PROVE  rows'[e.row].by = g
    <3> DEFINE r == e.row
    <3>1. /\ r \in Rows /\ rows[r].version \in Nat /\ e.post = rows[r].version
      <4>1. r \in Rows /\ e.post \in Nat /\ e.post <= rows[r].version
        BY <2>1 DEF JournalHolds, Event
      <4>2. rows[r].version \in Nat /\ rows[r].version <= rows'[r].version
        BY <4>1, VersionsGrow
      <4> QED BY <2>2, <4>1, <4>2
    <3>2. ASSUME NEW h \in Handlers, Applies(h) PROVE rows'[r] = rows[r]
      <4>1. CASE rows[r].exists
        BY <2>2, <3>1, <3>2, <4>1 DEF Applies
      <4>2. CASE ~rows[r].exists
        <5>1. r \notin Creates(handler[h].group)
          BY <2>1, <3>2 DEF JournalHolds, Applies, Early
        <5>2. r \notin handler[h].held
          BY <1>0, <4>2 DEF HeldRows
        <5> QED BY <3>1, <3>2, <5>1, <5>2 DEF Applies
      <4> QED BY <4>1, <4>2
    <3>3. ASSUME NEW h \in Handlers, Undoes(h) \/ Writes(h) PROVE rows'[r] = rows[r]
      <4>1. r \notin handler[h].held
        BY <2>2, <3>1, <3>3 DEF Undoes, Writes
      <4> QED BY <3>1, <3>3, <4>1 DEF Undoes, Writes
    <3>4. rows'[r] = rows[r]
      BY <1>0, <3>2, <3>3, RowsChange
    <3> QED BY <2>1, <2>2, <3>4 DEF JournalHolds
  <2>3. ASSUME NEW e \in groups[g].journal PROVE e.post <= rows'[e.row].version
    <3>1. e.row \in Rows /\ e.post \in Nat /\ e.post <= rows[e.row].version
      BY <2>1 DEF JournalHolds, Event
    <3>2. /\ rows[e.row].version \in Nat /\ rows[e.row].version <= rows'[e.row].version
          /\ rows'[e.row].version \in Nat
      BY <1>0, <3>1, VersionsGrow, TypeInductive DEF TypeInv, TypeOK, RowType
    <3> QED BY <3>1, <3>2
  <2>4. \A e \in groups[g].journal : \A k \in Groups :
          e.row \in Creates(k) => Became(k) \notin Early \cup {"applying"}
    BY <1>1, <2>1 DEF JournalHolds
  <2> QED BY <1>2, <2>1, <2>2, <2>3, <2>4 DEF JournalHolds, Became, Status
<1>3. ASSUME NEW h \in Handlers, handler[h].group = g, Applies(h)
      PROVE  JournalHolds(g)'
  <2>1. ASSUME NEW e \in groups'[g].journal
        PROVE  /\ \A f \in groups'[g].journal : e.row = f.row => e = f
               /\ e.created => e.row \in Tasks
               /\ e.post = rows'[e.row].version /\ rows'[e.row].by = g
               /\ \A k \in Groups : e.row \in Creates(k)
                     => Became(k) \notin Early \cup {"applying"}
    <3>1. /\ e.row \in handler[h].held \cup Creates(g)
          /\ e.created = ~rows[e.row].exists
          /\ e.post = rows'[e.row].version /\ rows'[e.row].by = g
          /\ \A f \in groups'[g].journal : e.row = f.row => e = f
      BY <1>3, <2>1, LinesWritten
    <3>2. /\ ~rows[e.row].exists => e.row \in Creates(g)
          /\ \A k \in Groups \ {g} :
               e.row \in Creates(k) => Status(k) \notin Early \cup {"applying"}
      BY <1>3, <3>1, WrittenRows
    <3>3. Creates(g) \subseteq Tasks
      BY PackagesTyped
    <3>4. Became(g) \notin Early \cup {"applying"}
      BY DEF InForce, Early
    <3> QED BY <1>1, <3>1, <3>2, <3>3, <3>4
  <2>2. ASSUME NEW e \in groups'[g].journal PROVE rows'[e.row].version <= rows'[e.row].version
    <3>1. rows'[e.row].version \in Nat
      BY <1>0, <2>2, TypeInductive DEF TypeInv, TypeOK, GroupType, Event, RowType
    <3> QED BY <3>1
  <2> QED BY <2>1, <2>2 DEF JournalHolds, Became, Status
<1> QED BY <1>0, <1>2, <1>3, InForceBefore

(* A package in force stays so, with its journal, until it is undone.       *)
LEMMA InForceLasts ==
  ASSUME JournalInv, [Next]_vars, NEW g \in Groups, Status(g) \in InForce
  PROVE  \/ Became(g) \in InForce /\ groups'[g].journal = groups[g].journal
         \/ \E h \in Handlers : handler[h].group = g /\ Undoes(h)
<1>0. TypeInv /\ PlacesFit /\ Confirmations
  BY DEF JournalInv, LockInv, TypeInv, Chronicle
<1>1. Life(g)
  BY <1>0, Lives
<1>2. ASSUME NEW h \in Handlers, handler[h].group = g, At(h, "expire") PROVE FALSE
  BY <1>0, <1>2 DEF PlacesFit, Fits, Confirmations, At
<1>3. ASSUME NEW h \in Handlers, handler[h].group = g, Applies(h) PROVE FALSE
  BY <1>3 DEF Applies, InForce
<1> QED BY <1>1, <1>2, <1>3 DEF Life, Marks, Begins, InForce, Early

(* An undo restores what its package wrote, each row from its one line.     *)
LEMMA UndoneRow ==
  ASSUME JournalInv, NEW h \in Handlers, Undoes(h), NEW f \in groups[handler[h].group].journal
  PROVE  /\ f.row \in handler[h].held /\ f.row \in Rows
         /\ rows[f.row].exists /\ rows[f.row].version = f.post
         /\ rows[f.row].by = handler[h].group
         /\ f.created => ~rows'[f.row].exists
         /\ ~f.created => /\ rows'[f.row].by = f.by
                          /\ rows'[f.row].version = f.post + 1
<1> DEFINE g == handler[h].group
<1>0. /\ TypeOK /\ UndoLocks /\ HeldRows
      /\ \A k \in Groups : Status(k) \in InForce => JournalHolds(k)
  BY DEF JournalInv, LockInv, TypeInv, Chronicle
<1>1. At(h, "lock_undo") /\ handler[h].want = {} /\ g \in Groups /\ JournalHolds(g)
  BY <1>0 DEF Undoes, InForce
<1>2. f.row \in handler[h].held /\ f.row \in Rows
  BY <1>0, <1>1 DEF UndoLocks, TypeOK, Handler
<1>3. rows[f.row].exists /\ rows[f.row].version = f.post
  BY <1>0, <1>1, <1>2 DEF HeldRows, Untouched
<1>4. rows[f.row].by = g
  BY <1>1, <1>3 DEF JournalHolds
<1>5. PICK e \in groups[g].journal :
        /\ e.row = f.row
        /\ e.created => ~rows'[f.row].exists
        /\ ~e.created => /\ rows'[f.row].by = e.by
                         /\ rows'[f.row].version = rows[f.row].version + 1
  BY <1>2 DEF Undoes
<1>6. e = f
  BY <1>1, <1>5 DEF JournalHolds
<1> QED BY <1>2, <1>3, <1>4, <1>5, <1>6

(* What an undo has locked is what its package wrote.                       *)
LEMMA UndoHolds ==
  ASSUME JournalInv, NEW h \in Handlers, Undoes(h), NEW r \in handler[h].held
  PROVE  \E f \in groups[handler[h].group].journal : f.row = r
BY DEF JournalInv, LockInv, TypeInv, UndoLocks, Undoes

(* A package's trace lasts until the package is undone.                     *)
LEMMA TraceLasts ==
  ASSUME JournalInv, [Next]_vars, NEW g \in Groups, NEW r, NEW v, WroteBefore(g, r, v),
         ~\E h \in Handlers : handler[h].group = g /\ Undoes(h)
  PROVE  /\ Became(g) \in InForce
         /\ \E f \in groups'[g].journal : f.row = r /\ f.post < v
BY InForceLasts DEF WroteBefore

(* Whose content a row has after a step.                                    *)
LEMMA RowTracesStep ==
  ASSUME JournalInv, [Next]_vars, NEW r \in Rows, NEW g \in Groups,
         rows'[r].exists, rows'[r].by = g
  PROVE  /\ Became(g) \in InForce
         /\ \E f \in groups'[g].journal : f.row = r /\ f.post < rows'[r].version + 1
<1>0. /\ TypeInv /\ TypeOK /\ Traces
      /\ \A k \in Groups : Status(k) \in InForce => JournalHolds(k)
  BY DEF JournalInv, LockInv, TypeInv, Chronicle
<1>1. CASE \E h \in Handlers : handler[h].group = g /\ Undoes(h)
  <2> PICK h \in Handlers : handler[h].group = g /\ Undoes(h)
    BY <1>1
  <2>1. Status(g) \in InForce /\ JournalHolds(g) /\ groups[g].journal \subseteq Event
    BY <1>0 DEF Undoes, InForce, TypeOK, GroupType
  <2>2. r \notin handler[h].held
    <3> SUFFICES ASSUME r \in handler[h].held PROVE FALSE
      OBVIOUS
    <3>1. PICK f \in groups[g].journal : f.row = r
      BY UndoHolds
    <3>2. ~f.created /\ f.by = g
      BY <3>1, UndoneRow
    <3>3. PICK e \in groups[g].journal : e.row = r /\ e.post < f.post
      BY <1>0, <2>1, <3>1, <3>2 DEF Traces, WroteBefore
    <3>4. e = f /\ f.post \in Nat
      BY <2>1, <3>1, <3>3 DEF JournalHolds, Event
    <3> QED BY <3>3, <3>4
  <2>3. rows'[r] = rows[r]
    BY <2>2 DEF Undoes
  <2>4. PICK f \in groups[g].journal : f.row = r
    BY <1>0, <2>3 DEF Traces, WroteBefore
  <2> QED BY <2>2, <2>4, UndoneRow
<1>2. CASE ~\E h \in Handlers : handler[h].group = g /\ Undoes(h)
  <2>1. CASE rows'[r] = rows[r]
    <3>1. WroteBefore(g, r, rows[r].version + 1)
      BY <1>0, <2>1 DEF Traces
    <3> QED BY <1>2, <2>1, <3>1, TraceLasts
  <2>2. ASSUME NEW h \in Handlers, Applies(h), rows'[r] # rows[r]
        PROVE  /\ Became(g) \in InForce
               /\ \E f \in groups'[g].journal : f.row = r /\ f.post < rows'[r].version + 1
    <3>1. handler[h].group = g /\ Became(g) \in InForce
      BY <2>2 DEF Applies, InForce
    <3>2. \E f \in groups'[g].journal : f.row = r /\ f.post = rows'[r].version
      <4> DEFINE line(i) == [row |-> i, created |-> ~rows[i].exists, open |-> rows[i].open,
                             by |-> rows[i].by, post |-> rows'[i].version]
      <4>1. PICK changed \in SUBSET Rows :
              /\ \A i \in Rows \ changed : rows'[i] = rows[i]
              /\ groups'[g].journal = {line(i) : i \in changed}
        BY <2>2, <3>1 DEF Applies
      <4>2. r \in changed
        BY <2>2, <4>1
      <4>3. line(r) \in groups'[g].journal
        BY <4>1, <4>2
      <4> QED BY <4>3
    <3>3. rows'[r].version \in Nat
      BY <1>0, TypeInductive DEF TypeInv, TypeOK, RowType
    <3> QED BY <3>1, <3>2, <3>3
  <2>3. ASSUME NEW h \in Handlers, Undoes(h), rows'[r] # rows[r]
        PROVE  /\ Became(g) \in InForce
               /\ \E f \in groups'[g].journal : f.row = r /\ f.post < rows'[r].version + 1
    <3> DEFINE k == handler[h].group
    <3>1. k \in Groups /\ Status(k) \in InForce /\ r \in handler[h].held
      BY <2>3 DEF Undoes, InForce
    <3>2. PICK e \in groups[k].journal : e.row = r
      BY <2>3, <3>1, UndoHolds
    <3>3. ~e.created /\ e.by = g /\ rows'[r].version = e.post + 1 /\ e.post \in Nat
      BY <1>0, <2>3, <3>1, <3>2, UndoneRow DEF TypeOK, GroupType, Event
    <3>4. WroteBefore(g, r, e.post)
      BY <1>0, <3>1, <3>2, <3>3 DEF Traces
    <3>5. Became(g) \in InForce /\ \E f \in groups'[g].journal : f.row = r /\ f.post < e.post
      BY <1>2, <3>4, TraceLasts
    <3>6. groups'[g].journal \subseteq Event
      BY <1>0, TypeInductive DEF TypeInv, TypeOK, GroupType
    <3> QED BY <3>3, <3>5, <3>6 DEF Event
  <2>4. ASSUME NEW h \in Handlers, Writes(h) PROVE rows'[r] = rows[r]
    BY <2>4, GroupsAssumption DEF Writes, GroupsAssumption
  <2> QED BY <1>0, <2>1, <2>2, <2>3, <2>4, RowsChange
<1> QED BY <1>1, <1>2

(* Whose content a journal would restore after a step.                      *)
LEMMA JournalTracesStep ==
  ASSUME JournalInv, [Next]_vars, NEW k \in Groups, NEW g \in Groups, Became(k) \in InForce,
         NEW e \in groups'[k].journal, ~e.created, e.by = g
  PROVE  /\ Became(g) \in InForce
         /\ \E f \in groups'[g].journal : f.row = e.row /\ f.post < e.post
<1>0. /\ TypeInv /\ TypeOK /\ Traces /\ HeldRows
      /\ \A i \in Groups : Status(i) \in InForce => JournalHolds(i)
  BY DEF JournalInv, LockInv, TypeInv, Chronicle
<1>1. WroteBefore(g, e.row, e.post) /\ ~\E h \in Handlers : handler[h].group = g /\ Undoes(h)
  <2>1. CASE Status(k) \in InForce /\ groups'[k].journal = groups[k].journal
    <3>1. WroteBefore(g, e.row, e.post)
      BY <1>0, <2>1 DEF Traces
    <3>2. ASSUME NEW h \in Handlers, handler[h].group = g, Undoes(h) PROVE FALSE
      <4>1. PICK f \in groups[g].journal : f.row = e.row /\ f.post < e.post
        BY <3>1 DEF WroteBefore
      <4>2. rows[e.row].version = f.post
        BY <3>2, <4>1, UndoneRow
      <4>3. e.post <= rows[e.row].version
        BY <1>0, <2>1 DEF JournalHolds
      <4>4. f.post \in Nat /\ e.post \in Nat
        BY <1>0, <2>1, <4>1 DEF TypeOK, GroupType, Event
      <4> QED BY <4>1, <4>2, <4>3, <4>4
    <3> QED BY <3>1, <3>2
  <2>2. ASSUME NEW h \in Handlers, handler[h].group = k, Applies(h)
        PROVE  /\ WroteBefore(g, e.row, e.post)
               /\ ~\E i \in Handlers : handler[i].group = g /\ Undoes(i)
    <3>1. /\ e.row \in handler[h].held \cup Creates(k) /\ rows[e.row].exists
          /\ rows[e.row].by = g /\ e.post = rows[e.row].version + 1
      BY <2>2, LinesWritten
    <3>2. e.row \in Rows
      BY <2>2, <3>1, WrittenRows
    <3>3. WroteBefore(g, e.row, e.post)
      BY <1>0, <3>1, <3>2 DEF Traces
    <3>4. ASSUME NEW i \in Handlers, handler[i].group = g, Undoes(i) PROVE FALSE
      BY <2>2, <3>4 DEF Applies, Undoes, OthersKept, Became, Status
    <3> QED BY <3>3, <3>4
  <2> QED BY <1>0, <2>1, <2>2, InForceBefore
<1> QED BY <1>1, TraceLasts

LEMMA TracesStep ==
  ASSUME JournalInv, [Next]_vars
  PROVE  Traces'
BY RowTracesStep, JournalTracesStep DEF Traces, WroteBefore, Became, Status
-----------------------------------------------------------------------------
(* Before the first request there is nothing to trace.                      *)
LEMMA JournalInit == Init => JournalInv
<1> SUFFICES ASSUME Init PROVE JournalInv
  OBVIOUS
<1>1. LockInv
  BY LockInit
<1>2. Confirmations /\ HeldRows
  BY DEF Init, Idle, Confirmations, HeldRows, At
<1>3. RowsBegin
  <2>1. ASSUME NEW d \in Dates PROVE rows[d].exists
    <3>1. \A g \in Groups : d \notin Creates(g)
      BY PackagesTyped, GroupsAssumption DEF GroupsAssumption
    <3> QED BY <3>1 DEF Init, Rows
  <2>2. ASSUME NEW g \in Groups, NEW r \in Creates(g) PROVE rows[r].version = 1
    BY PackagesTyped DEF Init, Rows
  <2> QED BY <2>1, <2>2 DEF RowsBegin
<1>4. \A g \in Groups : Status(g) \notin InForce
  BY DEF Init, Status, InForce
<1>5. Traces
  <2>1. \A r \in Rows : rows[r].by \notin Groups
    BY GroupsAssumption DEF Init, GroupsAssumption
  <2> QED BY <1>4, <2>1 DEF Traces
<1> QED BY <1>1, <1>2, <1>3, <1>4, <1>5 DEF JournalInv, Chronicle

(* What the journals say is kept by every step.                             *)
LEMMA JournalInductive == JournalInv /\ [Next]_vars => JournalInv'
<1> SUFFICES ASSUME JournalInv, [Next]_vars PROVE JournalInv'
  OBVIOUS
<1>1. LockInv'
  BY LockInductive DEF JournalInv
<1>2. Confirmations' /\ RowsBegin' /\ HeldRows' /\ Traces'
  BY ConfirmationsStep, RowsBeginStep, HeldRowsStep, TracesStep
<1>3. ASSUME NEW g \in Groups, Status(g)' \in InForce PROVE JournalHolds(g)'
  BY <1>3, JournalHoldsStep DEF Became, Status
<1> QED BY <1>1, <1>2, <1>3 DEF JournalInv, Chronicle

(* A package that is not applied, nor being undone, has left no mark on any *)
(* row, whatever raced: the confirmation, the expiry loop, boot's repair.   *)
THEOREM OutcomesAreHonest == Spec => []OutcomeIsHonest
<1>1. JournalInv => OutcomeIsHonest
  BY DEF JournalInv, Chronicle, Traces, WroteBefore, InForce, OutcomeIsHonest
<1> QED BY JournalInit, JournalInductive, <1>1, PTL DEF Spec

(* An undo never writes over what anybody did later, and leaves no row of   *)
(* its package behind (lockAndVerify, restoreGroup).                        *)
THEOREM UndoRestores == Spec => UndoLosesNothing
<1> DEFINE Restores ==
      \A g \in Groups : (Status(g) = "undoing" /\ Status(g)' = "undone")
        => \A r \in Rows :
             /\ rows'[r] # rows[r] => rows[r].by = g
             /\ rows'[r].exists => rows'[r].by # g
<1>1. JournalInv /\ [Next]_vars => Restores
  <2> SUFFICES ASSUME JournalInv, [Next]_vars, NEW g \in Groups, Status(g) = "undoing",
                      Became(g) = "undone", NEW r \in Rows
               PROVE  /\ rows'[r] # rows[r] => rows[r].by = g
                      /\ rows'[r].exists => rows'[r].by # g
    BY DEF Became, Status
  <2>1. PICK h \in Handlers : handler[h].group = g /\ Undoes(h)
    BY InForceLasts DEF InForce
  <2>2. ASSUME rows'[r] # rows[r] PROVE rows[r].by = g
    <3>1. r \in handler[h].held
      BY <2>1, <2>2 DEF Undoes
    <3>2. PICK f \in groups[g].journal : f.row = r
      BY <2>1, <3>1, UndoHolds
    <3> QED BY <2>1, <3>2, UndoneRow
  <2>3. ASSUME rows'[r].exists PROVE rows'[r].by # g
    BY <2>3, RowTracesStep DEF InForce
  <2> QED BY <2>2, <2>3
<1>2. JournalInv /\ [Next]_vars => [Restores]_vars
  BY <1>1
<1> QED BY JournalInit, JournalInductive, <1>2, PTL DEF Spec, UndoLosesNothing
=============================================================================
