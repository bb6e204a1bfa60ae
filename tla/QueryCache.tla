------------------------------ MODULE QueryCache ------------------------------
(***************************************************************************)
(* The web client's query cache and its writes (web/src/lib/query-cache.ts, *)
(* lib/query.tsx, ui/toast.tsx): one entry per page of a list, shared by   *)
(* every screen that shows it, reads that are shared and retried, taps     *)
(* that patch the entry before the request leaves and roll it back when    *)
(* the request fails, the refetch after a success and the Undo snackbar.   *)
(*                                                                         *)
(* A row is whether its box is ticked and the version the server gave it.  *)
(***************************************************************************)
EXTENDS Integers, FiniteSets

CONSTANTS
  Scenarios \* bound: the pages and their rows, what the screen allows, and what may happen

VARIABLES
  scenario,  \* [pages, overlap, versioned, answers, slots, and what may happen of each of Kinds]
  server,    \* [row -> what the server has]
  committed, \* [row -> every value the server has had]
  entries,   \* the cache
  watching,  \* is the screen with the list open
  reads,     \* the requests for a page
  writes,    \* the requests that change a row
  snackbar,  \* the group the snackbar offers to undo
  spent      \* how much of each bound is used

vars == <<scenario, server, committed, entries, watching, reads, writes, snackbar, spent>>

None == 0
NoData == [nothing |-> TRUE]
Kinds == {"taps", "faults", "chats", "undos", "races", "visits", "pulls"}
Retries == 2

Pages == DOMAIN scenario.pages
Rows == UNION {scenario.pages[p] : p \in Pages}
Slots == 1 .. scenario.slots
RowValue == [set: BOOLEAN, version: Nat]

(* The old object of a deleted entry lives on in the read that began with it. *)
Missing == [status |-> "loading", data |-> NoData, refreshing |-> FALSE]
NoRead == [step |-> "none", page |-> None, epoch |-> None, tries |-> 0,
           snap |-> NoData, kept |-> NoData]
NoWrite == [step |-> "none", kind |-> "none", row |-> None, set |-> FALSE, version |-> None,
            before |-> [p \in {} |-> Missing], answer |-> None]
NoOffer == [row |-> None, set |-> FALSE, version |-> None]
-----------------------------------------------------------------------------
Init ==
  /\ scenario \in Scenarios
  /\ server = [r \in Rows |-> [set |-> FALSE, version |-> 1]]
  /\ committed = [r \in Rows |-> {server[r]}]
  /\ entries = [p \in Pages |-> [there |-> FALSE, epoch |-> 0, flight |-> None, seen |-> Missing]]
  /\ watching = FALSE
  /\ reads = [i \in Slots |-> NoRead]
  /\ writes = [i \in Slots |-> NoWrite]
  /\ snackbar = NoOffer
  /\ spent = [kind \in Kinds |-> 0]

Spend(kind) == spent[kind] < scenario[kind] /\ spent' = [spent EXCEPT ![kind] = @ + 1]

HasData(seen) == seen.data # NoData
Shows(entry, row) == entry.there /\ HasData(entry.seen) /\ row \in DOMAIN entry.seen.data

(* ensure *)
Ensured(entry) ==
  IF entry.there THEN entry
  ELSE [there |-> TRUE, epoch |-> entry.epoch + 1, flight |-> None, seen |-> Missing]

(* write: what every watcher of the entry sees from now on. *)
Written(entry, seen) == [Ensured(entry) EXCEPT !.seen = seen]
Fetched(data) == [status |-> "success", data |-> data, refreshing |-> FALSE]
Loading(seen) == [status |-> IF HasData(seen) THEN "success" ELSE "loading",
                  data |-> seen.data, refreshing |-> TRUE]

(* load, for a set of pages, each in a slot of its own: a page that is being   *)
(* read is not read again, and one that has been is read again only by force.  *)
FreeSlots == {i \in Slots : reads[i].step = "none"}
Wants(table, pages, force) ==
  {p \in pages : LET e == Ensured(table[p])
                 IN e.flight = None /\ (force \/ e.seen.status # "success")}
Loads(table, pages, force) ==
  LET wanted == Wants(table, pages, force) IN
  \E slot \in [wanted -> FreeSlots] :
    /\ \A p, q \in wanted : p # q => slot[p] # slot[q]
    /\ entries' = [p \in Pages |->
         IF p \in wanted
         THEN [Written(table[p], Loading(Ensured(table[p]).seen)) EXCEPT !.flight = slot[p]]
         ELSE IF p \in pages THEN Ensured(table[p]) ELSE table[p]]
    /\ reads' = [i \in Slots |->
         IF \E p \in wanted : slot[p] = i
         THEN LET p == CHOOSE q \in wanted : slot[q] = i
              IN [NoRead EXCEPT !.step = "sent", !.page = p,
                                !.epoch = Ensured(table[p]).epoch]
         ELSE reads[i]]

(* invalidate: what nobody watches is dropped, the rest is read again. *)
Dropped(table) == [p \in Pages |-> [table[p] EXCEPT !.there = FALSE, !.flight = None,
                                                   !.seen = Missing]]
Orphaned(table) ==
  [i \in Slots |->
    IF reads[i].step # "none" /\ table[reads[i].page].there
         /\ table[reads[i].page].epoch = reads[i].epoch
    THEN [reads[i] EXCEPT !.kept = table[reads[i].page].seen.data] ELSE reads[i]]
Invalidates(table) ==
  IF watching
  THEN Loads(table, {p \in Pages : table[p].there}, TRUE)
  ELSE entries' = Dropped(table) /\ reads' = Orphaned(table)
-----------------------------------------------------------------------------
(* useQuery, useInfiniteQuery: the screen subscribes and asks. *)
Opens ==
  /\ ~watching /\ Spend("visits")
  /\ watching' = TRUE
  /\ Loads(entries, Pages, FALSE)
  /\ UNCHANGED <<scenario, server, committed, writes, snackbar>>

Leaves ==
  /\ watching
  /\ watching' = FALSE
  /\ UNCHANGED <<scenario, server, committed, entries, reads, writes, snackbar, spent>>

Refetches ==
  /\ watching /\ Spend("pulls")
  /\ Loads(entries, Pages, TRUE)
  /\ UNCHANGED <<scenario, server, committed, watching, writes, snackbar>>

ServerReads(i) ==
  /\ reads[i].step = "sent"
  /\ reads' = [reads EXCEPT ![i].step = "answered",
                            ![i].snap = [r \in scenario.pages[reads[i].page] |-> server[r]]]
  /\ UNCHANGED <<scenario, server, committed, entries, watching, writes, snackbar, spent>>

(* The answer is written under the key, whoever the entry belongs to by now. *)
Landed(entry, read, seen) ==
  LET e == Written(entry, seen)
  IN IF e.epoch = read.epoch THEN [e EXCEPT !.flight = None] ELSE e

ReadReturns(i) ==
  /\ reads[i].step = "answered"
  /\ entries' = [entries EXCEPT ![reads[i].page] = Landed(@, reads[i], Fetched(reads[i].snap))]
  /\ reads' = [reads EXCEPT ![i] = NoRead]
  /\ UNCHANGED <<scenario, server, committed, watching, writes, snackbar, spent>>

(* A read that fails is sent again, and the third failure is shown over the old data. *)
Own(entry, read) == entry.there /\ entry.epoch = read.epoch
FailedRead(entry, read) ==
  Landed(entry, read, [status |-> "error", refreshing |-> FALSE,
                       data |-> IF Own(entry, read) THEN entry.seen.data ELSE read.kept])

ReadFails(i) ==
  /\ reads[i].step \in {"sent", "answered"} /\ Spend("faults")
  /\ \/ /\ reads[i].tries < Retries
        /\ reads' = [reads EXCEPT ![i].step = "sent", ![i].tries = @ + 1, ![i].snap = NoData]
        /\ UNCHANGED entries
     \/ /\ entries' = [entries EXCEPT ![reads[i].page] = FailedRead(@, reads[i])]
        /\ reads' = [reads EXCEPT ![i] = NoRead]
  /\ UNCHANGED <<scenario, server, committed, watching, writes, snackbar>>
-----------------------------------------------------------------------------
(* patchEach, and the rollback it hands back: the whole entry as it stood. *)
Patched(entry, row, value) ==
  IF Shows(entry, row) THEN [entry EXCEPT !.seen.data[row] = value] ELSE entry
Snapshot(row) == [p \in {q \in Pages : Shows(entries[q], row)} |-> entries[p].seen]
RolledNowhere(before) == entries
RolledBack(before) ==
  [p \in Pages |-> IF p \in DOMAIN before THEN Written(entries[p], before[p]) ELSE entries[p]]

Busy == \E i \in Slots : writes[i].step # "none"
FreeWrite == {i \in Slots : writes[i].step = "none"}

(* The tick moves at the tap, and the server's own row takes its place. *)
Flipped(value) == [value EXCEPT !.set = ~@]
AnswerPut(w) == [p \in Pages |-> Patched(entries[p], w.row, w.answer)]

(* The screen of the day shuts its rows while a write is on its way; the week's *)
(* boxes stay open.                                                             *)
Taps(page, row) ==
  /\ watching /\ (scenario.overlap \/ ~Busy)
  /\ Shows(entries[page], row) /\ FreeWrite # {} /\ Spend("taps")
  /\ LET old == entries[page].seen.data[row]
         i == CHOOSE j \in FreeWrite : \A k \in FreeWrite : j <= k
     IN /\ entries' = [p \in Pages |->
                         Patched(entries[p], row, Flipped(old))]
        /\ writes' = [writes EXCEPT ![i] =
             [NoWrite EXCEPT !.step = "sent", !.kind = "tap", !.row = row, !.set = ~old.set,
                             !.version = old.version, !.before = Snapshot(row)]]
  /\ UNCHANGED <<scenario, server, committed, watching, reads, snackbar>>

(* The Undo button: no patch, the server is what reverses the group.  It is    *)
(* open while a tap is on its way, too: a race.                                *)
UndoTapped ==
  /\ snackbar # NoOffer /\ FreeWrite # {} /\ Spend(IF Busy THEN "races" ELSE "undos")
  /\ snackbar' = NoOffer
  /\ LET i == CHOOSE j \in FreeWrite : \A k \in FreeWrite : j <= k
     IN writes' = [writes EXCEPT ![i] =
          [NoWrite EXCEPT !.step = "sent", !.kind = "undo", !.row = snackbar.row,
                          !.set = snackbar.set, !.version = snackbar.version]]
  /\ UNCHANGED <<scenario, server, committed, entries, watching, reads>>

SnackbarFades ==
  /\ snackbar # NoOffer
  /\ snackbar' = NoOffer
  /\ UNCHANGED <<scenario, server, committed, entries, watching, reads, writes, spent>>

Commits(row, value) ==
  /\ server' = [server EXCEPT ![row] = value]
  /\ committed' = [committed EXCEPT ![row] = @ \cup {value}]

(* The server writes when the version is the one the screen showed. *)
ServerWrites(i) ==
  LET w == writes[i] IN
  /\ w.step = "sent"
  /\ IF w.version = server[w.row].version \/ ~scenario.versioned
     THEN LET value == [set |-> w.set, version |-> server[w.row].version + 1]
          IN /\ Commits(w.row, value)
             /\ writes' = [writes EXCEPT ![i].step = "written", ![i].answer = value]
     ELSE /\ writes' = [writes EXCEPT ![i].step = "refused"]
          /\ UNCHANGED <<server, committed>>
  /\ UNCHANGED <<scenario, entries, watching, reads, snackbar, spent>>

(* A success: the answer is put in place, or the lists are read again. *)
Offer(w) == IF w.kind = "tap" /\ scenario.undos + scenario.races > 0
            THEN [row |-> w.row, set |-> ~w.set, version |-> w.answer.version] ELSE NoOffer
Succeeds(i) ==
  LET w == writes[i] IN
  /\ w.step = "written"
  /\ writes' = [writes EXCEPT ![i] = NoWrite]
  /\ snackbar' = Offer(w)
  /\ IF w.kind = "tap" /\ scenario.answers
     THEN entries' = AnswerPut(w)
          /\ UNCHANGED reads
     ELSE Invalidates(entries)
  /\ UNCHANGED <<scenario, server, committed, watching, spent>>

(* A refusal, a request that never arrived or an answer that never came: the *)
(* entry goes back to what it was at the tap, and nothing is sent again.     *)
GivesUp(i) ==
  /\ writes' = [writes EXCEPT ![i] = NoWrite]
  /\ entries' = RolledBack(writes[i].before)
  /\ UNCHANGED <<scenario, server, committed, watching, reads, snackbar>>
Refused(i) == writes[i].step = "refused" /\ GivesUp(i) /\ UNCHANGED spent
Fails(i) == writes[i].step \in {"sent", "written"} /\ Spend("faults") /\ GivesUp(i)

(* The same task is changed from the chat. *)
ChatChanges(row) ==
  /\ Spend("chats")
  /\ Commits(row, [set |-> ~server[row].set, version |-> server[row].version + 1])
  /\ UNCHANGED <<scenario, entries, watching, reads, writes, snackbar>>

Next ==
  \/ Opens \/ Leaves \/ Refetches \/ UndoTapped \/ SnackbarFades
  \/ \E i \in Slots : \/ ServerReads(i) \/ ReadReturns(i) \/ ReadFails(i)
                      \/ ServerWrites(i) \/ Succeeds(i) \/ Refused(i) \/ Fails(i)
  \/ \E p \in Pages, r \in Rows : Taps(p, r)
  \/ \E r \in Rows : ChatChanges(r)

Spec == Init /\ [][Next]_vars
-----------------------------------------------------------------------------
TypeOK ==
  /\ scenario \in Scenarios
  /\ server \in [Rows -> RowValue]
  /\ watching \in BOOLEAN
  /\ \A p \in Pages : entries[p].flight \in Slots \cup {None}
  /\ \A i \in Slots : reads[i].step \in {"none", "sent", "answered"}
                      /\ writes[i].step \in {"none", "sent", "written", "refused"}

Quiet == ~Busy /\ \A i \in Slots : reads[i].step = "none"

(* A value shown is one the server gave, or a tap it has since made so. *)
WasSo(shown, values) ==
  \E value \in values :
    value.set = shown.set /\ value.version \in {shown.version, shown.version + 1}

(* When nothing is on its way, every row shown has been the server's at some   *)
(* moment, whatever failed, was refused, rolled back or came late; and a       *)
(* screen with nothing but a skeleton has a request on its way.  The rows are  *)
(* only honest with one write at a time (QueryCache.patchEach, load): see      *)
(* FlipsBack.                                                                  *)
RowsAreHonest ==
  Quiet => \A p \in Pages, r \in Rows :
    Shows(entries[p], r) => WasSo(entries[p].seen.data[r], committed[r])
ScreenIsHonest ==
  /\ ~scenario.overlap /\ spent["races"] = 0 => RowsAreHonest
  /\ watching => \A p \in Pages :
       entries[p].seen.status = "loading" => entries[p].flight # None

(* "A failed mutation calls it, so a row that could not be marked done flips   *)
(* back rather than lying until the next refetch", says the comment on the     *)
(* cache.  It does not where boxes may be tapped while another tap is on its   *)
(* way, nor where Undo is: the entry is dropped with the tap's patch on it, a  *)
(* read that began before keeps the old object, the tap fails, and the read    *)
(* that fails after it writes the patch back.                                  *)
FlipsBack == RowsAreHonest

(* "Endpoints whose cached entries are refetched after a success": once a tap  *)
(* has succeeded and nothing is on its way, and nobody else changed the row,   *)
(* the screen shows what the server has.                                       *)
RefetchedAfterSuccess ==
  Quiet /\ watching /\ spent["faults"] = 0 /\ spent["chats"] = 0 =>
    \A p \in Pages, r \in Rows :
      Shows(entries[p], r) => entries[p].seen.data[r] = server[r]
=============================================================================
