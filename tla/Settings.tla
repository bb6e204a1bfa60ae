------------------------------- MODULE Settings -------------------------------
(***************************************************************************)
(* One user's settings row and the three roads that write it: the app's    *)
(* settings screen (a checked, journalled PATCH, and two writes of it that  *)
(* are not journalled), the agent's journalled action with its Undo, and    *)
(* the deterministic handlers of the chat (onboarding, typed prompts,       *)
(* "quiet until morning"), which read the row and write it later without a  *)
(* check.  Beside the columns the row keeps the short-lived prompt that     *)
(* decides what the user's next message means.                              *)
(*                                                                         *)
(* Telegram handlers of one chat run one at a time; requests of the app and *)
(* confirmed actions run beside them.  A time of day, a window and a slot   *)
(* are members of small sets; a weekday and its time are one slot.          *)
(***************************************************************************)
EXTENDS Naturals, FiniteSets, Sequences

CONSTANTS
    Scenarios,   \* a set of Scenario, below
    MaxVersion   \* bound on the writes of one behaviour

VARIABLES
    scenario,
    row,       \* the user_settings row: version, columns, prompt, onboarded
    screen,    \* the row the app's screen shows, and what it was told last
    req,       \* the PATCH in flight
    agent,     \* the agent's resolved action that waits to be applied
    chat,      \* the handler of the user's chat that is running
    groups,    \* the journal: what each settings action found and left
    moved      \* how often the open prompt has already taken effect

vars == <<scenario, row, screen, req, agent, chat, groups, moved>>

Null == "null"
Zones == {"home", "away"}
Times == {"nine", "ten"}
Windows == {"night", "late"}
DefaultTime == "nine"
DefaultWindow == "night"
DefaultWeekend == "late"
DefaultSlot == "sunday"

SettingsRow ==
    [timezone: Zones, digestTimezone: Zones, quietHoursTimezone: Zones,
     pinnedLanguage: {Null, "ru", "en"}, quietHoursEnabled: BOOLEAN,
     weekdayQuiet: Windows, weekendQuiet: Windows,
     notificationsSnoozedUntil: {Null, "morning", "date"},
     morningReferenceTime: Times, morningDigestEnabled: BOOLEAN,
     weeklyReviewEnabled: BOOLEAN, weeklyReview: {DefaultSlot, "friday"},
     defaults: {"plain", "own"}]

Steps == {"digests", "quiet", "weekly"}
PendingInput == {Null, "timezone", "reason"} \cup Steps

\* Every way settings change, once its shape is accepted.
SettingsChange ==
    [operation: {"timezone"}, timezone: Zones,
     applyTo: {"keep", "digests", "quiet", "both", "profile_only", "all"}]
    \cup [operation: {"language"}, language: {Null, "ru", "en"}]
    \cup [operation: {"digest"}, enabled: BOOLEAN, time: {Null} \cup Times]
    \cup [operation: {"weekly_review"}, enabled: BOOLEAN,
          slot: {Null, DefaultSlot, "friday"}]
    \cup [operation: {"quiet_hours"}, enabled: BOOLEAN, weekday: {Null} \cup Windows,
          weekend: {Null} \cup Windows]
    \cup [operation: {"snooze"}, until: {Null, "morning", "date", "past"}]
    \cup [operation: {"reminder_defaults"}, value: {Null, "plain", "own"}]

Controls == {"switch", "schedule", "quiet", "timezone", "snooze", "language"}
Scenario ==
    [web: SUBSET Controls, agent: SUBSET SettingsChange, prompts: SUBSET PendingInput,
     texts: Nat, start: SettingsRow, taps: Nat, faults: Nat]

-----------------------------------------------------------------------------
(* The one patch builder of every change.                                  *)

\* A part of a change that was not given leaves its column alone.
Given(value, old) == IF value = Null THEN old ELSE value

buildSettingsPatch(columns, change, zone) ==
    CASE change.operation = "timezone" ->
           LET followed(old) == IF change.applyTo = "all" THEN change.timezone ELSE old
           IN [columns EXCEPT !.timezone = change.timezone,
                              !.digestTimezone = followed(@),
                              !.quietHoursTimezone = followed(@)]
      [] change.operation = "language" ->
           [columns EXCEPT !.pinnedLanguage = change.language]
      [] change.operation = "digest" ->
           [columns EXCEPT !.morningDigestEnabled = change.enabled,
                           !.digestTimezone = zone,
                           !.morningReferenceTime = Given(change.time, @)]
      [] change.operation = "weekly_review" ->
           [columns EXCEPT !.weeklyReviewEnabled = change.enabled,
                           !.digestTimezone = zone,
                           !.weeklyReview = Given(change.slot, @)]
      [] change.operation = "quiet_hours" /\ ~change.enabled ->
           [columns EXCEPT !.quietHoursEnabled = FALSE, !.quietHoursTimezone = zone]
      [] change.operation = "quiet_hours" /\ change.enabled ->
           [columns EXCEPT !.quietHoursEnabled = TRUE, !.quietHoursTimezone = zone,
                           !.weekdayQuiet = Given(change.weekday, @),
                           !.weekendQuiet = Given(change.weekend,
                                                  Given(change.weekday, @))]
      [] change.operation = "snooze" ->
           [columns EXCEPT !.notificationsSnoozedUntil = change.until]
      [] change.operation = "reminder_defaults" ->
           [columns EXCEPT !.defaults = change.value]

validateSettingsActionShape(change) ==
    change.operation = "reminder_defaults" => change.value # Null

\* What the domain refuses about an action whose shape the contract accepts.
validateSettingsAction(change) ==
    /\ change.operation = "weekly_review" /\ change.enabled => change.slot # Null
    /\ change.operation = "quiet_hours" /\ change.enabled => change.weekday # Null
    /\ change.operation = "snooze" => change.until # "past"
    /\ change.operation = "reminder_defaults" => change.value # Null

digest(enabled, time) ==
    [operation |-> "digest", enabled |-> enabled, time |-> time]
weekly(enabled, slot) ==
    [operation |-> "weekly_review", enabled |-> enabled, slot |-> slot]
quiet(enabled, weekday, weekend) ==
    [operation |-> "quiet_hours", enabled |-> enabled,
     weekday |-> weekday, weekend |-> weekend]
zoned(zone, applyTo) ==
    [operation |-> "timezone", timezone |-> zone, applyTo |-> applyTo]
snooze(until) == [operation |-> "snooze", until |-> until]

\* What one answer of the onboarding writes.
PresetOf(step, on) ==
    CASE step = "digests" -> digest(on, DefaultTime)
      [] step = "quiet" -> IF on THEN quiet(TRUE, DefaultWindow, DefaultWeekend)
                                 ELSE quiet(FALSE, Null, Null)
      [] step = "weekly" -> weekly(on, DefaultSlot)

-----------------------------------------------------------------------------
(* What the screen's own controls send, read from the row it shows.        *)

Switches(s) ==
    {digest(~s.morningDigestEnabled, Null), weekly(~s.weeklyReviewEnabled, Null),
     IF s.quietHoursEnabled THEN quiet(FALSE, Null, Null)
                            ELSE quiet(TRUE, s.weekdayQuiet, s.weekendQuiet)}
ScheduleSheets(s) ==
    {digest(TRUE, time) : time \in IF s.morningDigestEnabled THEN Times ELSE {}}
    \cup {weekly(TRUE, slot) : slot \in IF s.weeklyReviewEnabled
                                          THEN {"friday"} ELSE {}}
    \cup {[operation |-> "reminder_defaults", value |-> "own"]}
QuietHoursSheet(s) ==
    IF s.quietHoursEnabled
      THEN {quiet(TRUE, w, e) : w \in Windows, e \in Windows \cup {Null}}
      ELSE {}
TimezoneSheet(s) ==
    {zoned(zone, to) : zone \in Zones, to \in {"keep", "digests", "quiet", "both"}}
SnoozeRow(s) ==
    {IF s.notificationsSnoozedUntil = Null THEN snooze("morning") ELSE snooze(Null)}
LanguageSheet(s) ==
    {[operation |-> "language", language |-> l] : l \in {Null, "ru", "en"}}

ControlsOf(kind, s) ==
    CASE kind = "switch" -> Switches(s)
      [] kind = "schedule" -> ScheduleSheets(s)
      [] kind = "quiet" -> QuietHoursSheet(s)
      [] kind = "timezone" -> TimezoneSheet(s)
      [] kind = "snooze" -> SnoozeRow(s)
      [] kind = "language" -> LanguageSheet(s)

\* The plan of a PATCH: the action, and the copy of the zone behind it.
planSettingsChange(change) ==
    IF change.operation = "timezone"
      THEN [kind |-> "action",
            action |-> zoned(change.timezone, IF change.applyTo = "both"
                                                THEN "all" ELSE "profile_only"),
            copy |-> IF change.applyTo \in {"digests", "quiet"}
                       THEN change.applyTo ELSE Null]
      ELSE [kind |-> IF change = snooze("morning")
                       THEN "snooze_until_morning" ELSE "action",
            action |-> change, copy |-> Null]

CopyOf(columns, target, zone) ==
    IF target = "digests" THEN [columns EXCEPT !.digestTimezone = zone]
                          ELSE [columns EXCEPT !.quietHoursTimezone = zone]

-----------------------------------------------------------------------------
NoReq == [pc |-> "none"]
NoAgent == [pc |-> "none"]
Idle == [pc |-> "idle"]

Init ==
    /\ scenario \in Scenarios
    /\ row = [version |-> 1, columns |-> scenario.start,
              pendingInput |-> Null, onboarded |-> FALSE]
    /\ screen = [version |-> 1, columns |-> scenario.start, undo |-> 0,
                 conflict |-> FALSE, refused |-> FALSE, taps |-> scenario.taps]
    /\ req = NoReq /\ agent = NoAgent
    /\ chat = [pc |-> "idle", texts |-> scenario.texts, faults |-> scenario.faults]
    /\ groups = << >>
    /\ moved = 0

\* One write, one version: what every checked write of the row relies on.
applyPatchUnversioned(r, patched) == [r EXCEPT !.columns = patched]
applyPatch(r, patched) == [r EXCEPT !.columns = patched, !.version = @ + 1]
Room == row.version < MaxVersion

updateSettingsInTx(change) ==
    LET after == applyPatch(row, buildSettingsPatch(row.columns, change,
                                                    row.columns.timezone))
    IN /\ row' = after
       /\ groups' = Append(groups, [before |-> row.columns, after |-> after.columns,
                                    post |-> after.version, status |-> "applied"])

-----------------------------------------------------------------------------
(* The app: one PATCH at a time, the version of the row it shows with it.  *)

Save(change) ==
    /\ req.pc = "none" /\ screen.taps > 0
    /\ screen' = [screen EXCEPT !.taps = @ - 1, !.conflict = FALSE,
                                !.refused = FALSE]
    /\ req' = [pc |-> "sent", expected |-> screen.version, change |-> change]
    /\ UNCHANGED <<scenario, row, agent, chat, groups, moved>>

Tap == \E kind \in scenario.web : \E change \in ControlsOf(kind, screen.columns) :
          Save(change)

Answered(s, refused) ==
    [s EXCEPT !.conflict = ~refused, !.refused = refused]

Guard ==
    /\ req.pc = "sent"
    /\ IF req.expected # row.version
         THEN req' = NoReq /\ screen' = Answered(screen, FALSE)
         ELSE /\ req' = [pc |-> "planned", expected |-> row.version,
                         plan |-> planSettingsChange(req.change)]
              /\ UNCHANGED screen
    /\ UNCHANGED <<scenario, row, agent, chat, groups, moved>>

\* "Until morning" is written by the service, unjournalled and unchecked.
WriteMorning ==
    /\ req.pc = "planned" /\ req.plan.kind = "snooze_until_morning" /\ Room
    /\ row' = applyPatch(row, buildSettingsPatch(row.columns, req.plan.action, Null))
    /\ req' = [pc |-> "answer", group |-> 0]
    /\ UNCHANGED <<scenario, screen, agent, chat, groups, moved>>

ApplyPlan ==
    /\ req.pc = "planned" /\ req.plan.kind = "action" /\ Room
    /\ CASE row.version # req.expected ->
              /\ req' = NoReq /\ screen' = Answered(screen, FALSE)
              /\ UNCHANGED <<row, groups>>
         [] row.version = req.expected
              /\ ~validateSettingsAction(req.plan.action) ->
              /\ req' = NoReq /\ screen' = Answered(screen, TRUE)
              /\ UNCHANGED <<row, groups>>
         [] OTHER ->
              /\ updateSettingsInTx(req.plan.action)
              /\ req' = IF req.plan.copy = Null
                          THEN [pc |-> "answer", group |-> Len(groups) + 1]
                          ELSE [pc |-> "copy", target |-> req.plan.copy]
              /\ UNCHANGED screen
    /\ UNCHANGED <<scenario, agent, chat, moved>>

ReadZone ==
    /\ req.pc = "copy"
    /\ req' = [pc |-> "copying", target |-> req.target,
               zone |-> row.columns.timezone]
    /\ UNCHANGED <<scenario, row, screen, agent, chat, groups, moved>>

copyProfileTimezone ==
    /\ req.pc = "copying" /\ Room
    /\ row' = applyPatch(row, CopyOf(row.columns, req.target, req.zone))
    /\ req' = [pc |-> "answer", group |-> 0]
    /\ UNCHANGED <<scenario, screen, agent, chat, groups, moved>>

\* The answer is the whole row, read after the write.
Answer ==
    /\ req.pc = "answer"
    /\ screen' = [screen EXCEPT !.version = row.version, !.columns = row.columns,
                                !.undo = req.group]
    /\ req' = NoReq
    /\ UNCHANGED <<scenario, row, agent, chat, groups, moved>>

Reload ==
    /\ req.pc = "none" /\ screen.version # row.version
    /\ screen' = [screen EXCEPT !.version = row.version, !.columns = row.columns,
                                !.conflict = FALSE]
    /\ UNCHANGED <<scenario, row, req, agent, chat, groups, moved>>

\* The process stops, or the answer is lost: the screen keeps what it had.
LoseRequest ==
    /\ req.pc # "none" /\ chat.faults > 0
    /\ req' = NoReq
    /\ chat' = [chat EXCEPT !.faults = @ - 1]
    /\ UNCHANGED <<scenario, row, screen, agent, groups, moved>>

-----------------------------------------------------------------------------
(* The agent's action: resolved at one version, applied at that version.   *)

Resolve(change) ==
    /\ agent.pc = "none" /\ change \in scenario.agent
    /\ agent' = [pc |-> "resolved", change |-> change, expected |-> row.version]
    /\ UNCHANGED <<scenario, row, screen, req, chat, groups, moved>>

ApplyResolved ==
    /\ agent.pc = "resolved" /\ Room
    /\ agent' = [pc |-> "done"]
    /\ IF row.version = agent.expected /\ validateSettingsAction(agent.change)
         THEN updateSettingsInTx(agent.change)
         ELSE UNCHANGED <<row, groups>>
    /\ UNCHANGED <<scenario, screen, req, chat, moved>>

\* Undo puts every column back, when the row is still the group's.
Restorable(g) == g.status = "applied" /\ row.version = g.post

UndoGroup(i) ==
    /\ Room /\ Restorable(groups[i])
    /\ row' = [row EXCEPT !.columns = groups[i].before, !.version = @ + 1]
    /\ groups' = [groups EXCEPT ![i].status = "undone"]
    /\ UNCHANGED <<scenario, screen, req, agent, chat, moved>>

-----------------------------------------------------------------------------
(* The chat: one handler at a time.  chat.then is what follows the write.  *)

\* What the handler does next, of the prompt it answers.
Then(pc, typed) == chat' = [pc |-> pc, prompt |-> chat.prompt, typed |-> typed,
                            texts |-> chat.texts, faults |-> chat.faults]
ThenWrite(change) ==
    chat' = [pc |-> "write", prompt |-> chat.prompt, typed |-> chat.typed,
             zone |-> row.columns.timezone, change |-> change,
             texts |-> chat.texts, faults |-> chat.faults]
Failed(faults) == chat' = [pc |-> "failed", prompt |-> chat.prompt,
                           texts |-> chat.texts, faults |-> faults]
Idled(faults) == chat' = [pc |-> "idle", texts |-> chat.texts, faults |-> faults]
Done == Idled(chat.faults)

setPendingInput(input) ==
    /\ row' = [row EXCEPT !.pendingInput = input]
    /\ moved' = 0

\* A button of a card opens a prompt, whatever prompt was open before.
OpenPrompt(input) ==
    /\ chat.pc = "idle" /\ chat.texts > 0 /\ input \in scenario.prompts
    /\ setPendingInput(input)
    /\ chat' = [chat EXCEPT !.texts = @ - 1]
    /\ UNCHANGED <<scenario, screen, req, agent, groups>>

Cancel ==
    /\ chat.pc = "idle" /\ chat.texts > 0 /\ row.pendingInput # Null
    /\ setPendingInput(Null)
    /\ chat' = [chat EXCEPT !.texts = @ - 1]
    /\ UNCHANGED <<scenario, screen, req, agent, groups>>

\* Read and clear in one transaction; the answer is then handled.
Text(answer) ==
    /\ chat.pc = "idle" /\ chat.texts > 0 /\ row.pendingInput # Null
    /\ row' = [row EXCEPT !.pendingInput = Null]
    /\ chat' = [pc |-> "handle", prompt |-> row.pendingInput, answer |-> answer,
                typed |-> TRUE, texts |-> chat.texts - 1, faults |-> chat.faults]
    /\ UNCHANGED <<scenario, screen, req, agent, groups, moved>>

\* The same answers as buttons, which an old message may still carry.
Button(step, answer) ==
    /\ chat.pc = "idle" /\ chat.texts > 0 /\ step \in scenario.prompts
    /\ chat' = [pc |-> "handle", prompt |-> step, answer |-> answer,
                typed |-> FALSE, texts |-> chat.texts - 1, faults |-> chat.faults]
    /\ UNCHANGED <<scenario, row, screen, req, agent, groups, moved>>

UntilMorning ==
    /\ chat.pc = "idle" /\ chat.texts > 0
    /\ chat' = [pc |-> "write", prompt |-> Null, typed |-> FALSE, zone |-> Null,
                change |-> snooze("morning"),
                texts |-> chat.texts - 1, faults |-> chat.faults]
    /\ UNCHANGED <<scenario, row, screen, req, agent, groups, moved>>

\* The service reads the row for its zone, and writes later.
applyTypedTimezone ==
    /\ chat.pc = "handle" /\ chat.prompt = "timezone"
    /\ IF chat.answer = "unclear"
         THEN setPendingInput(chat.prompt) /\ Then("reply", TRUE)
         ELSE /\ ThenWrite(zoned("away", "all"))
              /\ UNCHANGED <<row, moved>>
    /\ UNCHANGED <<scenario, screen, req, agent, groups>>

applyTypedStep ==
    /\ chat.pc = "handle" /\ chat.prompt \in Steps
    /\ IF chat.answer = "unclear"
         THEN setPendingInput(chat.prompt) /\ Then("reply", chat.typed)
         ELSE /\ ThenWrite(PresetOf(chat.prompt, chat.answer = "yes"))
              /\ UNCHANGED <<row, moved>>
    /\ UNCHANGED <<scenario, screen, req, agent, groups>>

serviceApply ==
    /\ chat.pc = "write" /\ Room
    /\ row' = applyPatch(row, buildSettingsPatch(row.columns, chat.change, chat.zone))
    /\ Then("advance", chat.typed)
    /\ UNCHANGED <<scenario, screen, req, agent, groups, moved>>

NextStep(prompt) ==
    CASE prompt = "timezone" -> "digests"
      [] prompt = "digests" -> "quiet"
      [] prompt = "quiet" -> "weekly"
      [] OTHER -> Null

\* The next question, and the prompt that hears a typed answer to it.
advance ==
    /\ chat.pc = "advance"
    /\ IF chat.prompt \in Steps \cup {"timezone"}
         THEN /\ row' = [row EXCEPT !.pendingInput = NextStep(chat.prompt),
                                    !.onboarded = @ \/ chat.prompt = "weekly"]
              /\ moved' = 0
         ELSE UNCHANGED <<row, moved>>
    /\ Then("reply", chat.typed)
    /\ UNCHANGED <<scenario, screen, req, agent, groups>>

\* The answer moves the date: what the prompt of a reschedule is for.
applyReschedule ==
    /\ chat.pc = "handle" /\ chat.prompt = "reason"
    /\ IF chat.answer = "unclear"
         THEN Failed(chat.faults) /\ UNCHANGED moved
         ELSE moved' = moved + 1 /\ Then("reply", TRUE)
    /\ UNCHANGED <<scenario, row, screen, req, agent, groups>>

Reply ==
    /\ chat.pc = "reply"
    /\ Done
    /\ UNCHANGED <<scenario, row, screen, req, agent, groups, moved>>

ReplyFails ==
    /\ chat.pc = "reply" /\ chat.faults > 0
    /\ IF chat.typed THEN Failed(chat.faults - 1) ELSE Idled(chat.faults - 1)
    /\ UNCHANGED <<scenario, row, screen, req, agent, groups, moved>>

\* After an error most prompts are put back, whatever the handler had done.
PutBack ==
    /\ chat.pc = "failed"
    /\ row' = IF chat.prompt = "timezone"
                THEN row ELSE [row EXCEPT !.pendingInput = chat.prompt]
    /\ Done
    /\ UNCHANGED <<scenario, screen, req, agent, groups, moved>>

StopHandler ==
    /\ chat.pc # "idle" /\ chat.faults > 0
    /\ Idled(chat.faults - 1)
    /\ UNCHANGED <<scenario, row, screen, req, agent, groups, moved>>

Answers == {"yes", "no", "unclear"}

Chat ==
    \/ \E input \in PendingInput \ {Null} : OpenPrompt(input)
    \/ Cancel
    \/ \E answer \in Answers : Text(answer)
    \/ \E step \in Steps \cup {"timezone"}, answer \in {"yes", "no"} :
         Button(step, answer)
    \/ UntilMorning \/ applyTypedTimezone \/ applyTypedStep \/ serviceApply
    \/ advance \/ applyReschedule \/ Reply \/ ReplyFails \/ PutBack \/ StopHandler

Web ==
    \/ Tap \/ Guard \/ WriteMorning \/ ApplyPlan \/ ReadZone
    \/ copyProfileTimezone \/ Answer \/ Reload \/ LoseRequest

Agent ==
    \/ \E change \in scenario.agent : Resolve(change)
    \/ ApplyResolved
    \/ \E i \in DOMAIN groups : UndoGroup(i)

Next == Chat \/ Web \/ Agent

Spec == Init /\ [][Next]_vars

-----------------------------------------------------------------------------
(* Types: the columns are always ones the row may hold, the journal's      *)
(* versions are versions the row has had, a prompt is one the code writes. *)
TypeOK ==
    /\ scenario \in Scenarios
    /\ row.version \in 1..MaxVersion
    /\ row.columns \in SettingsRow /\ screen.columns \in SettingsRow
    /\ row.pendingInput \in PendingInput /\ row.onboarded \in BOOLEAN
    /\ screen.version \in 1..row.version
    /\ \A i \in DOMAIN groups :
         /\ groups[i].before \in SettingsRow /\ groups[i].after \in SettingsRow
         /\ groups[i].post \in 2..row.version
         /\ groups[i].status \in {"applied", "undone"}
    /\ req.pc \in {"none", "sent", "planned", "copy", "copying", "answer"}
    /\ chat.pc \in {"idle", "handle", "write", "advance", "reply", "failed"}
    /\ moved \in Nat

(* An undo takes back its own change and nobody else's: it happens only     *)
(* while every column is still what the group left, so a switch of the app, *)
(* an answer to the onboarding or a copied zone written since is never      *)
(* reverted with it (action-group.repository.ts, the settings restore).     *)
OwnUndo ==
    \A i \in DOMAIN groups :
      (groups[i].status = "applied" /\ groups'[i].status = "undone")
        => row.columns = groups[i].after
UndoRevertsOnlyItsOwn == [][OwnUndo]_vars

(* Every control of the screen does something: what the screen's own        *)
(* switches and sheets send is never refused as an illegal change           *)
(* (settings-screen.tsx: everything that is on or off is a switch).         *)
SwitchesWork == ~screen.refused

(* A prompt takes effect once: the answer to one prompt of a reschedule     *)
(* moves the date one time (settings.repository.ts: answered exactly once). *)
PromptIsAnsweredOnce == moved <= 1
=============================================================================
