# Verification of ipsycho

TLA+ models of the parts of ipsycho that are hard to test, the TLC runs that check
them on small instances, and theorems about them that TLAPS checks for every value
of the constants. Paths below are relative to the repository (`src/...` is the
server, `web/...` the client); `PROJECT.json` maps every definition to the lines
it models.

## 1. The system

ipsycho is one Node process (NestJS) that talks to its users through a Telegram bot
and a small web client, keeps everything in PostgreSQL, and runs delayed work through
pg-boss, a job queue in the same database. It plans reminders for tasks, sends a
morning digest, and lets a language model propose changes that the user confirms and
may undo.

| Component | State | Operations | Interacts with | What makes it correct |
|---|---|---|---|---|
| Notification policy and planning (`core/reminder-planning.ts`, `quiet-hours.ts`) | none: a pure function of a contact and the clock | `applyNotificationPolicy`, `planReminders` | called when a plan is made and again by every delivery | quiet hours and the event's end are respected; planning and delivery agree; what the user asked for is not displaced |
| Reminder delivery (`reminders/reminder-queue.service.ts`) | `reminder_deliveries` rows; jobs of the queue | `deliver`, `reconcile` (sweep, every minute), bootstrap, `scheduleNextCriticalEscalation`, `recordSendFailure` | reads occurrence, account and settings; waits for the digest of its slot; Telegram | a row makes one contact; contacts are about what is still open; final rows stay final; nothing pending is forgotten; an escalation neither stops nor forks |
| Reminder scheduling and rebuild (`reminder-scheduling.service.ts`, `reminder-rebuild.service.ts`) | rules, reviews, `needsReminderRebuild` | `rebuildOccurrence`, `rebuildFuzzyTask`, `muteDefaultReminders`, `cancelUpcoming`, follow-ups, the retry loop | called after every committed edit; enqueues | one plan per date, of its current version; one contact about a task without a date; a lost rebuild is repeated |
| Digest delivery (`briefings/*.service.ts`) | `briefing_deliveries` rows; jobs | reconciliation pass (every 15 minutes), `deliver`, bootstrap | settings, account; reminders of its slot look at its rows | one card per day and hour; none long after its hour; today's card is dealt with today |
| Action groups (`actions/actions.service.ts`, `action-group.repository.ts`) | `action_groups`, `actions` with before/after journals | propose, confirm, cancel, apply, undo, expiry, boot recovery | changes every other table; asks for rebuilds | applied once, all or nothing; undo only if nothing changed since, and restores what was |
| Action mutations (`action-mutations.repository.ts`) | tasks, occurrences, rules, settings with versions | one function per kind of action | inside the group's transaction | versions grow with each change; rows of an old plan leave the queue with the change |
| Tasks, series, occurrences (`tasks/*.service.ts`, `core/lifecycle.ts`, `series-policy.ts`) | tasks with a series revision, occurrences | pause, resume, edit, cancel a series; refill (every six hours and after a change); overdue and missed transitions | rebuilds for what it creates | dates of the current rule and no other; none of a stopped series; none missing |
| Recurrence and local time (`core/recurrence.ts`, `local-schedule.ts`, `timezone.ts`) | none | compile a request, project a series, move a date or a series | mutations, refill, the app's when-editor | one date per day of the rule, at its local hour through a change of clocks |
| Task lists and the week (`core/task-list-view.ts`, `week-plan.ts`) | the week's marks | tabs, badges, pages, the morning card; pick, release, take today | chat, app and digests show the same rows | nothing unclosed falls between the lists; a tap does what it says, whatever another device did |
| Accounts (`access/access.service.ts`, `cli.ts`, consents, voice) | users, invites, deletion date, consents | invite, disable, request and cancel deletion, finalise, grant and revoke | suppresses and revives delivery rows | no contact with a disabled account; nothing deleted or sent out unasked; an invite is spent once |
| Chat turns and AI retry (`chat/*.service.ts`, `messages/*`, `telegram-updates.repository.ts`) | `messages` with status and attempts, the ledger of updates | turn, typed confirmation, retry loop, `/retry_ai`, consent replay, `/clear` | AI providers, action groups | a text has one effect at most; who was promised a retry gets an answer |
| Topics (`context/context.repository.ts`, `core/context-policy.ts`) | `conversation_topics` | open, continue, pause, resolve, scrub, end | the context of a turn | one topic is open |
| Goals and memory (`context/context-actions.repository.ts`, `api/goals`, `api/memory`) | goals, links, facts with versions | actions of the same groups, writes of screens | action groups | an undo is exact; a screen's write lands on what it showed |
| Settings (`settings/*`, `core/settings-change.ts`, onboarding) | `user_settings` row with version and an open prompt | PATCH of the app, journalled action with undo, onboarding, typed prompts | digests, quiet hours | an undo takes back its own change; the row stays one it may hold |
| HTTP requests (`api/auth/*`, `api/http/*`, `web/api/client.ts`) | rate-limit windows | limit, authenticate, handle, answer | every screen | limits hold in every window; a refusal says what it is |
| Web client (`web/src`) | query cache, history of the browser, sheets, drafts | read, tap, roll back, undo; push, back, open and close | HTTP API | what is shown was so or is being asked; a tap is about what was shown; back leads home |
| Runtime (`runtime/*`, `queue/job-queue.service.ts`) | advisory lock, timers, queues | acquire, verify, tick, ensureQueue | everything periodic | one instance; ticks of a loop never overlap |
| Card and list wording, keyboards, AI prompts and contract, observability, migrations | none of their own | read or format | — | out of scope: data and layout |

What is hard here: five handlers of one queue run concurrently and every `await` is a point where
anything else may happen; the same row may be named by several jobs; edits by users, account
changes, undo and boot write the same rows; the process may die between any two statements; Telegram
may answer 429, refuse, fail or not answer at all; and the moment at which a contact is judged is
not the moment at which it was planned. A rebuild, a refill and a turn read first and write later,
outside the transaction that read; the app shows rows that the chat and the loops change under it,
several of its requests are on their way at a time, and their answers come back in any order; a
series crosses a change of clocks. The list `hazards` of `PROJECT.json` gives each at its line.

## 2. Modules

```
NotificationPolicy         the policy, pure
  ReminderPlanning         planReminders and the life of a plan
    ReminderPlanningProofs
    MCReminderPlanning     PlanningPolicy.cfg
  ReminderDelivery         INSTANCEs the policy: workers, queue, sweep, boot, edits
    ReminderDeliveryProofs
    MCReminderDelivery     DeliverySafety.cfg, FindingRateLimitedDropped.cfg
BriefingDelivery           digest: the pass, workers, boot, settings
  BriefingDeliveryProofs
  MCBriefingDelivery       BriefingSafety.cfg, FindingAmbiguousResent.cfg
ActionGroups               cards, applies, undos, expiry, boot repair, row locks
  ActionGroupsProofs
  MCActionGroups           GroupsSafety.cfg
TurnContract               abstract: one effect per text
ChatTurns                  implements TurnContract
  Dialogue                 EXTENDS it, INSTANCEs Topics, Settings, Accounts and
                           GoalsAndMemory
    DialogueProofs
    MCDialogue             Dialogue.cfg
MCLoops                    LoopsDrain.cfg: ReminderDelivery, BriefingDelivery,
                           ActionGroups, ChatTurns under fairness
TaskSeries                 a series, its refill, changes and undos
  TaskLife                 composes it with the two below
    TaskLifeProofs         of the series, of the instance of ReminderRebuild, of the whole
    MCTasks                Tasks.cfg
ReminderRebuild            the reminders of one date
UndatedTask                the review of a task without a date
Requests  QueryCache  TaskScreens  TaskLists  WeekPool  Schedules  Router
  Web                      INSTANCEs the seven, each in its world
    WebScreensProofs       router, task screens, the week, lists, schedules
      WebProofs            limits and answers, cache, the whole
    MCWeb                  Web.cfg, FindingSeriesCanBeMoved.cfg, FindingSkippedStaySkipped.cfg
```

`MCLoops`, `TaskLife`, `Dialogue` and `Web` set several components side by side.
A behaviour is in one `world`, chosen in its initial state, where one component runs and
the variables of the others are off (those of a module that is extended rather than
instantiated stay in one initial state); the properties of a run say of each world what is
its own. The components of one such module do not share state in these runs: where they
do in the program, one of them models what the other does to it (an undo in `TaskSeries`,
an edit in `ReminderDelivery`, a card in `ChatTurns`).

### NotificationPolicy, ReminderPlanning

`NotificationPolicy` is `applyNotificationPolicy` branch by branch: staleness for an event, snooze,
quiet hours with the cap at the task's own moment, the limit of a deferral, and lateness, which an
attempted contact is forgiven. The scan for the end of quiet hours may find none, in which case the
code throws and the model has the verdict `error`. Time is a number of minutes; which minutes are
quiet is a set. `ReminderPlanning` adds `planReminders` (candidates in order of time, joined one
after another to what is there: `Joined` merges those closer than `MINIMUM_CONTACT_GAP_MINUTES`) and
the state around it: an edit cancels the plan and asks for another, a rebuild makes it, the clock
moves and a snooze changes after the plan was made. Not modelled: the wording of rules, the default
templates (a rule is an input) and the calendar arithmetic of a local-date trigger.

### ReminderDelivery

`row` is `reminder_deliveries`, `jobs` the queue, `worker` the handlers. A handler is
a program counter and what it has read; each step ends where `deliver` awaits:
`Take` (the joined read and everything decided from it), `Suppress` or `Defer` and
`Enqueue`, `Bundle` and `Supersede`, `Claim`, `Send`, one of `RecordSent`,
`RecordRateLimited`, `RecordFinal`, `RecordTransient`, then `Escalate` and `Arm`. The
guarded updates of the code (`UPDATE ... WHERE status = ...`) are `Guarded`. `SweepRead`
and `SweepSend` are the reconciliation, `Crash`, `Recover` and `Start` the death of the
process and the two halves of its bootstrap. `Close`, `Reopen`, `Reschedule`, `Replan`,
`Mute`, `CancelUpcoming`, `Disable`, `Restore` and `Snooze` are what the rest of the
program does to the same rows, one transaction each. pg-boss is external and modelled
as its options say: a job per row and moment while it is only created, a bounded
number of retries after a delay, and `Expire` when a handler outlives
`expireInSeconds`. Every database or queue call that may throw has a failing form;
`Telegram` answers in every way `classifyTelegramSendError` distinguishes, and after an
ambiguous answer the message may or may not have been delivered.

What disappears with its user, task, rule or date disappears whole (the foreign keys cascade), so
the code's reason `orphaned` never finds a row to write and is not modelled apart. The key of an
escalation is to the millisecond, so two contacts of one minute of the model arm a row each.

The rows belong to one default follow-up rule of a deadline task, the one kind that
both waits for the digest and escalates. Rows of user-made follow-up rules, which an
undo can revive after a cancellation (`action-group.repository.ts` 672-690), are
therefore outside `FinalIsFinal`.

### BriefingDelivery

`row` is `briefing_deliveries`, keyed by local date and hour. `pass` is the
reconciliation of `briefing-scheduling.service.ts`: settings read once, then for today and
tomorrow the rows read (`PassRead`), rows no longer asked for retired one by one
(`PassRetire`), and the row that is asked for left alone, laid down again by id
(`PassRenew`) or inserted (`PassInsert`), then named to the queue. The handlers are as
above, with the content read between claim and send (`Build`). The weekly card is the
same program under another key and is not modelled separately.

### ActionGroups

`groups` is `action_groups` with the payloads of `pending_actions` and the journal of
`action_events`; `rows` are tasks and dates with their version, whether they are open, and
who wrote them last (for the properties; undo restores it with the rest). `handler` are
requests: `Chat` is the one chat, whose updates `sequentialize` runs in order
(`telegram.service.ts` 60); `Retry` is the loop that repeats turns after an AI outage and
does not pass through the chat; `Web` are requests of the web client and the lifecycle
loop. A confirmation is `Confirm`, `Claim` (an update), `ReadPayload` (a later read),
`Validate`, then a transaction; a transaction takes its row locks one at a time
(`LockTarget`, `LockStep`, `LockUndo`, `LockWrite`) in the order of the code's statements,
waits where another holds a row, and changes everything in its `Commit*`. `Throw` is a
rollback with the caller's catch; `PrepareThrows` the one error between claim and transaction that
no catch sees: `prepareSteps` misses the task of a card since an undo has taken it away. `BreakCircle` is PostgreSQL's deadlock detection,
`LoseConnection` and `LoseTransaction` what a broken connection leaves behind, which the
code treats in two ways. `BeginWrite` to `CommitWrite` are `transitionOccurrence` and
`markOccurrenceOverdue`, which lock a date before its task.

Of the steps, `create`, `edit`, `skip`, `finish` and `close` stand for what they lock,
require and leave open. Not modelled here: two steps of one package on one row, whose versions
`VersionTracker` chains (`GoalsAndMemory` has them); what deleting a created task cascades to;
the rebuilds after the commit (`ReminderRebuild`, `UndatedTask`); the expiry of cards of an older
contract at boot. Boot's repair may overlap requests here, which is more than the code's
bootstrap order allows.

### TaskSeries, ReminderRebuild, UndatedTask

`TaskSeries` is one recurring task: `series` its row with rule, status and `seriesRevision`, `dates`
its occurrences by revision and day. A refill (`RecurrenceMaintenanceService`, in its loop and after
a change) is `BeginRefill`, `ReadExisting`, `Insert`: three statements outside a transaction.
`ChangeSeries` is `changeSeriesInTx` with what it cancels and hides of the old revision (the dates
of an older one that a resume brings back are marked `older`), `UndoChange` the task part of an
undo, `Answer` the user's own answers, `ScanDate` and `Maintain` the lifecycle loop, which reads its
candidates and decides on each later. Excluded dates, which `refillTask` reads by a second
statement, are part of the rule here: a change between the two statements is one after both.

`ReminderRebuild` is one date: `date` with its version and `needsReminderRebuild`, `rows` its
deliveries by rule, version and moment. A rebuild is `ReadDate`, `ReadRules`, `CancelLive`,
`Replace`; the loop over flagged dates and two requests may rebuild at a time. `UndatedTask` is
the task without a date: `rebuildFuzzyTask` is `ReadTask`, `ReadRules`, `ReplaceReview`,
`PlanOwn`; it has no flag, so its loop finds what was left behind by its traces (`LeftBehind`).
Days, moments and rules are members of small sets; which delivery row a plan yields is
`ReminderPlanning`'s matter.

### ChatTurns and TurnContract

`messages`, `ledger`, `groups`, `account` are the tables; `turn` holds the two turns that may be
under way, the chat's (updates are handled in order) and the retry loop's. A turn goes `limit`
(asked once the text is saved), `gate`, `card`, `model`, `commit`, `after`, `reply`, `record`; a
bare yes or no to the card shown last goes `card`, `answer` (the text is marked), `decide` (the card
is confirmed or cancelled, if it still waits), `reply`. Each is a step, and each may fail the way the code distinguishes: an error of the provider, a rate
limit, an uncertain commit. `TickReads` and `TickTakes` are the loop's select and its claim,
`Command` is `/retry_ai`, `Replay` the texts repeated when consent is given, `Clear` deletes the
history. `TurnContract` says only what a text may do to the user's data: offer, make, withdraw,
and that an answer may replace the card it answers. `Effect` maps a turn's group to it.

### Topics, Settings, Accounts, GoalsAndMemory

`Topics` is `conversation_topics` statement by statement, for the handler, the retry loop, the web
client's clear and the maintenance's scrub; `normalizeTopicDirective` is translated whole.
`Settings` is the `user_settings` row as it is written by the app (PATCH with the version the
screen had, journalled), by the agent's action and its undo, and by the handlers of the chat,
which read the row and write it later unchecked; `buildSettingsPatch` and the validation of a
settings action are translated whole, times and zones being members of small sets. `Accounts`
has registration by invite, the operator's commands of `cli.ts`, deletion with its grace, the
release of held messages, consents with the voice turn that needs them (`transcribe` looks once
more, `SendAudio` sends), and the hourly maintenance. `GoalsAndMemory` has groups of several actions on goals, links and facts with
their journal and undo (`VersionTracker`, `lockAndVerify`), the assistant's turn from the context
it showed to the apply, and the screens' writes; a row that is created has an id of its own, so a
package creates on rows that have never been (`Fresh`).

### Requests, QueryCache, TaskScreens, TaskLists, WeekPool, Schedules, Router

`Requests` follows one request through `InitDataGuard` (limiter of the address, signature,
account, limiter of the user), the handler and `toErrorEnvelope`, and back through the client's
`toRequestError`; `consume`, `touch` and `evict` of the limiter are translated whole. The times of
a key come in the order of the clock, so those past the window are a prefix, and what the code
filters is the rest of the list (`Live`).
`QueryCache` is the client's cache: entries, shared flights with retries, optimistic patches with
their rollback, invalidation, the snackbar's undo. `TaskScreens` is the detail screen of a task:
what each control sends with which version, `resolveTarget`, validation, apply, and the answer.
Validation reads date and task by two statements, in the model at once: what falls in between ends
as if it had come before both or after.
`TaskLists` computes tabs, badges, pages and the morning card from the rows (a list is sorted by
keys of numbers that tell its members apart, `Sorted`); `WeekPool` the
picks and take-today of two devices. `Schedules` is the arithmetic of dates: `compileWhen`,
`recurrenceDates`, `buildRecurringOccurrences`, `localDateTimeToUtc` over a zone whose offset
changes once, moves of a date and of a series, the presets and the when-editor's draft; time is
in half hours. Rules with several times a day (BYTIME, `recurrence.ts:191-195`, `277-279`) are not
modelled: a rule has one date a day. `Router` is the fragment router over the browser's history, whose `back` is
answered by a later `popstate`, with sheets, the interceptors of the back button and the
new-task form. Anything may happen before the popstate: links, tabs, sheets, typing, further
presses (at most `MaxPops` at a time).

## 3. Runs

| Run | Question | Bounds | Result |
|---|---|---|---|
| `delivery_safety` | do two handlers, the sweep and boot keep the row discipline under each kind of disturbance? | 3 rows, 2 handlers, clock 0..2; per scenario: two edits of the date, with one row or two; two edits of the account; one crash and one failing call; a critical task at its deadline with three rows, or with one failing call | holds, 1.75 M states |
| `briefing_safety` | one card per row, none for an hour long gone? | a day of 4 moments, an hour, two zones, clock 0..2; two handlers with a crash and a failing call, one handler and two edits, or one handler that meets a 429 and then a queue that refuses | holds, 1.8 M states |
| `planning_policy` | does the plan keep what the policy promises until it is sent? | two rules, three tasks, two snoozes, clock 0..6 around quiet hours 2..3 | holds, 780 k states |
| `groups_safety` | do packages keep their word, whatever they meet? | 4 packages on 2 tasks with a date each and a task to create, 2 requests at a time, clock 0..2, a card and an undo window of one; in turn: three of them; the card, an undo and two writes of the lifecycle loop; two packages, two undos and a write; a crash; two lost connections; a card to move a task whose creation is undone | holds, 0.8 M states |
| `loops_drain` | does what waits come to an end? | a reminder with a crash and a failing call, and a critical one with its next contact; a digest with a crash or a failing call, and quiet mornings; a card with two undos and two crashes, or an undo and a write; two texts with errors and a command, a rate limit, two gates, or a crash | holds, 377 k states |
| `tasks` | are dates and reminders those of the current rule, and is nothing forgotten? | a series of 3 days with 2 rules and 2 revisions, seven scenarios of changes (one of them pause, edit and resume), undo, answers and a crash; a date with 2 moments, its rules and 3 rebuilders; a task without a date with 2 reminders of its own and 2 rebuilders | holds, 291 k states |
| `dialogue` | do turns keep their contract, and does nothing happen twice or unasked? | two texts, one automatic retry, a yes or a no, six mixes of faults; 4 settings scenarios of up to 5 writes; 3 people, a clock of 4; 2 turns at a time on up to 4 topics; 2 goals, 2 tasks, 2 facts, 2 groups and their undo | holds, 567 k states |
| `web` | is what the app shows and does honest, and do dates keep their rule? | 2 devices and 3 tasks; 2 pages and 2 rows, up to 3 requests; a task with 3 dates and 2 writes; limits of 2 in a window of 3 and tables of 2 keys; 77 sets of rows; 32 schedules over a change of clocks; 8 openings with up to 7 moves | holds, 883 k states |
| `finding_*` | four statements of the repository the code contradicts | as above | violated |

Why the bounds suffice. A double contact, a lost row or a stale claim needs two
handlers of one row and one thing that happens between them; three rows allow an
escalation and the escalation after it; two edits allow do and undo, or close and
reschedule; a crash and a failing call may fall between any two steps. The clock is
long enough for a row to be early, due and late (grace of one minute) and for the end
of quiet hours, the snooze and the event to fall in every order. Moments past the
horizon are cut to it (`AtMost`). In `planning_policy` the merge is exercised with two
rules; three rules of user origin were also checked once (1.7 M states).

In `groups_safety` a card can be confirmed before, at and after its last moment, undone within
and after its window, and overtaken by another package, by the expiry loop and by the
lifecycle loop; deadlock is not checked there because the story ends when every package is
settled and the clock has stopped. Two requests at a time suffice for a circle of locks
over two rows; circles of three need three packages that lock in three orders.

A series needs one change, its undo and one refill that read before it to leave a date of
the wrong rule, and a second change for the refill after; three days hold one that is over,
one that is open and one ahead. Three rebuilders are the loop and two requests: a third
request only repeats the second. Two texts are a text and the yes that answers its card;
with one automatic retry a turn fails for the first, the last and no time. The limiter's
table of two keys fills with three senders. A cache needs two writes and a read in flight
for a rollback to meet newer data. A horizon of nine days spans two weeks and the change of
clocks, and months of 28, 31 and 30 days follow each other. Deadlock is not checked where a
scenario's story ends.

Scenarios. `Scenarios` is a set of records: the task and the bounds of what may
disturb it, chosen in the initial state and never changed. One run thus asks one set
of properties of several worlds without multiplying their disturbances.

Properties, in words:

- `ContactsAreCounted`: one message per row, except after a boot recovery, a revival
  or a lost record, each of which is counted in `resets`.
- `ProcessingIsOwned`: while the process is up, a row in `processing` has a handler,
  unless the database refused the record of an outcome.
- `ClaimsAreCurrent`: at the very step of the claim the account is active and the
  occurrence open and not muted, though they were read earlier.
- `FinalIsFinal`: sent, failed, ambiguous and cancelled rows are never touched again.
- `EscalationKeepsPace`: as long as no call has failed, contacts about an overdue critical
  task and the escalations they arm balance. The scenarios have no crash and no digest of the
  reminder's own slot; both break it, see below.
- `LateSlotsStayUnsent`: a card goes out only for an hour some settings asked for
  before it had long passed, whatever the pass read before the settings changed.
- `QuietIsKept`, `DeferralStopsAtEvent`, `DeliveryAgrees`, `ExplicitIsHeard`: about plans.
- `OutcomeIsHonest`: only an applied package, or one being undone, has its mark on a row;
  failed, expired, cancelled and undone ones have none.
- `UndoLosesNothing`: an undo changes only rows the package wrote last, and clears all.
- `NothingUnseen`: at the step that applies, every named row has the version proposed.
- `AppliesDoNotDeadlock`: applies never wait for each other in a circle. Applies and
  undos, or either and the lifecycle loop, may; the database breaks those.
- `JournalOutlivesWindow`: what can still be undone still has its journal.
- `NothingWaitsForever`: liveness; a pending reminder, a digest of today, a package asked for
  (those caught by a lost connection or by a task that is gone excepted, section 4), a text that was promised a retry.
- `StoppedIsQuiet`, `DatesFollowTheRule`: a paused or cancelled series has no date ahead and an
  edited one none of its old rule, but for three kinds the model marks: dates of a refill that
  had read before (`late`), dates in progress (`begun`), and dates of an older revision that a
  resume brought back (`older`). They are the windows the code leaves open, section 4.
- `SeriesIsFilled`: liveness; a series that stays active gets every date up to the horizon.
- `RemindersAreCurrent`: without a rebuild under way the planned contacts are exactly those the
  rules ask for, and a task without a date makes one contact, unless a change overlapped a
  rebuild (`raced`): the code has no check against that.
- `RequestsAreServed`: liveness; a flag is served, a task without a date is not forgotten.
- `TurnsAreApart`: one turn at a time works on a text. `Refines`: `ChatTurns` implements
  `TurnContract`, so a text has one effect whatever fails, is repeated or answered.
- `OnceIsOnce`: one topic is open, an invite makes one account, a held message is said once, the
  spend of a month is told once. Its exceptions (`split`: two overlapping openings of a topic;
  an operator's restore) are the code's, section 4.
- `UndoIsExact`: in `tasks`, an undo gives back every date of the revision it restores as it was
  and leaves no live date of another, those of an older revision included (section 4); in
  `dialogue`, that of settings, goals and facts.
- `NothingUnasked`: no account deleted without a standing request whose grace is over, no voice
  sent without a standing consent or one that the app took back beside the chat, no screen's write
  on a row it did not show.
- `ScreenIsHonest`: cache and lists. `RefusalsAreFair`: limiter, error answers and conflicts.
  `DatesKeepTheRule`: the rows of a series against the days of its rule, defined directly, and
  the hour of each. `RouterIsSound`: see `Web`.
- `TapsMeanWhatTheyShow`: a write of a task's screen finds what the screen showed, two taps on the
  week do not both take its last place or move a row twice, a press of back asks before it drops a
  typed title. Excepted, as section 4 says: "done", a move of a task without a date or of a whole
  series, two picks of one row that release each other, and a popstate that arrives late.

Fairness. `MCLoops` and `TaskLife` assume weak fairness of each handler, of the sweep, the pass, the
expiry loop, the retry loop, a rebuild, a refill, of boot and of the clock: the queue polls every
second, the loops are timers that go on after a failed tick (`runtime/periodic.service.ts`), a
request runs to its end, and an operator restarts a dead process. Nothing is assumed of users,
failures or crashes. Without a crash bound a process that dies forever serves nobody, so liveness
is checked with finitely many. The other runs check safety and need none.

Every property has a mutant in `PROJECT.json`: a plausible bug in a mapped definition
that makes TLC report exactly that property. Mutated forms stand before the
definition they replace and are marked as such. Where a property joins several statements,
the modules keep further mutated forms, one or more for each of the statements, that
violate it too.

## 4. Where the repository contradicts itself

Shown by runs:

- README.md says a 429 waits for `retry_after`. A reminder that waited longer than the
  grace is then refused as stale (`finding_rate_limited_dropped`).
- README.md says an ambiguous digest is never resent automatically. The pass resets it
  (`finding_ambiguous_resent`).
- `tasks/detail.tsx:44` says a 409 means the row moved. A move of all repeats sends the
  version of the date where the server compares that of the task, so it may be refused
  although nothing moved (`finding_series_can_be_moved`).
- README.md:12 promises excluded dates, and `action-conversion.ts:287` carries them into a
  moved series. Its callers hand it a definition without them, so dates taken out of the
  series come back when its hour is moved (`finding_skipped_stay_skipped`).

Met while modelling, without a run. Where a name stands in brackets, the module keeps a
definition of that name that says what one would expect and the code does not do.

Delivery. `deliver` never compares `scheduledFor` with the clock, so another job of a row
sends it before `retry_after`; the digest pass sets a waiting row back to its slot; a reminder
that waits for the digest of its slot (up to five minutes) is refused as stale after one; a
crash between the record of a contact and the insert of the next ends an escalation; two
handlers that hand one row to the digest arm two (`reminder-queue.service.ts:220` against
`reminder-scheduling.service.ts:498`) [`EscalationIsSingle`]. Nothing calls `reconcile` when
settings change, as `briefing-scheduling.service.ts:35` has it, so a digest turned off just
before its hour is sent. `core/reminder-defaults.ts:3` says reminders closer than the gap are
merged; a refused candidate between two contacts keeps both [`GapIsKept`], and of two too
close the earlier is dropped. Quiet hours that never end (`settings-change.ts:106-122`
accepts equal ends, or a whole weekend) make `nextNonQuietMinute` throw and with it the rebuild.

Groups. `isConnectionLevelError` looks at the error itself while drizzle wraps what a
statement throws, so a lost commit is usually reported as a failure instead of as unknown (the
guard on the status keeps the record right, and the model has both); `applyResolved` compiles the
steps before its `try` (`actions.service.ts:183`), so a card whose task is gone by then stays in
`applying` until the next boot, and so does a package whose repair
fails, or whose claim's second read fails (in `applying` or `undoing`); a card confirmed in its last moment can lose its payload to the expiry loop and is
answered as expired; when two packages changed one row, undoing the later raises the version,
so the earlier can no longer be undone; `concretiseTaskInTx` clears the picked week, which undo
does not restore although README.md:30 says a package is undone as a whole. docs/AGENT_FLOW.md:172
says a turn that answers a card cancels it and then applies; the code applies first
[`ReplacedCardStaysUnapplied`].

Tasks. `core/applied-report.ts:98-99` says that an edit drops every future date, but a resume brings
back every date a pause had taken, whatever its revision (`action-mutations.repository.ts:1002`), so
pause, edit and resume leaves live dates of the old rule beside the new ones [`EditDropsDates`].
docs/CODE_REVIEW.md:23 asks that an undo be a truthful rollback; the undo of any change of a series
cancels every live date that is not of the revision it restores (`action-group.repository.ts:729`),
so undoing a pause takes away an open date of an earlier rule that an edit had left
[`TruthfulUndo`]. TLC finds both in seconds. Edit, undo, edit leaves a series empty; a refill that
read before a pause inserts after it. Mute does not raise the version, so reschedule, mute, undo
turns the defaults on again. A reminder that cancelling withdrew comes back with any rebuild.
Overlapping rebuilds leave two reviews of an undated task, or a stale plan the loop never repairs; a
cancel, the passing of its moment, an undo and a crash leave it without a contact
[`FutureDatesRemind`, `RestoredRemindersReturn`].

Chat. `deferAiUntil` and the consent path of the tick write the status without a guard, so a
processed text can wait again and be answered twice; `ai_suspended` at the tick's gate leaves
a text waiting with no retry time; rows in `processing` after a crash are not recovered;
`storePending` may fail after the card is stored, and every retry then meets the unique index
until the card expires; updates that wait behind `sequentialize` when the process dies are in no
ledger; a typed yes may confirm a card the retry loop has just sent; the comment at
`chat.service.ts:99` says nothing is replayed after consent, which `grantConsent` does.

Settings and accounts. The weekly-review switch sends a null weekday, which validation refuses
[`SwitchesWork`]; a prompt may be answered twice [`PromptIsAnsweredOnce`]; the prompt kind
`reschedule` is never set any more; the failed last reply of the weekly step puts the onboarding
prompt back; a digest, weekly or quiet write stamps the profile's zone. `users:disable` on an
account that waits for deletion keeps `deleteAfter`, but it is never finalised and `/restore` is
refused; an operator's restore that crosses the user's own can release a held message twice;
a consent may be withdrawn in the app between the last look (`transcription.service.ts:36`) and the
sending of the audio (41); the spend mark and the alert's signature are written before the notice is
sent; `finalize` writes
its audit row even if nothing was deleted.

Topics, goals and memory. A turn that read a topic before it ended writes it active again
[`PausedIsNotResumed`]; two overlapping openings leave two active topics. A group just applied
may be one that cannot be undone, against `action-group.repository.ts:464-467`
[`RollbackIsPossible`]; a goal's version is read after the model answered, so an edit during the
answer goes unnoticed [`ModelSawTheVersion`]; the week card names an idle goal its button does
not find [`NamedGoalIsFound`]; undoing a link removes the same link made again later
[`LinkUndoIsOwn`]; unlink carries no
versions though `goals/detail.tsx:33-36` says both do; `idleDays` is null also below 21 days
though `contracts/goals.ts:52` says only when it is not watched.

Dates. A moved date of an expiring series keeps its old `expiresAt`, so the loop skips it at the
old boundary [`MovedDateIsKept`]; a date made while its successor is out of reach has no expiry
[`ExpiryIsKnown`]; a local time that comes twice, or never, is not always mapped as
`timezone.ts:87-88` says [`LocalTimesAreMapped`]; the when-editor opens on another schedule than
the task has when a duration is not one it can show [`DraftIsFaithful`]; a preset may land on
another time than its button shows [`PresetLandsAsShown`]. Windows inside a gap have no length; one
date of a series may be moved into the past, and past `until` not at all; an undated task is
offered presets that are refused.

The app. Overlapping writes: a rollback clobbers another row's success, and a read in flight
swallows an invalidation [`FlipsBack`, `RefetchedAfterSuccess`]. So does an Undo tapped while
another tap is on its way and nobody watches the list: it succeeds and drops the entry with that
tap's patch on it, a read that began before keeps the old object, the tap fails, and then the read
fails and writes the patch back [`FlipsBack`]; `ScreenIsHonest` excepts both (`overlap`, `races`). A
flight of a deleted entry writes into the new one; `setPicked` can release a pick [`VerbsAreKept`],
a week can exceed its limit when an overdue pick leaves and rejoins, and undo of take-today does not
restore the mark. A "done" may close another date than the one shown, an unticked box may stay
ticked, a move may go out on a row that has changed [`DoneClosesTheDateShown`,
`ChecklistIsReplaced`, `MovesAreNotBlind`]. A title typed between a press of back and its popstate
is lost unasked. On root screens the shell hides the button that would
close a sheet [`SheetsHearBack`]; the route may change beneath a sheet [`SheetsKeepTheirRow`]; a
late answer replaces whatever screen is shown [`AnswerKeepsThePlace`]. `isPastRow` uses the user's
zone, `isOverdueForDisplay` the row's; the digest's list of taken tasks is not filtered by
`POOL_MEMBERSHIP`.

## 5. Proofs

Eight modules hold the proofs, each beside the component it is about. The theorems hold for any
number of rows, packages, dates, texts, handlers, requests, refills and rebuilds, of crashes,
faults, edits and undos, any scenario, and any setting of the policy, within the assumptions below.

| Theorem | Says | Invariant it rests on |
|---|---|---|
| `ReminderDeliveryProofs!TypeCorrect` | `Spec => []TypeOK` | itself |
| `ReminderDeliveryProofs!FinalRowsStayFinal` | `Spec => FinalIsFinal` | types: every update of a row is guarded by a live status |
| `ReminderDeliveryProofs!ClaimsStayCurrent` | `Spec => ClaimsAreCurrent` | `LooksAreCurrent` |
| `ReminderDeliveryProofs!ContactsStayCounted` | `Spec => []ContactsAreCounted` | `ContactsAreCovered` |
| `ReminderDeliveryProofs!ProcessingStaysOwned` | `Spec => []ProcessingIsOwned` | `ProcessingIsTended` |
| `BriefingDeliveryProofs!TypeCorrect` | `Spec => []TypeOK` | itself |
| `BriefingDeliveryProofs!ContactsStayCounted` | `Spec => []ContactsAreCounted` | `ContactsAreCovered` |
| `BriefingDeliveryProofs!LateSlotsAreNeverSent` | `Spec => []LateSlotsStayUnsent` | `RowsWereWanted` |
| `ReminderPlanningProofs!TypeCorrect` | `Spec => []TypeOK` | `PlanIsMerge` |
| `ReminderPlanningProofs!UserIsHeard` | `Spec => []ExplicitIsHeard` | `PlanIsMerge`, and `MergeIsHeard` of the merge |
| `ReminderPlanningProofs!QuietHoursAreKept` | `Spec => []QuietIsKept` | `RatedByPolicy` |
| `ReminderPlanningProofs!EventsBoundDeferral` | `Spec => []DeferralStopsAtEvent` | `RatedByPolicy` |
| `ReminderPlanningProofs!PlanningAndDeliveryAgree` | `Spec => []DeliveryAgrees` | `RatedByPolicy`, and the algebra of the policy |
| `ActionGroupsProofs!TypeCorrect` | `Spec => []TypeOK` | `TypeInv` |
| `ActionGroupsProofs!AppliedAsSeen` | `Spec => NothingUnseen` | `LockInv` |
| `ActionGroupsProofs!AppliesAreOrdered` | `Spec => []AppliesDoNotDeadlock` | `OrderInv` |
| `ActionGroupsProofs!JournalsLast` | `Spec => []JournalOutlivesWindow` | `ScrubbedLate` |
| `ActionGroupsProofs!OutcomesAreHonest` | `Spec => []OutcomeIsHonest` | `JournalInv` |
| `ActionGroupsProofs!UndoRestores` | `Spec => UndoLosesNothing` | `JournalInv` |
| `TaskLifeProofs!TypeCorrect` | `Spec => []TypeOK` | `SeriesInv` |
| `TaskLifeProofs!StoppedSeriesIsQuiet` | `Spec => []StoppedIsQuiet` | `SeriesInv` |
| `TaskLifeProofs!DatesKeepToTheRule` | `Spec => []DatesFollowTheRule` | `SeriesInv` |
| `TaskLifeProofs!ExactUndos` | `Spec => UndoIsExact` | `SeriesInv` |
| `TaskLifeProofs!LifeIsTyped` | `LifeSpec => []TypesOK` | `LifeInv` |
| `TaskLifeProofs!RemindersStayCurrent` | `LifeSpec => []RemindersAreCurrent` | `LifeInv` |
| `TaskLifeProofs!LifeKeepsSeries` | the three about a series, of `LifeSpec` | `LifeInv` |
| `TaskLifeProofs!DatesAreTyped` | `R!Spec => []R!TypeOK` | `RebuildInv` |
| `TaskLifeProofs!PlansStayCurrent` | `R!Spec => []R!PlanIsCurrent` | `RebuildInv` |
| `DialogueProofs!TypeCorrect` | `Spec => []TypeOK` | `ChatInv` |
| `DialogueProofs!TurnsStayApart` | `Spec => []TurnsAreApart` | `ChatInv` |
| `DialogueProofs!OneEffect` | `Spec => Refines`: `ChatTurns` implements `TurnContract` | `ChatInv` |
| `DialogueProofs!DialogueIsTyped` | `DialogueSpec => []TypesOK` | `DialogueInv`, of it `SettingsTyped` and `TopicsBounded` |
| `DialogueProofs!WhatHappensOnce` | `DialogueSpec => []OnceIsOnce` | `AccountsInv`, `TopicsInv` |
| `DialogueProofs!NothingIsUnasked` | `DialogueSpec => NothingUnasked` | `AccountsInv`, `GoalsInv` |
| `DialogueProofs!UndosAreExact` | `DialogueSpec => UndoIsExact` | `SettingsInv`, `GoalsInv` |
| `DialogueProofs!DialogueKeepsTurns` | the two about turns, of `DialogueSpec` | `DialogueInv` |
| `WebProofs!WebKept` | `Spec => []WebInv` | itself |
| `WebProofs!WebTyped` | `Spec => []TypeOK` | `WebInv` |
| `WebProofs!BackLeadsHome` | `Spec => []RouterIsSound` | `RouterInv`, and `HomeByBack` of the presses |
| `WebProofs!ScreensKeptHonest` | `Spec => []ScreenIsHonest` | `CacheInv`, `ListsInv`, and the algebra of the lists |
| `WebProofs!RefusalsKeptFair` | `Spec => []RefusalsAreFair` | `RequestsInv`, `ScreensInv` |
| `WebProofs!TapsKeptMeaning` | `Spec => TapsMeanWhatTheyShow` | `ScreensInv`, `WeekInv`, `RouterInv` |

Assumptions. They are named in the modules and evaluated by TLC, with the values of each run whose
module extends them. `DeliveryAssumption` and `BriefingAssumption` say that minutes and limits are
numbers, that the handlers are finitely many (the proof counts them) and, for reminders, that every
moment has a first minute outside quiet hours within the search of the code; `PlanningAssumption`
says the types of rules, tasks and snoozes; `GroupsAssumption` that rows have distinct ids and that
a row is created by at most one package; `SeriesAssumption` that every rule has its days;
`ChatAssumption` the type of the scenarios; `DialogueAssumption` that times are numbers and a
deletion waits at least one, the types of the scenarios of settings, accounts, topics and goals (a
link's two ends are there, and a row nobody made yet is at version 0), and that a conversation
starts with one active topic at most, no question over the checkpoint and no more topics than the
bound. `LifeAssumption` says that a date has a moment, that a user's reminders are
not called default or escalation, and the types of the scenarios. `WebAssumption` says that limits,
a window, a page and the router's history are at least one; what a workspace is (`IsWorkspace`:
every date has a time or a day, as `compileLocalSchedule` leaves it, and every day comes after the
first); what a request for a time is (`IsScenario`); and that a list's taps carry the version they
read or put the answer in its place, as the task lists and the week's page do.

### The arguments

Delivery. `ClaimsAreCurrent` is not inductive: whether a claim is current depends on what the
handler saw some steps before. `LooksAreCurrent` says that as long as a row that a
handler has looked at is still pending and was never put back, what the handler saw is
still so: every transaction that closes the occurrence, mutes it or disables the
account withdraws its live rows in the same step. That is why the code may check once
and claim later with nothing but a guard on the status.

`ContactsAreCounted` bounds the contacts made; `ContactsAreCovered` bounds those made and those
owed. A handler owes a contact from its claim until the message has gone; the number of messages of
a row and of handlers that owe one is at most one more than its `resets` once it has left the queue,
and at most `resets` while it is in it. The claim's guard (a live status) moves one unit from the
queue to a debt; a second job of the row, queued when the first expired, finds it no longer pending
and moves nothing; and boot, which forgets the handlers and puts rows back, pays with `resets`. The
digest's proof is the same with the pass, which lays rows down again, as one more that pays.
`ProcessingIsTended` says which handler will record a row's outcome, and that between the death of a
process and its start no row in processing passes the repair.

`LateSlotsStayUnsent` looks at a card that goes out; what has to be kept is that no row is there
for an hour nobody asked for in time (`RowsWereWanted`), and that what the pass has read of
settings and rows stays enough to write from, whatever changes beneath it (`PassIsSound`).

Plans. Every candidate is the policy's outcome for the task, rule and snooze the plan was made from;
the quiet hours, the event and the agreement are then about the policy alone. `PlanIsMerge` adds
that the rows are the merge of these candidates, and `ExplicitIsHeard` is then about the merge. That
every set of candidates has an order (`OrderExists`: a candidate's place is how many are not after
it) and that the merge runs through it (`MergeGoes`) is shown of numbers, by the least one that
would fail, because an induction theorem cannot be cited. `Heard` is what each candidate that joins
keeps: whoever spoke before still speaks, or one the user asked for does, a gap later at most for
each that joined since. The run has two rules, so one displacement; the theorem has any number.

Action groups. Types alone are not inductive: that a request is typed depends on
where it may be (`PlacesFit`), on how far its package has come (`Stages`) and on an undo
locking the rows of its journal (`UndoLocks`). With these a package is shown to go only
onward (`Onwards`): no step, not even a repair at boot or an expiry by id, returns it to a
state a confirmation could claim, and what the user saw is never rewritten. `LockInv` adds
that a row has one holder, that a request past its comparison holds every row it names at
the version it expects, and that what a package creates does not exist before it is
applied. `NothingUnseen` follows because whoever changes a row holds it (`RowsMove`), so
rows held by another stay as they are (`HeldRowsStay`).

`AppliesDoNotDeadlock` needs more than the order of `lockTargets`, because the steps of a
package lock dates that were not among its targets. `Ordered` says that the lock phase goes
tasks before dates and each by id, and that afterwards a request holds the task of every
date it holds or needs. So nobody in a circle can wait for a date: it and the date's holder
would both hold its task. All then wait for tasks, in the lock phase, and along the circle
ids grow, which the least of them contradicts.

Journals. `JournalInv` is `LockInv` and a chronicle: the journal of a package in force has one
line for each row it wrote, at a version the row has passed or still has as the package left it
(`JournalHolds`), and whoever's content a row has, or a journal would restore, is a package in
force with an earlier line of its own for that row (`Traces`). The second half of `Traces` is what
makes the first inductive: an undo restores the content of an earlier package, which must then
still be in force. It is, because undoing that one first would have raised the row's version, and
`Untouched` would have refused this undo. `HeldRows` carries that check, made when the row is
locked, to the commit.

Series. `Marked` and `Refilling` say what the three marks excuse and that a refill whose version is
still the series' has read the series as it is; `Journaled` relates the journal to what
has happened since: the versions, the dates the change touched, and that those it left alone were
only answered. With it an undo, which writes from the journal, keeps `StoppedIsQuiet` and
`DatesFollowTheRule`, and is exact.

Rebuilds. The plan is current only while nothing is under way, so `RebuildsAgree` says what a
rebuild may rely on half way: unless a change fell into it (`raced`), what it has read is still so,
and every delivery that is live when it replaces is one it has cancelled or one of the same plan.
That is why rebuilds may overlap each other. For a closed date `PlanHolds` keeps what an undo of
the completion brings back.

A task without a date. `ContactIsSingle` bounds the pending reviews; what is inductive is that
a review is pending only while its rule is active, and that, unless a change fell into a rebuild,
one rule at most is active (`OneReview`), the one rebuild under way has read what is still so
(`ReadStill`), a date or a cancellation took away what an undo would bring back, and nothing has
been put in its place since (`RetiredOnce`).
`UndatedInv` joins them, and `LifeInv` joins it with `SeriesInv` and `RebuildInv`, each in its
world.

Turns. `TurnsAreApart` alone does not survive the loop's read, so `Claimed` adds what the
loop may have read: a text the chat works on is not due, and is in no list if it could be claimed.
`SavedOnce` says that a text has a row only once its update is in the ledger, so a redelivered one
is not saved again. The refinement then goes step by step: each step changes the effect of one
text at most, the way `TurnContract` allows, or of none (`EffectsMove`).

Accounts. That an invite makes one account needs that every account made by one is told apart in the
ledger of invites (`InvitedOnce`), and that a month's spend is told once that the mark is written
before the notice, whatever dies in between (`ToldOnce`). For a held message `SentOnce` says that
what went out, or is on its way, is no longer pending unless an operator's restore put it back
(`Restoring`, `Owed`), and that of two ways back the later begun does not release what the earlier
one holds. A deletion is carried out in a transaction that looks again, so `DueWasAsked` only has to
say that a row that is due has been due since it was asked; `Tended` says that what a worker or a
tick is in the middle of was asked for, at a moment that has come. A voice turn looks twice before
it sends; `VoiceInv` says that past the last look the consent stands unless the app took it back
since, for the chat handles one update at a time.

Topics. `OneTopicIsOpen` excepts conversations where two openings crossed (`split`). `Opening` says
what a transaction may rely on half way: two that are open at once have both been marked as crossed,
and one that is alone has seen every active topic but the one it is opening itself. `OneOpen`
follows when it commits.

Settings. Every write of a column raises the row's version, by the app, the agent and the handlers
of the chat alike. `LastWriter` turns this round: a group in force whose version is still the row's
was the last to write, and the row is as it left it. An undo compares the version, so it takes back
nobody else's writing.

Goals and memory. A version tells a row's content: whatever came after, a row that is there at the
version it had then is as it was then (`Later`). So the undo's comparison of versions says that a
row is as the group left it, and the guard of a screen's write that it is as the screen showed it
(`Sent`, `Meant`). What the group had found is read from its events, of which one row may have
several: `Told` relates the events of a row to how the group found and left it, the latest by its
version, the first by what it says was before, and nothing after a deletion. It is carried from
action to action of a group; a group may have any number of them, so `RunTold` looks at the least
one that would break it. A deleted fact is undone without a comparison of versions. That is exact
only because what one group deleted stays deleted (`Standing`) and no second group in force deletes
it (`Sole`), for a new row has an id no row has had (`Fresh`).

Types. That a settings row keeps its columns' types needs that a change is written as it was
validated, though a handler carries it over several steps (`Lawful`, `ChatOK`), and an undo that a
group keeps whole rows (`JournalOK`). How far a topic's count of questions goes is not told by a
step: a failed reset leaves it past the checkpoint, and the next turn counts on. `TopicsBounded`
sets the count against the turns that may still raise it (`Left`: those not begun, and those begun
by the handler or the retry loop that have not counted), and each count uses up one.

`DialogueInv` joins these with `ChatInv`, each in its world.

Router. `StackFits` says that no entry of the history promises more below it than there is and that
the screen is the one the address names, which needs that an address is read back as the route it
was written for (`ParsedUrl`, route by route). Back then goes down the history and, at its end, up
by the parents: `Far` counts both, and `BackIsNearer` shows each press to lessen it, so for every
history there is a number of presses that ends at a root (`HomeByBack`). The run presses through
histories of four.

Task screens. A request was sent with the version its screen showed (`Asks`), is aimed at what the
server finds for it (`Aims`), and versions only grow (`Grown`): a write whose version still fits
finds the row as it was shown, and a refused one differs from it for good (`Held`, `HeldStays`). The
week's page is the same with one row more: what a take has read is compared with what it writes over
(`Read`).

Limits. The table knows for each address the tail of the times it was let in, those before it are
out of the window, and any one more than the limit after another is a window later (`AddressFits`).
It survives `evict`, which forgets only keys over their window or, when all are fresh, the one used
longest ago: for that one the property starts anew, as the code does. That the wait it was told
suffices follows from the first time of the tail.

Cache. What may be on the screen is what the server had at some moment, or the patch of the one tap
that is on its way (`DataOrTap`); what may come back, by a read, a rollback or a flight of an entry
that is gone, was so (`ReadIsSo`, `WriteIsSo`). `CacheInv` follows both through every place data is
kept: the entries, those captured by flights, the snapshots of taps and the answers. It needs one
write at a time, the very thing the run found to be necessary (`FlipsBack`, section 4).

Lists. `SortedFits`: of a finite set whose keys tell its members apart, `Sorted` is the list of them
in order, because the number of those ahead of a member is its place, no two share one, and none is
left out. The lines of a tab are then in bijection with the titles, the badge counts them
(`GroupsFit`, `CountGrows`), and the pages of any size are the list from end to end
(`PagesAreTheList`).

Schedules. Only types are proved: whatever is asked, refused, moved or refilled, a date has a moment
or a day and a known state. They need that a schedule compiles to times (`CompiledFits`), that a
local time is mapped to an instant of the scan around it (`MappedFits`), and that a draft, a preset
and a move make requests again.

`WebInv` joins these, each in its world.

### Only model-checked

- Liveness (`NothingWaitsForever`, `SeriesIsFilled`, `RequestsAreServed`): fairness and ENABLED are
  out of the prover's reach.
- `EscalationKeepsPace`: it is about the scenarios of the run and does not hold of all. A crash or
  a digest of the reminder's own slot breaks the balance (section 4), so there is no theorem for
  every scenario to state.
- `DatesKeepTheRule` of `web`: it compares what the calendar's recursion computes with the days of the rule, which
  is induction over data; a run over a change of clocks and two weeks stands for it.

## 6. Plan

Done: a module for each component of section 2, the runs of section 3 and the proofs of
section 5. Left, in order of importance:

1. `GroupContract` and `DeliveryContract`, the life of a package and what a delivery row
   promises, as abstract specifications; `Onwards` and `ContactsAreCovered` are most of their proofs.
2. `SingleInstance` (one process holds the advisory lock) and the deletions of retention.

Not modelled: wording and rendering, prompts and the contracts of the AI providers
beyond their outcomes, observability, layout and mocks of the client, and migrations: they
format, call out or lay out, and keep no state whose order of change matters.
