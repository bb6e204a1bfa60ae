------------------------------- MODULE Accounts -------------------------------
(***************************************************************************)
(* Who may use the assistant: registration by invite, the operator's        *)
(* command line, a deletion with its grace and its way back, the locking    *)
(* and release of what was to be sent, the consents of the two providers    *)
(* with the voice turn that needs them, and the hourly maintenance that     *)
(* deletes for good and warns of spend.                                     *)
(*                                                                         *)
(* The chat of one user is handled one update at a time; the app's requests *)
(* and the operator's command line run beside it.  Every operation reads    *)
(* the account, and writes in a transaction later.                          *)
(***************************************************************************)
EXTENDS Naturals, FiniteSets, TLC

CONSTANTS
    Scenarios,  \* records [ops, start, provider, contacts, restarts]
    MaxTime,    \* bound on the clock
    Grace,      \* DELETION_GRACE_DAYS in clock steps
    InviteTtl   \* REGISTRATION_INVITE_TTL_DAYS in clock steps

VARIABLES
    scenario,
    now,
    users,      \* the account of every Telegram id
    invites,    \* the registration link, when one was made
    consents,   \* the providers a user agreed to
    contact,    \* one message planned for a user, and how often it went out
    work,       \* the operation every surface is in the middle of
    maint,      \* the tick of the maintenance loop
    asked       \* who asked for a deletion that nobody took back

vars == <<scenario, now, users, invites, consents, contact, work, maint, asked>>

Ids == {"owner", "guest", "third"}
Surfaces == {"chat", "app", "cli"}
Gone == [status |-> "gone"]
NoInvite == [status |-> "none"]
Null == "null"
MaxCalls == 3   \* AI_MAX_CALLS_PER_HOUR, in one hour

Active(u) == users[u].status = "active"      \* resolveActiveUser
Restorable(u, at) ==                         \* findRestorable, restoreDeletion
    users[u].status = "deletion_pending" /\ users[u].due > at

(* Who asks for what: the user in the chat and in the app, the operator by   *)
(* the command line.                                                        *)
ConsentOps == {"grant_text", "grant_voice", "revoke_text", "revoke_voice"}
OperatorOps == {"users:add", "users:restore", "users:disable", "ai:suspend", "ai:enable"}
Operation ==
    ({"chat"} \X Ids \X ({"invite", "start", "restore", "delete_account", "voice"}
                           \cup ConsentOps))
    \cup ({"app"} \X Ids \X ({"delete_account"} \cup ConsentOps))
    \cup ({"cli"} \X Ids \X OperatorOps)
Scenario ==
    [ops: SUBSET Operation, start: SUBSET Ids, provider: {"openai", "other"},
     contacts: SUBSET Ids, restarts: Nat]

NewUser(via) == [status |-> "active", due |-> 0, ai |-> "enabled", via |-> via,
                 calls |-> 0, warned |-> FALSE, notices |-> 0]
NoContact == [status |-> "none", at |-> 0, worker |-> FALSE, sent |-> 0]
Idle == [pc |-> "idle", op |-> "none"]

Init ==
    /\ scenario \in Scenarios
    /\ now = 0
    /\ users = [u \in Ids |-> IF u \in scenario.start THEN NewUser("operator")
                                                       ELSE Gone]
    /\ invites = NoInvite
    /\ consents = [u \in Ids |-> {}]
    /\ contact = [u \in Ids |-> NoContact]
    /\ work = [a \in Surfaces \X Ids |-> Idle]
    /\ maint = [pc |-> "idle", restarts |-> scenario.restarts,
                left |-> scenario.ops]
    /\ asked = {}

-----------------------------------------------------------------------------
(* What an operation of the account does to the messages planned for it.   *)

suppressPendingForUser(c) ==
    IF c.status \in {"pending", "processing"}
      THEN [c EXCEPT !.status = "suppressed"] ELSE c
restoreAllSuppressed(c, at) ==
    IF c.status = "suppressed" THEN [c EXCEPT !.status = "pending"] ELSE c
restoreFutureAccessSuppressed(c, at) ==
    IF c.status = "suppressed" /\ c.at > at
      THEN [c EXCEPT !.status = "pending"] ELSE c

Suppress(u) == contact' = [contact EXCEPT ![u] = suppressPendingForUser(@)]
Release(u, at) ==
    contact' = [contact EXCEPT ![u] = restoreFutureAccessSuppressed(@, at)]

-----------------------------------------------------------------------------
(* The gates.  An update of the chat is let through for an active account;  *)
(* "start" and "restore" are open to everyone, and a "start" of an active   *)
(* account is a greeting.  The app's guard asks for an active account; the   *)
(* command line asks for nothing.                                           *)

OPEN_COMMANDS == {"start", "restore"}
Admitted(s, u, op) ==
    CASE s = "chat" -> IF op \in OPEN_COMMANDS THEN ~(op = "start" /\ Active(u))
                                               ELSE Active(u)
      [] s = "app"  -> Active(u)
      [] s = "cli"  -> TRUE

\* Only the owner makes a registration link.
canCreateRegistrationInvite(u) == u = "owner"

Arrive(s, u, op) ==
    /\ work[<<s, u>>].pc = "idle"
    /\ <<s, u, op>> \in maint.left /\ Admitted(s, u, op)
    /\ op = "invite" => canCreateRegistrationInvite(u)
    /\ op = "voice" => users[u].ai = "enabled" /\ scenario.provider = "openai"
    /\ maint' = [maint EXCEPT !.left = @ \ {<<s, u, op>>}]
    /\ work' = [work EXCEPT ![<<s, u>>] = [pc |-> "read", op |-> op]]
    /\ UNCHANGED <<scenario, now, users, invites, consents, contact, asked>>

Goes(s, u, pc) == work' = [work EXCEPT ![<<s, u>>] = [@ EXCEPT !.pc = pc]]
Ends(s, u) == work' = [work EXCEPT ![<<s, u>>] = Idle]

\* What each operation reads before its transaction; a refusal ends it.
Reads(s, u) ==
    LET w == work[<<s, u>>] IN
    CASE w.op \in {"delete_account"}        -> Active(u)
      [] w.op = "restore"                   -> Restorable(u, now)
      [] w.op \in {"users:disable", "users:restore", "ai:suspend", "ai:enable"}
                                            -> users[u] # Gone
      [] w.op \in {"start", "users:add"}    -> users[u] = Gone
      [] OTHER                              -> TRUE

Read(s, u) ==
    /\ work[<<s, u>>].pc = "read"
    /\ work[<<s, u>>].op \notin {"grant_text", "grant_voice", "revoke_text",
                             "revoke_voice", "voice"}
    /\ work' = [work EXCEPT ![<<s, u>>] =
         IF Reads(s, u) THEN [pc |-> "write", op |-> @.op, at |-> now] ELSE Idle]
    /\ UNCHANGED <<scenario, now, users, invites, consents, contact, maint, asked>>

Writing(s, u, op) == work[<<s, u>>].pc = "write" /\ work[<<s, u>>].op = op

-----------------------------------------------------------------------------
(* Accounts come to be.  A Telegram id is unique: a transaction that finds  *)
(* it taken rolls back, and the link with it.                               *)

addUser(s, u) ==
    /\ Writing(s, u, "users:add")
    /\ users' = IF users[u] = Gone THEN [users EXCEPT ![u] = NewUser("operator")]
                                   ELSE users
    /\ Ends(s, u)
    /\ UNCHANGED <<scenario, now, invites, consents, contact, maint, asked>>

createRegistrationInvite(s, u) ==
    /\ Writing(s, u, "invite") /\ invites = NoInvite
    /\ invites' = [status |-> "open", expires |-> work[<<s, u>>].at + InviteTtl]
    /\ Ends(s, u)
    /\ UNCHANGED <<scenario, now, users, consents, contact, maint, asked>>

RedeemableAnyTime(at) == invites # NoInvite /\ invites.expires > at
Redeemable(at) == invites.status = "open" /\ invites.expires > at

registerFromInvite(s, u) ==
    /\ Writing(s, u, "start")
    /\ IF Redeemable(work[<<s, u>>].at) /\ users[u] = Gone
         THEN /\ invites' = [invites EXCEPT !.status = "used"]
              /\ users' = [users EXCEPT ![u] = NewUser("invite")]
         ELSE UNCHANGED <<invites, users>>
    /\ Ends(s, u)
    /\ UNCHANGED <<scenario, now, consents, contact, maint, asked>>

-----------------------------------------------------------------------------
(* The operator's command line writes by id, whatever has happened since.  *)

setUserStatus(s, u, status) ==
    /\ Writing(s, u, IF status = "active" THEN "users:restore" ELSE "users:disable")
    /\ IF users[u] = Gone THEN UNCHANGED <<users, contact, asked>>
       ELSE IF status = "active"
         THEN /\ users' = [users EXCEPT ![u] = [@ EXCEPT !.status = status,
                                                         !.due = 0]]
              /\ Release(u, now) /\ asked' = asked \ {u}
         ELSE /\ users' = [users EXCEPT ![u] = [@ EXCEPT !.status = status]]
              /\ Suppress(u) /\ UNCHANGED asked
    /\ Ends(s, u)
    /\ UNCHANGED <<scenario, now, invites, consents, maint>>

setAiStatus(s, u, status) ==
    /\ Writing(s, u, IF status = "enabled" THEN "ai:enable" ELSE "ai:suspend")
    /\ users' = IF users[u] = Gone THEN users
                ELSE [users EXCEPT ![u] = [@ EXCEPT !.ai = status]]
    /\ Ends(s, u)
    /\ UNCHANGED <<scenario, now, invites, consents, contact, maint, asked>>

-----------------------------------------------------------------------------
(* A deletion, its way back, and its end.                                   *)

requestDeletion(s, u) ==
    /\ Writing(s, u, "delete_account")
    /\ IF Active(u)
         THEN /\ users' = [users EXCEPT ![u] =
                    [@ EXCEPT !.status = "deletion_pending",
                              !.due = work[<<s, u>>].at + Grace]]
              /\ Suppress(u) /\ asked' = asked \cup {u}
         ELSE UNCHANGED <<users, contact, asked>>
    /\ Ends(s, u)
    /\ UNCHANGED <<scenario, now, invites, consents, maint>>

restoreDeletion(s, u) ==
    /\ Writing(s, u, "restore")
    /\ IF Restorable(u, work[<<s, u>>].at)
         THEN /\ users' = [users EXCEPT ![u] = [@ EXCEPT !.status = "active",
                                                         !.due = 0]]
              /\ Release(u, work[<<s, u>>].at) /\ asked' = asked \ {u}
         ELSE UNCHANGED <<users, contact, asked>>
    /\ Ends(s, u)
    /\ UNCHANGED <<scenario, now, invites, consents, maint>>

ExpiredByName(u, at) == users[u] # Gone
Expired(u, at) == users[u].status = "deletion_pending" /\ users[u].due <= at

\* A tick lists what has run out, and deletes one account after the other.
ListExpired ==
    /\ maint.pc = "idle"
    /\ \E u \in Ids : Expired(u, now) \/ (Active(u) /\ users[u].calls > 0)
    /\ maint' = [pc |-> "finalize", at |-> now,
                 rest |-> {u \in Ids : users[u].status = "deletion_pending"
                                         /\ users[u].due <= now},
                 restarts |-> maint.restarts, left |-> maint.left]
    /\ UNCHANGED <<scenario, now, users, invites, consents, contact, work, asked>>

finalizeExpiredDeletions(u) ==
    /\ maint.pc = "finalize" /\ u \in maint.rest
    /\ maint' = [maint EXCEPT !.rest = @ \ {u}]
    /\ IF Expired(u, maint.at)
         THEN /\ users' = [users EXCEPT ![u] = Gone]
              /\ consents' = [consents EXCEPT ![u] = {}]
              /\ contact' = [contact EXCEPT ![u] = [NoContact EXCEPT
                                 !.sent = contact[u].sent, !.worker = contact[u].worker]]
              /\ asked' = asked \ {u}
         ELSE UNCHANGED <<users, consents, contact, asked>>
    /\ UNCHANGED <<scenario, now, invites, work>>

-----------------------------------------------------------------------------
(* The spend of the month: marked first, told after.  A call is enough to   *)
(* cross the threshold here.                                                *)

ListSpenders ==
    /\ maint.pc = "finalize" /\ maint.rest = {}
    /\ maint' = [maint EXCEPT !.pc = "warn",
                   !.rest = {u \in Ids : /\ Active(u) /\ users[u].calls > 0
                                         /\ ~users[u].warned}]
    /\ UNCHANGED <<scenario, now, users, invites, consents, contact, work, asked>>

markSpendWarning(u) == [users EXCEPT ![u] = [@ EXCEPT !.warned = TRUE]]

checkAiSpendWarnings(u) ==
    /\ maint.pc = "warn" /\ u \in maint.rest
    /\ IF users[u] = Gone
         THEN maint' = [maint EXCEPT !.rest = @ \ {u}] /\ UNCHANGED users
         ELSE /\ users' = markSpendWarning(u)
              /\ maint' = [pc |-> "tell", to |-> u, at |-> maint.at,
                           rest |-> maint.rest \ {u},
                           restarts |-> maint.restarts, left |-> maint.left]
    /\ UNCHANGED <<scenario, now, invites, consents, contact, work, asked>>

TellSpend ==
    /\ maint.pc = "tell"
    /\ LET u == maint.to IN
       users' = IF users[u] = Gone THEN users
                ELSE [users EXCEPT ![u].notices = @ + 1]
    /\ maint' = [pc |-> "warn", at |-> maint.at, rest |-> maint.rest,
                 restarts |-> maint.restarts, left |-> maint.left]
    /\ UNCHANGED <<scenario, now, invites, consents, contact, work, asked>>

EndTick ==
    /\ maint.pc = "warn" /\ maint.rest = {}
    /\ maint' = [pc |-> "idle", restarts |-> maint.restarts, left |-> maint.left]
    /\ UNCHANGED <<scenario, now, users, invites, consents, contact, work, asked>>

-----------------------------------------------------------------------------
(* Consents.  "voice" grants the chat's provider and the transcriber, and   *)
(* "revoke text" takes both back: one row each, written side by side.       *)

Providers == {scenario.provider, "openai"}
RowsOf(op) ==
    CASE op = "grant_text"   -> {scenario.provider}
      [] op = "grant_voice"  -> Providers
      [] op = "revoke_text"  -> Providers
      [] op = "revoke_voice" -> {"openai"}

Consent(s, u) ==
    /\ work[<<s, u>>].pc = "read"
    /\ work[<<s, u>>].op \in {"grant_text", "grant_voice", "revoke_text", "revoke_voice"}
    /\ work' = [work EXCEPT ![<<s, u>>] = [pc |-> "rows", op |-> work[<<s, u>>].op,
                                       rest |-> RowsOf(work[<<s, u>>].op)]]
    /\ UNCHANGED <<scenario, now, users, invites, consents, contact, maint, asked>>

ConsentRow(s, u, p) ==
    /\ work[<<s, u>>].pc = "rows" /\ p \in work[<<s, u>>].rest
    /\ consents' = IF users[u] = Gone THEN consents
                   ELSE IF work[<<s, u>>].op \in {"grant_text", "grant_voice"}
                     THEN [consents EXCEPT ![u] = @ \cup {p}]
                     ELSE [consents EXCEPT ![u] = @ \ {p}]
    /\ IF work[<<s, u>>].rest = {p}
         THEN Ends(s, u)
         ELSE work' = [work EXCEPT ![<<s, u>>].rest = @ \ {p}]
    /\ UNCHANGED <<scenario, now, users, invites, contact, maint, asked>>

-----------------------------------------------------------------------------
(* A voice message: the gate, the download, the gate again, and the         *)
(* consent once more where the audio leaves.  A gate keeps one call back    *)
(* for the answer.                                                          *)

voiceGate(u) ==
    IF users[u] = Gone \/ users[u].ai # "enabled" THEN "suspended"
    ELSE IF ~(Providers \subseteq consents[u]) THEN "consent"
    ELSE IF users[u].calls >= MaxCalls - 1 THEN "rate_limited"
    ELSE "ready"

Voice(s, u) ==
    /\ work[<<s, u>>].op = "voice" /\ work[<<s, u>>].pc \in {"read", "downloaded"}
    /\ IF voiceGate(u) = "ready"
         THEN Goes(s, u, IF work[<<s, u>>].pc = "read" THEN "downloaded"
                                                   ELSE "transcribe")
         ELSE Ends(s, u)
    /\ UNCHANGED <<scenario, now, users, invites, consents, contact, maint, asked>>

DownloadFails(s, u) ==
    /\ work[<<s, u>>].pc = "downloaded"
    /\ Ends(s, u)
    /\ UNCHANGED <<scenario, now, users, invites, consents, contact, maint, asked>>

MaySendAlways(u) == TRUE
MaySend(u) == "openai" \in consents[u]

\* The consent is looked up, and the audio goes out two statements later; both
\* outcomes of the call are recorded as a call of the hour.
transcribe(s, u) ==
    /\ work[<<s, u>>].pc = "transcribe"
    /\ IF MaySend(u) THEN Goes(s, u, "send") ELSE Ends(s, u)
    /\ UNCHANGED <<scenario, now, users, invites, consents, contact, maint, asked>>

SendAudio(s, u) ==
    /\ work[<<s, u>>].pc = "send"
    /\ users' = IF users[u] # Gone THEN [users EXCEPT ![u].calls = @ + 1] ELSE users
    /\ Ends(s, u)
    /\ UNCHANGED <<scenario, now, invites, consents, contact, maint, asked>>

-----------------------------------------------------------------------------
(* One planned message, its worker, the clock, and a restart.               *)

Plan(u) ==
    /\ u \in scenario.contacts /\ Active(u) /\ contact[u].status = "none"
    /\ contact[u].sent = 0 /\ ~contact[u].worker
    /\ now < MaxTime
    /\ contact' = [contact EXCEPT ![u] = [@ EXCEPT !.status = "pending",
                                                   !.at = now + 1]]
    /\ UNCHANGED <<scenario, now, users, invites, consents, work, maint, asked>>

Claim(u) ==
    /\ contact[u].status = "pending" /\ contact[u].at <= now /\ ~contact[u].worker
    /\ Active(u)
    /\ contact' = [contact EXCEPT ![u] = [@ EXCEPT !.status = "processing",
                                                   !.worker = TRUE]]
    /\ UNCHANGED <<scenario, now, users, invites, consents, work, maint, asked>>

\* What is on its way arrives; the row is closed only if it is still claimed.
Deliver(u) ==
    /\ contact[u].worker
    /\ contact' = [contact EXCEPT ![u].worker = FALSE, ![u].sent = @ + 1,
           ![u].status = IF @ = "processing" THEN "sent" ELSE @]
    /\ UNCHANGED <<scenario, now, users, invites, consents, work, maint, asked>>

Tick ==
    /\ now < MaxTime
    /\ now' = now + 1
    /\ UNCHANGED <<scenario, users, invites, consents, contact, work, maint, asked>>

\* Whatever was between two steps is gone; the rows stay.
Restart ==
    /\ maint.restarts > 0
    /\ maint' = [pc |-> "idle", restarts |-> maint.restarts - 1,
                 left |-> maint.left]
    /\ work' = [a \in Surfaces \X Ids |-> Idle]
    /\ UNCHANGED <<scenario, now, users, invites, consents, contact, asked>>

-----------------------------------------------------------------------------
Operations(s, u) ==
    \/ Read(s, u) \/ addUser(s, u) \/ createRegistrationInvite(s, u)
    \/ registerFromInvite(s, u)
    \/ \E status \in {"active", "disabled"} : setUserStatus(s, u, status)
    \/ \E status \in {"enabled", "suspended"} : setAiStatus(s, u, status)
    \/ requestDeletion(s, u) \/ restoreDeletion(s, u)
    \/ Consent(s, u) \/ \E p \in Providers : ConsentRow(s, u, p)
    \/ Voice(s, u) \/ DownloadFails(s, u) \/ transcribe(s, u)
    \/ SendAudio(s, u)

Maintenance ==
    \/ ListExpired \/ ListSpenders \/ TellSpend \/ EndTick
    \/ \E u \in Ids : finalizeExpiredDeletions(u) \/ checkAiSpendWarnings(u)

Next ==
    \/ \E s \in Surfaces, u \in Ids :
          Operations(s, u) \/ \E a \in maint.left :
                                a[1] = s /\ a[2] = u /\ Arrive(s, u, a[3])
    \/ Maintenance
    \/ \E u \in Ids : Plan(u) \/ Claim(u) \/ Deliver(u)
    \/ Tick \/ Restart

Spec == Init /\ [][Next]_vars

-----------------------------------------------------------------------------
TypeOK ==
    /\ scenario \in Scenarios /\ now \in 0..MaxTime
    /\ \A u \in Ids :
         /\ users[u] = Gone \/
            /\ users[u].status \in {"active", "disabled", "deletion_pending"}
            /\ users[u].due \in 0..(MaxTime + Grace)
            /\ users[u].calls \in 0..MaxCalls
         /\ consents[u] \subseteq Providers
         /\ contact[u].status \in
              {"none", "pending", "processing", "suppressed", "sent"}

\* A link makes one account, and an account by invite spent the link: two
\* people who open the same link, or one who races an operator who adds
\* them, never share it and never lose it for nothing.
\* [AccessService.registerFromInvite]
InviteIsSpentOnce ==
    LET made == {u \in Ids : users[u] # Gone /\ users[u].via = "invite"} IN
    /\ Cardinality(made) <= 1
    /\ made # {} => invites.status = "used"

\* What a lock suppressed and the way back released is said once, also when
\* the lock met it on its way.  An operator's restore may cross the user's
\* own, with a clock read before it; without one a message goes out once.
\* [suppressPendingForUser, restoreFutureAccessSuppressed]
ContactIsNotRepeated ==
    (\A o \in scenario.ops : o[1] # "cli") => \A u \in Ids : contact[u].sent <= 1

\* Nobody hears of the spend of one month twice, crashes included.
\* [MaintenanceService.checkAiSpendWarnings]
SpendIsToldOnce == \A u \in Ids : users[u] # Gone => users[u].notices <= 1

\* An account disappears only while its owner's request stands, and only
\* when its grace has run out: not one that came back between the list of a
\* tick and its own turn.  [AccessService.finalizeExpiredDeletions]
AskedDeletion ==
    \A u \in Ids : users[u] # Gone /\ users'[u] = Gone
      => u \in asked /\ users[u].due # 0 /\ users[u].due <= now
DeletionIsAsked == [][AskedDeletion]_vars

\* Audio leaves for the transcriber only on a consent that stands at that
\* moment: a chat handles one update at a time, so no command of it takes the
\* consent back under a voice message.  The app may, after the last look.
\* [TranscriptionService.transcribe, ChatService.voiceGate]
AppDid(u, ops) == \E op \in ops : <<"app", u, op>> \in scenario.ops \ maint.left
AskedVoice ==
    \A u \in Ids : users[u] # Gone /\ users'[u] # Gone
      => (users'[u].calls > users[u].calls =>
            \/ "openai" \in consents[u]
            \/ AppDid(u, {"revoke_text", "revoke_voice", "delete_account"}))
VoiceIsAsked == [][AskedVoice]_vars
=============================================================================
