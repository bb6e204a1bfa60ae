------------------------------- MODULE Dialogue -------------------------------
(* What a chat with one user keeps besides the tasks: its turns, its topics, the *)
(* settings, the accounts, and the goals with the memory.  Each part runs in a   *)
(* world of its own: in the others no text is ever sent, and the variables of    *)
(* the other parts are off.                                                      *)
EXTENDS ChatTurns, Sequences

CONSTANTS
  SettingsScenarios, LastVersion,                   \* as Scenarios, MaxVersion in Settings
  AccountScenarios, LastTime, Grace, InviteTtl,     \* as Scenarios, MaxTime in Accounts
  TopicScenarios, MaxTopics, Checkpoint,            \* as in Topics
  GoalScenarios, Goals, Tasks, Facts, LastRow,      \* as in GoalsAndMemory, whose
  OverviewLimit, IdleDays, AttentionLimit           \* MaxVersion is LastRow

VARIABLES world, story, journal,
          row, req, agent, chat, moved,
          users, invites, consents, contact, maint, asked,
          topics, budget, split,
          db, handler,
          agentTurn, screen, now, work

S == INSTANCE Settings WITH
       scenario <- story, groups <- journal, Scenarios <- SettingsScenarios,
       MaxVersion <- LastVersion
A == INSTANCE Accounts WITH
       scenario <- story, Scenarios <- AccountScenarios, MaxTime <- LastTime
T == INSTANCE Topics WITH
       scenario <- story, Scenarios <- TopicScenarios
G == INSTANCE GoalsAndMemory WITH
       scenario <- story, groups <- journal, turn <- agentTurn,
       Scenarios <- GoalScenarios, MaxVersion <- LastRow

(* A deletion waits, what may happen to the parts is a scenario, and a           *)
(* conversation starts with one topic open at most and no question over the      *)
(* checkpoint.                                                                   *)
ASSUME DialogueAssumption ==
  /\ LastTime \in Nat /\ Grace \in Nat \ {0} /\ InviteTtl \in Nat
  /\ AccountScenarios \subseteq A!Scenario
  /\ GoalScenarios \subseteq G!Scenario /\ IdleDays \in Nat /\ LastRow \in Nat
  /\ SettingsScenarios \subseteq S!Scenario /\ LastVersion \in Nat \ {0}
  /\ MaxTopics \in Nat /\ Checkpoint \in Nat
  /\ \A s \in TopicScenarios :
       /\ s.directives \subseteq T!Directives /\ s.turns \in Nat
       /\ s.start \in Seq([status: T!Statuses, text: BOOLEAN, fresh: BOOLEAN,
                           count: 0 .. Checkpoint, at: Nat])
       /\ Len(s.start) <= MaxTopics
       /\ \A i, j \in 1 .. Len(s.start) :
            s.start[i].status = "active" /\ s.start[j].status = "active" => i = j

settingsOnly == <<row, req, agent, chat, moved>>
accountsOnly == <<users, invites, consents, contact, maint, asked>>
topicsOnly == <<topics, budget, split>>
goalsOnly == <<db, handler, agentTurn>>

NoSettings == row = 0 /\ req = 0 /\ agent = 0 /\ chat = 0 /\ moved = 0
NoAccounts == /\ users = 0 /\ invites = 0 /\ consents = 0 /\ contact = 0 /\ maint = 0
              /\ asked = 0
NoTopics == topics = 0 /\ budget = 0 /\ split = 0
NoGoals == db = 0 /\ handler = 0 /\ agentTurn = 0
Silent == Init /\ scenario = CHOOSE s \in Scenarios : TRUE
DialogueInit ==
  \/ /\ world = "chat" /\ Init
     /\ story = 0 /\ journal = 0 /\ screen = 0 /\ now = 0 /\ work = 0
     /\ NoSettings /\ NoAccounts /\ NoTopics /\ NoGoals
  \/ /\ world = "settings" /\ S!Init /\ Silent /\ now = 0 /\ work = 0
     /\ NoAccounts /\ NoTopics /\ NoGoals
  \/ /\ world = "accounts" /\ A!Init /\ Silent /\ journal = 0 /\ screen = 0
     /\ NoSettings /\ NoTopics /\ NoGoals
  \/ /\ world = "topics" /\ T!Init /\ Silent /\ journal = 0 /\ screen = 0 /\ now = 0
     /\ NoSettings /\ NoAccounts /\ NoGoals
  \/ /\ world = "goals" /\ G!Init /\ Silent /\ work = 0
     /\ NoSettings /\ NoAccounts /\ NoTopics

InChat == /\ world = "chat" /\ Next
          /\ UNCHANGED <<world, story, journal, settingsOnly, accountsOnly, topicsOnly,
                         goalsOnly, screen, now, work>>
InSettings == /\ world = "settings" /\ S!Next
              /\ UNCHANGED <<world, vars, accountsOnly, topicsOnly, goalsOnly, now, work>>
InAccounts == /\ world = "accounts" /\ A!Next
              /\ UNCHANGED <<world, vars, journal, settingsOnly, topicsOnly, goalsOnly,
                             screen>>
InTopics == /\ world = "topics" /\ T!Next
            /\ UNCHANGED <<world, vars, journal, settingsOnly, accountsOnly, goalsOnly,
                           screen, now>>
InGoals == /\ world = "goals" /\ G!Next
           /\ UNCHANGED <<world, vars, settingsOnly, accountsOnly, topicsOnly, work>>
allVars == <<world, vars, story, journal, settingsOnly, accountsOnly, topicsOnly, goalsOnly,
             screen, now, work>>
DialogueNext == InChat \/ InSettings \/ InAccounts \/ InTopics \/ InGoals
DialogueSpec == DialogueInit /\ [][DialogueNext]_allVars
-------------------------------------------------------------------------------
(* Every variable has its type.                                                  *)
TypesOK ==
  /\ TypeOK
  /\ world = "settings" => S!TypeOK
  /\ world = "accounts" => A!TypeOK
  /\ world = "topics" => T!TypeOK
  /\ world = "goals" => G!TypeOK

(* What the code means to happen once does: one topic is open, an invite makes   *)
(* one account, what a lock held back is said once, a month's spend is told once. *)
OnceIsOnce ==
  /\ world = "topics" => T!OneTopicIsOpen
  /\ world = "accounts" =>
       A!InviteIsSpentOnce /\ A!ContactIsNotRepeated /\ A!SpendIsToldOnce

(* An undo takes back its own group and nothing written since: of the settings'  *)
(* columns, of goals, of facts.                                                  *)
UndoIsExact ==
  [][/\ world = "settings" => S!OwnUndo
     /\ world = "goals" => G!ExactUndo]_allVars

(* Nothing happens to the user's data that was not asked for, as it was asked:   *)
(* no account is deleted without a standing request whose grace ran out, no      *)
(* voice leaves without a standing consent unless the app took it back beside    *)
(* the chat, no screen's write lands on a row it did not show.                   *)
NothingUnasked ==
  [][/\ world = "accounts" => A!AskedDeletion /\ A!AskedVoice
     /\ world = "goals" => G!HeededScreens]_allVars

(* "Everything that is on or off is a switch on the row", says the settings      *)
(* screen: the switch of the weekly review sends neither weekday nor hour, which *)
(* the server refuses.                                                           *)
SwitchesWork == world = "settings" => S!SwitchesWork
===============================================================================
