------------------------------- MODULE Topics -------------------------------
(* The conversation topics of one user (src/context, src/core/context-policy.ts *)
(* and the turns of src/chat/chat.service.ts): the one topic a conversation is *)
(* about, and everything that opens, continues, pauses, resolves or scrubs it. *)
(*                                                                             *)
(* The bot's handler works on one update of the user at a time; the retry loop *)
(* answers waiting messages, the web client clears the history and maintenance *)
(* scrubs old summaries beside it. Every statement of the repository is a step: *)
(* a statement reads the rows committed when it starts (READ COMMITTED) and    *)
(* writes those of them that still match, and the two statements of a          *)
(* transaction become visible together, at its commit. Which of two            *)
(* overlapping transactions commits first is left open.                        *)
EXTENDS Integers, Sequences, FiniteSets

CONSTANTS
  Scenarios,   \* [start, directives, controls, by, ops, faults, ages, turns]
  MaxTopics,   \* bound on the rows of conversation_topics
  Checkpoint   \* CLARIFICATION_CHECKPOINT

VARIABLES
  scenario,
  topics,   \* Seq of [status, text, fresh, count, at]
  work,     \* Workers -> the step each is at, and what it has read
  budget,   \* [turns, faults, ages]
  split     \* ghost: the last transaction to open a topic overlapped another

vars == <<scenario, topics, work, budget, split>>

Workers == {"handler", "retry", "web", "maintenance"}
Statuses == {"active", "paused", "resolved", "abandoned"}
Modes == {"none", "continue", "new", "resolve"}
\* The model's directive; `title` and `summary` say whether a non-blank one came.
Directives == [mode : Modes, title : BOOLEAN, summary : BOOLEAN, asked : BOOLEAN]
NoDirective == [mode |-> "none", title |-> FALSE, summary |-> FALSE, asked |-> FALSE]

Idle == [pc |-> "idle", dir |-> NoDirective, current |-> 0, count |-> 0, topic |-> 0,
         text |-> FALSE, seen |-> {}, overlapped |-> FALSE, told |-> FALSE]

Init ==
  /\ scenario \in Scenarios
  /\ topics = scenario.start
  /\ work = [w \in Workers |-> Idle]
  /\ budget = [turns |-> scenario.turns, faults |-> scenario.faults, ages |-> scenario.ages]
  /\ split = FALSE

Ids == 1..Len(topics)
WithStatus(s) == {i \in Ids : topics[i].status = s}
Active == WithStatus("active")

\* listTopics and findActiveTopic order by lastMessageAt: the active row written last.
ActiveTopic == IF Active = {} THEN 0
               ELSE CHOOSE i \in Active : \A j \in Active : topics[j].at <= topics[i].at

Latest == IF Ids = {} THEN 0 ELSE CHOOSE a \in {topics[i].at : i \in Ids} :
                                    \A i \in Ids : topics[i].at <= a

\* Bring a directive into a shape the context layer can always apply.
normalizeTopicDirective(d, hasActive) ==
  LET none == [NoDirective EXCEPT !.asked = d.asked]
      opened == [d EXCEPT !.mode = "new", !.summary = TRUE]
  IN CASE d.mode = "none" -> none
       [] d.mode = "new" /\ d.title -> opened
       [] d.mode = "new" /\ ~d.title ->
            IF hasActive /\ d.summary THEN [d EXCEPT !.mode = "continue"] ELSE none
       [] d.mode \in {"continue", "resolve"} /\ ~hasActive ->
            IF d.mode = "continue" /\ d.title THEN opened ELSE none
       [] OTHER -> [d EXCEPT !.title = @ /\ d.mode = "continue"]

Goto(w, pc) == work' = [work EXCEPT ![w].pc = pc]
Done(w) == work' = [work EXCEPT ![w] = Idle]
Fault == budget.faults > 0 /\ budget' = [budget EXCEPT !.faults = @ - 1]

----------------------------------------------------------------------------
(* A turn of the model: the handler's for a message just typed, the retry      *)
(* loop's for one that waited. What the context showed is read first; the      *)
(* answer comes later, and the directive is applied to what is active then.    *)

BeginTurn(w) ==
  /\ w \in {"handler", "retry"} /\ w \in scenario.by /\ work[w].pc = "idle"
  /\ budget.turns > 0 /\ budget' = [budget EXCEPT !.turns = @ - 1]
  /\ work' = [work EXCEPT ![w] =
       [Idle EXCEPT !.pc = "thinking", !.current = ActiveTopic,
                    !.count = IF ActiveTopic = 0 THEN 0 ELSE topics[ActiveTopic].count]]
  /\ UNCHANGED <<scenario, topics, split>>

\* A message that asks to save nothing keeps the topic as it is and is not counted.
AnswerWithoutSaving(w) ==
  /\ work[w].pc = "thinking" /\ "no_persist" \in scenario.controls
  /\ Done(w)
  /\ UNCHANGED <<scenario, topics, budget, split>>

\* applyTopicDirective: the active topic is read, and the directive normalised by it.
Answer(w) ==
  /\ work[w].pc = "thinking"
  /\ \E d \in scenario.directives :
       LET n == normalizeTopicDirective(d, ActiveTopic # 0)
       IN work' = [work EXCEPT
            ![w].dir = n, ![w].topic = ActiveTopic,
            ![w].text = ActiveTopic # 0 /\ topics[ActiveTopic].text,
            ![w].pc = IF n.mode = "none" THEN "pause"
                      ELSE IF n.mode = "resolve" THEN "commit" ELSE "begin"]
  /\ UNCHANGED <<scenario, topics, budget, split>>

Paused(t, S) == [i \in DOMAIN t |-> IF i \in S /\ t[i].status = "active"
                                    THEN [t[i] EXCEPT !.status = "paused"] ELSE t[i]]

\* The first statement of createTopic and updateTopic pauses the active rows it sees.
\* `overlapped` records, on both sides, that two such transactions were open at once.
OpenIn(w) == work[w].pc = "commit" /\ work[w].dir.mode # "resolve"
Begin(w) ==
  /\ work[w].pc = "begin"
  /\ LET others == {v \in Workers \ {w} : OpenIn(v)}
     IN work' = [v \in Workers |->
          IF v = w THEN [work[w] EXCEPT !.pc = "commit", !.overlapped = others # {},
                           !.seen = IF work[w].dir.mode = "new" THEN Active
                                    ELSE Active \ {work[w].topic}]
          ELSE IF v \in others THEN [work[v] EXCEPT !.overlapped = TRUE] ELSE work[v]]
  /\ UNCHANGED <<scenario, topics, budget, split>>

\* The second statement of createTopic: the new row, active; then the commit.
CreateTopic(w) ==
  /\ work[w].pc = "commit" /\ work[w].dir.mode = "new" /\ Len(topics) < MaxTopics
  /\ topics' = Append(Paused(topics, work[w].seen),
                      [status |-> "active", text |-> TRUE, fresh |-> TRUE,
                       count |-> 0, at |-> Latest + 1])
  /\ split' = work[w].overlapped
  /\ work' = IF work[w].told THEN [work EXCEPT ![w] = Idle]
             ELSE [work EXCEPT ![w].pc = "count", ![w].topic = Len(topics) + 1]
  /\ UNCHANGED <<scenario, budget>>

\* The second statement of updateTopic: the row that was active when it was read,
\* by its id and whatever its status is by now.
Continued(row, l) ==
  [row EXCEPT !.status = IF l.dir.mode = "resolve" THEN "resolved" ELSE "active",
              !.text = l.dir.title \/ l.dir.summary \/ l.text, !.fresh = TRUE,
              !.at = Latest + 1]
UpdateTopicAlone(w) ==
  /\ work[w].pc = "commit" /\ work[w].dir.mode \in {"continue", "resolve"}
  /\ LET l == work[w]
     IN /\ topics' = [topics EXCEPT ![l.topic] = Continued(@, l)]
        /\ split' = IF l.dir.mode = "resolve" THEN split ELSE l.overlapped
  /\ Goto(w, "count")
  /\ UNCHANGED <<scenario, budget>>
UpdateTopic(w) ==
  /\ work[w].pc = "commit" /\ work[w].dir.mode \in {"continue", "resolve"}
  /\ LET l == work[w]
     IN /\ topics' = [Paused(topics, l.seen) EXCEPT ![l.topic] = Continued(@, l)]
        /\ split' = IF l.dir.mode = "resolve" THEN split ELSE l.overlapped
  /\ Goto(w, "count")
  /\ UNCHANGED <<scenario, budget>>
\* pauseActiveTopics, for a directive of "none", a cancelled draft or a cleared history.
PauseActive(w) ==
  /\ work[w].pc = "pause"
  /\ topics' = Paused(topics, Active)
  /\ split' = FALSE
  /\ Done(w)
  /\ UNCHANGED <<scenario, budget>>

\* A failed write is logged, and the turn goes on with the topic its context showed.
TopicFails(w) ==
  /\ w \in {"handler", "retry"} /\ work[w].pc \in {"begin", "commit", "pause"}
  /\ ~work[w].told /\ Fault
  /\ work' = [work EXCEPT ![w].topic = work[w].current,
                          ![w].pc = IF work[w].current = 0 THEN "idle" ELSE "count",
                          ![w].overlapped = FALSE, ![w].seen = {}]
  /\ UNCHANGED <<scenario, topics, split>>

\* updateClarificationCount, under the row's lock: a question counts on an open topic.
CountOf(row, asked) ==
  IF row.status \in {"resolved", "abandoned"} \/ ~asked THEN 0 ELSE row.count + 1

Count(w) ==
  /\ work[w].pc = "count"
  /\ LET l == work[w]
         n == CountOf(topics[l.topic], l.dir.asked)
     IN /\ topics' = [topics EXCEPT ![l.topic].count = n]
        /\ work' = IF l.dir.asked /\ n >= Checkpoint
                   THEN [work EXCEPT ![w].pc = "reset"]
                   ELSE [work EXCEPT ![w] = Idle]
  /\ UNCHANGED <<scenario, budget, split>>

\* A count that fails stands for the one the context showed before the turn.
CountFails(w) ==
  /\ work[w].pc = "count" /\ Fault
  /\ work' = IF work[w].dir.asked /\ work[w].count >= Checkpoint
             THEN [work EXCEPT ![w].pc = "reset"] ELSE [work EXCEPT ![w] = Idle]
  /\ UNCHANGED <<scenario, topics, split>>

\* The reply says there is a way to stop; the count starts again, or stays if that fails.
Reset(w) ==
  /\ work[w].pc = "reset"
  /\ \/ topics' = [topics EXCEPT ![work[w].topic].count = 0] /\ UNCHANGED budget
     \/ Fault /\ UNCHANGED topics
  /\ Done(w)
  /\ UNCHANGED <<scenario, split>>

----------------------------------------------------------------------------
(* What the user asks for in so many words.                                    *)

\* endConversation and concludeConversation read the active topic and resolve it;
\* a conclusion asks the model in between. With no topic there is nothing to end.
AskToEnd(w) ==
  /\ w = "handler" /\ work[w].pc = "idle" /\ "end" \in scenario.ops /\ ActiveTopic # 0
  /\ budget.turns > 0 /\ budget' = [budget EXCEPT !.turns = @ - 1]
  /\ work' = [work EXCEPT ![w] = [Idle EXCEPT !.pc = "resolve", !.topic = ActiveTopic]]
  /\ UNCHANGED <<scenario, topics, split>>

\* resolveTopic: only an open or a paused topic can be resolved.
ResolveTopic(w) ==
  /\ work[w].pc = "resolve"
  /\ topics' = IF topics[work[w].topic].status \in {"active", "paused"}
               THEN [topics EXCEPT ![work[w].topic] =
                       [@ EXCEPT !.status = "resolved", !.count = 0, !.at = Latest + 1]]
               ELSE topics
  /\ Done(w)
  /\ UNCHANGED <<scenario, budget, split>>

\* startProfile opens a topic of its own, as `new` does.
StartProfile ==
  /\ work["handler"].pc = "idle" /\ "profile" \in scenario.ops
  /\ budget.turns > 0 /\ budget' = [budget EXCEPT !.turns = @ - 1]
  /\ work' = [work EXCEPT !["handler"] =
       [Idle EXCEPT !.pc = "begin", !.told = TRUE,
                    !.dir = [NoDirective EXCEPT !.mode = "new"]]]
  /\ UNCHANGED <<scenario, topics, split>>

\* /cancel in the chat and «clear» in the client pause what is active.
AskToPause(w) ==
  /\ w \in {"handler", "web"} /\ work[w].pc = "idle" /\ "pause" \in scenario.ops
  /\ budget.turns > 0 /\ budget' = [budget EXCEPT !.turns = @ - 1]
  /\ work' = [work EXCEPT ![w] = [Idle EXCEPT !.pc = "pause", !.told = TRUE]]
  /\ UNCHANGED <<scenario, topics, split>>

----------------------------------------------------------------------------
(* Ninety days without a message, and the scrub of what was said.              *)

Age(i) ==
  /\ budget.ages > 0 /\ i \in Ids /\ topics[i].fresh
  /\ budget' = [budget EXCEPT !.ages = @ - 1]
  /\ topics' = [topics EXCEPT ![i].fresh = FALSE]
  /\ UNCHANGED <<scenario, work, split>>

Expired == {i \in Ids : ~topics[i].fresh /\ topics[i].text}
ScrubRead ==
  /\ work["maintenance"].pc = "idle" /\ Expired # {}
  /\ work' = [work EXCEPT !["maintenance"] = [Idle EXCEPT !.pc = "scrub", !.seen = Expired]]
  /\ UNCHANGED <<scenario, topics, budget, split>>
ScrubWrite ==
  /\ work["maintenance"].pc = "scrub"
  /\ topics' = [i \in Ids |-> IF i \in work["maintenance"].seen
                              THEN [topics[i] EXCEPT !.status = "abandoned", !.text = FALSE]
                              ELSE topics[i]]
  /\ Done("maintenance")
  /\ UNCHANGED <<scenario, budget, split>>

Turn(w) ==
  \/ BeginTurn(w) \/ AnswerWithoutSaving(w) \/ Answer(w) \/ Begin(w) \/ CreateTopic(w)
  \/ UpdateTopic(w) \/ TopicFails(w) \/ Count(w) \/ CountFails(w) \/ Reset(w)
Ask(w) == AskToEnd(w) \/ ResolveTopic(w) \/ AskToPause(w) \/ PauseActive(w)
Next ==
  \/ \E w \in Workers : Turn(w) \/ Ask(w)
  \/ StartProfile \/ (\E i \in Ids : Age(i)) \/ ScrubRead \/ ScrubWrite

Spec == Init /\ [][Next]_vars

----------------------------------------------------------------------------
TypeOK ==
  /\ scenario \in Scenarios
  /\ Len(topics) <= MaxTopics
  /\ \A i \in Ids : /\ topics[i].status \in Statuses
                    /\ topics[i].count \in 0..(Checkpoint + scenario.turns)
  /\ \A w \in Workers : /\ work[w].dir \in Directives /\ work[w].seen \subseteq Ids
                        /\ work[w].pc \in {"idle", "thinking", "begin", "commit", "pause",
                                           "count", "reset", "resolve", "scrub"}

\* There is one topic the model's `continue` and `resolve` address. Two stay active only
\* when the transactions that opened them overlapped, and the next directive applied on
\* its own leaves one again, even when it writes a topic somebody else has paused since.
OneTopicIsOpen == split \/ Cardinality(Active) <= 1

\* docs/AGENT_FLOW.md:217: the model cannot resume a topic that was paused. A turn that
\* read the topic before somebody paused or ended it writes it active all the same.
PausedIsNotResumed ==
  [][\A i \in Ids : topics[i].status # "active" => topics'[i].status # "active"]_vars
=============================================================================
