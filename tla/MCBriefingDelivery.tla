-------------------------- MODULE MCBriefingDelivery --------------------------
(* BriefingDelivery for TLC: a day of four moments, one or two handlers.     *)
EXTENDS BriefingDelivery, TLC

CONSTANTS h1, h2

OneHandler == {h1}
TwoHandlers == {h1, h2}
Symmetry == Permutations(Workers)

NoQuiet == {}
EarlyQuiet == {0, 1}
OneHour == {1}
OneZone == {0}
TwoZones == {0, 1}
OneMoment == {1}

(* A crash and a failing call, anywhere. *)
Failing == [handlers |-> 2, crashes |-> 1, faults |-> 1, edits |-> 0, kinds |-> {}]

(* The digest is turned on, off and moved, the account disabled and restored. *)
Edited ==
  [handlers |-> 1, crashes |-> 0, faults |-> 0, edits |-> 2, kinds |-> EditKinds]

(* Telegram asks to wait, and the queue does not take the row either. *)
RefusedTwice == [Failing EXCEPT !.handlers = 1, !.crashes = 0, !.faults = 2]

Disturbances == {Failing, Edited, RefusedTwice}

(* One handler, to follow a card to its end. *)
Alone == {[Failing EXCEPT !.handlers = 1]}

(* Telegram's answer is lost, once. *)
AnswerLost == {[Failing EXCEPT !.handlers = 1, !.crashes = 0]}
=============================================================================
