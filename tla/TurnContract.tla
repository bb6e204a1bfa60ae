------------------------------ MODULE TurnContract ------------------------------
(* What the conversation promises about one message, however often it is        *)
(* delivered, retried or asked again: it changes the user's data at most once,  *)
(* and a change it only offered may be withdrawn before it is made, never after.*)
CONSTANT Messages
VARIABLE effect

TypeOK == effect \in [Messages -> {"none", "offered", "made"}]
Init == effect = [m \in Messages |-> "none"]

Become(m, from, to) == effect[m] \in from /\ effect' = [effect EXCEPT ![m] = to]
Offer(m) == Become(m, {"none"}, "offered")
Make(m) == Become(m, {"none", "offered"}, "made")
Withdraw(m) == Become(m, {"offered"}, "none")
(* A turn that makes or offers its own change may withdraw the card it answers. *)
Answer(m, c) ==
  /\ c # m /\ effect[c] = "offered" /\ effect[m] = "none"
  /\ \E e \in {"offered", "made"} : effect' = [effect EXCEPT ![m] = e, ![c] = "none"]

Next == \E m \in Messages : Offer(m) \/ Make(m) \/ Withdraw(m) \/ \E c \in Messages : Answer(m, c)
Spec == Init /\ [][Next]_effect
===============================================================================
