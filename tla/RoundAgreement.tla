-------------------------- MODULE RoundAgreement --------------------------
(***************************************************************************)
(* What QoI consensus promises, with no messages, views or quorums: in     *)
(* each round at most one class is chosen, it stays chosen, and the nodes  *)
(* that finish the round produce an outcome with the chosen class.         *)
(***************************************************************************)
CONSTANTS Node, Class, Round, None

VARIABLES
  chosen,   \* the class chosen in each round, None before
  decided   \* the outcomes nodes have produced

avars == <<chosen, decided>>

Init ==
  /\ chosen = [s \in Round |-> None]
  /\ decided = {}

Choose(s, c) ==
  /\ chosen[s] = None
  /\ chosen' = [chosen EXCEPT ![s] = c]
  /\ UNCHANGED decided

Decide(n, s) ==
  /\ chosen[s] # None
  /\ decided' = decided \cup {[node |-> n, seq |-> s, class |-> chosen[s]]}
  /\ UNCHANGED chosen

Next ==
  \E s \in Round :
    \/ \E c \in Class : Choose(s, c)
    \/ \E n \in Node : Decide(n, s)

Spec == Init /\ [][Next]_avars
=============================================================================
