--------------------------- MODULE QoIConsensus ---------------------------
(***************************************************************************)
(* One QoI (Quality of Inference) consensus round after another, run by    *)
(* one QoIStateMachine per node (core/qoi/state_machine.py).               *)
(*                                                                         *)
(* Both drivers of the machine (ConsensusEngine._run_qoi_round and         *)
(* InferenceNode.start_qoi_round) build a machine and start it without an  *)
(* await in between, so a machine takes messages only once its round has   *)
(* started: before that, phase is IDLE and every message is dropped.       *)
(*                                                                         *)
(* Abstractions:                                                           *)
(*  - net is the set of all messages ever sent.  A step may deliver any of *)
(*    them to any node, its sender included, any number of times, in any   *)
(*    order, or never.  The P2P layer hands each consensus message to the  *)
(*    engine in a task of its own and forwards it with no duplicate check, *)
(*    so wherever three peers are linked in a ring all of this happens.    *)
(*  - The InferenceNode keeps its machine after a commit; the engine drops *)
(*    it, which is the case of a node that is sent nothing more.           *)
(*  - The DNN is the choice of a class when the round starts; a node with  *)
(*    a bad model chooses another class than the rest.                     *)
(*  - Time is left out: a started round that has not committed may time    *)
(*    out at any moment.                                                   *)
(*  - Signatures, probability vectors and reward scores are left out.      *)
(***************************************************************************)
EXTENDS Naturals, FiniteSets

CONSTANTS
  Node,       \* members of the elected quorum
  Rank,       \* the order of node ids, used to break ties
  F,          \* quorum-local f of the round
  Class,      \* classes a model may answer with
  Request,    \* ids of inference requests
  Primaries,  \* nodes a driver may name as the primary of a round
  MaxSeq,     \* bound: rounds a node starts
  MaxView,    \* bound: views a node asks for
  MaxSum,     \* bound: rounds of any node plus the view asked for by any other
  Up,         \* nodes that do not crash: fairness is assumed of them alone
  None        \* the absence of a value

ASSUME NodeAssumption == /\ IsFiniteSet(Node)
                         /\ Primaries \subseteq Node /\ Up \subseteq Node
ASSUME RankAssumption ==
  /\ Rank \in [Node -> Nat]
  /\ \A m, n \in Node : Rank[m] = Rank[n] => m = n
ASSUME BoundAssumption ==
  /\ F \in Nat /\ MaxSeq \in Nat /\ MaxView \in Nat /\ MaxSum \in Nat
ASSUME NoneAssumption == None \notin Class \cup Request \cup Node

VARIABLES
  phase,            \* QoIPhase of each node's machine
  view,             \* current view
  seq,              \* sequence number of the round, 0 before the first one
  primary,          \* primary_id
  request,          \* _request_id
  own,              \* the node's own answer, _node_responses[node_id]
  prepares,         \* _prepares: at most one PREPARE of each sender
  commits,          \* _commits: at most one COMMIT of each sender
  viewChanges,      \* _view_changes: at most one VIEW_CHANGE of each sender
  consensusClass,   \* _consensus_class
  net,              \* every message sent so far
  decided           \* history: every outcome a machine produced

vars == <<phase, view, seq, primary, request, own, prepares, commits,
          viewChanges, consensusClass, net, decided>>

-----------------------------------------------------------------------------
(* Messages, core/qoi/messages.py *)

Phase == {"IDLE", "PRE_PREPARE", "PREPARE", "COMMIT", "COMMITTED",
          "VIEW_CHANGE"}

PrePrepareMsg == [type : {"pre_prepare"}, view : Nat, seq : Nat,
                  sender : Node, request : Request, class : Class]
PrepareMsg    == [type : {"prepare"}, view : Nat, seq : Nat,
                  sender : Node, request : Request, class : Class]
CommitMsg     == [type : {"commit"}, view : Nat, seq : Nat,
                  sender : Node, request : Request, class : Class]
ViewChangeMsg == [type : {"view_change"}, view : Nat, seq : Nat,
                  sender : Node, newView : Nat, lastSeq : Nat]
NewViewMsg    == [type : {"new_view"}, view : Nat, seq : Nat,
                  sender : Node, newView : Nat]
Message == PrePrepareMsg \cup PrepareMsg \cup CommitMsg \cup ViewChangeMsg
             \cup NewViewMsg

Outcome == [node : Node, view : Nat, seq : Nat, request : Request,
            class : Class]

\* MUTANT of Threshold: f+1 votes taken for a quorum.
ThresholdWeak == F + 1
\* MUTANT of Threshold: more than 2f+1 votes waited for.
ThresholdStrict == 2 * F + 2

Threshold == 2 * F + 1

Senders(S) == {m.sender : m \in S}

\* The senders of the PREPAREs of S that vote for class c.
VotersFor(S, c) == {n \in Node : \E m \in S : m.sender = n /\ m.class = c}

\* MUTANT of WinningClasses: 2f+1 votes in all, for whatever class.
WinningClassesPlurality(S) ==
  {c \in Class : /\ Cardinality(Senders(S)) >= Threshold
                 /\ VotersFor(S, c) # {}}

\* The classes with 2f+1 votes.  When there could be two, the code takes the
\* first it meets.
WinningClasses(S) == {c \in Class : Cardinality(VotersFor(S, c)) >= Threshold}

\* A dictionary keyed by sender: m replaces what its sender stored before.
Store(S, m) == {k \in S : k.sender # m.sender} \cup {m}

\* The sender with the highest last_seq, the lowest id first among equals.
ElectNewPrimary(S) ==
  LET best == CHOOSE m \in S : \A k \in S :
                \/ m.lastSeq > k.lastSeq
                \/ m.lastSeq = k.lastSeq /\ Rank[m.sender] <= Rank[k.sender]
  IN  best.sender

\* The highest view that a message of S asks for, as a set of one element.
MaxNewView(S) == {v \in {m.newView : m \in S} : \A m \in S : m.newView <= v}

\* MUTANT of TakesOver: no 2f+1 VIEW_CHANGEs asked for.
TakesOverAtOnce(n, S) == ElectNewPrimary(S) = n

\* Node n holds 2f+1 VIEW_CHANGEs and elects itself.
TakesOver(n, S) ==
  /\ Cardinality(Senders(S)) >= Threshold
  /\ ElectNewPrimary(S) = n

\* MUTANT of SameRound: the round of the message is not looked at.
SameViewOnly(n, m) == m.view = view[n]

\* Message m belongs to the view and the round the node is in.
SameRound(n, m) == m.view = view[n] /\ m.seq = seq[n]

\* The node's vote for its own answer.
OwnPrepare(n) ==
  [type |-> "prepare", view |-> view[n], seq |-> seq[n], sender |-> n,
   request |-> request[n], class |-> own[n]]

\* The node's COMMIT for class c.
OwnCommit(n, c) ==
  [type |-> "commit", view |-> view[n], seq |-> seq[n], sender |-> n,
   request |-> request[n], class |-> c]

\* Message m of type t reaches the machine of node n and is not stale.
Deliverable(n, m, t) ==
  /\ m.type = t
  /\ phase[n] # "IDLE"
  /\ m.view >= view[n]

\* What a node does not drop: the proposal it waits for, a vote it has not
\* counted, a COMMIT that agrees with its own.
TakesPrePrepare(n, m) ==
  /\ Deliverable(n, m, "pre_prepare")
  /\ phase[n] = "PRE_PREPARE"
  /\ m.sender = primary[n]
  /\ SameRound(n, m)

TakesPrepare(n, m) ==
  /\ Deliverable(n, m, "prepare")
  /\ phase[n] \in {"PRE_PREPARE", "PREPARE"}
  /\ SameRound(n, m)
  /\ m.sender \notin Senders(prepares[n])

TakesCommit(n, m) ==
  /\ Deliverable(n, m, "commit")
  /\ phase[n] = "COMMIT"
  /\ SameRound(n, m)
  /\ m.sender \notin Senders(commits[n])
  /\ m.class = consensusClass[n]

-----------------------------------------------------------------------------
Init ==
  /\ phase = [n \in Node |-> "IDLE"]
  /\ view = [n \in Node |-> 0]
  /\ seq = [n \in Node |-> 0]
  /\ primary = [n \in Node |-> None]
  /\ request = [n \in Node |-> None]
  /\ own = [n \in Node |-> None]
  /\ prepares = [n \in Node |-> {}]
  /\ commits = [n \in Node |-> {}]
  /\ viewChanges = [n \in Node |-> {}]
  /\ consensusClass = [n \in Node |-> None]
  /\ net = {}
  /\ decided = {}

(* A driver builds a machine for its next round and starts it with the     *)
(* class c its model gave for request r.  The primary sends PRE_PREPARE;   *)
(* it does not store a PREPARE of its own.                                 *)
StartRound(n, p, r, c) ==
  /\ seq[n] < MaxSeq
  /\ \A m \in net : m.type = "view_change" => seq[n] + 1 + m.newView <= MaxSum
  /\ phase' = [phase EXCEPT ![n] = "PRE_PREPARE"]
  /\ view' = [view EXCEPT ![n] = 0]
  /\ seq' = [seq EXCEPT ![n] = @ + 1]
  /\ primary' = [primary EXCEPT ![n] = p]
  /\ request' = [request EXCEPT ![n] = r]
  /\ own' = [own EXCEPT ![n] = c]
  /\ prepares' = [prepares EXCEPT ![n] = {}]
  /\ commits' = [commits EXCEPT ![n] = {}]
  /\ viewChanges' = [viewChanges EXCEPT ![n] = {}]
  /\ consensusClass' = [consensusClass EXCEPT ![n] = None]
  /\ net' = IF p = n
            THEN net \cup {[type |-> "pre_prepare", view |-> 0,
                            seq |-> seq[n] + 1, sender |-> n, request |-> r,
                            class |-> c]}
            ELSE net
  /\ UNCHANGED decided

(* PRE_PREPARE from the known primary: the node stores and sends its own   *)
(* PREPARE.  It does not look whether that PREPARE completes a quorum.     *)
HandlePrePrepare(n, m) ==
  /\ TakesPrePrepare(n, m)
  /\ phase' = [phase EXCEPT ![n] = "PREPARE"]
  /\ prepares' = [prepares EXCEPT ![n] = Store(@, OwnPrepare(n))]
  /\ net' = net \cup {OwnPrepare(n)}
  /\ UNCHANGED <<view, seq, primary, request, own, commits, viewChanges,
                 consensusClass, decided>>

(* PREPARE from a sender not heard before: with it a class may reach 2f+1  *)
(* votes, and the node stores and sends its COMMIT for that class.         *)
HandlePrepare(n, m) ==
  LET stored == prepares[n] \cup {m}
  IN  /\ TakesPrepare(n, m)
      /\ prepares' = [prepares EXCEPT ![n] = stored]
      /\ \/ /\ WinningClasses(stored) = {}
            /\ UNCHANGED <<phase, commits, consensusClass, net>>
         \/ \E c \in WinningClasses(stored) :
              /\ consensusClass' = [consensusClass EXCEPT ![n] = c]
              /\ phase' = [phase EXCEPT ![n] = "COMMIT"]
              /\ commits' = [commits EXCEPT ![n] = Store(@, OwnCommit(n, c))]
              /\ net' = net \cup {OwnCommit(n, c)}
      /\ UNCHANGED <<view, seq, primary, request, own, viewChanges, decided>>

(* COMMIT that agrees with the node's own: the 2f+1st one completes the    *)
(* round.  A COMMIT that comes in any other phase is dropped.              *)
HandleCommit(n, m) ==
  LET stored == commits[n] \cup {m}
  IN  /\ TakesCommit(n, m)
      /\ commits' = [commits EXCEPT ![n] = stored]
      /\ \/ /\ Cardinality(Senders(stored)) < Threshold
            /\ UNCHANGED <<phase, decided>>
         \/ /\ Cardinality(Senders(stored)) >= Threshold
            /\ phase' = [phase EXCEPT ![n] = "COMMITTED"]
            /\ decided' = decided \cup
                 {[node |-> n, view |-> view[n], seq |-> seq[n],
                   request |-> request[n], class |-> consensusClass[n]]}
      /\ UNCHANGED <<view, seq, primary, request, own, prepares, viewChanges,
                     consensusClass, net>>

(* VIEW_CHANGE for a later view: it puts the node in VIEW_CHANGE whatever  *)
(* phase it is in.  With 2f+1 of them the node elects a primary from those *)
(* it holds itself, and takes over if it elects itself.                    *)
HandleViewChange(n, m) ==
  LET stored == Store(viewChanges[n], m)
  IN  /\ Deliverable(n, m, "view_change")
      /\ m.newView > view[n]
      /\ viewChanges' = [viewChanges EXCEPT ![n] = stored]
      /\ \/ /\ ~TakesOver(n, stored)
            /\ phase' = [phase EXCEPT ![n] = "VIEW_CHANGE"]
            /\ UNCHANGED <<view, primary, net>>
         \/ /\ TakesOver(n, stored)
            /\ primary' = [primary EXCEPT ![n] = n]
            /\ phase' = [phase EXCEPT ![n] = "PRE_PREPARE"]
            /\ \E v \in MaxNewView(stored) :
                 /\ view' = [view EXCEPT ![n] = v]
                 /\ net' = net \cup {[type |-> "new_view", view |-> v,
                                      seq |-> seq[n], sender |-> n,
                                      newView |-> v]}
      /\ UNCHANGED <<seq, request, own, prepares, commits, consensusClass,
                     decided>>

(* NEW_VIEW for a later view is believed whoever sends it.  The stored     *)
(* PREPAREs and COMMITs stay.                                              *)
HandleNewView(n, m) ==
  /\ Deliverable(n, m, "new_view")
  /\ m.newView > view[n]
  /\ view' = [view EXCEPT ![n] = m.newView]
  /\ primary' = [primary EXCEPT ![n] = m.sender]
  /\ phase' = [phase EXCEPT ![n] = "PRE_PREPARE"]
  /\ viewChanges' = [viewChanges EXCEPT ![n] = {}]
  /\ UNCHANGED <<seq, request, own, prepares, commits, consensusClass, net,
                 decided>>

(* check_timeout finds the round too old: the node asks for the next view  *)
(* and does not count its own VIEW_CHANGE.                                 *)
CheckTimeout(n) ==
  /\ phase[n] \notin {"IDLE", "COMMITTED"}
  /\ view[n] < MaxView
  /\ \A k \in Node : seq[k] + view[n] + 1 <= MaxSum
  /\ phase' = [phase EXCEPT ![n] = "VIEW_CHANGE"]
  /\ net' = net \cup {[type |-> "view_change", view |-> view[n],
                       seq |-> seq[n], sender |-> n,
                       newView |-> view[n] + 1, lastSeq |-> seq[n]]}
  /\ UNCHANGED <<view, seq, primary, request, own, prepares, commits,
                 viewChanges, consensusClass, decided>>

HandleMessage(n, m) ==
  \/ HandlePrePrepare(n, m)
  \/ HandlePrepare(n, m)
  \/ HandleCommit(n, m)
  \/ HandleViewChange(n, m)
  \/ HandleNewView(n, m)

NodeStep(n) ==
  \/ \E p \in Primaries, r \in Request, c \in Class : StartRound(n, p, r, c)
  \/ \E m \in net : HandleMessage(n, m)
  \/ CheckTimeout(n)

Next == \E n \in Node : NodeStep(n)

Spec == Init /\ [][Next]_vars

(* The event loop of a node that stays up runs its driver, its timer and   *)
(* its message handler.  In a ring of peers a consensus message keeps      *)
(* coming back, so a node does not rest for ever in a state in which one   *)
(* of them would change it.  No step undoes another (a round, its stores   *)
(* and its view only grow), so fairness of all steps of a node together    *)
(* lets none of them starve.                                               *)
Fairness == \A n \in Up : WF_vars(NodeStep(n))

FairSpec == Spec /\ Fairness

-----------------------------------------------------------------------------
(* Every variable has the shape its Python counterpart has. *)
TypeOK ==
  /\ phase \in [Node -> Phase]
  /\ view \in [Node -> Nat]
  /\ seq \in [Node -> 0..MaxSeq]
  /\ primary \in [Node -> Node \cup {None}]
  /\ request \in [Node -> Request \cup {None}]
  /\ own \in [Node -> Class \cup {None}]
  /\ net \subseteq Message
  /\ prepares \in [Node -> SUBSET PrepareMsg]
  /\ commits \in [Node -> SUBSET CommitMsg]
  /\ viewChanges \in [Node -> SUBSET ViewChangeMsg]
  /\ consensusClass \in [Node -> Class \cup {None}]
  /\ decided \subseteq Outcome

\* The nodes that sent a PREPARE, or a COMMIT, for class c in round s.
PreparedBy(s, c) ==
  {n \in Node : \E m \in net : /\ m.type = "prepare" /\ m.sender = n
                               /\ m.seq = s /\ m.class = c}
CommittedBy(s, c) ==
  {n \in Node : \E m \in net : /\ m.type = "commit" /\ m.sender = n
                               /\ m.seq = s /\ m.class = c}

(* No two nodes finish the same round with different classes, whatever the *)
(* models answered, whichever messages were lost, repeated or late, and    *)
(* whatever view changes ran (state_machine.py, _finalise_round).          *)
Agreement ==
  \A d, e \in decided : d.seq = e.seq => d.class = e.class

(* A COMMIT is only ever sent for a class that 2f+1 nodes voted for in     *)
(* that very round: votes of earlier rounds, and a vote counted twice, do  *)
(* not help (messages.py: "each replica confirms it has seen 2f+1 matching *)
(* PREPAREs").                                                             *)
CommitCertified ==
  \A m \in net : m.type = "commit" =>
    Cardinality(PreparedBy(m.seq, m.class)) >= Threshold

(* An outcome rests on COMMITs of 2f+1 nodes for its class in its own      *)
(* round, so the block built from it can carry 2f+1 signatures.            *)
DecisionCertified ==
  \A d \in decided : Cardinality(CommittedBy(d.seq, d.class)) >= Threshold

(* A NEW_VIEW is only sent when 2f+1 nodes asked for that view or for an   *)
(* earlier one (_handle_view_change).                                      *)
NewViewCertified ==
  \A m \in net : m.type = "new_view" =>
    Cardinality({n \in Node : \E k \in net :
                   /\ k.type = "view_change" /\ k.sender = n
                   /\ k.newView <= m.newView}) >= Threshold

(* The machine implements the abstract agreement: the class of a round is  *)
(* chosen once 2f+1 nodes have sent a PREPARE for it.                      *)
Chosen ==
  [s \in 1..MaxSeq |->
     IF \E c \in Class : Cardinality(PreparedBy(s, c)) >= Threshold
     THEN CHOOSE c \in Class : Cardinality(PreparedBy(s, c)) >= Threshold
     ELSE None]

Decisions == {[node |-> d.node, seq |-> d.seq, class |-> d.class] : d \in decided}

Abstract == INSTANCE RoundAgreement
              WITH Round <- 1..MaxSeq, chosen <- Chosen, decided <- Decisions

ImplementsRoundAgreement == Abstract!Spec

\* Nobody has asked for a later view.
NoTimeOut == \A m \in net : m.type \notin {"view_change", "new_view"}

\* No message is left that a node in its first view would act on.
Quiet ==
  \A n \in Node : \A m \in net :
    ~TakesPrePrepare(n, m) /\ ~TakesPrepare(n, m) /\ ~TakesCommit(n, m)

(* When all nodes have started round s under the same primary, 2f+1 models *)
(* agree, nobody has timed out and no message is left to act on, somebody  *)
(* has finished the round: votes that arrive before the PRE_PREPARE, or    *)
(* all at once, do not leave every node waiting for one more               *)
(* (_handle_prepare, _handle_commit).                                      *)
QuietMeansDecided ==
  \A s \in 1..MaxSeq :
    /\ \E p \in Node : \A n \in Node : seq[n] = s /\ primary[n] = p
    /\ \E c \in Class : Cardinality({n \in Node : own[n] = c}) > 2 * F
    /\ NoTimeOut
    /\ Quiet
    => \E d \in decided : d.seq = s

(* "n >= 3f+1 validators to tolerate f" faulty ones (WHITEPAPER.md): the   *)
(* nodes that stay up finish a round.                                      *)
SomeoneDecides == <>(decided # {})

-----------------------------------------------------------------------------
(* What the repository says of the machine and the code does not do: each  *)
(* of these is refuted by a run.                                           *)

(* "COMMIT: each replica confirms it has seen 2f+1 matching PREPAREs"      *)
(* (messages.py): the PREPAREs are votes on the request of the COMMIT.     *)
PreparesMatchTheRequest ==
  \A m \in net : m.type = "commit" =>
    Cardinality({n \in Node : \E k \in net :
                   /\ k.type = "prepare" /\ k.sender = n /\ k.seq = m.seq
                   /\ k.request = m.request /\ k.class = m.class}) >= Threshold

(* A NEW_VIEW "announces the new view and resumes protocol" (messages.py): *)
(* a proposal of the new primary, or an outcome, follows it.               *)
NewViewResumes ==
  (\E m \in net : m.type = "new_view") ~>
    \/ decided # {}
    \/ \E m \in net : m.type = "pre_prepare" /\ m.view > 0
=============================================================================
