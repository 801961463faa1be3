----------------------- MODULE QoIConsensus_proofs -----------------------
(***************************************************************************)
(* Proofs about QoIConsensus, for every number of nodes, classes, requests *)
(* and rounds, and every value of f.                                       *)
(*                                                                         *)
(* Agreement rests on three facts that are invariant together with the     *)
(* types: a sender's PREPAREs of one round are all for one class           *)
(* (OneVote), what a node has stored was sent in its current round         *)
(* (StoredVotes), and a class a node settled on has 2f+1 PREPAREs of its   *)
(* round behind it (Certified).  Two sets of 2f+1 nodes meet, so two       *)
(* certified classes of one round share a voter, hence are the same.       *)
(*                                                                         *)
(* That a round without time-outs does not get stuck rests on a fact about *)
(* the order of events: of two nodes that have voted and could settle on a *)
(* class but did not look, one voted after it had counted the other, so    *)
(* the other has not counted it (OneLastVoter).                            *)
(***************************************************************************)
EXTENDS QoIConsensus, FiniteSetTheorems, TLAPS

\* What a handler does includes what it does not drop.
USE DEF TakesPrePrepare, TakesPrepare, TakesCommit

\* A machine that has left IDLE has an answer and a request, and one that has
\* sent its COMMIT has settled on a class.
Started ==
  \A n \in Node :
    /\ phase[n] # "IDLE" =>
         own[n] \in Class /\ request[n] \in Request /\ seq[n] > 0
    /\ phase[n] = "COMMIT" => consensusClass[n] \in Class

TypeInv == TypeOK /\ Started

-----------------------------------------------------------------------------
(* A message of a given type carries the fields of that type               *)
(* (message_from_dict in messages.py).                                     *)
LEMMA MessageKinds ==
  ASSUME NEW m \in Message
  PROVE  /\ m.type = "pre_prepare" => m \in PrePrepareMsg
         /\ m.type = "prepare" => m \in PrepareMsg
         /\ m.type = "commit" => m \in CommitMsg
         /\ m.type = "view_change" => m \in ViewChangeMsg
         /\ m.type = "new_view" => m \in NewViewMsg
         /\ m.sender \in Node /\ m.view \in Nat /\ m.seq \in Nat
  BY DEF Message, PrePrepareMsg, PrepareMsg, CommitMsg, ViewChangeMsg,
         NewViewMsg

(* The messages a started machine builds are well formed. *)
LEMMA OwnMessages ==
  ASSUME TypeInv, NEW n \in Node, phase[n] # "IDLE"
  PROVE  /\ OwnPrepare(n) \in PrepareMsg /\ OwnPrepare(n) \in Message
         /\ \A c \in Class : OwnCommit(n, c) \in CommitMsg
                             /\ OwnCommit(n, c) \in Message
  <1>1. /\ view[n] \in Nat /\ seq[n] \in Nat
        /\ own[n] \in Class /\ request[n] \in Request
    BY BoundAssumption DEF TypeInv, TypeOK, Started
  <1> QED
    BY <1>1 DEF OwnPrepare, OwnCommit, PrepareMsg, CommitMsg, Message

(* Each step of a node keeps TypeOK and Started. *)
LEMMA TypeInvStep ==
  ASSUME TypeInv, [Next]_vars
  PROVE  TypeInv'
  <1> USE DEF TypeInv
  <1>1. ASSUME NEW n \in Node, NEW p \in Primaries, NEW r \in Request,
               NEW c \in Class, StartRound(n, p, r, c)
        PROVE  TypeInv'
    <2>1. [type |-> "pre_prepare", view |-> 0, seq |-> seq[n] + 1,
           sender |-> n, request |-> r, class |-> c] \in Message
      BY <1>1, BoundAssumption DEF TypeOK, Message, PrePrepareMsg
    <2>2. seq[n] + 1 \in 0..MaxSeq
      BY <1>1, BoundAssumption DEF StartRound, TypeOK
    <2>3. p \in Node
      BY NodeAssumption
    <2>4. net' \subseteq Message
      BY <1>1, <2>1 DEF StartRound, TypeOK
    <2>5. TypeOK'
      BY <1>1, <2>2, <2>3, <2>4 DEF StartRound, TypeOK, Phase
    <2>6. Started'
      BY <1>1 DEF StartRound, TypeOK, Started
    <2> QED BY <2>5, <2>6
  <1>2. ASSUME NEW n \in Node, NEW m \in net, HandlePrePrepare(n, m)
        PROVE  TypeInv'
    <2>1. OwnPrepare(n) \in PrepareMsg /\ OwnPrepare(n) \in Message
      BY <1>2, OwnMessages DEF HandlePrePrepare, Deliverable
    <2>2. Store(prepares[n], OwnPrepare(n)) \subseteq PrepareMsg
      BY <2>1 DEF Store, TypeOK
    <2>3. TypeOK'
      BY <1>2, <2>1, <2>2 DEF HandlePrePrepare, TypeOK, Phase
    <2>4. Started'
      BY <1>2 DEF HandlePrePrepare, TypeOK, Started, Deliverable
    <2> QED BY <2>3, <2>4
  <1>3. ASSUME NEW n \in Node, NEW m \in net, HandlePrepare(n, m)
        PROVE  TypeInv'
    <2>1. /\ m \in PrepareMsg
          /\ phase[n] # "IDLE"
      BY <1>3, MessageKinds DEF HandlePrepare, Deliverable, TypeOK
    <2>2. prepares[n] \cup {m} \subseteq PrepareMsg
      BY <2>1 DEF TypeOK
    <2>3. CASE UNCHANGED <<phase, commits, consensusClass, net>>
      BY <1>3, <2>2, <2>3 DEF HandlePrepare, TypeOK, Started
    <2>4. ASSUME NEW c \in WinningClasses(prepares[n] \cup {m}),
                 consensusClass' = [consensusClass EXCEPT ![n] = c],
                 phase' = [phase EXCEPT ![n] = "COMMIT"],
                 commits' = [commits EXCEPT ![n] = Store(@, OwnCommit(n, c))],
                 net' = net \cup {OwnCommit(n, c)}
          PROVE  TypeInv'
      <3>1. c \in Class
        BY DEF WinningClasses
      <3>2. OwnCommit(n, c) \in CommitMsg /\ OwnCommit(n, c) \in Message
        BY <2>1, <3>1, OwnMessages
      <3>3. Store(commits[n], OwnCommit(n, c)) \subseteq CommitMsg
        BY <3>2 DEF Store, TypeOK
      <3>4. TypeOK'
        BY <1>3, <2>2, <2>4, <3>1, <3>2, <3>3
           DEF HandlePrepare, TypeOK, Phase
      <3>5. Started'
        BY <1>3, <2>1, <2>4, <3>1 DEF HandlePrepare, TypeOK, Started
      <3> QED BY <3>4, <3>5
    <2> QED BY <1>3, <2>3, <2>4 DEF HandlePrepare
  <1>4. ASSUME NEW n \in Node, NEW m \in net, HandleCommit(n, m)
        PROVE  TypeInv'
    <2>1. m \in CommitMsg
      BY <1>4, MessageKinds DEF HandleCommit, Deliverable, TypeOK
    <2>2. commits[n] \cup {m} \subseteq CommitMsg
      BY <2>1 DEF TypeOK
    <2>3. [node |-> n, view |-> view[n], seq |-> seq[n],
           request |-> request[n], class |-> consensusClass[n]] \in Outcome
      BY <1>4, BoundAssumption
         DEF HandleCommit, Deliverable, TypeOK, Started, Outcome
    <2>4. phase'[n] \in Phase /\ decided' \subseteq Outcome
      BY <1>4, <2>3 DEF HandleCommit, TypeOK, Phase
    <2>5. TypeOK'
      BY <1>4, <2>2, <2>3 DEF HandleCommit, TypeOK, Phase
    <2>6. Started'
      BY <1>4 DEF HandleCommit, Deliverable, TypeOK, Started
    <2> QED BY <2>5, <2>6
  <1>5. ASSUME NEW n \in Node, NEW m \in net, HandleViewChange(n, m)
        PROVE  TypeInv'
    <2> DEFINE stored == Store(viewChanges[n], m)
    <2>1. m \in ViewChangeMsg
      BY <1>5, MessageKinds DEF HandleViewChange, Deliverable, TypeOK
    <2>2. stored \subseteq ViewChangeMsg
      BY <2>1 DEF Store, TypeOK
    <2>3. \A v \in MaxNewView(stored) : v \in Nat
      BY <2>2 DEF MaxNewView, ViewChangeMsg
    <2>4. phase[n] # "IDLE"
      BY <1>5 DEF HandleViewChange, Deliverable
    <2> HIDE DEF stored
    <2>5. CASE UNCHANGED <<view, primary, net>> /\
               phase' = [phase EXCEPT ![n] = "VIEW_CHANGE"]
      <3>1. TypeOK'
        BY <1>5, <2>2, <2>5 DEF HandleViewChange, TypeOK, Phase, stored
      <3>2. Started'
        BY <1>5, <2>4, <2>5 DEF HandleViewChange, TypeOK, Started
      <3> QED BY <3>1, <3>2
    <2>6. ASSUME NEW v \in MaxNewView(stored),
                 primary' = [primary EXCEPT ![n] = n],
                 phase' = [phase EXCEPT ![n] = "PRE_PREPARE"],
                 view' = [view EXCEPT ![n] = v],
                 net' = net \cup {[type |-> "new_view", view |-> v,
                                   seq |-> seq[n], sender |-> n,
                                   newView |-> v]}
          PROVE  TypeInv'
      <3>1. v \in Nat /\ seq[n] \in Nat
        BY <2>3, <2>6, BoundAssumption DEF TypeOK
      <3>2. [type |-> "new_view", view |-> v, seq |-> seq[n], sender |-> n,
             newView |-> v] \in Message
        BY <3>1 DEF Message, NewViewMsg
      <3>3. TypeOK'
        BY <1>5, <2>2, <2>6, <3>1, <3>2
           DEF HandleViewChange, TypeOK, Phase, stored
      <3>4. Started'
        BY <1>5, <2>4, <2>6 DEF HandleViewChange, TypeOK, Started
      <3> QED BY <3>3, <3>4
    <2> QED BY <1>5, <2>5, <2>6 DEF HandleViewChange, stored
  <1>6. ASSUME NEW n \in Node, NEW m \in net, HandleNewView(n, m)
        PROVE  TypeInv'
    <2>1. m \in NewViewMsg /\ m.newView \in Nat /\ m.sender \in Node
      BY <1>6, MessageKinds DEF HandleNewView, Deliverable, TypeOK, NewViewMsg
    <2>2. TypeOK'
      BY <1>6, <2>1 DEF HandleNewView, TypeOK, Phase
    <2>3. Started'
      BY <1>6 DEF HandleNewView, Deliverable, TypeOK, Started
    <2> QED BY <2>2, <2>3
  <1>7. ASSUME NEW n \in Node, CheckTimeout(n)
        PROVE  TypeInv'
    <2>1. view[n] \in Nat /\ seq[n] \in Nat
      BY BoundAssumption DEF TypeOK
    <2>2. [type |-> "view_change", view |-> view[n], seq |-> seq[n],
           sender |-> n, newView |-> view[n] + 1, lastSeq |-> seq[n]]
             \in Message
      BY <2>1 DEF Message, ViewChangeMsg
    <2>3. TypeOK'
      BY <1>7, <2>2 DEF CheckTimeout, TypeOK, Phase
    <2>4. Started'
      BY <1>7 DEF CheckTimeout, TypeOK, Started
    <2> QED BY <2>3, <2>4
  <1>8. CASE UNCHANGED vars
    BY <1>8 DEF vars, TypeOK, Started
  <1> QED
    BY <1>1, <1>2, <1>3, <1>4, <1>5, <1>6, <1>7, <1>8
       DEF Next, NodeStep, HandleMessage

LEMMA TypeInvInit == Init => TypeInv
  BY BoundAssumption DEF Init, TypeInv, TypeOK, Started, Phase

LEMMA TypeInvHolds == Spec => []TypeInv
  BY TypeInvInit, TypeInvStep, PTL DEF Spec

(* Every variable has the shape its Python counterpart has, whatever the   *)
(* number of nodes, rounds and views.                                      *)
THEOREM TypeCorrect == Spec => []TypeOK
  BY TypeInvHolds, PTL DEF TypeInv

-----------------------------------------------------------------------------
(* Where the votes in the stores come from. *)

\* A node has sent nothing for rounds it has not started.
NetBounded == \A m \in net : m.seq <= seq[m.sender]

\* A node votes for its own answer, hence for one class a round.
OneVote ==
  /\ \A m \in net : m.type = "prepare" /\ m.seq = seq[m.sender]
                      => m.class = own[m.sender]
  /\ \A m, k \in net :
       /\ m.type = "prepare" /\ k.type = "prepare"
       /\ m.sender = k.sender /\ m.seq = k.seq
       => m.class = k.class

\* What a node has stored was sent, and its votes are of its current round.
StoredVotes ==
  \A n \in Node :
    /\ \A m \in prepares[n] : m \in net /\ m.type = "prepare" /\ m.seq = seq[n]
    /\ \A m \in commits[n] : m \in net /\ m.type = "commit" /\ m.seq = seq[n]
    /\ \A m \in viewChanges[n] : m \in net /\ m.type = "view_change"

Votes == NetBounded /\ OneVote /\ StoredVotes

\* A step that only adds message k of a node's current round, or nothing.
LEMMA NetGrows ==
  ASSUME TypeInv, Votes, UNCHANGED <<seq, own>>,
         NEW k \in Message, net' = net \cup {k}, k.seq = seq[k.sender],
         k.type = "prepare" => k.class = own[k.sender]
  PROVE  NetBounded' /\ OneVote'
  <1> USE DEF TypeInv, Votes
  <1>1. k.seq <= seq[k.sender]
    BY BoundAssumption, MessageKinds DEF TypeOK
  <1>2. NetBounded'
    BY <1>1 DEF NetBounded
  <1>3. \A m \in net' : m.type = "prepare" /\ m.seq = seq[m.sender]
                          => m.class = own[m.sender]
    BY DEF OneVote
  <1>4. ASSUME NEW m \in net', NEW j \in net', m.type = "prepare",
               j.type = "prepare", m.sender = j.sender, m.seq = j.seq
        PROVE  m.class = j.class
    <2>1. CASE m \in net /\ j \in net
      BY <1>4, <2>1 DEF OneVote
    <2>2. CASE m = k \/ j = k
      BY <1>3, <1>4, <2>2
    <2> QED BY <2>1, <2>2
  <1> QED BY <1>2, <1>3, <1>4 DEF OneVote

(* Each step of a node keeps the provenance of the votes. *)
LEMMA VotesStep ==
  ASSUME TypeInv, Votes, [Next]_vars
  PROVE  Votes'
  <1> USE DEF TypeInv, Votes
  <1>1. ASSUME NEW n \in Node, NEW p \in Primaries, NEW r \in Request,
               NEW c \in Class, StartRound(n, p, r, c)
        PROVE  Votes'
    <2> DEFINE k == [type |-> "pre_prepare", view |-> 0, seq |-> seq[n] + 1,
                     sender |-> n, request |-> r, class |-> c]
    <2>1. \A m \in net : m.sender \in Node /\ m.seq \in Nat
      BY MessageKinds DEF TypeOK
    <2>2. /\ seq[n] \in Nat /\ seq' = [seq EXCEPT ![n] = @ + 1]
          /\ own' = [own EXCEPT ![n] = c]
          /\ net' \subseteq net \cup {k}
      BY <1>1, BoundAssumption DEF StartRound, TypeOK
    <2>3. \A m \in net : /\ m.seq <= seq'[m.sender]
                         /\ m.seq = seq'[m.sender] => m.sender # n
      BY <2>1, <2>2, BoundAssumption DEF TypeOK, NetBounded
    <2>4. k.seq <= seq'[k.sender] /\ k.type # "prepare"
      BY <2>2 DEF TypeOK
    <2>5. NetBounded'
      BY <2>2, <2>3, <2>4 DEF NetBounded
    <2>6. OneVote'
      BY <2>1, <2>2, <2>3, <2>4 DEF OneVote, TypeOK
    <2>7. StoredVotes'
      BY <1>1 DEF StartRound, StoredVotes, TypeOK
    <2> QED BY <2>5, <2>6, <2>7
  <1>2. ASSUME NEW n \in Node, NEW m \in net, HandlePrePrepare(n, m)
        PROVE  Votes'
    <2>1. /\ OwnPrepare(n) \in Message
          /\ OwnPrepare(n).type = "prepare" /\ OwnPrepare(n).sender = n
          /\ OwnPrepare(n).seq = seq[n] /\ OwnPrepare(n).class = own[n]
      BY <1>2, OwnMessages DEF HandlePrePrepare, Deliverable, OwnPrepare
    <2>2. NetBounded' /\ OneVote'
      BY <1>2, <2>1, NetGrows DEF HandlePrePrepare
    <2>3. StoredVotes'
      BY <1>2, <2>1 DEF HandlePrePrepare, StoredVotes, Store, TypeOK
    <2> QED BY <2>2, <2>3
  <1>3. ASSUME NEW n \in Node, NEW m \in net, HandlePrepare(n, m)
        PROVE  Votes'
    <2>1. /\ m.type = "prepare" /\ m.seq = seq[n] /\ phase[n] # "IDLE"
      BY <1>3 DEF HandlePrepare, Deliverable, SameRound
    <2>2. CASE UNCHANGED <<phase, commits, consensusClass, net>>
      <3>1. NetBounded' /\ OneVote'
        BY <1>3, <2>2 DEF HandlePrepare, NetBounded, OneVote
      <3>2. StoredVotes'
        BY <1>3, <2>1, <2>2 DEF HandlePrepare, StoredVotes, TypeOK
      <3> QED BY <3>1, <3>2
    <2>3. ASSUME NEW c \in WinningClasses(prepares[n] \cup {m}),
                 commits' = [commits EXCEPT ![n] = Store(@, OwnCommit(n, c))],
                 net' = net \cup {OwnCommit(n, c)}
          PROVE  Votes'
      <3>1. c \in Class
        BY DEF WinningClasses
      <3>2. /\ OwnCommit(n, c) \in Message
            /\ OwnCommit(n, c).type = "commit" /\ OwnCommit(n, c).sender = n
            /\ OwnCommit(n, c).seq = seq[n]
        BY <2>1, <3>1, OwnMessages DEF OwnCommit
      <3>3. NetBounded' /\ OneVote'
        BY <1>3, <2>3, <3>2, NetGrows DEF HandlePrepare
      <3>4. StoredVotes'
        BY <1>3, <2>1, <2>3, <3>2 DEF HandlePrepare, StoredVotes, Store, TypeOK
      <3> QED BY <3>3, <3>4
    <2> QED BY <1>3, <2>2, <2>3 DEF HandlePrepare
  <1>4. ASSUME NEW n \in Node, NEW m \in net, HandleCommit(n, m)
        PROVE  Votes'
    <2>1. NetBounded' /\ OneVote'
      BY <1>4 DEF HandleCommit, NetBounded, OneVote
    <2>2. StoredVotes'
      BY <1>4 DEF HandleCommit, Deliverable, SameRound, StoredVotes, TypeOK
    <2> QED BY <2>1, <2>2
  <1>5. ASSUME NEW n \in Node, NEW m \in net, HandleViewChange(n, m)
        PROVE  Votes'
    <2>1. /\ m.type = "view_change"
          /\ viewChanges' = [viewChanges EXCEPT ![n] = Store(@, m)]
          /\ UNCHANGED <<seq, own, prepares, commits>>
      BY <1>5 DEF HandleViewChange, Deliverable
    <2>2. net \subseteq net'
      BY <1>5 DEF HandleViewChange
    <2>3. StoredVotes'
      BY <2>1, <2>2 DEF StoredVotes, Store, TypeOK
    <2>4. CASE UNCHANGED net
      BY <2>1, <2>3, <2>4 DEF NetBounded, OneVote
    <2>5. ASSUME NEW v \in MaxNewView(Store(viewChanges[n], m)),
                 net' = net \cup {[type |-> "new_view", view |-> v,
                                   seq |-> seq[n], sender |-> n,
                                   newView |-> v]}
          PROVE  Votes'
      <3> DEFINE k == [type |-> "new_view", view |-> v, seq |-> seq[n],
                       sender |-> n, newView |-> v]
      <3>1. k \in Message
        <4>1. m \in ViewChangeMsg
          BY <2>1, MessageKinds DEF TypeOK
        <4>2. v \in Nat
          BY <4>1 DEF MaxNewView, Store, ViewChangeMsg, TypeOK
        <4> QED BY <4>2, BoundAssumption DEF Message, NewViewMsg, TypeOK
      <3>2. k.seq = seq[k.sender] /\ k.type # "prepare"
        OBVIOUS
      <3>3. NetBounded' /\ OneVote'
        <4> HIDE DEF k
        <4> QED BY <2>1, <2>5, <3>1, <3>2, NetGrows DEF k
      <3> QED BY <2>3, <3>3
    <2> QED BY <1>5, <2>4, <2>5 DEF HandleViewChange
  <1>6. ASSUME NEW n \in Node, NEW m \in net, HandleNewView(n, m)
        PROVE  Votes'
    BY <1>6 DEF HandleNewView, NetBounded, OneVote, StoredVotes, TypeOK
  <1>7. ASSUME NEW n \in Node, CheckTimeout(n)
        PROVE  Votes'
    <2> DEFINE k == [type |-> "view_change", view |-> view[n],
                     seq |-> seq[n], sender |-> n, newView |-> view[n] + 1,
                     lastSeq |-> seq[n]]
    <2>1. k \in Message
      BY BoundAssumption DEF Message, ViewChangeMsg, TypeOK
    <2>2. k.seq = seq[k.sender] /\ k.type # "prepare"
      OBVIOUS
    <2>3. net' = net \cup {k} /\ UNCHANGED <<seq, own>>
      BY <1>7 DEF CheckTimeout
    <2>4. NetBounded' /\ OneVote'
      <3> HIDE DEF k
      <3> QED BY <2>1, <2>2, <2>3, NetGrows
    <2>5. StoredVotes'
      BY <1>7 DEF CheckTimeout, StoredVotes
    <2> QED BY <2>4, <2>5
  <1>8. CASE UNCHANGED vars
    BY <1>8 DEF vars, NetBounded, OneVote, StoredVotes
  <1> QED
    BY <1>1, <1>2, <1>3, <1>4, <1>5, <1>6, <1>7, <1>8
       DEF Next, NodeStep, HandleMessage

LEMMA VotesInit == Init => Votes
  BY DEF Init, Votes, NetBounded, OneVote, StoredVotes

-----------------------------------------------------------------------------
(* Certificates: 2f+1 senders of a PREPARE, or of a COMMIT, in a set M of  *)
(* messages.                                                               *)

VotersIn(M, t, s, c) ==
  {n \in Node : \E m \in M : /\ m.type = t /\ m.sender = n
                             /\ m.seq = s /\ m.class = c}

CertifiedIn(M, s, c) == Cardinality(VotersIn(M, "prepare", s, c)) >= Threshold

(* A set of nodes that contains a quorum is one. *)
LEMMA QuorumGrows ==
  ASSUME NEW A, NEW B, A \subseteq B, B \subseteq Node,
         Cardinality(A) >= Threshold
  PROVE  Cardinality(B) >= Threshold
  <1>1. IsFiniteSet(B)
    BY NodeAssumption, FS_Subset
  <1>2. /\ IsFiniteSet(A) /\ Cardinality(A) <= Cardinality(B)
    BY <1>1, FS_Subset
  <1>3. Cardinality(A) \in Nat /\ Cardinality(B) \in Nat /\ Threshold \in Nat
    BY <1>1, <1>2, FS_CardinalityType, BoundAssumption DEF Threshold
  <1> QED BY <1>2, <1>3

(* Messages that are sent later break no certificate. *)
LEMMA CertificatesGrow ==
  ASSUME NEW M, NEW L, M \subseteq L, NEW t, NEW s, NEW c,
         Cardinality(VotersIn(M, t, s, c)) >= Threshold
  PROVE  Cardinality(VotersIn(L, t, s, c)) >= Threshold
  <1>1. /\ VotersIn(M, t, s, c) \subseteq VotersIn(L, t, s, c)
        /\ VotersIn(L, t, s, c) \subseteq Node
    BY DEF VotersIn
  <1> QED BY <1>1, QuorumGrows

(* Two certified classes of a round share a voter, who voted once: any two *)
(* sets of 2f+1 nodes meet when there are fewer than 4f+2.                 *)
LEMMA CertifiedOnce ==
  ASSUME Cardinality(Node) < 2 * Threshold,
         NEW M, NEW s, NEW c, NEW d,
         \A m, k \in M : /\ m.type = "prepare" /\ k.type = "prepare"
                         /\ m.sender = k.sender /\ m.seq = k.seq
                         => m.class = k.class,
         CertifiedIn(M, s, c), CertifiedIn(M, s, d)
  PROVE  c = d
  <1> DEFINE C == VotersIn(M, "prepare", s, c)
             D == VotersIn(M, "prepare", s, d)
  <1>1. C \subseteq Node /\ D \subseteq Node
    BY DEF VotersIn
  <1>2. IsFiniteSet(C) /\ IsFiniteSet(D) /\ IsFiniteSet(Node)
    BY <1>1, NodeAssumption, FS_Subset
  <1>3. /\ Cardinality(C) \in Nat /\ Cardinality(D) \in Nat
        /\ Cardinality(Node) \in Nat /\ Threshold \in Nat
    BY <1>2, FS_CardinalityType, BoundAssumption DEF Threshold
  <1>4. Cardinality(C) + Cardinality(D) > Cardinality(Node)
    BY <1>3 DEF CertifiedIn
  <1>5. C \cap D # {}
    <2> HIDE DEF C, D
    <2> QED BY <1>1, <1>2, <1>4, FS_MajoritiesIntersect
  <1> QED BY <1>5 DEF VotersIn

\* A class a node settled on, announced or decided has a certificate.
Certified ==
  /\ \A n \in Node : consensusClass[n] \in Class
                       => CertifiedIn(net, seq[n], consensusClass[n])
  /\ \A m \in net : m.type = "commit" => CertifiedIn(net, m.seq, m.class)
  /\ \A d \in decided : CertifiedIn(net, d.seq, d.class)

(* The votes a node counts are votes it was sent: a class that wins in its *)
(* store is certified by the messages of the round.                        *)
LEMMA WinnerIsCertified ==
  ASSUME TypeInv, Votes, NEW n \in Node, NEW m \in net,
         HandlePrepare(n, m), NEW c \in WinningClasses(prepares[n] \cup {m})
  PROVE  CertifiedIn(net, seq[n], c)
  <1> DEFINE stored == prepares[n] \cup {m}
  <1>1. \A k \in stored : k \in net /\ k.type = "prepare" /\ k.seq = seq[n]
    BY DEF Votes, StoredVotes, HandlePrepare, Deliverable, SameRound
  <1>2. /\ VotersFor(stored, c) \subseteq VotersIn(net, "prepare", seq[n], c)
        /\ VotersIn(net, "prepare", seq[n], c) \subseteq Node
    BY <1>1 DEF VotersFor, VotersIn
  <1>3. Cardinality(VotersFor(stored, c)) >= Threshold
    BY DEF WinningClasses
  <1> QED BY <1>2, <1>3, QuorumGrows DEF CertifiedIn

(* Steps that settle on nothing and send no COMMIT. *)
LEMMA CertifiedKept ==
  ASSUME Certified, net \subseteq net',
         \A m \in net' \ net : m.type # "commit",
         UNCHANGED <<consensusClass, seq, decided>>
  PROVE  Certified'
  <1>1. \A s, c : CertifiedIn(net, s, c) => CertifiedIn(net', s, c)
    BY CertificatesGrow DEF CertifiedIn
  <1>2. \A n \in Node : consensusClass'[n] \in Class
                          => CertifiedIn(net', seq'[n], consensusClass'[n])
    BY <1>1 DEF Certified
  <1>3. \A m \in net' : m.type = "commit" => CertifiedIn(net', m.seq, m.class)
    BY <1>1 DEF Certified
  <1>4. \A d \in decided' : CertifiedIn(net', d.seq, d.class)
    BY <1>1 DEF Certified
  <1> QED BY <1>2, <1>3, <1>4 DEF Certified

(* Each step of a node keeps every class in play certified. *)
LEMMA CertifiedStep ==
  ASSUME TypeInv, Votes, Certified, [Next]_vars
  PROVE  Certified'
  <1>0. net \subseteq net'
        => \A s, c : CertifiedIn(net, s, c) => CertifiedIn(net', s, c)
    BY CertificatesGrow DEF CertifiedIn
  <1>1. ASSUME NEW n \in Node, NEW p \in Primaries, NEW r \in Request,
               NEW c \in Class, StartRound(n, p, r, c)
        PROVE  Certified'
    <2>1. /\ net \subseteq net' /\ UNCHANGED decided
          /\ \A m \in net' \ net : m.type # "commit"
      BY <1>1 DEF StartRound
    <2>2. \A q \in Node : consensusClass'[q] \in Class
            => q # n /\ consensusClass'[q] = consensusClass[q]
                     /\ seq'[q] = seq[q]
      BY <1>1, NoneAssumption DEF StartRound, TypeInv, TypeOK
    <2> QED BY <1>0, <2>1, <2>2 DEF Certified
  <1>2. ASSUME NEW n \in Node, NEW m \in net, HandlePrePrepare(n, m)
        PROVE  Certified'
    BY <1>2, CertifiedKept DEF HandlePrePrepare, OwnPrepare
  <1>3. ASSUME NEW n \in Node, NEW m \in net, HandlePrepare(n, m)
        PROVE  Certified'
    <2>1. CASE UNCHANGED <<phase, commits, consensusClass, net>>
      BY <1>3, <2>1, CertifiedKept DEF HandlePrepare
    <2>2. ASSUME NEW c \in WinningClasses(prepares[n] \cup {m}),
                 consensusClass' = [consensusClass EXCEPT ![n] = c],
                 net' = net \cup {OwnCommit(n, c)}
          PROVE  Certified'
      <3>1. CertifiedIn(net', seq[n], c)
        BY <1>0, <1>3, <2>2, WinnerIsCertified
      <3>2. UNCHANGED <<seq, decided>>
        BY <1>3 DEF HandlePrepare
      <3>3. \A q \in Node : consensusClass'[q] \in Class
                              => CertifiedIn(net', seq'[q], consensusClass'[q])
        BY <1>0, <2>2, <3>1, <3>2 DEF Certified, TypeInv, TypeOK
      <3>4. \A k \in net' : k.type = "commit"
                              => CertifiedIn(net', k.seq, k.class)
        <4>1. OwnCommit(n, c).seq = seq[n] /\ OwnCommit(n, c).class = c
          BY DEF OwnCommit
        <4>2. CertifiedIn(net', OwnCommit(n, c).seq, OwnCommit(n, c).class)
          BY <3>1, <4>1
        <4>3. \A k \in net : k.type = "commit"
                              => CertifiedIn(net', k.seq, k.class)
          BY <1>0, <2>2 DEF Certified
        <4> QED BY <2>2, <4>2, <4>3
      <3>5. \A d \in decided' : CertifiedIn(net', d.seq, d.class)
        BY <1>0, <2>2, <3>2 DEF Certified
      <3> QED BY <3>3, <3>4, <3>5 DEF Certified
    <2> QED BY <1>3, <2>1, <2>2 DEF HandlePrepare
  <1>4. ASSUME NEW n \in Node, NEW m \in net, HandleCommit(n, m)
        PROVE  Certified'
    <2>1. consensusClass[n] \in Class /\ UNCHANGED <<net, seq, consensusClass>>
      BY <1>4 DEF HandleCommit, TypeInv, Started
    <2>2. \A d \in decided' : CertifiedIn(net', d.seq, d.class)
      BY <1>4, <2>1 DEF HandleCommit, Certified
    <2> QED BY <2>1, <2>2 DEF Certified
  <1>5. ASSUME NEW n \in Node, NEW m \in net, HandleViewChange(n, m)
        PROVE  Certified'
    <2>1. /\ net \subseteq net' /\ UNCHANGED <<consensusClass, seq, decided>>
          /\ \A k \in net' \ net : k.type # "commit"
      BY <1>5 DEF HandleViewChange
    <2> QED BY <2>1, CertifiedKept
  <1>6. ASSUME NEW n \in Node, NEW m \in net, HandleNewView(n, m)
        PROVE  Certified'
    BY <1>6, CertifiedKept DEF HandleNewView
  <1>7. ASSUME NEW n \in Node, CheckTimeout(n)
        PROVE  Certified'
    <2>1. /\ net \subseteq net' /\ UNCHANGED <<consensusClass, seq, decided>>
          /\ \A k \in net' \ net : k.type # "commit"
      BY <1>7 DEF CheckTimeout
    <2> QED BY <2>1, CertifiedKept
  <1>8. CASE UNCHANGED vars
    BY <1>8, CertifiedKept DEF vars
  <1> QED
    BY <1>1, <1>2, <1>3, <1>4, <1>5, <1>6, <1>7, <1>8
       DEF Next, NodeStep, HandleMessage

-----------------------------------------------------------------------------
(* The inductive invariant behind the safety theorems. *)
IInv == TypeInv /\ Votes /\ Certified

LEMMA IInvHolds == Spec => []IInv
  <1>1. Init => IInv
    <2>1. Init => Certified
      BY NoneAssumption DEF Init, Certified
    <2> QED BY <2>1, TypeInvInit, VotesInit DEF IInv
  <1>2. IInv /\ [Next]_vars => IInv'
    BY TypeInvStep, VotesStep, CertifiedStep DEF IInv
  <1> QED BY <1>1, <1>2, PTL DEF Spec

(* A COMMIT is only ever sent for a class that 2f+1 nodes voted for in     *)
(* that very round (_handle_prepare, _compute_consensus_class).            *)
THEOREM CommitsAreCertified == Spec => []CommitCertified
  <1>1. IInv => CommitCertified
    BY DEF IInv, Certified, CommitCertified, CertifiedIn, PreparedBy, VotersIn
  <1> QED BY <1>1, IInvHolds, PTL

(* No two nodes finish a round with different classes, for any number of   *)
(* nodes below 4f+2: the code's quorum of 2f+1 then always meets itself.   *)
THEOREM AgreementHolds ==
  Cardinality(Node) < 2 * Threshold => (Spec => []Agreement)
  <1> SUFFICES ASSUME Cardinality(Node) < 2 * Threshold
               PROVE  Spec => []Agreement
    OBVIOUS
  <1>1. IInv => Agreement
    <2> SUFFICES ASSUME IInv, NEW d \in decided, NEW e \in decided,
                        d.seq = e.seq
                 PROVE  d.class = e.class
      BY DEF Agreement
    <2>1. CertifiedIn(net, d.seq, d.class) /\ CertifiedIn(net, d.seq, e.class)
      BY DEF IInv, Certified
    <2>2. \A m, k \in net : /\ m.type = "prepare" /\ k.type = "prepare"
                            /\ m.sender = k.sender /\ m.seq = k.seq
                            => m.class = k.class
      BY DEF IInv, Votes, OneVote
    <2> QED BY <2>1, <2>2, CertifiedOnce
  <1> QED BY <1>1, IInvHolds, PTL

-----------------------------------------------------------------------------
(* A NEW_VIEW rests on VIEW_CHANGEs of 2f+1 nodes. *)

AskedBefore(M, v) ==
  {n \in Node : \E k \in M : /\ k.type = "view_change" /\ k.sender = n
                             /\ k.newView <= v}

(* Each step of a node keeps every NEW_VIEW certified: the VIEW_CHANGEs a  *)
(* node counts are of 2f+1 senders, and none asks for more than it gets.   *)
LEMMA NewViewStep ==
  ASSUME TypeInv, Votes, NewViewCertified, [Next]_vars
  PROVE  NewViewCertified'
  <1>1. ASSUME net \subseteq net', NEW v,
               Cardinality(AskedBefore(net, v)) >= Threshold
        PROVE  Cardinality(AskedBefore(net', v)) >= Threshold
    <2>1. /\ AskedBefore(net, v) \subseteq AskedBefore(net', v)
          /\ AskedBefore(net', v) \subseteq Node
      BY <1>1 DEF AskedBefore
    <2> QED BY <1>1, <2>1, QuorumGrows
  <1>2. \A m \in net : m.type = "new_view"
          => Cardinality(AskedBefore(net, m.newView)) >= Threshold
    BY DEF NewViewCertified, AskedBefore
  <1>3. SUFFICES \A m \in net' : m.type = "new_view"
                   => Cardinality(AskedBefore(net', m.newView)) >= Threshold
    BY DEF NewViewCertified, AskedBefore
  <1>4. CASE net \subseteq net' /\ \A m \in net' \ net : m.type # "new_view"
    BY <1>1, <1>2, <1>4
  <1>5. ASSUME NEW n \in Node, NEW m \in net, HandleViewChange(n, m)
        PROVE  \A k \in net' : k.type = "new_view"
                 => Cardinality(AskedBefore(net', k.newView)) >= Threshold
    <2> DEFINE stored == Store(viewChanges[n], m)
    <2>1. \A k \in stored : k \in net /\ k.type = "view_change"
      BY <1>5 DEF Votes, StoredVotes, Store, HandleViewChange, Deliverable
    <2>2. CASE UNCHANGED net
      BY <1>2, <2>2
    <2>3. ASSUME NEW v \in MaxNewView(stored), TakesOver(n, stored),
                 net' = net \cup {[type |-> "new_view", view |-> v,
                                   seq |-> seq[n], sender |-> n,
                                   newView |-> v]}
          PROVE  \A k \in net' : k.type = "new_view"
                   => Cardinality(AskedBefore(net', k.newView)) >= Threshold
      <3>1. \A k \in stored : k.sender \in Node
        BY <2>1, MessageKinds DEF TypeInv, TypeOK
      <3>2. /\ Senders(stored) \subseteq AskedBefore(net, v)
            /\ AskedBefore(net, v) \subseteq Node
        BY <2>1, <2>3, <3>1 DEF Senders, AskedBefore, MaxNewView
      <3>3. Cardinality(AskedBefore(net, v)) >= Threshold
        BY <2>3, <3>2, QuorumGrows DEF TakesOver
      <3>4. Cardinality(AskedBefore(net', v)) >= Threshold
        BY <1>1, <2>3, <3>3
      <3>5. \A k \in net : k.type = "new_view"
              => Cardinality(AskedBefore(net', k.newView)) >= Threshold
        BY <1>1, <1>2, <2>3
      <3> QED BY <2>3, <3>4, <3>5
    <2> QED BY <1>5, <2>2, <2>3 DEF HandleViewChange
  <1>6. ASSUME NEW n \in Node, NodeStep(n),
               ~\E m \in net : HandleViewChange(n, m)
        PROVE  net \subseteq net' /\ \A m \in net' \ net : m.type # "new_view"
    <2>1. ASSUME NEW p \in Primaries, NEW r \in Request, NEW c \in Class,
                 StartRound(n, p, r, c)
          PROVE  net \subseteq net' /\ \A m \in net' \ net : m.type # "new_view"
      BY <2>1 DEF StartRound
    <2>2. /\ OwnPrepare(n).type # "new_view"
          /\ \A c : OwnCommit(n, c).type # "new_view"
      BY DEF OwnPrepare, OwnCommit
    <2>4. ASSUME NEW m \in net, HandlePrePrepare(n, m)
          PROVE  net \subseteq net' /\ \A k \in net' \ net : k.type # "new_view"
      BY <2>2, <2>4 DEF HandlePrePrepare
    <2>5. ASSUME NEW m \in net, HandlePrepare(n, m)
          PROVE  net \subseteq net' /\ \A k \in net' \ net : k.type # "new_view"
      BY <2>2, <2>5 DEF HandlePrepare
    <2>6. ASSUME NEW m \in net, HandleCommit(n, m) \/ HandleNewView(n, m)
          PROVE  net \subseteq net' /\ \A k \in net' \ net : k.type # "new_view"
      BY <2>6 DEF HandleCommit, HandleNewView
    <2>3. ASSUME CheckTimeout(n)
          PROVE  net \subseteq net' /\ \A m \in net' \ net : m.type # "new_view"
      BY <2>3 DEF CheckTimeout
    <2> QED BY <1>6, <2>1, <2>3, <2>4, <2>5, <2>6 DEF NodeStep, HandleMessage
  <1>7. CASE UNCHANGED vars
    BY <1>4, <1>7 DEF vars
  <1> QED BY <1>4, <1>5, <1>6, <1>7 DEF Next

(* A NEW_VIEW is only sent when 2f+1 nodes asked for that view or for an   *)
(* earlier one (_handle_view_change), for any number of nodes.             *)
THEOREM NewViewsAreCertified == Spec => []NewViewCertified
  <1>1. Init => NewViewCertified
    BY DEF Init, NewViewCertified
  <1>2. TypeInv /\ Votes /\ NewViewCertified /\ [Next]_vars
          => NewViewCertified'
    BY NewViewStep
  <1>3. IInv => TypeInv /\ Votes
    BY DEF IInv
  <1> QED BY <1>1, <1>2, <1>3, IInvHolds, PTL DEF Spec

-----------------------------------------------------------------------------
(* The COMMITs a node has stored are for the class it settled on, even     *)
(* when it settles again after a view change.                              *)
CommitsAgree ==
  \A n \in Node : \A m \in commits[n] : m.class = consensusClass[n]

DecidedByCommits ==
  \A d \in decided :
    Cardinality(VotersIn(net, "commit", d.seq, d.class)) >= Threshold

(* Each step of a node keeps the stored COMMITs in agreement. *)
LEMMA CommitsAgreeStep ==
  ASSUME Cardinality(Node) < 2 * Threshold,
         IInv, IInv', CommitsAgree, [Next]_vars
  PROVE  CommitsAgree'
  <1> USE DEF IInv, TypeInv
  <1>1. ASSUME NEW n \in Node, NEW p \in Primaries, NEW r \in Request,
               NEW c \in Class, StartRound(n, p, r, c)
        PROVE  CommitsAgree'
    BY <1>1 DEF StartRound, CommitsAgree, TypeOK
  <1>2. ASSUME NEW n \in Node, NEW m \in net, HandlePrepare(n, m)
        PROVE  CommitsAgree'
    <2>1. CASE UNCHANGED <<phase, commits, consensusClass, net>>
      BY <2>1 DEF CommitsAgree
    <2>2. ASSUME NEW c \in WinningClasses(prepares[n] \cup {m}),
                 consensusClass' = [consensusClass EXCEPT ![n] = c],
                 commits' = [commits EXCEPT ![n] = Store(@, OwnCommit(n, c))],
                 net' = net \cup {OwnCommit(n, c)}
          PROVE  CommitsAgree'
      <3>1. CertifiedIn(net, seq[n], c)
        BY <1>2, WinnerIsCertified
      <3>2. \A k \in commits[n] : CertifiedIn(net, seq[n], k.class)
        BY DEF Votes, StoredVotes, Certified
      <3>3. \A k, j \in net : /\ k.type = "prepare" /\ j.type = "prepare"
                              /\ k.sender = j.sender /\ k.seq = j.seq
                              => k.class = j.class
        BY DEF Votes, OneVote
      <3>4. \A k \in commits[n] : k.class = c
        BY <3>1, <3>2, <3>3, CertifiedOnce
      <3>5. \A k \in Store(commits[n], OwnCommit(n, c)) : k.class = c
        BY <3>4 DEF Store, OwnCommit
      <3> QED BY <2>2, <3>5 DEF CommitsAgree, TypeOK
    <2> QED BY <1>2, <2>1, <2>2 DEF HandlePrepare
  <1>3. ASSUME NEW n \in Node, NEW m \in net, HandleCommit(n, m)
        PROVE  CommitsAgree'
    BY <1>3 DEF HandleCommit, CommitsAgree, TypeOK
  <1>4. ASSUME UNCHANGED <<commits, consensusClass>>
        PROVE  CommitsAgree'
    BY <1>4 DEF CommitsAgree
  <1> QED
    BY <1>1, <1>2, <1>3, <1>4
       DEF Next, NodeStep, HandleMessage, HandlePrePrepare, HandleViewChange,
           HandleNewView, CheckTimeout, vars

(* Each step of a node keeps every outcome backed by 2f+1 COMMITs. *)
LEMMA DecidedByCommitsStep ==
  ASSUME IInv, CommitsAgree, DecidedByCommits, [Next]_vars
  PROVE  DecidedByCommits'
  <1>1. net \subseteq net' =>
          \A s, c : Cardinality(VotersIn(net, "commit", s, c)) >= Threshold
            => Cardinality(VotersIn(net', "commit", s, c)) >= Threshold
    BY CertificatesGrow
  <1>2. CASE net \subseteq net' /\ UNCHANGED decided
    BY <1>1, <1>2 DEF DecidedByCommits
  <1>3. ASSUME NEW n \in Node, NEW m \in net, HandleCommit(n, m)
        PROVE  DecidedByCommits'
    <2> DEFINE stored == commits[n] \cup {m}
               V == VotersIn(net, "commit", seq[n], consensusClass[n])
    <2>1. \A k \in stored : /\ k \in net /\ k.type = "commit"
                            /\ k.seq = seq[n] /\ k.class = consensusClass[n]
      BY <1>3 DEF IInv, Votes, StoredVotes, CommitsAgree, HandleCommit,
                  Deliverable, SameRound
    <2>2. \A k \in stored : k.sender \in Node
      BY <2>1, MessageKinds DEF IInv, TypeInv, TypeOK
    <2>3. Senders(stored) \subseteq V /\ V \subseteq Node
      BY <2>1, <2>2 DEF Senders, VotersIn
    <2>4. Cardinality(Senders(stored)) >= Threshold
            => Cardinality(V) >= Threshold
      <3> HIDE DEF stored, V
      <3> QED BY <2>3, QuorumGrows
    <2>5. UNCHANGED net
      BY <1>3 DEF HandleCommit
    <2>6. CASE UNCHANGED decided
      BY <1>2, <2>5, <2>6
    <2>7. CASE /\ Cardinality(Senders(stored)) >= Threshold
               /\ decided' = decided \cup
                    {[node |-> n, view |-> view[n], seq |-> seq[n],
                      request |-> request[n], class |-> consensusClass[n]]}
      BY <2>4, <2>5, <2>7 DEF DecidedByCommits
    <2> QED BY <1>3, <2>6, <2>7 DEF HandleCommit
  <1>4. ASSUME NEW n \in Node, NodeStep(n),
               ~\E m \in net : HandleCommit(n, m)
        PROVE  net \subseteq net' /\ UNCHANGED decided
    <2>1. ASSUME NEW p \in Primaries, NEW r \in Request, NEW c \in Class,
                 StartRound(n, p, r, c)
          PROVE  net \subseteq net' /\ UNCHANGED decided
      BY <2>1 DEF StartRound
    <2>2. ASSUME NEW m \in net, HandlePrePrepare(n, m) \/ HandlePrepare(n, m)
          PROVE  net \subseteq net' /\ UNCHANGED decided
      BY <2>2 DEF HandlePrePrepare, HandlePrepare
    <2>3. ASSUME NEW m \in net, HandleViewChange(n, m) \/ HandleNewView(n, m)
          PROVE  net \subseteq net' /\ UNCHANGED decided
      BY <2>3 DEF HandleViewChange, HandleNewView
    <2>4. ASSUME CheckTimeout(n)
          PROVE  net \subseteq net' /\ UNCHANGED decided
      BY <2>4 DEF CheckTimeout
    <2> QED BY <1>4, <2>1, <2>2, <2>3, <2>4 DEF NodeStep, HandleMessage
  <1>5. CASE UNCHANGED vars
    BY <1>2, <1>5 DEF vars
  <1> QED BY <1>2, <1>3, <1>4, <1>5 DEF Next

(* An outcome rests on COMMITs of 2f+1 nodes for its class in its own      *)
(* round (_handle_commit), for any number of nodes below 4f+2.             *)
THEOREM DecisionsAreCertified ==
  Cardinality(Node) < 2 * Threshold => (Spec => []DecisionCertified)
  <1> SUFFICES ASSUME Cardinality(Node) < 2 * Threshold
               PROVE  Spec => []DecisionCertified
    OBVIOUS
  <1>1. Init => CommitsAgree /\ DecidedByCommits
    BY DEF Init, CommitsAgree, DecidedByCommits
  <1>2. /\ IInv /\ IInv' /\ CommitsAgree /\ DecidedByCommits
        /\ [Next]_vars
        => CommitsAgree' /\ DecidedByCommits'
    BY CommitsAgreeStep, DecidedByCommitsStep
  <1>3. DecidedByCommits => DecisionCertified
    BY DEF DecidedByCommits, DecisionCertified, CommittedBy, VotersIn
  <1> QED BY <1>1, <1>2, <1>3, IInvHolds, PTL DEF Spec

-----------------------------------------------------------------------------
(* The machine implements RoundAgreement. *)

OneVoteIn(M) ==
  \A m, k \in M : /\ m.type = "prepare" /\ k.type = "prepare"
                  /\ m.sender = k.sender /\ m.seq = k.seq
                  => m.class = k.class

\* The class of each round, as a function of the messages sent.
ChosenIn(M) ==
  [s \in 1..MaxSeq |->
     IF \E c \in Class : CertifiedIn(M, s, c)
     THEN CHOOSE c \in Class : CertifiedIn(M, s, c)
     ELSE None]

(* The class of a round is the one class that is certified in it. *)
LEMMA ChosenIs ==
  ASSUME Cardinality(Node) < 2 * Threshold, NEW M, OneVoteIn(M),
         NEW s \in 1..MaxSeq
  PROVE  /\ \A c \in Class : CertifiedIn(M, s, c) => ChosenIn(M)[s] = c
         /\ (\A c \in Class : ~CertifiedIn(M, s, c)) => ChosenIn(M)[s] = None
         /\ ChosenIn(M)[s] \in Class \cup {None}
  <1>1. ChosenIn(M)[s] = IF \E c \in Class : CertifiedIn(M, s, c)
                         THEN CHOOSE c \in Class : CertifiedIn(M, s, c)
                         ELSE None
    BY DEF ChosenIn
  <1>2. \A c, d \in Class : CertifiedIn(M, s, c) /\ CertifiedIn(M, s, d)
                              => c = d
    BY CertifiedOnce DEF OneVoteIn
  <1> HIDE DEF CertifiedIn
  <1> QED BY <1>1, <1>2

(* More messages change no class that is chosen, and none of a round that  *)
(* gets no new votes.                                                      *)
LEMMA ChosenGrows ==
  ASSUME Cardinality(Node) < 2 * Threshold, NEW M, NEW L, M \subseteq L,
         OneVoteIn(M), OneVoteIn(L), NEW s \in 1..MaxSeq
  PROVE  /\ ChosenIn(M)[s] # None => ChosenIn(L)[s] = ChosenIn(M)[s]
         /\ (\A c : VotersIn(L, "prepare", s, c) = VotersIn(M, "prepare", s, c))
              => ChosenIn(L)[s] = ChosenIn(M)[s]
  <1>1. \A c : CertifiedIn(M, s, c) => CertifiedIn(L, s, c)
    BY CertificatesGrow DEF CertifiedIn
  <1>2. /\ \A c \in Class : CertifiedIn(M, s, c) => ChosenIn(M)[s] = c
        /\ (\A c \in Class : ~CertifiedIn(M, s, c)) => ChosenIn(M)[s] = None
    BY ChosenIs
  <1>3. /\ \A c \in Class : CertifiedIn(L, s, c) => ChosenIn(L)[s] = c
        /\ (\A c \in Class : ~CertifiedIn(L, s, c)) => ChosenIn(L)[s] = None
    BY ChosenIs
  <1>4. (\A c : VotersIn(L, "prepare", s, c) = VotersIn(M, "prepare", s, c))
          => \A c : CertifiedIn(L, s, c) => CertifiedIn(M, s, c)
    BY DEF CertifiedIn
  <1> QED BY <1>1, <1>2, <1>3, <1>4

(* Votes of one round r at most arrive in a step: the class of r may be    *)
(* chosen, all else stays.                                                 *)
LEMMA ChosenStep ==
  ASSUME Cardinality(Node) < 2 * Threshold, NEW M, NEW L, M \subseteq L,
         OneVoteIn(M), OneVoteIn(L), NEW r \in 1..MaxSeq,
         \A s \in 1..MaxSeq \ {r} : \A c :
           VotersIn(L, "prepare", s, c) = VotersIn(M, "prepare", s, c)
  PROVE  \/ ChosenIn(L) = ChosenIn(M)
         \/ \E c \in Class : /\ ChosenIn(M)[r] = None
                             /\ ChosenIn(L) = [ChosenIn(M) EXCEPT ![r] = c]
  <1>1. \A s \in 1..MaxSeq \ {r} : ChosenIn(L)[s] = ChosenIn(M)[s]
    BY ChosenGrows
  <1>2. ChosenIn(M)[r] # None => ChosenIn(L)[r] = ChosenIn(M)[r]
    BY ChosenGrows
  <1>3. /\ ChosenIn(L) = [s \in 1..MaxSeq |-> ChosenIn(L)[s]]
        /\ ChosenIn(M) = [s \in 1..MaxSeq |-> ChosenIn(M)[s]]
    BY DEF ChosenIn
  <1>4. ChosenIn(L)[r] \in Class \cup {None}
    BY ChosenIs
  <1>5. CASE ChosenIn(L)[r] = ChosenIn(M)[r]
    BY <1>1, <1>3, <1>5
  <1>6. CASE ChosenIn(M)[r] = None /\ ChosenIn(L)[r] \in Class
    BY <1>1, <1>3, <1>6
  <1> QED BY <1>2, <1>4, <1>5, <1>6

LEMMA ChosenDef == Chosen = ChosenIn(net) /\ Chosen' = ChosenIn(net')
  BY DEF Chosen, ChosenIn, PreparedBy, CertifiedIn, VotersIn

(* A step in which no PREPARE is sent and no outcome is produced maps to a *)
(* stutter.                                                                *)
LEMMA MapsToStutter ==
  ASSUME Cardinality(Node) < 2 * Threshold, IInv, IInv', net \subseteq net',
         \A k \in net' \ net : k.type # "prepare", UNCHANGED decided
  PROVE  UNCHANGED <<Chosen, Decisions>>
  <1>1. \A s, c : VotersIn(net', "prepare", s, c)
                    = VotersIn(net, "prepare", s, c)
    BY DEF VotersIn
  <1>2. ChosenIn(net') = ChosenIn(net)
    BY <1>1 DEF ChosenIn, CertifiedIn
  <1> QED BY <1>2, ChosenDef DEF Decisions

(* A node's PREPARE may complete the certificate of its round. *)
LEMMA PrePrepareMaps ==
  ASSUME Cardinality(Node) < 2 * Threshold, IInv, IInv',
         NEW n \in Node, NEW m \in net, HandlePrePrepare(n, m)
  PROVE  [Abstract!Next]_<<Chosen, Decisions>>
  <1>1. seq[n] \in 1..MaxSeq
    BY BoundAssumption
       DEF IInv, TypeInv, TypeOK, Started, HandlePrePrepare, Deliverable
  <1>2. OwnPrepare(n).seq = seq[n]
    BY DEF OwnPrepare
  <1>3. net' = net \cup {OwnPrepare(n)} /\ UNCHANGED decided
    BY DEF HandlePrePrepare
  <1>4. \A s \in 1..MaxSeq \ {seq[n]} : \A c :
          VotersIn(net', "prepare", s, c) = VotersIn(net, "prepare", s, c)
    BY <1>2, <1>3 DEF VotersIn
  <1>5. OneVoteIn(net) /\ OneVoteIn(net')
    BY DEF IInv, Votes, OneVote, OneVoteIn
  <1>6. \/ ChosenIn(net') = ChosenIn(net)
        \/ \E c \in Class :
             /\ ChosenIn(net)[seq[n]] = None
             /\ ChosenIn(net') = [ChosenIn(net) EXCEPT ![seq[n]] = c]
    <2> DEFINE M == net
               L == net'
               r == seq[n]
    <2>1. /\ M \subseteq L /\ OneVoteIn(M) /\ OneVoteIn(L)
          /\ r \in 1..MaxSeq
      BY <1>1, <1>3, <1>5
    <2>2. \A s \in 1..MaxSeq \ {r} : \A c :
            VotersIn(L, "prepare", s, c) = VotersIn(M, "prepare", s, c)
      BY <1>4
    <2> HIDE DEF M, L, r
    <2>3. \/ ChosenIn(L) = ChosenIn(M)
          \/ \E c \in Class : /\ ChosenIn(M)[r] = None
                              /\ ChosenIn(L) = [ChosenIn(M) EXCEPT ![r] = c]
      BY <2>1, <2>2, ChosenStep, Z3
    <2> QED BY <2>3 DEF M, L, r
  <1>7. UNCHANGED Decisions
    BY <1>3 DEF Decisions
  <1>8. CASE ChosenIn(net') = ChosenIn(net)
    BY <1>7, <1>8, ChosenDef
  <1>9. ASSUME NEW c \in Class, ChosenIn(net)[seq[n]] = None,
               ChosenIn(net') = [ChosenIn(net) EXCEPT ![seq[n]] = c]
        PROVE  Abstract!Next
    <2>1. Abstract!Choose(seq[n], c)
      BY <1>7, <1>9, ChosenDef DEF Abstract!Choose
    <2> QED BY <1>1, <2>1 DEF Abstract!Next
  <1> QED BY <1>6, <1>8, <1>9

(* A node finishes its round with the chosen class. *)
LEMMA CommitMaps ==
  ASSUME Cardinality(Node) < 2 * Threshold, IInv, IInv',
         NEW n \in Node, NEW m \in net, HandleCommit(n, m)
  PROVE  [Abstract!Next]_<<Chosen, Decisions>>
  <1>1. /\ seq[n] \in 1..MaxSeq
        /\ consensusClass[n] \in Class
    BY BoundAssumption
       DEF IInv, TypeInv, TypeOK, Started, HandleCommit, Deliverable
  <1>2. UNCHANGED net
    BY DEF HandleCommit
  <1>3. UNCHANGED Chosen
    BY <1>2, ChosenDef
  <1>4. CASE UNCHANGED decided
    BY <1>3, <1>4 DEF Decisions
  <1>5. CASE decided' = decided \cup
               {[node |-> n, view |-> view[n], seq |-> seq[n],
                 request |-> request[n], class |-> consensusClass[n]]}
    <2>1. CertifiedIn(net, seq[n], consensusClass[n])
      BY <1>1 DEF IInv, Certified
    <2>2. OneVoteIn(net)
      BY DEF IInv, Votes, OneVote, OneVoteIn
    <2>3. Chosen[seq[n]] = consensusClass[n]
      BY <1>1, <2>1, <2>2, ChosenIs, ChosenDef
    <2>4. Decisions' = Decisions \cup
            {[node |-> n, seq |-> seq[n], class |-> consensusClass[n]]}
      <3> DEFINE d == [node |-> n, view |-> view[n], seq |-> seq[n],
                       request |-> request[n], class |-> consensusClass[n]]
      <3>1. /\ d.node = n /\ d.seq = seq[n] /\ d.class = consensusClass[n]
            /\ decided' = decided \cup {d}
        BY <1>5
      <3> HIDE DEF d
      <3>2. Decisions' = Decisions \cup
              {[node |-> d.node, seq |-> d.seq, class |-> d.class]}
        BY <3>1 DEF Decisions
      <3> QED BY <3>1, <3>2
    <2>5. Chosen[seq[n]] # None
      BY <1>1, <2>3, NoneAssumption
    <2>6. Abstract!Decide(n, seq[n])
      BY <1>3, <2>3, <2>4, <2>5 DEF Abstract!Decide
    <2> QED BY <1>1, <2>6 DEF Abstract!Next
  <1> QED BY <1>4, <1>5 DEF HandleCommit

(* Each step of a node maps to a step of RoundAgreement or to a stutter. *)
LEMMA StepMaps ==
  ASSUME Cardinality(Node) < 2 * Threshold, IInv, IInv', [Next]_vars
  PROVE  [Abstract!Next]_<<Chosen, Decisions>>
  <1>1. ASSUME net \subseteq net', \A k \in net' \ net : k.type # "prepare",
               UNCHANGED decided
        PROVE  [Abstract!Next]_<<Chosen, Decisions>>
    BY <1>1, MapsToStutter
  <1>2. ASSUME NEW n \in Node, NEW p \in Primaries, NEW r \in Request,
               NEW c \in Class, StartRound(n, p, r, c)
        PROVE  [Abstract!Next]_<<Chosen, Decisions>>
    <2>1. /\ net \subseteq net' /\ UNCHANGED decided
          /\ \A k \in net' \ net : k.type # "prepare"
      BY <1>2 DEF StartRound
    <2> QED BY <1>1, <2>1
  <1>3. ASSUME NEW n \in Node, NEW m \in net, HandlePrepare(n, m)
        PROVE  [Abstract!Next]_<<Chosen, Decisions>>
    <2>1. \A c : OwnCommit(n, c).type # "prepare"
      BY DEF OwnCommit
    <2>2. /\ net \subseteq net' /\ UNCHANGED decided
          /\ \A k \in net' \ net : k.type # "prepare"
      BY <1>3, <2>1 DEF HandlePrepare
    <2> QED BY <1>1, <2>2
  <1>4. ASSUME NEW n \in Node, NEW m \in net, HandleViewChange(n, m)
        PROVE  [Abstract!Next]_<<Chosen, Decisions>>
    <2>1. /\ net \subseteq net' /\ UNCHANGED decided
          /\ \A k \in net' \ net : k.type # "prepare"
      BY <1>4 DEF HandleViewChange
    <2> QED BY <1>1, <2>1
  <1>5. ASSUME NEW n \in Node, NEW m \in net, HandleNewView(n, m)
        PROVE  [Abstract!Next]_<<Chosen, Decisions>>
    BY <1>1, <1>5 DEF HandleNewView
  <1>6. ASSUME NEW n \in Node, CheckTimeout(n)
        PROVE  [Abstract!Next]_<<Chosen, Decisions>>
    <2>1. /\ net \subseteq net' /\ UNCHANGED decided
          /\ \A k \in net' \ net : k.type # "prepare"
      BY <1>6 DEF CheckTimeout
    <2> QED BY <1>1, <2>1
  <1>7. CASE UNCHANGED vars
    BY <1>1, <1>7 DEF vars
  <1> QED
    BY <1>2, <1>3, <1>4, <1>5, <1>6, <1>7, PrePrepareMaps, CommitMaps
       DEF Next, NodeStep, HandleMessage

(* The machines of all nodes together do what RoundAgreement promises: the *)
(* class of a round is chosen at most once, for good, and outcomes carry   *)
(* it, for any number of nodes below 4f+2 (state_machine.py).              *)
THEOREM Refinement ==
  Cardinality(Node) < 2 * Threshold => (Spec => ImplementsRoundAgreement)
  <1> SUFFICES ASSUME Cardinality(Node) < 2 * Threshold
               PROVE  Spec => ImplementsRoundAgreement
    OBVIOUS
  <1>1. Init => Abstract!Init
    <2> SUFFICES ASSUME Init PROVE Abstract!Init
      OBVIOUS
    <2>1. \A s, c : VotersIn(net, "prepare", s, c) = {}
      BY DEF Init, VotersIn
    <2>2. \A s, c : ~CertifiedIn(net, s, c)
      BY <2>1, FS_EmptySet, BoundAssumption DEF CertifiedIn, Threshold
    <2>3. Chosen = [s \in 1..MaxSeq |-> None]
      BY <2>2, ChosenDef DEF ChosenIn
    <2>4. Decisions = {}
      BY DEF Init, Decisions
    <2> QED BY <2>3, <2>4 DEF Abstract!Init
  <1>2. IInv /\ IInv' /\ [Next]_vars => [Abstract!Next]_<<Chosen, Decisions>>
    BY StepMaps
  <1> QED
    BY <1>1, <1>2, IInvHolds, PTL
       DEF Spec, ImplementsRoundAgreement, Abstract!Spec, Abstract!avars
-----------------------------------------------------------------------------
(* A round in which nobody has timed out does not end with all nodes       *)
(* waiting.                                                                *)

\* A started machine is in view 0; its primary has proposed.
Proposed ==
  /\ \A n \in Node : view[n] = 0 /\ phase[n] # "VIEW_CHANGE"
  /\ \A m \in net : m.view = 0
  /\ \A n \in Node : seq[n] > 0 => phase[n] # "IDLE"
  /\ \A n \in Node : seq[n] > 0 /\ primary[n] = n =>
       \E m \in net : m.type = "pre_prepare" /\ m.sender = n /\ m.seq = seq[n]

\* A node votes when it leaves PRE_PREPARE, and not before.
VotedOnce ==
  \A n \in Node :
    /\ phase[n] = "PRE_PREPARE" =>
         ~\E m \in net : m.type = "prepare" /\ m.sender = n /\ m.seq = seq[n]
    /\ phase[n] = "PREPARE" => OwnPrepare(n) \in net

\* A node that has settled on a class has sent its COMMIT, and finishes the
\* round with the 2f+1st COMMIT it counts.
CommitsCounted ==
  \A n \in Node :
    /\ phase[n] \in {"PRE_PREPARE", "PREPARE"} => commits[n] = {}
    /\ phase[n] \in {"COMMIT", "COMMITTED"} =>
         consensusClass[n] \in Class /\ OwnCommit(n, consensusClass[n]) \in net
    /\ phase[n] = "COMMIT" => Cardinality(Senders(commits[n])) < Threshold
    /\ phase[n] = "COMMITTED" => \E d \in decided : d.seq = seq[n]

\* Of two nodes that have voted and could settle on a class, but have not,
\* one does not count the vote of the other.
OneLastVoter ==
  \A a, b \in Node :
    /\ a # b /\ phase[a] = "PREPARE" /\ phase[b] = "PREPARE"
    /\ WinningClasses(prepares[a]) # {} /\ WinningClasses(prepares[b]) # {}
    /\ a \in Senders(prepares[b])
    => b \notin Senders(prepares[a])

Calm == Proposed /\ VotedOnce /\ CommitsCounted /\ OneLastVoter

(* While nobody times out, a step starts a round, takes a proposal or      *)
(* counts a vote.                                                          *)
LEMMA CalmSteps ==
  ASSUME NoTimeOut', [Next]_vars
  PROVE  /\ NoTimeOut /\ net \subseteq net'
         /\ \/ \E n \in Node :
                 \/ \E p \in Primaries, r \in Request, c \in Class :
                      StartRound(n, p, r, c)
                 \/ \E m \in net : \/ HandlePrePrepare(n, m)
                                   \/ HandlePrepare(n, m)
                                   \/ HandleCommit(n, m)
            \/ UNCHANGED vars
  <1>1. net \subseteq net'
    <2>1. ASSUME NEW n \in Node, NEW p \in Primaries, NEW r \in Request,
                 NEW c \in Class, StartRound(n, p, r, c)
          PROVE  net \subseteq net'
      BY <2>1 DEF StartRound
    <2>2. ASSUME NEW n \in Node, NEW m \in net, HandleMessage(n, m)
          PROVE  net \subseteq net'
      BY <2>2 DEF HandleMessage, HandlePrePrepare, HandlePrepare,
                  HandleCommit, HandleViewChange, HandleNewView
    <2>3. ASSUME NEW n \in Node, CheckTimeout(n)
          PROVE  net \subseteq net'
      BY <2>3 DEF CheckTimeout
    <2> QED BY <2>1, <2>2, <2>3 DEF Next, NodeStep, vars
  <1>2. NoTimeOut
    BY <1>1 DEF NoTimeOut
  <1>3. ASSUME NEW n \in Node, NEW m \in net,
               HandleViewChange(n, m) \/ HandleNewView(n, m)
        PROVE  FALSE
    BY <1>2, <1>3
       DEF NoTimeOut, HandleViewChange, HandleNewView, Deliverable
  <1>4. ASSUME NEW n \in Node, CheckTimeout(n)
        PROVE  FALSE
    <2> DEFINE k == [type |-> "view_change", view |-> view[n],
                     seq |-> seq[n], sender |-> n, newView |-> view[n] + 1,
                     lastSeq |-> seq[n]]
    <2>1. k \in net' /\ k.type = "view_change"
      BY <1>4 DEF CheckTimeout
    <2> QED BY <2>1 DEF NoTimeOut
  <1> QED BY <1>1, <1>2, <1>3, <1>4 DEF Next, NodeStep, HandleMessage

(* Without time-outs views stay 0, and a primary proposes when it starts.  *)
LEMMA ProposedStep ==
  ASSUME TypeInv, NoTimeOut', [Next]_vars, Proposed
  PROVE  Proposed'
  <1>1. ASSUME NEW n \in Node, NEW p \in Primaries, NEW r \in Request,
               NEW c \in Class, StartRound(n, p, r, c)
        PROVE  Proposed'
    <2> DEFINE k == [type |-> "pre_prepare", view |-> 0, seq |-> seq[n] + 1,
                     sender |-> n, request |-> r, class |-> c]
    <2>1. /\ net \subseteq net' /\ net' \subseteq net \cup {k}
          /\ p = n => k \in net'
      BY <1>1 DEF StartRound
    <2>2. /\ k.type = "pre_prepare" /\ k.view = 0 /\ k.sender = n
          /\ k.seq = seq'[n]
      BY <1>1 DEF StartRound, TypeInv, TypeOK
    <2> HIDE DEF k
    <2>3. \A q \in Node : view'[q] = 0 /\ phase'[q] # "VIEW_CHANGE"
      BY <1>1 DEF StartRound, TypeInv, TypeOK, Proposed
    <2>4. \A m \in net' : m.view = 0
      BY <2>1, <2>2 DEF Proposed
    <2>5. \A q \in Node : seq'[q] > 0 => phase'[q] # "IDLE"
      BY <1>1 DEF StartRound, TypeInv, TypeOK, Proposed
    <2>6. ASSUME NEW q \in Node, seq'[q] > 0, primary'[q] = q
          PROVE  \E m \in net' : /\ m.type = "pre_prepare" /\ m.sender = q
                                 /\ m.seq = seq'[q]
      <3>1. CASE q = n
        <4>1. p = n
          BY <1>1, <2>6, <3>1 DEF StartRound, TypeInv, TypeOK
        <4> QED BY <2>1, <2>2, <3>1, <4>1
      <3>2. CASE q # n
        <4>1. seq'[q] = seq[q] /\ primary'[q] = primary[q]
          BY <1>1, <3>2 DEF StartRound, TypeInv, TypeOK
        <4> QED BY <2>1, <2>6, <4>1 DEF Proposed
      <3> QED BY <3>1, <3>2
    <2> QED BY <2>3, <2>4, <2>5, <2>6 DEF Proposed
  <1>2. ASSUME NEW n \in Node, NEW m \in net, HandlePrePrepare(n, m)
        PROVE  Proposed'
    <2>1. OwnPrepare(n).view = 0
      BY DEF OwnPrepare, Proposed
    <2> QED BY <1>2, <2>1 DEF HandlePrePrepare, Proposed, TypeInv, TypeOK
  <1>3. ASSUME NEW n \in Node, NEW m \in net, HandlePrepare(n, m)
        PROVE  Proposed'
    <2>1. \A c : OwnCommit(n, c).view = 0
      BY DEF OwnCommit, Proposed
    <2> QED BY <1>3, <2>1 DEF HandlePrepare, Proposed, TypeInv, TypeOK
  <1>4. ASSUME NEW n \in Node, NEW m \in net, HandleCommit(n, m)
        PROVE  Proposed'
    BY <1>4 DEF HandleCommit, Proposed, TypeInv, TypeOK
  <1>5. CASE UNCHANGED vars
    BY <1>5 DEF vars, Proposed
  <1> QED BY <1>1, <1>2, <1>3, <1>4, <1>5, CalmSteps

(* A round starts without a vote of its node, which votes as it leaves     *)
(* PRE_PREPARE for PREPARE.                                                *)
LEMMA VotedOnceStep ==
  ASSUME TypeInv, Votes, NoTimeOut', [Next]_vars, VotedOnce
  PROVE  VotedOnce'
  <1>1. ASSUME NEW n \in Node, NEW p \in Primaries, NEW r \in Request,
               NEW c \in Class, StartRound(n, p, r, c)
        PROVE  VotedOnce'
    <2>1. /\ net \subseteq net'
          /\ \A m \in net' : m.type = "prepare" => m \in net
      BY <1>1 DEF StartRound
    <2>2. \A m \in net : m.sender = n => ~(m.seq = seq'[n])
      <3>1. seq'[n] = seq[n] + 1 /\ seq[n] \in Nat
        BY <1>1, BoundAssumption DEF StartRound, TypeInv, TypeOK
      <3>2. \A m \in net : m.sender = n => m.seq <= seq[n] /\ m.seq \in Nat
        BY MessageKinds DEF Votes, NetBounded, TypeInv, TypeOK
      <3> QED BY <3>1, <3>2
    <2>3. phase'[n] = "PRE_PREPARE"
      BY <1>1 DEF StartRound, TypeInv, TypeOK
    <2>4. \A q \in Node \ {n} : /\ phase'[q] = phase[q] /\ seq'[q] = seq[q]
                                /\ OwnPrepare(q)' = OwnPrepare(q)
      BY <1>1 DEF StartRound, TypeInv, TypeOK, OwnPrepare
    <2> QED BY <2>1, <2>2, <2>3, <2>4 DEF VotedOnce
  <1>2. ASSUME NEW n \in Node, NEW m \in net, HandlePrePrepare(n, m)
        PROVE  VotedOnce'
    <2>1. \A q \in Node : OwnPrepare(q)' = OwnPrepare(q)
      BY <1>2 DEF HandlePrePrepare, OwnPrepare
    <2>2. OwnPrepare(n).sender = n
      BY DEF OwnPrepare
    <2>3. /\ phase'[n] = "PREPARE" /\ UNCHANGED seq
          /\ \A q \in Node \ {n} : phase'[q] = phase[q]
          /\ net' = net \cup {OwnPrepare(n)}
      BY <1>2 DEF HandlePrePrepare, TypeInv, TypeOK
    <2> QED BY <2>1, <2>2, <2>3 DEF VotedOnce
  <1>3. ASSUME NEW n \in Node, NEW m \in net,
               HandlePrepare(n, m) \/ HandleCommit(n, m)
        PROVE  VotedOnce'
    <2>1. \A q \in Node : OwnPrepare(q)' = OwnPrepare(q)
      BY <1>3 DEF HandlePrepare, HandleCommit, OwnPrepare
    <2>2. \A c : OwnCommit(n, c).type = "commit"
      BY DEF OwnCommit
    <2>3. /\ net \subseteq net' /\ UNCHANGED seq
          /\ \A k \in net' : k.type = "prepare" => k \in net
          /\ \A q \in Node : \/ phase'[q] = phase[q]
                             \/ phase'[q] \in {"COMMIT", "COMMITTED"}
      BY <1>3, <2>2 DEF HandlePrepare, HandleCommit, TypeInv, TypeOK
    <2> QED BY <2>1, <2>3 DEF VotedOnce
  <1>4. CASE UNCHANGED vars
    BY <1>4 DEF vars, VotedOnce, OwnPrepare
  <1> QED BY <1>1, <1>2, <1>3, <1>4, CalmSteps

(* A node counts COMMITs from its own on; for f > 0 its own is not enough. *)
LEMMA CommitsCountedStep ==
  ASSUME F > 0, TypeInv, NoTimeOut', [Next]_vars, CommitsCounted
  PROVE  CommitsCounted'
  <1>1. ASSUME NEW n \in Node, NEW p \in Primaries, NEW r \in Request,
               NEW c \in Class, StartRound(n, p, r, c)
        PROVE  CommitsCounted'
    <2>1. phase'[n] = "PRE_PREPARE" /\ commits'[n] = {}
      BY <1>1 DEF StartRound, TypeInv, TypeOK
    <2>2. \A q \in Node \ {n} :
            /\ phase'[q] = phase[q] /\ commits'[q] = commits[q]
            /\ seq'[q] = seq[q] /\ consensusClass'[q] = consensusClass[q]
            /\ \A d : OwnCommit(q, d)' = OwnCommit(q, d)
      BY <1>1 DEF StartRound, TypeInv, TypeOK, OwnCommit
    <2>3. net \subseteq net' /\ UNCHANGED decided
      BY <1>1 DEF StartRound
    <2> QED BY <2>1, <2>2, <2>3 DEF CommitsCounted
  <1>2. ASSUME NEW n \in Node, NEW m \in net, HandlePrePrepare(n, m)
        PROVE  CommitsCounted'
    <2>1. \A q, d : OwnCommit(q, d)' = OwnCommit(q, d)
      BY <1>2 DEF HandlePrePrepare, OwnCommit
    <2>2. /\ net \subseteq net'
          /\ UNCHANGED <<decided, commits, seq, consensusClass>>
          /\ phase[n] = "PRE_PREPARE" /\ phase'[n] = "PREPARE"
          /\ \A q \in Node \ {n} : phase'[q] = phase[q]
      BY <1>2 DEF HandlePrePrepare, TypeInv, TypeOK
    <2> QED BY <2>1, <2>2 DEF CommitsCounted
  <1>3. ASSUME NEW n \in Node, NEW m \in net, HandlePrepare(n, m)
        PROVE  CommitsCounted'
    <2>1. \A q, d : OwnCommit(q, d)' = OwnCommit(q, d)
      BY <1>3 DEF HandlePrepare, OwnCommit
    <2>2. CASE UNCHANGED <<phase, commits, consensusClass, net>>
      BY <1>3, <2>1, <2>2 DEF HandlePrepare, CommitsCounted
    <2>3. ASSUME NEW c \in WinningClasses(prepares[n] \cup {m}),
                 consensusClass' = [consensusClass EXCEPT ![n] = c],
                 phase' = [phase EXCEPT ![n] = "COMMIT"],
                 commits' = [commits EXCEPT ![n] = Store(@, OwnCommit(n, c))],
                 net' = net \cup {OwnCommit(n, c)}
          PROVE  CommitsCounted'
      <3>1. c \in Class
        BY DEF WinningClasses
      <3>2. commits[n] = {}
        BY <1>3 DEF HandlePrepare, CommitsCounted
      <3>3. commits'[n] = {OwnCommit(n, c)}
        BY <2>3, <3>2 DEF Store, TypeInv, TypeOK
      <3>4. Senders(commits'[n]) = {n}
        BY <3>3 DEF Senders, OwnCommit
      <3>5. Cardinality(Senders(commits'[n])) < Threshold
        <4>1. Cardinality({n}) = 1
          BY FS_Singleton
        <4> QED BY <3>4, <4>1, BoundAssumption DEF Threshold
      <3>6. /\ phase'[n] = "COMMIT" /\ consensusClass'[n] = c
            /\ OwnCommit(n, c) \in net' /\ net \subseteq net'
            /\ UNCHANGED <<decided, seq>>
        BY <1>3, <2>3 DEF HandlePrepare, TypeInv, TypeOK
      <3>7. \A q \in Node \ {n} :
              /\ phase'[q] = phase[q] /\ commits'[q] = commits[q]
              /\ consensusClass'[q] = consensusClass[q]
        BY <2>3 DEF TypeInv, TypeOK
      <3> QED BY <2>1, <3>1, <3>5, <3>6, <3>7 DEF CommitsCounted
    <2> QED BY <1>3, <2>2, <2>3 DEF HandlePrepare
  <1>4. ASSUME NEW n \in Node, NEW m \in net, HandleCommit(n, m)
        PROVE  CommitsCounted'
    <2> DEFINE stored == commits[n] \cup {m}
               d == [node |-> n, view |-> view[n], seq |-> seq[n],
                     request |-> request[n], class |-> consensusClass[n]]
    <2>1. \A q, e : OwnCommit(q, e)' = OwnCommit(q, e)
      BY <1>4 DEF HandleCommit, OwnCommit
    <2>2. /\ UNCHANGED <<net, seq, consensusClass>> /\ phase[n] = "COMMIT"
          /\ commits'[n] = stored
          /\ \A q \in Node \ {n} : commits'[q] = commits[q]
      BY <1>4 DEF HandleCommit, TypeInv, TypeOK
    <2>3. CASE /\ Cardinality(Senders(stored)) < Threshold
               /\ UNCHANGED <<phase, decided>>
      BY <2>1, <2>2, <2>3 DEF CommitsCounted
    <2>4. CASE /\ phase' = [phase EXCEPT ![n] = "COMMITTED"]
               /\ decided' = decided \cup {d}
      <3>1. d.seq = seq[n] /\ d \in decided' /\ decided \subseteq decided'
        BY <2>4
      <3>2. /\ phase'[n] = "COMMITTED"
            /\ \A q \in Node \ {n} : phase'[q] = phase[q]
        BY <2>4 DEF TypeInv, TypeOK
      <3> HIDE DEF d, stored
      <3> QED BY <2>1, <2>2, <3>1, <3>2 DEF CommitsCounted
    <2> QED BY <1>4, <2>3, <2>4 DEF HandleCommit
  <1>5. CASE UNCHANGED vars
    BY <1>5 DEF vars, CommitsCounted, OwnCommit
  <1> QED BY <1>1, <1>2, <1>3, <1>4, <1>5, CalmSteps

(* The node that votes finds the votes of the others in its store, and its *)
(* own in no other.                                                        *)
LEMMA OneLastVoterStep ==
  ASSUME TypeInv, Votes, NoTimeOut', [Next]_vars, VotedOnce, OneLastVoter
  PROVE  OneLastVoter'
  <1>1. ASSUME NEW n \in Node, NEW p \in Primaries, NEW r \in Request,
               NEW c \in Class, StartRound(n, p, r, c)
        PROVE  OneLastVoter'
    <2>1. /\ phase'[n] = "PRE_PREPARE"
          /\ \A q \in Node \ {n} : phase'[q] = phase[q]
                                   /\ prepares'[q] = prepares[q]
      BY <1>1 DEF StartRound, TypeInv, TypeOK
    <2> QED BY <2>1 DEF OneLastVoter, WinningClasses
  <1>2. ASSUME NEW n \in Node, NEW m \in net, HandlePrePrepare(n, m)
        PROVE  OneLastVoter'
    <2>1. /\ phase[n] = "PRE_PREPARE" /\ OwnPrepare(n).sender = n
          /\ prepares'[n] = Store(prepares[n], OwnPrepare(n))
          /\ \A q \in Node \ {n} : phase'[q] = phase[q]
                                   /\ prepares'[q] = prepares[q]
      BY <1>2 DEF HandlePrePrepare, TypeInv, TypeOK, OwnPrepare
    <2>2. ASSUME NEW q \in Node \ {n}, q \in Senders(prepares'[n]),
                 n \in Senders(prepares[q])
          PROVE  FALSE
      <3>1. PICK j \in prepares[n] : j.sender = q
        BY <2>1, <2>2 DEF Senders, Store
      <3>2. PICK k \in prepares[q] : k.sender = n
        BY <2>2 DEF Senders
      <3>3. /\ j \in net /\ j.seq = seq[n]
            /\ k \in net /\ k.seq = seq[q] /\ k.type = "prepare"
        BY DEF Votes, StoredVotes
      <3>4. seq[n] <= seq[q] /\ seq[q] <= seq[n]
        BY <3>1, <3>2, <3>3 DEF Votes, NetBounded
      <3>5. k.seq = seq[n]
        BY <3>3, <3>4, BoundAssumption DEF TypeInv, TypeOK
      <3> QED BY <2>1, <3>2, <3>3, <3>5 DEF VotedOnce
    <2>3. ASSUME NEW a \in Node, NEW b \in Node, a # b,
                 phase'[a] = "PREPARE", phase'[b] = "PREPARE",
                 WinningClasses(prepares'[a]) # {},
                 WinningClasses(prepares'[b]) # {},
                 a \in Senders(prepares'[b]), b \in Senders(prepares'[a])
          PROVE  FALSE
      <3>1. CASE a # n /\ b # n
        BY <2>1, <2>3, <3>1 DEF OneLastVoter
      <3>2. CASE a = n
        BY <2>1, <2>2, <2>3, <3>2
      <3>3. CASE b = n
        BY <2>1, <2>2, <2>3, <3>3
      <3> QED BY <3>1, <3>2, <3>3
    <2> QED BY <2>3 DEF OneLastVoter, WinningClasses
  <1>3. ASSUME NEW n \in Node, NEW m \in net, HandlePrepare(n, m)
        PROVE  OneLastVoter'
    <2>1. /\ prepares'[n] = prepares[n] \cup {m}
          /\ \A q \in Node \ {n} : phase'[q] = phase[q]
                                   /\ prepares'[q] = prepares[q]
          /\ \/ WinningClasses(prepares[n] \cup {m}) = {}
             \/ phase'[n] = "COMMIT"
      BY <1>3 DEF HandlePrepare, TypeInv, TypeOK
    <2>2. WinningClasses(prepares[n] \cup {m}) = {}
            => WinningClasses(prepares'[n]) = {}
      BY <2>1
    <2> QED BY <2>1, <2>2 DEF OneLastVoter, WinningClasses
  <1>4. ASSUME NEW n \in Node, NEW m \in net, HandleCommit(n, m)
        PROVE  OneLastVoter'
    <2>1. /\ UNCHANGED prepares
          /\ \A q \in Node : phase'[q] = phase[q]
                             \/ phase'[q] = "COMMITTED"
      BY <1>4 DEF HandleCommit, TypeInv, TypeOK
    <2> QED BY <2>1 DEF OneLastVoter, WinningClasses
  <1>5. CASE UNCHANGED vars
    BY <1>5 DEF vars, OneLastVoter, WinningClasses
  <1> QED BY <1>1, <1>2, <1>3, <1>4, <1>5, CalmSteps

(* When nothing is left to act on, all votes are counted everywhere, so at *)
(* most one node, the last to vote, has not sent its COMMIT; the others    *)
(* are 2f+1 or more, and the COMMITs are counted as well.                  *)
LEMMA QuietDecides ==
  ASSUME 2 * F + 2 <= Cardinality(Node), Cardinality(Node) < 2 * Threshold,
         IInv, Calm, Quiet,
         NEW s \in 1..MaxSeq, NEW p \in Node,
         \A n \in Node : seq[n] = s /\ primary[n] = p,
         NEW c \in Class, Cardinality({n \in Node : own[n] = c}) > 2 * F
  PROVE  \E d \in decided : d.seq = s
  <1> USE DEF IInv, TypeInv, Calm
  <1>0. s > 0 /\ s \in Nat /\ F \in Nat /\ Threshold = 2 * F + 1
        /\ IsFiniteSet(Node) /\ Cardinality(Node) \in Nat
    BY BoundAssumption, NodeAssumption, FS_CardinalityType DEF Threshold
  <1>1. ASSUME NEW n \in Node
        PROVE  phase[n] \in {"PREPARE", "COMMIT", "COMMITTED"}
    <2>1. phase[n] \in Phase \ {"IDLE", "VIEW_CHANGE"}
      BY <1>0 DEF TypeOK, Proposed
    <2>2. PICK m \in net : m.type = "pre_prepare" /\ m.sender = p /\ m.seq = s
      BY <1>0 DEF Proposed
    <2>3. m.view = 0 /\ view[n] = 0
      BY DEF Proposed
    <2>4. ~TakesPrePrepare(n, m)
      BY DEF Quiet
    <2>5. phase[n] # "PRE_PREPARE"
      BY <2>1, <2>2, <2>3, <2>4 DEF Deliverable, SameRound
    <2> QED BY <2>1, <2>5 DEF Phase
  <1>2. ASSUME NEW n \in Node, phase[n] = "PREPARE", NEW m \in net,
               m.type = "prepare", m.seq = s
        PROVE  \E k \in prepares[n] : k.sender = m.sender /\ k.class = m.class
    <2>1. m.view = 0 /\ view[n] = 0
      BY DEF Proposed
    <2>2. ~TakesPrepare(n, m)
      BY DEF Quiet
    <2>3. m.sender \in Senders(prepares[n])
      BY <1>2, <2>1, <2>2 DEF Deliverable, SameRound
    <2>4. PICK k \in prepares[n] : k.sender = m.sender
      BY <2>3 DEF Senders
    <2>5. k \in net /\ k.type = "prepare" /\ k.seq = s
      BY DEF Votes, StoredVotes
    <2> QED BY <1>2, <2>4, <2>5 DEF Votes, OneVote
  <1>3. ASSUME NEW n \in Node, phase[n] = "PREPARE", NEW d \in Class,
               CertifiedIn(net, s, d)
        PROVE  d \in WinningClasses(prepares[n])
    <2>1. /\ VotersIn(net, "prepare", s, d) \subseteq VotersFor(prepares[n], d)
          /\ VotersFor(prepares[n], d) \subseteq Node
      BY <1>2, <1>3 DEF VotersIn, VotersFor
    <2> QED BY <1>3, <2>1, QuorumGrows DEF CertifiedIn, WinningClasses
  <1>4. ASSUME NEW n \in Node, phase[n] \in {"COMMIT", "COMMITTED"}
        PROVE  /\ consensusClass[n] \in Class
               /\ CertifiedIn(net, s, consensusClass[n])
               /\ OwnCommit(n, consensusClass[n]) \in net
    BY <1>4 DEF CommitsCounted, Certified
  <1>5. ASSUME NEW n \in Node, phase[n] = "PREPARE"
        PROVE  /\ OwnPrepare(n) \in net /\ OwnPrepare(n).type = "prepare"
               /\ OwnPrepare(n).sender = n /\ OwnPrepare(n).seq = s
               /\ OwnPrepare(n).class = own[n]
    BY <1>5 DEF VotedOnce, OwnPrepare
  <1>6. \E d \in Class : CertifiedIn(net, s, d)
    <2>1. CASE \E n \in Node : phase[n] \in {"COMMIT", "COMMITTED"}
      BY <1>4, <2>1
    <2>2. CASE \A n \in Node : phase[n] = "PREPARE"
      <3> DEFINE A == {n \in Node : own[n] = c}
      <3>1. /\ A \subseteq VotersIn(net, "prepare", s, c)
            /\ VotersIn(net, "prepare", s, c) \subseteq Node
        BY <1>5, <2>2 DEF VotersIn
      <3>2. Cardinality(A) \in Nat
        BY <1>0, FS_Subset, FS_CardinalityType
      <3>3. Cardinality(A) >= Threshold
        BY <1>0, <3>2
      <3> HIDE DEF A
      <3> QED BY <3>1, <3>3, QuorumGrows DEF CertifiedIn
    <2> QED BY <1>1, <2>1, <2>2
  <1>7. PICK d \in Class : CertifiedIn(net, s, d)
    BY <1>6
  <1>8. ASSUME NEW a \in Node, NEW b \in Node,
               phase[a] = "PREPARE", phase[b] = "PREPARE"
        PROVE  a = b
    <2>1. a \in Senders(prepares[b]) /\ b \in Senders(prepares[a])
      BY <1>2, <1>5, <1>8 DEF Senders
    <2>2. WinningClasses(prepares[a]) # {} /\ WinningClasses(prepares[b]) # {}
      BY <1>3, <1>7, <1>8
    <2> QED BY <1>8, <2>1, <2>2 DEF OneLastVoter
  <1> DEFINE Done == {n \in Node : phase[n] # "PREPARE"}
  <1>9. Cardinality(Done) >= Threshold
    <2>1. CASE Done = Node
      <3> HIDE DEF Done
      <3> QED BY <1>0, <2>1
    <2>2. CASE Done # Node
      <3>1. PICK a \in Node : phase[a] = "PREPARE"
        BY <2>2
      <3>2. Done = Node \ {a}
        BY <1>8, <3>1
      <3>3. Cardinality(Node \ {a}) = Cardinality(Node) - 1
        BY <1>0, FS_RemoveElement
      <3> HIDE DEF Done
      <3> QED BY <1>0, <3>2, <3>3
    <2> QED BY <2>1, <2>2
  <1>10. ASSUME NEW n \in Done
         PROVE  /\ consensusClass[n] = d /\ OwnCommit(n, d) \in net
                /\ phase[n] \in {"COMMIT", "COMMITTED"}
    <2>1. /\ CertifiedIn(net, s, consensusClass[n])
          /\ OwnCommit(n, consensusClass[n]) \in net
          /\ phase[n] \in {"COMMIT", "COMMITTED"}
      BY <1>1, <1>4
    <2>2. \A m, k \in net : /\ m.type = "prepare" /\ k.type = "prepare"
                            /\ m.sender = k.sender /\ m.seq = k.seq
                            => m.class = k.class
      BY DEF Votes, OneVote
    <2>3. consensusClass[n] = d
      BY <1>7, <2>1, <2>2, CertifiedOnce
    <2> QED BY <2>1, <2>3
  <1>11. CASE \E n \in Node : phase[n] = "COMMITTED"
    BY <1>11 DEF CommitsCounted
  <1>12. CASE \A n \in Node : phase[n] # "COMMITTED"
    <2>1. PICK q \in Done : TRUE
      <3>1. Done # {}
        <4> HIDE DEF Done
        <4> QED BY <1>0, <1>9, FS_EmptySet
      <3> QED BY <3>1
    <2>2. q \in Node /\ phase[q] = "COMMIT" /\ consensusClass[q] = d
      BY <1>10, <1>12
    <2>3. ASSUME NEW n \in Done
          PROVE  n \in Senders(commits[q])
      <3>1. /\ OwnCommit(n, d) \in net /\ OwnCommit(n, d).type = "commit"
            /\ OwnCommit(n, d).view = 0 /\ OwnCommit(n, d).seq = s
            /\ OwnCommit(n, d).sender = n /\ OwnCommit(n, d).class = d
        BY <1>10 DEF OwnCommit, Proposed
      <3>2. ~TakesCommit(q, OwnCommit(n, d))
        BY <2>2, <3>1 DEF Quiet
      <3>3. view[q] = 0
        BY <2>2 DEF Proposed
      <3> QED BY <2>2, <3>1, <3>2, <3>3 DEF Deliverable, SameRound
    <2>4. Senders(commits[q]) \subseteq Node
      BY <2>2 DEF Senders, TypeOK, CommitMsg
    <2>5. Cardinality(Senders(commits[q])) >= Threshold
      <3>1. Done \subseteq Senders(commits[q])
        BY <2>3
      <3> HIDE DEF Done
      <3> QED BY <1>9, <2>4, <3>1, QuorumGrows
    <2>6. Cardinality(Senders(commits[q])) < Threshold
      BY <2>2 DEF CommitsCounted
    <2>7. Cardinality(Senders(commits[q])) \in Nat
      BY <1>0, <2>4, FS_Subset, FS_CardinalityType
    <2> QED BY <1>0, <2>5, <2>6, <2>7
  <1> QED BY <1>11, <1>12

(* A round in which nobody times out and 2f+1 models agree is finished by  *)
(* somebody when no message is left to act on, for 2f+2 to 4f+1 nodes      *)
(* (3f+1 are, when f > 0): with exactly 2f+1 the last voter is missed, as  *)
(* it stores its own PREPARE and does not look (_handle_pre_prepare).      *)
THEOREM QuietRoundsAreDecided ==
  2 * F + 2 <= Cardinality(Node) /\ Cardinality(Node) < 2 * Threshold
    => (Spec => []QuietMeansDecided)
  <1> SUFFICES ASSUME 2 * F + 2 <= Cardinality(Node),
                      Cardinality(Node) < 2 * Threshold
               PROVE  Spec => []QuietMeansDecided
    OBVIOUS
  <1>1. F > 0
    BY NodeAssumption, FS_CardinalityType, BoundAssumption DEF Threshold
  <1>2. Init => Calm
    BY DEF Init, Calm, Proposed, VotedOnce, CommitsCounted, OneLastVoter
  <1>3. IInv /\ (NoTimeOut => Calm) /\ [Next]_vars => (NoTimeOut => Calm)'
    <2> SUFFICES ASSUME IInv, NoTimeOut => Calm, [Next]_vars, NoTimeOut'
                 PROVE  Calm'
      OBVIOUS
    <2>1. Calm /\ TypeInv /\ Votes
      BY CalmSteps DEF IInv
    <2> QED BY <1>1, <2>1, ProposedStep, VotedOnceStep, CommitsCountedStep,
               OneLastVoterStep DEF Calm
  <1>4. IInv /\ (NoTimeOut => Calm) => QuietMeansDecided
    BY QuietDecides DEF QuietMeansDecided
  <1> QED BY <1>2, <1>3, <1>4, IInvHolds, PTL DEF Spec
=============================================================================
