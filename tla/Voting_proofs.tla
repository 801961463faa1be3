--------------------------- MODULE Voting_proofs ----------------------------
(***************************************************************************)
(* What the votes of the network are worth, for any number of voters: the  *)
(* quorum elected for a request, the view changer, the tally of a proof of *)
(* model and the stakes behind it all.                                     *)
(*                                                                         *)
(* Each part gives the inductive invariant of its component (...Inv), its    *)
(* preservation and the theorem; nothing of one part is used by another.   *)
(***************************************************************************)
EXTENDS QuorumElection, ViewVotes, ProofOfModel, ValidatorStakes, Induction

-----------------------------------------------------------------------------
(* Elected quorum. Whoever votes, two machines of one quorum certify two   *)
(* classes only as NoSplit says. The invariant is that an elected quorum   *)
(* has at most k nodes and the f of k. The sets of voters of two classes   *)
(* are disjoint: certified both by members alone, they are 4f+2 of k nodes *)
(* or more (VotesApart), which leaves 2, 3 and 6 for k.                    *)

ElectedSize ==
  \A e \in QsElector : qsQuorum[e].elected =>
    /\ IsFiniteSet(qsQuorum[e].nodes)
    /\ Cardinality(qsQuorum[e].nodes) <= QuorumSize
    /\ qsQuorum[e].f = QuorumF(QuorumSize)

QsInv ==
  /\ qsConfig \in QsConfigs
  /\ DOMAIN qsQuorum = QsElector
  /\ ElectedSize

LEMMA ConfigTyped ==
  ASSUME qsConfig \in QsConfigs
  PROVE  /\ qsConfig.pool \in Nat /\ qsConfig.target \in Nat
         /\ qsConfig.floor \in Nat \ {0} /\ qsConfig.ceiling \in Nat \ {0}
BY QuorumAssumption

LEMMA SizePositive ==
  ASSUME qsConfig \in QsConfigs PROVE QuorumSize \in Nat \ {0}
BY ConfigTyped DEF QuorumSize, Least, Greatest

(* Where f = (k-1) div 3 leaves room for 4f+2 of k nodes.                  *)
LEMMA SizesThatSplit ==
  ASSUME NEW k \in Nat \ {0}, k >= 4 * QuorumF(k) + 2
  PROVE  k \in {2, 3} \/ (k = 6 /\ QuorumF(k) = 1)
<1>1. QuorumF(k) = (k - 1) \div 3 /\ QuorumF(k) \in Nat /\ k <= 3 * QuorumF(k) + 3
  BY DEF QuorumF
<1>2. QuorumF(k) \in {0, 1}
  BY <1>1
<1> QED BY <1>1, <1>2

(* What an election draws from is a list of 1 to pool nodes.               *)
LEMMA CandidatesListed ==
  ASSUME qsConfig \in QsConfigs, qsConfig.pool >= qsConfig.floor,
         NEW image, NEW profiles
  PROVE  LET list == Candidates(image, profiles)
         IN \E len \in 1..qsConfig.pool : DOMAIN list = 1..len
<1> DEFINE K == Scored(image, profiles)
           S == Shortlist(K, QuorumSize)
<1>1. /\ IsFiniteSet(Pool) /\ Cardinality(Pool) = qsConfig.pool
      /\ qsConfig.pool \in Nat \ {0}
  <2>1. qsConfig.pool \in Nat \ {0}
    BY ConfigTyped
  <2> QED BY <2>1, FS_Interval DEF Pool
<1>2. S \subseteq Pool
  BY DEF Shortlist
<1>3. Cardinality(S) \in Nat /\ Cardinality(S) <= qsConfig.pool
  BY <1>1, <1>2, FS_Subset, FS_CardinalityType
<1>4. CASE Cardinality(S) >= qsConfig.floor
  <2>1. Candidates(image, profiles) = ListOf(K, S)
    BY <1>4 DEF Candidates
  <2>2. DOMAIN ListOf(K, S) = 1..Cardinality(S)
    BY DEF ListOf
  <2>3. Cardinality(S) \in 1..qsConfig.pool
    BY <1>3, <1>4, ConfigTyped
  <2> QED BY <2>1, <2>2, <2>3
<1>5. CASE ~(Cardinality(S) >= qsConfig.floor)
  <2>1. Candidates(image, profiles) = ListOf({}, Pool)
    BY <1>5 DEF Candidates
  <2>2. DOMAIN ListOf({}, Pool) = 1..qsConfig.pool
    BY <1>1 DEF ListOf
  <2> QED BY <1>1, <2>1, <2>2
<1> QED BY <1>4, <1>5

(* A sample of k places is at most k nodes.                                *)
LEMMA SampleSize ==
  ASSUME qsConfig \in QsConfigs, NEW len \in 1..qsConfig.pool,
         NEW list, DOMAIN list = 1..len, NEW k \in Nat \ {0}
  PROVE  IsFiniteSet(Sampled(list, k)) /\ Cardinality(Sampled(list, k)) <= k
<1> DEFINE small == Least(k, len)
           P == QsSample[len][small]
           g == [p \in P |-> list[p]]
<1>1. len \in Nat /\ small \in 1..len /\ small <= k
  BY ConfigTyped DEF Least
<1>2. Cardinality(DOMAIN list) = len
  BY <1>1, FS_Interval
<1>3. P \subseteq 1..len /\ Cardinality(P) <= small
  BY <1>1, QuorumAssumption
<1>4. IsFiniteSet(P) /\ Cardinality(P) \in Nat
  <2> HIDE DEF P
  <2>1. IsFiniteSet(1..len)
    BY <1>1, FS_Interval
  <2> QED BY <1>3, <2>1, FS_Subset, FS_CardinalityType
<1>5. Sampled(list, k) = {list[p] : p \in P}
  BY <1>2 DEF Sampled
<1>6. g \in Surjection(P, Sampled(list, k))
  BY <1>5 DEF Surjection
<1>7. IsFiniteSet(Sampled(list, k)) /\ Cardinality(Sampled(list, k)) <= Cardinality(P)
  BY <1>4, <1>6, FS_Surjection
<1>8. Cardinality(Sampled(list, k)) \in Nat
  BY <1>7, FS_CardinalityType
<1> HIDE DEF P, small
<1> QED BY <1>1, <1>3, <1>4, <1>7, <1>8

LEMMA QsInvInit == QsInit => QsInv
BY DEF QsInit, QsInv, ElectedSize, NoQuorum

LEMMA QsInvNext == QsInv /\ [QsNext]_qsVars => QsInv'
<1> SUFFICES ASSUME QsInv, [QsNext]_qsVars PROVE QsInv'
  OBVIOUS
<1>1. ASSUME UNCHANGED <<qsConfig, qsQuorum>> PROVE QsInv'
  <2>1. QuorumSize' = QuorumSize
    BY <1>1 DEF QuorumSize
  <2> QED BY <1>1, <2>1 DEF QsInv, ElectedSize
<1>2. ASSUME NEW e \in QsElector, Elect(e) PROVE QsInv'
  <2> DEFINE list == Candidates(qsImage[e], qsProfiles[e])
  <2>1. QuorumSize' = QuorumSize /\ qsConfig' = qsConfig
    BY <1>2 DEF Elect, QuorumSize
  <2>2. qsConfig \in QsConfigs /\ DOMAIN qsQuorum = QsElector
    BY DEF QsInv
  <2>3. DOMAIN qsQuorum' = QsElector
    BY <1>2, <2>2 DEF Elect
  <2>4. ASSUME NEW d \in QsElector, d # e, (qsQuorum[d].elected)'
        PROVE  /\ IsFiniteSet(qsQuorum[d].nodes)'
               /\ (Cardinality(qsQuorum[d].nodes) <= QuorumSize)'
               /\ (qsQuorum[d].f = QuorumF(QuorumSize))'
    <3>1. qsQuorum'[d] = qsQuorum[d]
      BY <1>2, <2>2, <2>4 DEF Elect
    <3> QED BY <2>1, <2>4, <3>1 DEF QsInv, ElectedSize
  <2>5. ASSUME (qsQuorum[e].elected)'
        PROVE  /\ IsFiniteSet(qsQuorum[e].nodes)'
               /\ (Cardinality(qsQuorum[e].nodes) <= QuorumSize)'
               /\ (qsQuorum[e].f = QuorumF(QuorumSize))'
    <3>1. /\ qsQuorum'[e] = [nodes |-> Sampled(list, QuorumSize),
                             f |-> QuorumF(QuorumSize), elected |-> TRUE]
          /\ ~(qsConfig.pool < qsConfig.floor)
      BY <1>2, <2>2, <2>5 DEF Elect
    <3>2. PICK len \in 1..qsConfig.pool : DOMAIN list = 1..len
      BY <2>2, <3>1, ConfigTyped, CandidatesListed
    <3>3. /\ IsFiniteSet(Sampled(list, QuorumSize))
          /\ Cardinality(Sampled(list, QuorumSize)) <= QuorumSize
      BY <2>2, <3>2, SizePositive, SampleSize
    <3> QED BY <2>1, <3>1, <3>3 DEF QuorumF
  <2> QED BY <2>1, <2>2, <2>3, <2>4, <2>5 DEF QsInv, ElectedSize
<1>3. CASE UNCHANGED qsVars
  BY <1>1, <1>3 DEF qsVars
<1>4. ASSUME NEW e \in QsElector, RegisterProfile(e) PROVE QsInv'
  BY <1>1, <1>4 DEF RegisterProfile
<1>5. ASSUME NEW n \in 1..qsConfig.dnn, NEW c \in QsClass, CastVote(n, c) PROVE QsInv'
  BY <1>1, <1>5 DEF CastVote
<1> QED BY <1>2, <1>3, <1>4, <1>5 DEF QsNext

(* Parts of a finite set that share nothing have room in it side by side.  *)
LEMMA SideBySide ==
  ASSUME NEW Q, IsFiniteSet(Q), NEW B, NEW C,
         B \subseteq Q, C \subseteq Q, B \cap C = {}
  PROVE  /\ Cardinality(B) \in Nat /\ Cardinality(C) \in Nat /\ Cardinality(Q) \in Nat
         /\ Cardinality(B) + Cardinality(C) <= Cardinality(Q)
         /\ Cardinality(B) + Cardinality(C) = Cardinality(Q) => B \cup C = Q
<1>1. IsFiniteSet(B) /\ IsFiniteSet(C)
  BY FS_Subset
<1>2. /\ Cardinality(B) \in Nat /\ Cardinality(C) \in Nat /\ Cardinality(Q) \in Nat
  BY <1>1, FS_CardinalityType
<1>3. Cardinality(B \cap C) = 0
  BY FS_EmptySet
<1>4. Cardinality(B \cup C) = Cardinality(B) + Cardinality(C) - Cardinality(B \cap C)
  BY <1>1, FS_Union
<1>5. B \cup C \subseteq Q
  OBVIOUS
<1>6. /\ Cardinality(B \cup C) <= Cardinality(Q)
      /\ Cardinality(B \cup C) = Cardinality(Q) => B \cup C = Q
  BY <1>5, FS_Subset
<1>7. Cardinality(B \cup C) = Cardinality(B) + Cardinality(C)
  BY <1>2, <1>3, <1>4
<1> QED BY <1>2, <1>6, <1>7

LEMMA VotesApart ==
  ASSUME QsInv, NEW d \in QsElector, NEW e \in QsElector,
         NEW b \in QsClass, NEW c \in QsClass, b # c,
         qsQuorum[d].elected, qsQuorum[e] = qsQuorum[d],
         Certified(d, b), Certified(e, c),
         Voters(b) \cup Voters(c) \subseteq qsQuorum[d].nodes
  PROVE  QuorumSize \in {2, 3} \/ (QuorumSize = 6 /\ Halved(qsQuorum[d].nodes, b, c))
<1> DEFINE Q == qsQuorum[d].nodes
           f == QuorumF(QuorumSize)
           B == Voters(b)
           C == Voters(c)
<1>1. /\ IsFiniteSet(Q) /\ Cardinality(Q) <= QuorumSize /\ qsQuorum[d].f = f
      /\ QuorumSize \in Nat \ {0} /\ f \in Nat
  BY SizePositive DEF QsInv, ElectedSize, QuorumF
<1>2. B \subseteq Q /\ C \subseteq Q /\ B \cap C = {}
  BY DEF Voters
<1>3. Cardinality(B) >= 2 * f + 1 /\ Cardinality(C) >= 2 * f + 1
  BY <1>1 DEF Certified, VotesNeeded
<1>4. /\ Cardinality(B) \in Nat /\ Cardinality(C) \in Nat /\ Cardinality(Q) \in Nat
      /\ Cardinality(B) + Cardinality(C) <= Cardinality(Q)
      /\ Cardinality(B) + Cardinality(C) = Cardinality(Q) => B \cup C = Q
  <2> HIDE DEF Q, B, C
  <2> QED BY <1>1, <1>2, SideBySide
<1>5. QuorumSize >= 4 * f + 2
  <2> HIDE DEF Q, B, C, f
  <2> QED BY <1>1, <1>3, <1>4
<1>6. QuorumSize \in {2, 3} \/ (QuorumSize = 6 /\ f = 1)
  BY <1>1, <1>5, SizesThatSplit
<1>7. CASE QuorumSize = 6 /\ f = 1
  <2>1. /\ Cardinality(B) = 3 /\ Cardinality(C) = 3
        /\ Cardinality(B) + Cardinality(C) = Cardinality(Q)
    <3> HIDE DEF Q, B, C, f
    <3> QED BY <1>1, <1>3, <1>4, <1>7
  <2>2. Q \cap B = B /\ Q \cap C = C
    BY <1>2
  <2> QED BY <1>4, <1>7, <2>1, <2>2 DEF Halved
<1> QED BY <1>6, <1>7

LEMMA SealsApart ==
  ASSUME QsInv, NEW d \in QsElector, NEW e \in QsElector,
         NEW b \in QsClass, NEW c \in QsClass, b # c,
         qsQuorum[d].elected, qsQuorum[e] = qsQuorum[d],
         SealedFor(d, b), SealedFor(e, c)
  PROVE  Cardinality(qsQuorum[d].nodes) >= 4 * QsF + 2
<1> DEFINE Q == qsQuorum[d].nodes
           B == Kept(d, b)
           C == Kept(e, c)
<1>1. IsFiniteSet(Q)
  BY DEF QsInv, ElectedSize
<1>2. B \subseteq Q /\ C \subseteq Q /\ B \cap C = {}
  BY DEF Kept, Voters
<1>3. Cardinality(B) >= 2 * QsF + 1 /\ Cardinality(C) >= 2 * QsF + 1 /\ QsF \in Nat
  BY QuorumAssumption DEF SealedFor, VotesNeeded
<1> HIDE DEF Q, B, C
<1>4. /\ Cardinality(B) \in Nat /\ Cardinality(C) \in Nat /\ Cardinality(Q) \in Nat
      /\ Cardinality(B) + Cardinality(C) <= Cardinality(Q)
  BY <1>1, <1>2, SideBySide
<1>5. Cardinality(Q) >= 4 * QsF + 2
  BY <1>3, <1>4
<1> QED BY <1>5 DEF Q

(* Machines with the same elected quorum (select_quorum) certify two       *)
(* classes only with an outsider's vote, or with 2 or 3 members, or with 6 *)
(* divided in halves; and the chain takes blocks of two classes from them  *)
(* only if the quorum has 4f+2 members of a network of f.                  *)
THEOREM QuorumsAreOfOneMind == QsSpec => []NoSplit
<1>1. QsInv => NoSplit
  BY VotesApart, SealsApart DEF NoSplit
<1> QED BY <1>1, QsInvInit, QsInvNext, PTL DEF QsSpec

-----------------------------------------------------------------------------
(* View changer. VcCertified is about what was announced, so the invariant *)
(* says of the votes still being collected that they are of replicas that  *)
(* asked (VcHeard), and of an announcement that it had enough of them      *)
(* (VcEnough). Two sets of 2f+1 out of 3f+1 replicas share more than f.    *)

VcShaped ==
  /\ vcState \in [VcNode -> [newView : Nat, votes : SUBSET VcNode, completed : BOOLEAN]]
  /\ vcSent \subseteq [from : VcNode, newView : Nat]

VcAsked(q) == \E m \in vcSent : m.from = q

\* Votes are of replicas that asked.
VcHeard == \A n \in VcNode : \A q \in vcState[n].votes : VcAsked(q)

\* What was announced had enough votes, one of them for the view.
VcEnough ==
  \A w \in vcNews :
    /\ w.votes \subseteq VcNode /\ Cardinality(w.votes) >= VcNeeded
    /\ \A q \in w.votes : VcAsked(q)
    /\ \E q \in w.votes : [from |-> q, newView |-> w.view] \in vcSent

VcInv == VcShaped /\ VcHeard /\ VcEnough

LEMMA VcSizes ==
  ASSUME NEW S \in SUBSET VcNode, NEW T \in SUBSET VcNode,
         Cardinality(VcNode) % 3 = 1,
         Cardinality(S) >= VcNeeded, Cardinality(T) >= VcNeeded
  PROVE  Cardinality(S \cap T) > (Cardinality(VcNode) - 1) \div 3
<1>1. /\ IsFiniteSet(S) /\ IsFiniteSet(T) /\ IsFiniteSet(S \cup T)
      /\ S \cup T \subseteq VcNode /\ IsFiniteSet(VcNode)
  BY VcAssumption, FS_Subset
<1>2. Cardinality(S \cup T) = Cardinality(S) + Cardinality(T) - Cardinality(S \cap T)
  BY <1>1, FS_Union
<1>3. Cardinality(S \cup T) <= Cardinality(VcNode)
  BY <1>1, FS_Subset
<1>4. /\ Cardinality(S) \in Nat /\ Cardinality(T) \in Nat /\ Cardinality(VcNode) \in Nat
      /\ Cardinality(S \cap T) \in Nat
  BY <1>1, FS_Subset, FS_CardinalityType
<1>5. \A n \in Nat : n % 3 = 1 => n = 3 * ((n - 1) \div 3) + 1 /\ (n - 1) \div 3 \in Int
  OBVIOUS
<1> DEFINE n == Cardinality(VcNode)
           f == (n - 1) \div 3
<1>6. n = 3 * f + 1 /\ f \in Int /\ VcNeeded = 2 * f + 1
  BY <1>4, <1>5 DEF VcNeeded
<1> HIDE DEF n, f
<1>7. n \in Nat
  BY <1>4 DEF n
<1>8. Cardinality(S \cup T) <= n
  BY <1>3 DEF n
<1>9. Cardinality(S \cap T) > f
  BY <1>2, <1>4, <1>6, <1>7, <1>8
<1> QED BY <1>9 DEF f, n

LEMMA VcInvNext == VcInv /\ [VcNext]_vcVars => VcInv'
<1> SUFFICES ASSUME VcInv, [VcNext]_vcVars PROVE VcInv'
  OBVIOUS
<1>1. ASSUME NEW n \in VcNode, NEW v \in 0..VcMaxView, InitiateViewChange(n, v)
      PROVE  VcInv'
  <2>1. /\ vcState' = [vcState EXCEPT ![n] = [newView |-> v + 1, votes |-> {}, completed |-> FALSE]]
        /\ vcSent' = vcSent \cup {[from |-> n, newView |-> v + 1]}
        /\ vcNews' = vcNews
    BY <1>1 DEF InitiateViewChange, Change
  <2>2. v \in Nat
    BY VcAssumption
  <2>3. VcShaped'
    BY <2>1, <2>2 DEF VcInv, VcShaped
  <2>4. VcHeard' /\ VcEnough'
    BY <2>1 DEF VcInv, VcShaped, VcHeard, VcEnough, VcAsked
  <2> QED BY <2>3, <2>4 DEF VcInv
<1>2. ASSUME NEW n \in VcHandler, NEW m \in vcSent, HandleViewChange(n, m)
      PROVE  VcInv'
  <2> DEFINE known == IF vcState[n] = NoChange THEN Change(m.newView) ELSE vcState[n]
             votes == known.votes \cup {m.from}
             enough == Cardinality(votes) >= VcNeeded /\ ~known.completed
             next == [known EXCEPT !.votes = votes, !.completed = @ \/ enough]
  <2>1. /\ vcState' = [vcState EXCEPT ![n] = next]
        /\ vcNews' = IF enough
                     THEN vcNews \cup {[by |-> n, view |-> m.newView, votes |-> votes]}
                     ELSE vcNews
        /\ vcSent' = vcSent
    BY <1>2 DEF HandleViewChange
  <2>2. m.from \in VcNode /\ m.newView \in Nat /\ m = [from |-> m.from, newView |-> m.newView]
    BY DEF VcInv, VcShaped
  <2>3. n \in VcNode
    BY VcAssumption
  <2>4. /\ known \in [newView : Nat, votes : SUBSET VcNode, completed : BOOLEAN]
        /\ \A q \in known.votes : VcAsked(q)
    BY <2>2, <2>3 DEF Change, VcInv, VcShaped, VcHeard
  <2>5. votes \subseteq VcNode /\ m.from \in votes /\ \A q \in votes : VcAsked(q)
    BY <2>2, <2>4 DEF VcAsked
  <2>6. enough \in BOOLEAN /\ (enough => Cardinality(votes) >= VcNeeded)
    OBVIOUS
  <2> HIDE DEF known, enough
  <2> HIDE DEF votes
  <2>7. /\ enough => next = [known EXCEPT !.votes = votes, !.completed = TRUE]
        /\ ~enough => next = [known EXCEPT !.votes = votes]
    BY <2>4, <2>6
  <2>8. next \in [newView : Nat, votes : SUBSET VcNode, completed : BOOLEAN]
        /\ next.votes = votes
    <3> HIDE DEF next
    <3> QED BY <2>4, <2>5, <2>6, <2>7
  <2> HIDE DEF next
  <2>9. VcShaped'
    BY <2>1, <2>3, <2>8 DEF VcInv, VcShaped
  <2>10. VcHeard'
    BY <2>1, <2>3, <2>5, <2>8 DEF VcInv, VcShaped, VcHeard, VcAsked
  <2>11. [from |-> m.from, newView |-> m.newView] \in vcSent
    BY <2>2
  <2>12. VcEnough'
    <3> DEFINE w0 == [by |-> n, view |-> m.newView, votes |-> votes]
    <3>1. \A w \in vcNews' : w \in vcNews \/ (w = w0 /\ enough)
      BY <2>1
    <3>2. enough => /\ w0.votes \subseteq VcNode /\ Cardinality(w0.votes) >= VcNeeded
                    /\ \A q \in w0.votes : VcAsked(q)
                    /\ \E q \in w0.votes : [from |-> q, newView |-> w0.view] \in vcSent
      BY <2>5, <2>6, <2>11
    <3> HIDE DEF w0
    <3> QED BY <2>1, <3>1, <3>2 DEF VcInv, VcEnough, VcAsked, VcNeeded
  <2> QED BY <2>9, <2>10, <2>12 DEF VcInv
<1>3. ASSUME NEW n \in VcHandler, ClearViewChange(n) PROVE VcInv'
  BY <1>3, VcAssumption
  DEF ClearViewChange, NoChange, VcInv, VcShaped, VcHeard, VcEnough, VcAsked
<1>4. CASE UNCHANGED vcVars
  BY <1>4 DEF vcVars, VcInv, VcShaped, VcHeard, VcEnough, VcAsked
<1> QED BY <1>1, <1>2, <1>3, <1>4 DEF VcNext

(* Behind every NEW_VIEW there are replicas that asked for a new view, one *)
(* of them for the view announced, and of 3f+1 replicas any two            *)
(* announcements share more than f, for any number of replicas, views and  *)
(* lost or repeated messages (ViewChanger).                                *)
THEOREM NewViewsAreCertified == VcSpec => []VcCertified
<1>1. VcInit => VcInv
  BY DEF VcInit, NoChange, VcInv, VcShaped, VcHeard, VcEnough
<1>2. VcInv => VcCertified
  BY VcSizes DEF VcInv, VcEnough, VcCertified, VcAsked
<1> QED BY <1>1, <1>2, VcInvNext, PTL DEF VcSpec

-----------------------------------------------------------------------------
(* Proof of model. Verdicts agree for every f, every panel of verifiers    *)
(* and any number of tallies. What makes VerdictsAgree inductive is that a *)
(* tally holds what was said: positive verdicts come from verifiers who    *)
(* could match the weights, negative ones from the others, and nobody is   *)
(* in both lists.                                                          *)

Matching == {v \in pmMatched : pmAccurate}

PmTyped ==
  /\ pmVerifier \in PmVerifiers
  /\ pmAccurate \in BOOLEAN
  /\ pmMatched \subseteq pmVerifier
  /\ pmPositive \in [PmTally -> SUBSET pmVerifier]
  /\ pmNegative \in [PmTally -> SUBSET pmVerifier]

AsSaid ==
  \A t \in PmTally :
    /\ pmPositive[t] \cap pmNegative[t] = {}
    /\ pmTwice = {} => /\ pmPositive[t] \subseteq Matching
                       /\ pmNegative[t] \cap Matching = {}

PmInv == PmTyped /\ AsSaid

LEMMA PmInvInit == PmInit => PmInv
BY DEF PmInit, PmInv, PmTyped, AsSaid, Matching

LEMMA PmInvNext == PmInv /\ [PmNext]_pmVars => PmInv'
<1> SUFFICES ASSUME PmInv, [PmNext]_pmVars PROVE PmInv'
  OBVIOUS
<1>1. CASE UNCHANGED pmVars
  BY <1>1 DEF pmVars, PmInv, PmTyped, AsSaid, Matching
<1>2. CASE PmNext
  <2>1. PICK t \in PmTally, v \in pmVerifier : \E verified \in Verdicts(v) :
               AddVerify(t, v, verified)
    BY <1>2 DEF PmNext
  <2>2. PICK verified \in Verdicts(v) : AddVerify(t, v, verified)
    BY <2>1
  <2>3. pmTwice = {} => (verified <=> v \in Matching)
    <3>1. pmTwice = {} => verified = (pmAccurate /\ v \in pmMatched)
      BY Zenon DEF Verdicts
    <3> QED BY <3>1, Zenon DEF Matching
  <2>4. PmTyped'
    BY <2>2 DEF AddVerify, PmInv, PmTyped
  <2>5. CASE verified
    BY <2>2, <2>3, <2>4, <2>5 DEF AddVerify, Counts, PmInv, PmTyped, AsSaid, Matching
  <2>6. CASE ~verified
    BY <2>2, <2>3, <2>4, <2>6 DEF AddVerify, Counts, PmInv, PmTyped, AsSaid, Matching
  <2> QED BY <2>5, <2>6
<1> QED BY <1>1, <1>2

(* Of at most 4f+1 verifiers, 2f+1 positive verdicts leave too few that    *)
(* can be negative.                                                        *)
LEMMA NotBoth ==
  ASSUME PmInv, pmTwice = {}, Cardinality(pmVerifier) <= 4 * PmF + 1,
         NEW t \in PmTally, NEW u \in PmTally, IsAdmitted(t)
  PROVE  ~IsRejected(u)
<1>1. IsFiniteSet(pmVerifier) /\ PmF \in Nat
  BY PomAssumption DEF PmInv, PmTyped
<1>2. Matching \subseteq pmVerifier /\ pmNegative[u] \subseteq pmVerifier \ Matching
      /\ pmPositive[t] \subseteq Matching
  BY DEF PmInv, PmTyped, AsSaid, Matching
<1>3. IsFiniteSet(Matching) /\ Cardinality(pmPositive[t]) <= Cardinality(Matching)
  BY <1>1, <1>2, FS_Subset
<1>4. /\ IsFiniteSet(pmVerifier \ Matching)
      /\ Cardinality(pmVerifier \ Matching) = Cardinality(pmVerifier) - Cardinality(Matching)
  <2>1. pmVerifier \cap Matching = Matching
    BY <1>2
  <2> QED BY <1>1, <2>1, FS_Difference
<1>5. Cardinality(pmNegative[u]) <= Cardinality(pmVerifier \ Matching)
  BY <1>2, <1>4, FS_Subset
<1>6. /\ Cardinality(pmVerifier) \in Nat /\ Cardinality(Matching) \in Nat
      /\ Cardinality(pmPositive[t]) \in Nat /\ Cardinality(pmNegative[u]) \in Nat
  BY <1>1, <1>2, <1>3, <1>4, FS_Subset, FS_CardinalityType
<1> QED BY <1>1, <1>3, <1>4, <1>5, <1>6 DEF IsAdmitted, IsRejected

(* A tally with every verdict has decided.                                 *)
LEMMA AllDecide ==
  ASSUME PmInv, NEW t \in PmTally, AllIn(t)
  PROVE  IsAdmitted(t) \/ IsRejected(t)
<1>1. IsFiniteSet(pmVerifier) /\ PmF \in Nat
  BY PomAssumption DEF PmInv, PmTyped
<1>2. pmPositive[t] \subseteq pmVerifier /\ pmNegative[t] \subseteq pmVerifier
      /\ pmPositive[t] \cap pmNegative[t] = {}
  BY DEF PmInv, PmTyped, AsSaid
<1>3. IsFiniteSet(pmPositive[t]) /\ IsFiniteSet(pmNegative[t])
  BY <1>1, <1>2, FS_Subset
<1>4. Cardinality(pmVerifier) = Cardinality(pmPositive[t]) + Cardinality(pmNegative[t])
  <2>1. Cardinality(pmPositive[t] \cap pmNegative[t]) = 0
    BY <1>2, FS_EmptySet
  <2>2. /\ Cardinality(pmPositive[t]) \in Nat /\ Cardinality(pmNegative[t]) \in Nat
    BY <1>3, FS_CardinalityType
  <2>3. Cardinality(pmPositive[t] \cup pmNegative[t])
          = Cardinality(pmPositive[t]) + Cardinality(pmNegative[t])
            - Cardinality(pmPositive[t] \cap pmNegative[t])
    BY <1>3, FS_Union
  <2>4. pmPositive[t] \cup pmNegative[t] = pmVerifier
    BY DEF AllIn
  <2>5. Cardinality(pmVerifier)
          = Cardinality(pmPositive[t]) + Cardinality(pmNegative[t]) - 0
    BY <2>1, <2>3, <2>4, Zenon
  <2> QED BY <2>2, <2>5
<1>5. /\ Cardinality(pmVerifier) \in Nat
      /\ Cardinality(pmPositive[t]) \in Nat /\ Cardinality(pmNegative[t]) \in Nat
  BY <1>1, <1>3, FS_CardinalityType
<1> QED BY <1>1, <1>4, <1>5 DEF IsAdmitted, IsRejected

(* Nodes that count the verdicts of at most 4f+1 verifiers in different    *)
(* orders (tally_pom) never take opposite decisions on a candidate, and    *)
(* each decides once it has all of them.                                   *)
THEOREM VerdictsNeverConflict == PmSpec => []VerdictsAgree
<1>1. PmInv => VerdictsAgree
  BY NotBoth, AllDecide DEF VerdictsAgree
<1> QED BY <1>1, PmInvInit, PmInvNext, PTL DEF PmSpec

-----------------------------------------------------------------------------
(* Validator stakes. ActiveIsStaked for any number of validators and any   *)
(* stakes and slashes. To be inductive it must also hold of the exported   *)
(* state, which import_state brings back, and say of a pending validator   *)
(* that its stake has not sunk below the minimum, which confirm_stake      *)
(* relies on.                                                              *)

VrSound(v) ==
  /\ v \in Validator
  /\ v.status = "pending" => v.stake >= VrMinStake
  /\ v.status = "active" /\ ~v.back => v.confirmed /\ v.stake >= VrMinStake
  /\ v.stake + v.paid = v.pledged

VrInv ==
  /\ DOMAIN vrInfo = VrAddress /\ DOMAIN vrExport = VrAddress
  /\ vrInfo = [a \in VrAddress |-> vrInfo[a]]
  /\ vrExport = [a \in VrAddress |-> vrExport[a]]
  /\ \A a \in VrAddress : VrSound(vrInfo[a]) /\ VrSound(vrExport[a])

LEMMA NoValidatorSound == VrSound(NoValidator)
BY ValidatorAssumption DEF VrSound, NoValidator, Validator, VrStatus

(* A slash moves what it takes from the stake to what was paid, and leaves *)
(* no validator active or pending below the minimum.                       *)
LEMMA SlashedIsSound ==
  ASSUME NEW v, VrSound(v), NEW amount \in VrAmounts,
         NEW cut, cut = IF amount <= v.stake THEN amount ELSE v.stake
  PROVE  VrSound([v EXCEPT !.stake = v.stake - cut, !.paid = v.paid + cut,
                         !.status = IF v.stake - cut < VrMinStake THEN "slashed" ELSE @])
<1>1. /\ amount \in Nat /\ VrMinStake \in Nat /\ v \in Validator
      /\ v.stake \in Nat /\ v.paid \in Nat /\ v.pledged \in Nat
  BY ValidatorAssumption DEF VrSound, Validator
<1>2. cut \in Nat /\ cut <= v.stake
  BY <1>1
<1> DEFINE w == [v EXCEPT !.stake = v.stake - cut, !.paid = v.paid + cut,
                          !.status = IF v.stake - cut < VrMinStake THEN "slashed" ELSE @]
<1>3. /\ w \in Validator
      /\ w.stake = v.stake - cut /\ w.paid = v.paid + cut /\ w.pledged = v.pledged
      /\ w.confirmed = v.confirmed /\ w.back = v.back
      /\ w.status = IF v.stake - cut < VrMinStake THEN "slashed" ELSE v.status
  <2>1. v.stake - cut \in Nat /\ v.paid + cut \in Nat
    BY <1>1, <1>2
  <2>2. w \in Validator
    BY <1>1, <2>1 DEF Validator, VrStatus
  <2>3. /\ w.stake = v.stake - cut /\ w.paid = v.paid + cut /\ w.pledged = v.pledged
        /\ w.confirmed = v.confirmed /\ w.back = v.back
    BY <1>1 DEF Validator
  <2>4. w.status = IF v.stake - cut < VrMinStake THEN "slashed" ELSE v.status
    BY <1>1 DEF Validator
  <2> QED BY <2>2, <2>3, <2>4
<1>4. /\ w.status = "pending" => w.stake >= VrMinStake
      /\ w.status = "active" /\ ~w.back => w.confirmed /\ w.stake >= VrMinStake
      /\ w.stake + w.paid = w.pledged
  BY <1>1, <1>2, <1>3 DEF VrSound
<1> QED BY <1>3, <1>4 DEF VrSound

LEMMA VrInvInit == VrInit => VrInv
BY NoValidatorSound DEF VrInit, VrInv

LEMMA VrInvNext == VrInv /\ [VrNext]_vrVars => VrInv'
<1> SUFFICES ASSUME VrInv, [VrNext]_vrVars PROVE VrInv'
  OBVIOUS
<1>0. \A a \in VrAddress : VrSound(vrInfo[a]) /\ VrSound(vrExport[a])
  BY DEF VrInv
(* One validator changes and stays sound.                                  *)
<1>1. ASSUME NEW a \in VrAddress, NEW w, VrSound(w), UNCHANGED vrExport,
             vrInfo' = [vrInfo EXCEPT ![a] = w]
      PROVE  VrInv'
  BY <1>0, <1>1 DEF VrInv
<1>2. ASSUME NEW a \in VrAddress, NEW s \in VrStakes, RegisterValidator(a, s)
      PROVE  VrInv'
  <2> DEFINE w == [NoValidator EXCEPT !.status = "pending", !.stake = s, !.pledged = s]
  <2>1. s \in Nat /\ s >= VrMinStake
    BY <1>2, ValidatorAssumption DEF RegisterValidator, Validates
  <2>2. NoValidator \in Validator
    BY DEF NoValidator, Validator, VrStatus
  <2>3. /\ w \in Validator
        /\ w.status = "pending" /\ w.stake = s /\ w.paid = 0 /\ w.pledged = s
    <3>1. w \in Validator
      BY <2>1, <2>2 DEF Validator, VrStatus
    <3>2. NoValidator.paid = 0
      BY DEF NoValidator
    <3> QED BY <2>2, <3>1, <3>2 DEF Validator
  <2>4. VrSound(w)
    BY <2>1, <2>3 DEF VrSound
  <2> HIDE DEF w
  <2> QED BY <1>1, <1>2, <2>4 DEF RegisterValidator, w
<1>3. ASSUME NEW a \in VrAddress, NEW amount \in VrAmounts, SlashValidator(a, amount)
      PROVE  VrInv'
  <2> DEFINE v == vrInfo[a]
             cut == IF amount <= v.stake THEN amount ELSE v.stake
             w == [v EXCEPT !.stake = v.stake - cut, !.paid = v.paid + cut,
                            !.status = IF v.stake - cut < VrMinStake THEN "slashed" ELSE @]
  <2>1. VrSound(w)
    BY <1>0, SlashedIsSound
  <2>2. vrInfo' = [vrInfo EXCEPT ![a] = w] /\ UNCHANGED vrExport
    BY <1>0, <1>3 DEF SlashValidator, VrSound, Validator, VrInv
  <2> QED BY <1>1, <2>1, <2>2
<1>4. ASSUME NEW a \in VrAddress, ConfirmStake(a) PROVE VrInv'
  <2> DEFINE w == [vrInfo[a] EXCEPT !.status = "active", !.confirmed = TRUE]
  <2>1. VrSound(w)
    BY <1>0, <1>4 DEF ConfirmStake, VrSound, Validator, VrStatus
  <2>2. vrInfo' = [vrInfo EXCEPT ![a] = w] /\ UNCHANGED vrExport
    BY <1>0, <1>4 DEF ConfirmStake, VrSound, Validator, VrInv
  <2> QED BY <1>1, <2>1, <2>2
<1>5. ASSUME NEW a \in VrAddress, DeactivateValidator(a) PROVE VrInv'
  <2> DEFINE w == [vrInfo[a] EXCEPT !.status = "inactive"]
  <2>1. VrSound(w)
    BY <1>0 DEF VrSound, Validator, VrStatus
  <2> QED BY <1>1, <1>5, <2>1 DEF DeactivateValidator
<1>6. ASSUME NEW a \in VrAddress, ReactivateValidator(a) PROVE VrInv'
  <2> DEFINE w == [vrInfo[a] EXCEPT !.status = "active", !.back = TRUE]
  <2>1. VrSound(w)
    BY <1>0 DEF VrSound, Validator, VrStatus
  <2>2. vrInfo' = [vrInfo EXCEPT ![a] = w] /\ UNCHANGED vrExport
    BY <1>0, <1>6 DEF ReactivateValidator, VrSound, Validator, VrInv
  <2> QED BY <1>1, <2>1, <2>2
<1>7. ASSUME ExportState PROVE VrInv'
  BY <1>0, <1>7 DEF ExportState, VrInv
<1>8. ASSUME NEW restart \in BOOLEAN, ImportState(restart) PROVE VrInv'
  BY <1>0, <1>8 DEF ImportState, VrInv
<1>9. CASE UNCHANGED vrVars
  BY <1>0, <1>9 DEF vrVars, VrInv
<1> QED BY <1>2, <1>3, <1>4, <1>5, <1>6, <1>7, <1>8, <1>9 DEF VrNext

(* Whatever sequence of registrations, confirmations, slashes,             *)
(* deactivations, exports and imports a ValidatorRegistry goes through, an *)
(* active validator has confirmed a stake of at least the minimum, unless  *)
(* reactivate_validator brought it back; and no stake appears or vanishes. *)
THEOREM StakesHold == VrSpec => []ActiveIsStaked
<1>1. VrInv => ActiveIsStaked
  BY DEF VrInv, VrSound, ActiveIsStaked
<1> QED BY <1>1, VrInvInit, VrInvNext, PTL DEF VrSpec
=============================================================================
