--------------------------- MODULE QuorumElection ---------------------------
(***************************************************************************)
(* Every DNN validator elects for itself the quorum of an inference        *)
(* request (select_quorum, called by the engine), with the profiles in its *)
(* own OOD registry and the image if its service has it; then nodes vote   *)
(* for a class, once each: the members, and any node that elected another  *)
(* quorum, from another tip say, under the same view and round.  A machine *)
(* counts every sender; the engine strips the outsiders' signatures from   *)
(* the outcome, and the chain counts what is left.                         *)
(*                                                                         *)
(* (No NodeService of the repository has the image_store the engine looks  *)
(* for: as shipped, every election is without image.  select_quorum is     *)
(* written for both, and so is the module.)                                *)
(*                                                                         *)
(* A validator is its place in the list of eligible nodes, which every     *)
(* node derives from the same tip.  random.Random(seed).sample is external:*)
(* QsSample gives, for the seed of the request, the places it takes from a *)
(* list of a given length.                                                 *)
(***************************************************************************)
EXTENDS Naturals, FiniteSets

CONSTANTS
  QsElector,   \* the validators whose elections are compared
  QsClass,     \* classes voted for
  QsConfigs,   \* [pool, dnn, floor, target, ceiling]: matching nodes, all
               \* DNN nodes, and the three parameters of select_quorum
  QsScore,     \* the score a profile of node n gives for the image
  QsPlace,     \* QsPlace[e]: the place of elector e
  QsF,         \* f of the network, used without a quorum
  QsSample     \* QsSample[len][k]

ASSUME QuorumAssumption ==
  /\ QsF \in Nat
  /\ \A c \in QsConfigs : c.dnn \in Nat /\ c.pool \in 0..c.dnn
                          /\ c.floor \in Nat \ {0} /\ c.target \in Nat
                          /\ c.ceiling \in Nat \ {0}
  /\ \A c \in QsConfigs : \A len \in 1..c.pool : \A k \in 1..len :
       QsSample[len][k] \subseteq 1..len /\ Cardinality(QsSample[len][k]) <= k

NoClass == "none"

VARIABLES
  qsConfig,
  qsImage,     \* qsImage[e]: e holds the image
  qsProfiles,  \* qsProfiles[e]: nodes with a calibrated profile at e
  qsQuorum,    \* qsQuorum[e]: [nodes, f, elected], or NoQuorum
  qsVote       \* qsVote[n]: the class n voted for

qsVars == <<qsConfig, qsImage, qsProfiles, qsQuorum, qsVote>>

NoQuorum == [nodes |-> {}, f |-> 0, elected |-> FALSE]
\* The nodes that run the model and the dataset asked for.
Pool == 1..qsConfig.pool
Least(x, y) == IF x <= y THEN x ELSE y
Greatest(x, y) == IF x >= y THEN x ELSE y

QuorumSize == Least(Greatest(qsConfig.floor, Least(qsConfig.pool, qsConfig.target)),
                    qsConfig.ceiling)
QuorumF(k) == (k - 1) \div 3
\* Mutant: f + 1 votes are enough.
VotesNeededLow(f) == f + 1
VotesNeeded(f) == 2 * f + 1

\* rank_nodes_by_ood: profiled nodes by score, then the others as they are.
Before(K, m, n) ==
  IF m \in K /\ n \in K THEN QsScore[m] < QsScore[n] \/ (QsScore[m] = QsScore[n] /\ m < n)
  ELSE m \in K \/ (n \notin K /\ m < n)
Place(K, S, n) == Cardinality({m \in S : Before(K, m, n)}) + 1

\* score_nodes gives every other node the worst score there is.
Scored(image, profiles) == IF image THEN profiles ELSE {}

\* The 2k profiled nodes with the best scores and the nodes without profile,
\* if the election has an image and they are enough.
Shortlist(K, k) == (Pool \ K) \cup {n \in K \cap Pool : Place(K, K \cap Pool, n) <= 2 * k}
ListOf(K, S) == [p \in 1..Cardinality(S) |-> CHOOSE n \in S : Place(K, S, n) = p]
Candidates(image, profiles) ==
  LET K == Scored(image, profiles)
      S == Shortlist(K, QuorumSize)
  IN IF Cardinality(S) >= qsConfig.floor THEN ListOf(K, S) ELSE ListOf({}, Pool)

Sampled(list, k) ==
  LET len == Cardinality(DOMAIN list) IN {list[p] : p \in QsSample[len][Least(k, len)]}

QsInit ==
  /\ qsConfig \in QsConfigs
  /\ qsImage \in [QsElector -> BOOLEAN]
  /\ qsProfiles = [e \in QsElector |-> {}]
  /\ qsQuorum = [e \in QsElector |-> NoQuorum]
  /\ qsVote = [n \in 1..qsConfig.dnn |-> NoClass]

\* A block that admits a node has it calibrate its own model, once, in a
\* thread; it has nobody else's model, so that its registry knows itself alone.
RegisterProfile(e) ==
  /\ qsQuorum[e] = NoQuorum /\ QsPlace[e] \notin qsProfiles[e]
  /\ qsProfiles' = [qsProfiles EXCEPT ![e] = @ \cup {QsPlace[e]}]
  /\ UNCHANGED <<qsConfig, qsImage, qsQuorum, qsVote>>

\* Too few matching nodes: all DNN validators, with the f of the network.
Elect(e) ==
  /\ qsQuorum[e] = NoQuorum
  /\ qsQuorum' = [qsQuorum EXCEPT ![e] =
       IF qsConfig.pool < qsConfig.floor
       THEN [nodes |-> 1..qsConfig.dnn, f |-> QsF, elected |-> FALSE]
       ELSE [nodes |-> Sampled(Candidates(qsImage[e], qsProfiles[e]), QuorumSize),
             f |-> QuorumF(QuorumSize), elected |-> TRUE]]
  /\ UNCHANGED <<qsConfig, qsImage, qsProfiles, qsVote>>

Elected(e) == qsQuorum[e] # NoQuorum

\* A node votes if it elected itself.  Of the nodes that are not compared
\* nothing is known: their quorum may come of another tip.  (No election reads
\* a vote, so that the votes wait for the elections without loss.)
CastVote(n, c) ==
  /\ qsVote[n] = NoClass
  /\ \A e \in QsElector : Elected(e) /\ (QsPlace[e] = n => n \in qsQuorum[e].nodes)
  /\ qsVote' = [qsVote EXCEPT ![n] = c]
  /\ UNCHANGED <<qsConfig, qsImage, qsProfiles, qsQuorum>>

QsNext ==
  \/ \E e \in QsElector : RegisterProfile(e) \/ Elect(e)
  \/ \E n \in 1..qsConfig.dnn, c \in QsClass : CastVote(n, c)

QsSpec == QsInit /\ [][QsNext]_qsVars

-----------------------------------------------------------------------------
Voters(c) == {n \in 1..qsConfig.dnn : qsVote[n] = c}

\* The machine of e may find the votes for c to be enough: any sender counts.
Certified(e, c) == Cardinality(Voters(c)) >= VotesNeeded(qsQuorum[e].f)

\* What _commit_qoi_block leaves of the signatures, and what the chain, with
\* the f of the network, wants of them.
Kept(e, c) == Voters(c) \cap qsQuorum[e].nodes
SealedFor(e, c) == Certified(e, c) /\ Cardinality(Kept(e, c)) >= VotesNeeded(QsF)

\* Of one quorum Q, of k elected nodes: every member voted, half for each.
Halved(Q, b, c) ==
  /\ Q \subseteq Voters(b) \cup Voters(c)
  /\ Cardinality(Q \cap Voters(b)) = 3 /\ Cardinality(Q \cap Voters(c)) = 3

\* Two machines with the same quorum certify two classes only with the vote of
\* an outsider, or where (k-1) \div 3 is too small for the size of the quorum:
\* 2 and 3, or 6 with every member voting, three against three.  And whoever
\* votes, both are sealed only if the quorum has 4f+2 members or more, f being
\* that of the network.
NoSplit ==
  \A d, e \in QsElector, b, c \in QsClass :
    LET Q == qsQuorum[d].nodes IN
    qsQuorum[d].elected /\ qsQuorum[e] = qsQuorum[d] /\ b # c =>
      /\ Certified(d, b) /\ Certified(e, c) =>
           \/ ~(Voters(b) \cup Voters(c) \subseteq Q)
           \/ QuorumSize \in {2, 3}
           \/ QuorumSize = 6 /\ Halved(Q, b, c)
      /\ SealedFor(d, b) /\ SealedFor(e, c) => Cardinality(Q) >= 4 * QsF + 2
=============================================================================
