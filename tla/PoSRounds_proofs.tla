-------------------------- MODULE PoSRounds_proofs --------------------------
(***************************************************************************)
(* What holds of PoS rounds for any number of nodes, rounds, proposers and *)
(* transactions.  IInv is inductive.  SealedAsVoted needs that machine and *)
(* engine hold the same candidate, ProofsAreVotes that a machine holds one *)
(* vote of a node, and SharedPast that no node seals twice in a round and  *)
(* that what is on a chain follows what came before it.                    *)
(***************************************************************************)
EXTENDS PoSRounds, FiniteSetTheorems, TLAPS

(* The machine's candidate is the engine's, and the node voted for it.     *)
SameCandidate ==
  \A n \in Node : proposed[n] # None =>
    /\ pendingBlock[n] = proposed[n]
    /\ [node |-> n, block |-> proposed[n]] \in votes[n]

(* A machine holds votes that were sent, and one of each node.             *)
VotesApart ==
  \A n \in Node :
    /\ votes[n] \subseteq posVotes
    /\ \A v, w \in votes[n] : v.node = w.node => v = w

(* A node seals once in a round, and not before a machine has finished.    *)
OneSealPerRound ==
  /\ \A b, c \in sealed : b.hash = c.hash => b = c
  /\ \A b \in sealed :
       /\ b.hash.round <= rounds[b.hash.sealer]
       /\ proposerId[b.hash.sealer] # None => b.hash.round < rounds[b.hash.sealer]

(* What is on a chain was sent, and names the block below it.              *)
Linked ==
  \A n \in Node : \A i \in DOMAIN chain[n] :
    /\ chain[n][i] \in sealed
    /\ chain[n][i].prev = IF i = 1 THEN None ELSE chain[n][i - 1].hash

(* SharedPast, position by position.                                       *)
SharedPositions ==
  \A m, n \in Node : \A i \in DOMAIN chain[m], j \in DOMAIN chain[n] :
    chain[m][i].hash = chain[n][j].hash =>
      i = j /\ \A k \in 1..i : chain[m][k] = chain[n][k]

IInv ==
  /\ TypeOK /\ SameCandidate /\ VotesApart /\ OneSealPerRound /\ Linked
  /\ SealedAsVoted /\ ProofsAreVotes /\ SharedPositions

-----------------------------------------------------------------------------
(* Votes of different nodes count as many as their nodes (_finalise).      *)
LEMMA VoterCount ==
  ASSUME NEW S \in SUBSET Vote, \A v, w \in S : v.node = w.node => v = w
  PROVE  Cardinality({v.node : v \in S}) = Cardinality(S)
<1> DEFINE T == {v.node : v \in S}
           f == [v \in S |-> v.node]
<1>1. T \subseteq Node
  BY DEF Vote
<1>2. IsFiniteSet(T)
  BY <1>1, FS_Subset, NodeAssumption
<1>3. f \in [S -> T] /\ \A a, b \in S : f[a] = f[b] => a = b
  OBVIOUS
<1>4. f \in Injection(S, T)
  BY <1>3 DEF Injection, IsInjective
<1>5. IsFiniteSet(S)
  BY <1>2, <1>4, FS_Injection
<1>6. f \in Surjection(S, T)
  BY <1>3 DEF Surjection
<1> QED BY <1>4, <1>5, <1>6, FS_Surjection

(* What is on a chain after a block is appended.                           *)
LEMMA AppendBlock ==
  ASSUME NEW c \in Seq(Block), NEW b \in Block
  PROVE  /\ Append(c, b) \in Seq(Block)
         /\ Len(c) \in Nat
         /\ DOMAIN c = 1..Len(c)
         /\ DOMAIN Append(c, b) = 1..(Len(c) + 1)
         /\ \A i \in 1..Len(c) : Append(c, b)[i] = c[i]
         /\ Append(c, b)[Len(c) + 1] = b
<1>1. Append(c, b) \in Seq(Block) /\ Len(Append(c, b)) = Len(c) + 1
  OBVIOUS
<1>2. Len(c) \in Nat /\ DOMAIN c = 1..Len(c)
  OBVIOUS
<1>3. \A i \in 1..Len(c) : Append(c, b)[i] = c[i]
  OBVIOUS
<1>4. Append(c, b)[Len(c) + 1] = b
  OBVIOUS
<1>5. DOMAIN Append(c, b) = 1..(Len(c) + 1)
  BY <1>1, <1>2
<1> QED BY <1>1, <1>2, <1>3, <1>4, <1>5

(* The tip names the last block of a chain, or none when there is no block. *)
LEMMA TipNames ==
  ASSUME NEW c \in Seq(Block)
  PROVE  /\ Len(c) = 0 => Tip(c) = None
         /\ Len(c) # 0 => Len(c) \in DOMAIN c /\ Tip(c) = c[Len(c)].hash
         /\ Tip(c) \in Hash \cup {None}
<1>1. Len(c) = 0 => c = <<>>
  OBVIOUS
<1>2. Len(c) # 0 => c # <<>> /\ Len(c) \in DOMAIN c /\ c[Len(c)] \in Block
  OBVIOUS
<1> QED BY <1>1, <1>2 DEF Tip, Block

(* Chains that agree position by position have the same beginning.         *)
LEMMA PositionsSuffice == TypeOK /\ SharedPositions => SharedPast
<1> SUFFICES ASSUME TypeOK, SharedPositions,
                    NEW m \in Node, NEW n \in Node,
                    NEW i \in DOMAIN chain[m], NEW j \in DOMAIN chain[n],
                    chain[m][i].hash = chain[n][j].hash
             PROVE  SubSeq(chain[m], 1, i) = SubSeq(chain[n], 1, j)
  BY DEF SharedPast
<1>1. i = j /\ \A k \in 1..i : chain[m][k] = chain[n][k]
  BY DEF SharedPositions
<1>2. chain[m] \in Seq(Block) /\ chain[n] \in Seq(Block)
  BY DEF TypeOK
<1>3. i \in Nat /\ 1..i \subseteq DOMAIN chain[m] /\ 1..i \subseteq DOMAIN chain[n]
  BY <1>1, <1>2
<1>4. SubSeq(chain[m], 1, i) = [k \in 1..i |-> chain[m][k]]
  BY <1>2, <1>3
<1>5. SubSeq(chain[n], 1, i) = [k \in 1..i |-> chain[n][k]]
  BY <1>2, <1>3
<1> QED BY <1>1, <1>4, <1>5
-----------------------------------------------------------------------------
(* Init satisfies the invariant.                                           *)
LEMMA InitIInv == Init => IInv
<1> SUFFICES ASSUME Init PROVE IInv
  OBVIOUS
<1>1. TypeOK
  <2>1. <<>> \in Seq(Block)
    OBVIOUS
  <2>2. MaxRounds \in [Node -> Nat]
    BY BoundAssumption
  <2> QED BY <2>1, <2>2 DEF Init, TypeOK
<1>2. \A n \in Node : DOMAIN chain[n] = {}
  BY DEF Init
<1>3. Linked /\ SharedPositions
  BY <1>2 DEF Linked, SharedPositions
<1>4. SameCandidate /\ VotesApart
  BY DEF Init, SameCandidate, VotesApart
<1>5. OneSealPerRound /\ SealedAsVoted /\ ProofsAreVotes
  BY DEF Init, OneSealPerRound, SealedAsVoted, ProofsAreVotes
<1> QED BY <1>1, <1>3, <1>4, <1>5 DEF IInv

(* A block that fits, and whose hash is no other block's, keeps chains     *)
(* linked and with a shared past (ingest_block).                           *)
LEMMA IngestKeeps ==
  ASSUME IInv, NEW n \in Node, NEW b \in Block, Fits(chain[n], b), Ingest(n, b),
         sealed \subseteq sealed', b \in sealed',
         \A x, y \in sealed' : x.hash = y.hash => x = y
  PROVE  /\ chain' \in [Node -> Seq(Block)] /\ pool' \in [Node -> SUBSET Tx]
         /\ Linked' /\ SharedPositions'
<1> PICK d : d = chain'
  OBVIOUS
<1> DEFINE L == Len(chain[n])
<1>1. chain \in [Node -> Seq(Block)] /\ pool \in [Node -> SUBSET Tx]
  BY DEF IInv, TypeOK
<1>2. /\ d \in [Node -> Seq(Block)]
      /\ d[n] = Append(chain[n], b)
      /\ \A m \in Node : m # n => d[m] = chain[m]
  BY <1>1, AppendBlock DEF Ingest
<1>3. pool' \in [Node -> SUBSET Tx]
  BY <1>1 DEF Ingest, Block
<1>4. /\ L \in Nat /\ DOMAIN chain[n] = 1..L /\ DOMAIN d[n] = 1..(L + 1)
      /\ d[n][L + 1] = b /\ \A i \in 1..L : d[n][i] = chain[n][i]
  BY <1>1, <1>2, AppendBlock
<1>5. \A m \in Node : DOMAIN chain[m] = 1..Len(chain[m]) /\ Len(chain[m]) \in Nat
  BY <1>1
<1>6. ASSUME NEW m \in Node, NEW i \in DOMAIN d[m]
      PROVE  \/ i \in DOMAIN chain[m] /\ d[m][i] = chain[m][i]
             \/ m = n /\ i = L + 1 /\ d[m][i] = b
  <2>1. CASE m # n
    BY <1>2, <2>1
  <2>2. CASE m = n
    BY <1>4, <2>2
  <2> QED BY <2>1, <2>2
<1>7. b.prev = Tip(chain[n]) /\ b.txs \cap TxsOn(chain[n]) = {}
  BY DEF Fits
<1>8. /\ L = 0 => b.prev = None
      /\ L # 0 => L \in DOMAIN chain[n] /\ b.prev = chain[n][L].hash /\ b.prev \in Hash
  <2>1. L # 0 => L \in DOMAIN chain[n] /\ Tip(chain[n]) = chain[n][L].hash
    BY <1>1, TipNames
  <2>2. L = 0 => Tip(chain[n]) = None
    BY <1>1, TipNames
  <2>3. \A i \in DOMAIN chain[n] : chain[n][i].hash \in Hash
    <3>1. \A i \in DOMAIN chain[n] : chain[n][i] \in Block
      BY <1>1
    <3> QED BY <3>1 DEF Block
  <2> QED BY <2>1, <2>2, <2>3, <1>7
<1>9. Linked'
  <2> SUFFICES ASSUME NEW m \in Node, NEW i \in DOMAIN d[m]
               PROVE  /\ d[m][i] \in sealed'
                      /\ d[m][i].prev = IF i = 1 THEN None ELSE d[m][i - 1].hash
    BY DEF Linked
  <2>1. CASE i \in DOMAIN chain[m] /\ d[m][i] = chain[m][i]
    <3>1. chain[m][i] \in sealed /\ chain[m][i].prev = IF i = 1 THEN None ELSE chain[m][i - 1].hash
      BY <2>1 DEF IInv, Linked
    <3>2. i # 1 => i - 1 \in DOMAIN chain[m]
      BY <1>5, <2>1
    <3>3. i # 1 => d[m][i - 1] = chain[m][i - 1]
      BY <3>2, <1>2, <1>4
    <3> QED BY <3>1, <3>3, <2>1
  <2>2. CASE m = n /\ i = L + 1 /\ d[m][i] = b
    <3>1. CASE L = 0
      BY <3>1, <2>2, <1>8
    <3>2. CASE L # 0
      <4>1. i # 1 /\ i - 1 = L /\ L \in 1..L
        BY <3>2, <2>2, <1>4
      <4>2. d[n][L] = chain[n][L]
        BY <4>1, <1>4
      <4> QED BY <4>1, <4>2, <3>2, <2>2, <1>8
    <3> QED BY <3>1, <3>2
  <2> QED BY <2>1, <2>2, <1>6
<1>10. ASSUME NEW m \in Node, NEW j \in DOMAIN chain[m], chain[m][j].hash = b.hash
       PROVE  /\ j = L + 1 /\ chain[m][j] = b
              /\ \A k \in 1..L : chain[m][k] = chain[n][k]
  <2>1. chain[m][j] = b
    BY <1>10 DEF IInv, Linked
  <2>2. b.prev = IF j = 1 THEN None ELSE chain[m][j - 1].hash
    BY <2>1 DEF IInv, Linked
  <2>3. CASE j = 1
    BY <2>1, <2>2, <2>3, <1>4, <1>8, NoneAssumption
  <2>4. CASE j # 1
    <3>1. j - 1 \in DOMAIN chain[m]
      BY <2>4, <1>5
    <3>2. b.prev = chain[m][j - 1].hash /\ b.prev \in Hash
      <4>1. chain[m][j - 1] \in Block
        BY <3>1, <1>1
      <4> QED BY <4>1, <2>2, <2>4 DEF Block
    <3>3. L # 0 /\ L \in DOMAIN chain[n] /\ chain[n][L].hash = chain[m][j - 1].hash
      BY <3>2, <1>8, NoneAssumption
    <3>4. L = j - 1 /\ \A k \in 1..L : chain[n][k] = chain[m][k]
      BY <3>1, <3>3 DEF IInv, SharedPositions
    <3>5. j = L + 1
      BY <3>4, <1>5
    <3> QED BY <3>4, <3>5, <2>1
  <2> QED BY <2>3, <2>4
<1>11. SharedPositions'
  <2> SUFFICES ASSUME NEW m \in Node, NEW o \in Node,
                      NEW i \in DOMAIN d[m], NEW j \in DOMAIN d[o],
                      d[m][i].hash = d[o][j].hash
               PROVE  i = j /\ \A k \in 1..i : d[m][k] = d[o][k]
    BY DEF SharedPositions
  <2>1. \A p \in Node : \A k \in DOMAIN chain[p] : d[p][k] = chain[p][k]
    BY <1>2, <1>4
  <2>2. \A p \in Node : \A e \in DOMAIN chain[p] : 1..e \subseteq DOMAIN chain[p]
    BY <1>5
  <2>3. CASE /\ i \in DOMAIN chain[m] /\ d[m][i] = chain[m][i]
             /\ j \in DOMAIN chain[o] /\ d[o][j] = chain[o][j]
    <3>1. i = j /\ \A k \in 1..i : chain[m][k] = chain[o][k]
      BY <2>3 DEF IInv, SharedPositions
    <3> QED BY <3>1, <2>1, <2>2, <2>3
  <2>4. \A k \in 1..(L + 1) : k \in 1..L \/ k = L + 1
    BY <1>4
  <2>5. CASE /\ m = n /\ i = L + 1 /\ d[m][i] = b
             /\ j \in DOMAIN chain[o] /\ d[o][j] = chain[o][j]
    <3>1. j = L + 1 /\ chain[o][j] = b /\ \A k \in 1..L : chain[o][k] = chain[n][k]
      BY <2>5, <1>10
    <3>2. \A k \in 1..j : d[o][k] = chain[o][k]
      BY <2>1, <2>2, <2>5
    <3> QED BY <3>1, <3>2, <2>4, <2>5, <1>4
  <2>6. CASE /\ o = n /\ j = L + 1 /\ d[o][j] = b
             /\ i \in DOMAIN chain[m] /\ d[m][i] = chain[m][i]
    <3>1. i = L + 1 /\ chain[m][i] = b /\ \A k \in 1..L : chain[m][k] = chain[n][k]
      BY <2>6, <1>10
    <3>2. \A k \in 1..i : d[m][k] = chain[m][k]
      BY <2>1, <2>2, <2>6
    <3> QED BY <3>1, <3>2, <2>4, <2>6, <1>4
  <2>7. CASE m = n /\ i = L + 1 /\ o = n /\ j = L + 1
    BY <2>7
  <2> QED BY <2>3, <2>5, <2>6, <2>7, <1>6
<1> QED BY <1>2, <1>3, <1>9, <1>11
-----------------------------------------------------------------------------
(* A round starts: the machine is new, and a candidate the node proposes   *)
(* has its vote and is in both places (_run_pos_round).                    *)
LEMMA StartRoundKeeps ==
  ASSUME IInv, NEW n \in Node, NEW p \in Proposers, StartRound(n, p)
  PROVE  IInv'
<1> USE DEF IInv
<1>1. p \in Node /\ rounds[n] \in Nat /\ rounds[n] + 1 \in Nat /\ MaxRounds[n] \in Nat
  BY NodeAssumption, BoundAssumption DEF TypeOK
<1>2. TypeOK'
  <2>1. rounds' \in [Node -> Nat] /\ \A m \in Node : rounds'[m] <= MaxRounds[m]
    BY <1>1 DEF StartRound, TypeOK
  <2>2. proposerId' \in [Node -> Node \cup {None}]
    BY <1>1 DEF StartRound, TypeOK
  <2>3. CASE p # n
    BY <2>1, <2>2, <2>3 DEF StartRound, TypeOK
  <2>4. CASE p = n
    <3> DEFINE c == [by |-> n, round |-> rounds[n] + 1, txs |-> pool[n] \ TxsOn(chain[n])]
               v == [node |-> n, block |-> c]
    <3>1. c \in Candidate
      BY <1>1 DEF Candidate, TypeOK
    <3>2. v \in Vote
      BY <3>1 DEF Vote
    <3>3. /\ proposed' = [proposed EXCEPT ![n] = c]
          /\ votes' = [votes EXCEPT ![n] = {v}]
          /\ pendingBlock' = [pendingBlock EXCEPT ![n] = c]
          /\ posBlocks' = posBlocks \cup {c} /\ posVotes' = posVotes \cup {v}
      BY <2>4 DEF StartRound
    <3> HIDE DEF c, v
    <3> QED BY <2>1, <2>2, <3>1, <3>2, <3>3 DEF StartRound, TypeOK
  <2> QED BY <2>3, <2>4
<1>3. SameCandidate' /\ VotesApart'
  <2>1. CASE p # n
    BY <2>1 DEF StartRound, SameCandidate, VotesApart, TypeOK
  <2>2. CASE p = n
    <3> DEFINE c == [by |-> n, round |-> rounds[n] + 1, txs |-> pool[n] \ TxsOn(chain[n])]
               v == [node |-> n, block |-> c]
    <3>1. /\ proposed' = [proposed EXCEPT ![n] = c]
          /\ votes' = [votes EXCEPT ![n] = {v}]
          /\ pendingBlock' = [pendingBlock EXCEPT ![n] = c]
          /\ posVotes' = posVotes \cup {v}
      BY <2>2 DEF StartRound
    <3> HIDE DEF c
    <3>2. SameCandidate'
      BY <3>1 DEF SameCandidate, TypeOK
    <3>3. VotesApart'
      BY <3>1 DEF VotesApart, TypeOK
    <3> QED BY <3>2, <3>3
  <2> QED BY <2>1, <2>2
<1>4. OneSealPerRound'
  <2> SUFFICES ASSUME NEW b \in sealed
               PROVE  /\ b.hash.round <= rounds'[b.hash.sealer]
                      /\ proposerId'[b.hash.sealer] # None
                           => b.hash.round < rounds'[b.hash.sealer]
    BY DEF StartRound, OneSealPerRound
  <2>1. b.hash.sealer \in Node /\ b.hash.round \in Nat /\ b.hash.round <= rounds[b.hash.sealer]
    BY DEF TypeOK, Block, Hash, OneSealPerRound
  <2>2. CASE b.hash.sealer = n
    BY <2>1, <2>2, <1>1 DEF StartRound, TypeOK
  <2>3. CASE b.hash.sealer # n
    BY <2>1, <2>3 DEF StartRound, TypeOK, OneSealPerRound
  <2> QED BY <2>2, <2>3
<1>5. Linked' /\ SealedAsVoted' /\ SharedPositions'
  BY DEF StartRound, Linked, SealedAsVoted, SharedPositions
<1>6. ProofsAreVotes'
  BY DEF StartRound, ProofsAreVotes
<1> QED BY <1>2, <1>3, <1>4, <1>5, <1>6

(* A candidate takes the place of the last one in machine and engine, and  *)
(* the node's vote the place of its last vote (handle_proposed_block).     *)
LEMMA HandleProposedBlockKeeps ==
  ASSUME IInv, NEW n \in Node, NEW c \in posBlocks, HandleProposedBlock(n, c)
  PROVE  IInv'
<1> USE DEF IInv
<1> DEFINE v == [node |-> n, block |-> c]
<1>1. c \in Candidate /\ v \in Vote
  BY DEF TypeOK, Vote
<1>2. /\ proposed' = [proposed EXCEPT ![n] = c]
      /\ votes' = [votes EXCEPT ![n] = {w \in @ : w.node # n} \cup {v}]
      /\ pendingBlock' = [pendingBlock EXCEPT ![n] = c]
      /\ posVotes' = posVotes \cup {v}
      /\ UNCHANGED <<rounds, proposerId, pool, chain, posBlocks, sealed>>
  BY DEF HandleProposedBlock
<1>3. SameCandidate'
  BY <1>2 DEF SameCandidate, TypeOK
<1>4. VotesApart'
  BY <1>2 DEF VotesApart, TypeOK
<1>5. TypeOK'
  <2> HIDE DEF v
  <2> QED BY <1>1, <1>2 DEF TypeOK
<1>6. OneSealPerRound' /\ Linked' /\ SealedAsVoted' /\ SharedPositions'
  BY <1>2 DEF OneSealPerRound, Linked, SealedAsVoted, SharedPositions
<1>7. ProofsAreVotes'
  BY <1>2 DEF ProofsAreVotes
<1> QED BY <1>3, <1>4, <1>5, <1>6, <1>7

(* A counted vote is the only one of its node; a block that it leads to    *)
(* carries what the node voted for (handle_vote, _commit_pos_block).       *)
LEMMA HandleVoteKeeps ==
  ASSUME IInv, NEW n \in Node, NEW v \in posVotes, HandleVote(n, v)
  PROVE  IInv'
<1> USE DEF IInv
<1> DEFINE cast == votes[n] \cup {v}
           b == [hash |-> [sealer |-> n, round |-> rounds[n]],
                 prev |-> Tip(chain[n]), txs |-> SealedTxs(n), proof |-> cast]
<1>1. /\ proposerId[n] # None /\ proposed[n] # None
      /\ v.block = proposed[n] /\ v.node \notin {w.node : w \in votes[n]}
      /\ UNCHANGED <<rounds, posBlocks, posVotes>>
  BY DEF HandleVote, CountedVote
<1>2. cast \in SUBSET Vote /\ cast \subseteq posVotes
  BY DEF TypeOK, VotesApart
<1>3. \A x, y \in cast : x.node = y.node => x = y
  BY <1>1 DEF VotesApart
<1>4. CASE /\ votes' = [votes EXCEPT ![n] = cast]
           /\ UNCHANGED <<proposerId, proposed, pendingBlock, pool, chain, sealed>>
  <2>1. TypeOK'
    BY <1>1, <1>2, <1>4 DEF TypeOK
  <2>2. SameCandidate'
    BY <1>4 DEF SameCandidate, TypeOK
  <2>3. VotesApart'
    BY <1>1, <1>2, <1>3, <1>4 DEF VotesApart, TypeOK
  <2>4. OneSealPerRound' /\ Linked' /\ SealedAsVoted' /\ SharedPositions'
    BY <1>1, <1>4 DEF OneSealPerRound, Linked, SealedAsVoted, SharedPositions
  <2>5. ProofsAreVotes'
    BY <1>1, <1>4 DEF ProofsAreVotes
  <2> QED BY <2>1, <2>2, <2>3, <2>4, <2>5
<1>5. CASE /\ proposerId' = [proposerId EXCEPT ![n] = None]
           /\ proposed' = [proposed EXCEPT ![n] = None]
           /\ votes' = [votes EXCEPT ![n] = {}]
           /\ pendingBlock' = [pendingBlock EXCEPT ![n] = None]
           /\ \/ Fits(chain[n], b) /\ Ingest(n, b) /\ sealed' = sealed \cup {b}
              \/ ~Fits(chain[n], b) /\ UNCHANGED <<pool, chain, sealed>>
  <2>1. SameCandidate' /\ VotesApart'
    BY <1>1, <1>5 DEF SameCandidate, VotesApart, TypeOK
  <2>2. CASE UNCHANGED <<pool, chain, sealed>>
    <3>1. TypeOK'
      BY <1>1, <1>5, <2>2 DEF TypeOK
    <3>2. OneSealPerRound'
      BY <1>1, <1>5, <2>2 DEF OneSealPerRound, TypeOK, Block, Hash
    <3>3. Linked' /\ SealedAsVoted' /\ SharedPositions'
      BY <2>2 DEF Linked, SealedAsVoted, SharedPositions
    <3>4. ProofsAreVotes'
      BY <1>1, <2>2 DEF ProofsAreVotes
    <3> QED BY <2>1, <3>1, <3>2, <3>3, <3>4
  <2>3. CASE Fits(chain[n], b) /\ Ingest(n, b) /\ sealed' = sealed \cup {b}
    <3>1. pendingBlock[n] = proposed[n] /\ pendingBlock[n] \in Candidate
      BY <1>1 DEF SameCandidate, TypeOK
    <3>2. SealedTxs(n) = proposed[n].txs /\ SealedTxs(n) \in SUBSET Tx
      BY <1>1, <3>1 DEF SealedTxs, Candidate
    <3>3. b \in Block
      <4>1. rounds[n] \in Nat /\ chain[n] \in Seq(Block)
        BY DEF TypeOK
      <4>2. Tip(chain[n]) \in Hash \cup {None}
        BY <4>1, TipNames
      <4> QED BY <4>1, <4>2, <3>2, <1>2 DEF Block, Hash
    <3>4. /\ b.hash.sealer = n /\ b.hash.round = rounds[n]
          /\ b.proof = cast /\ b.txs = SealedTxs(n)
      OBVIOUS
    <3>5. Cardinality({w.node : w \in cast}) >= Threshold
      <4>1. Cardinality(cast) >= Threshold
        BY <2>3, <3>4 DEF Fits
      <4> HIDE DEF cast
      <4> QED BY <4>1, <1>2, <1>3, VoterCount
    <3>6. [node |-> n, block |-> proposed[n]] \in cast
      BY <1>1 DEF SameCandidate
    <3> HIDE DEF b
    <3>7. ASSUME NEW x \in sealed PROVE x.hash # b.hash
      <4>1. x.hash.sealer = n => x.hash.round < rounds[n]
        BY <1>1 DEF OneSealPerRound
      <4>2. rounds[n] \in Nat
        BY DEF TypeOK
      <4> QED BY <4>1, <4>2, <3>4
    <3>8. \A x, y \in sealed' : x.hash = y.hash => x = y
      BY <2>3, <3>7 DEF OneSealPerRound
    <3>9. OneSealPerRound'
      <4>1. \A x \in sealed : x.hash.sealer \in Node /\ x.hash.round \in Nat
        BY DEF TypeOK, Block, Hash
      <4>2. \A x \in sealed' : x.hash.round <= rounds[x.hash.sealer]
        BY <2>3, <3>4 DEF OneSealPerRound, TypeOK
      <4>3. ASSUME NEW x \in sealed', proposerId'[x.hash.sealer] # None
            PROVE  x.hash.round < rounds[x.hash.sealer]
        <5>1. x.hash.sealer \in Node
          BY <2>3, <3>4, <4>1
        <5>2. x.hash.sealer # n /\ proposerId[x.hash.sealer] # None
          BY <4>3, <5>1, <1>5 DEF TypeOK
        <5>3. x \in sealed
          BY <5>2, <2>3, <3>4
        <5> QED BY <5>2, <5>3 DEF OneSealPerRound
      <4> QED BY <4>2, <4>3, <3>8, <1>1 DEF OneSealPerRound
    <3>10. /\ chain' \in [Node -> Seq(Block)] /\ pool' \in [Node -> SUBSET Tx]
           /\ Linked' /\ SharedPositions'
      BY <2>3, <3>3, <3>8, IngestKeeps
    <3>11. TypeOK'
      BY <1>1, <1>5, <2>3, <3>3, <3>10 DEF TypeOK
    <3>12. SealedAsVoted'
      BY <2>3, <3>2, <3>4, <3>6 DEF SealedAsVoted
    <3>13. ProofsAreVotes'
      BY <1>1, <1>2, <2>3, <3>4, <3>5 DEF ProofsAreVotes
    <3> QED BY <2>1, <3>9, <3>10, <3>11, <3>12, <3>13
  <2> QED BY <1>5, <2>2, <2>3
<1> QED BY <1>4, <1>5 DEF HandleVote

(* A peer's block that fits is a sealed one (_on_block).                   *)
LEMMA IngestBlockKeeps ==
  ASSUME IInv, NEW n \in Node, NEW b \in sealed, IngestBlock(n, b)
  PROVE  IInv'
<1> USE DEF IInv
<1>1. /\ Fits(chain[n], b) /\ Ingest(n, b) /\ sealed' = sealed
      /\ UNCHANGED <<rounds, proposerId, proposed, votes, pendingBlock, posBlocks, posVotes>>
  BY DEF IngestBlock
<1>2. b \in Block
  BY DEF TypeOK
<1>3. /\ chain' \in [Node -> Seq(Block)] /\ pool' \in [Node -> SUBSET Tx]
      /\ Linked' /\ SharedPositions'
  <2>1. \A x, y \in sealed' : x.hash = y.hash => x = y
    BY <1>1 DEF OneSealPerRound
  <2> QED BY <1>1, <1>2, <2>1, IngestKeeps
<1>4. TypeOK'
  BY <1>1, <1>3 DEF TypeOK
<1>5. SameCandidate' /\ VotesApart' /\ OneSealPerRound' /\ SealedAsVoted'
  BY <1>1 DEF SameCandidate, VotesApart, OneSealPerRound, SealedAsVoted
<1>6. ProofsAreVotes'
  BY <1>1 DEF ProofsAreVotes
<1> QED BY <1>3, <1>4, <1>5, <1>6

(* Every step keeps the invariant.                                         *)
LEMMA NextIInv == IInv /\ [Next]_vars => IInv'
<1> SUFFICES ASSUME IInv, [Next]_vars PROVE IInv'
  OBVIOUS
<1>1. CASE UNCHANGED vars
  <2>1. TypeOK' /\ SameCandidate' /\ VotesApart' /\ OneSealPerRound'
    BY <1>1 DEF vars, IInv, TypeOK, SameCandidate, VotesApart, OneSealPerRound
  <2>2. Linked' /\ SealedAsVoted' /\ SharedPositions'
    BY <1>1 DEF vars, IInv, Linked, SealedAsVoted, SharedPositions
  <2>3. ProofsAreVotes'
    BY <1>1 DEF vars, IInv, ProofsAreVotes
  <2> QED BY <2>1, <2>2, <2>3 DEF IInv
<1>2. ASSUME NEW n \in Node, NEW p \in Proposers, StartRound(n, p) PROVE IInv'
  BY <1>2, StartRoundKeeps
<1>3. ASSUME NEW n \in Node, NEW c \in posBlocks, HandleProposedBlock(n, c) PROVE IInv'
  BY <1>3, HandleProposedBlockKeeps
<1>4. ASSUME NEW n \in Node, NEW v \in posVotes, HandleVote(n, v) PROVE IInv'
  BY <1>4, HandleVoteKeeps
<1>5. ASSUME NEW n \in Node, NEW b \in sealed, IngestBlock(n, b) PROVE IInv'
  BY <1>5, IngestBlockKeeps
<1> QED BY <1>1, <1>2, <1>3, <1>4, <1>5 DEF Next

-----------------------------------------------------------------------------
(* The inductive invariant holds in every state.                           *)
THEOREM Invariance == Spec => []IInv
<1> QED BY InitIInv, NextIInv, PTL DEF Spec

(* Machines, engine and chain keep their types.                            *)
THEOREM TypeCorrect == Spec => []TypeOK
<1>1. IInv => TypeOK
  BY DEF IInv
<1> QED BY <1>1, Invariance, PTL

(* No node seals transactions it did not vote for, in however many rounds  *)
(* and with however many candidates (_commit_pos_block).                   *)
THEOREM SealsWhatItVotedFor == Spec => []SealedAsVoted
<1>1. IInv => SealedAsVoted
  BY DEF IInv
<1> QED BY <1>1, Invariance, PTL

(* Every proof has votes of 2f+1 different nodes, all of which were cast   *)
(* (handle_vote).                                                          *)
THEOREM ProofsHold == Spec => []ProofsAreVotes
<1>1. IInv => ProofsAreVotes
  BY DEF IInv
<1> QED BY <1>1, Invariance, PTL

(* Chains that share a block share all that came before it                 *)
(* (Chain._validate_block).                                                *)
THEOREM ForksNeverMeet == Spec => []SharedPast
<1>1. IInv => SharedPast
  BY PositionsSuffice DEF IInv
<1> QED BY <1>1, Invariance, PTL
=============================================================================
