------------------------------ MODULE PoSRounds ------------------------------
(***************************************************************************)
(* PoS rounds: the proposer sends a candidate block, every node votes for  *)
(* it, and each node that counts 2f+1 votes seals a block of its own with  *)
(* the candidate's transactions, appends it to its chain and sends it to   *)
(* its peers (core/qoi/pos_consensus.py, the PoS half of ConsensusEngine,  *)
(* and the checks of Chain.append that concern these blocks).              *)
(*                                                                         *)
(* Abstractions:                                                           *)
(*  - Messages are as in QoIConsensus: everything ever sent may arrive,    *)
(*    repeatedly and in any order, or never.  A sealed block is taken up   *)
(*    when it fits the chain or not at all; GossipSync is to say when.     *)
(*  - select_proposer is the choice of any proposer: nodes whose tips,     *)
(*    views or reputations differ select different ones.                   *)
(*  - A block's hash covers its timestamp, so a node never builds two      *)
(*    blocks alike: its author and its round stand for the hash.           *)
(*  - Each transaction is the next one of an account of its own: it is     *)
(*    valid until it is on the chain.                                      *)
(*  - The handler seals as soon as the votes are there (F > 0), so the     *)
(*    polling loop only ever times out: a round ends when the next starts. *)
(***************************************************************************)
EXTENDS Naturals, Sequences, FiniteSets

CONSTANTS
  Node,       \* the validators
  F,          \* the engine's f, and the chain's
  Tx,         \* simple transactions
  Proposers,  \* nodes that may be selected as proposer
  MaxRounds,  \* bound: the rounds each node starts
  None        \* the absence of a value

ASSUME NodeAssumption == IsFiniteSet(Node) /\ Proposers \subseteq Node
ASSUME BoundAssumption == F \in Nat \ {0} /\ MaxRounds \in [Node -> Nat]

VARIABLES
  rounds,        \* rounds each node has started
  proposerId,    \* proposer_id of the attached machine
  proposed,      \* _proposed_block of that machine
  votes,         \* _votes of that machine: at most one vote of each node
  pendingBlock,  \* _pending_pos_block
  pool,          \* simple transactions in the mempool
  chain,         \* the node's blocks, oldest first, without the genesis
  posBlocks,     \* every POS_BLOCK message sent
  posVotes,      \* every POS_VOTE message sent
  sealed         \* every sealed block sent

vars == <<rounds, proposerId, proposed, votes, pendingBlock, pool, chain,
          posBlocks, posVotes, sealed>>

-----------------------------------------------------------------------------
Candidate == [by : Node, round : Nat, txs : SUBSET Tx]
Vote == [node : Node, block : Candidate]

Hash == [sealer : Node, round : Nat]

\* proof holds the votes that the outcome was reached with.
Block == [hash : Hash, prev : Hash \cup {None}, txs : SUBSET Tx,
          proof : SUBSET Vote]

ASSUME NoneAssumption ==
  None \notin Node /\ None \notin Candidate /\ None \notin Hash

Threshold == 2 * F + 1

\* The hash of the last block of chain c.
Tip(c) == IF c = <<>> THEN None ELSE c[Len(c)].hash

TxsOn(c) == UNION {c[i].txs : i \in DOMAIN c}

\* MUTANT of Fits: the previous block is not compared.
FitsAnywhere(c, b) ==
  Cardinality(b.proof) >= Threshold /\ b.txs \cap TxsOn(c) = {}

\* Block b passes the validation of a node whose chain is c.
Fits(c, b) ==
  /\ b.prev = Tip(c)
  /\ Cardinality(b.proof) >= Threshold
  /\ b.txs \cap TxsOn(c) = {}

Init ==
  /\ rounds = [n \in Node |-> 0]
  /\ proposerId = [n \in Node |-> None]
  /\ proposed = [n \in Node |-> None]
  /\ votes = [n \in Node |-> {}]
  /\ pendingBlock = [n \in Node |-> None]
  /\ pool \in [Node -> SUBSET Tx]
  /\ chain = [n \in Node |-> <<>>]
  /\ posBlocks = {}
  /\ posVotes = {}
  /\ sealed = {}

-----------------------------------------------------------------------------
(* ingest_block: validate, append, clean up the mempool.                   *)
Ingest(n, b) ==
  /\ chain' = [chain EXCEPT ![n] = Append(@, b)]
  /\ pool' = [pool EXCEPT ![n] = @ \ b.txs]

(* The engine replaces whatever machine is attached.  A proposer builds a  *)
(* candidate from its mempool, and votes for it; the others wait.  The     *)
(* candidate of the last round stays in pendingBlock.                      *)
StartRound(n, p) ==
  /\ rounds[n] < MaxRounds[n]
  /\ rounds' = [rounds EXCEPT ![n] = @ + 1]
  /\ proposerId' = [proposerId EXCEPT ![n] = p]
  /\ \/ /\ p # n
        /\ proposed' = [proposed EXCEPT ![n] = None]
        /\ votes' = [votes EXCEPT ![n] = {}]
        /\ UNCHANGED <<pendingBlock, posBlocks, posVotes>>
     \/ LET c == [by |-> n, round |-> rounds[n] + 1,
                  txs |-> pool[n] \ TxsOn(chain[n])]
            v == [node |-> n, block |-> c]
        IN  /\ p = n
            /\ proposed' = [proposed EXCEPT ![n] = c]
            /\ votes' = [votes EXCEPT ![n] = {v}]
            /\ pendingBlock' = [pendingBlock EXCEPT ![n] = c]
            /\ posBlocks' = posBlocks \cup {c}
            /\ posVotes' = posVotes \cup {v}
  /\ UNCHANGED <<pool, chain, sealed>>

(* A candidate, whoever sent it and whatever its height, replaces the one  *)
(* the machine had; the votes for that one stay.  The node votes, and does *)
(* not look whether its vote completes a quorum.                           *)
HandleProposedBlock(n, c) ==
  LET v == [node |-> n, block |-> c]
  IN  /\ proposerId[n] # None
      /\ proposed' = [proposed EXCEPT ![n] = c]
      /\ votes' = [votes EXCEPT ![n] = {w \in @ : w.node # n} \cup {v}]
      /\ pendingBlock' = [pendingBlock EXCEPT ![n] = c]
      /\ posVotes' = posVotes \cup {v}
      /\ UNCHANGED <<rounds, proposerId, pool, chain, posBlocks, sealed>>

\* MUTANT of SealedTxs: the mempool of the node that seals.
SealedTxsFresh(n) == pool[n] \ TxsOn(chain[n])

SealedTxs(n) == IF pendingBlock[n] = None THEN {} ELSE pendingBlock[n].txs

\* MUTANT of CountedVote: the voters are not compared.
CountedVoteTwice(n, v) == v.block = proposed[n]

\* A vote that is neither for another block nor a second one of its node.
CountedVote(n, v) ==
  /\ v.block = proposed[n]
  /\ v.node \notin {w.node : w \in votes[n]}

(* A vote for the machine's candidate.  The one that makes 2f+1 leads to a *)
(* block on the node's own tip, which the node appends and sends if it     *)
(* passes its own validation; the machine is dropped either way.           *)
HandleVote(n, v) ==
  LET cast == votes[n] \cup {v}
      b == [hash |-> [sealer |-> n, round |-> rounds[n]],
            prev |-> Tip(chain[n]), txs |-> SealedTxs(n), proof |-> cast]
  IN  /\ proposerId[n] # None /\ proposed[n] # None
      /\ CountedVote(n, v)
      /\ \/ /\ Cardinality(cast) < Threshold
            /\ votes' = [votes EXCEPT ![n] = cast]
            /\ UNCHANGED <<proposerId, proposed, pendingBlock, pool, chain, sealed>>
         \/ /\ Cardinality(cast) >= Threshold
            /\ proposerId' = [proposerId EXCEPT ![n] = None]
            /\ proposed' = [proposed EXCEPT ![n] = None]
            /\ votes' = [votes EXCEPT ![n] = {}]
            /\ pendingBlock' = [pendingBlock EXCEPT ![n] = None]
            /\ \/ Fits(chain[n], b) /\ Ingest(n, b) /\ sealed' = sealed \cup {b}
               \/ ~Fits(chain[n], b) /\ UNCHANGED <<pool, chain, sealed>>
      /\ UNCHANGED <<rounds, posBlocks, posVotes>>

(* A block of a peer passes the validation.                                *)
IngestBlock(n, b) ==
  /\ Fits(chain[n], b)
  /\ Ingest(n, b)
  /\ UNCHANGED <<rounds, proposerId, proposed, votes, pendingBlock, posBlocks,
                 posVotes, sealed>>

Next == \E n \in Node :
  \/ \E p \in Proposers : StartRound(n, p)
  \/ \E c \in posBlocks : HandleProposedBlock(n, c)
  \/ \E v \in posVotes : HandleVote(n, v)
  \/ \E b \in sealed : IngestBlock(n, b)

Spec == Init /\ [][Next]_vars

-----------------------------------------------------------------------------
(* Every variable has the shape its Python counterpart has. *)
TypeOK ==
  /\ rounds \in [Node -> Nat]
  /\ \A n \in Node : rounds[n] <= MaxRounds[n]
  /\ proposerId \in [Node -> Node \cup {None}]
  /\ proposed \in [Node -> Candidate \cup {None}]
  /\ votes \in [Node -> SUBSET Vote]
  /\ pendingBlock \in [Node -> Candidate \cup {None}]
  /\ pool \in [Node -> SUBSET Tx]
  /\ chain \in [Node -> Seq(Block)]
  /\ posBlocks \subseteq Candidate
  /\ posVotes \subseteq Vote
  /\ sealed \subseteq Block

(* A block carries the transactions of a candidate, and the node that      *)
(* sealed it voted for that candidate: machine and engine keep a candidate *)
(* each, over rounds that end in time-outs, and do not disagree            *)
(* (_commit_pos_block, _pending_pos_block).                                *)
SealedAsVoted ==
  \A b \in sealed : \E v \in b.proof :
    v.node = b.hash.sealer /\ v.block.txs = b.txs

(* 2f+1 different nodes stand behind a block, and each of them did vote in *)
(* that proof's words: votes that come twice, or for a candidate replaced  *)
(* meanwhile, make no quorum of fewer nodes (handle_vote).                 *)
ProofsAreVotes ==
  \A b \in sealed :
    /\ b.proof \subseteq posVotes
    /\ Cardinality({v.node : v \in b.proof}) >= Threshold

(* Nodes that have a block in common have everything before it in common:  *)
(* forks never meet again (Chain._validate_block).                         *)
SharedPast ==
  \A m, n \in Node : \A i \in DOMAIN chain[m], j \in DOMAIN chain[n] :
    chain[m][i].hash = chain[n][j].hash =>
      SubSeq(chain[m], 1, i) = SubSeq(chain[n], 1, j)

-----------------------------------------------------------------------------
(* What the repository says of these blocks and the code does not do.      *)

(* The proof of a block is "Proof that 2f+1 nodes agreed on this block."   *)
(* (block.py, ConsensusProof): on its transactions, at the least.          *)
ProofOfThisBlock ==
  \A b \in sealed :
    Cardinality({v.node : v \in {w \in b.proof : w.block.txs = b.txs}}) >= Threshold
=============================================================================
