------------------------------- MODULE Ledger -------------------------------
(***************************************************************************)
(* What a block does to the ledger: Chain._validate_tx, Chain._apply_tx,   *)
(* the choice of simple transactions by the mempool and the genesis block. *)
(* Pure definitions; NodeService runs them.                                *)
(*                                                                         *)
(* Abstractions:                                                           *)
(*  - INFER amounts and reputations are integers, in a unit of choice.     *)
(*  - Signatures verify and Merkle roots match: blocks and transactions    *)
(*    come from the program's own builders.                                *)
(*  - The inference log, the public keys, the contract code and the        *)
(*    descriptive fields of a node record play no part in a balance, a     *)
(*    stake or a right to validate, and are left out.                      *)
(***************************************************************************)
EXTENDS Integers, Sequences, FiniteSets

CONSTANTS
  Address,      \* accounts and nodes
  Genesis,      \* GENESIS_ADDRESS, the sender of the initial allocations
  None,         \* no node record, no PoM record, no recipient
  MinStake,     \* MIN_STAKE = MIN_STAKE_DNN
  RepPenalty    \* REP_PENALTY

ASSUME LedgerAssumption ==
  /\ Genesis \in Address /\ None \notin Address
  /\ MinStake \in Nat /\ RepPenalty \in Nat

SimpleType == {"TRANSFER", "STAKE", "UNSTAKE", "REGISTER", "REGISTER_DNN",
               "REGISTER_POS", "RESPONSE", "DEPLOY", "CALL"}
SystemType == {"REWARD", "SLASH", "VERIFY", "ADMITTED", "REJECTED"}

\* A transaction.  "to" is the recipient, or the node a PoM transaction is
\* about; "ok" is the verdict of a MODEL_VERIFY.  Nothing on the way from the
\* wallet to the ledger refuses a negative amount or fee.
Tx == [type: SimpleType \cup SystemType, from: Address,
       to: Address \cup {None}, amount: Int, fee: Int, nonce: Nat, ok: BOOLEAN]

NodeRecord == [kind: {"dnn", "pos"}, active: BOOLEAN, verified: BOOLEAN]
PomRecord == [positive: SUBSET Address, negative: SUBSET Address]

LedgerState ==
  [balance: [Address -> Int], stake: [Address -> Int],
   nonce: [Address -> Nat], rep: [Address -> Nat],
   node: [Address -> NodeRecord \cup {None}],
   pom: [Address -> PomRecord \cup {None}]]

EmptyLedger ==
  [balance |-> [a \in Address |-> 0], stake |-> [a \in Address |-> 0],
   nonce |-> [a \in Address |-> 0], rep |-> [a \in Address |-> 0],
   node |-> [a \in Address |-> None], pom |-> [a \in Address |-> None]]

\* MUTANT of NonNegative: no bound.
NonNegativeNot(x) == x

NonNegative(x) == IF x < 0 THEN 0 ELSE x

-----------------------------------------------------------------------------
(* Validation *)

\* The nonce that transaction i of a block must carry: one more than that of
\* the sender's last transaction before it in the block, or of the ledger.
ExpectedNonce(s, txs, i) ==
  LET earlier == {j \in 1..(i - 1) : txs[j].from = txs[i].from}
  IN 1 + IF earlier = {} THEN s.nonce[txs[i].from]
         ELSE txs[CHOOSE j \in earlier : \A k \in earlier : k <= j].nonce

\* MUTANT of Affordable: a transfer is checked without its fee.
AffordableFeeless(s, tx) ==
  /\ tx.type \in {"TRANSFER", "STAKE"} => s.balance[tx.from] >= tx.amount
  /\ tx.type = "UNSTAKE" => /\ s.stake[tx.from] >= tx.amount
                            /\ s.balance[tx.from] >= tx.fee
  /\ tx.type \in {"DEPLOY", "CALL", "REGISTER"} =>
       s.balance[tx.from] >= tx.fee

\* What _validate_tx asks of the sender's means, in the ledger before the
\* block.  The other registrations and MODEL_RESPONSE are not checked, nor is
\* the value a contract call sends.
Affordable(s, tx) ==
  /\ tx.type \in {"TRANSFER", "STAKE"} =>
       s.balance[tx.from] >= tx.amount + tx.fee
  /\ tx.type = "UNSTAKE" => /\ s.stake[tx.from] >= tx.amount
                            /\ s.balance[tx.from] >= tx.fee
  /\ tx.type \in {"DEPLOY", "CALL", "REGISTER"} =>
       s.balance[tx.from] >= tx.fee

ValidTxs(s, txs) ==
  \A i \in DOMAIN txs : /\ txs[i].nonce = ExpectedNonce(s, txs, i)
                        /\ Affordable(s, txs[i])

-----------------------------------------------------------------------------
(* Application *)

\* A simple transaction pays its fee to the proposer of the block, when there
\* is one.
FeePaid(s, tx, proposer) ==
  IF tx.type \in SimpleType /\ tx.fee > 0
  THEN [s EXCEPT !.balance[proposer] = @ + tx.fee]
  ELSE s

\* The sender spends x and the fee, and uses up a nonce.  A negative fee is
\* paid to it by nobody.
Spent(s, tx, x) == [s EXCEPT !.balance[tx.from] = @ - x - tx.fee,
                             !.nonce[tx.from] = tx.nonce]

\* Registering again starts the record anew.
Registered(s, tx, kind, active) ==
  [Spent(s, tx, 0) EXCEPT
     !.node[tx.from] = [kind |-> kind, active |-> active, verified |-> FALSE],
     !.rep[tx.from] = 0]

\* MUTANT of Unstaked: the fee is forgotten.
UnstakedFree(s, tx) == [s EXCEPT !.stake[tx.from] = @ - tx.amount,
                                 !.balance[tx.from] = @ + tx.amount,
                                 !.nonce[tx.from] = tx.nonce]

Unstaked(s, tx) == [Spent(s, tx, -tx.amount) EXCEPT !.stake[tx.from] = @ - tx.amount]

\* A verifier counts once in the on-chain PoM record of a node that has one.
Verified(s, tx) ==
  IF s.pom[tx.to] = None
     \/ tx.from \in s.pom[tx.to].positive \cup s.pom[tx.to].negative THEN s
  ELSE IF tx.ok THEN [s EXCEPT !.pom[tx.to].positive = @ \cup {tx.from}]
  ELSE [s EXCEPT !.pom[tx.to].negative = @ \cup {tx.from}]

Admitted(s, tx) ==
  IF s.node[tx.to] = None THEN s
  ELSE [s EXCEPT !.node[tx.to].active = TRUE, !.node[tx.to].verified = TRUE]

Rejected(s, tx) ==
  [s EXCEPT !.node[tx.to] = IF @ = None THEN None ELSE [@ EXCEPT !.active = FALSE],
            !.pom[tx.to] = None]

Slashed(s, tx) ==
  LET left == NonNegative(s.stake[tx.from] - tx.amount)
  IN [s EXCEPT !.stake[tx.from] = left,
               !.rep[tx.from] = NonNegative(@ - RepPenalty),
               !.node[tx.from] = IF @ # None /\ left < MinStake
                                 THEN [@ EXCEPT !.active = FALSE] ELSE @]

\* _apply_tx.  The value of a contract call leaves its sender and reaches
\* nobody.
Effect(s, tx) ==
  CASE tx.type = "TRANSFER" ->
         [Spent(s, tx, tx.amount) EXCEPT !.balance[tx.to] = @ + tx.amount]
    [] tx.type = "STAKE" ->
         [Spent(s, tx, tx.amount) EXCEPT !.stake[tx.from] = @ + tx.amount]
    [] tx.type = "UNSTAKE" -> Unstaked(s, tx)
    [] tx.type = "REGISTER" -> Registered(s, tx, "pos", TRUE)
    [] tx.type = "REGISTER_POS" -> Registered(s, tx, "pos", FALSE)
    [] tx.type = "REGISTER_DNN" ->
         [Registered(s, tx, "dnn", FALSE) EXCEPT
            !.pom[tx.from] = [positive |-> {}, negative |-> {}]]
    [] tx.type \in {"RESPONSE", "DEPLOY"} -> Spent(s, tx, 0)
    [] tx.type = "CALL" -> Spent(s, tx, tx.amount)
    [] tx.type = "REWARD" -> [s EXCEPT !.balance[tx.to] = @ + tx.amount]
    [] tx.type = "SLASH" -> Slashed(s, tx)
    [] tx.type = "VERIFY" -> Verified(s, tx)
    [] tx.type = "ADMITTED" -> Admitted(s, tx)
    [] tx.type = "REJECTED" -> Rejected(s, tx)

Applied(s, txs, proposer) ==
  LET after[i \in 0..Len(txs)] ==
        IF i = 0 THEN s
        ELSE Effect(FeePaid(after[i - 1], txs[i], proposer), txs[i])
  IN after[Len(txs)]

\* _apply_block, in the order of all_transactions: simple before system.
ApplyBlock(s, b) == Applied(s, b.simple \o b.system, b.proposer)

-----------------------------------------------------------------------------
(* Who may validate *)

DnnValidators(s) ==
  {a \in Address : /\ s.node[a] # None /\ s.node[a].kind = "dnn"
                   /\ s.node[a].active /\ s.stake[a] >= MinStake}

-----------------------------------------------------------------------------
(* Mempool *)

\* The i-th pending transaction is the one of its sender that select_simple
\* may take: it carries the next nonce and no earlier one does.
Candidate(pool, s, i) ==
  /\ pool[i].nonce = s.nonce[pool[i].from] + 1
  /\ \A j \in 1..(i - 1) : <<pool[j].from, pool[j].nonce>>
                             # <<pool[i].from, pool[i].nonce>>

\* What select_simple may return: the max candidates of the highest fees,
\* highest first.  Equal fees may come in any order.
Selections(pool, s, max) ==
  LET cand == {pool[i] : i \in {j \in DOMAIN pool : Candidate(pool, s, j)}}
      size == IF Cardinality(cand) < max THEN Cardinality(cand) ELSE max
  IN {txs \in [1..size -> cand] :
        /\ \A i, j \in 1..size : i < j => txs[i] # txs[j] /\ txs[i].fee >= txs[j].fee
        /\ \A tx \in cand : \A i \in 1..size :
             tx.fee > txs[i].fee => \E j \in 1..size : txs[j] = tx}
=============================================================================
