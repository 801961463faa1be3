---------------------------- MODULE NodeService ----------------------------
(***************************************************************************)
(* The NodeServices of a network: each holds a chain with its ledger, a    *)
(* mempool of simple transactions and an SQLite file, takes transactions   *)
(* from clients, seals blocks, ingests the blocks of the others, and is    *)
(* killed and started again.                                               *)
(*                                                                         *)
(* Every operation runs under the service's lock and none is suspended     *)
(* while it holds it, so each is one step.  A kill inside an operation     *)
(* leaves what a kill before or after it leaves: at most the last block is *)
(* missing from the file, which a failed write covers.                     *)
(*                                                                         *)
(* Abstractions:                                                           *)
(*  - Blocks carry enough signatures; PoSRounds and QoIConsensus say how   *)
(*    they get them.                                                       *)
(*  - A block is named by a number of its own, which stands for its hash.  *)
(*  - The participants of a QoI round are the validators of the sealing    *)
(*    node, and the honest ones score alike.                               *)
(*  - The state snapshot is written and never read; it is left out.        *)
(***************************************************************************)
EXTENDS Ledger, Sieve, SequencesExt, FiniteSetsExt

CONSTANTS
  Node,          \* the addresses that run a service
  GenesisTxs,    \* the simple transactions of the genesis block
  GenesisAdmits, \* the NODE_ADMITTED transactions of the genesis block
  Scripts,       \* each names the transactions the clients may submit
                 \* ("simple"), what a PoM session hands to a proposer ("pom")
                 \* and which accounts ask a faucet ("faucet")
  Rounds,        \* the outcomes of QoI rounds: a leader, and who is dishonest
  InferenceReward, LeaderBonus, SlashPenalty,
  RepGain, RepLeaderBonus, \* reputation of an honest participant, of the leader
  FaucetAmount, FaucetMax, \* FAUCET_AMOUNT, FAUCET_MAX_BAL
  PoolSize,      \* MEMPOOL_MAX_SIZE
  MaxTxs,        \* MAX_SIMPLE_TXS
  MaxBlocks,     \* bound: blocks sealed
  MaxRounds,     \* bound: QoI blocks among them
  MaxCrashes,    \* bound: kills
  MaxFailures    \* bound: failed database writes

\* A transaction that names a recipient, or a node, names one there is.
WellFormed(tx) ==
  /\ tx \in Tx
  /\ tx.type \in {"TRANSFER", "REWARD", "VERIFY", "ADMITTED", "REJECTED"} =>
       tx.to \in Address

\* Clients sign the simple types, as wallet.py and node/ make them, and pom.py
\* the three of a PoM session; nobody holds the key of the genesis address.
ASSUME ServiceAssumption ==
  /\ IsFiniteSet(Address) /\ Node \subseteq Address
  /\ \A sc \in Scripts :
       /\ \A tx \in sc.simple :
            WellFormed(tx) /\ tx.type \in SimpleType /\ tx.from # Genesis
       /\ \A tx \in sc.pom :
            WellFormed(tx) /\ tx.type \in {"VERIFY", "ADMITTED", "REJECTED"}
       /\ sc.faucet \subseteq Address
  /\ \A r \in Rounds : r.primary \in Address /\ r.others \subseteq Address
  /\ {InferenceReward, LeaderBonus, SlashPenalty, RepGain, RepLeaderBonus,
      FaucetAmount, MaxTxs, MaxBlocks, MaxCrashes, MaxFailures} \subseteq Nat

VARIABLES
  script,   \* what the clients may submit; never changes
  chain,    \* Chain.blocks of each node
  ledger,   \* Chain.state
  pool,     \* the simple transactions of the mempool, in order of arrival
  disk,     \* the rows of the table blocks, by height
  up,       \* whether the process runs
  given,    \* _faucet_given: the accounts this process has given to
  made,     \* the blocks ever sealed: any of them may reach any node
  crashes, failures

vars == <<script, chain, ledger, pool, disk, up, given, made, crashes, failures>>
counters == <<crashes, failures>>

GenesisBlock ==
  [id |-> 0, prev |-> 0, height |-> 0, proposer |-> Genesis, kind |-> "POS",
   simple |-> GenesisTxs, system |-> GenesisAdmits]

\* Chain.blocks is numbered from 0 by the code and from 1 here.
Tip(c) == c[Len(c)]

GenesisLedger == ApplyBlock(EmptyLedger, GenesisBlock)

Init ==
  /\ script \in Scripts
  /\ chain = [n \in Node |-> <<GenesisBlock>>]
  /\ ledger = [n \in Node |-> GenesisLedger]
  /\ pool = [n \in Node |-> <<>>]
  /\ disk = [n \in Node |-> [h \in {0} |-> GenesisBlock]]
  /\ up = [n \in Node |-> TRUE]
  /\ given = [n \in Node |-> {}]
  /\ made = {}
  /\ crashes = 0 /\ failures = 0

-----------------------------------------------------------------------------
(* Chain.append *)

\* Would the chain c, whose ledger is s, take block b?
ValidBlock(c, s, b) ==
  /\ b.prev = Tip(c).id
  /\ b.height = Tip(c).height + 1
  /\ ValidTxs(s, b.simple)

\* MUTANT of LeftInPool: the committed transactions stay.
LeftInPoolAll(txs, b) == txs

\* Mempool.remove of the transactions of b.
LeftInPool(txs, b) == Without(txs, Range(b.simple))

\* save_block: the row of the block's height is replaced.
Saved(rows, b) ==
  [h \in DOMAIN rows \cup {b.height} |-> IF h = b.height THEN b ELSE rows[h]]

\* _persist_block: the block is saved, or the write fails and is logged.
Persist(n, b) ==
  \/ /\ disk' = [disk EXCEPT ![n] = Saved(@, b)]
     /\ UNCHANGED failures
  \/ /\ failures < MaxFailures /\ failures' = failures + 1
     /\ UNCHANGED disk

\* append, remove and _persist_block, as seal_block and ingest_block run them;
\* deltas are the reputations the consensus engine adds afterwards.
Take(n, b, deltas) ==
  /\ ValidBlock(chain[n], ledger[n], b)
  /\ chain' = [chain EXCEPT ![n] = Append(@, b)]
  /\ ledger' = [ledger EXCEPT ![n] =
       LET s == ApplyBlock(@, b)
       IN [s EXCEPT !.rep = [a \in Address |-> NonNegative(@[a] + deltas[a])]]]
  /\ pool' = [pool EXCEPT ![n] = LeftInPool(@, b)]
  /\ Persist(n, b)

NoDeltas == [a \in Address |-> 0]

-----------------------------------------------------------------------------
(* Operations *)

\* The test of submit_tx.
NextNonce(n, tx) == tx.nonce = ledger[n].nonce[tx.from] + 1

\* submit_tx: exactly the next nonce, then Mempool.add.
Submit(n, tx) ==
  /\ up[n]
  /\ NextNonce(n, tx)
  /\ tx \notin Range(pool[n])
  /\ Len(pool[n]) < PoolSize
  /\ pool' = [pool EXCEPT ![n] = Append(@, tx)]
  /\ UNCHANGED <<script, chain, ledger, disk, up, given, made, counters>>

NewBlock(n, proposer, kind, simple, system) ==
  [id |-> Cardinality(made) + 1, prev |-> Tip(chain[n]).id,
   height |-> Tip(chain[n]).height + 1, proposer |-> proposer, kind |-> kind,
   simple |-> simple, system |-> system]

CanSeal(n) == up[n] /\ Cardinality(made) < MaxBlocks

\* seal_block, or the block of a PoS round.  No builder of the repository
\* puts the transactions of a PoM session into a block yet; pom.py makes them
\* for that and the ledger applies them.
SealPos(n) ==
  /\ CanSeal(n)
  /\ \E simple \in Selections(pool[n], ledger[n], MaxTxs),
        pom \in {<<>>} \cup {<<tx>> : tx \in script.pom} :
       LET b == NewBlock(n, n, "POS", simple, pom)
       IN Take(n, b, NoDeltas) /\ made' = made \cup {b}
  /\ UNCHANGED <<script, up, given, crashes>>

SystemTx(type, from, to, amount) ==
  [type |-> type, from |-> from, to |-> to, amount |-> amount, fee |-> 0,
   nonce |-> 0, ok |-> TRUE]

Fees(txs) ==
  LET sum[i \in 0..Len(txs)] == IF i = 0 THEN 0 ELSE sum[i - 1] + txs[i].fee
  IN sum[Len(txs)]

\* compute_round_rewards for equal scores: the minted reward and the fees of
\* the block are shared out, and the leader gets a bonus.
Reward(a, primary, honest, fees) ==
  (InferenceReward + fees) \div Cardinality(honest)
    + IF a = primary THEN LeaderBonus ELSE 0

\* build_system_txs: one REWARD for each honest participant that earned any,
\* one SLASH for each of the others.
RoundTxs(primary, honest, others, fees) ==
  LET earners == {a \in honest : Reward(a, primary, honest, fees) > 0}
      rewards == {SystemTx("REWARD", Genesis, a, Reward(a, primary, honest, fees)) :
                    a \in earners}
      slashes == {SystemTx("SLASH", a, None, SlashPenalty) : a \in others}
  IN SetToSeq(rewards) \o SetToSeq(slashes)

RoundDeltas(primary, honest, others) ==
  [a \in Address |->
     IF a \in honest THEN RepGain + (IF a = primary THEN RepLeaderBonus ELSE 0)
     ELSE IF a \in others THEN -RepPenalty ELSE 0]

\* A committed QoI round: the block is ingested like a peer's, then the
\* reputation deltas are applied, by this node only.  An outcome has nodes of
\* its class.
SealQoI(n) ==
  /\ CanSeal(n)
  /\ Cardinality({b \in made : b.kind = "QOI"}) < MaxRounds
  /\ \E r \in Rounds, simple \in Selections(pool[n], ledger[n], MaxTxs) :
       LET honest == DnnValidators(ledger[n]) \ r.others
           b == NewBlock(n, r.primary, "QOI", simple,
                         RoundTxs(r.primary, honest, r.others, Fees(simple)))
       IN /\ {r.primary} \cup r.others \subseteq DnnValidators(ledger[n])
          /\ honest # {}
          /\ Take(n, b, RoundDeltas(r.primary, honest, r.others))
          /\ made' = made \cup {b}
  /\ UNCHANGED <<script, up, given, crashes>>

\* ingest_block of a block that arrives, whenever it does.
Ingest(n, b) ==
  /\ up[n]
  /\ Take(n, b, NoDeltas)
  /\ UNCHANGED <<script, up, given, made, crashes>>

\* The faucet of the REST interface: it credits the ledger of this process,
\* outside any block.
Faucet(n, a) ==
  /\ up[n]
  /\ a \notin given[n]
  /\ ledger[n].balance[a] < FaucetMax
  /\ ledger' = [ledger EXCEPT ![n].balance[a] = @ + FaucetAmount]
  /\ given' = [given EXCEPT ![n] = @ \cup {a}]
  /\ UNCHANGED <<script, chain, pool, disk, up, made, counters>>

Crash(n) ==
  /\ up[n] /\ crashes < MaxCrashes
  /\ up' = [up EXCEPT ![n] = FALSE]
  /\ crashes' = crashes + 1
  /\ UNCHANGED <<script, chain, ledger, pool, disk, given, made, failures>>

\* The chain and the ledger that the row of the genesis block makes.
FirstRow(b) ==
  [chain |-> <<b>>, ledger |-> ApplyBlock(EmptyLedger, b), stopped |-> FALSE]

\* MUTANT of NextRow: the rows after the first are taken on trust.
NextRowUnchecked(r, b) ==
  [r EXCEPT !.chain = Append(@, b), !.ledger = ApplyBlock(@, b)]

\* MUTANT of NextRow: the system transactions of the rows are not applied again.
NextRowSimple(r, b) ==
  IF r.stopped \/ ~ ValidBlock(r.chain, r.ledger, b) THEN [r EXCEPT !.stopped = TRUE]
  ELSE [r EXCEPT !.chain = Append(@, b),
                 !.ledger = ApplyBlock(@, [b EXCEPT !.system = <<>>])]

\* The next row is appended if it fits; the first that does not ends the replay.
NextRow(r, b) ==
  IF r.stopped \/ ~ ValidBlock(r.chain, r.ledger, b) THEN [r EXCEPT !.stopped = TRUE]
  ELSE [r EXCEPT !.chain = Append(@, b), !.ledger = ApplyBlock(@, b)]

\* open_or_create_chain: the rows in order of height.  No block is higher than
\* MaxBlocks.
Replay(rows) ==
  LET upTo[h \in 0..MaxBlocks] ==
        IF h = 0 THEN FirstRow(rows[0])
        ELSE IF h \in DOMAIN rows THEN NextRow(upTo[h - 1], rows[h])
        ELSE upTo[h - 1]
  IN upTo[MaxBlocks]

\* The process starts again: the mempool is empty.
Restart(n) ==
  /\ ~ up[n]
  /\ up' = [up EXCEPT ![n] = TRUE]
  /\ chain' = [chain EXCEPT ![n] = Replay(disk[n]).chain]
  /\ ledger' = [ledger EXCEPT ![n] = Replay(disk[n]).ledger]
  /\ pool' = [pool EXCEPT ![n] = <<>>]
  /\ given' = [given EXCEPT ![n] = {}]
  /\ UNCHANGED <<script, disk, made, counters>>

Next ==
  \E n \in Node :
    \/ \E tx \in script.simple : Submit(n, tx)
    \/ SealPos(n)
    \/ SealQoI(n)
    \/ \E b \in made : Ingest(n, b)
    \/ \E a \in script.faucet : Faucet(n, a)
    \/ Crash(n)
    \/ Restart(n)

Spec == Init /\ [][Next]_vars

-----------------------------------------------------------------------------
(* Properties *)

LedgerTypeOK ==
  /\ \A n \in Node :
       /\ ledger[n] \in LedgerState
       /\ \A i \in DOMAIN pool[n] : pool[n][i] \in Tx
       /\ DOMAIN disk[n] \subseteq 0..MaxBlocks
       /\ \A i \in DOMAIN chain[n] : chain[n][i].height = i - 1
  /\ up \in [Node -> BOOLEAN]
  /\ crashes \in 0..MaxCrashes /\ failures \in 0..MaxFailures

\* A transaction whose cost is not checked.
Free(tx) ==
  \/ tx.type \in {"REGISTER_DNN", "REGISTER_POS", "RESPONSE"}
  \/ tx.type = "CALL" /\ tx.amount > 0

\* Transaction tx may put account a in debt: its cost is not checked, or a
\* negative amount takes from the account that should get it.
Excuses(tx, a) ==
  \/ tx.from = a /\ Free(tx)
  \/ tx.amount < 0 /\ a \in {tx.from, tx.to}

Unchecked(c, a) ==
  \E i \in DOMAIN c : \E j \in DOMAIN c[i].simple : Excuses(c[i].simple[j], a)

InDebt(s, a) == s.balance[a] < 0 \/ s.stake[a] < 0

\* No account with ledger s of the chain c is in debt by what is checked.
Solvent(c, s) ==
  \A a \in Address : InDebt(s, a) => InDebt(GenesisLedger, a) \/ Unchecked(c, a)

\* An account that the genesis block left solvent goes into debt only through
\* a transaction of its own whose cost is not checked (two registrations, a
\* MODEL_RESPONSE, the value of a contract call), or one of a negative amount
\* that it sends or gets.  Every transaction of a block is validated against
\* the ledger before the block, so this rests on the mempool offering one
\* transaction per sender.
NoOverdraft == \A n \in Node : Solvent(chain[n], ledger[n])

\* Where the simple transactions of account a stand on chain c: the block,
\* and the place in it.
Places(c, a) ==
  UNION {{i} \X {j \in DOMAIN c[i].simple : c[i].simple[j].from = a} : i \in DOMAIN c}

\* The transactions of each account carry the nonces 1, 2, ... in the order of
\* the chain, up to the nonce in the ledger.
InOrder(c, s) ==
  \A a \in Address \ {Genesis} :
    LET Nonce(p) == c[p[1]].simple[p[2]].nonce
    IN /\ {Nonce(p) : p \in Places(c, a)} = 1..s.nonce[a]
       /\ \A p, q \in Places(c, a) :
            (p[1] < q[1] \/ (p[1] = q[1] /\ p[2] < q[2])) => Nonce(p) < Nonce(q)

\* No account's nonce is used twice on a chain, and none is skipped: a
\* transaction is applied at most once, whatever order blocks arrive in and
\* whatever is lost in a crash.
NoncesInOrder == \A n \in Node : InOrder(chain[n], ledger[n])

\* A transaction that the chain holds is not offered for a block again, and
\* what is pending can be sealed next or never.
PoolIsAhead ==
  \A n \in Node : \A i \in DOMAIN pool[n] :
    /\ pool[n][i].nonce <= ledger[n].nonce[pool[n][i].from] + 1
    /\ \A j \in DOMAIN chain[n] : pool[n][i] \notin Range(chain[n][j].simple)

\* All the INFER there is: the genesis allocations are a debt of the genesis
\* address.
Supply(s) == SumFunction([a \in Address |-> s.balance[a] + s.stake[a]])

SumOf(b, type) ==
  LET txs == b.simple \o b.system
  IN SumFunction([i \in DOMAIN txs |-> IF txs[i].type = type THEN txs[i].amount ELSE 0])

\* What negative fees pay their senders.
Rebated(tx) == IF tx.type \in SimpleType /\ tx.fee < 0 THEN -tx.fee ELSE 0
Rebates(b) ==
  LET txs == b.simple \o b.system
  IN SumFunction([i \in DOMAIN txs |-> Rebated(txs[i])])

\* What a block may mint: the pool of a QoI round, which is the reward of the
\* round and once more the fees that its transactions pay the proposer, and
\* the leader's bonus.
MintedFor(b) ==
  IF b.kind = "QOI" THEN NonNegative(InferenceReward + Fees(b.simple)) + LeaderBonus ELSE 0

Slashing(b) == \E i \in DOMAIN b.system : b.system[i].type = "SLASH"

\* No slash meets a stake below zero.
StakesHold(s, b) ==
  /\ \A a \in Address : s.stake[a] >= 0
  /\ \A i \in DOMAIN b.simple : b.simple[i].type = "STAKE" => b.simple[i].amount >= 0

\* A block changes the supply by its rewards, which are no more than the pool
\* of a QoI round and none in a PoS block, by the fees that are negative, by
\* what its contract calls send to nobody, and by what it slashes: at most the
\* penalties, and nothing the other way while stakes are not negative.
SupplyStep ==
  \A n \in Node :
    (up[n] /\ Len(chain'[n]) > Len(chain[n])) =>
      LET b == Tip(chain'[n])
          change == Supply(ledger'[n]) - Supply(ledger[n])
                      - SumOf(b, "REWARD") + SumOf(b, "CALL") - Rebates(b)
      IN /\ SumOf(b, "REWARD") <= MintedFor(b)
         /\ change >= -SumOf(b, "SLASH")
         /\ StakesHold(ledger[n], b) => change <= 0
         /\ ~ Slashing(b) => change = 0
SupplyKept == [][SupplyStep]_vars

\* "INFERENCE_REWARD ... (minted)", "INFER minted per consensus round (block
\* reward)", "leader bonus": what quality.py and constants.py say is minted.
\* Beside the faucet's gifts there is never more INFER than at genesis and
\* these for each QoI block.
SupplyAsDocumented ==
  \A n \in Node : up[n] =>
    Supply(ledger[n]) <= Supply(GenesisLedger)
      + (InferenceReward + LeaderBonus) * Cardinality({i \in DOMAIN chain[n] : chain[n][i].kind = "QOI"})
      + FaucetAmount * Cardinality(given[n])

\* The blocks of the file that agree with the chain before the kill, up to the
\* first that was not written, are all there after a start, unless the first
\* one missing spends from an account the killed process gave to: replay does
\* not know of the faucet.  Every chain links up.
RestartStep ==
  \A n \in Node :
    (~ up[n] /\ up'[n]) =>
      /\ \A h \in 1..Len(chain[n]) :
           (\A k \in 1..h : (k - 1) \in DOMAIN disk[n] /\ disk[n][k - 1] = chain[n][k])
             => IF h <= Len(chain'[n]) THEN chain'[n][h] = chain[n][h]
                ELSE \E tx \in Range(chain[n][Len(chain'[n]) + 1].simple) :
                       tx.from \in given[n]
      /\ \A h \in 2..Len(chain'[n]) : chain'[n][h].prev = chain'[n][h - 1].id
RestartKeepsPrefix == [][RestartStep]_vars

\* The ledger as the chain alone makes it, without the reputations.
FromChain(n) ==
  [ledger[n] EXCEPT
     !.rep = NoDeltas,
     !.balance = [a \in Address |-> @[a] - IF a \in given[n] THEN FaucetAmount ELSE 0]]

\* Two running nodes on the same tip agree on every balance, stake, nonce and
\* node record, whichever of them sealed, ingested or replayed the blocks, but
\* for what their own faucets gave.
SameTipSameLedger ==
  \A n, m \in Node :
    (up[n] /\ up[m] /\ Tip(chain[n]) = Tip(chain[m])) =>
      /\ chain[n] = chain[m]
      /\ FromChain(n) = FromChain(m)

\* create_genesis_block numbers the transactions of each account; it does not
\* look whether an initial node can afford its stake.
ASSUME GenesisAssumption ==
  /\ GenesisTxs \in Seq(Tx) /\ GenesisAdmits \in Seq(Tx)
  /\ \A i \in DOMAIN GenesisTxs :
       WellFormed(GenesisTxs[i]) /\ GenesisTxs[i].type \in SimpleType
  /\ \A i \in DOMAIN GenesisAdmits :
       WellFormed(GenesisAdmits[i]) /\ GenesisAdmits[i].type = "ADMITTED"
  /\ InOrder(<<GenesisBlock>>, GenesisLedger)
=============================================================================
