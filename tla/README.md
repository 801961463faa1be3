# A TLA+ model of AiInferenceChain

AiInferenceChain is a blockchain node written in Python. Its nodes run image
models for clients and agree on the answer by *Quality of Inference* (QoI)
consensus; blocks of plain transactions are agreed on by a *proof of stake*
(PoS) vote. Around that stand a desktop application, a wallet, registries and a
second, partly separate way of driving the consensus. This directory holds the
specification of the parts in which nodes, tasks, threads and messages
interleave: TLA+ modules, TLC configurations and TLAPS proofs. `PROJECT.json`
ties definitions to the lines they model and lists runs, hazards and theorems.

To check an instance: `tlc -workers 2 -config node_service.cfg MCNodeService`.
To check the proofs of a module: `tlapm QoIConsensus_proofs.tla`.

## 1. The system

Each node is one process with one asyncio event loop.

```
 wallet, REST, peers ── transactions, blocks, votes, images ──┐
                                                              v
   P2PServer ──> NodeService ──> Mempool, Chain ──> ChainDB (SQLite)
    │    │            ^                ^
    │    │            │ ingest_block   │ next_inference / add / select_simple
    │    v            │                │
    │  ConsensusEngine┴────────────────┘
    │    ├─ select_quorum        (whom to ask, per request)
    │    ├─ QoIStateMachine      (one per QoI round)
    │    └─ PoSConsensusMachine  (one per PoS round)
    └── PeerDiscovery (seed file), ImageStore (files by hash)

 InferenceNode ──> QoIMessageHandler ──> QoIStateMachine
    │                ├─ TimeoutManager, ViewChanger, AsyncQoIMessageHandler (threads)
    └── EventBus ──> ConsensusLog (SQLite), ConsensusStreamManager (WebSockets)
```

| Part | State | Operations | What is hard |
|---|---|---|---|
| QoI state machine (`qoi/state_machine.py`) | phase, view, seq, votes by sender, class, outcome | start_round; handlers of five messages; check_timeout | messages late, repeated, reordered, of other rounds or views; a view change in the middle of a vote |
| Consensus engine (`consensus/engine.py`) | attached machines, request of the round, candidate, view | round loop, handlers, commits | loop and handlers share fields over awaits; machines outlive their round |
| PoS consensus (`qoi/pos_consensus.py`) | candidate, votes by node, outcome | propose_block, handle_proposed_block, handle_vote | two candidates in one machine; every node builds a block of its own |
| Elected quorum (`consensus/quorum.py`, `ood.py`) | OOD profiles of each node | select_quorum, calibration | f = (k-1) div 3 for small k; nodes that elect from different data |
| Mempool (`blockchain/mempool.py`) | queue and dictionary of requests, simple transactions by sender | add, next_inference, select_simple, remove | two stores updated differently; nonces that never come |
| Chain (`blockchain/chain.py`) | blocks; balances, stakes, nonces, reputations, node and PoM records | append | validation against the state before the block |
| Node service, database (`api/node_service.py`, `storage/db.py`) | the above under a lock; a table of blocks | submit, seal, ingest, persist, replay; faucet | failed writes, kills, ledger effects outside blocks |
| P2P (`network/`) | connections, seen hashes, fetches, peer lists, seed file | announce, forward, sync, fetch image, share peers, dial | marking as seen before use; blocks before parents; lost connections |
| Image store (`serving/image_store.py`) | files by hash | put, get, get_tensor | read in a thread while the event loop writes |
| Inference node and handler (`node/inference_node.py`, `qoi/*message_handler.py`, `timeout_manager.py`, `view_changer.py`, `message_scheduler.py`) | tracked rounds, seen messages, view-change votes, scheduled messages | see section 2 | threads without locks; awaits between looking and deleting |
| Log and streams (`qoi/consensus_log.py`, `consensus_stream.py`, `events/`) | tables of events and checkpoints; sets of clients | record, recover, prune; broadcast | two-statement prune; iteration over a set that changes |
| Proof of model (`node/pom.py`) | lists of verdicts by tally | verify, tally | verdicts in different orders |
| Registries (`registry/`) | validators; models, validations | register, confirm, slash, deactivate, reactivate, export; validate, approve | long sequences of legal calls; two transactions for one decision |
| Wallet (`wallet.py`), training sidecar (`desktop/sidecar/`) | a nonce read from a node; one run's flags | submit; start, stream, stop | several writers of one account; two streams of one state |

What makes the parts correct: nodes that finish a QoI round finish it with one
class, certified by 2f+1 votes of that round; members of one elected quorum
cannot certify two; a request of a client is neither lost nor multiplied nor
starved on its way through a node; one outcome seals one block; a block carries
what the voters voted for; a chain applies a transaction once, and what it pays
out it mints or takes from somewhere; the ledger is a function of the chain, also
after a restart; announcements come to rest and heights that were announced are
reached; timers, log, registries and stores keep their promises in every order
of calls.

## 2. Modules

| Module | Models | Proofs |
|---|---|---|
| `RoundAgreement` | what QoI consensus promises: a class is chosen once in a round, outcomes carry it | |
| `QoIConsensus` | one QoI machine per node, over rounds and views, and the network; refines `RoundAgreement` | `QoIConsensus_proofs` |
| `EngineRequests` | one node: round loop, handlers, mempool, commits, as a request sees them | `EngineRequests_proofs` |
| `PoSRounds` | PoS machine, engine and chain of several nodes | `PoSRounds_proofs` |
| `Ledger` | validation, application and selection of transactions (no state of its own) | `NodeService_proofs` |
| `NodeService` | services of several nodes: chain, ledger, pool, file, kills; extends `Ledger` | `NodeService_proofs` |
| `BlockGossip` | connections, announcements, sync of blocks | `BlockGossip_proofs` |
| `QuorumElection` | election by each node with its own profiles, votes of members and outsiders, what the commit leaves of them | `Voting_proofs` |
| `ViewVotes` | ViewChanger | `Voting_proofs` |
| `ProofOfModel` | verdicts and tallies | `Voting_proofs` |
| `ValidatorStakes` | the life of a validator | `Voting_proofs` |
| `RoundTimeouts`, `DelayedDelivery` | TimeoutManager, MessageScheduler | `Services_proofs` |
| `CommitThreads` | the handler on a thread pool | `Services_proofs` |
| `EventLog`, `StreamClients` | ConsensusLog behind the bus, ConsensusStreamManager | `Services_proofs` |
| `ModelStore`, `ImageFetch` | ModelRegistry and validator; inference input and ImageStore | `Services_proofs` |
| `ClientSubmissions`, `TrainingRuns` | who numbers an account's transactions, and which of them blocks take; the training wizard | `Services_proofs` |
| `PeerDirectory` | peer lists, seed file and dialling | `Services_proofs` |
| `Sieve` | what is left of a sequence, as a recursive function | `Induction` |
| `Induction` | induction along the natural numbers and sums over finite sets, for the proofs | itself |
| `MC*` | instances for TLC; `MCTasks` and `MCComponents` hold parts together that share no state | |

### QoIConsensus

Variables are the fields of `QoIStateMachine`, as functions of the node; the
dictionaries by sender (`_prepares`, `_commits`, `_view_changes`) are sets of
messages with at most one of each sender, which `Store` keeps so. Each handler
is an action with the handler's early returns as guards. `net` is the set of all
messages ever sent. Delivering a message leaves it in `net`: it may arrive again,
late, out of order, at its own sender, or never. That is what the code's network
does: `P2PServer._on_consensus` hands every consensus message to a task of its
own and forwards it without looking whether it has been seen, so in a ring of
peers messages go round.

A handler's step is atomic because the machine is synchronous. A start of a
round is one step because both drivers build and start the machine without an
await in between; until then messages meet a machine in IDLE and are dropped.
The model's answer is chosen at the start of the round; time is left out, a
round may time out whenever it is started and not committed. Tie-breaks by node
id go through `Rank`. What a handler does not drop is a guard of its own
(`TakesPrePrepare`, `TakesPrepare`, `TakesCommit`), so that `Quiet` can say that
nothing of the kind is left.

### EngineRequests

One node. `stage` says where `run()` is suspended: between rounds, while
`_run_inference` runs, or in `_wait_for_qoi_commit`; `held` is the local
variable with the request, `pendingTx` and `machine` are `_pending_inference_tx`
and the request of `_qoi_sm`. Actions of the loop are its sections between two
awaits that suspend. `TakeRequest` is the case that the node is elected for the
head of its queue; a node that is not sleeps and looks at the same head again, which
changes nothing, and nothing is assumed of how often it is elected. An exception that
leaves `run()` unwinds `_run_qoi_round`, so its request is gone with `held`. Everything
else may happen in between: a message that
finishes the attached machine (`Receive`), a transaction (`Submit`), a block of
a peer (`IngestBlock`).

Why commits are one step although they contain awaits: the lock of `NodeService`
is never held over a suspension, so it is always free and `async with` does not
suspend; sending goes through `create_task`. No task switch is possible from the
start of `_commit_qoi_block` to its end. The same argument makes every operation
of `NodeService` and every handler of `BlockGossip` one step. (`InferenceNode`'s
handler runs in a pool of threads instead, and `CommitThreads` takes it apart.)

With f >= 1 the handler always finds the outcome first and clears the machine,
so the polling loop never reports success: it waits out its time, raises the
view and queues the request again although it was committed. For the same reason
the line that resets the view after a success is not reached.

### PoSRounds

Several nodes, each with an attached machine (`proposerId`, `proposed`,
`votes`), the engine's `_pending_pos_block`, a mempool and a chain. A hash covers
the time stamp and the proposer, so a candidate and a block are named by their
author and round. Transactions are each the next one of an account of their own:
such a transaction is valid until it is on the chain, which is what the nonce
check says. A node that reaches 2f+1 votes builds a block on its own tip and
tests it against its own chain like any other. `select_proposer` is a choice of
any proposer by each node, because the inputs (tip, view, reputations) differ.
With f > 0 the handler commits before the polling loop looks, so a round ends by
the handler or by the start of the next; f = 0 (a single node) is left out.

### Ledger and NodeService

`Ledger` translates `_validate_tx` (nonces continue within the block; means are
looked at in the state before it, and only for some types), `_apply_tx` for all
fourteen types that have an effect on balances, stakes, nonces, reputations or
records, and `select_simple`. Amounts and fees are integers of either sign, as no
schema, mempool or check of the chain refuses one below zero; only clients' types are
those that the wallet, the frontend and the nodes' tools build (`SimpleType`): a REWARD
from a client's own hand is left out. Stakes of the genesis block need not be covered
by its allocations. `NodeService` runs it on
several nodes: clients submit, nodes seal PoS blocks or the block of a QoI round
(with the rewards and slashes of `build_system_txs`, and the reputation deltas
the engine applies afterwards), any block ever sealed may reach any node at any
time, the faucet credits an account in memory, a write may fail (`Persist`), a
process is killed and replays its file (`Replay`: `NextRow` for each row in order
of height, up to the first block that does not fit). A kill inside an operation needs no step of its
own: only the last block can be missing from the file, as after a failed write.

### BlockGossip

Connections with messages in order in each direction, dialled once; HANDSHAKE,
BLOCK, GET_BLOCKS and BLOCKS with the code's bookkeeping (`peerHeight` is
`PeerConnection.chain_height`, `seen` is `_seen_set`). One node seals, so a
block is its height and a node accepts the successor of its tip. A connection
that breaks is not dialled again (`_run_peer` swallows the exception, and
`_connect_outbound` returns); a process that is killed dials anew.

### The components in MCTasks and MCComponents

They share no state, so that one run follows each from its own initial states,
picked at the start. `MCTasks` has those that promise to get on (`EngineRequests`,
`BlockGossip` and the next two), `MCComponents` the others (and `PoSRounds`).

`RoundTimeouts`: rounds are registered whether or not anybody starts the background
check; the check may be started and stopped at any time; the snapshot scan of
`check_timeouts`, with a plain callback (one step) or a coroutine (everything else may
happen while it is awaited). `ClientSubmissions`: wallets that read a nonce and post, a
builder that counts itself, a pool with a limit, blocks of the highest fees up to a
limit, and no block while a selected transaction is not covered.

`ViewVotes`: votes counted by sender whatever view they name.
`DelayedDelivery`: the pass over the schedule, handlers that wait or raise, stop
in the middle. `CommitThreads`: one access to shared state per step, for the PREPAREs
and COMMITs of one round in a pool of threads: the check of the phase, the store, the
count, the phase set to COMMIT and the own COMMIT are steps of their own, a count may
break off on a dictionary that grows, and the duplicate filter remembers all the same.
`EventLog`: subscriptions by node, the filter,
checkpoints, a prune in two statements, one or two threads, restart.
`StreamClients`: iteration over the live set with Python's size check.
`ValidatorStakes`: all calls of the registry that change status or stake, export
and import with or without a restart. `ModelStore`: result and approval in two
transactions. `ProofOfModel`: first verdict of each verifier, tallies in any
order. `QuorumElection`: size, shortlist by score, fall-back to all DNN nodes; every
node of the network may vote for the round, as the machine counts any sender, and the
commit strips those outside its own quorum. `TrainingRuns`: the module's one dictionary
under two streams, each of which may stay suspended at any event, the last one too,
before its `finally` clears the flag. `ImageFetch`: store, fetch and model input, with
the reader in a thread, files half written, deleted or left so by an earlier process.
`PeerDirectory`: flags, configuration, shared lists, REST routes, and a seed file whose
writes and reads may fail.

## 3. Runs

| Run | Instance | Shows |
|---|---|---|
| `qoi_mesh` | 4 nodes, f = 1, 2 classes, 1 round, no time-outs | `Agreement`; `QuietMeansDecided`; refinement `ImplementsRoundAgreement` |
| `qoi_views` | 3 nodes; two rounds each, or one round with time-outs and a view change (`MaxSum` bounds rounds plus views) | `CommitCertified`, `DecisionCertified`, `NewViewCertified` |
| `qoi_one_crash` | 4 nodes, one replica may stop; fair | refutes `SomeoneDecides` |
| `qoi_requests` | 3 nodes, 2 requests | refutes `PreparesMatchTheRequest` |
| `qoi_new_view` | 3 nodes, 1 view change; fair | refutes `NewViewResumes` |
| `tasks` | `EngineRequests`: 2 requests, each submitted up to twice; `RoundTimeouts`: 3 starts of 2 rounds; `ClientSubmissions`: 4 transactions of 2 accounts, a pool of 3, blocks of 1; `BlockGossip`: 3 nodes, 2 blocks, batches of one, in a triangle, or in a line with one failure; fair | `PendingIsQueued`, `NoRequestLost`, `NoMultiplication`, `NoSecondSeal`, `QueueServed`; `TimeoutsExact`, `CheckedRoundFires`; `AcceptedSettles`; `NobodyAhead`, `GossipRests`, `ReachesOrDeaf` |
| `engine_dies` | the 2 requests | refutes `RunsForever` |
| `stalled_round` | 2 starts of 2 rounds; fair once the check is started | refutes `StalledRoundFires` |
| `pos_proof` | 3 nodes, f = 1, 1 transaction, the proposer starts 2 rounds, the others 1 | refutes `ProofOfThisBlock` |
| `node_service` | 2 services, 2 blocks, 1 QoI round, 1 kill, 1 failed write, eleven scripts of transactions | `LedgerTypeOK`, `NoOverdraft`, `NoncesInOrder`, `PoolIsAhead`, `SameTipSameLedger`, `SupplyKept`, `RestartKeepsPrefix` |
| `fees_minted` | the same with one script: two transactions with a fee, and a gift | refutes `SupplyAsDocumented` |
| `components` | PoS as in `pos_proof`, and twelve components, see below | `SealedAsVoted`, `ProofsAreVotes`, `SharedPast`; one property of each other component |

Bounds. With four nodes and f = 1 two quorums meet in two nodes and one node can
be missing; with three nodes all must take part, which is enough for questions
about stale votes, where two rounds or two views are what is needed. Two requests
with two submissions give a queue with duplicates and with a request in front of
another. Two candidates of one proposer are the smallest case in which a machine
is given a second one; three sealed blocks on one height arise from them, and
chains of two blocks. In `node_service` two blocks give a fork, a gap in the file
and a block whose first half changes what its second half may spend; the scripts
cover each transaction type, two spends that only one balance covers, a fee with
an unstaking, a slash below the minimum stake, a stake at genesis that its
allocation does not cover, amounts and fees below zero, a registration with verdicts
for and against, and an account that spends what a faucet gave it. In `tasks`
batches of one make a sync of two rounds, the triangle has the cycle, the line
the relay; three starts of two rounds are a second start of one id while a scan
waits; the four transactions meet a full pool and a full block, and one account
can pay for two only. In `components`: four replicas (2f+1 = 3) and two views, pools
of one and two threads with three senders of PREPAREs and COMMITs and a COMMIT that
comes twice, four records for a log that keeps one round, three clients, a pledge
above, at and below the minimum, two models that may claim one name, four verifiers
and two tallies, quorums of 4 of 5 nodes, of one node, of 6 of 7, and a fall-back of 4,
two streams of three epochs, two peers with an image, three nodes of which one starts
twice and one write or read that fails. No theorem below has these bounds.

The type invariant of `NodeService` (`LedgerTypeOK`) is checked and proved; for
`QoIConsensus`, `EngineRequests` and `PoSRounds` type correctness is a theorem
(`TypeCorrect`); elsewhere it is part of the inductive invariant.

Symmetry. In `qoi_mesh` the replicas (all nodes but the only primary) are
interchangeable: ids are compared only in a view change, which `MaxView = 0`
excludes. In `qoi_views` the classes are interchangeable: a class is never
compared but for equality. In `pos_proof` and `components` the PoS nodes that do not
propose are. The runs with liveness use no symmetry.

`CHECK_DEADLOCK FALSE` is said where the system stops once the bounds are used
up: QoI, PoS, services, tasks and components. `QuietMeansDecided`
and `GossipRests` say what must be true when it has.

Fairness. `QoIConsensus!FairSpec`: weak fairness of all steps of a node that stays
up. Justified where every node's peers form a ring, in which messages come back
again and again. In a tree of peers, or under `InferenceNode`, whose handler
remembers messages the machine has dropped, a COMMIT that comes too early is lost
and nothing of this kind can be promised. `EngineRequests`: the event loop resumes
the round loop from its sleeps, fetches and waits, which are bounded in time (`Resume`).
Nothing is assumed of messages, or of the node's being elected: `QueueServed` says what
follows for a node that is elected for the head of its queue again and again, and is
silent about others. `BlockGossip!BgFairness`: the reader task of each connection goes
on reading; nothing is assumed of seals, dials or failures. `RoundTimeouts!TmFairness`:
time passes, an awaited callback returns, and the background check scans while somebody
has started it; that anybody starts it is not assumed (`CheckedRoundFires` is about
executions in which it stays started, `StalledRoundFires` about all). Safety
needs none of it.

Each property of a passing run has a mutant in `PROJECT.json`: a plausible mistake
in a mapped definition (marked `MUTANT` or `Mutant` in the module) with which TLC
finds the property violated in the same instance.

## 4. Where code and words differ

Each is a run that TLC must find violated.

- `SomeoneDecides`. A node that is the last of its quorum to vote stores its own
  PREPARE and does not look whether that completes the quorum
  (`state_machine.py:326`); only a later PREPARE makes it send COMMIT. With four
  nodes and one stopped, the three others can end with all the votes and too few
  COMMITs. `WHITEPAPER.md` says that 3f+1 validators tolerate f faulty ones. The
  round does end by time-out, but see the next item.
- `NewViewResumes`. After NEW_VIEW every machine waits in PRE_PREPARE for a
  proposal no code sends. `messages.py:222` says that NEW_VIEW "resumes protocol".
- `PreparesMatchTheRequest`. Handlers compare view and seq, never `request_id`, so
  nodes that took different requests from their mempools count each other's votes.
- `RunsForever`. A round that timed out leaves its machine attached; a COMMIT that
  arrives while the next round's model runs seals that round's request, and the
  exception that follows later is raised inside `run()`, which ends.
- `ProofOfThisBlock`. A second candidate replaces the first in the PoS machine, the
  votes stay, and all stored votes count: fewer than 2f+1 nodes may have voted for
  the block that is sealed.
- `StalledRoundFires`. `start_round` registers a round with the TimeoutManager, and
  nothing in the product starts the check that would find it stalled.
  `message_handler.py:329` says that "view changes fire automatically".
- `SupplyAsDocumented`. Applying a transaction of a QoI block pays its fee to the
  proposer, and `compute_round_rewards` adds the same fees to what REWARD mints.
  `quality.py:10` says that the reward is what is minted.

Seen while modelling, without a run of its own; the passing properties name each
as the exception it is, where one covers it.

- Consensus. Every node that sees 2f+1 PoS votes seals a block of its own, so nodes
  fork (`SharedPast` says what still holds). Two nodes may announce
  themselves as primary of one view; a VIEW_CHANGE of another round is counted;
  `_round_seq` starts again at 0 after a restart; a QoI round of a single node
  never commits; `handle_proposed_block` does not look whose candidate it is.
- Requests. A request committed by a peer's block stays in the queue of a node that
  has it. A node that is not elected for the head of its queue, or is a PoS node,
  looks at that head for ever and at nothing behind it (`QueueServed` does not speak of
  it). A loop that dies loses the request of its last round (`NoRequestLost`).
- Elections. No NodeService of the repository has the `image_store` attribute that
  `_load_image_tensor_safe` looks for, so elections never use scores; and each
  node calibrates only its own profile. For k = 2 and 3, and for k = 6 divided in
  halves, two classes can have 2f+1 votes; the votes of nodes that elected another
  quorum count until the commit strips them, so a machine may certify a class that its
  members did not (`NoSplit`). With 4f+2 verifiers one tally of proof of model can admit
  a node that another rejects.
- Ledger. Registrations, MODEL_RESPONSE and the value of a contract call are not
  checked against the balance, negative amounts and fees move money the other way
  (`Unchecked`), and a genesis block may stake more than it allocates. What the
  faucet gives is in no block. Replay stops at the first block that does not fit,
  while `db.py:10` says that all blocks are replayed. Reputation deltas of a QoI
  round are applied by the committing node alone.
- Mempool. A block takes the fifty transactions with the highest fees, so others may be
  outbid for ever (`Outbid`), and one selected transaction that its sender cannot pay
  for makes every block of the node invalid until it goes.
- Network. A block that came before its parent is never considered again
  (`Deaf`); a broken connection is not dialled again. An address entered through the
  REST route, or found in a list when the service knew it already, is not put into the
  directory; a seed file that fails to be written or read is only logged
  (`LearnedIsDialled`).
- Images. A reader that meets half an upload deletes the file, and the round votes
  uniformly if no peer answers in time (`FoundImageIsUsed`).
- Around. A coroutine as time-out callback may delete a later start of the same
  round id. A pool of several threads may set a committed machine back to COMMIT, and
  then publish QOI_COMMITTED several times or not at all (`CommitPublished`). A
  checkpoint recorded in the middle of a prune may go with it. A
  model may keep a passed validation without approval if the process dies in
  between. `reactivate_validator` looks at no stake. A second training stream
  clears the cancel flag and the metrics of the first, and a generator closed late
  clears the active flag of the next; a cancelled run says "done" too (`DoneIsSaved`).
- Forms and shell. `InferencePage.jsx:141`, `JoinPage.jsx:533` and
  `RegisterModelForm.jsx:329` post upper-case transaction types that the route
  refuses; the sidecar posts to `/api/node/register`, a route no node serves.

## 5. Theorems

All hold for every value of the constants that satisfies the assumptions of the
modules: nodes and addresses are finitely many, bounds are natural numbers, a
batch is not empty. Two say more. `ServiceAssumption` (`NodeService`): what clients
submit and proof of model hands over is well formed (a transfer names a recipient
there is), and nobody holds the key of the genesis address. `GenesisAssumption`:
the genesis block is well formed and numbers the transactions of each account, as
what `create_genesis_block` makes does. It may leave accounts in debt. TLC evaluates
both in the instance.

Induction over data. The library's induction theorems take a predicate as a
parameter, which the provers cannot instantiate. `Induction` says the same with
sets: a set that contains 0 and with each number below n the next one contains
0..n (`UpTo`, from the well-foundedness of < and `WFMin`). From it follows that a
recursive function over 0..N has a solution (`RecursionUpTo`), which the provers
otherwise know nothing of. Wherever the model recurs over the transactions of a
block, the fees of a block, the rows of a file, a batch of blocks or what is left
of a mempool, the proof first shows that its definition is such a run and then
goes along it. The same is done for sums: a finite set is exhausted one element at a
time (`UpToSet`), the community modules' `SumFunction` is shown to be such a run
(`SumIsRun`), and from this follow that a sum is a number, that sums add up, and
what moving an amount to one argument does to it (`SumMove`).

**QoI** (`QoIConsensus_proofs`). `TypeCorrect`, `CommitsAreCertified`,
`NewViewsAreCertified` hold for every number of nodes and every f. The inductive
invariant joins `TypeInv` (types; a started machine has an answer), `Votes` (a
sender's PREPAREs of a round are all for one class; what a node stores was sent
in its own round) and `Certified` (a class a node settled on has 2f+1 PREPAREs of
the round). `Agreement` is not inductive alone: it says nothing of votes on the
way. `AgreementHolds`, `DecisionsAreCertified` and `Refinement` assume
`Cardinality(Node) < 2 * Threshold`, i.e. fewer than 4f+2 nodes, so that two
quorums of 2f+1 meet: two certified classes then share a voter. View changes keep
old votes, and the proof shows why this is harmless for safety: a node votes once
in a round, so votes of both views are for one class.

`QuietRoundsAreDecided` says when a round comes to its end: if all nodes run it
under one primary, 2f+1 models agree, nobody has timed out and no message is left
that a node would act on, somebody has finished it. It assumes 2f+2 to 4f+1 nodes.
Both ends matter: of 2f+1 nodes the last voter never sends its COMMIT (see
`SomeoneDecides` above), and from 4f+2 on, or for f = 0, two classes can be
certified. The invariant (`Calm`, while nobody has asked for a later view) says
that a primary has proposed (`Proposed`), that a node votes when it leaves
PRE_PREPARE and not before (`VotedOnce`), that it counts COMMITs from its own on up
to the 2f+1st (`CommitsCounted`), and that of two nodes that have voted and hold
2f+1 votes for a class without having looked, one does not hold the vote of the
other (`OneLastVoter`). In a quiet state everybody holds all votes, so at most one
node is such a voter; the 2f+1 others have sent COMMITs for the one certified
class, and one that had counted them all would have finished.

**Requests** (`EngineRequests_proofs`). `NothingLost`, `NothingMultiplied`,
`SealedByOneParty`, `DuplicatesAreQueued`, `TypeCorrect`. `NoRequestLost` says that
nothing is lost while the engine runs, and one request at most by its death. It needs
two companions: if a poll could seal, the loop would let go of a request sealed by
nobody, hence `NoSecondSeal`; and a time-out whose request is refused as a
duplicate must find it in the queue, hence `PendingIsQueued`. `NothingMultiplied`
counts positions of the queue, by injections between finite sets.

**PoS** (`PoSRounds_proofs`). `SealsWhatItVotedFor`, `ProofsHold`, `ForksNeverMeet`,
`TypeCorrect`. The invariant adds that machine and engine hold
one candidate (`SameCandidate`), that a machine has one vote of a node
(`VotesApart`), that a node seals once in a round (`OneSealPerRound`) and that a
block on a chain names the one below (`Linked`). The argument for `SharedPast`: a
block appended on one chain that is already on another is the same block, so its
parent is, and the chains agree up to there.

**Node service and ledger** (`NodeService_proofs`). `LedgerIsTyped`,
`NobodyOverdraws`, `NoncesCount`, `MempoolIsAhead`, `TipsDecideLedgers` and the
action property `RestartsKeepPrefix`, for every network, any scripts of the clients,
any outcomes of QoI rounds, any number of kills and failed writes. The invariant
`ServiceInv` says of all blocks ever sealed that they are numbered apart and have
one transaction for each sender (`Sealed`), and of each node that its chain links
up from the genesis block (`Linked`), that its file holds sealed blocks (`RowsOK`),
that its mempool is ahead (`PoolOK`), and that its ledger keeps the books of its
chain (`Books`): there is a history, the ledgers that the blocks make one after the
other from nothing, which ends in this ledger but for reputations and gifts of the
faucet, and in which every block was valid where it stands or spends a gift
(`Fits`). The run's invariants alone are not inductive: after a kill the ledger is
what the file makes, which is related to nothing but the chain. The argument runs
in four layers: what each of the fourteen types of transaction changes
(`EffectFields`), what a block changes, by induction over its transactions
(`BlockKeepsBooks`), what a chain that takes a valid block keeps (`BooksGrow`), and
one lemma for each action. `NobodyOverdraws` rests on `SelectionsAreSound`: a
mempool offers one transaction for each sender, so the balance before the block is
the balance it spends from. `TipsDecideLedgers`: equal tips have equal parents
(`SameTipSameChain`), and a chain has one history (`OneHistory`).
`RestartsKeepPrefix` follows the rows (`Following`): a replay that stops where the
old chain went on stops at a block the old ledger could pay for with a gift only.
`SupplyIsKept` is about a sum over all accounts. A transaction of any type changes at
most the balances of a sender, a proposer and a recipient and one stake, which are
four moves of a sum (`TxSupply`), and what a block does to the sum is an induction
over its transactions (`BlockSupply`): fees go from one account to another, unless
they are negative, when only the sender gets them; rewards come from nowhere, the value
of a contract call goes nowhere, and a slash burns at most its amount, and no less than
nothing where stakes are not negative. What the rewards of a block may be is part of
the statement: the pool of its round, in which the fees are a second time (which is why
`SupplyAsDocumented` fails), and nothing in a PoS block; that the shares of the pool
are no more than the pool is proved of `RoundTxs` (`RoundMints`).
TLC cannot evaluate `ServiceInv`, which says that there is a history; the run
checks what follows from it, and the proof is of `ServiceInv` itself.

**Gossip** (`BlockGossip_proofs`). `NobodyIsAhead`, for any network and any losses:
no node believes a peer to be higher than it is or has been told of a block nobody
sealed. The invariant types the wires by the heights of their ends (`Sound`), which
later heights only make truer; what a batch appends is an induction over its
heights (`SyncedIsBetween`).

**Voting** (`Voting_proofs`). `QuorumsAreOfOneMind`, for every network,
every state of the profiles and every sampling of at most k places. The inductive
part is that an elected quorum has at most k nodes and the f of k, through the
shortlist and its fall-back (`CandidatesListed`, `SampleSize`); the rest is about
numbers: unless k is 2, 3 or 6, k <= 4f+1 < 2 (2f+1), so two sets of 2f+1 voters among
the members share one, who voted once, and two certified classes take an outsider's
vote; with k = 6 every member has voted, three against three. What is sealed has
2f+1 members' signatures of the network's f, so both classes are only where the
quorum has 4f+2 members. `NewViewsAreCertified`, for any replicas and
views: behind every NEW_VIEW are 2f+1 replicas that asked for a new view, one of them
for this one, and of 3f+1 replicas two announcements share more than f. For 3f+2 or
3f+3 replicas, where f is the same, 2f+1 are no such quorum; what is proved for
those is the certificate alone. `VerdictsNeverConflict`, for every f and any number of
tallies: a tally's lists are disjoint and hold only what their verifiers said;
without second downloads a verifier says one thing to all, so an admission and a
rejection would need 2f+1 verifiers each. `StakesHold`, for every minimum, all
stakes and amounts: `ActiveIsStaked` alone is not inductive, as an import brings
back what was exported, so the invariant says the same of the export, and that a
pending validator has the minimum.

**Services** (`Services_proofs`), each with an invariant of its own.

- `CommitsArePublished`, for any senders, threshold, copies and pool sizes. The phase
  is set back only by threads that passed the check for PREPARE before the first of them
  entered COMMIT, so by fewer than there are (`ThLate`). A thread that has published
  reads COMMITTED as its next old phase until the phase is set back, which bounds the
  publications (`ThToldOnce`, `ThPublications`). And unless it is set back, the thread
  that finalises has read another old phase (`ThOldIsOld`) and publishes
  (`ThSomeoneTells`).
- `TimersAreExact`. What a scan holds of a round is no later than what the round is
  tracked for, so a scan that deletes a later start is one whose coroutine waited
  (`TmScanIsOld`, `TmAwaited`).
- `MessagesAreDeliveredOnce`, with the place of the message whose handler is awaited:
  scheduled, and no longer in the pass.
- `LatestCheckpointIsRecovered`. The latest checkpoint has no later ones, so it is in
  no round that a prune chooses with `LgKeep` later ones, unless it was recorded
  while the prune was under way (`LgKept`).
- `BroadcastsReach`: while nobody comes or goes the set keeps its size.
- `ApprovalFollowsAPass`: who waits for approval has a result that passed (`MsOwed`).
- `FinishedRunsAreSaved`: a generator past its last epoch has written its checkpoint
  (`TnProgress`); flag and metrics are those of the one generator that is open alone
  (`TnAlone`), and otherwise of generators that were open at once, one of which may have
  sent its last event already (`TnMixed`, `TnHeard`).
- `AcceptedIsSettled` (an action property): what was accepted and is not settled
  waits in the pool with a next or later nonce of its account (`ClWaits`), so the block
  has it or another one of its number, or is full of others.
- `FoundImagesAreUsed`: a half file that nobody writes any more is there between rounds
  and at the first read of a round only, which deletes it (`ImHalf`), so what the loop
  finds while it is free is whole, nobody reads while the engine waits for peers, and a
  found image stays until it is used (`ImKept`).
- `WhatIsLearnedIsDialled`: `LearnedIsDialled` says nothing of a process that is down,
  so the invariant adds what is in the seed file or will be when a pending address is
  saved (`PdOnFile`, `PdCovered`).

Only model-checked, and why. `QueueServed`, `GossipRests`, `ReachesOrDeaf`,
`CheckedRoundFires` are liveness under fairness, which the provers do not reach. All
safety properties of the passing runs are theorems.

## 6. What is not modelled

- Nodes follow the code: no node lies, and clients send what the repository's clients
  build: a client that posts a transaction of a system type, which neither mempool nor
  chain refuses, is left out. In `QoIConsensus` the members of one quorum vote; votes of
  nodes outside it are in `QuorumElection`. Keys and signatures are identities; hashes
  are names.
- The consensus halves are not composed in one run. They meet in the chain: the
  blocks both seal are those of `NodeService`, whose `Ingest` accepts any block
  whenever it comes, a superset of what `BlockGossip` and the rounds deliver. The
  reset of `_round_seq` by a restart, and the mempools of `PoSRounds` after the
  start, are left out.
- Numbers without control of their own: quality scores, OOD statistics, model
  accuracy, reliability averages (which no code calls). They are choices here. The
  weighted draw of a proposer is a choice by each node.
- Programs without protocol state: the dashboards and the Electron shell, the
  REST layer beyond the routes named above, document generators, command-line
  scripts, the LLM provider, and the virtual machine, which the chain does not
  call.
- Calls only tests make: `TimeoutManager.update_view`, `Mempool.clear_sender`,
  `PeerDiscovery.mark_failure` and `mark_success`, `EventBus.unsubscribe`.
- Pings, transactions in gossip (the same flooding without the problem of the
  parent), the limit of the seen set.

What a next step would add: one module of engine and gossip with the restart of
`_round_seq`.
