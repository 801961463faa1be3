--------------------------- MODULE EngineRequests ---------------------------
(***************************************************************************)
(* The way of an inference request through one node: from the mempool into *)
(* a QoI round of the ConsensusEngine, into a block, or back into the      *)
(* queue.                                                                  *)
(*                                                                         *)
(* Three parties share the engine's fields on one event loop: the round    *)
(* loop (run), the handlers of consensus messages, and the tasks that      *)
(* bring in transactions and blocks of peers.  They are interleaved where  *)
(* the code suspends: while the image is fetched and the model runs,       *)
(* between two polls for an outcome, and between rounds.  No task holds an *)
(* asyncio lock while it is suspended, so taking one never suspends, and   *)
(* sending hands the message to a task of its own: handlers and commits    *)
(* run to their end.                                                       *)
(*                                                                         *)
(* Abstractions:                                                           *)
(*  - QoIConsensus models what the QoI machine does with its messages;     *)
(*    here one of them finishes it at some moment, or none does.           *)
(*  - Between two QoI rounds the loop may run a PoS round, stand by or     *)
(*    sleep; the fields of a QoI round are left alone meanwhile.  Whether  *)
(*    the node is in the quorum of the head of its queue depends on the    *)
(*    head and on the tip: it may be, now or later, or never.              *)
(*  - A block may be refused for its signatures or its simple              *)
(*    transactions: both answers are possible.                             *)
(*  - Peers' blocks on the tip of this node carry any request.             *)
(***************************************************************************)
EXTENDS Naturals, Sequences, FiniteSets

CONSTANTS
  Request,     \* inference request transactions
  MaxSubmits,  \* bound: times a client or a peer submits one request
  None         \* the absence of a request

ASSUME RequestAssumption == None \notin Request /\ MaxSubmits \in Nat

VARIABLES
  submits,    \* how often each request has been submitted
  queue,      \* Mempool._inference_queue
  pending,    \* the inference requests in Mempool._pending
  stage,      \* where the round loop is suspended
  held,       \* the loop's local variable inference_tx
  pendingTx,  \* _pending_inference_tx
  machine,    \* the request that the attached _qoi_sm runs
  outcome,    \* whether that machine has an outcome
  chain       \* the requests in blocks of this node's chain

vars == <<submits, queue, pending, stage, held, pendingTx, machine, outcome,
          chain>>

mempool == <<queue, pending>>

Stage == {"idle", "inferring", "waiting", "dead"}

Queued(r) == \E i \in DOMAIN queue : queue[i] = r

Init ==
  /\ submits = [r \in Request |-> 0]
  /\ queue = <<>>
  /\ pending = {}
  /\ stage = "idle"
  /\ held = None
  /\ pendingTx = None
  /\ machine = None
  /\ outcome = FALSE
  /\ chain = {}

-----------------------------------------------------------------------------
(* Mempool *)

\* MUTANT of Added: the request goes to the front of the queue.
AddedInFront(r) == IF r \in pending THEN queue ELSE <<r>> \o queue

\* The queue after add(r): a request that is still pending is a duplicate.
\* The size limit of the mempool is not applied to requests.
Added(r) == IF r \in pending THEN queue ELSE Append(queue, r)

Add(r) == queue' = Added(r) /\ pending' = pending \cup {r}

\* MUTANT of Popped: the head is looked at and stays.
PoppedNot == queue

\* The queue after next_inference().
Popped == Tail(queue)

\* MUTANT of PendingAfterPop: the dictionary is forgotten.
PendingAfterPopStale == pending

PendingAfterPop == pending \ {Head(queue)}

\* remove() of a request in a block: the queue keeps it.
Remove(r) == pending' = pending \ {r} /\ UNCHANGED queue

-----------------------------------------------------------------------------
(* _commit_qoi_block *)

\* MUTANT of Detach: the fields of the round are not cleared.
DetachNot == outcome' = TRUE /\ UNCHANGED <<machine, pendingTx>>

Detach == machine' = None /\ outcome' = FALSE /\ pendingTx' = None

\* A block is built for pendingTx, whichever request the machine ran, and
\* the round's fields are cleared whether the chain takes the block or not.
Seal ==
  /\ pendingTx # None
  /\ \/ chain' = chain \cup {pendingTx} /\ Remove(pendingTx)
     \/ UNCHANGED <<chain, mempool>>
  /\ Detach

-----------------------------------------------------------------------------
(* The round loop *)

\* The node is elected for the oldest request and takes it: from the peek to
\* the pop it does not suspend.  (Elected it may be or not: a node that is not
\* looks at the same head again later.)  A machine of an earlier round stays
\* attached.
TakeRequest ==
  /\ stage = "idle"
  /\ queue # <<>>
  /\ stage' = "inferring"
  /\ held' = Head(queue)
  /\ pendingTx' = Head(queue)
  /\ queue' = Popped
  /\ pending' = PendingAfterPop
  /\ UNCHANGED <<submits, machine, outcome, chain>>

\* The model has answered: a new machine replaces whatever is attached.
StartMachine ==
  /\ stage = "inferring"
  /\ stage' = "waiting"
  /\ machine' = held
  /\ outcome' = FALSE
  /\ UNCHANGED <<submits, mempool, held, pendingTx, chain>>

\* A poll of _wait_for_qoi_commit finds an outcome and commits it.  With no
\* request to put into the block the exception ends run(), and the local
\* variable goes with it: the request is not put back.
Poll ==
  /\ stage = "waiting"
  /\ machine # None /\ outcome
  /\ IF pendingTx = None
     THEN /\ stage' = "dead"
          /\ UNCHANGED <<mempool, pendingTx, machine, outcome, chain>>
     ELSE Seal /\ stage' = "idle"
  /\ held' = None
  /\ UNCHANGED submits

\* MUTANT of Requeued: the engine's field in place of the loop's variable.
RequeuedField == pendingTx

Requeued == held

\* The deadline passes: the request goes back into the queue.  The machine
\* and pendingTx stay as they are.
TimeOut ==
  /\ stage = "waiting"
  /\ Add(Requeued)
  /\ stage' = "idle"
  /\ held' = None
  /\ UNCHANGED <<submits, pendingTx, machine, outcome, chain>>

-----------------------------------------------------------------------------
(* Other tasks *)

\* A message of the protocol finishes the attached machine, or reaches it
\* when it is finished; either way the handler commits.  With no request to
\* put into the block it fails, and the exception is logged.
Receive ==
  /\ machine # None
  /\ \/ Seal
     \/ /\ pendingTx = None
        /\ outcome' = TRUE
        /\ UNCHANGED <<mempool, pendingTx, machine, chain>>
  /\ UNCHANGED <<submits, stage, held>>

Submit(r) ==
  /\ submits[r] < MaxSubmits
  /\ submits' = [submits EXCEPT ![r] = @ + 1]
  /\ Add(r)
  /\ UNCHANGED <<stage, held, pendingTx, machine, outcome, chain>>

\* A block of a peer fits on the chain.
IngestBlock(r) ==
  /\ chain' = chain \cup {r}
  /\ Remove(r)
  /\ UNCHANGED <<submits, stage, held, pendingTx, machine, outcome>>

\* What the loop does once it has taken a request.
Resume == StartMachine \/ Poll \/ TimeOut

Next ==
  \/ TakeRequest \/ Resume
  \/ Receive
  \/ \E r \in Request : Submit(r) \/ IngestBlock(r)

Spec == Init /\ [][Next]_vars

(* The event loop resumes the round loop from every sleep and every fetch, *)
(* both of which are bounded in time.  Nothing is assumed of messages, of  *)
(* clients, or of the node's being elected for a request.                  *)
FairSpec == Spec /\ WF_vars(Resume)

-----------------------------------------------------------------------------
(* Every variable has the shape its Python counterpart has. *)
TypeOK ==
  /\ submits \in [Request -> Nat]
  /\ queue \in Seq(Request)
  /\ pending \subseteq Request
  /\ stage \in Stage
  /\ held \in Request \cup {None}
  /\ pendingTx \in Request \cup {None}
  /\ machine \in Request \cup {None}
  /\ outcome \in BOOLEAN
  /\ chain \subseteq Request

(* The two stores of the mempool drift apart in one direction only: what   *)
(* the dictionary knows, and add() therefore refuses, is in the queue      *)
(* (mempool.py: next_inference and remove touch them differently).         *)
PendingIsQueued == \A r \in pending : Queued(r)

(* Submitted, and neither in the queue, nor in the hands of the loop, nor  *)
(* on the chain.                                                           *)
Lost ==
  {r \in Request : submits[r] > 0 /\ ~Queued(r) /\ held # r /\ r \notin chain}

(* While the engine runs no request that was submitted is lost: not by     *)
(* time-outs, late commits, refused blocks and blocks of peers in the      *)
(* middle of a round.  An engine that dies loses the request of its last   *)
(* round, and no other (_run_qoi_round, _wait_for_qoi_commit).             *)
NoRequestLost == \A q, r \in Lost : stage = "dead" /\ q = r

Copies(r) ==
  Cardinality({i \in DOMAIN queue : queue[i] = r})
    + (IF held = r THEN 1 ELSE 0)

(* Rounds do not multiply requests: however often a request is taken, put  *)
(* back and committed, there are never more copies of it than submissions. *)
NoMultiplication == \A r \in Request : Copies(r) <= submits[r]

(* A handler and the polling loop both commit what they find, and never    *)
(* both commit one outcome: when a poll finds an outcome there is no       *)
(* request left to seal a second time (_wait_for_qoi_commit,               *)
(* _handle_incoming_qoi_msg).                                              *)
NoSecondSeal ==
  stage = "waiting" /\ machine # None /\ outcome => pendingTx = None

(* A node that is elected for the head of its queue again and again takes  *)
(* up every request that waits, though each round that the loop does not   *)
(* commit puts its request back, and peers commit some meanwhile           *)
(* (mempool.py: "FIFO").                                                   *)
QueueServed ==
  []<>(stage = "inferring") => \A r \in Request : Queued(r) ~> held = r

-----------------------------------------------------------------------------
(* What the repository says of the engine and the code does not do.        *)

(* "Main consensus loop.  Runs forever until cancelled." (engine.py, run)  *)
RunsForever == stage # "dead"
=============================================================================
