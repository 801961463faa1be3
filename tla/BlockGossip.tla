---------------------------- MODULE BlockGossip ----------------------------
(***************************************************************************)
(* How blocks reach the nodes: P2PServer announces a block to the peers it *)
(* is connected to, forwards what it accepts, and asks a peer that is      *)
(* ahead for what it lacks.                                                *)
(*                                                                         *)
(* A connection keeps its messages in order in each direction.  Handlers   *)
(* of different connections interleave; one handler runs to its end, since *)
(* NodeService's lock is free whenever a handler asks for it and sending   *)
(* is left to a task.                                                      *)
(*                                                                         *)
(* Abstractions:                                                           *)
(*  - One node seals, so the chain is a line and a block is its height; a  *)
(*    node accepts the successor of its tip (NodeService).                 *)
(*  - Two nodes have at most one connection, dialled by one of them.       *)
(*  - The set of seen hashes never reaches SEEN_SET_MAX.                   *)
(*  - Pings and peer lists do not touch blocks and are left out.           *)
(***************************************************************************)
EXTENDS Naturals, Sequences, FiniteSets

CONSTANTS
  Node,
  Sealer,      \* the node that seals
  Networks,    \* who dials whom at the start: sets of pairs <<n, m>> in
               \* dials, with a bound on the failures to come
  BatchSize,   \* MAX_BLOCKS_PER_REQUEST
  MaxBlocks    \* bound: blocks sealed

ASSUME GossipAssumption ==
  /\ Sealer \in Node /\ BatchSize \in Nat \ {0}
  /\ MaxBlocks \in Nat
  /\ \A w \in Networks :
       /\ w.failures \in Nat /\ w.dials \subseteq Node \X Node
       /\ \A p \in w.dials : p[1] # p[2] /\ <<p[2], p[1]>> \notin w.dials

Block == 1..MaxBlocks

VARIABLES
  height,      \* height of each node's chain, which survives a kill
  seen,        \* _seen_set
  dial,        \* what became of each dialled connection
  peerHeight,  \* peerHeight[n][m]: chain_height of n's connection to m
  wire,        \* wire[n][m]: the messages from n to m under way
  failures     \* connections that may still be lost and processes killed

bgVars == <<height, seen, dial, peerHeight, wire, failures>>

HandshakeMsg(h) == [type |-> "HANDSHAKE", h |-> h]
BlockMsg(h) == [type |-> "BLOCK", h |-> h]
GetBlocksMsg(from, to) == [type |-> "GET_BLOCKS", from |-> from, to |-> to]
BlocksMsg(from, to) == [type |-> "BLOCKS", from |-> from, to |-> to]

Dialled == DOMAIN dial
Connected(n, m) == \/ <<n, m>> \in Dialled /\ dial[<<n, m>>] = "open"
                   \/ <<m, n>> \in Dialled /\ dial[<<m, n>>] = "open"

BgInit ==
  /\ height = [n \in Node |-> 0]
  /\ seen = [n \in Node |-> {}]
  /\ \E w \in Networks : /\ dial = [p \in w.dials |-> "trying"]
                         /\ failures = w.failures
  /\ peerHeight = [n \in Node |-> [m \in Node |-> 0]]
  /\ wire = [n \in Node |-> [m \in Node |-> <<>>]]

-----------------------------------------------------------------------------
(* Connections *)

\* _run_peer on both sides: each sends its handshake first.
Connect(n, m) ==
  /\ dial[<<n, m>>] = "trying"
  /\ dial' = [dial EXCEPT ![<<n, m>>] = "open"]
  /\ wire' = [wire EXCEPT
       ![n][m] = <<HandshakeMsg(height[n])>>,
       ![m][n] = <<HandshakeMsg(height[m])>>]
  /\ peerHeight' = [peerHeight EXCEPT ![n][m] = 0, ![m][n] = 0]
  /\ UNCHANGED <<height, seen, failures>>

\* The last attempt fails; the failures before it are only waited out.
GiveUp(n, m) ==
  /\ dial[<<n, m>>] = "trying"
  /\ dial' = [dial EXCEPT ![<<n, m>>] = "ended"]
  /\ UNCHANGED <<height, seen, peerHeight, wire, failures>>

\* A connection breaks.  _run_peer swallows the exception, so the dialler
\* takes it for a clean disconnect and does not dial again.
Disconnect(n, m) ==
  /\ dial[<<n, m>>] = "open"
  /\ failures > 0 /\ failures' = failures - 1
  /\ dial' = [dial EXCEPT ![<<n, m>>] = "ended"]
  /\ wire' = [wire EXCEPT ![n][m] = <<>>, ![m][n] = <<>>]
  /\ UNCHANGED <<height, seen, peerHeight>>

\* A process is killed and starts again: its connections end, the seen set is
\* empty and it dials its bootstrap peers; the chain is read from disk.
Reboot(n) ==
  /\ failures > 0 /\ failures' = failures - 1
  /\ seen' = [seen EXCEPT ![n] = {}]
  /\ dial' = [p \in Dialled |-> IF p[1] = n THEN "trying"
                                  ELSE IF p[2] = n /\ dial[p] = "open" THEN "ended"
                                  ELSE dial[p]]
  /\ wire' = [a \in Node |-> [b \in Node |->
                IF n \in {a, b} THEN <<>> ELSE wire[a][b]]]
  /\ UNCHANGED <<height, peerHeight>>

-----------------------------------------------------------------------------
(* Blocks *)

\* _broadcast from n to its peers, except one.
Broadcast(w, n, msg, except) ==
  [w EXCEPT ![n] = [m \in Node |-> IF Connected(n, m) /\ m # except
                                   THEN Append(w[n][m], msg) ELSE w[n][m]]]

\* A committed block: NodeService appends it, broadcast_block marks and sends.
BgSeal ==
  /\ height[Sealer] < MaxBlocks
  /\ LET b == height[Sealer] + 1
     IN /\ height' = [height EXCEPT ![Sealer] = b]
        /\ seen' = [seen EXCEPT ![Sealer] = @ \cup {b}]
        /\ wire' = Broadcast(wire, Sealer, BlockMsg(b), Sealer)
  /\ UNCHANGED <<dial, peerHeight, failures>>

\* n takes the first message from m.
Taken(n, m, type) ==
  wire[m][n] # <<>> /\ Head(wire[m][n]).type = type
Rest(n, m) == [wire EXCEPT ![m][n] = Tail(@)]

\* MUTANT of BgRequest: the batch starts at the own tip's successor's successor.
RequestAfterNext(w, n, m, own, theirs) ==
  IF theirs <= own THEN w
  ELSE [w EXCEPT ![n][m] = Append(@, GetBlocksMsg(own + 2,
         IF theirs < own + BatchSize THEN theirs ELSE own + BatchSize))]

\* MUTANT of BgRequest: a full batch, whatever the peer has, and one more.
RequestPastPeer(w, n, m, own, theirs) ==
  IF theirs <= own THEN w
  ELSE [w EXCEPT ![n][m] = Append(@, GetBlocksMsg(own + 1, own + 1 + BatchSize))]

\* GET_BLOCKS for the blocks after the own height, when the peer is ahead.
BgRequest(w, n, m, own, theirs) ==
  IF theirs <= own THEN w
  ELSE [w EXCEPT ![n][m] = Append(@, GetBlocksMsg(own + 1,
         IF theirs < own + BatchSize THEN theirs ELSE own + BatchSize))]

OnHandshake(n, m) ==
  /\ Taken(n, m, "HANDSHAKE")
  /\ LET theirs == Head(wire[m][n]).h
     IN /\ peerHeight' = [peerHeight EXCEPT ![n][m] = theirs]
        /\ wire' = BgRequest(Rest(n, m), n, m, height[n], theirs)
  /\ UNCHANGED <<height, seen, dial, failures>>

\* MUTANT of Accepted: a block is accepted and forwarded as often as it comes.
AcceptedAgain(n, b) == b \in 1..height[n] + 1

\* Not seen before, and NodeService appends it.
Accepted(n, b) == b \notin seen[n] /\ b = height[n] + 1

\* A block is marked as seen whether it is accepted or not; an accepted one
\* goes on to the other peers.
OnBlock(n, m) ==
  /\ Taken(n, m, "BLOCK")
  /\ LET b == Head(wire[m][n]).h
     IN /\ seen' = [seen EXCEPT ![n] = @ \cup {b}]
        /\ IF Accepted(n, b)
           THEN /\ height' = [height EXCEPT ![n] = b]
                /\ peerHeight' = [peerHeight EXCEPT ![n][m] = b]
                /\ wire' = Broadcast(Rest(n, m), n, BlockMsg(b), m)
           ELSE /\ wire' = Rest(n, m)
                /\ UNCHANGED <<height, peerHeight>>
  /\ UNCHANGED <<dial, failures>>

\* Up to a batch of the blocks asked for, as far as the chain has them.
OnGetBlocks(n, m) ==
  /\ Taken(n, m, "GET_BLOCKS")
  /\ LET ask == Head(wire[m][n])
         last == CHOOSE k \in {ask.to, ask.from + BatchSize - 1, height[n]} :
                   \A j \in {ask.to, ask.from + BatchSize - 1, height[n]} : k <= j
     IN wire' = [Rest(n, m) EXCEPT ![n][m] = Append(@, BlocksMsg(ask.from, last))]
  /\ UNCHANGED <<height, seen, dial, peerHeight, failures>>

\* The chain after a batch: a block that was seen before is passed over, and
\* any other is appended if it fits.
Synced(n, first, last) ==
  LET after[h \in 0..MaxBlocks] ==
        IF h < first THEN height[n]
        ELSE IF h <= last /\ h \notin seen[n] /\ h = after[h - 1] + 1 THEN h
        ELSE after[h - 1]
  IN after[MaxBlocks]

OnBlocks(n, m) ==
  /\ Taken(n, m, "BLOCKS")
  /\ LET batch == Head(wire[m][n])
         new == Synced(n, batch.from, batch.to)
     IN /\ height' = [height EXCEPT ![n] = new]
        /\ seen' = [seen EXCEPT ![n] = @ \cup (height[n] + 1)..new]
        /\ wire' = IF new = height[n] THEN Rest(n, m)
                   ELSE BgRequest(Rest(n, m), n, m, new, peerHeight[n][m])
  /\ UNCHANGED <<dial, peerHeight, failures>>

BgReceive(n, m) ==
  OnHandshake(n, m) \/ OnBlock(n, m) \/ OnGetBlocks(n, m) \/ OnBlocks(n, m)

BgNext ==
  \/ BgSeal
  \/ \E p \in Dialled : \/ Connect(p[1], p[2])
                          \/ GiveUp(p[1], p[2])
                          \/ Disconnect(p[1], p[2])
  \/ \E n, m \in Node : BgReceive(n, m)
  \/ \E n \in Node : Reboot(n)

\* The reader of a connection goes on reading.
BgFairness == \A n, m \in Node : WF_bgVars(BgReceive(n, m))

BgSpec == BgInit /\ [][BgNext]_bgVars /\ BgFairness

-----------------------------------------------------------------------------
(* Properties *)

\* A node has heard of a block that it could not append when it came.
Deaf(n) == \E b \in seen[n] : b > height[n]

\* A connected network of so few connections has no cycle.
Tree == Cardinality(Dialled) < Cardinality(Node)

\* Nobody is ahead of the sealer; what a node believes of a peer's height,
\* announces, or asks for, is no more than the peer has.
NobodyAhead ==
  \A n, m \in Node :
    /\ height[n] <= height[Sealer]
    /\ peerHeight[n][m] <= height[m]
    /\ \A i \in DOMAIN wire[n][m] :
         LET msg == wire[n][m][i]
         IN /\ msg.type \in {"HANDSHAKE", "BLOCK"} => msg.h <= height[n]
            /\ msg.type = "BLOCKS" => msg.to <= height[n]
            /\ msg.type = "GET_BLOCKS" => msg.to <= height[m]

\* Announcing, forwarding and fetching blocks comes to rest: no block goes
\* round for ever, whatever the shape of the network.
GossipRests == <>[](\A n, m \in Node : wire[n][m] = <<>>)

\* Where there is one way between two nodes, a node reaches every height that
\* a peer has told it of, as long as the two stay connected and unless it has
\* been sent a block before the block's parent.
ReachesOrDeaf ==
  \A n \in Node : \A m \in Node \ {n} : \A k \in Block :
    (Tree /\ Connected(n, m) /\ peerHeight[n][m] >= k)
      ~> (~ Connected(n, m) \/ height[n] >= k \/ Deaf(n))
=============================================================================
