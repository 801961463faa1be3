--------------------------- MODULE PeerDirectory ---------------------------
(***************************************************************************)
(* Which peers a node knows, and which it dials: the command line and the  *)
(* configuration (node_runner), the seed file (PeerDiscovery), the lists   *)
(* peers share (P2PServer) and the REST routes.  The seed file survives a  *)
(* run of the process, nothing else does.                                  *)
(*                                                                         *)
(* PeerDiscovery writes its whole dictionary whenever it learns an address.*)
(* A write that fails is logged: the file is what it was, or cut short.  A *)
(* kill in the middle of a write is such a failure and a kill after it.    *)
(* Failure counts are never used.  An inbound connection teaches a node no *)
(* address.                                                                *)
(***************************************************************************)
EXTENDS Naturals, FiniteSets

CONSTANTS
  PdNode,
  PdCli,        \* PdCli[n]: the --peer flags of n
  PdConfig,     \* PdConfig[n]: bootstrap_peers of its configuration file
  PdMaxStarts,  \* bound: PdMaxStarts[n] starts of n
  PdCallable,   \* bound: [at, url], what the REST routes are called with
  PdMaxCalls,   \* bound: such calls
  PdMaxFailures,\* bound: reads and writes of seed files that fail
  PdMaxMail     \* bound: PEERS messages on their way, beyond one broadcast

VARIABLES
  pdUp,
  pdKnown,     \* NodeService.peers
  pdPeers,     \* PeerDiscovery._peers
  pdFile,      \* the addresses in its file
  pdUnsaved,   \* whether the last write of this run failed
  pdDialling,  \* pdDialling[n][u]: tasks of n that try to connect to u
  pdOpen,      \* pdOpen[n][u]: connections from n to u
  pdMail,      \* PEERS messages on their way, [to, urls]
  pdLearned,   \* what the directory of n was told of in any of its runs and
               \* did not lose with a run whose last write, or whose read, failed
  pdDialled,   \* addresses this run of n has begun to dial
  pdStarts, pdCalls, pdFailures

pdVars == <<pdUp, pdKnown, pdPeers, pdFile, pdUnsaved, pdDialling, pdOpen, pdMail,
            pdLearned, pdDialled, pdStarts, pdCalls, pdFailures>>
pdDirectory == <<pdPeers, pdFile, pdUnsaved, pdLearned, pdFailures>>

PdInit ==
  /\ pdUp = [n \in PdNode |-> FALSE] /\ pdUnsaved = pdUp
  /\ pdKnown = [n \in PdNode |-> {}] /\ pdFile = pdKnown /\ pdPeers = pdKnown
  /\ pdLearned = pdKnown /\ pdDialled = pdKnown
  /\ pdDialling = [n \in PdNode |-> [u \in PdNode |-> 0]] /\ pdOpen = pdDialling
  /\ pdMail = {} /\ pdStarts = [n \in PdNode |-> 0] /\ pdCalls = 0 /\ pdFailures = 0

\* MUTANT of Saved: the file is written before the dictionary has the address.
SavedFirst(old, peers) == old

\* The lines that _save writes.
Saved(old, peers) == peers

\* PeerDiscovery.add of each address that makes its dictionary peers, after
\* that many failures: no write when nothing is new, else the last one counts.
Save(n, old, peers, failures) ==
  /\ pdPeers' = [pdPeers EXCEPT ![n] = peers]
  /\ \/ /\ peers = old /\ pdFailures' = failures
        /\ UNCHANGED <<pdFile, pdUnsaved>>
     \/ /\ peers # old /\ pdFailures' = failures
        /\ pdFile' = [pdFile EXCEPT ![n] = Saved(old, peers)]
        /\ pdUnsaved' = [pdUnsaved EXCEPT ![n] = FALSE]
     \/ /\ peers # old /\ failures < PdMaxFailures /\ pdFailures' = failures + 1
        /\ \E left \in {pdFile[n]} \cup SUBSET peers : pdFile' = [pdFile EXCEPT ![n] = left]
        /\ pdUnsaved' = [pdUnsaved EXCEPT ![n] = TRUE]

\* What _load reads: the file, or nothing when that fails.
Loads(n) == {pdFile[n]} \cup (IF pdFailures < PdMaxFailures THEN {{}} ELSE {})

\* attach_discovery puts every address of the directory on the list to dial,
\* and node_runner puts it there again: the server begins with two tasks for
\* each, and with one for an address that only the configuration has.
Start(n) ==
  /\ ~pdUp[n] /\ pdStarts[n] < PdMaxStarts[n]
  /\ pdStarts' = [pdStarts EXCEPT ![n] = @ + 1]
  /\ \E read \in Loads(n) :
       LET twice == read \cup PdCli[n]
           all == twice \cup PdConfig[n]
       IN /\ Save(n, read, all, pdFailures + IF read = pdFile[n] THEN 0 ELSE 1)
          /\ pdKnown' = [pdKnown EXCEPT ![n] = all]
          /\ pdLearned' = [pdLearned EXCEPT ![n] = IF read = pdFile[n] THEN @ \cup all ELSE all]
          /\ pdDialled' = [pdDialled EXCEPT ![n] = all]
          /\ pdDialling' = [pdDialling EXCEPT ![n] =
               [u \in PdNode |-> IF u \in twice THEN 2 ELSE IF u \in all THEN 1 ELSE 0]]
  /\ pdUp' = [pdUp EXCEPT ![n] = TRUE]
  /\ UNCHANGED <<pdOpen, pdMail, pdCalls>>

Kill(n) ==
  /\ pdUp[n]
  /\ pdUp' = [pdUp EXCEPT ![n] = FALSE]
  /\ pdKnown' = [pdKnown EXCEPT ![n] = {}]
  /\ pdPeers' = [pdPeers EXCEPT ![n] = {}]
  /\ pdUnsaved' = [pdUnsaved EXCEPT ![n] = FALSE]
  /\ pdLearned' = [pdLearned EXCEPT ![n] = IF pdUnsaved[n] THEN @ \cap pdFile[n] ELSE @]
  /\ pdDialled' = [pdDialled EXCEPT ![n] = {}]
  /\ pdDialling' = [pdDialling EXCEPT ![n] = [u \in PdNode |-> 0]]
  /\ pdOpen' = [m \in PdNode |-> [u \in PdNode |-> IF n \in {m, u} THEN 0 ELSE pdOpen[m][u]]]
  /\ pdMail' = {x \in pdMail : x.to # n}
  /\ UNCHANGED <<pdFile, pdStarts, pdCalls, pdFailures>>

\* One of the attempts of _connect_outbound.
Connect(n, u) ==
  /\ pdDialling[n][u] > 0 /\ pdUp[u]
  /\ pdDialling' = [pdDialling EXCEPT ![n][u] = @ - 1]
  /\ pdOpen' = [pdOpen EXCEPT ![n][u] = @ + 1]
  /\ pdKnown' = [pdKnown EXCEPT ![n] = @ \cup {u}]
  /\ UNCHANGED <<pdUp, pdDirectory, pdMail, pdDialled, pdStarts, pdCalls>>

\* After five of them.  The address stays known, so no list brings it back.
GiveUp(n, u) ==
  /\ pdDialling[n][u] > 0 /\ ~pdUp[u]
  /\ pdDialling' = [pdDialling EXCEPT ![n][u] = @ - 1]
  /\ UNCHANGED <<pdUp, pdKnown, pdDirectory, pdOpen, pdMail, pdDialled, pdStarts, pdCalls>>

\* _peer_share_loop, to both ends of connections.
Share(n) ==
  /\ pdKnown[n] # {} /\ Cardinality(pdMail) <= PdMaxMail
  /\ pdMail' = pdMail \cup {[to |-> m, urls |-> pdKnown[n]] :
                             m \in {k \in PdNode : pdOpen[n][k] + pdOpen[k][n] > 0}}
  /\ UNCHANGED <<pdUp, pdKnown, pdDirectory, pdDialling, pdOpen, pdDialled, pdStarts, pdCalls>>

\* Addresses that the service knows are passed over, also those the directory
\* has never heard of.
OnPeers(x) ==
  LET n == x.to
      new == x.urls \ (pdKnown[n] \cup {n})
  IN /\ pdUp[n]
     /\ pdMail' = pdMail \ {x}
     /\ pdKnown' = [pdKnown EXCEPT ![n] = @ \cup new]
     /\ Save(n, pdPeers[n], pdPeers[n] \cup new, pdFailures)
     /\ pdLearned' = [pdLearned EXCEPT ![n] = @ \cup new]
     /\ pdDialled' = [pdDialled EXCEPT ![n] = @ \cup new]
     /\ pdDialling' = [pdDialling EXCEPT ![n] =
          [u \in PdNode |-> IF u \in new THEN @[u] + 1 ELSE @[u]]]
     /\ UNCHANGED <<pdUp, pdOpen, pdStarts, pdCalls>>

\* POST /p2p/peers/add tells the service and the server, not the directory.
AddPeer(n, u) ==
  /\ pdUp[n] /\ pdCalls < PdMaxCalls
  /\ pdKnown' = [pdKnown EXCEPT ![n] = @ \cup {u}]
  /\ pdDialled' = [pdDialled EXCEPT ![n] = @ \cup {u}]
  /\ pdDialling' = [pdDialling EXCEPT ![n][u] = @ + 1]
  /\ pdCalls' = pdCalls + 1
  /\ UNCHANGED <<pdUp, pdDirectory, pdOpen, pdMail, pdStarts>>

\* DELETE /p2p/peers: connections, tasks and directory stay.
RemovePeer(n, u) ==
  /\ pdUp[n] /\ u \in pdKnown[n] /\ pdCalls < PdMaxCalls
  /\ pdKnown' = [pdKnown EXCEPT ![n] = @ \ {u}]
  /\ pdCalls' = pdCalls + 1
  /\ UNCHANGED <<pdUp, pdDirectory, pdDialling, pdOpen, pdMail, pdDialled, pdStarts>>

PdNext ==
  \/ \E n \in PdNode : Start(n) \/ Kill(n) \/ Share(n)
  \/ \E n, u \in PdNode : Connect(n, u) \/ GiveUp(n, u)
  \/ \E c \in PdCallable : AddPeer(c.at, c.url) \/ RemovePeer(c.at, c.url)
  \/ \E x \in pdMail : OnPeers(x)

PdSpec == PdInit /\ [][PdNext]_pdVars

-----------------------------------------------------------------------------
\* Whatever a node's service knows, so that no list makes the node dial it, the
\* node has dialled in this run; and every run dials what the directory learned
\* in any run before: a write that failed is made good by the next one, and only
\* what a run had not saved when it ended, or a start could not read, is lost.
\* (What only the REST route or an entry the service knew already told the node
\* of is not the directory's: the next run does not dial it.)
LearnedIsDialled ==
  \A n \in PdNode : pdUp[n] => pdKnown[n] \cup pdLearned[n] \subseteq pdDialled[n]
=============================================================================
