--------------------------- MODULE StreamClients ---------------------------
(***************************************************************************)
(* One channel of ConsensusStreamManager: broadcast goes over the live set *)
(* of clients and awaits each send, while clients come and go.             *)
(*                                                                         *)
(* A Python set iteration raises RuntimeError when it is resumed with      *)
(* another size than it began with, and with the same size goes on.  The   *)
(* sets stay small enough for their table not to be rebuilt meanwhile.     *)
(***************************************************************************)
EXTENDS Naturals, FiniteSets

CONSTANTS
  StClient,
  StMaxRounds,  \* bound: broadcasts
  StMaxMoves    \* bound: clients that come or go

Idle == "idle"

VARIABLES
  stClients,    \* connections[channel]
  stBroken,     \* clients whose socket fails
  stAt,         \* the client whose send is awaited, or Idle
  stSize,       \* size of the set when the broadcast under way began
  stVisited,    \* clients the broadcast has gone to
  stStayed,     \* clients there from its beginning until now
  stMoved,      \* whether a client came or went since
  stDead,       \* dead: clients whose send failed
  stResult,     \* how the last broadcast ended
  stRounds, stMoves

stVars == <<stClients, stBroken, stAt, stSize, stVisited, stStayed, stMoved,
            stDead, stResult, stRounds, stMoves>>

StInit ==
  /\ stClients \in SUBSET StClient /\ stBroken = {}
  /\ stAt = Idle /\ stSize = 0 /\ stVisited = {} /\ stStayed = {}
  /\ stMoved = FALSE /\ stDead = {} /\ stResult = Idle
  /\ stRounds = 0 /\ stMoves = 0

StreamConnect(c) ==
  /\ c \notin stClients /\ stMoves < StMaxMoves
  /\ stClients' = stClients \cup {c} /\ stBroken' = stBroken \ {c}
  /\ stMoves' = stMoves + 1 /\ stMoved' = TRUE
  /\ UNCHANGED <<stAt, stSize, stVisited, stStayed, stDead, stResult, stRounds>>

\* By its own endpoint, or by another broadcast that found it dead: broadcasts
\* are tasks of their own and may overlap; the module follows one at a time.
StreamDisconnect(c) ==
  /\ c \in stClients /\ stMoves < StMaxMoves
  /\ stClients' = stClients \ {c}
  /\ stStayed' = stStayed \ {c}
  /\ stMoves' = stMoves + 1 /\ stMoved' = TRUE
  /\ UNCHANGED <<stBroken, stAt, stSize, stVisited, stDead, stResult, stRounds>>

\* The peer is gone and nobody noticed yet.
Break(c) ==
  /\ c \in stClients \ stBroken /\ stMoves < StMaxMoves
  /\ stBroken' = stBroken \cup {c}
  /\ stMoves' = stMoves + 1
  /\ UNCHANGED <<stClients, stAt, stSize, stVisited, stStayed, stMoved, stDead,
                 stResult, stRounds>>

Broadcast ==
  /\ stAt = Idle /\ stRounds < StMaxRounds /\ stClients # {}
  /\ stRounds' = stRounds + 1
  /\ stSize' = Cardinality(stClients) /\ stStayed' = stClients
  /\ stMoved' = FALSE /\ stDead' = {} /\ stResult' = Idle
  /\ \E c \in stClients : stAt' = c /\ stVisited' = {c}
  /\ UNCHANGED <<stClients, stBroken, stMoves>>

\* The send is over, well or not, and the loop asks the set for its next
\* client: RuntimeError leaves broadcast before the dead ones are taken out.
GoOnWith(clients, dead) ==
  \/ /\ Cardinality(clients) # stSize
     /\ stResult' = "raised" /\ stAt' = Idle
     /\ stClients' = clients
     /\ UNCHANGED stVisited
  \/ /\ Cardinality(clients) = stSize
     /\ \E c \in clients \ stVisited : stAt' = c /\ stVisited' = stVisited \cup {c}
     /\ stClients' = clients
     /\ UNCHANGED stResult
  \/ \* a client that came meanwhile may sit before the iterator's place
     /\ Cardinality(clients) = stSize
     /\ stStayed \subseteq stVisited
     /\ stResult' = "ended" /\ stAt' = Idle
     /\ stClients' = clients \ dead
     /\ UNCHANGED stVisited

\* Mutant: a client is taken out as soon as its send fails.
SendOverAtOnce ==
  /\ stAt # Idle
  /\ stDead' = IF stAt \in stBroken THEN stDead \cup {stAt} ELSE stDead
  /\ GoOnWith(stClients \ stDead', {})
  /\ UNCHANGED <<stBroken, stSize, stStayed, stMoved, stRounds, stMoves>>

SendOver ==
  /\ stAt # Idle
  /\ stDead' = IF stAt \in stBroken THEN stDead \cup {stAt} ELSE stDead
  /\ GoOnWith(stClients, stDead')
  /\ UNCHANGED <<stBroken, stSize, stStayed, stMoved, stRounds, stMoves>>

StNext ==
  \/ \E c \in StClient : StreamConnect(c) \/ StreamDisconnect(c) \/ Break(c)
  \/ Broadcast
  \/ SendOver

StSpec == StInit /\ [][StNext]_stVars

-----------------------------------------------------------------------------
\* A failed send alone never breaks a broadcast off: it raises only when a
\* client came or went meanwhile.  One that ends was sent to every client that
\* was there all the time, and leaves none of them in whose send failed.
StreamReaches ==
  /\ stResult = "raised" => stMoved
  /\ stResult = "ended" => /\ stStayed \subseteq stVisited
                           /\ ~stMoved => stDead \cap stClients = {}
=============================================================================
