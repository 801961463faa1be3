--------------------------- MODULE CommitThreads ---------------------------
(***************************************************************************)
(* AsyncQoIMessageHandler hands each message to a pool of threads, which   *)
(* all run on_message_received of the same QoIMessageHandler; nothing      *)
(* there takes a lock.  The module follows the PREPAREs and COMMITs of one *)
(* round on one node through the threads, one access to shared state at a  *)
(* time.  The node has cast its own vote, and all votes are for one class. *)
(***************************************************************************)
EXTENDS Naturals, FiniteSets

CONSTANTS
  ThSender,     \* the other nodes, whose PREPARE and COMMIT come in
  ThQuorum,     \* 2f+1, the node's own message included
  ThPools,      \* sizes of the pool looked at
  ThCopies      \* bound: ThCopies[m]: how often message m is handed over

ASSUME ThreadsAssumption ==
  /\ IsFiniteSet(ThSender) /\ ThQuorum \in Nat \ {0, 1} /\ ThPools \subseteq Nat \ {0}
  /\ \E p \in ThPools : \A q \in ThPools : q <= p

Nothing == "nothing"
Self == "self"
ThMessage == {"PREPARE", "COMMIT"} \X ThSender
\* The threads there are: of the pool that comes with the handler, or the one
\* it is given.
MaxPool == CHOOSE p \in ThPools : \A q \in ThPools : q <= p
ThThread == 1..MaxPool

VARIABLES
  thPool,       \* number of threads
  thPhase,      \* state_machine.phase
  thSeen,       \* the messages in _seen_messages
  thPrepares,   \* the senders in _prepares, without the node itself
  thCommits,    \* the senders in _commits, the node itself as Self
  thHanded,     \* thHanded[m]: copies of m handed to the pool
  thAt,         \* thAt[t]: what thread t does next
  thMsg,        \* the message in thread t's hands
  thOld,        \* old_phase of thread t
  thPublished,  \* QOI_COMMITTED events published
  thSetBack,    \* how often the phase went back from COMMITTED to COMMIT
  thToldBy      \* the threads that published since the last time it did

thVars == <<thPool, thPhase, thSeen, thPrepares, thCommits, thHanded, thAt,
            thMsg, thOld, thPublished, thSetBack, thToldBy>>
thCounts == <<thPublished, thSetBack, thToldBy>>

ThInit ==
  /\ thPool \in ThPools /\ thPhase = "PREPARE"
  /\ thSeen = {} /\ thPrepares = {} /\ thCommits = {}
  /\ thPublished = 0 /\ thSetBack = 0 /\ thToldBy = {}
  /\ thHanded = [m \in ThMessage |-> 0]
  /\ thAt = [t \in ThThread |-> "idle"]
  /\ thMsg = [t \in ThThread |-> Nothing]
  /\ thOld = [t \in ThThread |-> Nothing]

Goto(t, step) == thAt' = [thAt EXCEPT ![t] = step]
Leave(t) == /\ Goto(t, "idle")
            /\ thMsg' = [thMsg EXCEPT ![t] = Nothing]
            /\ thOld' = [thOld EXCEPT ![t] = Nothing]

\* A free thread takes a message and finds that its key was not seen yet.
TakeUp(t, m) ==
  /\ t <= thPool /\ thAt[t] = "idle"
  /\ thHanded[m] < ThCopies[m]
  /\ thHanded' = [thHanded EXCEPT ![m] = @ + 1]
  /\ m \notin thSeen
  /\ thMsg' = [thMsg EXCEPT ![t] = m]
  /\ Goto(t, "remember")
  /\ UNCHANGED <<thPool, thPhase, thSeen, thPrepares, thCommits, thOld, thCounts>>

Remember(t) ==
  /\ thAt[t] = "remember"
  /\ thSeen' = thSeen \cup {thMsg[t]}
  /\ Goto(t, IF thMsg[t][1] = "PREPARE" THEN "check prepare" ELSE "old phase")
  /\ UNCHANGED <<thPool, thPhase, thPrepares, thCommits, thHanded, thMsg, thOld,
                 thCounts>>

-----------------------------------------------------------------------------
(* Where the threads write the dictionaries of the machine *)

Stores == {"store prepare", "store commit", "own commit"}
\* What is done after the write; the node's own COMMIT is not counted.
AfterStore(step) ==
  CASE step = "store prepare" -> "count prepares"
    [] step = "store commit" -> "count commits"
    [] OTHER -> "answered"

NewPrepares(t) == IF thAt[t] = "store prepare" THEN {thMsg[t][2]} ELSE {}
NewCommits(t) ==
  CASE thAt[t] = "store commit" -> {thMsg[t][2]}
    [] thAt[t] = "own commit" -> {Self}
    [] OTHER -> {}

\* t adds a key to a dictionary that u is going over, for the class or for the
\* outcome: the dictionary changed size, and u's call raises.
Breaks(t, u) ==
  \/ thAt[u] = "count prepares" /\ ~(NewPrepares(t) \subseteq thPrepares)
  \/ thAt[u] = "finalise" /\ \/ ~(NewPrepares(t) \subseteq thPrepares)
                             \/ ~(NewCommits(t) \subseteq thCommits)

Store(t) ==
  /\ thAt[t] \in Stores
  /\ thPrepares' = thPrepares \cup NewPrepares(t)
  /\ thCommits' = thCommits \cup NewCommits(t)
  /\ \E broken \in SUBSET {u \in ThThread : Breaks(t, u)} :
       /\ thAt' = [u \in ThThread |-> IF u = t THEN AfterStore(thAt[t])
                                      ELSE IF u \in broken THEN "idle" ELSE thAt[u]]
       /\ thMsg' = [u \in ThThread |-> IF u \in broken THEN Nothing ELSE thMsg[u]]
       /\ thOld' = [u \in ThThread |-> IF u \in broken THEN Nothing ELSE thOld[u]]
  /\ UNCHANGED <<thPool, thPhase, thSeen, thHanded, thCounts>>

-----------------------------------------------------------------------------
(* A PREPARE *)

CheckPrepare(t) ==
  /\ thAt[t] = "check prepare"
  /\ IF thPhase = "PREPARE" /\ thMsg[t][2] \notin thPrepares
     THEN Goto(t, "store prepare") /\ UNCHANGED <<thMsg, thOld>>
     ELSE Leave(t)
  /\ UNCHANGED <<thPool, thPhase, thSeen, thPrepares, thCommits, thHanded, thCounts>>

CountPrepares(t) ==
  /\ thAt[t] = "count prepares"
  /\ IF Cardinality(thPrepares) + 1 >= ThQuorum
     THEN Goto(t, "enter commit") /\ UNCHANGED <<thMsg, thOld>>
     ELSE Leave(t)
  /\ UNCHANGED <<thPool, thPhase, thSeen, thPrepares, thCommits, thHanded, thCounts>>

\* Whatever the phase is by now.
EnterCommit(t) ==
  /\ thAt[t] = "enter commit"
  /\ thPhase' = "COMMIT"
  /\ IF thPhase = "COMMITTED" THEN thSetBack' = thSetBack + 1 /\ thToldBy' = {}
     ELSE UNCHANGED <<thSetBack, thToldBy>>
  /\ Goto(t, "own commit")
  /\ UNCHANGED <<thPool, thSeen, thPrepares, thCommits, thHanded, thMsg, thOld,
                 thPublished>>

Answer(t) ==
  /\ thAt[t] = "answered"
  /\ Leave(t)
  /\ UNCHANGED <<thPool, thPhase, thSeen, thPrepares, thCommits, thHanded, thCounts>>

-----------------------------------------------------------------------------
(* A COMMIT *)

OldPhase(t) ==
  /\ thAt[t] = "old phase"
  /\ thOld' = [thOld EXCEPT ![t] = thPhase]
  /\ Goto(t, "check commit")
  /\ UNCHANGED <<thPool, thPhase, thSeen, thPrepares, thCommits, thHanded, thMsg,
                 thCounts>>

CheckCommit(t) ==
  /\ thAt[t] = "check commit"
  /\ IF thPhase = "COMMIT" /\ thMsg[t][2] \notin thCommits
     THEN Goto(t, "store commit") ELSE Goto(t, "new phase")
  /\ UNCHANGED <<thPool, thPhase, thSeen, thPrepares, thCommits, thHanded, thMsg,
                 thOld, thCounts>>

CountCommits(t) ==
  /\ thAt[t] = "count commits"
  /\ IF Cardinality(thCommits) >= ThQuorum
     THEN Goto(t, "finalise") ELSE Goto(t, "new phase")
  /\ UNCHANGED <<thPool, thPhase, thSeen, thPrepares, thCommits, thHanded, thMsg,
                 thOld, thCounts>>

\* The outcome is there before the phase says COMMITTED.
Finalise(t) ==
  /\ thAt[t] = "finalise"
  /\ thPhase' = "COMMITTED"
  /\ Goto(t, "new phase")
  /\ UNCHANGED <<thPool, thSeen, thPrepares, thCommits, thHanded, thMsg, thOld,
                 thCounts>>

Tells(t) == thPhase = "COMMITTED" /\ thOld[t] # "COMMITTED"
\* Mutant: old_phase is not looked at.
NewPhaseOnly(t) ==
  /\ thAt[t] = "new phase"
  /\ IF thPhase = "COMMITTED"
     THEN thPublished' = thPublished + 1 /\ thToldBy' = thToldBy \cup {t}
     ELSE UNCHANGED <<thPublished, thToldBy>>
  /\ Leave(t)
  /\ UNCHANGED <<thPool, thPhase, thSeen, thPrepares, thCommits, thHanded, thSetBack>>

NewPhase(t) ==
  /\ thAt[t] = "new phase"
  /\ IF Tells(t) THEN thPublished' = thPublished + 1 /\ thToldBy' = thToldBy \cup {t}
     ELSE UNCHANGED <<thPublished, thToldBy>>
  /\ Leave(t)
  /\ UNCHANGED <<thPool, thPhase, thSeen, thPrepares, thCommits, thHanded, thSetBack>>

ThNext ==
  \E t \in ThThread :
    \/ \E m \in ThMessage : TakeUp(t, m)
    \/ Remember(t) \/ Store(t) \/ Answer(t)
    \/ CheckPrepare(t) \/ CountPrepares(t) \/ EnterCommit(t)
    \/ OldPhase(t) \/ CheckCommit(t) \/ CountCommits(t) \/ Finalise(t)
    \/ NewPhase(t)

ThSpec == ThInit /\ [][ThNext]_thVars

-----------------------------------------------------------------------------
\* QOI_COMMITTED is published only once 2f+1 COMMITs of different nodes are
\* stored.  A thread that is late with a PREPARE may set the phase back from
\* COMMITTED to COMMIT, less often than there are threads, and only then can a
\* thread publish the round a second time, or nobody at all: a phase that was
\* not set back and says COMMITTED has been published, once per thread at most,
\* when the threads are through.  A pool of one publishes exactly once.
CommitPublished ==
  /\ thPublished > 0 => Cardinality(thCommits) >= ThQuorum
  /\ thSetBack < thPool
  /\ thPublished <= thPool * (1 + thSetBack)
  /\ thSetBack = 0 /\ thPhase = "COMMITTED" /\ (\A t \in ThThread : thAt[t] = "idle")
       => thPublished >= 1
=============================================================================
