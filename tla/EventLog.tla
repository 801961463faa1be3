------------------------------ MODULE EventLog ------------------------------
(***************************************************************************)
(* The consensus log of one InferenceNode: the events its bus subscription *)
(* lets through, checkpoints, the recovery at a start, and pruning.        *)
(* Behind ConsensusLog every call is one step; behind AsyncConsensusLog    *)
(* two threads use the file at once, and the rounds to prune are selected  *)
(* outside the transaction that deletes them.                              *)
(*                                                                         *)
(* Times are the numbers of the records; no two are equal.                 *)
(***************************************************************************)
EXTENDS Naturals, FiniteSets

CONSTANTS
  LgRound,      \* request ids
  LgKeep,       \* keep_rounds, at least 1
  LgMaxRecords, \* bound: events published and checkpoints recorded
  LgMaxNodes    \* bound: InferenceNodes built on one bus

ASSUME LgAssumption == LgKeep \in Nat \ {0} /\ LgMaxRecords \in Nat

Unknown == "unknown"   \* the round of an event that names no request

VARIABLES
  lgThreads,    \* threads that use the file: 1 or 2
  lgNodes,      \* subscriptions of this node on the bus
  lgTime,
  lgChecks,     \* the checkpoints table: [round, at]
  lgEvents,     \* the events table: [round, at, copy]
  lgChosen,     \* the rounds a prune has selected and not yet deleted
  lgLast,       \* the latest checkpoint recorded, and
  lgRaced       \* whether it was recorded while a prune was under way

lgVars == <<lgThreads, lgNodes, lgTime, lgChecks, lgEvents, lgChosen, lgLast, lgRaced>>

LgNone == [round |-> Unknown, at |-> 0]
Latest(S) == IF S = {} THEN LgNone ELSE CHOOSE c \in S : \A d \in S : d.at <= c.at
RoundsOf(S) == {c.round : c \in S}
LatestOf(S, r) == Latest({c \in S : c.round = r}).at

\* recover_latest_round
Recovered == Latest(lgChecks)

LgInit ==
  /\ lgThreads \in {1, 2} /\ lgNodes = 1 /\ lgTime = 0
  /\ lgChecks = {} /\ lgEvents = {} /\ lgChosen = {}
  /\ lgLast = LgNone /\ lgRaced = FALSE

\* With one thread nothing comes between the two statements of a prune.
Free == lgThreads = 2 \/ lgChosen = {}

\* record_event, once per subscription whose filter finds the node's name in
\* data["node_id"]: the events of QoIMessageHandler carry only the message or
\* the outcome, and are not logged.
Logged(byHandler, r) ==
  IF byHandler THEN {} ELSE [round : {r}, at : {lgTime + 1}, copy : 1..lgNodes]

PublishEvent(byHandler, r) ==
  /\ Free /\ lgTime < LgMaxRecords
  /\ lgTime' = lgTime + 1
  /\ lgEvents' = lgEvents \cup Logged(byHandler, r)
  /\ UNCHANGED <<lgThreads, lgNodes, lgChecks, lgChosen, lgLast, lgRaced>>

RecordCheckpoint(r) ==
  /\ Free /\ lgTime < LgMaxRecords
  /\ lgTime' = lgTime + 1
  /\ lgLast' = [round |-> r, at |-> lgTime + 1]
  /\ lgChecks' = lgChecks \cup {lgLast'}
  /\ lgRaced' = (lgChosen # {})
  /\ UNCHANGED <<lgThreads, lgNodes, lgEvents, lgChosen>>

\* Mutant: the order of the rounds is the wrong way round.
NewRounds ==
  {r \in RoundsOf(lgChecks) :
     Cardinality({q \in RoundsOf(lgChecks) :
                    LatestOf(lgChecks, q) < LatestOf(lgChecks, r)}) >= LgKeep}

\* The rounds beyond the LgKeep with the latest checkpoints.
OldRounds ==
  {r \in RoundsOf(lgChecks) :
     Cardinality({q \in RoundsOf(lgChecks) :
                    LatestOf(lgChecks, q) > LatestOf(lgChecks, r)}) >= LgKeep}

ChooseOld ==
  /\ lgChosen = {}
  /\ OldRounds # {}
  /\ lgChosen' = OldRounds
  /\ UNCHANGED <<lgThreads, lgNodes, lgTime, lgChecks, lgEvents, lgLast, lgRaced>>

DeleteOld ==
  /\ lgChosen # {}
  /\ lgEvents' = {e \in lgEvents : e.round \notin lgChosen}
  /\ lgChecks' = {c \in lgChecks : c.round \notin lgChosen}
  /\ lgChosen' = {}
  /\ UNCHANGED <<lgThreads, lgNodes, lgTime, lgLast, lgRaced>>

\* A further InferenceNode on the same bus and file: the node never takes its
\* subscriptions back.
BuildAgain ==
  /\ Free /\ lgNodes < LgMaxNodes
  /\ lgNodes' = lgNodes + 1
  /\ UNCHANGED <<lgThreads, lgTime, lgChecks, lgEvents, lgChosen, lgLast, lgRaced>>

\* The process is killed, in the middle of a prune or not, and started again.
KillAndStart ==
  /\ lgNodes' = 1 /\ lgChosen' = {}
  /\ UNCHANGED <<lgThreads, lgTime, lgChecks, lgEvents, lgLast, lgRaced>>

LgNext ==
  \/ \E byHandler \in BOOLEAN, r \in LgRound \cup {Unknown} : PublishEvent(byHandler, r)
  \/ \E r \in LgRound : RecordCheckpoint(r)
  \/ ChooseOld
  \/ DeleteOld
  \/ BuildAgain
  \/ KillAndStart

LgSpec == LgInit /\ [][LgNext]_lgVars

-----------------------------------------------------------------------------
\* After any prunes, kills and starts, recover_latest_round returns the latest
\* checkpoint ever recorded, unless that one was recorded between the two
\* statements of a prune (which then takes its round for an old one).
RecoversLatest == ~lgRaced => Recovered = lgLast
=============================================================================
