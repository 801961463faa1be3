-------------------------- MODULE DelayedDelivery --------------------------
(***************************************************************************)
(* MessageScheduler: messages wait for their delay and a background loop   *)
(* hands each of them to its handler, a coroutine.  Other coroutines run   *)
(* while a handler is awaited; a handler may raise, and stop() cancels the *)
(* loop in the middle of one.  A message is known by the order in which it *)
(* was scheduled, which is the order in which the loop goes over them.     *)
(***************************************************************************)
EXTENDS Naturals, FiniteSets

CONSTANTS
  ScMaxMessages,  \* bound: messages scheduled
  ScMaxTroubles   \* bound: handlers that raise and calls of stop

ASSUME ScAssumption == ScMaxMessages \in Nat /\ ScMaxTroubles \in Nat

Message == 1..ScMaxMessages
Nobody == 0

VARIABLES
  scCount,      \* messages scheduled so far
  scScheduled,  \* _scheduled
  scDue,        \* messages whose delivery time has come
  scRunning,    \* _running
  scScan,       \* what the pass under way has still to look at
  scAt,         \* the message whose handler is awaited, or Nobody
  scBegun,      \* scBegun[m]: times m's handler was called
  scDone,       \* scDone[m]: times m's handler came back
  scTroubles,
  scBroken      \* handlers that raised or were cancelled

scVars == <<scCount, scScheduled, scDue, scRunning, scScan, scAt, scBegun,
            scDone, scTroubles, scBroken>>

ScInit ==
  /\ scCount = 0 /\ scScheduled = {} /\ scDue = {} /\ scRunning = FALSE
  /\ scScan = {} /\ scAt = Nobody
  /\ scBegun = [m \in Message |-> 0] /\ scDone = [m \in Message |-> 0]
  /\ scTroubles = 0 /\ scBroken = [m \in Message |-> 0]

\* schedule_deliver also starts the loop if it is not running.
ScheduleDeliver ==
  /\ scCount < ScMaxMessages
  /\ scCount' = scCount + 1
  /\ scScheduled' = scScheduled \cup {scCount + 1}
  /\ scRunning' = TRUE
  /\ UNCHANGED <<scDue, scScan, scAt, scBegun, scDone, scTroubles, scBroken>>

DelayOver(m) ==
  /\ m <= scCount /\ m \notin scDue
  /\ scDue' = scDue \cup {m}
  /\ UNCHANGED <<scCount, scScheduled, scRunning, scScan, scAt, scBegun,
                 scDone, scTroubles, scBroken>>

\* The pass calls the handler of the first message of S, or is over.
GoOn(S) ==
  IF S = {}
  THEN scAt' = Nobody /\ scScan' = {} /\ UNCHANGED scBegun
  ELSE LET m == CHOOSE x \in S : \A y \in S : x <= y IN
       /\ scAt' = m /\ scScan' = S \ {m}
       /\ scBegun' = [scBegun EXCEPT ![m] = @ + 1]

\* A pass takes the time once, so it covers what is due now.
BeginPass ==
  /\ scRunning /\ scAt = Nobody /\ scScheduled \cap scDue # {}
  /\ GoOn(scScheduled \cap scDue)
  /\ UNCHANGED <<scCount, scScheduled, scDue, scRunning, scDone, scTroubles,
                 scBroken>>

\* Mutant: the message stays scheduled.
HandlerReturnsKept ==
  /\ scAt # Nobody
  /\ scDone' = [scDone EXCEPT ![scAt] = @ + 1]
  /\ GoOn(scScan)
  /\ UNCHANGED <<scCount, scScheduled, scDue, scRunning, scTroubles, scBroken>>

HandlerReturns ==
  /\ scAt # Nobody
  /\ scDone' = [scDone EXCEPT ![scAt] = @ + 1]
  /\ scScheduled' = scScheduled \ {scAt}
  /\ GoOn(scScan)
  /\ UNCHANGED <<scCount, scDue, scRunning, scTroubles, scBroken>>

\* The message stays scheduled, due, and is tried again in the next pass.
HandlerRaises ==
  /\ scAt # Nobody /\ scTroubles < ScMaxTroubles
  /\ scTroubles' = scTroubles + 1
  /\ scBroken' = [scBroken EXCEPT ![scAt] = @ + 1]
  /\ GoOn(scScan)
  /\ UNCHANGED <<scCount, scScheduled, scDue, scRunning, scDone>>

\* CancelledError is not an Exception: it ends the loop inside the handler.
Stop ==
  /\ scRunning /\ scTroubles < ScMaxTroubles
  /\ scTroubles' = scTroubles + 1
  /\ scBroken' = IF scAt = Nobody THEN scBroken
                 ELSE [scBroken EXCEPT ![scAt] = @ + 1]
  /\ scRunning' = FALSE /\ scAt' = Nobody /\ scScan' = {}
  /\ UNCHANGED <<scCount, scScheduled, scDue, scBegun, scDone>>

ScNext ==
  \/ ScheduleDeliver
  \/ \E m \in Message : DelayOver(m)
  \/ BeginPass
  \/ HandlerReturns
  \/ HandlerRaises
  \/ Stop

ScSpec == ScInit /\ [][ScNext]_scVars

-----------------------------------------------------------------------------
\* Whatever raises or is stopped, and however passes and restarts follow each
\* other, a scheduled message is either still scheduled or its handler came
\* back once, never both and never twice (_delivery_loop deletes it with no
\* await in between); each further call of the handler broke off.
DeliveredOnce ==
  \A m \in 1..scCount :
    /\ scDone[m] = IF m \in scScheduled THEN 0 ELSE 1
    /\ scBegun[m] = scDone[m] + scBroken[m] + (IF scAt = m THEN 1 ELSE 0)
=============================================================================
