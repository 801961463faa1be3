--------------------------- MODULE RoundTimeouts ---------------------------
(***************************************************************************)
(* TimeoutManager: rounds are tracked from their start to their end.  A    *)
(* background check, once somebody starts it, scans them periodically,     *)
(* calls on_timeout for each round that is over its time and then stops    *)
(* tracking it.                                                            *)
(*                                                                         *)
(* The callback may be a plain function (QoIMessageHandler passes          *)
(* _on_timeout_by_round) or a coroutine.  The scan is one step in the      *)
(* first case; in the second every other coroutine may run while it waits. *)
(*                                                                         *)
(* A start is known by its number: all starts have the same timeout_secs,  *)
(* so they run out in that order, and so does the scan go over them.       *)
(***************************************************************************)
EXTENDS Naturals

CONSTANTS
  TmRound,     \* round ids
  TmMaxStarts  \* bound: calls of start_round that track something

VARIABLES
  tmActive,    \* tmActive[r]: the start that r is tracked for, 0 if none
  tmStarts,    \* number of starts so far
  tmElapsed,   \* the starts 1..tmElapsed are over their time
  tmAsync,     \* on_timeout is a coroutine
  tmChecking,  \* _background_running: _check_loop is a task
  tmScan,      \* the rest of the running scan's snapshot, as <<round, start>>
  tmWaits,     \* the <<round, start>> whose callback is awaited, or NoCallback
  tmFired,     \* <<round, start>> whose callback was called
  tmEnded,     \* starts ended by end_round
  tmLate,      \* starts whose callback was called after end_round
  tmLost       \* <<round, start>> dropped by a scan without their callback

tmVars == <<tmActive, tmStarts, tmElapsed, tmAsync, tmChecking, tmScan,
            tmWaits, tmFired, tmEnded, tmLate, tmLost>>

NoCallback == <<>>
Tracked == {<<r, tmActive[r]>> : r \in {q \in TmRound : tmActive[q] # 0}}
\* Mutant: is_timed_out holds only at the very moment.
DueNow(S) == {e \in S : e[2] = tmElapsed}
Due(S) == {e \in S : e[2] <= tmElapsed}
First(S) == CHOOSE e \in S : \A d \in S : e[2] <= d[2]

TmInit ==
  /\ tmActive = [r \in TmRound |-> 0] /\ tmStarts = 0 /\ tmElapsed = 0
  /\ tmAsync \in BOOLEAN /\ tmChecking = FALSE
  /\ tmScan = {} /\ tmWaits = NoCallback
  /\ tmFired = {} /\ tmEnded = {} /\ tmLate = {} /\ tmLost = {}

\* A round already tracked keeps its first start (a warning is logged).
StartRound(r) ==
  /\ tmActive[r] = 0 /\ tmStarts < TmMaxStarts
  /\ tmStarts' = tmStarts + 1
  /\ tmActive' = [tmActive EXCEPT ![r] = tmStarts + 1]
  /\ UNCHANGED <<tmElapsed, tmAsync, tmChecking, tmScan, tmWaits, tmFired,
                 tmEnded, tmLate, tmLost>>

\* Mutant: the round is not deleted.
EndRoundKept(r) ==
  /\ tmActive[r] # 0
  /\ tmEnded' = tmEnded \cup {tmActive[r]}
  /\ UNCHANGED <<tmActive, tmStarts, tmElapsed, tmAsync, tmChecking, tmScan,
                 tmWaits, tmFired, tmLate, tmLost>>

EndRound(r) ==
  /\ tmActive[r] # 0
  /\ tmEnded' = tmEnded \cup {tmActive[r]}
  /\ tmActive' = [tmActive EXCEPT ![r] = 0]
  /\ UNCHANGED <<tmStarts, tmElapsed, tmAsync, tmChecking, tmScan, tmWaits,
                 tmFired, tmLate, tmLost>>

RunOut ==
  /\ tmElapsed < tmStarts
  /\ tmElapsed' = tmElapsed + 1
  /\ UNCHANGED <<tmActive, tmStarts, tmAsync, tmChecking, tmScan, tmWaits,
                 tmFired, tmEnded, tmLate, tmLost>>

\* start_background_check; the message handler starts rounds and does not
\* call it.
StartBackgroundCheck ==
  /\ ~tmChecking
  /\ tmChecking' = TRUE
  /\ UNCHANGED <<tmActive, tmStarts, tmElapsed, tmAsync, tmScan, tmWaits,
                 tmFired, tmEnded, tmLate, tmLost>>

\* stop_background_check cancels the task, in the middle of a callback too:
\* the round of that callback stays tracked.
StopBackgroundCheck ==
  /\ tmChecking
  /\ tmChecking' = FALSE /\ tmScan' = {} /\ tmWaits' = NoCallback
  /\ UNCHANGED <<tmActive, tmStarts, tmElapsed, tmAsync, tmFired, tmEnded,
                 tmLate, tmLost>>

\* A scan with a plain callback.
CheckTimeouts ==
  /\ tmChecking /\ ~tmAsync /\ Due(Tracked) # {}
  /\ tmFired' = tmFired \cup Due(Tracked)
  /\ tmActive' = [r \in TmRound |->
                    IF <<r, tmActive[r]>> \in Due(Tracked) THEN 0 ELSE tmActive[r]]
  /\ tmLate' = tmLate \cup {n \in tmEnded : \E e \in Due(Tracked) : e[2] = n}
  /\ UNCHANGED <<tmStarts, tmElapsed, tmAsync, tmChecking, tmScan, tmWaits,
                 tmEnded, tmLost>>

\* A scan with a coroutine goes over S up to the next round that is over
\* its time, and awaits the callback for it.
ScanOver(S) ==
  IF Due(S) = {}
  THEN tmScan' = {} /\ tmWaits' = NoCallback /\ UNCHANGED <<tmFired, tmLate>>
  ELSE LET e == First(Due(S)) IN
       /\ tmScan' = {d \in S : d[2] > e[2]}
       /\ tmWaits' = e
       /\ tmFired' = tmFired \cup {e}
       /\ tmLate' = IF e[2] \in tmEnded THEN tmLate \cup {e[2]} ELSE tmLate

BeginScan ==
  /\ tmChecking /\ tmAsync /\ tmWaits = NoCallback /\ Due(Tracked) # {}
  /\ ScanOver(Tracked)
  /\ UNCHANGED <<tmActive, tmStarts, tmElapsed, tmAsync, tmChecking, tmEnded,
                 tmLost>>

\* The awaited callback is back: whatever the round id is tracked for now is
\* deleted.  If it is not tracked, KeyError ends the scan and the loop logs it.
CallbackBack ==
  /\ tmWaits # NoCallback
  /\ LET r == tmWaits[1] IN
       IF tmActive[r] = 0
       THEN /\ tmScan' = {} /\ tmWaits' = NoCallback
            /\ UNCHANGED <<tmActive, tmFired, tmLate, tmLost>>
       ELSE /\ tmActive' = [tmActive EXCEPT ![r] = 0]
            /\ tmLost' = tmLost \cup ({<<r, tmActive[r]>>} \ tmFired)
            /\ ScanOver(tmScan)
  /\ UNCHANGED <<tmStarts, tmElapsed, tmAsync, tmChecking, tmEnded>>

TmNext ==
  \/ \E r \in TmRound : StartRound(r) \/ EndRound(r)
  \/ RunOut
  \/ StartBackgroundCheck \/ StopBackgroundCheck
  \/ CheckTimeouts
  \/ BeginScan
  \/ CallbackBack

\* Time passes, _check_loop goes on scanning while it is a task, and a
\* callback comes back.  Nobody is bound to start the check.
TmFairness == /\ WF_tmVars(RunOut) /\ WF_tmVars(CheckTimeouts)
              /\ WF_tmVars(BeginScan) /\ WF_tmVars(CallbackBack)

TmSpec == TmInit /\ [][TmNext]_tmVars /\ TmFairness

-----------------------------------------------------------------------------
\* With a plain callback the manager is exact: no callback after the end of a
\* round and no start that is dropped unheard.  With a coroutine a start is
\* dropped only by the scan that timed out an earlier start of the same round
\* id (check_timeouts deletes by id after the await).
TimeoutsExact ==
  /\ ~tmAsync => tmLost = {} /\ tmLate = {}
  /\ \A e \in tmLost : \E d \in tmFired : d[1] = e[1] /\ d[2] < e[2]

\* A round that is neither ended nor dropped gets its callback.
CallbackComes ==
  \A n \in 1..TmMaxStarts :
    tmStarts >= n ~> \/ n \in tmEnded
                     \/ \E r \in TmRound : <<r, n>> \in tmFired \cup tmLost

\* Once the background check runs and is not stopped again, every round that
\* stalls gets its callback, those that stalled before it ran and those whose
\* callback an earlier stop cut off included (_check_loop, check_timeouts).
CheckedRoundFires == <>[]tmChecking => CallbackComes

-----------------------------------------------------------------------------
(* What the repository says of rounds that stall and the code does not do. *)

\* "Timeout manager - fires _on_timeout when a round stalls" and "Register the
\* current round with TimeoutManager so view changes fire automatically"
\* (message_handler.py, __init__ and _schedule_timeout).
StalledRoundFires == CallbackComes
=============================================================================
