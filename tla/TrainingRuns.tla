---------------------------- MODULE TrainingRuns ----------------------------
(***************************************************************************)
(* The training wizard of the desktop application: /train/start remembers  *)
(* a configuration, /train/stream runs it in an asynchronous generator     *)
(* that reports epochs to its client, /train/stop raises a flag.  The      *)
(* state of the run is one dictionary of the module, whoever opens         *)
(* /train/stream and however often.                                        *)
(***************************************************************************)
EXTENDS Naturals

CONSTANTS
  TnStream,     \* bound: the streams opened
  TnMaxEpochs,  \* epochs of a run
  TnSaveEvery   \* a checkpoint is written every so many epochs (5)

ASSUME TnAssumption == TnMaxEpochs \in Nat \ {0} /\ TnSaveEvery \in Nat \ {0}

VARIABLES
  tnPending,   \* whether /train/start was called
  tnActive,    \* _run_state["active"]
  tnCancel,    \* _run_state["cancel"]
  tnMetrics,   \* _run_state["metrics"], as <<stream, epoch>>
  tnAt,        \* where each generator is
  tnEpoch,
  tnSaved,     \* tnSaved[s]: epochs whose checkpoint s wrote
  tnTold,      \* tnTold[s]: the kinds of the last events s sent
  tnShown,     \* tnShown[s]: the metrics of its "done"
  tnAsked,     \* runs asked to stop
  tnDeaf,      \* those that began another epoch all the same
  tnOverlap    \* runs whose generator was open at the same time as another's

tnVars == <<tnPending, tnActive, tnCancel, tnMetrics, tnAt, tnEpoch, tnSaved,
            tnTold, tnShown, tnAsked, tnDeaf, tnOverlap>>

Going == {s \in TnStream : tnAt[s] \in {"top", "batches", "validate"}}
\* With the generators that only wait at their last yields.
Open == {s \in TnStream : tnAt[s] \notin {"closed", "over"}}

TnInit ==
  /\ tnPending = FALSE /\ tnActive = FALSE /\ tnCancel = FALSE /\ tnMetrics = {}
  /\ tnAt = [s \in TnStream |-> "closed"]
  /\ tnEpoch = [s \in TnStream |-> 1]
  /\ tnSaved = [s \in TnStream |-> {}]
  /\ tnTold = [s \in TnStream |-> {}]
  /\ tnShown = [s \in TnStream |-> {}]
  /\ tnAsked = {} /\ tnDeaf = {} /\ tnOverlap = {}

\* /train/start
TrainStart ==
  /\ ~tnActive
  /\ tnPending' = TRUE
  /\ UNCHANGED <<tnActive, tnCancel, tnMetrics, tnAt, tnEpoch, tnSaved, tnTold,
                 tnShown, tnAsked, tnDeaf, tnOverlap>>

\* /train/stream does not look at "active".
BeginRun(s) ==
  /\ tnPending /\ tnAt[s] = "closed"
  /\ tnActive' = TRUE /\ tnCancel' = FALSE /\ tnMetrics' = {}
  /\ tnAt' = [tnAt EXCEPT ![s] = "top"]
  /\ tnOverlap' = IF Open = {} THEN tnOverlap ELSE tnOverlap \cup Open \cup {s}
  /\ UNCHANGED <<tnPending, tnEpoch, tnSaved, tnTold, tnShown, tnAsked, tnDeaf>>

\* The generator sends the event and waits there for its client.
Tell(s, event, step) ==
  /\ tnAt' = [tnAt EXCEPT ![s] = step]
  /\ tnTold' = [tnTold EXCEPT ![s] = @ \cup {event}]
  /\ UNCHANGED <<tnPending, tnActive, tnCancel, tnMetrics, tnEpoch, tnSaved,
                 tnAsked, tnDeaf, tnOverlap>>

NextEpoch(s) ==
  /\ tnAt[s] = "top" /\ tnEpoch[s] <= TnMaxEpochs /\ ~tnCancel
  /\ tnAt' = [tnAt EXCEPT ![s] = "batches"]
  /\ tnDeaf' = IF s \in tnAsked THEN tnDeaf \cup {s} ELSE tnDeaf
  /\ UNCHANGED <<tnPending, tnActive, tnCancel, tnMetrics, tnEpoch, tnSaved,
                 tnTold, tnShown, tnAsked, tnOverlap>>

Cancelled(s) ==
  /\ tnAt[s] = "top" /\ tnEpoch[s] <= TnMaxEpochs /\ tnCancel
  /\ Tell(s, "cancelled", "cancelled")
  /\ UNCHANGED tnShown

\* After the last epoch, and after "cancelled" too.
Done(s) ==
  /\ \/ tnAt[s] = "top" /\ tnEpoch[s] > TnMaxEpochs
     \/ tnAt[s] = "cancelled"
  /\ Tell(s, "done", "last")
  /\ tnShown' = [tnShown EXCEPT ![s] = tnMetrics]

\* An await after each batch; the flag ends the batches of the epoch early.
Batches(s) ==
  /\ tnAt[s] = "batches"
  /\ tnAt' = [tnAt EXCEPT ![s] = "validate"]
  /\ UNCHANGED <<tnPending, tnActive, tnCancel, tnMetrics, tnEpoch, tnSaved,
                 tnTold, tnShown, tnAsked, tnDeaf, tnOverlap>>

\* Mutant: the last epoch is nothing special.
SavedAfterSome(e) == e % TnSaveEvery = 0
SavedAfter(e) == e % TnSaveEvery = 0 \/ e = TnMaxEpochs

\* After the validation, which an await may interrupt too.
EpochOver(s) ==
  /\ tnAt[s] = "validate"
  /\ tnSaved' = [tnSaved EXCEPT ![s] =
                   IF SavedAfter(tnEpoch[s]) THEN @ \cup {tnEpoch[s]} ELSE @]
  /\ tnMetrics' = tnMetrics \cup {<<s, tnEpoch[s]>>}
  /\ tnEpoch' = [tnEpoch EXCEPT ![s] = @ + 1]
  /\ tnAt' = [tnAt EXCEPT ![s] = "top"]
  /\ UNCHANGED <<tnPending, tnActive, tnCancel, tnTold, tnShown, tnAsked,
                 tnDeaf, tnOverlap>>

\* Something raised, the writing of the checkpoint for one.
Raised(s) ==
  /\ s \in Going
  /\ Tell(s, "error", "last")
  /\ UNCHANGED tnShown

\* The finally, whoever has set the flag meanwhile: after the last event, or as
\* soon or as late as a generator without a client is closed.
Over(s) ==
  /\ s \in Open
  /\ tnAt' = [tnAt EXCEPT ![s] = "over"]
  /\ tnActive' = FALSE
  /\ UNCHANGED <<tnPending, tnCancel, tnMetrics, tnEpoch, tnSaved, tnTold,
                 tnShown, tnAsked, tnDeaf, tnOverlap>>

\* /train/stop
TrainStop ==
  /\ tnCancel' = TRUE /\ tnAsked' = tnAsked \cup Going
  /\ UNCHANGED <<tnPending, tnActive, tnMetrics, tnAt, tnEpoch, tnSaved, tnTold,
                 tnShown, tnDeaf, tnOverlap>>

TnNext ==
  \/ TrainStart \/ TrainStop
  \/ \E s \in TnStream :
       \/ BeginRun(s) \/ NextEpoch(s) \/ Batches(s) \/ EpochOver(s)
       \/ Cancelled(s) \/ Done(s) \/ Raised(s) \/ Over(s)

TnSpec == TnInit /\ [][TnNext]_tnVars

-----------------------------------------------------------------------------
\* A run that says "done" and not "cancelled" has written the checkpoint it
\* names, whatever other streams did to the shared flags and metrics.  The
\* metrics it shows are those of its own epochs, with those of runs it overlapped
\* with at most: the list is emptied by one run and filled by all.  A stop goes
\* unheard, and a run unseen by /train/status, only where generators overlapped.
\* /train/start is never refused when no generator is open any more.
DoneIsSaved ==
  /\ \A s \in TnStream :
       "done" \in tnTold[s] =>
         /\ "cancelled" \notin tnTold[s] => TnMaxEpochs \in tnSaved[s]
         /\ s \notin tnOverlap => tnShown[s] = {s} \X (1..(tnEpoch[s] - 1))
         /\ \A m \in tnShown[s] : m[1] = s \/ {m[1], s} \subseteq tnOverlap
  /\ tnDeaf \subseteq tnOverlap
  /\ tnActive => Open # {}
  /\ ~tnActive => Open \subseteq tnOverlap
=============================================================================
