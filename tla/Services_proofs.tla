-------------------------- MODULE Services_proofs ---------------------------
(***************************************************************************)
(* The components around the consensus, each for every value of its        *)
(* constants: the inductive invariant of the component (...Inv), its         *)
(* preservation, and the theorem. The components share no state and        *)
(* nothing of one part is used by another.                                 *)
(***************************************************************************)
EXTENDS RoundTimeouts, DelayedDelivery, CommitThreads, EventLog, StreamClients,
        ModelStore, TrainingRuns, ClientSubmissions, ImageFetch, PeerDirectory,
        Induction

-----------------------------------------------------------------------------
(* Timeout manager. TimeoutsExact needs that a start that is tracked was   *)
(* not ended (TmOwn), that what a scan holds of a round is no later than   *)
(* what the round is tracked for (TmScanIsOld), and that what is awaited   *)
(* was called (TmAwaited).                                                 *)

TmEntry == TmRound \X (1..tmStarts)

TmShaped ==
  /\ tmActive \in [TmRound -> 0..tmStarts] /\ tmStarts \in Nat
  /\ tmAsync \in BOOLEAN
  /\ tmScan \subseteq TmEntry
  /\ tmWaits \in TmEntry \cup {NoCallback}
  /\ tmEnded \subseteq 1..tmStarts

\* A start that is still tracked was not ended, and no two rounds share one.
TmOwn ==
  \A r \in TmRound : tmActive[r] # 0 =>
    /\ tmActive[r] \notin tmEnded
    /\ \A q \in TmRound : tmActive[q] = tmActive[r] => q = r

\* What a scan holds of a round is no later than what the round is tracked for.
TmScanIsOld ==
  \A e \in tmScan \cup {tmWaits} : e # NoCallback /\ tmActive[e[1]] # 0 =>
    e[2] <= tmActive[e[1]]

\* Nothing is awaited with a plain callback; what is awaited was called.
TmAwaited ==
  /\ ~tmAsync => tmWaits = NoCallback
  /\ tmWaits # NoCallback => tmWaits \in tmFired

TmInv == TmShaped /\ TmOwn /\ TmScanIsOld /\ TmAwaited /\ TimeoutsExact

LEMMA TmFirst ==
  ASSUME NEW S \in SUBSET TmEntry, S # {}, tmStarts \in Nat
  PROVE  First(S) \in S
<1> DEFINE N == {e[2] : e \in S}
<1>1. N \in SUBSET Nat /\ N # {}
  BY DEF TmEntry
<1>2. PICK m \in N : \A k \in N : m <= k
  <2> HIDE DEF N
  <2> QED BY <1>1, LeastNat
<1>3. \E e \in S : \A d \in S : e[2] <= d[2]
  BY <1>2
<1> QED BY <1>3 DEF First

LEMMA TmScanOver ==
  ASSUME TmInv, NEW S \in SUBSET TmEntry, ScanOver(S),
         \A e \in S : tmActive'[e[1]] # 0 => e[2] <= tmActive'[e[1]],
         UNCHANGED <<tmStarts, tmAsync>>
  PROVE  /\ tmScan' \subseteq TmEntry' /\ tmWaits' \in (TmEntry \cup {NoCallback})'
         /\ TmScanIsOld' /\ (tmWaits' # NoCallback => tmWaits' \in tmFired')
         /\ tmFired \subseteq tmFired'
<1>1. Due(S) \subseteq S /\ TmEntry' = TmEntry
  BY DEF Due, TmEntry
<1>2. CASE Due(S) = {}
  BY <1>1, <1>2 DEF ScanOver, TmScanIsOld
<1>3. CASE Due(S) # {}
  <2> DEFINE e == First(Due(S))
  <2>1. e \in S /\ e \in TmEntry
    BY <1>1, <1>3, TmFirst DEF TmInv, TmShaped
  <2>2. /\ tmScan' \subseteq S /\ tmWaits' = e /\ tmFired' = tmFired \cup {e}
    BY <1>3 DEF ScanOver
  <2> HIDE DEF e
  <2> QED BY <1>1, <2>1, <2>2 DEF TmScanIsOld
<1> QED BY <1>2, <1>3

LEMMA TmInvNext == TmInv /\ [TmNext]_tmVars => TmInv'
<1> SUFFICES ASSUME TmInv, [TmNext]_tmVars PROVE TmInv'
  OBVIOUS
<1>1. ASSUME NEW r \in TmRound, StartRound(r) PROVE TmInv'
  BY <1>1 DEF StartRound, TmInv, TmShaped, TmOwn, TmScanIsOld, TmAwaited, TimeoutsExact, TmEntry, NoCallback
<1>2. ASSUME NEW r \in TmRound, EndRound(r) PROVE TmInv'
  <2>1. /\ tmActive' = [tmActive EXCEPT ![r] = 0] /\ tmActive[r] \in 1..tmStarts
        /\ tmEnded' = tmEnded \cup {tmActive[r]}
        /\ UNCHANGED <<tmStarts, tmElapsed, tmAsync, tmScan, tmWaits, tmFired,
                       tmLate, tmLost>>
    BY <1>2 DEF EndRound, TmInv, TmShaped
  <2>2. TmShaped'
    <3>1. TmEntry' = TmEntry
      BY <2>1 DEF TmEntry
    <3>2. tmActive' \in [TmRound -> 0..tmStarts]
      BY <2>1 DEF TmInv, TmShaped
    <3> QED BY <2>1, <3>1, <3>2 DEF TmInv, TmShaped
  <2>3. TmOwn'
    BY <2>1 DEF TmInv, TmShaped, TmOwn
  <2>4. TmScanIsOld' /\ TmAwaited' /\ TimeoutsExact'
    BY <2>1 DEF TmInv, TmShaped, TmScanIsOld, TmAwaited, TimeoutsExact, TmEntry, NoCallback
  <2> QED BY <2>2, <2>3, <2>4 DEF TmInv
<1>3. CASE RunOut
  BY <1>3 DEF RunOut, TmInv, TmShaped, TmOwn, TmScanIsOld, TmAwaited, TimeoutsExact, TmEntry, NoCallback
<1>4. CASE CheckTimeouts
  <2>1. {n \in tmEnded : \E e \in Due(Tracked) : e[2] = n} = {}
    BY DEF TmInv, TmShaped, TmOwn, Due, Tracked
  <2>2. \A r \in TmRound : tmActive'[r] \in {0, tmActive[r]}
    BY <1>4 DEF CheckTimeouts
  <2>3. /\ tmFired \subseteq tmFired' /\ tmLate' = tmLate /\ ~tmAsync
        /\ UNCHANGED <<tmStarts, tmElapsed, tmAsync, tmScan, tmWaits, tmEnded, tmLost>>
        /\ DOMAIN tmActive' = TmRound
    BY <1>4, <2>1 DEF CheckTimeouts
  <2>4. tmActive' \in [TmRound -> 0..tmStarts]
    BY <1>4 DEF CheckTimeouts, TmInv, TmShaped
  <2> QED BY <2>2, <2>3, <2>4 DEF TmInv, TmShaped, TmOwn, TmScanIsOld, TmAwaited, TimeoutsExact, TmEntry, NoCallback
<1>5. CASE BeginScan
  <2>1. Tracked \subseteq TmEntry /\ \A e \in Tracked : e[2] <= tmActive[e[1]]
    BY DEF TmInv, TmShaped, Tracked, TmEntry
  <2>2. UNCHANGED <<tmActive, tmStarts, tmElapsed, tmAsync, tmEnded, tmLost>> /\ tmAsync /\ ScanOver(Tracked)
    BY <1>5 DEF BeginScan
  <2>3. /\ tmScan' \subseteq TmEntry' /\ tmWaits' \in (TmEntry \cup {NoCallback})'
        /\ TmScanIsOld' /\ (tmWaits' # NoCallback => tmWaits' \in tmFired')
        /\ tmFired \subseteq tmFired'
    BY <2>1, <2>2, TmScanOver
  <2> QED BY <2>2, <2>3 DEF TmInv, TmShaped, TmOwn, TmAwaited, TimeoutsExact
<1>6. CASE CallbackBack
  <2> DEFINE r == tmWaits[1]
  <2>1. /\ tmWaits # NoCallback /\ tmWaits \in tmFired /\ tmAsync
        /\ tmWaits \in TmEntry /\ r \in TmRound
        /\ UNCHANGED <<tmStarts, tmElapsed, tmAsync, tmEnded>>
    BY <1>6 DEF CallbackBack, TmInv, TmAwaited, TmShaped, TmEntry
  <2>2. CASE tmActive[r] = 0
    BY <1>6, <2>1, <2>2 DEF CallbackBack, TmInv, TmShaped, TmOwn, TmScanIsOld, TmAwaited, TimeoutsExact, TmEntry, NoCallback
  <2>3. CASE tmActive[r] # 0
    <3>1. /\ tmActive' = [tmActive EXCEPT ![r] = 0]
          /\ tmLost' = tmLost \cup ({<<r, tmActive[r]>>} \ tmFired)
          /\ ScanOver(tmScan)
      BY <1>6, <2>3 DEF CallbackBack
    <3>2. \A e \in tmScan : tmActive'[e[1]] # 0 => e[2] <= tmActive'[e[1]]
      <4>1. \A e \in tmScan : e \in TmEntry /\ e # NoCallback /\ e[1] \in TmRound
        BY DEF TmInv, TmShaped, TmEntry, NoCallback
      <4> QED BY <3>1, <4>1 DEF TmInv, TmShaped, TmScanIsOld
    <3>3. /\ tmScan' \subseteq TmEntry' /\ tmWaits' \in (TmEntry \cup {NoCallback})'
          /\ TmScanIsOld' /\ (tmWaits' # NoCallback => tmWaits' \in tmFired')
          /\ tmFired \subseteq tmFired'
      BY <2>1, <3>1, <3>2, TmScanOver DEF TmInv, TmShaped
    <3>4. tmWaits[2] <= tmActive[r] /\ tmWaits = <<r, tmWaits[2]>>
      BY <2>1, <2>3 DEF TmInv, TmScanIsOld, TmEntry
    <3>5. <<r, tmActive[r]>> \notin tmFired => tmWaits[1] = r /\ tmWaits[2] < tmActive[r]
      BY <2>1, <3>4 DEF TmInv, TmShaped, TmEntry
    <3>6. TimeoutsExact'
      BY <2>1, <3>1, <3>3, <3>5 DEF TmInv, TimeoutsExact
    <3>7. TmShaped' /\ TmOwn'
      BY <2>1, <3>1, <3>3 DEF TmInv, TmShaped, TmOwn
    <3> QED BY <2>1, <3>3, <3>6, <3>7 DEF TmInv, TmAwaited
  <2> QED BY <2>2, <2>3
<1>7. CASE UNCHANGED tmVars
  BY <1>7 DEF tmVars, TmInv, TmShaped, TmOwn, TmScanIsOld, TmAwaited, TimeoutsExact, TmEntry, NoCallback
<1>8. CASE StartBackgroundCheck \/ StopBackgroundCheck
  <2>1. /\ UNCHANGED <<tmActive, tmStarts, tmElapsed, tmAsync, tmFired, tmEnded,
                       tmLate, tmLost>>
        /\ tmScan' \in {tmScan, {}} /\ tmWaits' \in {tmWaits, NoCallback}
        /\ TmEntry' = TmEntry
    BY <1>8 DEF StartBackgroundCheck, StopBackgroundCheck, TmEntry
  <2>2. TmShaped' /\ TmOwn' /\ TmAwaited' /\ TimeoutsExact'
    BY <2>1 DEF TmInv, TmShaped, TmOwn, TmAwaited, TimeoutsExact
  <2>3. TmScanIsOld'
    BY <2>1 DEF TmInv, TmScanIsOld
  <2> QED BY <2>2, <2>3 DEF TmInv
<1> QED BY <1>1, <1>2, <1>3, <1>4, <1>5, <1>6, <1>7, <1>8 DEF TmNext

(* With a plain callback no callback comes after the end of its round and  *)
(* no start is dropped unheard; with a coroutine a start is dropped only   *)
(* by the scan that timed out an earlier start of the same round, for any  *)
(* rounds and starts (TimeoutManager.check_timeouts).                      *)
THEOREM TimersAreExact == TmSpec => []TimeoutsExact
<1>1. TmInit => TmInv
  BY DEF TmInit, TmInv, TmShaped, TmOwn, TmScanIsOld, TmAwaited, TimeoutsExact, NoCallback, TmEntry
<1>2. TmInv => TimeoutsExact
  BY DEF TmInv
<1> QED BY <1>1, <1>2, TmInvNext, PTL DEF TmSpec

-----------------------------------------------------------------------------
(* Message scheduler. DeliveredOnce is inductive together with the place   *)
(* of the message that is awaited: scheduled, and no longer in the pass    *)
(* (ScShaped).                                                             *)

ScShaped ==
  /\ scCount \in Nat /\ scScheduled \subseteq 1..scCount /\ scCount <= ScMaxMessages
  /\ scScan \subseteq scScheduled
  /\ scAt # Nobody => scAt \in scScheduled /\ scAt \notin scScan
  /\ scBegun \in [Message -> Nat] /\ scDone \in [Message -> Nat]
  /\ scBroken \in [Message -> Nat]

\* What is not scheduled yet was not touched.
ScUntouched ==
  \A m \in Message :
    m > scCount => scBegun[m] = 0 /\ scDone[m] = 0 /\ scBroken[m] = 0

ScInv == ScShaped /\ ScUntouched /\ DeliveredOnce

LEMMA ScNumbers ==
  ASSUME ScInv
  PROVE  /\ scScheduled \subseteq 1..scCount /\ scScan \subseteq scScheduled
         /\ 1..scCount \subseteq Message /\ 1..scCount \subseteq Nat
         /\ Nobody \notin 1..scCount /\ Nobody \notin Message
         /\ scAt # Nobody => scAt \in scScheduled /\ scAt \notin scScan
<1>1. /\ scScheduled \subseteq 1..scCount /\ scScan \subseteq scScheduled
      /\ scAt # Nobody => scAt \in scScheduled /\ scAt \notin scScan
      /\ scCount \in Nat /\ scCount <= ScMaxMessages
  BY DEF ScInv, ScShaped
<1>2. 1..scCount \subseteq Message /\ 1..scCount \subseteq Nat
  BY <1>1, ScAssumption DEF Message
<1>3. Nobody \notin 1..scCount /\ Nobody \notin Message
  BY <1>1, ScAssumption DEF Message, Nobody
<1> QED BY <1>1, <1>2, <1>3

LEMMA ScGoesOn ==
  ASSUME NEW S, S \subseteq Nat, GoOn(S)
  PROVE  \/ S = {} /\ scAt' = Nobody /\ scScan' = {} /\ scBegun' = scBegun
         \/ \E m \in S : /\ scAt' = m /\ scScan' = S \ {m}
                         /\ scBegun' = [scBegun EXCEPT ![m] = @ + 1]
<1>1. CASE S = {}
  BY <1>1 DEF GoOn
<1>2. CASE S # {}
  <2>1. \E x \in S : \A y \in S : x <= y
    BY <1>2, LeastNat
  <2>2. (CHOOSE x \in S : \A y \in S : x <= y) \in S
    BY <2>1
  <2> QED BY <1>2, <2>2 DEF GoOn
<1> QED BY <1>1, <1>2

\* The handler awaited came back (gone) or broke off, and the pass goes on.
LEMMA ScMovesOn ==
  ASSUME ScInv, scAt # Nobody, GoOn(scScan), scCount' = scCount,
         \/ /\ scDone' = [scDone EXCEPT ![scAt] = @ + 1]
            /\ scScheduled' = scScheduled \ {scAt} /\ scBroken' = scBroken
         \/ /\ scBroken' = [scBroken EXCEPT ![scAt] = @ + 1]
            /\ scDone' = scDone /\ scScheduled' = scScheduled
  PROVE  ScInv'
<1>1. /\ scScan \subseteq Nat /\ scAt \in 1..scCount /\ scAt \in Message
      /\ scScan \subseteq 1..scCount /\ 1..scCount \subseteq Message
      /\ scAt \notin scScan /\ Nobody \notin 1..scCount
  BY ScNumbers
<1>2. scScheduled' \subseteq 1..scCount /\ scScan \subseteq scScheduled'
  BY DEF ScInv, ScShaped
<1>3. /\ scDone' \in [Message -> Nat] /\ scBroken' \in [Message -> Nat]
      /\ \A m \in Message : m > scCount => scDone'[m] = 0 /\ scBroken'[m] = 0
      /\ \A m \in 1..scCount : scDone'[m] = IF m \in scScheduled' THEN 0 ELSE 1
      /\ \A m \in 1..scCount : scBegun[m] = scDone'[m] + scBroken'[m]
  <2>1. \A m \in 1..scCount :
          /\ scDone[m] \in Nat /\ scBroken[m] \in Nat
          /\ scDone[m] = IF m \in scScheduled THEN 0 ELSE 1
          /\ scBegun[m] = scDone[m] + scBroken[m] + (IF scAt = m THEN 1 ELSE 0)
    BY <1>1 DEF ScInv, ScShaped, DeliveredOnce
  <2>2. scAt \in scScheduled
    BY ScNumbers
  <2>3. CASE /\ scDone' = [scDone EXCEPT ![scAt] = @ + 1]
             /\ scScheduled' = scScheduled \ {scAt} /\ scBroken' = scBroken
    <3>1. scDone' \in [Message -> Nat] /\ scBroken' \in [Message -> Nat]
          /\ \A m \in Message : m > scCount => scDone'[m] = 0 /\ scBroken'[m] = 0
      BY <1>1, <2>3 DEF ScInv, ScShaped, ScUntouched
    <3>2. \A m \in Message : scDone'[m] = IF m = scAt THEN scDone[m] + 1 ELSE scDone[m]
      BY <1>1, <2>3 DEF ScInv, ScShaped
    <3>3. \A m \in 1..scCount : scDone'[m] = IF m \in scScheduled' THEN 0 ELSE 1
      BY <1>1, <2>1, <2>2, <2>3, <3>2
    <3>4. \A m \in 1..scCount : scBegun[m] = scDone'[m] + scBroken'[m]
      BY <1>1, <2>1, <2>3, <3>2
    <3> QED BY <3>1, <3>3, <3>4
  <2>4. CASE /\ scBroken' = [scBroken EXCEPT ![scAt] = @ + 1]
             /\ scDone' = scDone /\ scScheduled' = scScheduled
    <3>1. scDone' \in [Message -> Nat] /\ scBroken' \in [Message -> Nat]
          /\ \A m \in Message : m > scCount => scDone'[m] = 0 /\ scBroken'[m] = 0
      BY <1>1, <2>4 DEF ScInv, ScShaped, ScUntouched
    <3>2. \A m \in Message : scBroken'[m] = IF m = scAt THEN scBroken[m] + 1 ELSE scBroken[m]
      BY <1>1, <2>4 DEF ScInv, ScShaped
    <3>4. \A m \in 1..scCount : scBegun[m] = scDone'[m] + scBroken'[m]
      BY <1>1, <2>1, <2>4, <3>2
    <3> QED BY <2>1, <2>4, <3>1, <3>4
  <2> QED BY <2>3, <2>4
<1>4. CASE scScan = {} /\ scAt' = Nobody /\ scScan' = {} /\ scBegun' = scBegun
  <2>1. ScShaped' /\ ScUntouched'
    BY <1>2, <1>3, <1>4 DEF ScInv, ScShaped, ScUntouched
  <2>2. DeliveredOnce'
    <3>1. \A m \in 1..scCount : m # scAt' /\ scDone'[m] + scBroken'[m] + 0 = scDone'[m] + scBroken'[m]
      BY <1>1, <1>3, <1>4
    <3> QED BY <1>3, <1>4, <3>1 DEF DeliveredOnce
  <2> QED BY <2>1, <2>2 DEF ScInv
<1>5. ASSUME NEW m \in scScan, scAt' = m, scScan' = scScan \ {m},
             scBegun' = [scBegun EXCEPT ![m] = @ + 1]
      PROVE  ScInv'
  <2>1. m \in 1..scCount /\ m \in Message /\ m # Nobody
    BY <1>1
  <2>2. ScShaped' /\ ScUntouched'
    BY <1>2, <1>3, <1>5, <2>1 DEF ScInv, ScShaped, ScUntouched
  <2>3. DeliveredOnce'
    <3>1. \A k \in 1..scCount : scBegun'[k] = IF k = m THEN scBegun[k] + 1 ELSE scBegun[k]
      BY <1>1, <1>5 DEF ScInv, ScShaped
    <3>2. \A k \in 1..scCount : scBegun[k] = scDone'[k] + scBroken'[k]
                                /\ scDone'[k] \in Nat /\ scBroken'[k] \in Nat
      BY <1>1, <1>3
    <3>3. \A k \in 1..scCount : scBegun'[k] = scDone'[k] + scBroken'[k] + (IF m = k THEN 1 ELSE 0)
      BY <3>1, <3>2
    <3> QED BY <1>3, <1>5, <3>3 DEF DeliveredOnce
  <2> QED BY <2>2, <2>3 DEF ScInv
<1> QED BY <1>1, <1>4, <1>5, ScGoesOn

LEMMA ScInvNext == ScInv /\ [ScNext]_scVars => ScInv'
<1> SUFFICES ASSUME ScInv, [ScNext]_scVars PROVE ScInv'
  OBVIOUS
<1>1. CASE ScheduleDeliver
  <2>1. scCount + 1 \in Message
    BY <1>1, ScAssumption DEF ScheduleDeliver, ScInv, ScShaped, Message
  <2>2. ScShaped' /\ ScUntouched'
    BY <1>1, <2>1, ScAssumption
    DEF ScheduleDeliver, ScInv, ScShaped, ScUntouched, Message, Nobody
  <2>3. DeliveredOnce'
    BY <1>1, <2>1, ScAssumption
    DEF ScheduleDeliver, ScInv, ScShaped, ScUntouched, DeliveredOnce, Message, Nobody
  <2> QED BY <2>2, <2>3 DEF ScInv
<1>2. ASSUME NEW m \in Message, DelayOver(m) PROVE ScInv'
  BY <1>2 DEF DelayOver, ScInv, ScShaped, ScUntouched, DeliveredOnce
<1>3. CASE BeginPass
  <2>1. PICK m \in scScheduled : /\ scAt' = m /\ scScan' \subseteq scScheduled \ {m}
                                 /\ scBegun' = [scBegun EXCEPT ![m] = @ + 1]
    <3>1. scScheduled \cap scDue \subseteq Nat
      BY ScNumbers
    <3> QED BY <1>3, <3>1, ScGoesOn DEF BeginPass
  <2>2. m \in 1..scCount /\ m \in Message /\ m # Nobody
    BY ScAssumption DEF ScInv, ScShaped, Message, Nobody
  <2>3. ScShaped' /\ ScUntouched'
    BY <1>3, <2>1, <2>2 DEF BeginPass, ScInv, ScShaped, ScUntouched
  <2>4. DeliveredOnce'
    BY <1>3, <2>1, <2>2, ScAssumption
    DEF BeginPass, ScInv, ScShaped, DeliveredOnce, Message, Nobody
  <2> QED BY <2>3, <2>4 DEF ScInv
<1>4. CASE HandlerReturns
  BY <1>4, ScMovesOn DEF HandlerReturns
<1>5. CASE HandlerRaises
  BY <1>5, ScMovesOn DEF HandlerRaises
<1>6. CASE Stop
  <2>1. scAt # Nobody => scAt \in 1..scCount /\ scAt \in Message
    BY ScNumbers
  <2>2. 1..scCount \subseteq Message /\ Nobody \notin 1..scCount
    BY ScNumbers
  <2>3. ScShaped' /\ ScUntouched'
    BY <1>6, <2>1 DEF Stop, ScInv, ScShaped, ScUntouched
  <2>4. DeliveredOnce'
    <3>1. /\ scCount' = scCount /\ scScheduled' = scScheduled /\ scDone' = scDone
          /\ scBegun' = scBegun /\ scAt' = Nobody
          /\ scBroken' = IF scAt = Nobody THEN scBroken ELSE [scBroken EXCEPT ![scAt] = @ + 1]
      BY <1>6 DEF Stop
    <3>2. \A m \in 1..scCount :
            scBroken'[m] + 0 = scBroken[m] + (IF scAt = m THEN 1 ELSE 0)
            /\ scBroken[m] \in Nat /\ scBroken'[m] \in Nat /\ scDone[m] \in Nat
      BY <2>1, <2>2, <3>1 DEF ScInv, ScShaped
    <3>3. \A m \in 1..scCount : m # Nobody
      BY <2>2
    <3>4. \A m \in 1..scCount : scBegun[m] = scDone[m] + scBroken[m] + (IF scAt = m THEN 1 ELSE 0)
      BY DEF ScInv, DeliveredOnce
    <3>5. \A m \in 1..scCount : scBegun[m] = scDone[m] + scBroken'[m] + 0
      BY <3>2, <3>4
    <3> QED BY <3>1, <3>3, <3>5 DEF ScInv, DeliveredOnce
  <2> QED BY <2>3, <2>4 DEF ScInv
<1>7. CASE UNCHANGED scVars
  BY <1>7 DEF scVars, ScInv, ScShaped, ScUntouched, DeliveredOnce
<1> QED BY <1>1, <1>2, <1>3, <1>4, <1>5, <1>6, <1>7 DEF ScNext

(* For any number of messages, of handlers that raise and of calls of      *)
(* stop: a scheduled message is either still scheduled or its handler came *)
(* back once, and each further call of the handler broke off               *)
(* (MessageScheduler._delivery_loop).                                      *)
THEOREM MessagesAreDeliveredOnce == ScSpec => []DeliveredOnce
<1>1. ScInit => ScInv
  BY ScAssumption DEF ScInit, ScInv, ScShaped, ScUntouched, DeliveredOnce, Message, Nobody
<1>2. ScInv => DeliveredOnce
  BY DEF ScInv
<1> QED BY <1>1, <1>2, ScInvNext, PTL DEF ScSpec

-----------------------------------------------------------------------------
(* Commit threads. That no thread publishes twice while the phase is not   *)
(* set back: one that did reads COMMITTED as its next old phase            *)
(* (ThToldOnce). How often it is set back: only by threads that passed the *)
(* check before the first of them entered COMMIT; from then on there are   *)
(* none new (ThLate). That somebody publishes: the thread that finalises   *)
(* passed the check for phase COMMIT, so unless the phase was set back it  *)
(* read another old phase than COMMITTED (ThOldIsOld, ThSomeoneTells).     *)

ThPhases == {"PREPARE", "COMMIT", "COMMITTED"}
ThInside == {"store commit", "count commits", "finalise"}
ThAfterOld == {"check commit", "new phase"} \cup ThInside
ThLateSteps == {"store prepare", "count prepares", "enter commit"}
ThSteps == {"idle", "remember", "check prepare", "own commit", "answered", "old phase"}
             \cup ThAfterOld \cup ThLateSteps

ThShaped ==
  /\ thPool \in ThPools /\ thPhase \in ThPhases
  /\ thPublished \in Nat /\ thSetBack \in Nat /\ thToldBy \subseteq ThThread
  /\ thCommits \subseteq ThSender \cup {Self}
  /\ thAt \in [ThThread -> ThSteps]
  /\ thMsg \in [ThThread -> ThMessage \cup {Nothing}]
  /\ thOld \in [ThThread -> ThPhases \cup {Nothing}]

\* Only threads of the pool are busy, each with a message.
ThBusy == \A t \in ThThread : thAt[t] # "idle" => t <= thPool /\ thMsg[t] \in ThMessage

\* Who has published finds COMMITTED, now and when it looks for the old phase.
ThToldOnce ==
  \A t \in thToldBy : /\ thPhase = "COMMITTED" /\ t <= thPool
                      /\ thAt[t] \in ThAfterOld => thOld[t] = "COMMITTED"

\* Who passed the check saw COMMIT, and no COMMITTED before it.
ThOldIsOld ==
  \A t \in ThThread :
    /\ thAt[t] \in ThInside => thPhase # "PREPARE"
    /\ thSetBack = 0 => /\ thOld[t] = "COMMITTED" => thPhase = "COMMITTED"
                        /\ thAt[t] \in ThInside => thOld[t] # "COMMITTED"

\* Nobody finalises, and nothing is published, without the COMMITs for it.
ThWanted ==
  \/ thPhase = "COMMITTED" \/ thPublished > 0
  \/ \E t \in ThThread : thAt[t] = "finalise"
ThEnough == ThWanted => Cardinality(thCommits) >= ThQuorum

ThPublications == thPublished <= Cardinality(thToldBy) + thPool * thSetBack

\* The threads that may still set the phase to COMMIT.
ThLateOnes == {t \in ThThread : thAt[t] \in ThLateSteps}
ThLate == IF thPhase = "PREPARE" THEN thSetBack = 0
          ELSE thSetBack + Cardinality(ThLateOnes) <= thPool - 1

ThSomeoneTells ==
  thSetBack = 0 /\ thPhase = "COMMITTED" /\ thPublished = 0
    => \E t \in ThThread : thAt[t] = "new phase" /\ thOld[t] # "COMMITTED"

ThInv == /\ ThShaped /\ ThBusy /\ ThToldOnce /\ ThOldIsOld /\ ThEnough
         /\ ThPublications /\ ThLate /\ ThSomeoneTells

LEMMA PoolSizes ==
  /\ MaxPool \in Nat \ {0} /\ ThPools \subseteq Nat \ {0}
  /\ \A p \in ThPools : p <= MaxPool
BY ThreadsAssumption DEF MaxPool

(* COMMITs are only added, so there are never fewer of them.               *)
LEMMA MoreCommits ==
  ASSUME NEW S \in SUBSET (ThSender \cup {Self}), NEW T \in SUBSET (ThSender \cup {Self}),
         S \subseteq T, Cardinality(S) >= ThQuorum
  PROVE  Cardinality(T) >= ThQuorum
<1>0. IsFiniteSet(ThSender \cup {Self})
  BY FS_Singleton, FS_Union, ThreadsAssumption
<1>1. IsFiniteSet(T) /\ IsFiniteSet(S)
  BY <1>0, FS_Subset
<1>2. Cardinality(S) <= Cardinality(T)
  BY <1>1, FS_Subset
<1>3. Cardinality(S) \in Nat /\ Cardinality(T) \in Nat
  BY <1>1, FS_CardinalityType
<1> QED BY <1>2, <1>3, ThreadsAssumption

LEMMA ThreadsFit ==
  ASSUME NEW p \in ThPools, NEW S \in SUBSET ThThread, \A t \in S : t <= p
  PROVE  IsFiniteSet(S) /\ Cardinality(S) \in Nat /\ Cardinality(S) <= p
<1>1. p \in Nat /\ S \subseteq 1..p
  BY PoolSizes DEF ThThread
<1>2. IsFiniteSet(1..p) /\ Cardinality(1..p) = p
  BY <1>1, FS_Interval
<1> QED BY <1>1, <1>2, FS_Subset, FS_CardinalityType

(* Those that published and those that are late are threads of the pool.   *)
LEMMA ToldAndLateFit ==
  ASSUME ThShaped, ThBusy, ThToldOnce
  PROVE  /\ thPool \in Nat
         /\ IsFiniteSet(thToldBy) /\ Cardinality(thToldBy) \in Nat
         /\ Cardinality(thToldBy) <= thPool
         /\ IsFiniteSet(ThLateOnes) /\ Cardinality(ThLateOnes) \in Nat
         /\ Cardinality(ThLateOnes) <= thPool
<1>1. ThLateOnes \in SUBSET ThThread /\ \A t \in ThLateOnes : thAt[t] # "idle"
  <2>1. \A x \in ThLateOnes : x \in ThThread /\ thAt[x] \in ThLateSteps
    BY DEF ThLateOnes
  <2>2. "idle" \notin ThLateSteps
    BY DEF ThLateSteps
  <2> HIDE DEF ThLateOnes
  <2> QED BY <2>1, <2>2
<1>2. thPool \in ThPools /\ \A t \in ThLateOnes : t <= thPool
  BY <1>1 DEF ThShaped, ThBusy
<1>3. thToldBy \in SUBSET ThThread /\ \A t \in thToldBy : t <= thPool
  BY DEF ThShaped, ThToldOnce
<1> PICK L : L = ThLateOnes
  OBVIOUS
<1>4. IsFiniteSet(L) /\ Cardinality(L) \in Nat /\ Cardinality(L) <= thPool
  <2>1. L \in SUBSET ThThread /\ \A t \in L : t <= thPool
    BY <1>1, <1>2
  <2> QED BY <1>2, <2>1, ThreadsFit
<1>5. IsFiniteSet(thToldBy) /\ Cardinality(thToldBy) \in Nat /\ Cardinality(thToldBy) <= thPool
  BY <1>2, <1>3, ThreadsFit
<1> QED BY <1>2, <1>4, <1>5, PoolSizes

(* A step after which no other thread is late keeps the bound.             *)
LEMMA FewerLate ==
  ASSUME ThInv, ThLateOnes' \subseteq ThLateOnes, thPhase # "PREPARE",
         thPhase' # "PREPARE", UNCHANGED <<thPool, thSetBack>>
  PROVE  ThLate'
<1> PICK Q : Q = ThLateOnes'
  OBVIOUS
<1>1. /\ IsFiniteSet(ThLateOnes) /\ Cardinality(ThLateOnes) \in Nat
      /\ thPool \in Nat /\ thSetBack \in Nat
  BY ToldAndLateFit DEF ThInv, ThShaped
<1>2. Cardinality(Q) <= Cardinality(ThLateOnes) /\ Cardinality(Q) \in Nat
  <2> HIDE DEF ThLateOnes
  <2>1. Q \subseteq ThLateOnes
    OBVIOUS
  <2> QED BY <1>1, <2>1, FS_Subset, FS_CardinalityType
<1>3. thSetBack + Cardinality(ThLateOnes) <= thPool - 1
  BY DEF ThInv, ThLate
<1> QED BY <1>1, <1>2, <1>3 DEF ThLate

(* Steps that touch neither the phase nor what was published.              *)
LEMMA KeepsPublications ==
  ASSUME ThInv, UNCHANGED <<thPool, thPhase, thPublished, thSetBack, thToldBy>>,
         thPhase # "PREPARE" => ThLateOnes' \subseteq ThLateOnes
  PROVE  ThPublications' /\ ThLate'
<1>1. ThPublications'
  BY DEF ThInv, ThPublications
<1>2. CASE thPhase = "PREPARE"
  BY <1>1, <1>2 DEF ThInv, ThLate
<1>3. CASE thPhase # "PREPARE"
  BY <1>1, <1>3, FewerLate
<1> QED BY <1>2, <1>3

LEMMA ThInvInit == ThInit => ThInv
<1> SUFFICES ASSUME ThInit PROVE ThInv
  OBVIOUS
<1>1. ThShaped
  <2>1. /\ thPool \in ThPools /\ thPhase \in ThPhases
        /\ thPublished \in Nat /\ thSetBack \in Nat
        /\ thToldBy \subseteq ThThread /\ thCommits \subseteq ThSender \cup {Self}
    BY DEF ThInit, ThPhases
  <2>2. thAt \in [ThThread -> ThSteps]
    BY DEF ThInit, ThSteps
  <2>3. thMsg \in [ThThread -> ThMessage \cup {Nothing}]
    BY DEF ThInit
  <2>4. thOld \in [ThThread -> ThPhases \cup {Nothing}]
    BY DEF ThInit
  <2> QED BY <2>1, <2>2, <2>3, <2>4 DEF ThShaped
<1>2. ThBusy /\ ThToldOnce /\ ThOldIsOld /\ ThEnough /\ ThSomeoneTells /\ ThLate
  <2>1. ThBusy /\ ThToldOnce
    BY DEF ThInit, ThBusy, ThToldOnce
  <2>2. ThOldIsOld
    BY DEF ThInit, ThOldIsOld, ThInside, Nothing
  <2>3. ThEnough
    BY DEF ThInit, ThEnough, ThWanted
  <2>4. ThSomeoneTells /\ ThLate
    BY DEF ThInit, ThSomeoneTells, ThLate
  <2> QED BY <2>1, <2>2, <2>3, <2>4
<1>3. ThPublications
  BY PoolSizes, FS_EmptySet DEF ThInit, ThPublications
<1> QED BY <1>1, <1>2, <1>3 DEF ThInv

(* Every step of every thread keeps the invariant.                         *)
LEMMA ThInvNext == ThInv /\ [ThNext]_thVars => ThInv'
<1> SUFFICES ASSUME ThInv, [ThNext]_thVars PROVE ThInv'
  OBVIOUS
<1>1. ASSUME NEW t \in ThThread, NEW m \in ThMessage, TakeUp(t, m) PROVE ThInv'
  <2>1. ThShaped' /\ ThBusy'
    BY <1>1 DEF TakeUp, Goto, thCounts, ThInv, ThShaped, ThBusy, ThPhases, ThSteps, ThInside, ThAfterOld, ThLateSteps
  <2>2. ThToldOnce' /\ ThOldIsOld'
    BY <1>1 DEF TakeUp, Goto, thCounts, ThInv, ThShaped, ThToldOnce, ThOldIsOld, ThSteps, ThInside, ThAfterOld, ThLateSteps
  <2>3. ThEnough' /\ ThSomeoneTells'
    BY <1>1 DEF TakeUp, Goto, thCounts, ThInv, ThShaped, ThEnough, ThWanted, ThSomeoneTells
  <2>4. /\ UNCHANGED <<thPool, thPhase, thPublished, thSetBack, thToldBy>>
        /\ thPhase # "PREPARE" => ThLateOnes' \subseteq ThLateOnes
    BY <1>1 DEF TakeUp, Goto, thCounts, ThInv, ThShaped, ThLateOnes, ThLateSteps
  <2> QED BY <2>1, <2>2, <2>3, <2>4, KeepsPublications DEF ThInv
<1>2. ASSUME NEW t \in ThThread, Remember(t) PROVE ThInv'
  <2>1. ThShaped' /\ ThBusy'
    BY <1>2 DEF Remember, Goto, thCounts, ThInv, ThShaped, ThBusy, ThPhases, ThSteps, ThInside, ThAfterOld, ThLateSteps
  <2>2. ThToldOnce' /\ ThOldIsOld'
    BY <1>2 DEF Remember, Goto, thCounts, ThInv, ThShaped, ThToldOnce, ThOldIsOld, ThSteps, ThInside, ThAfterOld, ThLateSteps
  <2>3. ThEnough' /\ ThSomeoneTells'
    BY <1>2 DEF Remember, Goto, thCounts, ThInv, ThShaped, ThEnough, ThWanted, ThSomeoneTells
  <2>4. /\ UNCHANGED <<thPool, thPhase, thPublished, thSetBack, thToldBy>>
        /\ thPhase # "PREPARE" => ThLateOnes' \subseteq ThLateOnes
    BY <1>2 DEF Remember, Goto, thCounts, ThInv, ThShaped, ThLateOnes, ThLateSteps
  <2> QED BY <2>1, <2>2, <2>3, <2>4, KeepsPublications DEF ThInv
<1>3. ASSUME NEW t \in ThThread, CheckPrepare(t) PROVE ThInv'
  <2>1. ThShaped' /\ ThBusy'
    BY <1>3 DEF CheckPrepare, Goto, Leave, thCounts, Nothing, ThInv, ThShaped, ThBusy, ThPhases, ThSteps, ThInside, ThAfterOld, ThLateSteps
  <2>2. ThToldOnce' /\ ThOldIsOld'
    BY <1>3 DEF CheckPrepare, Goto, Leave, thCounts, Nothing, ThInv, ThShaped, ThToldOnce, ThOldIsOld, ThSteps, ThInside, ThAfterOld, ThLateSteps
  <2>3. ThEnough' /\ ThSomeoneTells'
    BY <1>3 DEF CheckPrepare, Goto, Leave, thCounts, Nothing, ThInv, ThShaped, ThEnough, ThWanted, ThSomeoneTells
  <2>4. /\ UNCHANGED <<thPool, thPhase, thPublished, thSetBack, thToldBy>>
        /\ thPhase # "PREPARE" => ThLateOnes' \subseteq ThLateOnes
    BY <1>3 DEF CheckPrepare, Goto, Leave, thCounts, Nothing, ThInv, ThShaped, ThLateOnes, ThLateSteps
  <2> QED BY <2>1, <2>2, <2>3, <2>4, KeepsPublications DEF ThInv
<1>4. ASSUME NEW t \in ThThread, CountPrepares(t) PROVE ThInv'
  <2>1. ThShaped' /\ ThBusy'
    BY <1>4 DEF CountPrepares, Goto, Leave, thCounts, Nothing, ThInv, ThShaped, ThBusy, ThPhases, ThSteps, ThInside, ThAfterOld, ThLateSteps
  <2>2. ThToldOnce' /\ ThOldIsOld'
    BY <1>4 DEF CountPrepares, Goto, Leave, thCounts, Nothing, ThInv, ThShaped, ThToldOnce, ThOldIsOld, ThSteps, ThInside, ThAfterOld, ThLateSteps
  <2>3. ThEnough' /\ ThSomeoneTells'
    BY <1>4 DEF CountPrepares, Goto, Leave, thCounts, Nothing, ThInv, ThShaped, ThEnough, ThWanted, ThSomeoneTells
  <2>4. /\ UNCHANGED <<thPool, thPhase, thPublished, thSetBack, thToldBy>>
        /\ thPhase # "PREPARE" => ThLateOnes' \subseteq ThLateOnes
    BY <1>4 DEF CountPrepares, Goto, Leave, thCounts, Nothing, ThInv, ThShaped, ThLateOnes, ThLateSteps
  <2> QED BY <2>1, <2>2, <2>3, <2>4, KeepsPublications DEF ThInv
<1>5. ASSUME NEW t \in ThThread, Answer(t) PROVE ThInv'
  <2>1. ThShaped' /\ ThBusy'
    BY <1>5 DEF Answer, Goto, Leave, thCounts, Nothing, ThInv, ThShaped, ThBusy, ThPhases, ThSteps, ThInside, ThAfterOld, ThLateSteps
  <2>2. ThToldOnce' /\ ThOldIsOld'
    BY <1>5 DEF Answer, Goto, Leave, thCounts, Nothing, ThInv, ThShaped, ThToldOnce, ThOldIsOld, ThSteps, ThInside, ThAfterOld, ThLateSteps
  <2>3. ThEnough' /\ ThSomeoneTells'
    BY <1>5 DEF Answer, Goto, Leave, thCounts, Nothing, ThInv, ThShaped, ThEnough, ThWanted, ThSomeoneTells
  <2>4. /\ UNCHANGED <<thPool, thPhase, thPublished, thSetBack, thToldBy>>
        /\ thPhase # "PREPARE" => ThLateOnes' \subseteq ThLateOnes
    BY <1>5 DEF Answer, Goto, Leave, thCounts, Nothing, ThInv, ThShaped, ThLateOnes, ThLateSteps
  <2> QED BY <2>1, <2>2, <2>3, <2>4, KeepsPublications DEF ThInv
<1>6. ASSUME NEW t \in ThThread, OldPhase(t) PROVE ThInv'
  <2>1. ThShaped' /\ ThBusy'
    BY <1>6 DEF OldPhase, Goto, thCounts, ThInv, ThShaped, ThBusy, ThPhases, ThSteps, ThInside, ThAfterOld, ThLateSteps
  <2>2. ThToldOnce' /\ ThOldIsOld'
    BY <1>6 DEF OldPhase, Goto, thCounts, ThInv, ThShaped, ThToldOnce, ThOldIsOld, ThSteps, ThInside, ThAfterOld, ThLateSteps
  <2>3. ThEnough' /\ ThSomeoneTells'
    BY <1>6 DEF OldPhase, Goto, thCounts, ThInv, ThShaped, ThEnough, ThWanted, ThSomeoneTells
  <2>4. /\ UNCHANGED <<thPool, thPhase, thPublished, thSetBack, thToldBy>>
        /\ thPhase # "PREPARE" => ThLateOnes' \subseteq ThLateOnes
    BY <1>6 DEF OldPhase, Goto, thCounts, ThInv, ThShaped, ThLateOnes, ThLateSteps
  <2> QED BY <2>1, <2>2, <2>3, <2>4, KeepsPublications DEF ThInv
<1>7. ASSUME NEW t \in ThThread, CheckCommit(t) PROVE ThInv'
  <2>1. ThShaped' /\ ThBusy'
    BY <1>7 DEF CheckCommit, Goto, thCounts, ThInv, ThShaped, ThBusy, ThPhases, ThSteps, ThInside, ThAfterOld, ThLateSteps
  <2>2. ThToldOnce' /\ ThOldIsOld'
    BY <1>7 DEF CheckCommit, Goto, thCounts, ThInv, ThShaped, ThToldOnce, ThOldIsOld, ThSteps, ThInside, ThAfterOld, ThLateSteps
  <2>3. ThEnough' /\ ThSomeoneTells'
    BY <1>7 DEF CheckCommit, Goto, thCounts, ThInv, ThShaped, ThEnough, ThWanted, ThSomeoneTells
  <2>4. /\ UNCHANGED <<thPool, thPhase, thPublished, thSetBack, thToldBy>>
        /\ thPhase # "PREPARE" => ThLateOnes' \subseteq ThLateOnes
    BY <1>7 DEF CheckCommit, Goto, thCounts, ThInv, ThShaped, ThLateOnes, ThLateSteps
  <2> QED BY <2>1, <2>2, <2>3, <2>4, KeepsPublications DEF ThInv
<1>8. ASSUME NEW t \in ThThread, CountCommits(t) PROVE ThInv'
  <2>1. ThShaped' /\ ThBusy'
    BY <1>8 DEF CountCommits, Goto, thCounts, ThInv, ThShaped, ThBusy, ThPhases, ThSteps, ThInside, ThAfterOld, ThLateSteps
  <2>2. ThToldOnce' /\ ThOldIsOld'
    BY <1>8 DEF CountCommits, Goto, thCounts, ThInv, ThShaped, ThToldOnce, ThOldIsOld, ThSteps, ThInside, ThAfterOld, ThLateSteps
  <2>3. ThEnough' /\ ThSomeoneTells'
    BY <1>8 DEF CountCommits, Goto, thCounts, ThInv, ThShaped, ThEnough, ThWanted, ThSomeoneTells
  <2>4. /\ UNCHANGED <<thPool, thPhase, thPublished, thSetBack, thToldBy>>
        /\ thPhase # "PREPARE" => ThLateOnes' \subseteq ThLateOnes
    BY <1>8 DEF CountCommits, Goto, thCounts, ThInv, ThShaped, ThLateOnes, ThLateSteps
  <2> QED BY <2>1, <2>2, <2>3, <2>4, KeepsPublications DEF ThInv
<1>9. ASSUME NEW t \in ThThread, Store(t) PROVE ThInv'
  <2>1. PICK broken \in SUBSET {u \in ThThread : Breaks(t, u)} :
          /\ thAt' = [u \in ThThread |-> IF u = t THEN AfterStore(thAt[t])
                                         ELSE IF u \in broken THEN "idle" ELSE thAt[u]]
          /\ thMsg' = [u \in ThThread |-> IF u \in broken THEN Nothing ELSE thMsg[u]]
          /\ thOld' = [u \in ThThread |-> IF u \in broken THEN Nothing ELSE thOld[u]]
    BY <1>9 DEF Store
  <2>2. /\ thAt[t] \in Stores /\ thCommits' = thCommits \cup NewCommits(t)
        /\ UNCHANGED <<thPool, thPhase, thPublished, thSetBack, thToldBy>>
    BY <1>9 DEF Store, thCounts
  <2>3. t \notin broken /\ \A u \in broken : thAt[u] \in {"count prepares", "finalise"}
    BY <2>1, <2>2 DEF Breaks, Stores
  <2>4. NewCommits(t) \subseteq ThSender \cup {Self}
    BY <2>2 DEF ThInv, ThBusy, Stores, NewCommits, ThMessage
  <2>5. /\ thAt'[t] = AfterStore(thAt[t]) /\ thMsg'[t] = thMsg[t] /\ thOld'[t] = thOld[t]
        /\ \A u \in broken : thAt'[u] = "idle" /\ thOld'[u] = Nothing
        /\ \A u \in ThThread \ (broken \cup {t}) :
             thAt'[u] = thAt[u] /\ thMsg'[u] = thMsg[u] /\ thOld'[u] = thOld[u]
    BY <2>1, <2>3
  <2>6. /\ AfterStore(thAt[t]) \in {"count prepares", "count commits", "answered"}
        /\ AfterStore(thAt[t]) = "count prepares" => thAt[t] = "store prepare"
        /\ AfterStore(thAt[t]) = "count commits" => thAt[t] = "store commit"
    BY <2>2 DEF AfterStore, Stores
  <2>7. ThShaped'
    <3>1. thAt' \in [ThThread -> ThSteps]
      BY <2>1, <2>6 DEF ThInv, ThShaped, ThSteps, ThInside, ThAfterOld, ThLateSteps
    <3>2. thMsg' \in [ThThread -> ThMessage \cup {Nothing}]
      BY <2>1 DEF ThInv, ThShaped
    <3>3. thOld' \in [ThThread -> ThPhases \cup {Nothing}]
      BY <2>1 DEF ThInv, ThShaped
    <3>4. thCommits' \subseteq ThSender \cup {Self}
      BY <2>2, <2>4 DEF ThInv, ThShaped
    <3> QED BY <2>2, <3>1, <3>2, <3>3, <3>4 DEF ThInv, ThShaped
  <2>8. ThBusy'
    BY <2>2, <2>5 DEF ThInv, ThBusy, Stores
  <2>9. ThToldOnce' /\ ThOldIsOld'
    <3>1. /\ thAt'[t] \in ThInside => thAt[t] \in ThInside
          /\ thAt'[t] \in ThAfterOld => thAt[t] \in ThAfterOld
      BY <2>5, <2>6 DEF ThInside, ThAfterOld
    <3>2. "idle" \notin ThInside /\ "idle" \notin ThAfterOld /\ Nothing # "COMMITTED"
      BY DEF ThInside, ThAfterOld, Nothing
    <3>3. thToldBy \subseteq ThThread
      BY DEF ThInv, ThShaped
    <3> QED BY <2>2, <2>5, <3>1, <3>2, <3>3 DEF ThInv, ThToldOnce, ThOldIsOld
  <2>10. ThEnough' /\ ThSomeoneTells'
    <3>1. ThWanted' => ThWanted
      BY <2>2, <2>5, <2>6 DEF ThWanted
    <3> PICK S : S = thCommits'
      OBVIOUS
    <3>2. Cardinality(thCommits) >= ThQuorum => Cardinality(S) >= ThQuorum
      BY <2>2, <2>4, MoreCommits DEF ThInv, ThShaped
    <3>3. ThEnough'
      BY <3>1, <3>2 DEF ThInv, ThEnough
    <3>4. \A u \in ThThread : thAt[u] = "new phase" => u \notin broken /\ u # t
      BY <2>2, <2>3 DEF Stores
    <3>5. ThSomeoneTells'
      BY <2>2, <2>5, <3>4 DEF ThInv, ThSomeoneTells
    <3> QED BY <3>3, <3>5
  <2>11. ThLateOnes' \subseteq ThLateOnes
    BY <2>5, <2>6 DEF ThLateOnes, ThLateSteps
  <2> QED BY <2>2, <2>7, <2>8, <2>9, <2>10, <2>11, KeepsPublications DEF ThInv
<1>10. ASSUME NEW t \in ThThread, EnterCommit(t) PROVE ThInv'
  <2>1. /\ thAt[t] = "enter commit" /\ thAt' = [thAt EXCEPT ![t] = "own commit"]
        /\ thPhase' = "COMMIT"
        /\ UNCHANGED <<thPool, thCommits, thMsg, thOld, thPublished>>
    BY <1>10 DEF EnterCommit, Goto
  <2>1a. thSetBack' = IF thPhase = "COMMITTED" THEN thSetBack + 1 ELSE thSetBack
    BY <1>10 DEF EnterCommit
  <2>1b. thToldBy' = {}
    <3>1. CASE thPhase = "COMMITTED"
      BY <1>10, <3>1 DEF EnterCommit
    <3>2. CASE thPhase # "COMMITTED"
      <4>1. thToldBy' = thToldBy
        BY <1>10, <3>2 DEF EnterCommit
      <4>2. \A x \in thToldBy : FALSE
        BY <3>2 DEF ThInv, ThToldOnce
      <4> QED BY <4>1, <4>2
    <3> QED BY <3>1, <3>2
  <2>2. thSetBack \in Nat /\ thPublished \in Nat
    BY DEF ThInv, ThShaped
  <2>3. /\ thSetBack' \in Nat /\ thToldBy' = {}
        /\ thSetBack' = 0 => thPhase # "COMMITTED" /\ thSetBack = 0
    BY <2>1a, <2>1b, <2>2
  <2>4. ThShaped' /\ ThBusy'
    BY <2>1, <2>3 DEF ThInv, ThShaped, ThBusy, ThPhases, ThSteps
  <2>5. ThToldOnce' /\ ThOldIsOld'
    BY <2>1, <2>3 DEF ThInv, ThShaped, ThToldOnce, ThOldIsOld, ThInside
  <2>6. ThEnough' /\ ThSomeoneTells'
    BY <2>1 DEF ThInv, ThShaped, ThEnough, ThWanted, ThSomeoneTells
  <2> PICK L, M : L = ThLateOnes /\ M = ThLateOnes'
    OBVIOUS
  <2>7. t \in L /\ M = L \ {t}
    BY <2>1 DEF ThInv, ThShaped, ThLateOnes, ThLateSteps
  <2>8. /\ IsFiniteSet(L) /\ Cardinality(L) \in Nat /\ Cardinality(L) <= thPool
        /\ thPool \in Nat /\ Cardinality(thToldBy) \in Nat
        /\ Cardinality(thToldBy) <= thPool
    BY ToldAndLateFit DEF ThInv
  <2>9. Cardinality(M) = Cardinality(L) - 1
    BY <2>7, <2>8, FS_RemoveElement
  <2>10. ThLate'
    <3>1. thPhase = "PREPARE" => thSetBack = 0
      BY DEF ThInv, ThLate
    <3>2. thPhase # "PREPARE" => thSetBack + Cardinality(L) <= thPool - 1
      BY DEF ThInv, ThLate
    <3>3. thSetBack' + Cardinality(M) <= thPool - 1
      <4>1. thSetBack' \in Nat /\ thSetBack' <= thSetBack + 1
        BY <2>1a, <2>2
      <4>2. CASE thPhase = "PREPARE"
        BY <2>1a, <2>8, <2>9, <3>1, <4>2
      <4>3. CASE thPhase # "PREPARE"
        BY <2>2, <2>8, <2>9, <3>2, <4>1, <4>3
      <4> QED BY <4>2, <4>3
    <3> QED BY <2>1, <3>3 DEF ThLate
  <2>11. ThPublications'
    <3>1. thPublished <= Cardinality(thToldBy) + thPool * thSetBack
      BY DEF ThInv, ThPublications
    <3>2. Cardinality(thToldBy') = 0
      BY <2>3, FS_EmptySet
    <3>3. CASE thPhase = "COMMITTED"
      <4>1. thPool * (thSetBack + 1) = thPool * thSetBack + thPool
        BY <2>2, <2>8
      <4>2. thPool * thSetBack \in Nat
        BY <2>2, <2>8
      <4>3. thPublished <= thPool * (thSetBack + 1)
        BY <2>2, <2>8, <3>1, <4>1, <4>2
      <4>4. thSetBack' = thSetBack + 1 /\ thPublished' = thPublished /\ thPool' = thPool
        BY <2>1, <2>1a, <3>3
      <4>5. thPool * (thSetBack + 1) \in Nat
        BY <2>2, <2>8
      <4> QED BY <2>2, <3>2, <4>3, <4>4, <4>5 DEF ThPublications
    <3>4. CASE thPhase # "COMMITTED"
      <4>1. /\ thSetBack' = thSetBack /\ thPublished' = thPublished
            /\ thPool' = thPool
        BY <2>1, <2>1a, <3>4
      <4>2. Cardinality(thToldBy) = 0
        <5>1. \A x \in thToldBy : FALSE
          BY <3>4 DEF ThInv, ThToldOnce
        <5>2. thToldBy = {}
          BY <5>1
        <5> QED BY <5>2, FS_EmptySet
      <4> QED BY <3>1, <3>2, <4>1, <4>2 DEF ThPublications
    <3> QED BY <3>3, <3>4
  <2> QED BY <2>4, <2>5, <2>6, <2>10, <2>11 DEF ThInv
<1>11. ASSUME NEW t \in ThThread, Finalise(t) PROVE ThInv'
  <2>1. /\ thAt[t] = "finalise" /\ thAt' = [thAt EXCEPT ![t] = "new phase"]
        /\ thPhase' = "COMMITTED" /\ thPhase # "PREPARE"
        /\ UNCHANGED <<thPool, thCommits, thMsg, thOld, thPublished, thSetBack, thToldBy>>
    BY <1>11 DEF Finalise, Goto, thCounts, ThInv, ThOldIsOld, ThInside
  <2>2. ThShaped' /\ ThBusy'
    BY <2>1 DEF ThInv, ThShaped, ThBusy, ThPhases, ThSteps, ThAfterOld
  <2>3. ThToldOnce' /\ ThOldIsOld'
    BY <2>1 DEF ThInv, ThShaped, ThToldOnce, ThOldIsOld, ThAfterOld, ThInside
  <2>4. ThEnough'
    BY <2>1 DEF ThInv, ThEnough, ThWanted
  <2>5. ThSomeoneTells'
    BY <2>1 DEF ThInv, ThShaped, ThOldIsOld, ThInside, ThSomeoneTells
  <2>6. ThLateOnes' \subseteq ThLateOnes
    BY <2>1 DEF ThInv, ThShaped, ThLateOnes, ThLateSteps
  <2>7. ThLate'
    BY <2>1, <2>6, FewerLate
  <2>8. ThPublications'
    BY <2>1 DEF ThInv, ThPublications
  <2> QED BY <2>2, <2>3, <2>4, <2>5, <2>7, <2>8 DEF ThInv
<1>12. ASSUME NEW t \in ThThread, NewPhase(t) PROVE ThInv'
  <2>1. /\ thAt[t] = "new phase" /\ thAt' = [thAt EXCEPT ![t] = "idle"]
        /\ thMsg' = [thMsg EXCEPT ![t] = Nothing]
        /\ thOld' = [thOld EXCEPT ![t] = Nothing]
        /\ UNCHANGED <<thPool, thPhase, thCommits, thSetBack>>
    BY <1>12 DEF NewPhase, Leave, Goto
  <2>2. ThShaped => thPublished \in Nat /\ thSetBack \in Nat /\ thToldBy \subseteq ThThread
    BY DEF ThShaped
  <2>3. CASE Tells(t)
    <3>0. thPhase = "COMMITTED" /\ thOld[t] # "COMMITTED"
      BY <2>3 DEF Tells
    <3>1. /\ thPublished' = thPublished + 1 /\ thToldBy' = thToldBy \cup {t}
          /\ thPhase = "COMMITTED" /\ t \notin thToldBy /\ t <= thPool
      <4>1. thPublished' = thPublished + 1 /\ thToldBy' = thToldBy \cup {t}
        BY <1>12, <2>3 DEF NewPhase
      <4>2. t \notin thToldBy
        BY <2>1, <3>0 DEF ThInv, ThToldOnce, ThAfterOld
      <4>3. t <= thPool
        BY <2>1 DEF ThInv, ThBusy
      <4> QED BY <3>0, <4>1, <4>2, <4>3
    <3>2. ThShaped' /\ ThBusy'
      <4>1. thPublished' \in Nat
        BY <2>2, <3>1 DEF ThInv
      <4>2. thToldBy' \subseteq ThThread
        BY <2>2, <3>1 DEF ThInv
      <4>3. ThBusy'
        BY <2>1 DEF ThInv, ThBusy, ThShaped
      <4> QED BY <2>1, <4>1, <4>2, <4>3 DEF ThInv, ThShaped, ThSteps
    <3>3. ThToldOnce' /\ ThOldIsOld'
      BY <2>1, <3>1 DEF ThInv, ThShaped, ThToldOnce, ThOldIsOld, ThAfterOld,
                        ThInside, Nothing
    <3>4. ThEnough'
      BY <2>1, <3>1 DEF ThInv, ThEnough, ThWanted
    <3>5. ThSomeoneTells'
      <4>1. thPublished' # 0
        BY <2>2, <3>1 DEF ThInv
      <4> QED BY <4>1 DEF ThSomeoneTells
    <3>6. ThPublications'
      <4> PICK T : T = thToldBy
        OBVIOUS
      <4>1. /\ IsFiniteSet(T) /\ Cardinality(T) \in Nat /\ thPool \in Nat
        BY ToldAndLateFit DEF ThInv
      <4>2. Cardinality(T \cup {t}) = Cardinality(T) + 1
        BY <3>1, <4>1, FS_AddElement
      <4>3. thPublished <= Cardinality(T) + thPool * thSetBack
        BY DEF ThInv, ThPublications
      <4>4. thPool * thSetBack \in Nat
        BY <2>2, <4>1 DEF ThInv
      <4>5. thPublished + 1 <= Cardinality(T \cup {t}) + thPool * thSetBack
        BY <2>2, <4>1, <4>2, <4>3, <4>4 DEF ThInv
      <4> QED BY <2>1, <3>1, <4>5 DEF ThPublications
    <3>7. ThLateOnes' \subseteq ThLateOnes
      BY <2>1 DEF ThInv, ThShaped, ThLateOnes, ThLateSteps
    <3>8. ThLate'
      BY <2>1, <3>1, <3>7, FewerLate
    <3> QED BY <3>2, <3>3, <3>4, <3>5, <3>6, <3>8 DEF ThInv
  <2>4. CASE ~Tells(t)
    <3>1. UNCHANGED <<thPublished, thToldBy>> /\ (thPhase # "COMMITTED" \/ thOld[t] = "COMMITTED")
      BY <1>12, <2>4 DEF NewPhase, Tells
    <3>2. ThShaped' /\ ThBusy'
      BY <2>1, <3>1 DEF ThInv, ThShaped, ThBusy, ThSteps
    <3>3. ThToldOnce' /\ ThOldIsOld'
      BY <2>1, <3>1 DEF ThInv, ThShaped, ThToldOnce, ThOldIsOld, ThAfterOld,
                        ThInside, Nothing
    <3>4. ThEnough' /\ ThSomeoneTells'
      BY <2>1, <3>1 DEF ThInv, ThShaped, ThEnough, ThWanted, ThSomeoneTells
    <3>5. ThLateOnes' \subseteq ThLateOnes
      BY <2>1 DEF ThInv, ThShaped, ThLateOnes, ThLateSteps
    <3> QED BY <2>1, <3>1, <3>2, <3>3, <3>4, <3>5, KeepsPublications DEF ThInv
  <2> QED BY <2>3, <2>4
<1>13. CASE UNCHANGED thVars
  <2>1. /\ ThLateOnes' = ThLateOnes
        /\ UNCHANGED <<thPool, thPhase, thPublished, thSetBack, thToldBy>>
    BY <1>13 DEF thVars, ThLateOnes
  <2>2. ThShaped' /\ ThBusy' /\ ThToldOnce' /\ ThOldIsOld' /\ ThSomeoneTells' /\ ThEnough'
    BY <1>13 DEF thVars, ThInv, ThShaped, ThBusy, ThToldOnce, ThOldIsOld,
                 ThSomeoneTells, ThEnough, ThWanted
  <2> QED BY <2>1, <2>2, KeepsPublications DEF ThInv
<1> QED BY <1>1, <1>2, <1>3, <1>4, <1>5, <1>6, <1>7, <1>8, <1>9, <1>10, <1>11,
           <1>12, <1>13 DEF ThNext

(* QOI_COMMITTED is published for 2f+1 stored COMMITs only; late PREPAREs  *)
(* set the phase back less often than there are threads, and unless they   *)
(* do the round is published, at most once by each thread: for any pool,   *)
(* senders, copies and broken calls (_handle_prepare, _handle_commit and   *)
(* on_message_received, run by AsyncQoIMessageHandler).                    *)
THEOREM CommitsArePublished == ThSpec => []CommitPublished
<1>1. ThInv => CommitPublished
  <2> SUFFICES ASSUME ThInv PROVE CommitPublished
    OBVIOUS
  <2>1. /\ thPool \in Nat \ {0} /\ thPublished \in Nat /\ thSetBack \in Nat
        /\ Cardinality(thToldBy) \in Nat /\ Cardinality(thToldBy) <= thPool
        /\ Cardinality(ThLateOnes) \in Nat
    BY ToldAndLateFit, PoolSizes DEF ThInv, ThShaped
  <2>2. thPublished > 0 => Cardinality(thCommits) >= ThQuorum
    BY DEF ThInv, ThEnough, ThWanted
  <2>3. thSetBack < thPool
    <3> PICK L : L = ThLateOnes
      OBVIOUS
    <3>1. thSetBack = 0 \/ thSetBack + Cardinality(L) <= thPool - 1
      BY DEF ThInv, ThLate
    <3> QED BY <2>1, <3>1
  <2>4. thPublished <= thPool * (1 + thSetBack)
    <3>1. thPublished <= Cardinality(thToldBy) + thPool * thSetBack
      BY DEF ThInv, ThPublications
    <3>2. thPool * (1 + thSetBack) = thPool + thPool * thSetBack /\ thPool * thSetBack \in Nat
      BY <2>1
    <3> QED BY <2>1, <3>1, <3>2
  <2>5. thSetBack = 0 /\ thPhase = "COMMITTED" /\ (\A t \in ThThread : thAt[t] = "idle")
          => thPublished >= 1
    <3> SUFFICES ASSUME thSetBack = 0, thPhase = "COMMITTED",
                        \A t \in ThThread : thAt[t] = "idle"
                 PROVE  thPublished # 0
      BY <2>1
    <3> QED BY DEF ThInv, ThSomeoneTells
  <2> QED BY <2>2, <2>3, <2>4, <2>5 DEF CommitPublished
<1> QED BY <1>1, ThInvInit, ThInvNext, PTL DEF ThSpec

-----------------------------------------------------------------------------
(* Consensus log. RecoversLatest needs the time order of the checkpoints:  *)
(* unless it was recorded during a prune, the latest one is on file, is    *)
(* the latest there, and its round is none that a prune under way has      *)
(* chosen (LgKept), for the rounds to prune are those with LgKeep later    *)
(* ones, and the latest has none.                                          *)

LgShaped ==
  /\ lgTime \in Nat
  /\ lgChecks \subseteq [round : LgRound, at : 1..lgTime]
  /\ \A c, d \in lgChecks : c.at = d.at => c = d

\* Unless a prune took it, the latest checkpoint is on file and is the latest
\* there, and no prune under way has chosen its round.
LgKept ==
  ~lgRaced =>
    \/ lgChecks = {} /\ lgLast = LgNone
    \/ /\ lgLast \in lgChecks /\ lgLast.round \notin lgChosen
       /\ \A d \in lgChecks : d.at <= lgLast.at

LgInv == LgShaped /\ LgKept

\* The latest of a non-empty set of records with distinct times.
LEMMA LgLatest ==
  ASSUME NEW S, NEW c \in S, S \subseteq [round : LgRound, at : Nat],
         \A d \in S : d.at <= c.at, \A d \in S : d.at = c.at => d = c
  PROVE  Latest(S) = c
<1> DEFINE l == CHOOSE e \in S : \A d \in S : d.at <= e.at
<1>1. l \in S /\ \A d \in S : d.at <= l.at
  OBVIOUS
<1>2. Latest(S) = l
  BY DEF Latest
<1> HIDE DEF l
<1>3. l.at = c.at
  BY <1>1
<1> QED BY <1>1, <1>2, <1>3

LEMMA LgInvNext == LgInv /\ [LgNext]_lgVars => LgInv'
<1> SUFFICES ASSUME LgInv, [LgNext]_lgVars PROVE LgInv'
  OBVIOUS
<1>1. ASSUME NEW b \in BOOLEAN, NEW r \in LgRound \cup {Unknown}, PublishEvent(b, r)
      PROVE  LgInv'
  BY <1>1 DEF PublishEvent, LgInv, LgShaped, LgKept
<1>2. ASSUME NEW r \in LgRound, RecordCheckpoint(r) PROVE LgInv'
  <2> DEFINE c == [round |-> r, at |-> lgTime + 1]
  <2>1. /\ lgTime' = lgTime + 1 /\ lgLast' = c /\ lgChecks' = lgChecks \cup {c}
        /\ lgRaced' = (lgChosen # {}) /\ lgChosen' = lgChosen
    BY <1>2 DEF RecordCheckpoint
  <2>2. c \in [round : LgRound, at : 1..lgTime'] /\ c.at = lgTime + 1
    BY <2>1 DEF LgInv, LgShaped
  <2>3. \A d \in lgChecks : /\ d.at \in Nat /\ d.at < c.at
                            /\ d \in [round : LgRound, at : 1..lgTime']
    BY <2>1 DEF LgInv, LgShaped
  <2> HIDE DEF c
  <2>4. LgShaped'
    BY <2>1, <2>2, <2>3 DEF LgInv, LgShaped
  <2>5. LgKept'
    <3> SUFFICES ASSUME ~lgRaced'
                 PROVE  /\ lgLast' \in lgChecks' /\ lgLast'.round \notin lgChosen'
                        /\ \A d \in lgChecks' : d.at <= lgLast'.at
      BY DEF LgKept
    <3>1. lgChosen = {}
      BY <2>1
    <3>2. c.at \in Nat
      BY <2>2 DEF LgInv, LgShaped
    <3>3. \A d \in lgChecks : d.at <= c.at
      BY <2>3, <3>2
    <3> QED BY <2>1, <3>1, <3>2, <3>3
  <2> QED BY <2>4, <2>5 DEF LgInv
<1>3. CASE ChooseOld
  <2>1. UNCHANGED <<lgTime, lgChecks, lgLast, lgRaced>> /\ lgChosen' = OldRounds
    BY <1>3 DEF ChooseOld
  <2>2. ASSUME lgLast \in lgChecks, \A d \in lgChecks : d.at <= lgLast.at
        PROVE  lgLast.round \notin OldRounds
    <3>1. LatestOf(lgChecks, lgLast.round) = lgLast.at
      <4> DEFINE S == {c \in lgChecks : c.round = lgLast.round}
      <4>1. Latest(S) = lgLast
        <5>1. /\ lgLast \in S /\ S \subseteq [round : LgRound, at : Nat]
              /\ \A d \in S : d.at <= lgLast.at
              /\ \A d \in S : d.at = lgLast.at => d = lgLast
          BY <2>2 DEF LgInv, LgShaped
        <5> HIDE DEF S
        <5> QED BY <5>1, LgLatest
      <4> QED BY <4>1 DEF LatestOf
    <3>2. \A q \in RoundsOf(lgChecks) : LatestOf(lgChecks, q) \in Nat
                                        /\ LatestOf(lgChecks, q) <= lgLast.at
      <4> SUFFICES ASSUME NEW e \in lgChecks
                   PROVE  /\ LatestOf(lgChecks, e.round) \in Nat
                          /\ LatestOf(lgChecks, e.round) <= lgLast.at
        BY DEF RoundsOf
      <4> DEFINE S == {c \in lgChecks : c.round = e.round}
                 T == {d.at : d \in S}
      <4>1. e \in S /\ S \subseteq lgChecks
        OBVIOUS
      <4>2. lgTime \in Nat /\ \A d \in S : d.at \in Nat /\ d.at <= lgTime
        BY <4>1 DEF LgInv, LgShaped
      <4>3. T \subseteq Nat /\ T # {} /\ \A t \in T : t <= lgTime
        <5> HIDE DEF S
        <5> QED BY <4>1, <4>2
      <4>4. \E t \in T : \A u \in T : u <= t
        <5> HIDE DEF T
        <5> QED BY <4>2, <4>3, GreatestNat
      <4>5. PICK d \in S : \A f \in S : f.at <= d.at
        <5> HIDE DEF S
        <5> QED BY <4>4
      <4>6. \A f \in S : f.at = d.at => f = d
        BY <4>1, <4>5 DEF LgInv, LgShaped
      <4>7. S \subseteq [round : LgRound, at : Nat]
        BY <4>1 DEF LgInv, LgShaped
      <4>8. Latest(S) = d
        <5> HIDE DEF S
        <5> QED BY <4>5, <4>6, <4>7, LgLatest
      <4>9. d.at \in Nat /\ d.at <= lgLast.at
        BY <2>2, <4>1, <4>2
      <4> QED BY <4>8, <4>9 DEF LatestOf
    <3>3. {q \in RoundsOf(lgChecks) :
             LatestOf(lgChecks, q) > LatestOf(lgChecks, lgLast.round)} = {}
      <4>1. lgLast.at \in Nat
        BY <2>2 DEF LgInv, LgShaped
      <4> QED BY <3>1, <3>2, <4>1
    <3> QED BY <3>3, FS_EmptySet, LgAssumption DEF OldRounds
  <2> QED BY <2>1, <2>2 DEF LgInv, LgShaped, LgKept
<1>4. CASE DeleteOld
  BY <1>4 DEF DeleteOld, LgInv, LgShaped, LgKept
<1>5. CASE BuildAgain
  BY <1>5 DEF BuildAgain, LgInv, LgShaped, LgKept
<1>6. CASE KillAndStart
  BY <1>6 DEF KillAndStart, LgInv, LgShaped, LgKept
<1>7. CASE UNCHANGED lgVars
  BY <1>7 DEF lgVars, LgInv, LgShaped, LgKept
<1> QED BY <1>1, <1>2, <1>3, <1>4, <1>5, <1>6, <1>7 DEF LgNext

(* After any prunes, kills and starts recover_latest_round returns the     *)
(* latest checkpoint ever recorded, unless that one was recorded between   *)
(* the two statements of a prune, for any number of rounds and records     *)
(* (ConsensusLog.prune_old_rounds).                                        *)
THEOREM LatestCheckpointIsRecovered == LgSpec => []RecoversLatest
<1>1. LgInit => LgInv
  BY DEF LgInit, LgInv, LgShaped, LgKept
<1>2. LgInv => RecoversLatest
  <2> SUFFICES ASSUME LgInv, ~lgRaced PROVE Latest(lgChecks) = lgLast
    BY DEF RecoversLatest, Recovered
  <2>1. CASE lgChecks = {}
    BY <2>1 DEF LgInv, LgKept, Latest
  <2>2. CASE lgChecks # {}
    <3>1. lgLast \in lgChecks /\ \A d \in lgChecks : d.at <= lgLast.at
      BY <2>2 DEF LgInv, LgKept
    <3>2. /\ lgChecks \subseteq [round : LgRound, at : Nat]
          /\ \A d \in lgChecks : d.at = lgLast.at => d = lgLast
      BY <3>1 DEF LgInv, LgShaped
    <3> QED BY <3>1, <3>2, LgLatest
  <2> QED BY <2>1, <2>2
<1> QED BY <1>1, <1>2, LgInvNext, PTL DEF LgSpec

-----------------------------------------------------------------------------
(* Consensus streams. While nobody comes or goes, the set keeps the size   *)
(* the broadcast began with.                                               *)

\* While nobody comes or goes the set keeps its size under the iteration, and
\* the failed clients it collects leave with its end.
StInv ==
  /\ stMoved \in BOOLEAN
  /\ stAt # Idle => stResult = Idle
  /\ stAt # Idle /\ ~stMoved => Cardinality(stClients) = stSize
  /\ StreamReaches

LEMMA StInvNext == StInv /\ [StNext]_stVars => StInv'
<1> SUFFICES ASSUME StInv, [StNext]_stVars PROVE StInv'
  OBVIOUS
<1>1. ASSUME NEW c \in StClient, StreamConnect(c) PROVE StInv'
  BY <1>1 DEF StreamConnect, StInv, StreamReaches
<1>2. ASSUME NEW c \in StClient, StreamDisconnect(c) PROVE StInv'
  BY <1>2 DEF StreamDisconnect, StInv, StreamReaches
<1>3. ASSUME NEW c \in StClient, Break(c) PROVE StInv'
  BY <1>3 DEF Break, StInv, StreamReaches
<1>4. CASE Broadcast
  BY <1>4 DEF Broadcast, StInv, StreamReaches, Idle
<1>5. CASE SendOver
  <2>1. /\ stAt # Idle /\ stMoved' = stMoved /\ stSize' = stSize /\ stStayed' = stStayed
        /\ GoOnWith(stClients, stDead')
    BY <1>5 DEF SendOver
  <2>2. CASE /\ Cardinality(stClients) # stSize
             /\ stResult' = "raised" /\ stAt' = Idle
             /\ stClients' = stClients /\ stVisited' = stVisited
    BY <2>1, <2>2 DEF StInv, StreamReaches
  <2>3. CASE /\ Cardinality(stClients) = stSize
             /\ \E c \in stClients \ stVisited : stAt' = c /\ stVisited' = stVisited \cup {c}
             /\ stClients' = stClients /\ stResult' = stResult
    BY <2>1, <2>3 DEF StInv, StreamReaches, Idle
  <2>4. CASE /\ Cardinality(stClients) = stSize /\ stStayed \subseteq stVisited
             /\ stResult' = "ended" /\ stAt' = Idle
             /\ stClients' = stClients \ stDead' /\ stVisited' = stVisited
    BY <2>1, <2>4 DEF StInv, StreamReaches
  <2> QED BY <2>1, <2>2, <2>3, <2>4 DEF GoOnWith
<1>6. CASE UNCHANGED stVars
  BY <1>6 DEF stVars, StInv, StreamReaches
<1> QED BY <1>1, <1>2, <1>3, <1>4, <1>5, <1>6 DEF StNext

(* A broadcast raises only when a client came or went meanwhile, and one   *)
(* that ends was sent to every client that was there all the time and      *)
(* leaves none of the failed ones in, for any number of clients            *)
(* (ConsensusStreamManager.broadcast).                                     *)
THEOREM BroadcastsReach == StSpec => []StreamReaches
<1>1. StInit => StInv
  BY DEF StInit, StInv, StreamReaches, Idle
<1>2. StInv => StreamReaches
  BY DEF StInv
<1> QED BY <1>1, <1>2, StInvNext, PTL DEF StSpec

-----------------------------------------------------------------------------
(* Model registry. PassedIsApproved needs that whoever waits for approval  *)
(* has a result that passed, and that a model without a row has only early *)
(* results (MsOwed).                                                       *)

\* A result of m that lets m be approved.
MsPassed(m) == \E r \in msResults : r.model = m /\ r.passed /\ r.checks = 5

MsShaped ==
  /\ msState \in [MsModel -> MsState]
  /\ msPending \subseteq MsModel

\* All five checks count as passed exactly in a result that passed.
MsCounted == \A r \in msResults : r.checks = 5 => r.passed

\* A model without a row has only early results; approval is pending, or was
\* written, only for a model with a result that passed.
MsOwed ==
  \A m \in MsModel :
    /\ msState[m] = "absent" => \A r \in msResults : r.model = m => r.early
    /\ m \in msPending => MsPassed(m)

MsInv == MsShaped /\ MsCounted /\ MsOwed /\ PassedIsApproved

LEMMA FiveChecks ==
  ASSUME NEW faults \in SUBSET Checks
  PROVE  Validated(faults).checksPassed = 5 <=> Validated(faults).passed
<1> DEFINE F == FailedChecks(faults)
<1>1. F \subseteq Checks
  BY DEF FailedChecks, Checks
<1>2. IsFiniteSet(Checks) /\ Cardinality(Checks) = 5
  <2> DEFINE A == {"basic"}
             B == A \cup {"file"}
             C == B \cup {"size"}
             D == C \cup {"framework"}
             E == D \cup {"metadata"}
  <2>1. IsFiniteSet(A) /\ Cardinality(A) = 1
    BY FS_Singleton
  <2>2. IsFiniteSet(B) /\ Cardinality(B) = 2
    BY <2>1, FS_AddElement
  <2>3. IsFiniteSet(C) /\ Cardinality(C) = 3
    BY <2>2, FS_AddElement
  <2>4. IsFiniteSet(D) /\ Cardinality(D) = 4
    BY <2>3, FS_AddElement
  <2>5. IsFiniteSet(E) /\ Cardinality(E) = 5
    BY <2>4, FS_AddElement
  <2>6. E = Checks
    BY DEF Checks
  <2> QED BY <2>5, <2>6
<1>3. Cardinality(Checks \ F) = 5 <=> F = {}
  <2>1. Cardinality(Checks \ F) = Cardinality(Checks) => Checks = Checks \ F
    BY <1>2, FS_Subset
  <2>2. F = {} => Checks \ F = Checks
    OBVIOUS
  <2>3. Checks = Checks \ F => F = {}
    BY <1>1
  <2> HIDE DEF F
  <2> QED BY <1>2, <2>1, <2>2, <2>3
<1> QED BY <1>3 DEF Validated

LEMMA MsInvNext == MsInv /\ [MsNext]_msVars => MsInv'
<1> SUFFICES ASSUME MsInv, [MsNext]_msVars PROVE MsInv'
  OBVIOUS
<1>1. ASSUME NEW m \in MsModel, NEW n \in MsNames, RegisterModel(m, n) PROVE MsInv'
  <2>1. /\ msState[m] = "absent" /\ msState' = [msState EXCEPT ![m] = "draft"]
        /\ UNCHANGED <<msResults, msPending, msMoved, msCut>>
    BY <1>1 DEF RegisterModel
  <2>2. MsShaped' /\ MsCounted'
    BY <2>1 DEF MsInv, MsShaped, MsCounted, MsState
  <2>3. MsOwed' /\ PassedIsApproved'
    BY <2>1 DEF MsInv, MsShaped, MsCounted, MsOwed, MsPassed, PassedIsApproved
  <2> QED BY <2>2, <2>3 DEF MsInv
<1>2. ASSUME NEW m \in MsModel, NEW s \in MsState \ {"absent"}, UpdateModelState(m, s)
      PROVE  MsInv'
  <2>1. /\ msState[m] # "absent" /\ msState' = [msState EXCEPT ![m] = s]
        /\ msMoved' = msMoved \cup {m}
        /\ UNCHANGED <<msResults, msPending, msCut>>
    BY <1>2 DEF UpdateModelState
  <2>2. MsShaped' /\ MsCounted'
    BY <2>1 DEF MsInv, MsShaped, MsCounted, MsState
  <2>3. MsOwed' /\ PassedIsApproved'
    BY <2>1 DEF MsInv, MsShaped, MsCounted, MsOwed, MsPassed, PassedIsApproved
  <2> QED BY <2>2, <2>3 DEF MsInv
<1>3. ASSUME NEW m \in MsModel, NEW faults \in SUBSET Checks, AddValidation(m, faults)
      PROVE  MsInv'
  <2> DEFINE result == Validated(faults)
             row == [model |-> m, passed |-> result.passed,
                     checks |-> result.checksPassed, early |-> msState[m] = "absent"]
  <2>1. /\ msResults' = msResults \cup {row}
        /\ msPending' = IF result.passed THEN msPending \cup {m} ELSE msPending
        /\ UNCHANGED <<msState, msMoved, msCut>>
    BY <1>3 DEF AddValidation
  <2>2. result.checksPassed = 5 <=> result.passed
    BY FiveChecks
  <2> HIDE DEF result
  <2>3. MsShaped' /\ MsCounted'
    BY <2>1, <2>2 DEF MsInv, MsShaped, MsCounted
  <2>4. MsOwed'
    <3>1. /\ row.model = m /\ (row.passed <=> result.passed)
          /\ row.checks = result.checksPassed /\ (row.early <=> msState[m] = "absent")
      OBVIOUS
    <3> HIDE DEF row
    <3>2. \A q \in MsModel : MsPassed(q) => MsPassed(q)'
      BY <2>1 DEF MsPassed
    <3>3. result.passed => MsPassed(m)'
      BY <2>1, <2>2, <3>1 DEF MsPassed
    <3>4. \A q \in MsModel : q \in msPending' => MsPassed(q)'
      BY <2>1, <3>2, <3>3 DEF MsInv, MsOwed
    <3>5. \A q \in MsModel : msState'[q] = "absent" => \A r \in msResults' : r.model = q => r.early
      BY <2>1, <3>1 DEF MsInv, MsOwed
    <3> QED BY <3>4, <3>5 DEF MsOwed, MsPassed
  <2>5. PassedIsApproved'
    BY <2>1, <2>2 DEF MsInv, MsShaped, MsOwed, MsPassed, PassedIsApproved
  <2> QED BY <2>3, <2>4, <2>5 DEF MsInv
<1>4. ASSUME NEW m \in MsModel, Approve(m) PROVE MsInv'
  <2>1. m \in msPending /\ msPending' = msPending \ {m} /\ msResults' = msResults
    BY <1>4 DEF Approve
  <2>2. CASE msState[m] = "absent"
    <3>1. UNCHANGED <<msState, msMoved, msCut>>
      BY <1>4, <2>2 DEF Approve
    <3> QED BY <2>1, <2>2, <3>1
        DEF MsInv, MsShaped, MsCounted, MsOwed, MsPassed, PassedIsApproved
  <2>3. CASE msState[m] # "absent"
    <3>1. /\ msState' = [msState EXCEPT ![m] = "approved"]
          /\ msMoved' = msMoved \ {m} /\ msCut' = msCut \ {m}
      BY <1>4, <2>3 DEF Approve
    <3>2. MsShaped' /\ MsCounted'
      BY <2>1, <3>1 DEF MsInv, MsShaped, MsCounted, MsState
    <3>3. MsOwed' /\ PassedIsApproved'
      BY <2>1, <3>1 DEF MsInv, MsShaped, MsOwed, MsPassed, PassedIsApproved
    <3> QED BY <3>2, <3>3 DEF MsInv
  <2> QED BY <2>2, <2>3
<1>5. CASE KillStore
  BY <1>5 DEF KillStore, MsInv, MsShaped, MsCounted, MsOwed, MsPassed, PassedIsApproved
<1>6. CASE UNCHANGED msVars
  BY <1>6 DEF msVars, MsInv, MsShaped, MsCounted, MsOwed, MsPassed, PassedIsApproved
<1> QED BY <1>1, <1>2, <1>3, <1>4, <1>5, <1>6 DEF MsNext

(* A model is approved exactly when a result passed all five checks, but   *)
(* for changes by hand, a kill between result and approval and results     *)
(* that came before the model, for any models and results                  *)
(* (ModelValidator.add_validation).                                        *)
THEOREM ApprovalFollowsAPass == MsSpec => []PassedIsApproved
<1>1. MsInit => MsInv
  BY DEF MsInit, MsInv, MsShaped, MsCounted, MsOwed, MsState, PassedIsApproved
<1>2. MsInv => PassedIsApproved
  BY DEF MsInv
<1> QED BY <1>1, <1>2, MsInvNext, PTL DEF MsSpec

-----------------------------------------------------------------------------
(* Training runs. DoneIsSaved needs the progress of the runs: past the     *)
(* last epoch its checkpoint is written (TnProgress); the flag and the     *)
(* metrics are those of the run that is open alone (TnAlone), the metrics  *)
(* are otherwise of runs that overlap (TnMixed), and a stopped run finds   *)
(* the flag up unless another was begun while it was open (TnHeard).       *)

TnBefore == {"closed", "top", "batches", "validate"}
TnShaped ==
  /\ tnAt \in [TnStream -> TnBefore \cup {"cancelled", "last", "over"}]
  /\ tnEpoch \in [TnStream -> 1..(TnMaxEpochs + 1)]
  /\ tnSaved \in [TnStream -> SUBSET Nat]
  /\ DOMAIN tnTold = TnStream /\ DOMAIN tnShown = TnStream

\* A run that works has told nothing, one that was not begun is at its first
\* epoch and was not asked to stop, and one that works is at an epoch of its run.
TnProgress ==
  \A s \in TnStream :
    /\ tnAt[s] \in TnBefore => tnTold[s] = {}
    /\ tnAt[s] = "cancelled" => tnTold[s] = {"cancelled"}
    /\ tnAt[s] = "closed" => tnEpoch[s] = 1 /\ s \notin tnAsked
    /\ tnAt[s] \in {"batches", "validate"} => tnEpoch[s] <= TnMaxEpochs
    /\ tnEpoch[s] > TnMaxEpochs => TnMaxEpochs \in tnSaved[s]

TnMixedIn(metrics, s) ==
  \A m \in metrics : m[1] = s \/ {m[1], s} \subseteq tnOverlap
\* What a run said when it said "done".
TnSaid ==
  \A s \in TnStream :
    "done" \in tnTold[s] =>
      /\ "cancelled" \notin tnTold[s] => TnMaxEpochs \in tnSaved[s]
      /\ s \notin tnOverlap => tnShown[s] = {s} \X (1..(tnEpoch[s] - 1))
      /\ TnMixedIn(tnShown[s], s)

TnAlone ==
  \A s \in Open :
    s \notin tnOverlap =>
      /\ Open = {s} /\ tnActive
      /\ tnMetrics = {s} \X (1..(tnEpoch[s] - 1))

TnMixed == \A s \in Open : TnMixedIn(tnMetrics, s)

TnHeard ==
  /\ tnDeaf \subseteq tnOverlap
  /\ \A s \in tnAsked \cap Open : tnCancel \/ s \in tnOverlap

TnBusy == tnActive => Open # {}

TnInv == /\ TnShaped /\ TnProgress /\ TnSaid /\ TnAlone /\ TnMixed /\ TnHeard
         /\ TnBusy

LEMMA TnInvNext == TnInv /\ [TnNext]_tnVars => TnInv'
<1> SUFFICES ASSUME TnInv, [TnNext]_tnVars PROVE TnInv'
  OBVIOUS
<1>1. CASE TrainStart \/ UNCHANGED tnVars
  BY <1>1 DEF TrainStart, tnVars, Open, TnInv, TnShaped, TnProgress, TnSaid,
              TnMixedIn, TnAlone, TnMixed, TnHeard, TnBusy
<1>2. CASE TrainStop
  <2>1. /\ tnCancel' = TRUE /\ tnAsked' = tnAsked \cup Going
        /\ UNCHANGED <<tnActive, tnMetrics, tnAt, tnEpoch, tnSaved, tnTold,
                       tnShown, tnDeaf, tnOverlap>>
    BY <1>2 DEF TrainStop
  <2>2. TnShaped' /\ TnSaid' /\ TnAlone' /\ TnMixed' /\ TnBusy'
    BY <2>1 DEF TnInv, TnShaped, TnSaid, TnMixedIn, TnAlone, TnMixed, TnBusy, Open
  <2>3. TnProgress' /\ TnHeard'
    BY <2>1 DEF TnInv, TnProgress, TnHeard, Going
  <2> QED BY <2>2, <2>3 DEF TnInv
<1>3. ASSUME NEW s \in TnStream, BeginRun(s) PROVE TnInv'
  <2>1. /\ tnAt[s] = "closed" /\ tnAt' = [tnAt EXCEPT ![s] = "top"]
        /\ tnActive' = TRUE /\ tnMetrics' = {}
        /\ tnOverlap' = IF Open = {} THEN tnOverlap ELSE tnOverlap \cup Open \cup {s}
        /\ UNCHANGED <<tnEpoch, tnSaved, tnTold, tnShown, tnAsked, tnDeaf>>
    BY <1>3 DEF BeginRun
  <2>2. Open' = Open \cup {s} /\ s \notin Open /\ tnOverlap \subseteq tnOverlap'
    BY <2>1 DEF TnInv, TnShaped, TnBefore, Open
  <2>3. TnShaped' /\ TnProgress'
    BY <2>1 DEF TnInv, TnShaped, TnProgress, TnBefore
  <2>4. TnSaid'
    BY <2>1, <2>2 DEF TnInv, TnSaid, TnMixedIn
  <2>5. TnAlone'
    <3>1. CASE Open = {}
      <4>1. tnEpoch'[s] = 1
        BY <2>1 DEF TnInv, TnProgress
      <4>2. {s} \X (1..(tnEpoch'[s] - 1)) = {}
        BY <4>1
      <4> QED BY <2>1, <2>2, <3>1, <4>2 DEF TnAlone
    <3>2. CASE Open # {}
      BY <2>1, <2>2, <3>2 DEF TnAlone
    <3> QED BY <3>1, <3>2
  <2>6. TnMixed' /\ TnBusy'
    BY <2>1, <2>2 DEF TnMixed, TnMixedIn, TnBusy
  <2>7. TnHeard'
    <3>1. s \notin tnAsked
      BY <2>1 DEF TnInv, TnProgress
    <3>2. Open \subseteq tnOverlap'
      BY <2>1
    <3> QED BY <2>1, <2>2, <3>1, <3>2 DEF TnInv, TnHeard
  <2> QED BY <2>3, <2>4, <2>5, <2>6, <2>7 DEF TnInv
<1>4. ASSUME NEW s \in TnStream, NEW at \in {"batches", "validate"},
             tnAt[s] \in {"top", "batches"}, tnEpoch[s] <= TnMaxEpochs,
             tnAt' = [tnAt EXCEPT ![s] = at], tnDeaf' \subseteq tnOverlap,
             UNCHANGED <<tnPending, tnActive, tnCancel, tnMetrics, tnEpoch, tnSaved,
                         tnTold, tnShown, tnAsked, tnOverlap>>
      PROVE  TnInv'
  <2>1. Open' = Open
    BY <1>4 DEF TnInv, TnShaped, TnBefore, Open
  <2>2. TnShaped' /\ TnProgress'
    BY <1>4 DEF TnInv, TnShaped, TnProgress, TnBefore
  <2>3. TnSaid' /\ TnMixed'
    BY <1>4, <2>1 DEF TnInv, TnSaid, TnMixed, TnMixedIn
  <2>4. TnAlone' /\ TnHeard' /\ TnBusy'
    BY <1>4, <2>1 DEF TnInv, TnAlone, TnHeard, TnBusy
  <2> QED BY <2>2, <2>3, <2>4 DEF TnInv
<1>5. ASSUME NEW s \in TnStream, NextEpoch(s) PROVE TnInv'
  <2>1. s \in tnAsked => s \in tnOverlap
    BY <1>5 DEF NextEpoch, TnInv, TnHeard, Open
  <2>2. tnDeaf' \subseteq tnOverlap
    BY <1>5, <2>1 DEF NextEpoch, TnInv, TnHeard
  <2> QED BY <1>4, <1>5, <2>2 DEF NextEpoch
<1>6. ASSUME NEW s \in TnStream, Batches(s) PROVE TnInv'
  <2>1. tnEpoch[s] <= TnMaxEpochs /\ tnDeaf' \subseteq tnOverlap
    BY <1>6 DEF Batches, TnInv, TnProgress, TnHeard
  <2> QED BY <1>4, <1>6, <2>1 DEF Batches
<1>7. ASSUME NEW s \in TnStream, EpochOver(s) PROVE TnInv'
  <2> DEFINE e == tnEpoch[s]
  <2>1. /\ tnAt[s] = "validate" /\ tnAt' = [tnAt EXCEPT ![s] = "top"]
        /\ tnSaved' = [tnSaved EXCEPT ![s] = IF SavedAfter(e) THEN @ \cup {e} ELSE @]
        /\ tnMetrics' = tnMetrics \cup {<<s, e>>}
        /\ tnEpoch' = [tnEpoch EXCEPT ![s] = e + 1]
        /\ UNCHANGED <<tnActive, tnCancel, tnTold, tnShown, tnAsked, tnDeaf, tnOverlap>>
    BY <1>7 DEF EpochOver
  <2>2. Open' = Open /\ s \in Open
    BY <2>1 DEF TnInv, TnShaped, TnBefore, Open
  <2>3. e \in 1..TnMaxEpochs
    BY <2>1 DEF TnInv, TnShaped, TnProgress
  <2>4. TnMaxEpochs = e => SavedAfter(e)
    BY DEF SavedAfter
  <2>5. TnShaped'
    BY <2>1, <2>3, TnAssumption DEF TnInv, TnShaped, TnBefore
  <2>6. \A t \in TnStream : tnSaved[t] \subseteq tnSaved'[t]
    BY <2>1 DEF TnInv, TnShaped
  <2>7. e + 1 > TnMaxEpochs => TnMaxEpochs \in tnSaved'[s]
    BY <2>1, <2>3, <2>4, TnAssumption DEF TnInv, TnShaped
  <2>8. tnTold[s] = {}
    BY <2>1 DEF TnInv, TnProgress, TnBefore
  <2> HIDE DEF e
  <2>9. TnProgress'
    BY <2>1, <2>6, <2>7 DEF TnInv, TnShaped, TnProgress, TnBefore
  <2>10. TnSaid'
    BY <2>1, <2>6, <2>8 DEF TnInv, TnShaped, TnSaid, TnMixedIn
  <2>11. TnAlone'
    <3> SUFFICES ASSUME NEW t \in Open, t \notin tnOverlap
                 PROVE  Open = {t} /\ tnActive /\ tnMetrics' = {t} \X (1..(tnEpoch'[t] - 1))
      BY <2>1, <2>2 DEF TnAlone
    <3>1. Open = {t} /\ t = s /\ tnActive /\ tnMetrics = {s} \X (1..(e - 1))
      BY <2>2 DEF TnInv, TnAlone, e
    <3>2. tnEpoch'[s] - 1 = e
      BY <2>1, <2>3 DEF TnInv, TnShaped
    <3>3. {s} \X (1..e) = ({s} \X (1..(e - 1))) \cup {<<s, e>>}
      <4>1. 1..e = 1..(e - 1) \cup {e}
        BY <2>3, TnAssumption
      <4> QED BY <4>1
    <3> QED BY <2>1, <3>1, <3>2, <3>3
  <2>12. TnMixed'
    <3> SUFFICES ASSUME NEW t \in Open PROVE t = s \/ {s, t} \subseteq tnOverlap
      BY <2>1, <2>2 DEF TnInv, TnMixed, TnMixedIn
    <3> QED BY <2>2 DEF TnInv, TnAlone
  <2>13. TnHeard' /\ TnBusy'
    BY <2>1, <2>2 DEF TnInv, TnHeard, TnBusy
  <2> QED BY <2>5, <2>9, <2>10, <2>11, <2>12, <2>13 DEF TnInv
<1>8. ASSUME NEW s \in TnStream, NEW event, NEW step \in {"cancelled", "last"},
             s \in Open, Tell(s, event, step), step = "cancelled" => event = "cancelled",
             step = "cancelled" => tnTold[s] = {},
             event # "done" => tnTold[s] = {} /\ tnShown' = tnShown,
             event = "done" =>
               /\ "cancelled" \notin tnTold[s] => tnEpoch[s] > TnMaxEpochs
               /\ tnShown' = [tnShown EXCEPT ![s] = tnMetrics]
      PROVE  TnInv'
  <2>1. /\ tnAt' = [tnAt EXCEPT ![s] = step]
        /\ tnTold' = [tnTold EXCEPT ![s] = @ \cup {event}]
        /\ UNCHANGED <<tnPending, tnActive, tnCancel, tnMetrics, tnEpoch, tnSaved,
                       tnAsked, tnDeaf, tnOverlap>>
    BY <1>8 DEF Tell
  <2>2. Open' = Open
    BY <1>8, <2>1 DEF TnInv, TnShaped, TnBefore, Open
  <2>3. DOMAIN tnShown' = TnStream
    BY <1>8 DEF TnInv, TnShaped
  <2>4. TnShaped'
    BY <2>1, <2>3 DEF TnInv, TnShaped, TnBefore
  <2>5. TnProgress'
    BY <1>8, <2>1 DEF TnInv, TnShaped, TnProgress, TnBefore
  <2>6. TnAlone' /\ TnMixed' /\ TnHeard' /\ TnBusy'
    BY <2>1, <2>2 DEF TnInv, TnAlone, TnMixed, TnMixedIn, TnHeard, TnBusy
  <2>7. TnSaid'
    <3> SUFFICES ASSUME NEW t \in TnStream, "done" \in tnTold'[t]
                 PROVE  /\ "cancelled" \notin tnTold'[t] => TnMaxEpochs \in tnSaved[t]
                        /\ t \notin tnOverlap => tnShown'[t] = {t} \X (1..(tnEpoch[t] - 1))
                        /\ TnMixedIn(tnShown'[t], t)
      BY <2>1 DEF TnSaid, TnMixedIn
    <3>1. CASE t # s
      <4>1. tnTold'[t] = tnTold[t] /\ tnShown'[t] = tnShown[t]
        BY <1>8, <2>1, <3>1 DEF TnInv, TnShaped
      <4> QED BY <4>1 DEF TnInv, TnSaid
    <3>2. CASE t = s
      <4>1. tnTold'[s] = tnTold[s] \cup {event}
        BY <2>1 DEF TnInv, TnShaped
      <4>2. event = "done"
        BY <1>8, <3>2, <4>1
      <4>3. tnShown'[s] = tnMetrics
        BY <1>8, <4>2 DEF TnInv, TnShaped
      <4>4. "cancelled" \notin tnTold'[s] => TnMaxEpochs \in tnSaved[s]
        BY <1>8, <4>1, <4>2 DEF TnInv, TnProgress
      <4> QED BY <1>8, <3>2, <4>3, <4>4 DEF TnInv, TnAlone, TnMixed
    <3> QED BY <3>1, <3>2
  <2> QED BY <2>4, <2>5, <2>6, <2>7 DEF TnInv
<1>9. ASSUME NEW s \in TnStream, Cancelled(s) PROVE TnInv'
  <2>1. /\ s \in Open /\ tnTold[s] = {} /\ tnShown' = tnShown
        /\ Tell(s, "cancelled", "cancelled")
    BY <1>9 DEF Cancelled, TnInv, TnProgress, TnBefore, Open
  <2> QED BY <1>8, <2>1
<1>10. ASSUME NEW s \in TnStream, Raised(s) PROVE TnInv'
  <2>1. /\ s \in Open /\ tnTold[s] = {} /\ tnShown' = tnShown
        /\ Tell(s, "error", "last")
    BY <1>10 DEF Raised, Going, TnInv, TnProgress, TnBefore, Open
  <2> QED BY <1>8, <2>1
<1>11. ASSUME NEW s \in TnStream, Done(s) PROVE TnInv'
  <2>1. /\ s \in Open /\ Tell(s, "done", "last")
        /\ "cancelled" \notin tnTold[s] => tnEpoch[s] > TnMaxEpochs
        /\ tnShown' = [tnShown EXCEPT ![s] = tnMetrics]
    BY <1>11 DEF Done, TnInv, TnProgress, Open
  <2> QED BY <1>8, <2>1
<1>12. ASSUME NEW s \in TnStream, Over(s) PROVE TnInv'
  <2>1. /\ s \in Open /\ tnAt' = [tnAt EXCEPT ![s] = "over"] /\ tnActive' = FALSE
        /\ UNCHANGED <<tnCancel, tnMetrics, tnEpoch, tnSaved, tnTold, tnShown,
                       tnAsked, tnDeaf, tnOverlap>>
    BY <1>12 DEF Over
  <2>2. Open' = Open \ {s}
    BY <2>1 DEF TnInv, TnShaped, Open
  <2>3. TnShaped' /\ TnProgress'
    BY <2>1 DEF TnInv, TnShaped, TnProgress, TnBefore
  <2>4. TnSaid' /\ TnMixed'
    BY <2>1, <2>2 DEF TnInv, TnSaid, TnMixed, TnMixedIn
  <2>5. TnAlone' /\ TnHeard' /\ TnBusy'
    BY <2>1, <2>2 DEF TnInv, TnAlone, TnHeard, TnBusy
  <2> QED BY <2>3, <2>4, <2>5 DEF TnInv
<1> QED BY <1>1, <1>2, <1>3, <1>5, <1>6, <1>7, <1>9, <1>10, <1>11, <1>12 DEF TnNext

(* A run that says "done" and not "cancelled" has written the checkpoint   *)
(* it names; a run that is open alone shows its own metrics, hears a stop  *)
(* and is seen by /train/status, which reports no run when none is open:   *)
(* for any number of streams, epochs and saving interval (run_training,    *)
(* /train/stream, /train/stop).                                            *)
THEOREM FinishedRunsAreSaved == TnSpec => []DoneIsSaved
<1>1. TnInit => TnInv
  BY TnAssumption DEF TnInit, TnInv, TnShaped, TnProgress, TnSaid, TnMixedIn,
     TnAlone, TnMixed, TnHeard, TnBusy, TnBefore, Open
<1>2. TnInv => DoneIsSaved
  BY DEF TnInv, TnSaid, TnMixedIn, TnHeard, TnAlone, TnBusy, DoneIsSaved
<1> QED BY <1>1, <1>2, TnInvNext, PTL DEF TnSpec

-----------------------------------------------------------------------------
(* Client submissions. What was accepted is settled or waits in the pool   *)
(* with the next nonce of its account (ClWaits). The first pending         *)
(* transaction with that nonce is offered for the next block, and left out *)
(* of a full one only, whose transactions are all new (ClOnce).            *)

ClTx == [from : ClAccount, nonce : Nat, fee : Nat, id : Nat]

ClShaped ==
  /\ clNonce \in [ClAccount -> Nat]
  /\ clPool \in Seq(ClTx)
  /\ clRead \in [ClWallet -> Nat] /\ clCounter \in Nat
  /\ clBuilt \subseteq ClTx /\ clMade \in Nat
  /\ clAccepted \subseteq ClTx

\* What was accepted is settled, or waits with the next nonce.
ClWaits ==
  \A tx \in clAccepted :
    \/ Settled(tx)
    \/ tx.nonce = clNonce[tx.from] + 1 /\ \E i \in DOMAIN clPool : clPool[i] = tx

\* The nonces of what is in blocks are used up.
ClOnce == \A c \in clConfirmed : c \in ClTx /\ c.nonce <= clNonce[c.from]

ClInv == ClShaped /\ ClWaits /\ ClOnce

LEMMA ClSubmits ==
  ASSUME ClInv, NEW tx \in ClTx, SubmitTx(tx), clNonce' = clNonce, clConfirmed' = clConfirmed
  PROVE  clPool' \in Seq(ClTx) /\ clAccepted' \subseteq ClTx /\ ClWaits'
<1>1. CASE ~(tx.nonce = clNonce[tx.from] + 1 /\ Len(clPool) < ClPoolSize)
  BY <1>1 DEF SubmitTx, ClInv, ClShaped, ClWaits, Settled
<1>2. CASE tx.nonce = clNonce[tx.from] + 1 /\ Len(clPool) < ClPoolSize
  <2>1. clPool' = Append(clPool, tx) /\ clAccepted' = clAccepted \cup {tx}
    BY <1>2 DEF SubmitTx
  <2>2. clPool \in Seq(ClTx) /\ clAccepted \subseteq ClTx
    BY DEF ClInv, ClShaped
  <2>3. /\ clPool' \in Seq(ClTx) /\ Len(clPool) + 1 \in DOMAIN clPool'
        /\ clPool'[Len(clPool) + 1] = tx
        /\ \A i \in DOMAIN clPool : i \in DOMAIN clPool' /\ clPool'[i] = clPool[i]
    BY <2>1, <2>2
  <2>4. ClWaits'
    BY <1>2, <2>1, <2>3 DEF ClInv, ClWaits, Settled
  <2> QED BY <2>1, <2>2, <2>3, <2>4
<1> QED BY <1>1, <1>2

\* The first pending transaction with the next nonce of an account is offered.
LEMMA ClIsOffered ==
  ASSUME ClShaped, NEW a \in ClAccount, NEW k \in DOMAIN clPool,
         clPool[k].from = a, clPool[k].nonce = clNonce[a] + 1
  PROVE  Offers(a) # {}
<1> DEFINE S == {i \in DOMAIN clPool : clPool[i].from = a /\ clPool[i].nonce = clNonce[a] + 1}
<1>1. S \in SUBSET Nat /\ S # {} /\ DOMAIN clPool = 1..Len(clPool) /\ Len(clPool) \in Nat
  BY DEF ClShaped
<1>2. PICK i \in S : \A j \in S : i <= j
  <2> HIDE DEF S
  <2> QED BY <1>1, LeastNat
<1>3. \A j \in 1..(i - 1) : j \notin S /\ j \in DOMAIN clPool
  <2>1. i \in 1..Len(clPool)
    BY <1>1, <1>2
  <2> HIDE DEF S
  <2> QED BY <1>1, <1>2, <2>1
<1>4. clPool[i] \in Offers(a)
  BY <1>2, <1>3 DEF Offers
<1> QED BY <1>4

LEMMA ClOffersAreNext ==
  ASSUME ClShaped, NEW a \in ClAccount, NEW tx \in Offers(a)
  PROVE  tx \in ClTx /\ tx.from = a /\ tx.nonce = clNonce[a] + 1
BY DEF Offers, ClShaped

LEMMA ClSeals ==
  ASSUME ClInv, SealBlock
  PROVE  ClInv' /\ \A tx \in clAccepted : Settled(tx)' \/ Outbid(tx)
<1>0. PICK block \in Selections :
        LET paid(a) == {tx \in block : tx.from = a}
        IN /\ clConfirmed' = clConfirmed \cup block
           /\ clNonce' = [a \in ClAccount |-> IF paid(a) = {} THEN clNonce[a] ELSE clNonce[a] + 1]
           /\ clPool' = Without(clPool, block)
           /\ UNCHANGED <<clRead, clCounter, clBuilt, clMade, clAccepted>>
  BY DEF SealBlock
<1> DEFINE paid(a) == {tx \in block : tx.from = a}
<1>1. /\ clConfirmed' = clConfirmed \cup block
      /\ clNonce' = [a \in ClAccount |-> IF paid(a) = {} THEN clNonce[a] ELSE clNonce[a] + 1]
      /\ clPool' = Without(clPool, block)
      /\ UNCHANGED <<clRead, clCounter, clBuilt, clMade, clAccepted>>
  BY <1>0
<1>2. /\ block \subseteq Offered
      /\ block = Offered \/ Cardinality(block) = ClBlockSize
      /\ \A tx \in block, left \in Offered \ block : tx.fee >= left.fee
  BY DEF Selections
<1>3. \A tx \in Offered : tx \in ClTx /\ tx.nonce = clNonce[tx.from] + 1
  BY ClOffersAreNext DEF ClInv, Offered
<1>4. Sealed = block
  <2>1. \A tx \in block : tx \notin clConfirmed
    <3> SUFFICES ASSUME NEW tx \in block, tx \in clConfirmed PROVE FALSE
      OBVIOUS
    <3>1. /\ tx.from \in ClAccount /\ tx.nonce = clNonce[tx.from] + 1
          /\ tx.nonce <= clNonce[tx.from]
      BY <1>2, <1>3 DEF ClInv, ClOnce, ClTx
    <3>2. clNonce[tx.from] \in Nat
      BY <3>1 DEF ClInv, ClShaped
    <3> QED BY <3>1, <3>2
  <2> QED BY <1>1, <2>1 DEF Sealed
<1>5. clPool \in Seq(ClTx) /\ clNonce \in [ClAccount -> Nat] /\ clAccepted \subseteq ClTx
  BY DEF ClInv, ClShaped
<1>6. /\ clPool' \in Seq(ClTx)
      /\ \A j \in DOMAIN clPool : clPool[j] \notin block =>
            \E i \in DOMAIN clPool' : clPool'[i] = clPool[j]
  BY <1>1, <1>5, WithoutKeeps
<1>7. clNonce' \in [ClAccount -> Nat]
  BY <1>1, <1>5
<1>8. ASSUME NEW tx \in clAccepted
      PROVE  /\ Settled(tx)' \/ Outbid(tx)
             /\ \/ Settled(tx)'
                \/ tx.nonce = clNonce'[tx.from] + 1 /\ \E i \in DOMAIN clPool' : clPool'[i] = tx
  <2>1. CASE Settled(tx)
    BY <1>1, <2>1 DEF Settled
  <2>2. CASE tx.nonce = clNonce[tx.from] + 1 /\ \E i \in DOMAIN clPool : clPool[i] = tx
    <3>1. tx.from \in ClAccount
      BY <1>5 DEF ClTx
    <3>2. PICK k \in DOMAIN clPool : clPool[k] = tx
      BY <2>2
    <3>3. PICK offer : offer \in Offers(tx.from)
      BY <2>2, <3>1, <3>2, ClIsOffered DEF ClInv
    <3>4. offer \in Offered /\ offer.from = tx.from /\ offer.nonce = tx.nonce
      BY <2>2, <3>1, <3>3, ClOffersAreNext DEF ClInv, Offered
    <3>5. CASE paid(tx.from) # {}
      <4>1. PICK c \in block : c.from = tx.from
        BY <3>5
      <4>2. c.nonce = tx.nonce /\ c \in clConfirmed'
        BY <1>1, <1>2, <1>3, <2>2, <4>1
      <4> QED BY <4>1, <4>2 DEF Settled
    <3>6. CASE paid(tx.from) = {}
      <4>1. offer \notin block /\ tx \notin block
        BY <3>4, <3>6
      <4>2. Cardinality(block) = ClBlockSize /\ \A c \in block : c.fee >= offer.fee
        BY <1>2, <3>4, <4>1
      <4>3. Outbid(tx)
        BY <1>4, <3>3, <3>4, <4>2 DEF Outbid
      <4>4. clNonce'[tx.from] = clNonce[tx.from]
        BY <1>1, <3>1, <3>6
      <4>5. \E i \in DOMAIN clPool' : clPool'[i] = tx
        BY <1>6, <3>2, <4>1
      <4> QED BY <2>2, <4>3, <4>4, <4>5
    <3> QED BY <3>5, <3>6
  <2> QED BY <2>1, <2>2 DEF ClInv, ClWaits
<1>9. ClWaits'
  BY <1>1, <1>8 DEF ClWaits
<1>10. ClOnce'
  <2> SUFFICES ASSUME NEW c \in clConfirmed \cup block
               PROVE  c \in ClTx /\ c.nonce <= clNonce'[c.from]
    BY <1>1 DEF ClOnce
  <2>1. CASE c \in clConfirmed
    <3>1. c \in ClTx /\ c.nonce <= clNonce[c.from] /\ c.from \in ClAccount /\ c.nonce \in Nat
      BY <2>1 DEF ClInv, ClOnce, ClTx
    <3>2. clNonce[c.from] \in Nat /\ clNonce'[c.from] >= clNonce[c.from]
      BY <1>1, <1>5, <3>1
    <3> QED BY <1>7, <3>1, <3>2
  <2>2. CASE c \in block
    <3>1. c \in ClTx /\ c.nonce = clNonce[c.from] + 1 /\ c.from \in ClAccount
      BY <1>2, <1>3, <2>2 DEF ClTx
    <3>2. clNonce'[c.from] = clNonce[c.from] + 1
      BY <1>1, <2>2, <3>1
    <3> QED BY <1>5, <3>1, <3>2
  <2> QED BY <2>1, <2>2
<1>11. ClShaped'
  BY <1>1, <1>6, <1>7 DEF ClInv, ClShaped
<1> QED BY <1>8, <1>9, <1>10, <1>11 DEF ClInv

LEMMA ClInvNext == ClInv /\ [ClNext]_clVars => ClInv'
<1> SUFFICES ASSUME ClInv, [ClNext]_clVars PROVE ClInv'
  OBVIOUS
<1>1. ASSUME NEW w \in ClWallet, WalletReads(w) PROVE ClInv'
  <2>1. clNonce[ClOwner[w]] + 1 \in Nat
    BY ClAssumption DEF ClInv, ClShaped
  <2> QED BY <1>1, <2>1 DEF WalletReads, ClInv, ClShaped, ClWaits, ClOnce, Settled
<1>2. ASSUME NEW w \in ClWallet, WalletPosts(w) PROVE ClInv'
  <2>1. PICK fee \in ClFees : SubmitTx(MadeTx(ClOwner[w], clRead[w], fee))
    BY <1>2 DEF WalletPosts
  <2>2. MadeTx(ClOwner[w], clRead[w], fee) \in ClTx
    BY ClAssumption DEF MadeTx, ClTx, ClInv, ClShaped
  <2> QED BY <1>2, <2>1, <2>2, ClSubmits DEF WalletPosts, ClInv, ClShaped, ClOnce
<1>3. CASE Build
  <2>1. \A fee \in ClBuilderFees : Numbered(fee) \in ClTx
    BY ClAssumption DEF Numbered, MadeTx, ClTx, ClInv, ClShaped
  <2> QED BY <1>3, <2>1 DEF Build, ClInv, ClShaped, ClWaits, ClOnce, Settled
<1>4. ASSUME NEW tx \in clBuilt, HandIn(tx) PROVE ClInv'
  <2>1. tx \in ClTx
    BY DEF ClInv, ClShaped
  <2> QED BY <1>4, <2>1, ClSubmits DEF HandIn, ClInv, ClShaped, ClOnce
<1>5. CASE SyncNonce
  BY <1>5, ClAssumption DEF SyncNonce, ClInv, ClShaped, ClWaits, ClOnce, Settled
<1>6. CASE SealBlock
  BY <1>6, ClSeals
<1>7. CASE UNCHANGED clVars
  BY <1>7 DEF clVars, ClInv, ClShaped, ClWaits, ClOnce, Settled
<1> QED BY <1>1, <1>2, <1>3, <1>4, <1>5, <1>6, <1>7 DEF ClNext

(* What was accepted before a block is settled by it (the transaction or   *)
(* another one of its account with its nonce is in a block), or outbid: it *)
(* was offered, and the block is full of others that pay no less. For any  *)
(* accounts, wallets, builders, fees, pool and block size                  *)
(* (NodeService.submit_tx, seal_block, Mempool.select_simple).             *)
THEOREM AcceptedIsSettled == ClSpec => AcceptedSettles
<1>1. ClInit => ClInv
  BY DEF ClInit, ClInv, ClShaped, ClWaits, ClOnce
<1>2. ClInv /\ [ClNext]_clVars
        => [SealBlock => \A tx \in clAccepted : Settled(tx)' \/ Outbid(tx)]_clVars
  BY ClSeals
<1> QED BY <1>1, <1>2, ClInvNext, PTL DEF ClSpec, AcceptedSettles

-----------------------------------------------------------------------------
(* Image fetch. While a round goes on, half a file is one being written, or *)
(* one left by an earlier run that the first read has not deleted yet       *)
(* (ImHalf). So what the loop finds while it is free is whole, nobody reads *)
(* while the engine waits, and a found image stays until it is used         *)
(* (ImKept).                                                                *)

ImShaped ==
  /\ imFile \in {"none", "part", "whole"} /\ imWriting \in BOOLEAN
  /\ imRead \in {"no", "begun", "found", "none", "part", "whole"}
  /\ imStage \in {"idle", "local", "waiting", "reload"}
  /\ imEvent \in {"no", "registered", "set"}
  /\ imFound \in BOOLEAN /\ imRaised \in BOOLEAN
  /\ imRead = "no" <=> imStage \in {"idle", "waiting"}
  /\ imWriting => imFile # "whole"

ImHalf ==
  imFile = "part" /\ ~imWriting =>
    \/ imStage = "idle"
    \/ imStage = "local" /\ imRead \in {"begun", "found", "part"}

\* Who was woken finds the file, and what was found is still there.
ImKept ==
  /\ imStage = "waiting" /\ imEvent = "set" => imFile # "none"
  /\ imStage = "waiting" => ~imFound \/ imRaised
  /\ imStage # "waiting" => imEvent = "no"
  /\ imStage = "reload" => imFound
  /\ imStage \in {"local", "reload"} /\ imFound /\ ~imRaised =>
       /\ imRead \in {"begun", "found", "whole"}
       /\ imRead # "whole" => imFile = "whole"

ImInv == ImShaped /\ ImHalf /\ ImKept /\ FoundImageIsUsed

LEMMA ImInvNext == ImInv /\ [ImNext]_imVars => ImInv'
<1> SUFFICES ASSUME ImInv, [ImNext]_imVars PROVE ImInv'
  OBVIOUS
<1> USE DEF ImInv, ImShaped, ImHalf, ImKept, FoundImageIsUsed
<1>1. CASE PutEnds
  BY <1>1 DEF PutEnds, imRound
<1>2. CASE ThreadLooks \/ ThreadReads
  BY <1>2 DEF ThreadLooks, ThreadReads, imLoop, imRound
<1>3. CASE ThreadDeletes
  BY <1>3 DEF ThreadDeletes, imRound
<1>4. CASE BeginInference
  BY <1>4 DEF BeginInference, LoopIsFree, imLoop
<1>5. CASE LoadRaises
  BY <1>5 DEF LoadRaises, imLoop
<1>6. CASE ReadBack
  BY <1>6 DEF ReadBack, Answered, Get, imLoop
<1>7. CASE Ask
  BY <1>7 DEF Ask, Reload, Gotten, Answered, Get, LoopIsFree
<1>8. CASE FetchReturns
  BY <1>8 DEF FetchReturns, Reload, Gotten, Answered, Get, LoopIsFree
<1>9. CASE FetchTimesOut \/ GiveUpReload
  BY <1>9 DEF FetchTimesOut, GiveUpReload, Answered, imLoop
<1>10. CASE UploadImage
  BY <1>10 DEF UploadImage, Opened, LoopIsFree, imRound
<1>14. CASE PeerAsks
  <2>1. /\ UNCHANGED <<imWriting, imRead, imStage, imEvent, imRound>>
        /\ imFile' = imFile \/ (imFile = "part" /\ imFile' = "none")
        /\ ~imWriting
    BY <1>14 DEF PeerAsks, Gotten, Get, LoopIsFree
  <2>2. CASE imFile' = imFile
    BY <2>1, <2>2 DEF imRound
  <2>3. CASE imFile = "part" /\ imFile' = "none"
    BY <2>1, <2>3 DEF imRound
  <2> QED BY <2>1, <2>2, <2>3
<1>11. ASSUME NEW p \in ImPeer, OnImageResponse(p) PROVE ImInv'
  BY <1>11 DEF OnImageResponse, Opened, LoopIsFree, imRound
<1>12. ASSUME NEW p \in ImPeer,
              OnImageRequest(p) \/ PeerUpload(p) \/ ConnectionBreaks(p)
       PROVE  ImInv'
  BY <1>12 DEF OnImageRequest, PeerUpload, ConnectionBreaks, imRound
<1>13. CASE UNCHANGED imVars
  BY <1>13 DEF imVars
<1> QED BY <1>1, <1>2, <1>3, <1>4, <1>5, <1>6, <1>7, <1>8, <1>9, <1>10, <1>11,
           <1>12, <1>13, <1>14 DEF ImNext

(* A round votes on an image it found, for any peers and rounds, whatever  *)
(* is uploaded, answered, read and deleted in between (ImageStore,         *)
(* ConsensusEngine._run_inference, P2PServer.fetch_image).                 *)
THEOREM FoundImagesAreUsed == ImSpec => []FoundImageIsUsed
<1>1. ImInit => ImInv
  BY DEF ImInit, ImInv, ImShaped, ImHalf, ImKept, FoundImageIsUsed
<1>2. ImInv => FoundImageIsUsed
  BY DEF ImInv
<1> QED BY <1>1, <1>2, ImInvNext, PTL DEF ImSpec

-----------------------------------------------------------------------------
(* Peer directory. What a directory learned is dialled in every later run  *)
(* of its process, for any nodes, flags, calls and failures.               *)
(* LearnedIsDialled is not inductive: it says nothing of a process that is *)
(* down.  Its file does (PdOnFile), unless its last write failed, which    *)
(* only a run that is still up remembers; and what a run dials covers its  *)
(* dictionary and the tasks that will make an address known.               *)

PdShaped ==
  /\ DOMAIN pdUp = PdNode /\ DOMAIN pdFile = PdNode /\ DOMAIN pdUnsaved = PdNode
  /\ DOMAIN pdLearned = PdNode /\ DOMAIN pdDialled = PdNode
  /\ DOMAIN pdKnown = PdNode /\ DOMAIN pdPeers = PdNode
  /\ DOMAIN pdDialling = PdNode
  /\ \A x \in pdMail : x.to \in PdNode
  /\ \A n \in PdNode : pdDialling[n] \in [PdNode -> Nat]

\* What was learned, and the dictionary of a run, is in the seed file, unless
\* the last write failed.
PdOnFile(n) ==
  /\ ~pdUnsaved[n] => pdLearned[n] \subseteq pdFile[n]
  /\ ~pdUnsaved[n] /\ pdUp[n] => pdPeers[n] \subseteq pdFile[n]
  /\ ~pdUp[n] => ~pdUnsaved[n]

\* A run has begun to dial its dictionary, what it knows and what it dials.
PdCovered(n) ==
  pdUp[n] =>
    /\ pdLearned[n] \subseteq pdPeers[n]
    /\ pdPeers[n] \subseteq pdDialled[n]
    /\ pdKnown[n] \subseteq pdDialled[n]

PdTasks(n) ==
  \A u \in PdNode : pdDialling[n][u] > 0 => pdUp[n] /\ u \in pdDialled[n]

PdInv == PdShaped /\ \A n \in PdNode : PdOnFile(n) /\ PdCovered(n) /\ PdTasks(n)

LEMMA PdInvInit == PdInit => PdInv
BY DEF PdInit, PdInv, PdShaped, PdOnFile, PdCovered, PdTasks

\* A save leaves other files alone; it writes the dictionary, or says so.
LEMMA SaveWrites ==
  ASSUME PdShaped, NEW n \in PdNode, NEW old, NEW peers, NEW failures,
         Save(n, old, peers, failures)
  PROVE  /\ pdPeers' = [pdPeers EXCEPT ![n] = peers]
         /\ DOMAIN pdFile' = PdNode /\ DOMAIN pdUnsaved' = PdNode
         /\ \A m \in PdNode \ {n} : pdFile'[m] = pdFile[m] /\ pdUnsaved'[m] = pdUnsaved[m]
         /\ \/ pdUnsaved'[n]
            \/ ~pdUnsaved'[n] /\ pdFile'[n] = peers
            \/ peers = old /\ pdFile'[n] = pdFile[n] /\ pdUnsaved'[n] = pdUnsaved[n]
<1>1. pdPeers' = [pdPeers EXCEPT ![n] = peers]
  BY DEF Save
<1>2. CASE peers = old /\ UNCHANGED <<pdFile, pdUnsaved>>
  BY <1>1, <1>2 DEF PdShaped
<1>3. CASE /\ pdFile' = [pdFile EXCEPT ![n] = peers]
           /\ pdUnsaved' = [pdUnsaved EXCEPT ![n] = FALSE]
  BY <1>1, <1>3 DEF PdShaped
<1>4. CASE /\ \E left : pdFile' = [pdFile EXCEPT ![n] = left]
           /\ pdUnsaved' = [pdUnsaved EXCEPT ![n] = TRUE]
  <2>1. PICK left : pdFile' = [pdFile EXCEPT ![n] = left]
    BY <1>4
  <2> QED BY <1>1, <1>4, <2>1 DEF PdShaped
<1> QED BY <1>2, <1>3, <1>4 DEF Save, Saved

LEMMA PdStart == ASSUME PdInv, NEW n \in PdNode, Start(n) PROVE PdInv'
<1> DEFINE All(read) == (read \cup PdCli[n]) \cup PdConfig[n]
           Failed(read) == pdFailures + IF read = pdFile[n] THEN 0 ELSE 1
<1>1. PICK read \in Loads(n) :
        /\ Save(n, read, All(read), Failed(read))
        /\ pdKnown' = [pdKnown EXCEPT ![n] = All(read)]
        /\ pdLearned' = [pdLearned EXCEPT ![n] =
             IF read = pdFile[n] THEN @ \cup All(read) ELSE All(read)]
        /\ pdDialled' = [pdDialled EXCEPT ![n] = All(read)]
        /\ pdDialling' = [pdDialling EXCEPT ![n] =
             [u \in PdNode |-> IF u \in read \cup PdCli[n] THEN 2
                               ELSE IF u \in All(read) THEN 1 ELSE 0]]
  BY DEF Start
<1> DEFINE all == All(read)
<1>2. pdUp' = [pdUp EXCEPT ![n] = TRUE]
  BY DEF Start
<1>3. ~pdUp[n] /\ ~pdUnsaved[n] /\ pdLearned[n] \subseteq pdFile[n] /\ PdShaped
  BY DEF Start, PdInv, PdOnFile
<1>4. read \subseteq all /\ (read = pdFile[n] \/ read = {})
  BY DEF Loads
<1>5. /\ pdPeers' = [pdPeers EXCEPT ![n] = all]
      /\ DOMAIN pdFile' = PdNode /\ DOMAIN pdUnsaved' = PdNode
      /\ \A m \in PdNode \ {n} : pdFile'[m] = pdFile[m] /\ pdUnsaved'[m] = pdUnsaved[m]
      /\ \/ pdUnsaved'[n]
         \/ ~pdUnsaved'[n] /\ pdFile'[n] = all
         \/ all = read /\ pdFile'[n] = pdFile[n] /\ pdUnsaved'[n] = pdUnsaved[n]
  <2> HIDE DEF All, Failed
  <2> QED BY <1>1, <1>3, SaveWrites
<1>6. pdLearned'[n] = all
  BY <1>1, <1>3, <1>4 DEF PdShaped
<1>7. \A u \in PdNode : pdDialling'[n][u] \in Nat /\ (pdDialling'[n][u] > 0 => u \in all)
  BY <1>1, <1>3 DEF PdShaped
<1>8. DOMAIN pdDialling' = PdNode /\ \A m \in PdNode : pdDialling'[m] \in [PdNode -> Nat]
  <2>1. DOMAIN pdDialling' = PdNode
    BY <1>1, <1>3 DEF PdShaped
  <2>2. \A m \in PdNode \ {n} : pdDialling'[m] \in [PdNode -> Nat]
    BY <1>1, <1>3 DEF PdShaped
  <2>3. pdDialling'[n] \in [PdNode -> Nat]
    BY <1>1, <1>3 DEF PdShaped
  <2> QED BY <2>1, <2>2, <2>3
<1>9. /\ DOMAIN pdKnown' = PdNode /\ DOMAIN pdLearned' = PdNode /\ DOMAIN pdDialled' = PdNode
      /\ DOMAIN pdUp' = PdNode /\ DOMAIN pdPeers' = PdNode
      /\ pdKnown'[n] = all /\ pdDialled'[n] = all /\ pdUp'[n] /\ pdPeers'[n] = all
      /\ \A m \in PdNode \ {n} :
           /\ pdKnown'[m] = pdKnown[m] /\ pdDialled'[m] = pdDialled[m]
           /\ pdUp'[m] = pdUp[m] /\ pdPeers'[m] = pdPeers[m]
           /\ pdLearned'[m] = pdLearned[m] /\ pdDialling'[m] = pdDialling[m]
  BY <1>1, <1>2, <1>3, <1>5 DEF PdShaped
<1>10. PdShaped'
  <2>1. \A x \in pdMail' : x.to \in PdNode
    BY <1>3 DEF Start, PdShaped
  <2> QED BY <1>5, <1>8, <1>9, <2>1 DEF PdShaped
<1>11. PdOnFile(n)' /\ PdCovered(n)' /\ PdTasks(n)'
  <2> HIDE DEF All
  <2>1. PdOnFile(n)'
    BY <1>3, <1>4, <1>5, <1>6, <1>9 DEF PdOnFile
  <2>2. PdCovered(n)' /\ PdTasks(n)'
    BY <1>6, <1>7, <1>9 DEF PdCovered, PdTasks
  <2> QED BY <2>1, <2>2
<1>12. ASSUME NEW m \in PdNode \ {n} PROVE PdOnFile(m)' /\ PdCovered(m)' /\ PdTasks(m)'
  BY <1>5, <1>9, <1>12 DEF PdInv, PdOnFile, PdCovered, PdTasks
<1> QED BY <1>10, <1>11, <1>12 DEF PdInv

LEMMA PdKill == ASSUME PdInv, NEW n \in PdNode, Kill(n) PROVE PdInv'
<1>1. /\ pdUp' = [pdUp EXCEPT ![n] = FALSE]
      /\ pdKnown' = [pdKnown EXCEPT ![n] = {}]
      /\ pdPeers' = [pdPeers EXCEPT ![n] = {}]
      /\ pdUnsaved' = [pdUnsaved EXCEPT ![n] = FALSE]
      /\ pdLearned' = [pdLearned EXCEPT ![n] = IF pdUnsaved[n] THEN @ \cap pdFile[n] ELSE @]
      /\ pdDialled' = [pdDialled EXCEPT ![n] = {}]
      /\ pdDialling' = [pdDialling EXCEPT ![n] = [u \in PdNode |-> 0]]
      /\ pdFile' = pdFile
  BY DEF Kill
<1>2. PdShaped'
  <2>1. \A x \in pdMail' : x.to \in PdNode
    BY DEF Kill, PdInv, PdShaped
  <2>2. DOMAIN pdDialling' = PdNode /\ \A m \in PdNode : pdDialling'[m] \in [PdNode -> Nat]
    BY <1>1 DEF PdInv, PdShaped
  <2> QED BY <1>1, <2>1, <2>2 DEF PdInv, PdShaped
<1>3. PdOnFile(n)' /\ PdCovered(n)' /\ PdTasks(n)'
  BY <1>1 DEF PdInv, PdShaped, PdOnFile, PdCovered, PdTasks
<1>4. ASSUME NEW m \in PdNode \ {n} PROVE PdOnFile(m)' /\ PdCovered(m)' /\ PdTasks(m)'
  BY <1>1, <1>4 DEF PdInv, PdShaped, PdOnFile, PdCovered, PdTasks
<1> QED BY <1>2, <1>3, <1>4 DEF PdInv

LEMMA PdTold == ASSUME PdInv, NEW x \in pdMail, OnPeers(x) PROVE PdInv'
<1> DEFINE n == x.to
           new == x.urls \ (pdKnown[n] \cup {n})
<1>1. /\ pdKnown' = [pdKnown EXCEPT ![n] = @ \cup new]
      /\ Save(n, pdPeers[n], pdPeers[n] \cup new, pdFailures)
      /\ pdLearned' = [pdLearned EXCEPT ![n] = @ \cup new]
      /\ pdDialled' = [pdDialled EXCEPT ![n] = @ \cup new]
      /\ pdDialling' = [pdDialling EXCEPT ![n] =
           [u \in PdNode |-> IF u \in new THEN @[u] + 1 ELSE @[u]]]
      /\ pdUp' = pdUp
  BY DEF OnPeers
<1>2. n \in PdNode /\ pdUp[n]
  BY DEF OnPeers, PdInv, PdShaped
<1> HIDE DEF n, new
<1>3. PdShaped
  BY DEF PdInv
<1>4. /\ pdPeers' = [pdPeers EXCEPT ![n] = pdPeers[n] \cup new]
      /\ DOMAIN pdFile' = PdNode /\ DOMAIN pdUnsaved' = PdNode
      /\ \A m \in PdNode \ {n} : pdFile'[m] = pdFile[m] /\ pdUnsaved'[m] = pdUnsaved[m]
      /\ \/ pdUnsaved'[n]
         \/ ~pdUnsaved'[n] /\ pdFile'[n] = pdPeers[n] \cup new
         \/ /\ pdPeers[n] \cup new = pdPeers[n] /\ pdFile'[n] = pdFile[n]
            /\ pdUnsaved'[n] = pdUnsaved[n]
  BY <1>1, <1>2, <1>3, SaveWrites
<1>5. DOMAIN pdDialling' = PdNode /\ \A m \in PdNode : pdDialling'[m] \in [PdNode -> Nat]
  BY <1>1, <1>2, <1>3 DEF PdShaped
<1>6. PdShaped'
  <2>1. \A y \in pdMail' : y.to \in PdNode
    BY <1>3 DEF OnPeers, PdShaped
  <2> QED BY <1>1, <1>3, <1>4, <1>5, <2>1 DEF PdShaped
<1>7. pdLearned[n] \subseteq pdPeers[n]
  BY <1>2 DEF PdInv, PdCovered
<1>8. PdOnFile(n)'
  <2>1. /\ pdLearned'[n] = pdLearned[n] \cup new /\ pdUp'[n]
        /\ pdPeers'[n] = pdPeers[n] \cup new
    BY <1>1, <1>2, <1>3, <1>4 DEF PdShaped
  <2>2. ~pdUnsaved[n] => pdPeers[n] \subseteq pdFile[n]
    BY <1>2 DEF PdInv, PdOnFile
  <2>3. ~pdUnsaved'[n] => pdPeers'[n] \subseteq pdFile'[n]
    BY <1>4, <2>1, <2>2
  <2> QED BY <1>7, <2>1, <2>3 DEF PdOnFile
<1>9. PdCovered(n)'
  BY <1>1, <1>2, <1>3, <1>4 DEF PdInv, PdShaped, PdCovered
<1>10. PdTasks(n)'
  BY <1>1, <1>2, <1>3 DEF PdInv, PdShaped, PdTasks
<1>11. ASSUME NEW m \in PdNode \ {n} PROVE PdOnFile(m)' /\ PdCovered(m)' /\ PdTasks(m)'
  BY <1>1, <1>3, <1>4, <1>11 DEF PdInv, PdShaped, PdOnFile, PdCovered, PdTasks
<1> QED BY <1>6, <1>8, <1>9, <1>10, <1>11 DEF PdInv

LEMMA PdInvNext == PdInv /\ [PdNext]_pdVars => PdInv'
<1> SUFFICES ASSUME PdInv, [PdNext]_pdVars PROVE PdInv'
  OBVIOUS
<1>1. ASSUME UNCHANGED <<pdUp, pdDirectory, pdKnown, pdDialled, pdDialling>>,
             \A x \in pdMail' : x.to \in PdNode
      PROVE PdInv'
  BY <1>1 DEF PdInv, PdShaped, PdOnFile, PdCovered, PdTasks, pdDirectory
<1>2. ASSUME NEW n \in PdNode, Share(n) PROVE PdInv'
  BY <1>1, <1>2 DEF Share, PdInv, PdShaped
<1>3. ASSUME NEW n \in PdNode, NEW u \in PdNode, Connect(n, u) PROVE PdInv'
  <2>1. /\ pdDialling[n][u] > 0
        /\ pdDialling' = [pdDialling EXCEPT ![n][u] = @ - 1]
        /\ pdKnown' = [pdKnown EXCEPT ![n] = @ \cup {u}]
        /\ UNCHANGED <<pdUp, pdDirectory, pdMail, pdDialled>>
    BY <1>3 DEF Connect
  <2>2. u \in pdDialled[n]
    BY <2>1 DEF PdInv, PdTasks
  <2> QED BY <2>1, <2>2 DEF PdInv, PdShaped, PdOnFile, PdCovered, PdTasks, pdDirectory
<1>4. ASSUME NEW n \in PdNode, NEW u \in PdNode, GiveUp(n, u) PROVE PdInv'
  <2>1. /\ pdDialling[n][u] > 0
        /\ pdDialling' = [pdDialling EXCEPT ![n][u] = @ - 1]
        /\ UNCHANGED <<pdUp, pdDirectory, pdMail, pdKnown, pdDialled>>
    BY <1>4 DEF GiveUp
  <2> QED BY <2>1 DEF PdInv, PdShaped, PdOnFile, PdCovered, PdTasks, pdDirectory
<1>5. ASSUME NEW n, NEW u, AddPeer(n, u) PROVE PdInv'
  <2>1. /\ pdUp[n]
        /\ pdKnown' = [pdKnown EXCEPT ![n] = @ \cup {u}]
        /\ pdDialled' = [pdDialled EXCEPT ![n] = @ \cup {u}]
        /\ pdDialling' = [pdDialling EXCEPT ![n][u] = @ + 1]
        /\ UNCHANGED <<pdUp, pdDirectory, pdMail>>
    BY <1>5 DEF AddPeer
  <2>2. PdShaped'
    <3>1. DOMAIN pdDialling' = PdNode
      BY <2>1 DEF PdInv, PdShaped
    <3>2. ASSUME NEW m \in PdNode PROVE pdDialling'[m] \in [PdNode -> Nat]
      <4>1. pdDialling[m] \in [PdNode -> Nat]
        BY DEF PdInv, PdShaped
      <4>2. \/ pdDialling'[m] = pdDialling[m]
            \/ pdDialling'[m] = [pdDialling[m] EXCEPT ![u] = @ + 1]
        <5>1. DOMAIN pdDialling = PdNode
          BY DEF PdInv, PdShaped
        <5>2. CASE m = n
          BY <2>1, <5>1, <5>2
        <5>3. CASE m # n
          BY <2>1, <5>1, <5>3
        <5> QED BY <5>2, <5>3
      <4>3. [pdDialling[m] EXCEPT ![u] = @ + 1] \in [PdNode -> Nat]
        <5>1. PICK f \in [PdNode -> Nat] : pdDialling[m] = f
          BY <4>1
        <5>2. u \in PdNode => f[u] + 1 \in Nat
          OBVIOUS
        <5>3. [f EXCEPT ![u] = f[u] + 1] \in [PdNode -> Nat]
          BY <5>2
        <5> QED BY <5>1, <5>3
      <4> QED BY <4>1, <4>2, <4>3
    <3> QED BY <2>1, <3>1, <3>2 DEF PdInv, PdShaped, pdDirectory
  <2>3. ASSUME NEW m \in PdNode PROVE PdOnFile(m)' /\ PdCovered(m)'
    BY <2>1, <2>3 DEF PdInv, PdShaped, PdOnFile, PdCovered, pdDirectory
  <2>4. ASSUME NEW m \in PdNode PROVE PdTasks(m)'
    BY <2>1, <2>4 DEF PdInv, PdShaped, PdTasks
  <2> QED BY <2>2, <2>3, <2>4 DEF PdInv
<1>6. ASSUME NEW n, NEW u, RemovePeer(n, u) PROVE PdInv'
  <2>1. /\ pdKnown' = [pdKnown EXCEPT ![n] = @ \ {u}]
        /\ UNCHANGED <<pdUp, pdDirectory, pdMail, pdDialled, pdDialling>>
    BY <1>6 DEF RemovePeer
  <2> QED BY <2>1 DEF PdInv, PdShaped, PdOnFile, PdCovered, PdTasks, pdDirectory
<1>7. CASE UNCHANGED pdVars
  BY <1>1, <1>7 DEF pdVars, pdDirectory, PdInv, PdShaped
<1> QED BY <1>2, <1>3, <1>4, <1>5, <1>6, <1>7, PdStart, PdKill, PdTold DEF PdNext

(* What a directory learned, and has not lost with a failed write that     *)
(* nothing made good or a failed read, every later run dials, and a node   *)
(* dials all that it knows (PeerDiscovery, _on_peers, the REST routes).    *)
THEOREM WhatIsLearnedIsDialled == PdSpec => []LearnedIsDialled
<1>1. PdInv => LearnedIsDialled
  BY DEF PdInv, PdCovered, LearnedIsDialled
<1> QED BY <1>1, PdInvInit, PdInvNext, PTL DEF PdSpec
=============================================================================
