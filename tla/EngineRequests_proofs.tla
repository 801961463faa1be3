----------------------- MODULE EngineRequests_proofs -----------------------
(***************************************************************************)
(* What holds of the way of a request through a node for any number of     *)
(* requests and submissions.  IInv is inductive.  NoRequestLost is not by  *)
(* itself: when a poll sealed the block the loop would let go of a request *)
(* that is not in it, so it needs NoSecondSeal; a time-out that finds its  *)
(* request pending needs PendingIsQueued; and the loop holds one request   *)
(* at a time, and none when it is idle or dead.                            *)
(***************************************************************************)
EXTENDS EngineRequests, FiniteSetTheorems, TLAPS

(* The loop holds a request from the pop to the end of the round, and no   *)
(* longer.                                                                 *)
HeldInRound ==
  /\ stage \in {"inferring", "waiting"} => held \in Request
  /\ stage \in {"idle", "dead"} => held = None

IInv == TypeOK /\ HeldInRound /\ PendingIsQueued /\ NoSecondSeal /\ NoRequestLost

-----------------------------------------------------------------------------
(* Append adds its element and loses none (Mempool.add).                   *)
LEMMA AppendQueues ==
  ASSUME NEW S, NEW q \in Seq(S), NEW x \in S
  PROVE  /\ Append(q, x) \in Seq(S)
         /\ \E i \in DOMAIN Append(q, x) : Append(q, x)[i] = x
         /\ \A r : (\E i \in DOMAIN q : q[i] = r)
                     => \E i \in DOMAIN Append(q, x) : Append(q, x)[i] = r
<1>1. Append(q, x) \in Seq(S) /\ Len(Append(q, x)) = Len(q) + 1
  OBVIOUS
<1>2. Append(q, x)[Len(q) + 1] = x
  OBVIOUS
<1>3. \A i \in 1..Len(q) : Append(q, x)[i] = q[i]
  OBVIOUS
<1>4. DOMAIN q = 1..Len(q) /\ DOMAIN Append(q, x) = 1..(Len(q) + 1) /\ Len(q) \in Nat
  BY <1>1
<1>5. \A i \in 1..Len(q) : i \in 1..(Len(q) + 1)
  BY <1>4
<1>6. Len(q) + 1 \in 1..(Len(q) + 1)
  BY <1>4
<1> QED BY <1>1, <1>2, <1>3, <1>4, <1>5, <1>6

(* Of the elements of a queue its tail loses the head alone                *)
(* (Mempool.next_inference).                                               *)
LEMMA TailQueues ==
  ASSUME NEW S, NEW q \in Seq(S), q # <<>>
  PROVE  /\ Head(q) \in S
         /\ Tail(q) \in Seq(S)
         /\ \A r : (\E i \in DOMAIN q : q[i] = r) /\ r # Head(q)
                     => \E i \in DOMAIN Tail(q) : Tail(q)[i] = r
<1>1. Head(q) \in S /\ Head(q) = q[1] /\ Tail(q) \in Seq(S)
  OBVIOUS
<1>2. Len(q) \in Nat \ {0} /\ DOMAIN q = 1..Len(q) /\ DOMAIN Tail(q) = 1..(Len(q) - 1)
  OBVIOUS
<1>3. \A i \in 1..(Len(q) - 1) : Tail(q)[i] = q[i + 1]
  OBVIOUS
<1>4. ASSUME NEW r, NEW i \in DOMAIN q, q[i] = r, r # Head(q)
      PROVE  \E j \in DOMAIN Tail(q) : Tail(q)[j] = r
  <2>1. i # 1 /\ i \in 1..Len(q)
    BY <1>1, <1>2, <1>4
  <2>2. i - 1 \in 1..(Len(q) - 1) /\ (i - 1) + 1 = i
    BY <2>1, <1>2
  <2>3. Tail(q)[i - 1] = r
    BY <2>2, <1>3, <1>4
  <2> QED BY <2>2, <2>3, <1>2
<1> QED BY <1>1, <1>4

-----------------------------------------------------------------------------
(* A node starts with an empty mempool and no round.                       *)
LEMMA InitIInv == Init => IInv
<1> SUFFICES ASSUME Init PROVE IInv
  OBVIOUS
<1>1. <<>> \in Seq(Request)
  OBVIOUS
<1>2. TypeOK /\ HeldInRound
  BY <1>1 DEF Init, TypeOK, HeldInRound, Stage
<1>3. PendingIsQueued /\ NoSecondSeal /\ NoRequestLost
  BY DEF Init, PendingIsQueued, NoSecondSeal, NoRequestLost, Lost
<1> QED BY <1>2, <1>3 DEF IInv

(* Adding a request keeps the mempool's type and its order of stores, and  *)
(* loses nothing.                                                          *)
LEMMA AddKeeps ==
  ASSUME TypeOK, PendingIsQueued, NEW r \in Request, Add(r)
  PROVE  /\ queue' \in Seq(Request) /\ pending' \subseteq Request
         /\ PendingIsQueued'
         /\ Queued(r)'
         /\ \A k : Queued(k) => Queued(k)'
<1>1. CASE r \in pending
  BY <1>1 DEF TypeOK, PendingIsQueued, Add, Added, Queued
<1>2. CASE r \notin pending
  <2>1. queue' = Append(queue, r) /\ pending' = pending \cup {r}
    BY <1>2 DEF Add, Added
  <2>2. queue \in Seq(Request) /\ pending \subseteq Request
    BY DEF TypeOK
  <2>3. queue' \in Seq(Request) /\ Queued(r)' /\ \A k : Queued(k) => Queued(k)'
    BY <2>1, <2>2, AppendQueues DEF Queued
  <2> QED BY <2>1, <2>2, <2>3 DEF PendingIsQueued
<1> QED BY <1>1, <1>2

(* Sealing a block keeps the types, touches the queue nowhere, and only    *)
(* adds to the chain.                                                      *)
LEMMA SealKeeps ==
  ASSUME TypeOK, PendingIsQueued, Seal
  PROVE  /\ queue' = queue /\ pending' \subseteq pending
         /\ chain \subseteq chain' /\ chain' \subseteq Request
         /\ machine' = None /\ pendingTx' = None /\ outcome' = FALSE
         /\ PendingIsQueued'
BY DEF TypeOK, PendingIsQueued, Seal, Detach, Remove, mempool, Queued

(* A step that loses nothing new and raises no dead engine keeps           *)
(* NoRequestLost (_run_qoi_round).                                         *)
LEMMA LosesNoMore ==
  ASSUME NoRequestLost, Lost' \subseteq Lost, stage = "dead" => stage' = "dead"
  PROVE  NoRequestLost'
BY DEF NoRequestLost

(* Every step of the loop, of a handler and of the other tasks keeps the   *)
(* strengthened invariant.                                                 *)
LEMMA NextIInv == IInv /\ [Next]_vars => IInv'
<1> SUFFICES ASSUME IInv, [Next]_vars PROVE IInv'
  OBVIOUS
<1> USE RequestAssumption DEF RequestAssumption
<1>1. CASE TakeRequest
  <2> DEFINE r == Head(queue)
  <2>1. /\ stage = "idle" /\ queue # <<>> /\ stage' = "inferring"
        /\ held' = r /\ pendingTx' = r /\ queue' = Tail(queue)
        /\ pending' = pending \ {r}
        /\ UNCHANGED <<submits, machine, outcome, chain>>
    BY <1>1 DEF TakeRequest, Popped, PendingAfterPop
  <2>2. queue \in Seq(Request)
    BY DEF IInv, TypeOK
  <2>3. /\ r \in Request /\ queue' \in Seq(Request)
        /\ \A k : Queued(k) /\ k # r => Queued(k)'
    BY <2>1, <2>2, TailQueues DEF Queued
  <2>4. TypeOK'
    BY <2>1, <2>3 DEF IInv, TypeOK, Stage
  <2>5. HeldInRound'
    BY <2>1, <2>3 DEF HeldInRound
  <2>6. PendingIsQueued'
    BY <2>1, <2>3 DEF IInv, PendingIsQueued
  <2>7. NoSecondSeal'
    BY <2>1 DEF NoSecondSeal
  <2>8. Lost' \subseteq Lost
    BY <2>1, <2>3 DEF IInv, HeldInRound, Lost
  <2>9. NoRequestLost'
    BY <2>1, <2>8, LosesNoMore DEF IInv
  <2> QED BY <2>9, <2>4, <2>5, <2>6, <2>7 DEF IInv
<1>2. CASE StartMachine
  <2>1. Lost' = Lost /\ stage = "inferring"
    BY <1>2 DEF StartMachine, mempool, Lost, Queued
  <2>2. NoRequestLost'
    BY <2>1, LosesNoMore DEF IInv
  <2> QED BY <1>2, <2>2 DEF StartMachine, IInv, TypeOK, Stage, HeldInRound,
                            PendingIsQueued, NoSecondSeal, Queued, mempool
<1>3. CASE Poll
  \* NoSecondSeal leaves the branch in which the engine dies.
  <2>1. pendingTx = None /\ stage = "waiting"
    BY <1>3 DEF Poll, IInv, NoSecondSeal
  <2>2. /\ stage' = "dead" /\ held' = None
        /\ UNCHANGED <<submits, queue, pending, pendingTx, machine, outcome, chain>>
    BY <1>3, <2>1 DEF Poll, mempool
  <2>3. Lost = {}
    BY <2>1 DEF IInv, NoRequestLost
  <2>4. Lost' \subseteq {held}
    BY <2>2, <2>3 DEF Lost, Queued
  <2>5. NoRequestLost'
    BY <2>2, <2>4 DEF NoRequestLost
  <2> QED BY <2>2, <2>5 DEF IInv, TypeOK, Stage, HeldInRound, PendingIsQueued,
                            NoSecondSeal, Queued
<1>4. CASE TimeOut
  <2>1. /\ stage = "waiting" /\ Add(held) /\ stage' = "idle" /\ held' = None
        /\ UNCHANGED <<submits, pendingTx, machine, outcome, chain>>
    BY <1>4 DEF TimeOut, Requeued
  <2>2. PICK h \in Request : h = held
    BY <2>1 DEF IInv, HeldInRound
  <2>3. /\ queue' \in Seq(Request) /\ pending' \subseteq Request
        /\ PendingIsQueued' /\ Queued(h)'
        /\ \A k : Queued(k) => Queued(k)'
    BY <2>1, <2>2, AddKeeps DEF IInv
  <2>4. TypeOK'
    BY <2>1, <2>3 DEF IInv, TypeOK, Stage
  <2>5. HeldInRound' /\ NoSecondSeal'
    BY <2>1 DEF HeldInRound, NoSecondSeal
  <2>6. Lost' \subseteq Lost
    BY <2>1, <2>2, <2>3 DEF Lost
  <2>7. NoRequestLost'
    BY <2>1, <2>6, LosesNoMore DEF IInv
  <2> QED BY <2>3, <2>4, <2>5, <2>7 DEF IInv
<1>5. CASE Receive
  <2>1. CASE Seal
    <3>1. UNCHANGED <<submits, stage, held>>
      BY <1>5 DEF Receive
    <3>2. /\ queue' = queue /\ pending' \subseteq pending
          /\ chain \subseteq chain' /\ chain' \subseteq Request
          /\ machine' = None /\ pendingTx' = None /\ outcome' = FALSE
          /\ PendingIsQueued'
      BY <2>1, SealKeeps DEF IInv
    <3>3. TypeOK'
      BY <3>1, <3>2 DEF IInv, TypeOK
    <3>4. HeldInRound' /\ NoSecondSeal'
      BY <3>1, <3>2 DEF IInv, HeldInRound, NoSecondSeal
    <3>5. Lost' \subseteq Lost
      BY <3>1, <3>2 DEF Lost, Queued
    <3>6. NoRequestLost'
      BY <3>1, <3>5, LosesNoMore DEF IInv
    <3> QED BY <3>2, <3>3, <3>4, <3>6 DEF IInv
  <2>2. CASE ~Seal
    <3>1. /\ pendingTx = None /\ outcome' = TRUE
          /\ UNCHANGED <<submits, queue, pending, stage, held, pendingTx, machine, chain>>
      BY <1>5, <2>2 DEF Receive, mempool
    <3>2. Lost' = Lost
      BY <3>1 DEF Lost, Queued
    <3>3. NoRequestLost'
      BY <3>1, <3>2, LosesNoMore DEF IInv
    <3> QED BY <3>1, <3>3 DEF IInv, TypeOK, HeldInRound, PendingIsQueued,
                              NoSecondSeal, Queued
  <2> QED BY <2>1, <2>2
<1>6. ASSUME NEW r \in Request, Submit(r) PROVE IInv'
  <2>1. /\ Add(r) /\ submits' = [submits EXCEPT ![r] = @ + 1]
        /\ UNCHANGED <<stage, held, pendingTx, machine, outcome, chain>>
    BY <1>6 DEF Submit
  <2>2. /\ queue' \in Seq(Request) /\ pending' \subseteq Request
        /\ PendingIsQueued' /\ Queued(r)'
        /\ \A k : Queued(k) => Queued(k)'
    BY <2>1, AddKeeps DEF IInv
  <2>3. TypeOK'
    BY <2>1, <2>2 DEF IInv, TypeOK
  <2>4. HeldInRound' /\ NoSecondSeal'
    BY <2>1 DEF IInv, HeldInRound, NoSecondSeal
  <2>5. Lost' \subseteq Lost
    BY <2>1, <2>2 DEF IInv, TypeOK, Lost
  <2>6. NoRequestLost'
    BY <2>1, <2>5, LosesNoMore DEF IInv
  <2> QED BY <2>2, <2>3, <2>4, <2>6 DEF IInv
<1>7. ASSUME NEW r \in Request, IngestBlock(r) PROVE IInv'
  <2>1. Lost' \subseteq Lost /\ stage' = stage
    BY <1>7 DEF IngestBlock, Remove, Lost, Queued
  <2>2. NoRequestLost'
    BY <2>1, LosesNoMore DEF IInv
  <2> QED BY <1>7, <2>2 DEF IngestBlock, Remove, IInv, TypeOK, HeldInRound,
                            PendingIsQueued, NoSecondSeal, Queued
<1>8. CASE UNCHANGED vars
  BY <1>8 DEF vars, IInv, TypeOK, HeldInRound, PendingIsQueued, NoSecondSeal,
              NoRequestLost, Lost, Queued
<1> QED BY <1>1, <1>2, <1>3, <1>4, <1>5, <1>6, <1>7, <1>8 DEF Next, Resume

(* The strengthened invariant holds of every execution.                    *)
THEOREM Invariance == Spec => []IInv
<1>1. IInv /\ [Next]_vars => IInv'
  BY NextIInv
<1> QED BY InitIInv, <1>1, PTL DEF Spec

-----------------------------------------------------------------------------
(* The engine's fields and the mempool keep their types: what a time-out   *)
(* puts back into the queue is a request (engine.py, mempool.add).         *)
THEOREM TypeCorrect == Spec => []TypeOK
<1>1. IInv => TypeOK
  BY DEF IInv
<1> QED BY Invariance, <1>1, PTL

(* What the mempool refuses as a duplicate is in its queue (mempool.py).   *)
THEOREM DuplicatesAreQueued == Spec => []PendingIsQueued
<1>1. IInv => PendingIsQueued
  BY DEF IInv
<1> QED BY Invariance, <1>1, PTL

(* No outcome is sealed by a handler and by the polling loop               *)
(* (_wait_for_qoi_commit).                                                 *)
THEOREM SealedByOneParty == Spec => []NoSecondSeal
<1>1. IInv => NoSecondSeal
  BY DEF IInv
<1> QED BY Invariance, <1>1, PTL

(* No interleaving of the loop, the handlers and peers' blocks loses a     *)
(* request while the engine runs, and its death loses one at most          *)
(* (_run_qoi_round).                                                       *)
THEOREM NothingLost == Spec => []NoRequestLost
<1>1. IInv => NoRequestLost
  BY DEF IInv
<1> QED BY Invariance, <1>1, PTL

-----------------------------------------------------------------------------
(* Counting copies.                                                        *)

Places(q, r) == {i \in DOMAIN q : q[i] = r}

(* The places of a request in a finite queue can be counted.               *)
LEMMA PlacesFinite ==
  ASSUME NEW S, NEW q \in Seq(S), NEW r
  PROVE  IsFiniteSet(Places(q, r)) /\ Cardinality(Places(q, r)) \in Nat
<1>1. Len(q) \in Nat /\ DOMAIN q = 1..Len(q)
  OBVIOUS
<1>2. IsFiniteSet(1..Len(q))
  BY <1>1, FS_Interval
<1>3. Places(q, r) \subseteq 1..Len(q)
  BY <1>1 DEF Places
<1>4. IsFiniteSet(Places(q, r))
  BY <1>2, <1>3, FS_Subset
<1> QED BY <1>4, FS_CardinalityType

(* Append adds one place for its element (Mempool.add).                    *)
LEMMA AppendCounts ==
  ASSUME NEW S, NEW q \in Seq(S), NEW x \in S, NEW r
  PROVE  Cardinality(Places(Append(q, x), r)) =
           Cardinality(Places(q, r)) + (IF x = r THEN 1 ELSE 0)
<1>1. /\ Len(q) \in Nat /\ DOMAIN q = 1..Len(q)
      /\ DOMAIN Append(q, x) = 1..(Len(q) + 1)
      /\ Append(q, x)[Len(q) + 1] = x
      /\ \A i \in 1..Len(q) : Append(q, x)[i] = q[i]
  OBVIOUS
<1>2. IsFiniteSet(Places(q, r)) /\ Cardinality(Places(q, r)) \in Nat
  BY PlacesFinite
<1>5. (Len(q) + 1) \notin Places(q, r)
  BY <1>1 DEF Places
<1>3. CASE x = r
  <2>1. Places(Append(q, x), r) = Places(q, r) \cup {Len(q) + 1}
    BY <1>1, <1>3 DEF Places
  <2> QED BY <2>1, <1>2, <1>3, <1>5, FS_AddElement
<1>4. CASE x # r
  <2>1. Places(Append(q, x), r) = Places(q, r)
    BY <1>1, <1>4 DEF Places
  <2> QED BY <2>1, <1>2, <1>4
<1> QED BY <1>3, <1>4

(* The tail has one place fewer for the head (Mempool.next_inference).     *)
LEMMA TailCounts ==
  ASSUME NEW S, NEW q \in Seq(S), q # <<>>, NEW r
  PROVE  Cardinality(Places(q, r)) =
           Cardinality(Places(Tail(q), r)) + (IF Head(q) = r THEN 1 ELSE 0)
<1> DEFINE T == Tail(q)
           P == Places(T, r)
           f == [i \in P |-> i + 1]
<1>1. /\ Len(q) \in Nat \ {0} /\ DOMAIN q = 1..Len(q)
      /\ DOMAIN T = 1..(Len(q) - 1) /\ T \in Seq(S) /\ Head(q) = q[1]
      /\ \A i \in 1..(Len(q) - 1) : T[i] = q[i + 1]
  OBVIOUS
<1>2. IsFiniteSet(P) /\ IsFiniteSet(Places(q, r)) /\ Cardinality(P) \in Nat
  BY <1>1, PlacesFinite
<1>3. ExistsBijection(P, Places(q, r) \ {1})
  <2>1. \A i \in P : i + 1 \in Places(q, r) \ {1}
    BY <1>1 DEF Places
  <2>2. \A j \in Places(q, r) \ {1} : j - 1 \in P /\ (j - 1) + 1 = j
    <3> SUFFICES ASSUME NEW j \in Places(q, r) \ {1}
                 PROVE  j - 1 \in P /\ (j - 1) + 1 = j
      OBVIOUS
    <3>1. j \in 1..Len(q) /\ j # 1 /\ q[j] = r
      BY <1>1 DEF Places
    <3>2. j - 1 \in 1..(Len(q) - 1) /\ (j - 1) + 1 = j
      BY <3>1, <1>1
    <3> QED BY <3>1, <3>2, <1>1 DEF Places
  <2>3. P \subseteq Int
    BY <1>1 DEF Places
  <2>4. f \in [P -> Places(q, r) \ {1}]
    BY <2>1
  <2>5. \A a, b \in P : f[a] = f[b] => a = b
    BY <2>3
  <2>6. \A j \in Places(q, r) \ {1} : \E i \in P : f[i] = j
    BY <2>2
  <2>7. f \in Bijection(P, Places(q, r) \ {1})
    BY <2>4, <2>5, <2>6 DEF Bijection, Injection, IsInjective, Surjection
  <2> QED BY <2>7 DEF ExistsBijection
<1>4. Cardinality(Places(q, r) \ {1}) = Cardinality(P)
  BY <1>2, <1>3, FS_Bijection
<1>5. 1 \in Places(q, r) <=> Head(q) = r
  BY <1>1 DEF Places
<1>6. Cardinality(Places(q, r) \ {1}) =
        IF 1 \in Places(q, r) THEN Cardinality(Places(q, r)) - 1
                              ELSE Cardinality(Places(q, r))
  BY <1>2, FS_RemoveElement
<1>7. Cardinality(Places(q, r)) \in Nat
  BY <1>1, PlacesFinite
<1> QED BY <1>2, <1>4, <1>5, <1>6, <1>7

(* Adding a request adds at most one copy, and none of another request.    *)
LEMMA AddCounts ==
  ASSUME TypeOK, NEW r \in Request, Add(r), NEW k
  PROVE  /\ Cardinality(Places(queue', k)) \in Nat
         /\ Cardinality(Places(queue', k)) <=
              Cardinality(Places(queue, k)) + (IF r = k THEN 1 ELSE 0)
<1>1. queue \in Seq(Request) /\ Cardinality(Places(queue, k)) \in Nat
  BY PlacesFinite DEF TypeOK
<1>2. CASE r \in pending
  BY <1>1, <1>2 DEF Add, Added
<1>3. CASE r \notin pending
  <2>1. queue' = Append(queue, r)
    BY <1>3 DEF Add, Added
  <2>2. Cardinality(Places(queue', k)) =
          Cardinality(Places(queue, k)) + (IF r = k THEN 1 ELSE 0)
    BY <2>1, <1>1, AppendCounts
  <2> QED BY <2>2, <1>1
<1> QED BY <1>2, <1>3

(* NoMultiplication in terms of Places.                                    *)
CInv == \A r \in Request :
          Cardinality(Places(queue, r)) + (IF held = r THEN 1 ELSE 0) <= submits[r]

(* A step adds a copy only where it takes one away or counts a submission. *)
LEMMA NextCInv == IInv /\ CInv /\ [Next]_vars => CInv'
<1> SUFFICES ASSUME IInv, CInv, [Next]_vars, NEW k \in Request
             PROVE  Cardinality(Places(queue', k)) + (IF held' = k THEN 1 ELSE 0)
                      <= submits'[k]
  BY DEF CInv
<1> USE RequestAssumption DEF RequestAssumption
<1>0. /\ TypeOK /\ queue \in Seq(Request)
      /\ submits[k] \in Nat /\ Cardinality(Places(queue, k)) \in Nat
      /\ Cardinality(Places(queue, k)) + (IF held = k THEN 1 ELSE 0) <= submits[k]
  BY PlacesFinite DEF IInv, CInv, TypeOK
<1>1. CASE TakeRequest
  <2>1. /\ stage = "idle" /\ queue # <<>> /\ held' = Head(queue)
        /\ queue' = Tail(queue) /\ submits' = submits
    BY <1>1 DEF TakeRequest, Popped
  <2>2. held = None
    BY <2>1 DEF IInv, HeldInRound
  <2>3. Cardinality(Places(queue, k)) =
          Cardinality(Places(queue', k)) + (IF held' = k THEN 1 ELSE 0)
    BY <2>1, <1>0, TailCounts
  <2> QED BY <2>1, <2>2, <2>3, <1>0
<1>2. CASE StartMachine
  BY <1>2, <1>0 DEF StartMachine, mempool
<1>3. CASE Poll
  <2>1. pendingTx = None
    BY <1>3 DEF Poll, IInv, NoSecondSeal
  <2>2. held' = None /\ UNCHANGED <<queue, submits>>
    BY <1>3, <2>1 DEF Poll, mempool
  <2> QED BY <2>2, <1>0
<1>4. CASE TimeOut
  <2>1. Add(held) /\ held' = None /\ submits' = submits /\ stage = "waiting"
    BY <1>4 DEF TimeOut, Requeued
  <2>2. PICK h \in Request : h = held
    BY <2>1 DEF IInv, HeldInRound
  <2>3. /\ Cardinality(Places(queue', k)) \in Nat
        /\ Cardinality(Places(queue', k)) <=
             Cardinality(Places(queue, k)) + (IF h = k THEN 1 ELSE 0)
    BY <2>1, <2>2, <1>0, AddCounts
  <2> QED BY <2>1, <2>2, <2>3, <1>0
<1>5. CASE Receive
  <2>1. queue' = queue /\ held' = held /\ submits' = submits
    BY <1>5 DEF Receive, Seal, Remove, mempool
  <2> QED BY <2>1, <1>0
<1>6. ASSUME NEW r \in Request, Submit(r)
      PROVE  Cardinality(Places(queue', k)) + (IF held' = k THEN 1 ELSE 0) <= submits'[k]
  <2>1. Add(r) /\ held' = held /\ submits' = [submits EXCEPT ![r] = @ + 1]
    BY <1>6 DEF Submit
  <2>2. /\ Cardinality(Places(queue', k)) \in Nat
        /\ Cardinality(Places(queue', k)) <=
             Cardinality(Places(queue, k)) + (IF r = k THEN 1 ELSE 0)
    BY <2>1, <1>0, AddCounts
  <2>3. submits'[k] = submits[k] + (IF r = k THEN 1 ELSE 0)
    BY <2>1, <1>0 DEF TypeOK
  <2> QED BY <2>1, <2>2, <2>3, <1>0
<1>7. ASSUME NEW r \in Request, IngestBlock(r)
      PROVE  Cardinality(Places(queue', k)) + (IF held' = k THEN 1 ELSE 0) <= submits'[k]
  BY <1>7, <1>0 DEF IngestBlock, Remove
<1>8. CASE UNCHANGED vars
  BY <1>8, <1>0 DEF vars
<1> QED BY <1>1, <1>2, <1>3, <1>4, <1>5, <1>6, <1>7, <1>8 DEF Next, Resume

(* A request is never in more places than it was submitted: no round       *)
(* copies one (_run_qoi_round, Mempool.add).                               *)
THEOREM NothingMultiplied == Spec => []NoMultiplication
<1>1. Init => CInv
  <2> SUFFICES ASSUME Init, NEW r \in Request
               PROVE  Cardinality(Places(queue, r)) + (IF held = r THEN 1 ELSE 0)
                        <= submits[r]
    BY DEF CInv
  <2>1. Places(queue, r) = {}
    BY DEF Init, Places
  <2> QED BY <2>1, FS_EmptySet, RequestAssumption DEF Init, RequestAssumption
<1>2. CInv => NoMultiplication
  BY DEF CInv, NoMultiplication, Copies, Places
<1> QED BY Invariance, NextCInv, <1>1, <1>2, PTL DEF Spec

=============================================================================
