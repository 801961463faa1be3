------------------------- MODULE NodeService_proofs ------------------------
(***************************************************************************)
(* The invariants of NodeService, and what a start keeps, for any network, *)
(* any transactions of the clients, any genesis block that keeps its own   *)
(* books, any number of kills and failed writes.                           *)
(*                                                                         *)
(* What makes them hold is that a ledger is a function of its chain but    *)
(* for reputations and the faucet (Books): no transaction reads either of  *)
(* them but to check its sender's means. So every block of a node's chain  *)
(* was valid where it stands (Fits), or spends a gift, and nonces count.   *)
(*                                                                         *)
(* Three recursive functions are met: the transactions of a block          *)
(* (Applied), the fees of a block (Fees) and the rows of a file (Replay).  *)
(* Each is first shown to be the end of a run of steps (RecursionUpTo),    *)
(* then the facts about it go by induction along the run (UpTo). What a    *)
(* block does to the supply is the sum, along its run, of what each        *)
(* transaction does, which moves at most four terms of the sum (SumMove).  *)
(* The rewards of a round are equal shares but for the leader's bonus, and *)
(* no more of them than the shares of its pool (SumTopped, ShareOfPool).   *)
(***************************************************************************)
EXTENDS NodeService, Induction

-----------------------------------------------------------------------------
(* What one transaction changes. Each operator of Ledger, field by field.  *)

(* What a transaction costs its sender, beside the stake it moves.         *)
Cost(tx) ==
  tx.fee + IF tx.type \in {"TRANSFER", "STAKE", "CALL"} THEN tx.amount
           ELSE IF tx.type = "UNSTAKE" THEN -tx.amount ELSE 0

(* What the proposer of a block gets of the fee of transaction tx.          *)
Toll(tx) == IF tx.type \in SimpleType /\ tx.fee > 0 THEN tx.fee ELSE 0

(* What transaction tx of a block of p adds to the balance of a.           *)
Gain(tx, p, a) ==
  (IF a = p THEN Toll(tx) ELSE 0)
  - (IF tx.type \in SimpleType /\ a = tx.from THEN Cost(tx) ELSE 0)
  + (IF tx.type \in {"TRANSFER", "REWARD"} /\ a = tx.to THEN tx.amount ELSE 0)

(* What the stake k of its sender is after transaction tx.                 *)
StakeAfter(k, tx) ==
  IF tx.type = "STAKE" THEN k + tx.amount
  ELSE IF tx.type = "UNSTAKE" THEN k - tx.amount
  ELSE IF tx.type = "SLASH" THEN NonNegative(k - tx.amount) ELSE k

(* The node records D, with the stakes k, after transaction tx.            *)
NodeAfter(D, k, tx) ==
  IF tx.type = "REGISTER"
  THEN [D EXCEPT ![tx.from] = [kind |-> "pos", active |-> TRUE, verified |-> FALSE]]
  ELSE IF tx.type = "REGISTER_POS"
  THEN [D EXCEPT ![tx.from] = [kind |-> "pos", active |-> FALSE, verified |-> FALSE]]
  ELSE IF tx.type = "REGISTER_DNN"
  THEN [D EXCEPT ![tx.from] = [kind |-> "dnn", active |-> FALSE, verified |-> FALSE]]
  ELSE IF tx.type = "SLASH"
  THEN [D EXCEPT ![tx.from] =
          IF @ # None /\ NonNegative(k[tx.from] - tx.amount) < MinStake
          THEN [@ EXCEPT !.active = FALSE] ELSE @]
  ELSE IF tx.type = "ADMITTED" /\ D[tx.to] # None
  THEN [D EXCEPT ![tx.to] = [@ EXCEPT !.active = TRUE, !.verified = TRUE]]
  ELSE IF tx.type = "REJECTED"
  THEN [D EXCEPT ![tx.to] = IF @ = None THEN None ELSE [@ EXCEPT !.active = FALSE]]
  ELSE D

(* The PoM records P after transaction tx.                                 *)
PomAfter(P, tx) ==
  IF tx.type = "REGISTER_DNN"
  THEN [P EXCEPT ![tx.from] = [positive |-> {}, negative |-> {}]]
  ELSE IF tx.type = "REJECTED" THEN [P EXCEPT ![tx.to] = None]
  ELSE IF tx.type # "VERIFY" THEN P
  ELSE IF P[tx.to] = None \/ tx.from \in P[tx.to].positive \cup P[tx.to].negative THEN P
  ELSE IF tx.ok THEN [P EXCEPT ![tx.to] = [P[tx.to] EXCEPT !.positive = @ \cup {tx.from}]]
  ELSE [P EXCEPT ![tx.to] = [P[tx.to] EXCEPT !.negative = @ \cup {tx.from}]]

(* The balances, stakes and nonces after transaction tx.                   *)
Moves(t, s, tx, p) ==
  \A a \in Address :
    /\ t.balance[a] = s.balance[a] + Gain(tx, p, a)
    /\ t.stake[a] = IF a = tx.from THEN StakeAfter(s.stake[a], tx) ELSE s.stake[a]
    /\ t.nonce[a] = IF tx.type \in SimpleType /\ a = tx.from THEN tx.nonce ELSE s.nonce[a]

(* The fields of a transaction.                                            *)
LEMMA TypesOfTx ==
  ASSUME NEW tx, WellFormed(tx)
  PROVE  /\ tx \in Tx /\ tx.from \in Address /\ tx.amount \in Int /\ tx.fee \in Int
         /\ tx.nonce \in Nat /\ tx.ok \in BOOLEAN /\ tx.type \in SimpleType \cup SystemType
         /\ tx.type \in {"TRANSFER", "REWARD", "VERIFY", "ADMITTED", "REJECTED"} => tx.to \in Address
         /\ Toll(tx) \in Int /\ Toll(tx) >= 0
         /\ Toll(tx) >= tx.fee \/ tx.type \notin SimpleType
<1>1. /\ tx \in Tx /\ tx.from \in Address /\ tx.amount \in Int /\ tx.fee \in Int
      /\ tx.nonce \in Nat /\ tx.ok \in BOOLEAN /\ tx.type \in SimpleType \cup SystemType
      /\ tx.type \in {"TRANSFER", "REWARD", "VERIFY", "ADMITTED", "REJECTED"} => tx.to \in Address
  BY DEF WellFormed, Tx
<1>2. Toll(tx) \in Int /\ Toll(tx) >= 0
  BY <1>1 DEF Toll
<1>3. Toll(tx) >= tx.fee \/ tx.type \notin SimpleType
  BY <1>1 DEF Toll
<1> QED BY <1>1, <1>2, <1>3

(* What the fee of a transaction changes.                                  *)
LEMMA FeePaidFields ==
  ASSUME NEW s \in LedgerState, NEW tx, WellFormed(tx), NEW p \in Address
  PROVE  /\ FeePaid(s, tx, p) \in LedgerState
         /\ \A a \in Address : FeePaid(s, tx, p).balance[a]
                = s.balance[a] + IF a = p THEN Toll(tx) ELSE 0
         /\ FeePaid(s, tx, p).stake = s.stake /\ FeePaid(s, tx, p).nonce = s.nonce
         /\ FeePaid(s, tx, p).node = s.node /\ FeePaid(s, tx, p).pom = s.pom
         /\ FeePaid(s, tx, p).rep = s.rep
<1>1. tx.fee \in Int
  BY TypesOfTx
<1>2. CASE tx.type \in SimpleType /\ tx.fee > 0
  BY <1>1, <1>2 DEF FeePaid, LedgerState, Toll
<1>3. CASE ~ (tx.type \in SimpleType /\ tx.fee > 0)
  BY <1>1, <1>3 DEF FeePaid, LedgerState, Toll
<1> QED BY <1>2, <1>3

(* What a transaction that costs its sender x and moves k of stake         *)
(* changes.                                                                *)
LEMMA SpentFields ==
  ASSUME NEW s \in LedgerState, NEW tx, WellFormed(tx), NEW x \in Int
  PROVE  /\ Spent(s, tx, x) \in LedgerState
         /\ Spent(s, tx, x).balance = [s.balance EXCEPT ![tx.from] = @ - x - tx.fee]
         /\ Spent(s, tx, x).nonce = [s.nonce EXCEPT ![tx.from] = tx.nonce]
         /\ Spent(s, tx, x).stake = s.stake /\ Spent(s, tx, x).node = s.node
         /\ Spent(s, tx, x).pom = s.pom /\ Spent(s, tx, x).rep = s.rep
<1> DEFINE B == [s.balance EXCEPT ![tx.from] = @ - x - tx.fee]
           N == [s.nonce EXCEPT ![tx.from] = tx.nonce]
<1>1. tx.fee \in Int /\ tx.from \in Address /\ tx.nonce \in Nat
  BY TypesOfTx
<1>2. B \in [Address -> Int] /\ N \in [Address -> Nat]
  BY <1>1 DEF LedgerState
<1>3. Spent(s, tx, x) = [s EXCEPT !.balance = B, !.nonce = N]
  BY <1>1 DEF Spent, LedgerState
<1> HIDE DEF B, N
<1>4. /\ [s EXCEPT !.balance = B, !.nonce = N] \in LedgerState
      /\ [s EXCEPT !.balance = B, !.nonce = N].balance = B
      /\ [s EXCEPT !.balance = B, !.nonce = N].nonce = N
      /\ [s EXCEPT !.balance = B, !.nonce = N].stake = s.stake
      /\ [s EXCEPT !.balance = B, !.nonce = N].node = s.node
      /\ [s EXCEPT !.balance = B, !.nonce = N].pom = s.pom
      /\ [s EXCEPT !.balance = B, !.nonce = N].rep = s.rep
  BY <1>2 DEF LedgerState
<1> QED BY <1>3, <1>4 DEF B, N

(* A transaction that moves no stake.                                      *)
LEMMA SpentZero ==
  ASSUME NEW s \in LedgerState, NEW tx, WellFormed(tx)
  PROVE  /\ Spent(s, tx, 0) \in LedgerState
         /\ Spent(s, tx, 0).balance = [s.balance EXCEPT ![tx.from] = @ - 0 - tx.fee]
         /\ Spent(s, tx, 0).nonce = [s.nonce EXCEPT ![tx.from] = tx.nonce]
         /\ Spent(s, tx, 0).stake = s.stake /\ Spent(s, tx, 0).node = s.node
         /\ Spent(s, tx, 0).pom = s.pom /\ Spent(s, tx, 0).rep = s.rep
<1>1. PICK x \in Int : x = 0
  OBVIOUS
<1>2. /\ Spent(s, tx, x) \in LedgerState
      /\ Spent(s, tx, x).balance = [s.balance EXCEPT ![tx.from] = @ - x - tx.fee]
      /\ Spent(s, tx, x).nonce = [s.nonce EXCEPT ![tx.from] = tx.nonce]
      /\ Spent(s, tx, x).stake = s.stake /\ Spent(s, tx, x).node = s.node
      /\ Spent(s, tx, x).pom = s.pom /\ Spent(s, tx, x).rep = s.rep
  BY SpentFields
<1> QED BY <1>1, <1>2

(* What each of the registrations changes.                                 *)
LEMMA RegisteredFields ==
  ASSUME NEW s \in LedgerState, NEW tx, WellFormed(tx),
         NEW k \in {"dnn", "pos"}, NEW active \in BOOLEAN
  PROVE  /\ Registered(s, tx, k, active) \in LedgerState
         /\ Registered(s, tx, k, active).balance = Spent(s, tx, 0).balance
         /\ Registered(s, tx, k, active).nonce = Spent(s, tx, 0).nonce
         /\ Registered(s, tx, k, active).stake = s.stake
         /\ Registered(s, tx, k, active).pom = s.pom
         /\ Registered(s, tx, k, active).node
              = [s.node EXCEPT ![tx.from] = [kind |-> k, active |-> active, verified |-> FALSE]]
<1> DEFINE v == Spent(s, tx, 0)
           rec == [kind |-> k, active |-> active, verified |-> FALSE]
           B == [v.node EXCEPT ![tx.from] = rec]
           N == [v.rep EXCEPT ![tx.from] = 0]
<1>1. tx.from \in Address
  BY TypesOfTx
<1>0. v \in LedgerState /\ v.stake = s.stake /\ v.node = s.node /\ v.pom = s.pom
  BY SpentZero
<1>5. Registered(s, tx, k, active) = [v EXCEPT !.node[tx.from] = rec, !.rep[tx.from] = 0]
  BY DEF Registered
<1>6. rec \in NodeRecord
  BY DEF NodeRecord
<1> HIDE DEF v, rec
<1>2. B \in [Address -> NodeRecord \cup {None}] /\ N \in [Address -> Nat]
  BY <1>0, <1>1, <1>6 DEF LedgerState
<1>3. Registered(s, tx, k, active) = [v EXCEPT !.node = B, !.rep = N]
  BY <1>0, <1>1, <1>5 DEF LedgerState
<1> HIDE DEF B, N
<1>4. /\ [v EXCEPT !.node = B, !.rep = N] \in LedgerState
      /\ [v EXCEPT !.node = B, !.rep = N].balance = v.balance
      /\ [v EXCEPT !.node = B, !.rep = N].nonce = v.nonce
      /\ [v EXCEPT !.node = B, !.rep = N].stake = v.stake
      /\ [v EXCEPT !.node = B, !.rep = N].pom = v.pom
      /\ [v EXCEPT !.node = B, !.rep = N].node = B
  BY <1>0, <1>2 DEF LedgerState
<1> QED BY <1>0, <1>3, <1>4 DEF B, v, rec

(* What taking stake back changes.                                         *)
LEMMA UnstakedFields ==
  ASSUME NEW s \in LedgerState, NEW tx, WellFormed(tx)
  PROVE  /\ Unstaked(s, tx) \in LedgerState
         /\ Unstaked(s, tx).balance = [s.balance EXCEPT ![tx.from] = @ - (-tx.amount) - tx.fee]
         /\ Unstaked(s, tx).nonce = [s.nonce EXCEPT ![tx.from] = tx.nonce]
         /\ Unstaked(s, tx).stake = [s.stake EXCEPT ![tx.from] = @ - tx.amount]
         /\ Unstaked(s, tx).node = s.node /\ Unstaked(s, tx).pom = s.pom
<1> DEFINE v == Spent(s, tx, -tx.amount)
<1>1. tx.from \in Address /\ tx.amount \in Int
  BY TypesOfTx
<1>2. /\ v \in LedgerState
      /\ v.balance = [s.balance EXCEPT ![tx.from] = @ - (-tx.amount) - tx.fee]
      /\ v.nonce = [s.nonce EXCEPT ![tx.from] = tx.nonce]
      /\ v.stake = s.stake /\ v.node = s.node /\ v.pom = s.pom
  <2> DEFINE x == -tx.amount
  <2>1. x \in Int
    BY <1>1
  <2> HIDE DEF x
  <2> QED BY <2>1, SpentFields DEF x
<1>3. Unstaked(s, tx) = [v EXCEPT !.stake[tx.from] = @ - tx.amount]
  BY DEF Unstaked
<1> HIDE DEF v
<1>4. /\ [v EXCEPT !.stake[tx.from] = @ - tx.amount] \in LedgerState
      /\ [v EXCEPT !.stake[tx.from] = @ - tx.amount].balance = v.balance
      /\ [v EXCEPT !.stake[tx.from] = @ - tx.amount].nonce = v.nonce
      /\ [v EXCEPT !.stake[tx.from] = @ - tx.amount].stake = [v.stake EXCEPT ![tx.from] = @ - tx.amount]
      /\ [v EXCEPT !.stake[tx.from] = @ - tx.amount].node = v.node
      /\ [v EXCEPT !.stake[tx.from] = @ - tx.amount].pom = v.pom
  BY <1>1, <1>2 DEF LedgerState
<1> QED BY <1>2, <1>3, <1>4

(* What a slash changes: the stake, and the activity of a node that falls  *)
(* below the minimum.                                                      *)
LEMMA SlashedFields ==
  ASSUME NEW s \in LedgerState, NEW tx, WellFormed(tx)
  PROVE  /\ Slashed(s, tx) \in LedgerState
         /\ Slashed(s, tx).balance = s.balance
         /\ Slashed(s, tx).nonce = s.nonce
         /\ Slashed(s, tx).stake = [s.stake EXCEPT ![tx.from] = NonNegative(@ - tx.amount)]
         /\ Slashed(s, tx).pom = s.pom
         /\ Slashed(s, tx).node =
              [s.node EXCEPT ![tx.from] =
                 IF @ # None /\ NonNegative(s.stake[tx.from] - tx.amount) < MinStake
                 THEN [@ EXCEPT !.active = FALSE] ELSE @]
<1> DEFINE left == NonNegative(s.stake[tx.from] - tx.amount)
           K == [s.stake EXCEPT ![tx.from] = left]
           R == [s.rep EXCEPT ![tx.from] = NonNegative(@ - RepPenalty)]
           rec == IF s.node[tx.from] # None /\ left < MinStake
                  THEN [s.node[tx.from] EXCEPT !.active = FALSE] ELSE s.node[tx.from]
           D == [s.node EXCEPT ![tx.from] = rec]
<1>1. tx.from \in Address /\ tx.amount \in Int /\ RepPenalty \in Nat
  BY TypesOfTx, LedgerAssumption
<1>2. K \in [Address -> Int] /\ R \in [Address -> Nat]
  BY <1>1 DEF LedgerState, NonNegative
<1>3. rec \in NodeRecord \cup {None}
  <2>1. s.node[tx.from] \in NodeRecord \cup {None}
    BY <1>1 DEF LedgerState
  <2>2. \A r \in NodeRecord : [r EXCEPT !.active = FALSE] \in NodeRecord
    BY DEF NodeRecord
  <2> HIDE DEF left
  <2> QED BY <2>1, <2>2
<1>4. D \in [Address -> NodeRecord \cup {None}]
  <2> HIDE DEF rec
  <2> QED BY <1>1, <1>3 DEF LedgerState
<1>5. Slashed(s, tx) = [s EXCEPT !.stake = K, !.rep = R, !.node = D]
  BY DEF Slashed
<1>6. K = [s.stake EXCEPT ![tx.from] = NonNegative(@ - tx.amount)]
  BY <1>1 DEF LedgerState
<1> HIDE DEF K, R, D
<1>7. /\ [s EXCEPT !.stake = K, !.rep = R, !.node = D] \in LedgerState
      /\ [s EXCEPT !.stake = K, !.rep = R, !.node = D].balance = s.balance
      /\ [s EXCEPT !.stake = K, !.rep = R, !.node = D].nonce = s.nonce
      /\ [s EXCEPT !.stake = K, !.rep = R, !.node = D].stake = K
      /\ [s EXCEPT !.stake = K, !.rep = R, !.node = D].pom = s.pom
      /\ [s EXCEPT !.stake = K, !.rep = R, !.node = D].node = D
  BY <1>2, <1>4 DEF LedgerState
<1>8. D = [s.node EXCEPT ![tx.from] =
             IF @ # None /\ NonNegative(s.stake[tx.from] - tx.amount) < MinStake
             THEN [@ EXCEPT !.active = FALSE] ELSE @]
  BY <1>1 DEF D, LedgerState
<1> QED BY <1>5, <1>6, <1>7, <1>8

(* What the answer to a verification changes.                              *)
LEMMA VerifiedFields ==
  ASSUME NEW s \in LedgerState, NEW tx, WellFormed(tx), tx.type = "VERIFY"
  PROVE  /\ Verified(s, tx) \in LedgerState
         /\ Verified(s, tx).balance = s.balance /\ Verified(s, tx).stake = s.stake
         /\ Verified(s, tx).nonce = s.nonce /\ Verified(s, tx).node = s.node
         /\ Verified(s, tx).pom = PomAfter(s.pom, tx)
<1> DEFINE P == PomAfter(s.pom, tx)
           r == s.pom[tx.to]
<1>1. tx.from \in Address /\ tx.to \in Address /\ tx.ok \in BOOLEAN
  BY TypesOfTx
<1>2. P = IF r = None \/ tx.from \in r.positive \cup r.negative THEN s.pom
          ELSE IF tx.ok THEN [s.pom EXCEPT ![tx.to] = [r EXCEPT !.positive = @ \cup {tx.from}]]
          ELSE [s.pom EXCEPT ![tx.to] = [r EXCEPT !.negative = @ \cup {tx.from}]]
  <2>1. s.pom \in [Address -> PomRecord \cup {None}]
    BY DEF LedgerState
  <2>2. CASE r = None \/ tx.from \in r.positive \cup r.negative
    BY <2>2 DEF PomAfter
  <2>3. CASE ~ (r = None \/ tx.from \in r.positive \cup r.negative) /\ tx.ok
    BY <2>3 DEF PomAfter
  <2>4. CASE ~ (r = None \/ tx.from \in r.positive \cup r.negative) /\ ~ tx.ok
    BY <2>4 DEF PomAfter
  <2> QED BY <2>2, <2>3, <2>4
<1>3. Verified(s, tx) = [s EXCEPT !.pom = P]
  <2>1. s.pom \in [Address -> PomRecord \cup {None}]
    BY DEF LedgerState
  <2>2. CASE r = None \/ tx.from \in r.positive \cup r.negative
    BY <1>2, <2>2 DEF Verified, LedgerState
  <2>3. CASE ~ (r = None \/ tx.from \in r.positive \cup r.negative) /\ tx.ok
    <3>1. P = [s.pom EXCEPT ![tx.to] = [r EXCEPT !.positive = @ \cup {tx.from}]]
      BY <1>2, <2>3
    <3>2. Verified(s, tx) = [s EXCEPT !.pom[tx.to].positive = @ \cup {tx.from}]
      BY <2>3 DEF Verified
    <3> HIDE DEF P
    <3> QED BY <1>1, <2>1, <3>1, <3>2 DEF LedgerState
  <2>4. CASE ~ (r = None \/ tx.from \in r.positive \cup r.negative) /\ ~ tx.ok
    <3>1. P = [s.pom EXCEPT ![tx.to] = [r EXCEPT !.negative = @ \cup {tx.from}]]
      BY <1>2, <2>4
    <3>2. Verified(s, tx) = [s EXCEPT !.pom[tx.to].negative = @ \cup {tx.from}]
      BY <2>4 DEF Verified
    <3> HIDE DEF P
    <3> QED BY <1>1, <2>1, <3>1, <3>2 DEF LedgerState
  <2> QED BY <2>2, <2>3, <2>4
<1>4. P \in [Address -> PomRecord \cup {None}]
  <2>1. s.pom \in [Address -> PomRecord \cup {None}] /\ r \in PomRecord \cup {None}
    BY <1>1 DEF LedgerState
  <2>2. \A x \in PomRecord : /\ [x EXCEPT !.positive = @ \cup {tx.from}] \in PomRecord
                            /\ [x EXCEPT !.negative = @ \cup {tx.from}] \in PomRecord
    BY <1>1 DEF PomRecord
  <2> HIDE DEF P, r
  <2> QED BY <1>1, <1>2, <2>1, <2>2
<1> HIDE DEF P
<1> QED BY <1>3, <1>4 DEF LedgerState, P

(* What the admission of a node changes.                                   *)
LEMMA AdmittedFields ==
  ASSUME NEW s \in LedgerState, NEW tx, WellFormed(tx), tx.type = "ADMITTED"
  PROVE  /\ Admitted(s, tx) \in LedgerState
         /\ Admitted(s, tx).balance = s.balance /\ Admitted(s, tx).stake = s.stake
         /\ Admitted(s, tx).nonce = s.nonce /\ Admitted(s, tx).pom = s.pom
         /\ Admitted(s, tx).node = NodeAfter(s.node, s.stake, tx)
<1> DEFINE D == NodeAfter(s.node, s.stake, tx)
           r == s.node[tx.to]
<1>1. tx.to \in Address
  BY TypesOfTx
<1>2. D = IF r = None THEN s.node
          ELSE [s.node EXCEPT ![tx.to] = [r EXCEPT !.active = TRUE, !.verified = TRUE]]
  BY <1>1 DEF NodeAfter, LedgerState
<1>3. Admitted(s, tx) = [s EXCEPT !.node = D]
  <2>1. CASE r = None
    BY <1>2, <2>1 DEF Admitted, LedgerState
  <2>2. CASE r # None
    <3>1. Admitted(s, tx) = [s EXCEPT !.node[tx.to].active = TRUE, !.node[tx.to].verified = TRUE]
      BY <2>2 DEF Admitted
    <3>2. D = [s.node EXCEPT ![tx.to] = [r EXCEPT !.active = TRUE, !.verified = TRUE]]
      BY <1>2, <2>2
    <3> DEFINE D1 == [s.node EXCEPT ![tx.to] = [r EXCEPT !.active = TRUE]]
               v == [s EXCEPT !.node = D1]
    <3>3. [s EXCEPT !.node[tx.to].active = TRUE] = v
      BY <1>1 DEF LedgerState
    <3>4. Admitted(s, tx) = [v EXCEPT !.node[tx.to].verified = TRUE]
      BY <3>1, <3>3
    <3>5. D = [D1 EXCEPT ![tx.to] = [@ EXCEPT !.verified = TRUE]]
      BY <1>1, <3>2 DEF LedgerState
    <3>6. v.node = D1
      BY DEF LedgerState
    <3>7. [v EXCEPT !.node[tx.to].verified = TRUE] = [v EXCEPT !.node = D]
      <4> HIDE DEF D, D1, v
      <4> QED BY <3>5, <3>6
    <3>8. [v EXCEPT !.node = D] = [s EXCEPT !.node = D]
      BY DEF LedgerState
    <3> QED BY <3>4, <3>7, <3>8
  <2> QED BY <2>1, <2>2
<1>4. D \in [Address -> NodeRecord \cup {None}]
  <2>1. s.node \in [Address -> NodeRecord \cup {None}] /\ r \in NodeRecord \cup {None}
    BY <1>1 DEF LedgerState
  <2>2. \A x \in NodeRecord : [x EXCEPT !.active = TRUE, !.verified = TRUE] \in NodeRecord
    BY DEF NodeRecord
  <2> HIDE DEF D, r
  <2> QED BY <1>1, <1>2, <2>1, <2>2
<1> HIDE DEF D
<1> QED BY <1>3, <1>4 DEF LedgerState, D

(* What the rejection of a node changes.                                   *)
LEMMA RejectedFields ==
  ASSUME NEW s \in LedgerState, NEW tx, WellFormed(tx), tx.type = "REJECTED"
  PROVE  /\ Rejected(s, tx) \in LedgerState
         /\ Rejected(s, tx).balance = s.balance /\ Rejected(s, tx).stake = s.stake
         /\ Rejected(s, tx).nonce = s.nonce
         /\ Rejected(s, tx).node = NodeAfter(s.node, s.stake, tx)
         /\ Rejected(s, tx).pom = PomAfter(s.pom, tx)
<1> DEFINE r == s.node[tx.to]
           rec == IF r = None THEN None ELSE [r EXCEPT !.active = FALSE]
           D == [s.node EXCEPT ![tx.to] = rec]
           P == [s.pom EXCEPT ![tx.to] = None]
<1>1. tx.to \in Address
  BY TypesOfTx
<1>2. D = NodeAfter(s.node, s.stake, tx) /\ P = PomAfter(s.pom, tx)
  BY <1>1 DEF NodeAfter, PomAfter, LedgerState
<1>3. Rejected(s, tx) = [s EXCEPT !.node = D, !.pom = P]
  BY DEF Rejected
<1>4. D \in [Address -> NodeRecord \cup {None}] /\ P \in [Address -> PomRecord \cup {None}]
  <2>1. s.node \in [Address -> NodeRecord \cup {None}] /\ r \in NodeRecord \cup {None}
    BY <1>1 DEF LedgerState
  <2>2. \A x \in NodeRecord : [x EXCEPT !.active = FALSE] \in NodeRecord
    BY DEF NodeRecord
  <2>3. rec \in NodeRecord \cup {None}
    BY <2>1, <2>2
  <2> HIDE DEF rec, r
  <2> QED BY <1>1, <2>1, <2>3 DEF LedgerState
<1> HIDE DEF D, P
<1>5. /\ [s EXCEPT !.node = D, !.pom = P] \in LedgerState
      /\ [s EXCEPT !.node = D, !.pom = P].balance = s.balance
      /\ [s EXCEPT !.node = D, !.pom = P].stake = s.stake
      /\ [s EXCEPT !.node = D, !.pom = P].nonce = s.nonce
      /\ [s EXCEPT !.node = D, !.pom = P].node = D
      /\ [s EXCEPT !.node = D, !.pom = P].pom = P
  BY <1>4 DEF LedgerState
<1> QED BY <1>2, <1>3, <1>5

(* What t is, when s is the ledger before transaction tx of a block of p.  *)
After(t, s, tx, p) ==
  /\ t \in LedgerState
  /\ Moves(t, s, tx, p)
  /\ t.node = NodeAfter(s.node, s.stake, tx)
  /\ t.pom = PomAfter(s.pom, tx)

(* Every transaction does what After says, whatever its type.              *)
LEMMA EffectFields ==
  ASSUME NEW s \in LedgerState, NEW tx, WellFormed(tx), NEW p \in Address
  PROVE  After(Effect(FeePaid(s, tx, p), tx), s, tx, p)
<1> DEFINE u == FeePaid(s, tx, p)
           t == Effect(u, tx)
<1>1. /\ tx.from \in Address /\ tx.amount \in Int /\ tx.fee \in Int
      /\ tx.nonce \in Nat /\ tx.type \in SimpleType \cup SystemType
      /\ tx.type \in {"TRANSFER", "REWARD", "VERIFY", "ADMITTED", "REJECTED"} => tx.to \in Address
      /\ Toll(tx) \in Int
  BY TypesOfTx
<1>2. /\ u \in LedgerState
      /\ \A a \in Address :
           u.balance[a] = s.balance[a] + IF a = p THEN Toll(tx) ELSE 0
      /\ u.stake = s.stake /\ u.nonce = s.nonce /\ u.node = s.node /\ u.pom = s.pom
  BY FeePaidFields
<1>3. /\ \A a \in Address : s.balance[a] \in Int /\ u.balance[a] \in Int /\ s.stake[a] \in Int
      /\ s.balance \in [Address -> Int] /\ u.balance \in [Address -> Int]
      /\ s.stake \in [Address -> Int] /\ s.nonce \in [Address -> Nat]
  BY <1>2 DEF LedgerState
<1>20. u \in LedgerState /\ u.stake = s.stake /\ u.nonce = s.nonce /\ u.node = s.node /\ u.pom = s.pom
  BY <1>2
<1> HIDE DEF u
<1> SUFFICES After(t, s, tx, p)
  BY DEF u
<1> USE DEF SimpleType
<1>4. CASE tx.type = "TRANSFER"
  <2> DEFINE v == Spent(u, tx, tx.amount)
  <2>1. /\ v \in LedgerState
        /\ v.balance = [u.balance EXCEPT ![tx.from] = @ - tx.amount - tx.fee]
        /\ v.nonce = [s.nonce EXCEPT ![tx.from] = tx.nonce]
        /\ v.stake = s.stake /\ v.node = s.node /\ v.pom = s.pom
    BY <1>1, <1>2, SpentFields
  <2>2. t = [v EXCEPT !.balance[tx.to] = @ + tx.amount]
    BY <1>4 DEF Effect
  <2> HIDE DEF v, t
  <2>7. /\ t \in LedgerState /\ t.balance = [v.balance EXCEPT ![tx.to] = @ + tx.amount] /\ t.stake = s.stake
        /\ t.nonce = [s.nonce EXCEPT ![tx.from] = tx.nonce] /\ t.node = s.node /\ t.pom = s.pom
    BY <1>1, <1>4, <2>1, <2>2 DEF LedgerState
  <2>8. Moves(t, s, tx, p)
    <3>1. ASSUME NEW a \in Address
          PROVE  /\ t.balance[a] = s.balance[a] + Gain(tx, p, a)
                 /\ t.stake[a] = IF a = tx.from THEN StakeAfter(s.stake[a], tx) ELSE s.stake[a]
                 /\ t.nonce[a] = IF tx.type \in SimpleType /\ a = tx.from THEN tx.nonce ELSE s.nonce[a]
      <4>1. t.balance[a] = s.balance[a] + Gain(tx, p, a)
        <5>1. v.balance[a] = IF a = tx.from THEN u.balance[a] - tx.amount - tx.fee ELSE u.balance[a]
          BY <1>1, <1>3, <2>1
        <5>2. t.balance[a] = v.balance[a] + IF a = tx.to THEN tx.amount ELSE 0
          BY <1>1, <1>3, <1>4, <2>1, <2>7
        <5>3. Gain(tx, p, a) = (IF a = p THEN Toll(tx) ELSE 0)
                - (IF a = tx.from THEN tx.fee + tx.amount ELSE 0) + IF a = tx.to THEN tx.amount ELSE 0
          BY <1>4 DEF Gain, Cost
        <5>4. u.balance[a] = s.balance[a] + IF a = p THEN Toll(tx) ELSE 0
          BY <1>2, <1>4
        <5> QED BY <1>1, <1>3, <5>1, <5>2, <5>3, <5>4
      <4> QED BY <1>1, <1>2, <1>3, <1>4, <2>1, <2>7, <4>1 DEF StakeAfter
    <3> QED BY <3>1 DEF Moves
  <2>9. t.node = NodeAfter(s.node, s.stake, tx) /\ t.pom = PomAfter(s.pom, tx)
    BY <1>4, <2>7 DEF NodeAfter, PomAfter
  <2> QED BY <2>7, <2>8, <2>9 DEF After
<1>5. CASE tx.type = "STAKE"
  <2> DEFINE v == Spent(u, tx, tx.amount)
  <2>1. /\ v \in LedgerState
        /\ v.balance = [u.balance EXCEPT ![tx.from] = @ - tx.amount - tx.fee]
        /\ v.nonce = [s.nonce EXCEPT ![tx.from] = tx.nonce]
        /\ v.stake = s.stake /\ v.node = s.node /\ v.pom = s.pom
    BY <1>1, <1>2, SpentFields
  <2>2. t = [v EXCEPT !.stake[tx.from] = @ + tx.amount]
    BY <1>5 DEF Effect
  <2> HIDE DEF v, t
  <2>7. /\ t \in LedgerState /\ t.balance = v.balance /\ t.stake = [v.stake EXCEPT ![tx.from] = @ + tx.amount]
        /\ t.nonce = [s.nonce EXCEPT ![tx.from] = tx.nonce] /\ t.node = s.node /\ t.pom = s.pom
    BY <1>1, <1>5, <2>1, <2>2 DEF LedgerState
  <2>8. Moves(t, s, tx, p)
    <3>1. ASSUME NEW a \in Address
          PROVE  /\ t.balance[a] = s.balance[a] + Gain(tx, p, a)
                 /\ t.stake[a] = IF a = tx.from THEN StakeAfter(s.stake[a], tx) ELSE s.stake[a]
                 /\ t.nonce[a] = IF tx.type \in SimpleType /\ a = tx.from THEN tx.nonce ELSE s.nonce[a]
      BY <1>1, <1>2, <1>3, <1>5, <2>1, <2>7 DEF Gain, Cost, StakeAfter
    <3> QED BY <3>1 DEF Moves
  <2>9. t.node = NodeAfter(s.node, s.stake, tx) /\ t.pom = PomAfter(s.pom, tx)
    BY <1>5, <2>7 DEF NodeAfter, PomAfter
  <2> QED BY <2>7, <2>8, <2>9 DEF After
<1>6. CASE tx.type = "UNSTAKE"
  <2>2. t = Unstaked(u, tx)
    BY <1>6 DEF Effect
  <2> HIDE DEF t
  <2>7. /\ t \in LedgerState /\ t.balance = [u.balance EXCEPT ![tx.from] = @ - (-tx.amount) - tx.fee] /\ t.stake = [s.stake EXCEPT ![tx.from] = @ - tx.amount]
        /\ t.nonce = [s.nonce EXCEPT ![tx.from] = tx.nonce] /\ t.node = s.node /\ t.pom = s.pom
    BY <1>20, <2>2, UnstakedFields
  <2>8. Moves(t, s, tx, p)
    <3>1. ASSUME NEW a \in Address
          PROVE  /\ t.balance[a] = s.balance[a] + Gain(tx, p, a)
                 /\ t.stake[a] = IF a = tx.from THEN StakeAfter(s.stake[a], tx) ELSE s.stake[a]
                 /\ t.nonce[a] = IF tx.type \in SimpleType /\ a = tx.from THEN tx.nonce ELSE s.nonce[a]
      BY <1>1, <1>2, <1>3, <1>6, <2>7 DEF Gain, Cost, StakeAfter
    <3> QED BY <3>1 DEF Moves
  <2>9. t.node = NodeAfter(s.node, s.stake, tx) /\ t.pom = PomAfter(s.pom, tx)
    BY <1>6, <2>7 DEF NodeAfter, PomAfter
  <2> QED BY <2>7, <2>8, <2>9 DEF After
<1>7. CASE tx.type = "REGISTER"
  <2> DEFINE v == Registered(u, tx, "pos", TRUE)
  <2>1. /\ v \in LedgerState /\ v.balance = Spent(u, tx, 0).balance
        /\ v.nonce = Spent(u, tx, 0).nonce /\ v.stake = u.stake /\ v.pom = u.pom
        /\ v.node = [u.node EXCEPT ![tx.from] = [kind |-> "pos", active |-> TRUE, verified |-> FALSE]]
    <3>1. PICK k \in {"dnn", "pos"}, active \in BOOLEAN : k = "pos" /\ active = TRUE
      OBVIOUS
    <3> DEFINE w == Registered(u, tx, k, active)
    <3>2. /\ w \in LedgerState /\ w.balance = Spent(u, tx, 0).balance
          /\ w.nonce = Spent(u, tx, 0).nonce /\ w.stake = u.stake /\ w.pom = u.pom
          /\ w.node = [u.node EXCEPT ![tx.from] = [kind |-> k, active |-> active, verified |-> FALSE]]
      BY <1>2, RegisteredFields
    <3> QED BY <3>1, <3>2
  <2>3. /\ Spent(u, tx, 0).balance = [u.balance EXCEPT ![tx.from] = @ - 0 - tx.fee]
        /\ Spent(u, tx, 0).nonce = [u.nonce EXCEPT ![tx.from] = tx.nonce]
    BY <1>2, SpentZero
  <2>2. t = v
    BY <1>7 DEF Effect
  <2> HIDE DEF v, t
  <2>7. /\ t \in LedgerState /\ t.balance = [u.balance EXCEPT ![tx.from] = @ - (0) - tx.fee] /\ t.stake = s.stake
        /\ t.nonce = [s.nonce EXCEPT ![tx.from] = tx.nonce] /\ t.node = [s.node EXCEPT ![tx.from] = [kind |-> "pos", active |-> TRUE, verified |-> FALSE]] /\ t.pom = s.pom
    BY <1>1, <1>2, <2>1, <2>2, <2>3 DEF LedgerState, PomRecord
  <2>8. Moves(t, s, tx, p)
    <3>1. ASSUME NEW a \in Address
          PROVE  /\ t.balance[a] = s.balance[a] + Gain(tx, p, a)
                 /\ t.stake[a] = IF a = tx.from THEN StakeAfter(s.stake[a], tx) ELSE s.stake[a]
                 /\ t.nonce[a] = IF tx.type \in SimpleType /\ a = tx.from THEN tx.nonce ELSE s.nonce[a]
      BY <1>1, <1>2, <1>3, <1>7, <2>7 DEF Gain, Cost, StakeAfter
    <3> QED BY <3>1 DEF Moves
  <2>9. t.node = NodeAfter(s.node, s.stake, tx) /\ t.pom = PomAfter(s.pom, tx)
    BY <1>7, <2>7 DEF NodeAfter, PomAfter
  <2> QED BY <2>7, <2>8, <2>9 DEF After
<1>8. CASE tx.type = "REGISTER_POS"
  <2> DEFINE v == Registered(u, tx, "pos", FALSE)
  <2>1. /\ v \in LedgerState /\ v.balance = Spent(u, tx, 0).balance
        /\ v.nonce = Spent(u, tx, 0).nonce /\ v.stake = u.stake /\ v.pom = u.pom
        /\ v.node = [u.node EXCEPT ![tx.from] = [kind |-> "pos", active |-> FALSE, verified |-> FALSE]]
    <3>1. PICK k \in {"dnn", "pos"}, active \in BOOLEAN : k = "pos" /\ active = FALSE
      OBVIOUS
    <3> DEFINE w == Registered(u, tx, k, active)
    <3>2. /\ w \in LedgerState /\ w.balance = Spent(u, tx, 0).balance
          /\ w.nonce = Spent(u, tx, 0).nonce /\ w.stake = u.stake /\ w.pom = u.pom
          /\ w.node = [u.node EXCEPT ![tx.from] = [kind |-> k, active |-> active, verified |-> FALSE]]
      BY <1>2, RegisteredFields
    <3> QED BY <3>1, <3>2
  <2>3. /\ Spent(u, tx, 0).balance = [u.balance EXCEPT ![tx.from] = @ - 0 - tx.fee]
        /\ Spent(u, tx, 0).nonce = [u.nonce EXCEPT ![tx.from] = tx.nonce]
    BY <1>2, SpentZero
  <2>2. t = v
    BY <1>8 DEF Effect
  <2> HIDE DEF v, t
  <2>7. /\ t \in LedgerState /\ t.balance = [u.balance EXCEPT ![tx.from] = @ - (0) - tx.fee] /\ t.stake = s.stake
        /\ t.nonce = [s.nonce EXCEPT ![tx.from] = tx.nonce] /\ t.node = [s.node EXCEPT ![tx.from] = [kind |-> "pos", active |-> FALSE, verified |-> FALSE]] /\ t.pom = s.pom
    BY <1>1, <1>2, <2>1, <2>2, <2>3 DEF LedgerState, PomRecord
  <2>8. Moves(t, s, tx, p)
    <3>1. ASSUME NEW a \in Address
          PROVE  /\ t.balance[a] = s.balance[a] + Gain(tx, p, a)
                 /\ t.stake[a] = IF a = tx.from THEN StakeAfter(s.stake[a], tx) ELSE s.stake[a]
                 /\ t.nonce[a] = IF tx.type \in SimpleType /\ a = tx.from THEN tx.nonce ELSE s.nonce[a]
      BY <1>1, <1>2, <1>3, <1>8, <2>7 DEF Gain, Cost, StakeAfter
    <3> QED BY <3>1 DEF Moves
  <2>9. t.node = NodeAfter(s.node, s.stake, tx) /\ t.pom = PomAfter(s.pom, tx)
    BY <1>8, <2>7 DEF NodeAfter, PomAfter
  <2> QED BY <2>7, <2>8, <2>9 DEF After
<1>9. CASE tx.type = "REGISTER_DNN"
  <2> DEFINE v == Registered(u, tx, "dnn", FALSE)
  <2>1. /\ v \in LedgerState /\ v.balance = Spent(u, tx, 0).balance
        /\ v.nonce = Spent(u, tx, 0).nonce /\ v.stake = u.stake /\ v.pom = u.pom
        /\ v.node = [u.node EXCEPT ![tx.from] = [kind |-> "dnn", active |-> FALSE, verified |-> FALSE]]
    <3>1. PICK k \in {"dnn", "pos"}, active \in BOOLEAN : k = "dnn" /\ active = FALSE
      OBVIOUS
    <3> DEFINE w == Registered(u, tx, k, active)
    <3>2. /\ w \in LedgerState /\ w.balance = Spent(u, tx, 0).balance
          /\ w.nonce = Spent(u, tx, 0).nonce /\ w.stake = u.stake /\ w.pom = u.pom
          /\ w.node = [u.node EXCEPT ![tx.from] = [kind |-> k, active |-> active, verified |-> FALSE]]
      BY <1>2, RegisteredFields
    <3> QED BY <3>1, <3>2
  <2>3. /\ Spent(u, tx, 0).balance = [u.balance EXCEPT ![tx.from] = @ - 0 - tx.fee]
        /\ Spent(u, tx, 0).nonce = [u.nonce EXCEPT ![tx.from] = tx.nonce]
    BY <1>2, SpentZero
  <2>2. t = [v EXCEPT !.pom[tx.from] = [positive |-> {}, negative |-> {}]]
    BY <1>9 DEF Effect
  <2> HIDE DEF v, t
  <2>7. /\ t \in LedgerState /\ t.balance = [u.balance EXCEPT ![tx.from] = @ - (0) - tx.fee] /\ t.stake = s.stake
        /\ t.nonce = [s.nonce EXCEPT ![tx.from] = tx.nonce] /\ t.node = [s.node EXCEPT ![tx.from] = [kind |-> "dnn", active |-> FALSE, verified |-> FALSE]] /\ t.pom = [s.pom EXCEPT ![tx.from] = [positive |-> {}, negative |-> {}]]
    BY <1>1, <1>2, <2>1, <2>2, <2>3 DEF LedgerState, PomRecord
  <2>8. Moves(t, s, tx, p)
    <3>1. ASSUME NEW a \in Address
          PROVE  /\ t.balance[a] = s.balance[a] + Gain(tx, p, a)
                 /\ t.stake[a] = IF a = tx.from THEN StakeAfter(s.stake[a], tx) ELSE s.stake[a]
                 /\ t.nonce[a] = IF tx.type \in SimpleType /\ a = tx.from THEN tx.nonce ELSE s.nonce[a]
      BY <1>1, <1>2, <1>3, <1>9, <2>7 DEF Gain, Cost, StakeAfter
    <3> QED BY <3>1 DEF Moves
  <2>9. t.node = NodeAfter(s.node, s.stake, tx) /\ t.pom = PomAfter(s.pom, tx)
    BY <1>9, <2>7 DEF NodeAfter, PomAfter
  <2> QED BY <2>7, <2>8, <2>9 DEF After
<1>10. CASE tx.type = "RESPONSE"
  <2> DEFINE v == Spent(u, tx, 0)
  <2>1. /\ v \in LedgerState
        /\ v.balance = [u.balance EXCEPT ![tx.from] = @ - 0 - tx.fee]
        /\ v.nonce = [s.nonce EXCEPT ![tx.from] = tx.nonce]
        /\ v.stake = s.stake /\ v.node = s.node /\ v.pom = s.pom
    <3>1. /\ v \in LedgerState
          /\ v.balance = [u.balance EXCEPT ![tx.from] = @ - 0 - tx.fee]
          /\ v.nonce = [u.nonce EXCEPT ![tx.from] = tx.nonce]
          /\ v.stake = u.stake /\ v.node = u.node /\ v.pom = u.pom
      BY <1>20, SpentZero
    <3> HIDE DEF v
    <3> QED BY <1>20, <3>1
  <2>2. t = v
    BY <1>10 DEF Effect
  <2> HIDE DEF v, t
  <2>7. /\ t \in LedgerState /\ t.balance = v.balance /\ t.stake = s.stake
        /\ t.nonce = [s.nonce EXCEPT ![tx.from] = tx.nonce] /\ t.node = s.node /\ t.pom = s.pom
    BY <1>1, <1>10, <2>1, <2>2 DEF LedgerState
  <2>8. Moves(t, s, tx, p)
    <3>1. ASSUME NEW a \in Address
          PROVE  /\ t.balance[a] = s.balance[a] + Gain(tx, p, a)
                 /\ t.stake[a] = IF a = tx.from THEN StakeAfter(s.stake[a], tx) ELSE s.stake[a]
                 /\ t.nonce[a] = IF tx.type \in SimpleType /\ a = tx.from THEN tx.nonce ELSE s.nonce[a]
      BY <1>1, <1>2, <1>3, <1>10, <2>1, <2>7 DEF Gain, Cost, StakeAfter
    <3> QED BY <3>1 DEF Moves
  <2>9. t.node = NodeAfter(s.node, s.stake, tx) /\ t.pom = PomAfter(s.pom, tx)
    BY <1>10, <2>7 DEF NodeAfter, PomAfter
  <2> QED BY <2>7, <2>8, <2>9 DEF After
<1>11. CASE tx.type = "DEPLOY"
  <2> DEFINE v == Spent(u, tx, 0)
  <2>1. /\ v \in LedgerState
        /\ v.balance = [u.balance EXCEPT ![tx.from] = @ - 0 - tx.fee]
        /\ v.nonce = [s.nonce EXCEPT ![tx.from] = tx.nonce]
        /\ v.stake = s.stake /\ v.node = s.node /\ v.pom = s.pom
    <3>1. /\ v \in LedgerState
          /\ v.balance = [u.balance EXCEPT ![tx.from] = @ - 0 - tx.fee]
          /\ v.nonce = [u.nonce EXCEPT ![tx.from] = tx.nonce]
          /\ v.stake = u.stake /\ v.node = u.node /\ v.pom = u.pom
      BY <1>20, SpentZero
    <3> HIDE DEF v
    <3> QED BY <1>20, <3>1
  <2>2. t = v
    BY <1>11 DEF Effect
  <2> HIDE DEF v, t
  <2>7. /\ t \in LedgerState /\ t.balance = v.balance /\ t.stake = s.stake
        /\ t.nonce = [s.nonce EXCEPT ![tx.from] = tx.nonce] /\ t.node = s.node /\ t.pom = s.pom
    BY <1>1, <1>11, <2>1, <2>2 DEF LedgerState
  <2>8. Moves(t, s, tx, p)
    <3>1. ASSUME NEW a \in Address
          PROVE  /\ t.balance[a] = s.balance[a] + Gain(tx, p, a)
                 /\ t.stake[a] = IF a = tx.from THEN StakeAfter(s.stake[a], tx) ELSE s.stake[a]
                 /\ t.nonce[a] = IF tx.type \in SimpleType /\ a = tx.from THEN tx.nonce ELSE s.nonce[a]
      BY <1>1, <1>2, <1>3, <1>11, <2>1, <2>7 DEF Gain, Cost, StakeAfter
    <3> QED BY <3>1 DEF Moves
  <2>9. t.node = NodeAfter(s.node, s.stake, tx) /\ t.pom = PomAfter(s.pom, tx)
    BY <1>11, <2>7 DEF NodeAfter, PomAfter
  <2> QED BY <2>7, <2>8, <2>9 DEF After
<1>12. CASE tx.type = "CALL"
  <2> DEFINE v == Spent(u, tx, tx.amount)
  <2>1. /\ v \in LedgerState
        /\ v.balance = [u.balance EXCEPT ![tx.from] = @ - tx.amount - tx.fee]
        /\ v.nonce = [s.nonce EXCEPT ![tx.from] = tx.nonce]
        /\ v.stake = s.stake /\ v.node = s.node /\ v.pom = s.pom
    BY <1>1, <1>2, SpentFields
  <2>2. t = v
    BY <1>12 DEF Effect
  <2> HIDE DEF v, t
  <2>7. /\ t \in LedgerState /\ t.balance = v.balance /\ t.stake = s.stake
        /\ t.nonce = [s.nonce EXCEPT ![tx.from] = tx.nonce] /\ t.node = s.node /\ t.pom = s.pom
    BY <1>1, <1>12, <2>1, <2>2 DEF LedgerState
  <2>8. Moves(t, s, tx, p)
    <3>1. ASSUME NEW a \in Address
          PROVE  /\ t.balance[a] = s.balance[a] + Gain(tx, p, a)
                 /\ t.stake[a] = IF a = tx.from THEN StakeAfter(s.stake[a], tx) ELSE s.stake[a]
                 /\ t.nonce[a] = IF tx.type \in SimpleType /\ a = tx.from THEN tx.nonce ELSE s.nonce[a]
      BY <1>1, <1>2, <1>3, <1>12, <2>1, <2>7 DEF Gain, Cost, StakeAfter
    <3> QED BY <3>1 DEF Moves
  <2>9. t.node = NodeAfter(s.node, s.stake, tx) /\ t.pom = PomAfter(s.pom, tx)
    BY <1>12, <2>7 DEF NodeAfter, PomAfter
  <2> QED BY <2>7, <2>8, <2>9 DEF After
<1>13. CASE tx.type = "REWARD"
  <2>2. t = [u EXCEPT !.balance[tx.to] = @ + tx.amount]
    BY <1>13 DEF Effect
  <2> HIDE DEF t
  <2>7. /\ t \in LedgerState /\ t.balance = [u.balance EXCEPT ![tx.to] = @ + tx.amount] /\ t.stake = s.stake
        /\ t.nonce = s.nonce /\ t.node = s.node /\ t.pom = s.pom
    BY <1>1, <1>2, <1>13, <2>2 DEF LedgerState
  <2>8. Moves(t, s, tx, p)
    <3>1. ASSUME NEW a \in Address
          PROVE  /\ t.balance[a] = s.balance[a] + Gain(tx, p, a)
                 /\ t.stake[a] = IF a = tx.from THEN StakeAfter(s.stake[a], tx) ELSE s.stake[a]
                 /\ t.nonce[a] = IF tx.type \in SimpleType /\ a = tx.from THEN tx.nonce ELSE s.nonce[a]
      BY <1>1, <1>2, <1>3, <1>13, <2>7 DEF Gain, Cost, StakeAfter
    <3> QED BY <3>1 DEF Moves
  <2>9. t.node = NodeAfter(s.node, s.stake, tx) /\ t.pom = PomAfter(s.pom, tx)
    BY <1>13, <2>7 DEF NodeAfter, PomAfter
  <2> QED BY <2>7, <2>8, <2>9 DEF After
<1>14. CASE tx.type = "SLASH"
  <2>2. t = Slashed(u, tx)
    BY <1>14 DEF Effect
  <2> HIDE DEF t
  <2>7. /\ t \in LedgerState /\ t.balance = u.balance /\ t.stake = [s.stake EXCEPT ![tx.from] = NonNegative(@ - tx.amount)]
        /\ t.nonce = s.nonce /\ t.node = NodeAfter(s.node, s.stake, tx) /\ t.pom = s.pom
    <3>1. /\ Slashed(u, tx) \in LedgerState /\ Slashed(u, tx).balance = u.balance
          /\ Slashed(u, tx).nonce = u.nonce /\ Slashed(u, tx).pom = u.pom
          /\ Slashed(u, tx).stake = [u.stake EXCEPT ![tx.from] = NonNegative(@ - tx.amount)]
          /\ Slashed(u, tx).node =
              [u.node EXCEPT ![tx.from] =
                 IF @ # None /\ NonNegative(u.stake[tx.from] - tx.amount) < MinStake
                 THEN [@ EXCEPT !.active = FALSE] ELSE @]
      BY <1>2, SlashedFields
    <3>2. NodeAfter(u.node, u.stake, tx) =
              [u.node EXCEPT ![tx.from] =
                 IF @ # None /\ NonNegative(u.stake[tx.from] - tx.amount) < MinStake
                 THEN [@ EXCEPT !.active = FALSE] ELSE @]
      BY <1>14 DEF NodeAfter
    <3> QED BY <1>2, <2>2, <3>1, <3>2
  <2>8. Moves(t, s, tx, p)
    <3>1. ASSUME NEW a \in Address
          PROVE  /\ t.balance[a] = s.balance[a] + Gain(tx, p, a)
                 /\ t.stake[a] = IF a = tx.from THEN StakeAfter(s.stake[a], tx) ELSE s.stake[a]
                 /\ t.nonce[a] = IF tx.type \in SimpleType /\ a = tx.from THEN tx.nonce ELSE s.nonce[a]
      BY <1>1, <1>2, <1>3, <1>14, <2>7 DEF Gain, Cost, StakeAfter
    <3> QED BY <3>1 DEF Moves
  <2>9. t.node = NodeAfter(s.node, s.stake, tx) /\ t.pom = PomAfter(s.pom, tx)
    BY <1>14, <2>7 DEF NodeAfter, PomAfter
  <2> QED BY <2>7, <2>8, <2>9 DEF After
<1>15. CASE tx.type = "VERIFY"
  <2>2. t = Verified(u, tx)
    BY <1>15 DEF Effect
  <2> HIDE DEF t
  <2>7. /\ t \in LedgerState /\ t.balance = u.balance /\ t.stake = s.stake
        /\ t.nonce = s.nonce /\ t.node = s.node /\ t.pom = PomAfter(s.pom, tx)
    BY <1>2, <1>15, <2>2, VerifiedFields
  <2>8. Moves(t, s, tx, p)
    <3>1. ASSUME NEW a \in Address
          PROVE  /\ t.balance[a] = s.balance[a] + Gain(tx, p, a)
                 /\ t.stake[a] = IF a = tx.from THEN StakeAfter(s.stake[a], tx) ELSE s.stake[a]
                 /\ t.nonce[a] = IF tx.type \in SimpleType /\ a = tx.from THEN tx.nonce ELSE s.nonce[a]
      BY <1>1, <1>2, <1>3, <1>15, <2>7 DEF Gain, Cost, StakeAfter
    <3> QED BY <3>1 DEF Moves
  <2>9. t.node = NodeAfter(s.node, s.stake, tx) /\ t.pom = PomAfter(s.pom, tx)
    BY <1>15, <2>7 DEF NodeAfter, PomAfter
  <2> QED BY <2>7, <2>8, <2>9 DEF After
<1>16. CASE tx.type = "ADMITTED"
  <2>2. t = Admitted(u, tx)
    BY <1>16 DEF Effect
  <2> HIDE DEF t
  <2>7. /\ t \in LedgerState /\ t.balance = u.balance /\ t.stake = s.stake
        /\ t.nonce = s.nonce /\ t.node = NodeAfter(s.node, s.stake, tx) /\ t.pom = s.pom
    BY <1>2, <1>16, <2>2, AdmittedFields
  <2>8. Moves(t, s, tx, p)
    <3>1. ASSUME NEW a \in Address
          PROVE  /\ t.balance[a] = s.balance[a] + Gain(tx, p, a)
                 /\ t.stake[a] = IF a = tx.from THEN StakeAfter(s.stake[a], tx) ELSE s.stake[a]
                 /\ t.nonce[a] = IF tx.type \in SimpleType /\ a = tx.from THEN tx.nonce ELSE s.nonce[a]
      BY <1>1, <1>2, <1>3, <1>16, <2>7 DEF Gain, Cost, StakeAfter
    <3> QED BY <3>1 DEF Moves
  <2>9. t.node = NodeAfter(s.node, s.stake, tx) /\ t.pom = PomAfter(s.pom, tx)
    BY <1>16, <2>7 DEF NodeAfter, PomAfter
  <2> QED BY <2>7, <2>8, <2>9 DEF After
<1>17. CASE tx.type = "REJECTED"
  <2>2. t = Rejected(u, tx)
    BY <1>17 DEF Effect
  <2> HIDE DEF t
  <2>7. /\ t \in LedgerState /\ t.balance = u.balance /\ t.stake = s.stake
        /\ t.nonce = s.nonce /\ t.node = NodeAfter(s.node, s.stake, tx) /\ t.pom = PomAfter(s.pom, tx)
    BY <1>2, <1>17, <2>2, RejectedFields
  <2>8. Moves(t, s, tx, p)
    <3>1. ASSUME NEW a \in Address
          PROVE  /\ t.balance[a] = s.balance[a] + Gain(tx, p, a)
                 /\ t.stake[a] = IF a = tx.from THEN StakeAfter(s.stake[a], tx) ELSE s.stake[a]
                 /\ t.nonce[a] = IF tx.type \in SimpleType /\ a = tx.from THEN tx.nonce ELSE s.nonce[a]
      BY <1>1, <1>2, <1>3, <1>17, <2>7 DEF Gain, Cost, StakeAfter
    <3> QED BY <3>1 DEF Moves
  <2>9. t.node = NodeAfter(s.node, s.stake, tx) /\ t.pom = PomAfter(s.pom, tx)
    BY <1>17, <2>7 DEF NodeAfter, PomAfter
  <2> QED BY <2>7, <2>8, <2>9 DEF After
<1> QED BY <1>1, <1>4, <1>5, <1>6, <1>7, <1>8, <1>9, <1>10, <1>11, <1>12, <1>13, <1>14, <1>15, <1>16, <1>17 DEF SystemType

-----------------------------------------------------------------------------
(* What a block changes. By induction over its transactions (AppliedRun).  *)

(* Ledgers that differ in reputations, and in what a faucet gave to g.     *)
Alike(s, t, g) ==
  /\ \A a \in Address :
       s.balance[a] = t.balance[a] + IF a \in g THEN FaucetAmount ELSE 0
  /\ s.stake = t.stake /\ s.nonce = t.nonce /\ s.node = t.node /\ s.pom = t.pom

(* f goes through the ledgers that the transactions txs of a block of p    *)
(* make one after the other, from s.                                       *)
TxRun(f, s, txs, p) ==
  /\ f \in [0..Len(txs) -> LedgerState]
  /\ f[0] = s
  /\ \A i \in 1..Len(txs) : f[i] = Effect(FeePaid(f[i - 1], txs[i], p), txs[i])

(* No transaction asks what is the balance of another account, or any      *)
(* reputation: ledgers that were alike stay alike.                         *)
LEMMA EffectAlike ==
  ASSUME NEW s \in LedgerState, NEW t \in LedgerState, NEW g, Alike(s, t, g),
         NEW tx, WellFormed(tx), NEW p \in Address
  PROVE  Alike(Effect(FeePaid(s, tx, p), tx), Effect(FeePaid(t, tx, p), tx), g)
<1> DEFINE u == Effect(FeePaid(s, tx, p), tx)
           v == Effect(FeePaid(t, tx, p), tx)
<1>1. After(u, s, tx, p) /\ After(v, t, tx, p)
  BY EffectFields
<1>2. /\ \A a \in Address :
           s.balance[a] = t.balance[a] + IF a \in g THEN FaucetAmount ELSE 0
      /\ s.stake = t.stake /\ s.nonce = t.nonce /\ s.node = t.node /\ s.pom = t.pom
  BY DEF Alike
<1> HIDE DEF u, v
<1>3. Moves(u, s, tx, p) /\ Moves(v, t, tx, p) /\ u \in LedgerState /\ v \in LedgerState
  BY <1>1 DEF After
<1>4. u.node = v.node /\ u.pom = v.pom
  BY <1>1, <1>2 DEF After
<1>5. u.stake = v.stake /\ u.nonce = v.nonce
  <2>1. \A a \in Address : u.stake[a] = v.stake[a] /\ u.nonce[a] = v.nonce[a]
    BY <1>2, <1>3 DEF Moves
  <2> QED BY <1>3, <2>1 DEF LedgerState
<1>6. ASSUME NEW a \in Address
      PROVE  u.balance[a] = v.balance[a] + IF a \in g THEN FaucetAmount ELSE 0
  <2>1. u.balance[a] = s.balance[a] + Gain(tx, p, a) /\ v.balance[a] = t.balance[a] + Gain(tx, p, a)
    BY <1>3 DEF Moves
  <2>2. s.balance[a] \in Int /\ t.balance[a] \in Int /\ FaucetAmount \in Nat
    BY ServiceAssumption DEF LedgerState
  <2>3. Gain(tx, p, a) \in Int
    BY TypesOfTx DEF Gain, Cost
  <2> QED BY <1>2, <2>1, <2>2, <2>3
<1> QED BY <1>4, <1>5, <1>6 DEF Alike, u, v

(* Applied is the end of a run.                                            *)
LEMMA AppliedRun ==
  ASSUME NEW s \in LedgerState, NEW txs \in Seq(Tx),
         \A i \in DOMAIN txs : WellFormed(txs[i]), NEW p \in Address
  PROVE  \E f : TxRun(f, s, txs, p) /\ Applied(s, txs, p) = f[Len(txs)]
<1> DEFINE N == Len(txs)
           Def(f) == f = [i \in 0..N |->
                            IF i = 0 THEN s
                            ELSE Effect(FeePaid(f[i - 1], txs[i], p), txs[i])]
           after == CHOOSE f : Def(f)
<1>1. N \in Nat /\ DOMAIN txs = 1..N /\ \A i \in 1..N : WellFormed(txs[i])
  OBVIOUS
<1>2. \E f : Def(f)
  <2> DEFINE step == [i \in 1..N |-> [t \in LedgerState |-> Effect(FeePaid(t, txs[i], p), txs[i])]]
  <2>1. step \in [1..N -> [LedgerState -> LedgerState]]
    <3>1. \A i \in 1..N : \A t \in LedgerState :
            Effect(FeePaid(t, txs[i], p), txs[i]) \in LedgerState
      BY <1>1, EffectFields DEF After
    <3> QED BY <3>1
  <2>2. PICK f : IsRun(f, N, LedgerState, s, step)
    <3> HIDE DEF step, N
    <3> QED BY <1>1, <2>1, RecursionUpTo
  <2>3. /\ f \in [0..N -> LedgerState] /\ f[0] = s
        /\ \A i \in 1..N : f[i] = Effect(FeePaid(f[i - 1], txs[i], p), txs[i])
    <3>1. f \in [0..N -> LedgerState] /\ f[0] = s /\ \A i \in 1..N : f[i] = step[i][f[i - 1]]
      BY <2>2 DEF IsRun
    <3>2. \A i \in 1..N : f[i - 1] \in LedgerState
      BY <1>1, <3>1
    <3> QED BY <3>1, <3>2
  <2>4. Def(f)
    <3> DEFINE F == [i \in 0..N |->
                       IF i = 0 THEN s ELSE Effect(FeePaid(f[i - 1], txs[i], p), txs[i])]
    <3>1. \A i \in 0..N : i = 0 \/ i \in 1..N
      BY <1>1
    <3>2. \A i \in 0..N : f[i] = F[i]
      BY <2>3, <3>1
    <3> QED BY <2>3, <3>2
  <2> QED BY <2>4
<1>3. Def(after)
  <2> HIDE DEF Def
  <2> QED BY <1>2
<1>4. Applied(s, txs, p) = after[N]
  BY DEF Applied
<1>5. after[0] = s /\ \A i \in 1..N : after[i] = Effect(FeePaid(after[i - 1], txs[i], p), txs[i])
  <2>1. \A i \in 1..N : i \in 0..N /\ i # 0
    BY <1>1
  <2>2. 0 \in 0..N
    BY <1>1
  <2> HIDE DEF after
  <2> QED BY <1>3, <2>1, <2>2
<1>6. DOMAIN after = 0..N /\ after = [i \in 0..N |-> after[i]]
  <2> HIDE DEF after
  <2>1. after = [i \in 0..N |-> IF i = 0 THEN s
                            ELSE Effect(FeePaid(after[i - 1], txs[i], p), txs[i])]
    BY <1>3
  <2> QED BY <2>1
<1> HIDE DEF after, Def
<1>7. \A i \in 0..N : after[i] \in LedgerState
  <2> DEFINE P == {i \in 0..N : after[i] \in LedgerState}
  <2>1. 0 \in P
    BY <1>1, <1>5
  <2>2. ASSUME NEW i \in 0..(N - 1), i \in P PROVE i + 1 \in P
    <3>1. i + 1 \in 1..N /\ (i + 1) - 1 = i /\ i + 1 \in 0..N
      BY <1>1
    <3>2. after[i + 1] = Effect(FeePaid(after[i], txs[i + 1], p), txs[i + 1])
      BY <1>5, <3>1
    <3>3. after[i] \in LedgerState /\ WellFormed(txs[i + 1])
      BY <1>1, <2>2, <3>1
    <3>4. Effect(FeePaid(after[i], txs[i + 1], p), txs[i + 1]) \in LedgerState
      BY <3>3, EffectFields DEF After
    <3> QED BY <3>1, <3>2, <3>4
  <2>3. 0..N \subseteq P
    <3>1. \A i \in 0..(N - 1) : i \in P => i + 1 \in P
      BY <2>2
    <3> HIDE DEF P, N
    <3> QED BY <1>1, <2>1, <3>1, UpTo
  <2> QED BY <2>3
<1>8. after \in [0..N -> LedgerState]
  BY <1>6, <1>7
<1>9. TxRun(after, s, txs, p)
  BY <1>5, <1>8 DEF TxRun
<1> QED BY <1>4, <1>9

(* The same transactions keep ledgers alike.                               *)
LEMMA AppliedAlike ==
  ASSUME NEW s \in LedgerState, NEW t \in LedgerState, NEW g, Alike(s, t, g),
         NEW txs \in Seq(Tx), \A i \in DOMAIN txs : WellFormed(txs[i]), NEW p \in Address
  PROVE  Alike(Applied(s, txs, p), Applied(t, txs, p), g)
<1> DEFINE N == Len(txs)
<1>1. N \in Nat /\ DOMAIN txs = 1..N /\ \A i \in 1..N : WellFormed(txs[i])
  OBVIOUS
<1>2. PICK f : TxRun(f, s, txs, p) /\ Applied(s, txs, p) = f[N]
  BY AppliedRun
<1>3. PICK h : TxRun(h, t, txs, p) /\ Applied(t, txs, p) = h[N]
  BY AppliedRun
<1> DEFINE P == {i \in 0..N : Alike(f[i], h[i], g)}
<1>4. 0 \in P
  BY <1>1, <1>2, <1>3 DEF TxRun
<1>5. ASSUME NEW i \in 0..(N - 1), i \in P PROVE i + 1 \in P
  <2>1. i + 1 \in 1..N /\ (i + 1) - 1 = i /\ i + 1 \in 0..N /\ i \in 0..N
    BY <1>1
  <2>2. /\ f[i + 1] = Effect(FeePaid(f[i], txs[i + 1], p), txs[i + 1])
        /\ h[i + 1] = Effect(FeePaid(h[i], txs[i + 1], p), txs[i + 1])
    BY <1>2, <1>3, <2>1 DEF TxRun
  <2>3. f[i] \in LedgerState /\ h[i] \in LedgerState /\ WellFormed(txs[i + 1]) /\ Alike(f[i], h[i], g)
    BY <1>1, <1>2, <1>3, <1>5, <2>1 DEF TxRun
  <2>4. Alike(Effect(FeePaid(f[i], txs[i + 1], p), txs[i + 1]),
              Effect(FeePaid(h[i], txs[i + 1], p), txs[i + 1]), g)
    BY <2>3, EffectAlike
  <2> QED BY <2>1, <2>2, <2>4
<1>6. 0..N \subseteq P
  <2>1. \A i \in 0..(N - 1) : i \in P => i + 1 \in P
    BY <1>5
  <2> HIDE DEF P, N
  <2> QED BY <1>1, <1>4, <2>1, UpTo
<1>7. N \in P
  BY <1>1, <1>6
<1> QED BY <1>2, <1>3, <1>7

(* A system transaction whose amount is one.                               *)
SoundAmount(tx) == tx.type \in {"REWARD", "SLASH"} => tx.amount >= 0

(* A block as the services build them.                                     *)
SoundBlock(b) ==
  /\ b.proposer \in Address /\ b.simple \in Seq(Tx) /\ b.system \in Seq(Tx)
  /\ \A i \in DOMAIN b.simple : WellFormed(b.simple[i]) /\ b.simple[i].type \in SimpleType
  /\ \A i \in DOMAIN b.system : /\ WellFormed(b.system[i]) /\ b.system[i].type \in SystemType
                                /\ SoundAmount(b.system[i])

(* A block with one simple transaction for each sender, none the genesis.  *)
OneEach(b) ==
  \A i, j \in DOMAIN b.simple : /\ b.simple[i].from # Genesis
                                /\ b.simple[i].from = b.simple[j].from => i = j

(* A stake is given back where there was none.                             *)
Drains(tx) == tx.type = "STAKE" /\ tx.amount < 0

(* What a simple transaction does to the others and to its sender.         *)
LEMMA SimpleStep ==
  ASSUME NEW s \in LedgerState, NEW u \in LedgerState, NEW t \in LedgerState,
         NEW tx, WellFormed(tx), tx.type \in SimpleType, NEW p, Moves(t, u, tx, p)
  PROVE  /\ \A a \in Address \ {tx.from} :
              /\ t.balance[a] >= u.balance[a] \/ Excuses(tx, a)
              /\ t.stake[a] = u.stake[a] /\ t.nonce[a] = u.nonce[a]
         /\ t.nonce[tx.from] = tx.nonce
         /\ (Affordable(s, tx) /\ u.balance[tx.from] >= s.balance[tx.from])
            => t.balance[tx.from] >= 0 \/ Excuses(tx, tx.from)
         /\ (Affordable(s, tx) /\ u.stake[tx.from] = s.stake[tx.from] /\ s.stake[tx.from] >= 0)
            => t.stake[tx.from] >= 0 \/ Drains(tx)
<1>1. /\ tx.from \in Address /\ tx.amount \in Int /\ tx.fee \in Int /\ tx.nonce \in Nat
      /\ tx.type = "TRANSFER" => tx.to \in Address
      /\ Toll(tx) \in Int /\ Toll(tx) >= 0
  BY TypesOfTx
<1>2. /\ \A a \in Address : /\ s.balance[a] \in Int /\ u.balance[a] \in Int /\ t.balance[a] \in Int
                            /\ s.stake[a] \in Int /\ u.stake[a] \in Int
  BY DEF LedgerState
<1>3. \A a \in Address :
        /\ t.balance[a] = u.balance[a] + Gain(tx, p, a)
        /\ t.stake[a] = IF a = tx.from THEN StakeAfter(u.stake[a], tx) ELSE u.stake[a]
        /\ t.nonce[a] = IF a = tx.from THEN tx.nonce ELSE u.nonce[a]
  BY DEF Moves
<1>4. \A a \in Address :
        Gain(tx, p, a) = (IF a = p THEN Toll(tx) ELSE 0) - (IF a = tx.from THEN Cost(tx) ELSE 0)
                         + (IF tx.type = "TRANSFER" /\ a = tx.to THEN tx.amount ELSE 0)
  BY DEF Gain, SimpleType
<1>5. Cost(tx) \in Int
  BY <1>1 DEF Cost
<1>6. ASSUME NEW a \in Address \ {tx.from}
      PROVE  /\ t.balance[a] >= u.balance[a] \/ Excuses(tx, a)
             /\ t.stake[a] = u.stake[a] /\ t.nonce[a] = u.nonce[a]
  <2>1. Gain(tx, p, a) \in Int /\ (Gain(tx, p, a) >= 0 \/ (tx.amount < 0 /\ a = tx.to))
    BY <1>1, <1>4
  <2>2. tx.amount < 0 /\ a = tx.to => Excuses(tx, a)
    BY DEF Excuses
  <2> QED BY <1>2, <1>3, <2>1, <2>2
<1>7. t.nonce[tx.from] = tx.nonce
  BY <1>1, <1>3
<1>8. ASSUME Affordable(s, tx), u.balance[tx.from] >= s.balance[tx.from], ~ Excuses(tx, tx.from)
      PROVE  t.balance[tx.from] >= 0
  <2> DEFINE a == tx.from
  <2>0. ~ Free(tx) /\ tx.amount >= 0
    BY <1>1, <1>8 DEF Excuses
  <2>1. t.balance[a] >= u.balance[a] - Cost(tx)
    <3>1. Gain(tx, p, a) >= - Cost(tx) /\ Gain(tx, p, a) \in Int
      BY <1>1, <1>4, <1>5, <2>0
    <3> QED BY <1>1, <1>2, <1>3, <1>5, <3>1
  <2>2. s.balance[a] >= Cost(tx)
    BY <1>1, <1>2, <1>8, <2>0 DEF Free, Cost, Affordable, SimpleType
  <2> HIDE DEF a
  <2>3. a \in Address /\ u.balance[a] >= s.balance[a]
    BY <1>1, <1>8 DEF a
  <2>4. t.balance[a] >= 0
    BY <1>2, <1>5, <2>1, <2>2, <2>3
  <2> QED BY <2>4 DEF a
<1>9. ASSUME Affordable(s, tx), u.stake[tx.from] = s.stake[tx.from], s.stake[tx.from] >= 0,
             ~ Drains(tx)
      PROVE  t.stake[tx.from] >= 0
  <2>1. t.stake[tx.from] = StakeAfter(s.stake[tx.from], tx)
    BY <1>1, <1>3, <1>9
  <2>2. tx.type = "UNSTAKE" => s.stake[tx.from] >= tx.amount
    BY <1>9 DEF Affordable
  <2>3. tx.type = "STAKE" => tx.amount >= 0
    BY <1>1, <1>9 DEF Drains
  <2> QED BY <1>1, <1>2, <1>9, <2>1, <2>2, <2>3 DEF StakeAfter, SimpleType
<1> QED BY <1>6, <1>7, <1>8, <1>9

(* What a system transaction does.                                         *)
LEMMA SystemStep ==
  ASSUME NEW u \in LedgerState, NEW t \in LedgerState,
         NEW tx, WellFormed(tx), tx.type \in SystemType, SoundAmount(tx), NEW p, Moves(t, u, tx, p)
  PROVE  \A a \in Address :
           /\ t.balance[a] >= u.balance[a] /\ t.nonce[a] = u.nonce[a]
           /\ u.stake[a] >= 0 => t.stake[a] >= 0
<1> SUFFICES ASSUME NEW a \in Address
             PROVE  /\ t.balance[a] >= u.balance[a] /\ t.nonce[a] = u.nonce[a]
                    /\ u.stake[a] >= 0 => t.stake[a] >= 0
  OBVIOUS
<1>1. tx.amount \in Int /\ (tx.type \in {"REWARD", "SLASH"} => tx.amount >= 0)
  BY TypesOfTx DEF SoundAmount
<1>2. u.balance[a] \in Int /\ t.balance[a] \in Int /\ u.stake[a] \in Int
  BY DEF LedgerState
<1>3. tx.type \notin SimpleType /\ tx.type \notin {"STAKE", "UNSTAKE", "TRANSFER"}
  BY DEF SimpleType, SystemType
<1>4. /\ t.balance[a] = u.balance[a] + Gain(tx, p, a)
      /\ t.stake[a] = IF a = tx.from THEN StakeAfter(u.stake[a], tx) ELSE u.stake[a]
      /\ t.nonce[a] = u.nonce[a]
  BY <1>3 DEF Moves
<1>5. Gain(tx, p, a) \in Nat
  BY <1>1, <1>3 DEF Gain, Toll
<1>6. t.balance[a] >= u.balance[a]
  BY <1>2, <1>4, <1>5
<1>7. u.stake[a] >= 0 => t.stake[a] >= 0
  BY <1>1, <1>2, <1>3, <1>4 DEF StakeAfter, NonNegative
<1> QED BY <1>4, <1>6, <1>7

(* The transactions of a block, in the order they are applied.             *)
LEMMA AllTransactions ==
  ASSUME NEW b, SoundBlock(b)
  PROVE  /\ b.simple \o b.system \in Seq(Tx)
         /\ Len(b.simple) \in Nat /\ Len(b.simple) <= Len(b.simple \o b.system)
         /\ DOMAIN b.simple = 1..Len(b.simple)
         /\ \A i \in DOMAIN (b.simple \o b.system) : WellFormed((b.simple \o b.system)[i])
         /\ \A i \in 1..Len(b.simple) : (b.simple \o b.system)[i] = b.simple[i]
         /\ \A i \in (Len(b.simple) + 1)..Len(b.simple \o b.system) :
              /\ (b.simple \o b.system)[i].type \in SystemType
              /\ SoundAmount((b.simple \o b.system)[i])
<1> DEFINE x == b.simple
           y == b.system
           z == x \o y
<1>1. /\ x \in Seq(Tx) /\ y \in Seq(Tx)
      /\ \A i \in DOMAIN x : WellFormed(x[i])
      /\ \A i \in DOMAIN y : WellFormed(y[i]) /\ y[i].type \in SystemType /\ SoundAmount(y[i])
  BY DEF SoundBlock
<1> HIDE DEF x, y
<1>2. /\ z \in Seq(Tx) /\ Len(x) \in Nat /\ Len(y) \in Nat /\ Len(z) = Len(x) + Len(y)
      /\ DOMAIN x = 1..Len(x) /\ DOMAIN y = 1..Len(y) /\ DOMAIN z = 1..Len(z)
      /\ \A i \in 1..Len(x) : z[i] = x[i]
      /\ \A i \in (Len(x) + 1)..Len(z) : z[i] = y[i - Len(x)] /\ i - Len(x) \in 1..Len(y)
  BY <1>1
<1> HIDE DEF z
<1>3. \A i \in DOMAIN z : i \in 1..Len(x) \/ i \in (Len(x) + 1)..Len(z)
  BY <1>2
<1>4. \A i \in DOMAIN z : WellFormed(z[i])
  BY <1>1, <1>2, <1>3
<1>5. \A i \in (Len(x) + 1)..Len(z) : z[i].type \in SystemType /\ SoundAmount(z[i])
  BY <1>1, <1>2
<1>6. Len(x) <= Len(z)
  BY <1>2
<1> QED BY <1>2, <1>4, <1>5, <1>6 DEF x, y, z

(* With one transaction for each sender, the next nonce is the ledger's.   *)
LEMMA NextNonceOfBlock ==
  ASSUME NEW s \in LedgerState, NEW b, SoundBlock(b), OneEach(b), ValidTxs(s, b.simple),
         NEW i \in DOMAIN b.simple
  PROVE  b.simple[i].nonce = s.nonce[b.simple[i].from] + 1 /\ Affordable(s, b.simple[i])
<1>1. b.simple[i].nonce = ExpectedNonce(s, b.simple, i) /\ Affordable(s, b.simple[i])
  BY DEF ValidTxs
<1>2. {j \in 1..(i - 1) : b.simple[j].from = b.simple[i].from} = {}
  <2>1. DOMAIN b.simple = 1..Len(b.simple) /\ Len(b.simple) \in Nat
    BY DEF SoundBlock
  <2>2. \A j \in 1..(i - 1) : j \in DOMAIN b.simple /\ j # i
    BY <2>1
  <2> QED BY <2>2 DEF OneEach
<1>3. s.nonce[b.simple[i].from] \in Nat
  BY TypesOfTx DEF SoundBlock, LedgerState
<1> QED BY <1>1, <1>2, <1>3 DEF ExpectedNonce

(* Account a has a transaction among the first i simple ones of block b.   *)
Sent(b, a, i) == \E j \in DOMAIN b.simple : j <= i /\ b.simple[j].from = a

(* A transaction of block b may put account a in debt.                     *)
ExcusedBy(b, a) == \E j \in DOMAIN b.simple : Excuses(b.simple[j], a)

(* Account a stakes less than nothing in block b.                          *)
DrainedBy(b, a) == \E j \in DOMAIN b.simple : b.simple[j].from = a /\ Drains(b.simple[j])

(* What is left of ledger s for account a, with ledger u after the first i *)
(* transactions of block b.                                                *)
Account(s, u, b, a, i) ==
  /\ u.nonce[a] = IF Sent(b, a, i) THEN s.nonce[a] + 1 ELSE s.nonce[a]
  /\ i <= Len(b.simple) /\ ~ Sent(b, a, i) => u.stake[a] = s.stake[a]
  /\ s.stake[a] >= 0 => u.stake[a] >= 0 \/ DrainedBy(b, a)
  /\ ~ Sent(b, a, i) => u.balance[a] >= s.balance[a] \/ ExcusedBy(b, a)
  /\ Sent(b, a, i) => u.balance[a] >= 0 \/ ExcusedBy(b, a)

(* Block b takes ledger s to ledger t along f, and every account stands as *)
(* Account says all along.                                                 *)
BlockRun(f, s, b, t) ==
  LET all == b.simple \o b.system
  IN /\ TxRun(f, s, all, b.proposer) /\ t = f[Len(all)]
     /\ \A i \in 0..Len(all) : \A a \in Address : Account(s, f[i], b, a, i)

(* A valid block keeps the books: the nonces of its senders move by one,   *)
(* and nobody falls into debt but by a transaction that excuses it.        *)
LEMMA BlockRuns ==
  ASSUME NEW s \in LedgerState, NEW b, SoundBlock(b), OneEach(b), ValidTxs(s, b.simple)
  PROVE  \E f : BlockRun(f, s, b, ApplyBlock(s, b))
<1> DEFINE all == b.simple \o b.system
           L == Len(b.simple)
           N == Len(all)
           p == b.proposer
<1>1. /\ all \in Seq(Tx) /\ L \in Nat /\ L <= N /\ DOMAIN b.simple = 1..L
      /\ \A i \in DOMAIN all : WellFormed(all[i])
      /\ \A i \in 1..L : all[i] = b.simple[i]
      /\ \A i \in (L + 1)..N : all[i].type \in SystemType /\ SoundAmount(all[i])
  BY AllTransactions
<1>2. /\ p \in Address
      /\ \A i \in 1..L : /\ b.simple[i].type \in SimpleType /\ WellFormed(b.simple[i])
                         /\ b.simple[i].from \in Address
  BY <1>1, TypesOfTx DEF SoundBlock
<1>3. \A i \in 1..L : b.simple[i].nonce = s.nonce[b.simple[i].from] + 1 /\ Affordable(s, b.simple[i])
  BY <1>1, NextNonceOfBlock
<1>4. \A i, j \in 1..L : b.simple[i].from = b.simple[j].from => i = j
  BY <1>1 DEF OneEach
<1>5. ApplyBlock(s, b) = Applied(s, all, p)
  BY DEF ApplyBlock
<1> HIDE DEF all, L, p
<1>6. N \in Nat /\ DOMAIN all = 1..N
  BY <1>1
<1>7. PICK f : TxRun(f, s, all, p) /\ Applied(s, all, p) = f[N]
  BY <1>1, <1>2, AppliedRun
<1> HIDE DEF N
<1>8. /\ f \in [0..N -> LedgerState] /\ f[0] = s
      /\ \A i \in 1..N : f[i] = Effect(FeePaid(f[i - 1], all[i], p), all[i])
  BY <1>7 DEF TxRun, N
<1> DEFINE P == {i \in 0..N : \A a \in Address : Account(s, f[i], b, a, i)}
<1>9. 0 \in P
  <2>1. \A a \in Address : ~ Sent(b, a, 0)
    BY <1>1 DEF Sent
  <2>2. ASSUME NEW a \in Address PROVE Account(s, s, b, a, 0)
    <3>1. s.balance[a] \in Int
      BY DEF LedgerState
    <3> QED BY <2>1, <3>1 DEF Account
  <2> QED BY <1>6, <1>8, <2>2
<1>10. ASSUME NEW i \in 0..(N - 1), i \in P PROVE i + 1 \in P
  <2> DEFINE k == i + 1
             u == f[i]
             t == f[k]
             tx == all[k]
  <2>1. k \in 1..N /\ k - 1 = i /\ k \in 0..N /\ i \in 0..N /\ k \in DOMAIN all /\ i \in Int
    BY <1>6
  <2>2. t = Effect(FeePaid(u, tx, p), tx) /\ u \in LedgerState /\ t \in LedgerState
    BY <1>8, <2>1
  <2>3. WellFormed(tx)
    BY <1>1, <2>1
  <2>4. Moves(t, u, tx, p)
    BY <1>2, <2>2, <2>3, EffectFields DEF After
  <2>5. \A a \in Address : Account(s, u, b, a, i)
    BY <1>10
  <2>6. \A a \in Address :
          /\ s.balance[a] \in Int /\ u.balance[a] \in Int /\ t.balance[a] \in Int
          /\ s.stake[a] \in Int /\ u.stake[a] \in Int /\ t.stake[a] \in Int /\ s.nonce[a] \in Nat
    BY <2>2 DEF LedgerState
  <2> HIDE DEF u, t, tx, P
  <2> SUFFICES ASSUME NEW a \in Address PROVE Account(s, t, b, a, k)
    BY <2>1 DEF P, t
  <2>7. CASE k <= L
    <3>1. k \in 1..L /\ tx = b.simple[k]
      BY <1>1, <2>1, <2>7 DEF tx
    <3>2. tx.type \in SimpleType /\ tx.from \in Address
      BY <1>2, <3>1
    <3>3. ~ Sent(b, tx.from, i) /\ Sent(b, tx.from, k)
      <4>1. \A j \in 1..L : j <= i => j # k
        BY <2>1
      <4> QED BY <1>1, <1>4, <3>1, <4>1 DEF Sent
    <3>4. \A x \in Address \ {tx.from} : Sent(b, x, k) <=> Sent(b, x, i)
      <4>1. \A j \in 1..L : j <= k <=> (j <= i \/ j = k)
        BY <2>1
      <4> QED BY <1>1, <3>1, <4>1 DEF Sent
    <3>5. /\ \A x \in Address \ {tx.from} :
              /\ t.balance[x] >= u.balance[x] \/ Excuses(tx, x)
              /\ t.stake[x] = u.stake[x] /\ t.nonce[x] = u.nonce[x]
          /\ t.nonce[tx.from] = tx.nonce
          /\ (Affordable(s, tx) /\ u.balance[tx.from] >= s.balance[tx.from])
             => t.balance[tx.from] >= 0 \/ Excuses(tx, tx.from)
          /\ (Affordable(s, tx) /\ u.stake[tx.from] = s.stake[tx.from] /\ s.stake[tx.from] >= 0)
             => t.stake[tx.from] >= 0 \/ Drains(tx)
      BY <2>2, <2>3, <2>4, <3>2, SimpleStep
    <3>6. /\ \A x \in Address : Excuses(tx, x) => ExcusedBy(b, x)
          /\ Drains(tx) => DrainedBy(b, tx.from)
      BY <1>1, <3>1 DEF ExcusedBy, DrainedBy
    <3>7. CASE a = tx.from
      <4>1. /\ u.balance[a] >= s.balance[a] \/ ExcusedBy(b, a)
            /\ u.stake[a] = s.stake[a]
        <5>1. Account(s, u, b, a, i) /\ ~ Sent(b, a, i) /\ i <= L
          BY <1>1, <2>1, <2>5, <2>7, <3>3, <3>7
        <5> QED BY <5>1 DEF Account, L
      <4>2. Affordable(s, tx) /\ t.nonce[a] = s.nonce[a] + 1
        BY <1>3, <3>1, <3>5, <3>7
      <4>3. t.balance[a] >= 0 \/ ExcusedBy(b, a)
        BY <3>5, <3>6, <3>7, <4>1, <4>2
      <4>4. s.stake[a] >= 0 => t.stake[a] >= 0 \/ DrainedBy(b, a)
        BY <3>5, <3>6, <3>7, <4>1, <4>2
      <4> QED BY <3>3, <3>7, <4>2, <4>3, <4>4 DEF Account
    <3>8. CASE a # tx.from
      <4>1. /\ t.balance[a] >= u.balance[a] \/ ExcusedBy(b, a)
            /\ t.stake[a] = u.stake[a] /\ t.nonce[a] = u.nonce[a]
            /\ Sent(b, a, k) <=> Sent(b, a, i)
        BY <3>4, <3>5, <3>6, <3>8
      <4>2. Account(s, u, b, a, i) /\ i <= L
        BY <2>1, <2>5, <2>7, <1>1
      <4> QED BY <2>6, <4>1, <4>2 DEF Account, L
    <3> QED BY <3>7, <3>8
  <2>8. CASE ~ (k <= L)
    <3>1. k \in (L + 1)..N
      BY <1>1, <2>1, <2>8
    <3>2. tx.type \in SystemType /\ SoundAmount(tx)
      BY <1>1, <3>1 DEF tx
    <3>3. /\ t.balance[a] >= u.balance[a] /\ t.nonce[a] = u.nonce[a]
          /\ u.stake[a] >= 0 => t.stake[a] >= 0
      BY <2>2, <2>3, <2>4, <3>2, SystemStep
    <3>4. Sent(b, a, k) <=> Sent(b, a, i)
      <4>1. \A j \in 1..L : j <= k <=> j <= i
        BY <1>1, <2>1, <2>8
      <4> QED BY <1>1, <4>1 DEF Sent
    <3>5. Account(s, u, b, a, i)
      BY <2>5
    <3>6. ~ (k <= Len(b.simple))
      BY <2>8 DEF L
    <3> HIDE DEF k
    <3> QED BY <2>6, <3>3, <3>4, <3>5, <3>6 DEF Account
  <2> QED BY <2>7, <2>8
<1>11. 0..N \subseteq P
  <2>1. \A i \in 0..(N - 1) : i \in P => i + 1 \in P
    BY <1>10
  <2> HIDE DEF P
  <2> QED BY <1>6, <1>9, <2>1, UpTo
<1>12. \A i \in 0..N : \A a \in Address : Account(s, f[i], b, a, i)
  BY <1>11
<1> HIDE DEF P
<1> QED BY <1>5, <1>7, <1>12 DEF N, all, p, BlockRun

(* What the books say after the block.                                     *)
LEMMA BlockKeepsBooks ==
  ASSUME NEW s \in LedgerState, NEW b, SoundBlock(b), OneEach(b), ValidTxs(s, b.simple)
  PROVE  /\ ApplyBlock(s, b) \in LedgerState
         /\ \A a \in Address : Account(s, ApplyBlock(s, b), b, a, Len(b.simple \o b.system))
<1>1. PICK f : BlockRun(f, s, b, ApplyBlock(s, b))
  BY BlockRuns
<1>2. Len(b.simple \o b.system) \in 0..Len(b.simple \o b.system)
  <2> DEFINE all == b.simple \o b.system
  <2>1. all \in Seq(Tx)
    BY AllTransactions
  <2> HIDE DEF all
  <2>2. Len(all) \in 0..Len(all)
    BY <2>1
  <2> QED BY <2>2 DEF all
<1> QED BY <1>1, <1>2 DEF BlockRun, TxRun

-----------------------------------------------------------------------------
(* What a block does to the supply.                                        *)

(* What transaction tx mints, what it sends nowhere, and what it may slash.*)
Minted(tx) == IF tx.type = "REWARD" THEN tx.amount ELSE 0
Vanished(tx) == IF tx.type = "CALL" THEN tx.amount ELSE 0
Slashable(tx) == IF tx.type = "SLASH" THEN tx.amount ELSE 0

(* What transaction tx adds to the supply, but for a slash.                *)
Net(tx) == Minted(tx) - Vanished(tx) + Rebated(tx)

(* What the accounts hold.                                                 *)
Holdings(s) == [a \in Address |-> s.balance[a] + s.stake[a]]

(* What a transaction does to the supply: a fee goes from the sender to    *)
(* the proposer, an amount to the recipient or into the stake.             *)
LEMMA TxSupply ==
  ASSUME NEW s \in LedgerState, NEW t \in LedgerState, NEW tx, WellFormed(tx),
         NEW p \in Address, Moves(t, s, tx, p)
  PROVE  /\ Supply(s) \in Int /\ Supply(t) \in Int /\ Net(tx) \in Int /\ Slashable(tx) \in Int
         /\ tx.type # "SLASH" => Supply(t) = Supply(s) + Net(tx)
         /\ Supply(t) >= Supply(s) + Net(tx) - Slashable(tx)
         /\ (s.stake[tx.from] >= 0 /\ SoundAmount(tx)) => Supply(t) <= Supply(s) + Net(tx)
<1> DEFINE fee == Toll(tx)
           cost == IF tx.type \in SimpleType THEN - Cost(tx) ELSE 0
           got == IF tx.type \in {"TRANSFER", "REWARD"} THEN tx.amount ELSE 0
           staked == StakeAfter(s.stake[tx.from], tx) - s.stake[tx.from]
           f0 == Holdings(s)
           f1 == [a \in Address |-> f0[a] + IF a = p THEN fee ELSE 0]
           f2 == [a \in Address |-> f1[a] + IF a = tx.from THEN cost ELSE 0]
           f3 == [a \in Address |-> f2[a] + IF a = tx.to THEN got ELSE 0]
           f4 == [a \in Address |-> f3[a] + IF a = tx.from THEN staked ELSE 0]
<1>1. /\ tx.from \in Address /\ tx.amount \in Int /\ tx.fee \in Int
      /\ tx.type \in SimpleType \cup SystemType
      /\ tx.type \in {"TRANSFER", "REWARD", "VERIFY", "ADMITTED", "REJECTED"} => tx.to \in Address
      /\ Toll(tx) \in Int
  BY TypesOfTx
<1>2. /\ \A a \in Address : s.balance[a] \in Int /\ s.stake[a] \in Int
      /\ \A a \in Address : t.balance[a] \in Int /\ t.stake[a] \in Int
  BY DEF LedgerState
<1>3. fee \in Int /\ cost \in Int /\ got \in Int /\ staked \in Int
  <2>1. s.stake[tx.from] \in Int
    BY <1>1, <1>2
  <2> QED BY <1>1, <2>1 DEF Cost, StakeAfter, NonNegative
<1>4. IsFiniteSet(Address)
  BY ServiceAssumption
<1>5. f0 \in [Address -> Int]
  BY <1>2 DEF Holdings
<1> HIDE DEF fee, cost, got, staked, f0
<1>6. f1 \in [Address -> Int] /\ SumFunction(f1) = SumFunction(f0) + fee
  <2>1. f1 \in [Address -> Int] /\ Moved(f1, f0, Address, p, fee)
    BY <1>3, <1>5 DEF Moved
  <2> HIDE DEF f1
  <2>2. SumFunction(f1) = SumFunction(f0) + IF p \in Address THEN fee ELSE 0
    BY <1>3, <1>4, <1>5, <2>1, SumMove
  <2> QED BY <2>1, <2>2
<1> HIDE DEF f1
<1>7. f2 \in [Address -> Int] /\ SumFunction(f2) = SumFunction(f1) + cost
  <2> DEFINE x == tx.from
  <2>1. f2 \in [Address -> Int] /\ Moved(f2, f1, Address, x, cost)
    BY <1>3, <1>6 DEF Moved
  <2> HIDE DEF f2, x
  <2>2. SumFunction(f2) = SumFunction(f1) + IF x \in Address THEN cost ELSE 0
    BY <1>3, <1>4, <1>6, <2>1, SumMove
  <2> QED BY <1>1, <2>1, <2>2 DEF x
<1> HIDE DEF f2
<1>8. /\ f3 \in [Address -> Int]
      /\ SumFunction(f3) = SumFunction(f2) + IF tx.to \in Address THEN got ELSE 0
  <2> DEFINE x == tx.to
  <2>1. f3 \in [Address -> Int] /\ Moved(f3, f2, Address, x, got)
    BY <1>3, <1>7 DEF Moved
  <2> HIDE DEF f3, x
  <2>2. SumFunction(f3) = SumFunction(f2) + IF x \in Address THEN got ELSE 0
    BY <1>3, <1>4, <1>7, <2>1, SumMove
  <2> QED BY <2>1, <2>2 DEF x
<1> HIDE DEF f3
<1>9. f4 \in [Address -> Int] /\ SumFunction(f4) = SumFunction(f3) + staked
  <2> DEFINE x == tx.from
  <2>1. f4 \in [Address -> Int] /\ Moved(f4, f3, Address, x, staked)
    BY <1>3, <1>8 DEF Moved
  <2> HIDE DEF f4, x
  <2>2. SumFunction(f4) = SumFunction(f3) + IF x \in Address THEN staked ELSE 0
    BY <1>3, <1>4, <1>8, <2>1, SumMove
  <2> QED BY <1>1, <2>1, <2>2 DEF x
<1>10. Holdings(t) = f4
  <2>1. ASSUME NEW a \in Address PROVE t.balance[a] + t.stake[a] = f4[a]
    <3>1. /\ t.balance[a] = s.balance[a] + Gain(tx, p, a)
          /\ t.stake[a] = IF a = tx.from THEN StakeAfter(s.stake[a], tx) ELSE s.stake[a]
      BY DEF Moves
    <3>2. Gain(tx, p, a) = (IF a = p THEN fee ELSE 0) + (IF a = tx.from THEN cost ELSE 0)
                           + (IF a = tx.to THEN got ELSE 0)
      <4>1. Cost(tx) \in Int
        BY <1>1 DEF Cost
      <4> QED BY <1>1, <4>1 DEF Gain, fee, cost, got
    <3>3. t.stake[a] = s.stake[a] + IF a = tx.from THEN staked ELSE 0
      BY <1>1, <1>2, <1>3, <3>1 DEF staked
    <3>4. f4[a] = s.balance[a] + s.stake[a] + (IF a = p THEN fee ELSE 0)
                  + (IF a = tx.from THEN cost ELSE 0) + (IF a = tx.to THEN got ELSE 0)
                  + (IF a = tx.from THEN staked ELSE 0)
      BY DEF f0, f1, f2, f3, Holdings
    <3> DEFINE e == IF a = p THEN fee ELSE 0
               c == IF a = tx.from THEN cost ELSE 0
               g == IF a = tx.to THEN got ELSE 0
               k == IF a = tx.from THEN staked ELSE 0
    <3>5. e \in Int /\ c \in Int /\ g \in Int /\ k \in Int
      BY <1>3
    <3>6. t.balance[a] = s.balance[a] + (e + c + g) /\ t.stake[a] = s.stake[a] + k
      BY <3>1, <3>2, <3>3
    <3>7. f4[a] = s.balance[a] + s.stake[a] + e + c + g + k
      BY <3>4
    <3>8. s.balance[a] \in Int /\ s.stake[a] \in Int
      BY <1>2
    <3> HIDE DEF f4, e, c, g, k
    <3> QED BY <3>5, <3>6, <3>7, <3>8
  <2>2. \A a \in Address : Holdings(t)[a] = f4[a]
    BY <2>1 DEF Holdings
  <2>3. Holdings(t) = [a \in Address |-> Holdings(t)[a]]
    BY DEF Holdings
  <2>4. f4 = [a \in Address |-> f4[a]]
    BY <1>9
  <2> HIDE DEF f4
  <2> QED BY <2>2, <2>3, <2>4
<1> HIDE DEF f4
<1>11. Supply(s) = SumFunction(f0) /\ Supply(t) = SumFunction(f4)
  BY <1>10 DEF Supply, Holdings, f0
<1>12. SumFunction(f0) \in Int
  BY <1>4, <1>5, SumType
<1>13. Supply(t) = Supply(s) + fee + cost + (IF tx.to \in Address THEN got ELSE 0) + staked
  BY <1>3, <1>6, <1>7, <1>8, <1>9, <1>11, <1>12
<1>14. (IF tx.to \in Address THEN got ELSE 0) = got
  BY <1>1 DEF got
<1>15. /\ tx.type # "SLASH" => fee + cost + got + staked = Net(tx)
       /\ tx.type = "SLASH" =>
            /\ fee + cost + got + staked >= Net(tx) - tx.amount
            /\ (s.stake[tx.from] >= 0 /\ tx.amount >= 0) => fee + cost + got + staked <= Net(tx)
  <2>1. PICK k \in Int : k = s.stake[tx.from]
    BY <1>1, <1>2
  <2>2. staked = StakeAfter(k, tx) - k
    BY <2>1 DEF staked
  <2>3. tx.fee \in Int /\ tx.amount \in Int
    BY <1>1
  <2>4. tx.type \in SimpleType => fee = tx.fee + Rebated(tx) /\ Rebated(tx) \in Int
    BY <2>3 DEF fee, Toll, Rebated
  <2>5. tx.type \notin SimpleType => fee = 0 /\ Rebated(tx) = 0
    BY DEF fee, Toll, Rebated
  <2> HIDE DEF fee
  <2> USE DEF cost, got, Cost, StakeAfter, Minted, Vanished, SimpleType, SystemType, Net
  <2>6. CASE tx.type = "TRANSFER"
    BY <2>1, <2>2, <2>3, <2>4, <2>6
  <2>7. CASE tx.type = "STAKE"
    BY <2>1, <2>2, <2>3, <2>4, <2>7
  <2>8. CASE tx.type = "UNSTAKE"
    BY <2>1, <2>2, <2>3, <2>4, <2>8
  <2>9. CASE tx.type = "CALL"
    BY <2>1, <2>2, <2>3, <2>4, <2>9
  <2>10. CASE tx.type \in {"REGISTER", "REGISTER_DNN", "REGISTER_POS", "RESPONSE", "DEPLOY"}
    <3>1. cost = - tx.fee /\ got = 0 /\ staked = 0 /\ Minted(tx) = 0 /\ Vanished(tx) = 0
      BY <2>1, <2>2, <2>3, <2>10
    <3>2. tx.type # "SLASH" /\ tx.type \in SimpleType
      BY <2>10
    <3> HIDE DEF cost, got, Minted, Vanished, Cost, StakeAfter, SimpleType
    <3> QED BY <2>1, <2>3, <2>4, <3>1, <3>2
  <2>11. CASE tx.type = "REWARD"
    BY <2>1, <2>2, <2>3, <2>5, <2>11
  <2>12. CASE tx.type = "SLASH"
    <3>1. /\ fee = 0 /\ cost = 0 /\ got = 0 /\ Minted(tx) = 0 /\ Vanished(tx) = 0 /\ Rebated(tx) = 0
          /\ staked = NonNegative(k - tx.amount) - k
      BY <2>2, <2>3, <2>5, <2>12
    <3> HIDE DEF cost, got, Minted, Vanished, Cost, StakeAfter, SimpleType
    <3>2. staked >= - tx.amount /\ staked \in Int /\ ((k >= 0 /\ tx.amount >= 0) => staked <= 0)
      BY <2>1, <2>3, <3>1 DEF NonNegative
    <3> QED BY <2>1, <2>3, <2>12, <3>1, <3>2
  <2>13. CASE tx.type \in {"VERIFY", "ADMITTED", "REJECTED"}
    <3>1. fee = 0 /\ cost = 0 /\ got = 0 /\ staked = 0
      BY <2>1, <2>2, <2>3, <2>5, <2>13
    <3>2. Minted(tx) = 0 /\ Vanished(tx) = 0 /\ Rebated(tx) = 0
      BY <2>5, <2>13
    <3>3. tx.type # "SLASH"
      BY <2>13
    <3> HIDE DEF cost, got, staked, Minted, Vanished, Cost, StakeAfter, SimpleType
    <3> QED BY <2>1, <2>3, <3>1, <3>2, <3>3
  <2> QED BY <1>1, <2>6, <2>7, <2>8, <2>9, <2>10, <2>11, <2>12, <2>13
<1>16. Net(tx) \in Int /\ Slashable(tx) \in Int
  <2>1. Minted(tx) \in Int /\ Vanished(tx) \in Int
    BY <1>1 DEF Minted, Vanished
  <2>2. Rebated(tx) \in Int /\ Slashable(tx) \in Int
    BY <1>1 DEF Rebated, Slashable
  <2> QED BY <2>1, <2>2 DEF Net
<1>17. Supply(t) = Supply(s) + (fee + cost + got + staked)
  BY <1>3, <1>11, <1>12, <1>13, <1>14
<1>18. Supply(s) \in Int /\ fee + cost + got + staked \in Int
  BY <1>3, <1>11, <1>12
<1>19. PICK d \in Int : d = fee + cost + got + staked
  BY <1>18
<1>20. CASE tx.type # "SLASH"
  <2>1. d = Net(tx) /\ Slashable(tx) = 0
    BY <1>15, <1>19, <1>20 DEF Slashable
  <2> QED BY <1>16, <1>17, <1>18, <1>19, <1>20, <2>1
<1>21. CASE tx.type = "SLASH"
  <2>1. /\ d >= Net(tx) - Slashable(tx)
        /\ (s.stake[tx.from] >= 0 /\ SoundAmount(tx)) => d <= Net(tx)
    BY <1>15, <1>19, <1>21 DEF Slashable, SoundAmount
  <2> QED BY <1>16, <1>17, <1>18, <1>19, <1>21, <2>1
<1> QED BY <1>20, <1>21

(* The first n terms of h.                                                 *)
Prefix(h, n) == [i \in DOMAIN h |-> IF i <= n THEN h[i] ELSE 0]

(* A sum, term by term.                                                    *)
LEMMA PrefixGrows ==
  ASSUME NEW N \in Nat, NEW g \in [1..N -> Int]
  PROVE  /\ SumFunction(Prefix(g, 0)) = 0 /\ SumFunction(Prefix(g, N)) = SumFunction(g)
         /\ \A i \in 1..N : SumFunction(Prefix(g, i)) = SumFunction(Prefix(g, i - 1)) + g[i]
         /\ \A i \in 0..N : SumFunction(Prefix(g, i)) \in Int
<1> DEFINE D == 1..N
<1>1. DOMAIN g = D /\ IsFiniteSet(D)
  BY FS_Interval
<1>2. \A i \in D : g[i] \in Int
  OBVIOUS
<1>3. \A n \in 0..N : Prefix(g, n) \in [D -> Int]
  BY <1>1, <1>2 DEF Prefix
<1>4. ASSUME NEW n \in 0..N PROVE SumFunction(Prefix(g, n)) \in Int
  <2> DEFINE f == Prefix(g, n)
  <2>1. f \in [D -> Int]
    BY <1>3
  <2> HIDE DEF f, D
  <2>2. SumFunction(f) \in Int
    BY <1>1, <2>1, SumType
  <2> QED BY <2>2 DEF f
<1>5. SumFunction(Prefix(g, 0)) = 0
  <2> DEFINE f == Prefix(g, 0)
  <2>1. f \in [D -> Int] /\ Point(f, D, 0, 0)
    BY <1>1, <1>3 DEF Prefix, Point
  <2>2. 0 \notin D
    OBVIOUS
  <2> HIDE DEF f, D
  <2>3. SumFunction(f) = IF 0 \in D THEN 0 ELSE 0
    BY <1>1, <2>1, SumPoint
  <2> QED BY <2>3 DEF f
<1>6. Prefix(g, N) = g
  <2>1. \A i \in D : i <= N
    OBVIOUS
  <2> HIDE DEF D
  <2> QED BY <1>1, <2>1 DEF Prefix
<1>7. ASSUME NEW i \in 1..N
      PROVE  SumFunction(Prefix(g, i)) = SumFunction(Prefix(g, i - 1)) + g[i]
  <2> DEFINE f == Prefix(g, i - 1)
             h == Prefix(g, i)
             k == g[i]
  <2>1. f \in [D -> Int] /\ h \in [D -> Int] /\ k \in Int /\ i \in D
    <3>1. i \in 0..N /\ i - 1 \in 0..N
      OBVIOUS
    <3> QED BY <1>2, <1>3, <3>1
  <2>2. Moved(h, f, D, i, k)
    <3>1. \A j \in D : f[j] = (IF j <= i - 1 THEN g[j] ELSE 0) /\ h[j] = IF j <= i THEN g[j] ELSE 0
      BY <1>1 DEF Prefix
    <3>2. \A j \in D : j <= i <=> (j <= i - 1 \/ j = i)
      OBVIOUS
    <3>3. \A j \in D : j = i => ~ (j <= i - 1)
      OBVIOUS
    <3> HIDE DEF f, h
    <3>4. ASSUME NEW j \in D PROVE h[j] = f[j] + IF j = i THEN k ELSE 0
      <4>1. CASE j = i
        BY <1>2, <3>1, <3>2, <3>3, <4>1
      <4>2. CASE j # i
        BY <1>2, <3>1, <3>2, <4>2
      <4> QED BY <4>1, <4>2
    <3> HIDE DEF k, D
    <3> QED BY <3>4 DEF Moved
  <2>3. IsFiniteSet(D)
    BY <1>1
  <2> HIDE DEF f, h, k, D
  <2>4. SumFunction(h) = SumFunction(f) + IF i \in D THEN k ELSE 0
    <3>1. PICK x, E : x = i /\ E = D
      OBVIOUS
    <3>2. IsFiniteSet(E) /\ f \in [E -> Int] /\ h \in [E -> Int] /\ k \in Int /\ Moved(h, f, E, x, k)
      BY <2>1, <2>2, <2>3, <3>1
    <3>3. SumFunction(h) = SumFunction(f) + IF x \in E THEN k ELSE 0
      BY <3>2, SumMove
    <3> QED BY <3>1, <3>3
  <2> QED BY <2>1, <2>4 DEF f, h, k
<1> QED BY <1>4, <1>5, <1>6, <1>7

(* How many of what each transaction of a block mints, sends nowhere, gets *)
(* back and may slash, one after the other.                                *)
Mints(txs) == [i \in DOMAIN txs |-> Minted(txs[i])]
Vanishes(txs) == [i \in DOMAIN txs |-> Vanished(txs[i])]
Returns(txs) == [i \in DOMAIN txs |-> Rebated(txs[i])]
Slashes(txs) == [i \in DOMAIN txs |-> Slashable(txs[i])]

(* The sums of a block are the sums of these.                              *)
LEMMA SumsOfBlock ==
  ASSUME NEW b, SoundBlock(b), NEW txs, txs = b.simple \o b.system
  PROVE  /\ SumOf(b, "REWARD") = SumFunction(Mints(txs))
         /\ SumOf(b, "CALL") = SumFunction(Vanishes(txs))
         /\ SumOf(b, "SLASH") = SumFunction(Slashes(txs))
         /\ Rebates(b) = SumFunction(Returns(txs))
         /\ Mints(txs) \in [1..Len(txs) -> Int] /\ Vanishes(txs) \in [1..Len(txs) -> Int]
         /\ Slashes(txs) \in [1..Len(txs) -> Int] /\ Returns(txs) \in [1..Len(txs) -> Int]
<1>1. DOMAIN txs = 1..Len(txs) /\ \A i \in 1..Len(txs) : WellFormed(txs[i])
  <2>1. b.simple \o b.system \in Seq(Tx)
    BY AllTransactions
  <2>2. \A i \in DOMAIN (b.simple \o b.system) : WellFormed((b.simple \o b.system)[i])
    BY AllTransactions
  <2>3. \A i \in DOMAIN txs : WellFormed(txs[i])
    BY <2>2
  <2>4. txs \in Seq(Tx)
    BY <2>1
  <2>5. DOMAIN txs = 1..Len(txs)
    BY <2>4
  <2> QED BY <2>3, <2>5
<1>2. \A i \in 1..Len(txs) : txs[i].amount \in Int /\ txs[i].fee \in Int
  BY <1>1, TypesOfTx
<1>3. \A i \in 1..Len(txs) : /\ Minted(txs[i]) \in Int /\ Vanished(txs[i]) \in Int
                              /\ Slashable(txs[i]) \in Int /\ Rebated(txs[i]) \in Int
  <2> SUFFICES ASSUME NEW i \in 1..Len(txs)
               PROVE  /\ Minted(txs[i]) \in Int /\ Vanished(txs[i]) \in Int
                      /\ Slashable(txs[i]) \in Int /\ Rebated(txs[i]) \in Int
    OBVIOUS
  <2>1. PICK tx : tx = txs[i]
    OBVIOUS
  <2>2. tx.amount \in Int /\ tx.fee \in Int
    BY <1>2, <2>1
  <2>3. Minted(tx) \in Int /\ Vanished(tx) \in Int
    BY <2>2 DEF Minted, Vanished
  <2>4. Slashable(tx) \in Int /\ Rebated(tx) \in Int
    BY <2>2 DEF Slashable, Rebated
  <2> QED BY <2>1, <2>3, <2>4
<1>4. /\ Mints(txs) \in [1..Len(txs) -> Int] /\ Vanishes(txs) \in [1..Len(txs) -> Int]
      /\ Slashes(txs) \in [1..Len(txs) -> Int] /\ Returns(txs) \in [1..Len(txs) -> Int]
  BY <1>1, <1>3 DEF Mints, Vanishes, Slashes, Returns
<1>5. /\ SumOf(b, "REWARD") = SumFunction(Mints(txs))
      /\ SumOf(b, "CALL") = SumFunction(Vanishes(txs))
      /\ SumOf(b, "SLASH") = SumFunction(Slashes(txs))
      /\ Rebates(b) = SumFunction(Returns(txs))
  BY DEF SumOf, Rebates, Mints, Vanishes, Slashes, Returns, Minted, Vanished, Slashable
<1> QED BY <1>4, <1>5

(* What ledger u, before the transactions after the i-th, holds over what  *)
(* the supply k was and what has been minted, given back and sent nowhere. *)
Moving(u, k, txs, i) ==
  Supply(u) - k - SumFunction(Prefix(Mints(txs), i)) + SumFunction(Prefix(Vanishes(txs), i))
    - SumFunction(Prefix(Returns(txs), i))

(* What a valid block does to the supply.                                  *)
LEMMA BlockSupply ==
  ASSUME NEW s \in LedgerState, NEW b, SoundBlock(b), OneEach(b), ValidTxs(s, b.simple)
  PROVE  LET change == Supply(ApplyBlock(s, b)) - Supply(s)
                         - SumOf(b, "REWARD") + SumOf(b, "CALL") - Rebates(b)
         IN /\ change \in Int /\ SumOf(b, "SLASH") \in Int
            /\ change >= - SumOf(b, "SLASH")
            /\ StakesHold(s, b) => change <= 0
            /\ ~ Slashing(b) => change = 0
<1>1. PICK txs : txs = b.simple \o b.system
  OBVIOUS
<1>2. PICK p : p = b.proposer
  OBVIOUS
<1> DEFINE N == Len(txs)
           M(i) == SumFunction(Prefix(Mints(txs), i))
           V(i) == SumFunction(Prefix(Vanishes(txs), i))
           R(i) == SumFunction(Prefix(Returns(txs), i))
           S(i) == SumFunction(Prefix(Slashes(txs), i))
<1>3. /\ txs \in Seq(Tx) /\ p \in Address /\ \A i \in DOMAIN txs : WellFormed(txs[i])
      /\ \A i \in 1..Len(b.simple) : txs[i] = b.simple[i]
      /\ \A i \in (Len(b.simple) + 1)..N : txs[i].type \in SystemType /\ SoundAmount(txs[i])
      /\ DOMAIN b.simple = 1..Len(b.simple) /\ Len(b.simple) \in Nat
  BY <1>1, <1>2, AllTransactions DEF SoundBlock
<1>4. N \in Nat /\ DOMAIN txs = 1..N
  BY <1>3
<1>5. PICK f : BlockRun(f, s, b, ApplyBlock(s, b))
  BY BlockRuns
<1>6. /\ TxRun(f, s, txs, p) /\ ApplyBlock(s, b) = f[N]
      /\ \A i \in 0..N : \A a \in Address : Account(s, f[i], b, a, i)
  BY <1>1, <1>2, <1>5 DEF BlockRun
<1>7. /\ Mints(txs) \in [1..N -> Int] /\ Vanishes(txs) \in [1..N -> Int]
      /\ Slashes(txs) \in [1..N -> Int] /\ Returns(txs) \in [1..N -> Int]
      /\ SumOf(b, "REWARD") = SumFunction(Mints(txs)) /\ SumOf(b, "CALL") = SumFunction(Vanishes(txs))
      /\ SumOf(b, "SLASH") = SumFunction(Slashes(txs)) /\ Rebates(b) = SumFunction(Returns(txs))
  BY <1>1, SumsOfBlock
<1> HIDE DEF N
<1>8. /\ M(0) = 0 /\ V(0) = 0 /\ R(0) = 0 /\ S(0) = 0
      /\ M(N) = SumOf(b, "REWARD") /\ V(N) = SumOf(b, "CALL")
      /\ R(N) = Rebates(b) /\ S(N) = SumOf(b, "SLASH")
      /\ \A i \in 0..N : M(i) \in Int /\ V(i) \in Int /\ R(i) \in Int /\ S(i) \in Int
  BY <1>4, <1>7, PrefixGrows
<1>9. \A i \in 1..N : /\ M(i) = M(i - 1) + Minted(txs[i]) /\ V(i) = V(i - 1) + Vanished(txs[i])
                       /\ R(i) = R(i - 1) + Rebated(txs[i]) /\ S(i) = S(i - 1) + Slashable(txs[i])
  <2>1. \A i \in 1..N : /\ M(i) = M(i - 1) + Mints(txs)[i] /\ V(i) = V(i - 1) + Vanishes(txs)[i]
                         /\ R(i) = R(i - 1) + Returns(txs)[i] /\ S(i) = S(i - 1) + Slashes(txs)[i]
    BY <1>4, <1>7, PrefixGrows
  <2> HIDE DEF M, V, R, S
  <2>2. \A i \in 1..N : /\ Mints(txs)[i] = Minted(txs[i]) /\ Vanishes(txs)[i] = Vanished(txs[i])
                         /\ Returns(txs)[i] = Rebated(txs[i]) /\ Slashes(txs)[i] = Slashable(txs[i])
    BY <1>4 DEF Mints, Vanishes, Returns, Slashes
  <2> QED BY <2>1, <2>2
<1> DEFINE C(i) == Moving(f[i], Supply(s), txs, i)
<1>10. \A i : C(i) = Supply(f[i]) - Supply(s) - M(i) + V(i) - R(i)
  BY DEF Moving
<1> HIDE DEF M, V, R, S, C
<1>11. /\ f \in [0..N -> LedgerState] /\ f[0] = s
       /\ \A i \in 1..N : f[i] = Effect(FeePaid(f[i - 1], txs[i], p), txs[i])
  BY <1>6 DEF TxRun, N
<1>12. ~ Slashing(b) => \A i \in 1..N : txs[i].type # "SLASH"
  <2>1. \A i \in DOMAIN b.simple : b.simple[i].type # "SLASH"
    BY DEF SoundBlock, SimpleType
  <2>2. \A i \in DOMAIN txs : i \in DOMAIN b.simple \/ (i - Len(b.simple) \in DOMAIN b.system
                                                      /\ txs[i] = b.system[i - Len(b.simple)])
    <3>1. PICK x, y : x = b.simple /\ y = b.system
      OBVIOUS
    <3>2. x \in Seq(Tx) /\ y \in Seq(Tx) /\ txs = x \o y
      BY <1>1, <3>1 DEF SoundBlock
    <3>3. \A i \in DOMAIN txs : i \in DOMAIN x \/ (i - Len(x) \in DOMAIN y /\ txs[i] = y[i - Len(x)])
      BY <3>2
    <3> QED BY <3>1, <3>3
  <2> QED BY <1>3, <1>4, <2>1, <2>2 DEF Slashing
<1>13. StakesHold(s, b) => \A i \in 0..N : \A a \in Address : f[i].stake[a] >= 0
  <2> SUFFICES ASSUME StakesHold(s, b), NEW i \in 0..N, NEW a \in Address
               PROVE  f[i].stake[a] >= 0
    OBVIOUS
  <2>1. s.stake[a] >= 0
    BY DEF StakesHold
  <2>2. ~ DrainedBy(b, a)
    <3>1. \A j \in DOMAIN b.simple : b.simple[j].amount \in Int
      BY TypesOfTx DEF SoundBlock
    <3>2. \A j \in DOMAIN b.simple : b.simple[j].type = "STAKE" => b.simple[j].amount >= 0
      BY DEF StakesHold
    <3> QED BY <3>1, <3>2 DEF DrainedBy, Drains
  <2>3. Account(s, f[i], b, a, i)
    BY <1>6
  <2> QED BY <2>1, <2>2, <2>3 DEF Account
<1> DEFINE P == {i \in 0..N : /\ C(i) \in Int /\ Supply(f[i]) \in Int
                              /\ C(i) >= - S(i)
                              /\ StakesHold(s, b) => C(i) <= 0
                              /\ ~ Slashing(b) => C(i) = 0}
<1>14. Supply(s) \in Int
  <2> DEFINE h == Holdings(s)
  <2>1. h \in [Address -> Int] /\ IsFiniteSet(Address)
    BY ServiceAssumption DEF Holdings, LedgerState
  <2> HIDE DEF h
  <2>2. SumFunction(h) \in Int
    BY <2>1, SumType
  <2> QED BY <2>2 DEF h, Holdings, Supply
<1>15. 0 \in P
  <2>1. C(0) = 0
    BY <1>8, <1>10, <1>11, <1>14
  <2> QED BY <1>4, <1>8, <1>11, <1>14, <2>1
<1>16. ASSUME NEW i \in 0..(N - 1), i \in P PROVE i + 1 \in P
  <2>1. PICK k : k = i + 1
    OBVIOUS
  <2>2. k \in 1..N /\ k - 1 = i /\ k \in 0..N /\ i \in 0..N /\ k \in DOMAIN txs
    BY <1>4, <2>1
  <2>3. PICK u, t, tx : u = f[i] /\ t = f[k] /\ tx = txs[k]
    OBVIOUS
  <2>4. t = Effect(FeePaid(u, tx, p), tx) /\ u \in LedgerState /\ t \in LedgerState
    BY <1>11, <2>2, <2>3
  <2>5. WellFormed(tx) /\ tx.from \in Address
    <3>1. WellFormed(tx)
      BY <1>3, <2>2, <2>3
    <3> QED BY <3>1, TypesOfTx
  <2>6. Moves(t, u, tx, p)
    BY <1>3, <2>4, <2>5, EffectFields DEF After
  <2>7. SoundAmount(tx)
    <3>1. CASE k <= Len(b.simple)
      <4>1. tx.type \in SimpleType
        BY <1>3, <2>2, <2>3, <3>1 DEF SoundBlock
      <4> QED BY <4>1 DEF SoundAmount, SimpleType
    <3>2. CASE ~ (k <= Len(b.simple))
      BY <1>3, <1>4, <2>2, <2>3, <3>2
    <3> QED BY <3>1, <3>2
  <2>8. /\ Supply(u) \in Int /\ Supply(t) \in Int /\ Net(tx) \in Int /\ Slashable(tx) \in Int
        /\ tx.type # "SLASH" => Supply(t) = Supply(u) + Net(tx)
        /\ Supply(t) >= Supply(u) + Net(tx) - Slashable(tx)
        /\ (u.stake[tx.from] >= 0 /\ SoundAmount(tx)) => Supply(t) <= Supply(u) + Net(tx)
    BY <1>3, <2>4, <2>5, <2>6, TxSupply
  <2>9. /\ Minted(tx) \in Int /\ Vanished(tx) \in Int /\ Rebated(tx) \in Int
    <3>1. tx.amount \in Int /\ tx.fee \in Int
      BY <2>5, TypesOfTx
    <3> QED BY <3>1 DEF Minted, Vanished, Rebated
  <2>10. /\ M(k) = M(i) + Minted(tx) /\ V(k) = V(i) + Vanished(tx)
         /\ R(k) = R(i) + Rebated(tx) /\ S(k) = S(i) + Slashable(tx)
    BY <1>9, <2>2, <2>3
  <2>11. M(i) \in Int /\ V(i) \in Int /\ R(i) \in Int /\ S(i) \in Int
    BY <1>8, <2>2
  <2>12. C(i) = Supply(u) - Supply(s) - M(i) + V(i) - R(i)
    BY <1>10, <2>3
  <2>13. C(k) = Supply(t) - Supply(s) - M(k) + V(k) - R(k)
    BY <1>10, <2>3
  <2>14. C(k) = C(i) + (Supply(t) - Supply(u) - Net(tx)) /\ C(k) \in Int /\ C(i) \in Int
    BY <1>14, <2>8, <2>9, <2>10, <2>11, <2>12, <2>13 DEF Net
  <2>15. C(k) >= - S(k)
    <3>1. C(i) >= - S(i)
      BY <1>16
    <3> QED BY <2>8, <2>10, <2>11, <2>14, <3>1
  <2>16. StakesHold(s, b) => C(k) <= 0
    <3> SUFFICES ASSUME StakesHold(s, b) PROVE C(k) <= 0
      OBVIOUS
    <3>1. C(i) <= 0
      BY <1>16
    <3>2. u.stake[tx.from] >= 0
      BY <1>13, <2>2, <2>3, <2>5
    <3>3. Supply(t) <= Supply(u) + Net(tx)
      BY <2>7, <2>8, <3>2
    <3> QED BY <2>8, <2>14, <3>1, <3>3
  <2>17. ~ Slashing(b) => C(k) = 0
    <3> SUFFICES ASSUME ~ Slashing(b) PROVE C(k) = 0
      OBVIOUS
    <3>1. C(i) = 0
      BY <1>16
    <3>2. Supply(t) = Supply(u) + Net(tx)
      BY <1>12, <2>2, <2>3, <2>8
    <3> QED BY <2>8, <2>14, <3>1, <3>2
  <2>18. k \in P
    <3>1. Supply(f[k]) \in Int
      BY <2>3, <2>8
    <3> QED BY <2>2, <2>14, <2>15, <2>16, <2>17, <3>1
  <2> HIDE DEF P
  <2> QED BY <2>1, <2>18
<1>17. N \in P
  <2>1. \A i \in 0..(N - 1) : i \in P => i + 1 \in P
    BY <1>16
  <2> HIDE DEF P
  <2>2. 0..N \subseteq P
    BY <1>4, <1>15, <2>1, UpTo
  <2> QED BY <1>4, <2>2
<1>18. /\ C(N) \in Int /\ C(N) >= - S(N) /\ S(N) \in Int
       /\ StakesHold(s, b) => C(N) <= 0
       /\ ~ Slashing(b) => C(N) = 0
  BY <1>4, <1>8, <1>17
<1>19. C(N) = Supply(ApplyBlock(s, b)) - Supply(s) - SumOf(b, "REWARD") + SumOf(b, "CALL") - Rebates(b)
  BY <1>6, <1>8, <1>10
<1> QED BY <1>8, <1>18, <1>19

-----------------------------------------------------------------------------
(* The books of a chain. What relates a ledger to its chain, and that a    *)
(* valid block keeps it.                                                   *)

(* f goes through the ledgers that the blocks of chain c make one after    *)
(* the other, from nothing.                                                *)
History(c, f) ==
  /\ f \in [0..Len(c) -> LedgerState]
  /\ f[0] = EmptyLedger
  /\ \A i \in 1..Len(c) : f[i] = ApplyBlock(f[i - 1], c[i])

(* Every block of c after the first is valid where it stands, or spends    *)
(* from an account in g.                                                   *)
Fits(c, f, g) ==
  \A k \in 2..Len(c) : \A j \in DOMAIN c[k].simple :
    LET tx == c[k].simple[j]
    IN /\ tx.nonce = f[k - 1].nonce[tx.from] + 1
       /\ Affordable(f[k - 1], tx) \/ tx.from \in g

(* Ledger s is the ledger of chain c, but for reputations and what a       *)
(* faucet gave to g.                                                       *)
Books(c, s, g) ==
  /\ s \in LedgerState /\ Solvent(c, s) /\ InOrder(c, s)
  /\ \E f : History(c, f) /\ Alike(s, f[Len(c)], g) /\ Fits(c, f, g)

(* Transaction j of block i of c is one of account a.                      *)
At(c, a, i, j) == i \in DOMAIN c /\ j \in DOMAIN c[i].simple /\ c[i].simple[j].from = a

(* InOrder, one position at a time.                                        *)
Numbered(c, s, a) ==
  /\ \A i, j : At(c, a, i, j) => c[i].simple[j].nonce \in 1..s.nonce[a]
  /\ \A n \in 1..s.nonce[a] : \E i, j : At(c, a, i, j) /\ c[i].simple[j].nonce = n
  /\ \A i, j, k, l : At(c, a, i, j) /\ At(c, a, k, l) /\ (i < k \/ (i = k /\ j < l))
                       => c[i].simple[j].nonce < c[k].simple[l].nonce

(* The two ways to say it come to the same.                                *)
LEMMA InOrderAt ==
  ASSUME NEW c, NEW s
  PROVE  InOrder(c, s) <=> \A a \in Address \ {Genesis} : Numbered(c, s, a)
<1> DEFINE Nonce(p) == c[p[1]].simple[p[2]].nonce
           Ordered(a) == /\ {Nonce(p) : p \in Places(c, a)} = 1..s.nonce[a]
                         /\ \A p, q \in Places(c, a) :
                              (p[1] < q[1] \/ (p[1] = q[1] /\ p[2] < q[2])) => Nonce(p) < Nonce(q)
<1>1. ASSUME NEW a PROVE Ordered(a) <=> Numbered(c, s, a)
  <2>1. \A i, j : At(c, a, i, j) => <<i, j>> \in Places(c, a)
    BY DEF At, Places
  <2>2. \A p \in Places(c, a) : At(c, a, p[1], p[2]) /\ p = <<p[1], p[2]>>
    BY DEF At, Places
  <2>3. ASSUME Ordered(a) PROVE Numbered(c, s, a)
    <3>1. \A i, j : At(c, a, i, j) => c[i].simple[j].nonce \in 1..s.nonce[a]
      <4>1. ASSUME NEW i, NEW j, At(c, a, i, j) PROVE c[i].simple[j].nonce \in 1..s.nonce[a]
        <5>1. Nonce(<<i, j>>) \in {Nonce(p) : p \in Places(c, a)}
          BY <2>1, <4>1
        <5> QED BY <2>3, <5>1
      <4> QED BY <4>1
    <3>2. ASSUME NEW n \in 1..s.nonce[a]
          PROVE  \E i, j : At(c, a, i, j) /\ c[i].simple[j].nonce = n
      <4>1. PICK p \in Places(c, a) : Nonce(p) = n
        BY <2>3, <3>2
      <4> QED BY <2>2, <4>1
    <3>3. ASSUME NEW i, NEW j, NEW k, NEW l, At(c, a, i, j), At(c, a, k, l),
                 i < k \/ (i = k /\ j < l)
          PROVE  c[i].simple[j].nonce < c[k].simple[l].nonce
      <4>1. /\ <<i, j>> \in Places(c, a) /\ <<k, l>> \in Places(c, a)
            /\ <<i, j>>[1] = i /\ <<i, j>>[2] = j /\ <<k, l>>[1] = k /\ <<k, l>>[2] = l
        BY <2>1, <3>3
      <4> QED BY <2>3, <3>3, <4>1
    <3> QED BY <3>1, <3>2, <3>3 DEF Numbered
  <2>4. ASSUME Numbered(c, s, a) PROVE Ordered(a)
    <3>1. {Nonce(p) : p \in Places(c, a)} \subseteq 1..s.nonce[a]
      BY <2>2, <2>4 DEF Numbered
    <3>2. ASSUME NEW n \in 1..s.nonce[a] PROVE n \in {Nonce(p) : p \in Places(c, a)}
      <4>1. PICK i, j : At(c, a, i, j) /\ c[i].simple[j].nonce = n
        BY <2>4 DEF Numbered
      <4>2. <<i, j>> \in Places(c, a) /\ Nonce(<<i, j>>) = n
        BY <2>1, <4>1
      <4> QED BY <4>2
    <3>3. \A p, q \in Places(c, a) :
            (p[1] < q[1] \/ (p[1] = q[1] /\ p[2] < q[2])) => Nonce(p) < Nonce(q)
      BY <2>2, <2>4 DEF Numbered
    <3> QED BY <3>1, <3>2, <3>3
  <2> QED BY <2>3, <2>4
<1>2. InOrder(c, s) <=> \A a \in Address \ {Genesis} : Ordered(a)
  BY DEF InOrder
<1> HIDE DEF Ordered
<1> QED BY <1>1, <1>2

(* A chain that takes a valid block keeps its books.                       *)
LEMMA NumberedGrows ==
  ASSUME NEW B, NEW c \in Seq(B), NEW s \in LedgerState,
         NEW b, SoundBlock(b), OneEach(b), ValidTxs(s, b.simple), NEW a \in Address,
         Numbered(c, s, a)
  PROVE  Numbered(Append(c, b), ApplyBlock(s, b), a)
<1> DEFINE d == Append(c, b)
           t == ApplyBlock(s, b)
           L == Len(c)
<1>1. /\ L \in Nat /\ DOMAIN c = 1..L /\ DOMAIN d = 1..(L + 1)
      /\ d[L + 1] = b /\ \A i \in 1..L : d[i] = c[i]
  <2>1. c \in Seq(B \cup {b})
    OBVIOUS
  <2> QED BY <2>1
<1>2. DOMAIN b.simple = 1..Len(b.simple) /\ Len(b.simple) \in Nat
  BY AllTransactions
<1>3. \A i \in DOMAIN b.simple : b.simple[i].nonce = s.nonce[b.simple[i].from] + 1
  BY NextNonceOfBlock
<1>4. t.nonce[a] = IF \E j \in DOMAIN b.simple : b.simple[j].from = a
                   THEN s.nonce[a] + 1 ELSE s.nonce[a]
  <2>1. Account(s, t, b, a, Len(b.simple \o b.system))
    BY BlockKeepsBooks
  <2>2. \A j \in DOMAIN b.simple : j <= Len(b.simple \o b.system)
    <3> DEFINE z == b.simple \o b.system
    <3>1. Len(b.simple) \in Nat /\ Len(b.simple) <= Len(z) /\ z \in Seq(Tx)
      BY AllTransactions
    <3> HIDE DEF z
    <3>2. Len(z) \in Nat
      BY <3>1
    <3>3. \A j \in DOMAIN b.simple : j <= Len(z)
      BY <1>2, <3>1, <3>2
    <3> QED BY <3>3 DEF z
  <2>3. Sent(b, a, Len(b.simple \o b.system)) <=> \E j \in DOMAIN b.simple : b.simple[j].from = a
    BY <2>2 DEF Sent
  <2> QED BY <2>1, <2>3 DEF Account
<1>5. s.nonce[a] \in Nat
  BY DEF LedgerState
<1>6. \A i, j : At(d, a, i, j) <=> \/ At(c, a, i, j)
                                   \/ i = L + 1 /\ j \in DOMAIN b.simple /\ b.simple[j].from = a
  <2>1. \A i : i \in DOMAIN d <=> (i \in DOMAIN c \/ i = L + 1)
    BY <1>1
  <2>2. \A i \in DOMAIN c : d[i] = c[i] /\ i # L + 1
    BY <1>1
  <2> HIDE DEF d, L
  <2> SUFFICES ASSUME NEW i, NEW j
               PROVE  At(d, a, i, j) <=> \/ At(c, a, i, j)
                                         \/ i = L + 1 /\ j \in DOMAIN b.simple /\ b.simple[j].from = a
    OBVIOUS
  <2>3. CASE i \in DOMAIN c
    BY <2>1, <2>2, <2>3 DEF At
  <2>4. CASE i \notin DOMAIN c /\ i = L + 1
    BY <1>1, <2>1, <2>4 DEF At
  <2>5. CASE i \notin DOMAIN c /\ i # L + 1
    BY <2>1, <2>5 DEF At
  <2> QED BY <2>3, <2>4, <2>5
<1>7. \A i, j : At(c, a, i, j) => i \in 1..L /\ d[i] = c[i]
  BY <1>1 DEF At
<1>8. \A j, l \in DOMAIN b.simple : b.simple[j].from = a /\ b.simple[l].from = a => j = l
  BY DEF OneEach
<1> HIDE DEF d, t, L
<1>9. \A i, j : At(d, a, i, j) => d[i].simple[j].nonce \in 1..t.nonce[a]
  <2>1. ASSUME NEW i, NEW j, At(c, a, i, j) PROVE d[i].simple[j].nonce \in 1..t.nonce[a]
    <3>1. c[i].simple[j].nonce \in 1..s.nonce[a]
      BY <2>1 DEF Numbered
    <3> QED BY <1>4, <1>5, <1>7, <2>1, <3>1
  <2>2. ASSUME NEW j \in DOMAIN b.simple, b.simple[j].from = a
        PROVE  d[L + 1].simple[j].nonce \in 1..t.nonce[a]
    BY <1>1, <1>3, <1>4, <1>5, <2>2
  <2> QED BY <1>6, <2>1, <2>2
<1>10. ASSUME NEW n \in 1..t.nonce[a]
       PROVE  \E i, j : At(d, a, i, j) /\ d[i].simple[j].nonce = n
  <2>1. CASE n \in 1..s.nonce[a]
    <3>1. PICK i, j : At(c, a, i, j) /\ c[i].simple[j].nonce = n
      BY <2>1 DEF Numbered
    <3>2. At(d, a, i, j) /\ d[i].simple[j].nonce = n
      <4>1. At(d, a, i, j)
        BY <1>6, <3>1
      <4>2. d[i] = c[i]
        BY <1>7, <3>1
      <4> QED BY <3>1, <4>1, <4>2
    <3> QED BY <3>2
  <2>2. CASE ~ (n \in 1..s.nonce[a])
    <3>1. n = s.nonce[a] + 1 /\ \E j \in DOMAIN b.simple : b.simple[j].from = a
      BY <1>4, <1>5, <2>2
    <3>2. PICK j \in DOMAIN b.simple : b.simple[j].from = a
      BY <3>1
    <3>3. At(d, a, L + 1, j) /\ d[L + 1].simple[j].nonce = n
      BY <1>1, <1>3, <1>6, <3>1, <3>2
    <3> QED BY <3>3
  <2> QED BY <2>1, <2>2
<1>11. ASSUME NEW i, NEW j, NEW k, NEW l, At(d, a, i, j), At(d, a, k, l),
              i < k \/ (i = k /\ j < l)
       PROVE  d[i].simple[j].nonce < d[k].simple[l].nonce
  <2>1. CASE At(c, a, i, j) /\ At(c, a, k, l)
    BY <1>7, <1>11, <2>1 DEF Numbered
  <2>2. CASE At(c, a, i, j) /\ ~ At(c, a, k, l)
    <3>1. k = L + 1 /\ l \in DOMAIN b.simple /\ b.simple[l].from = a
      BY <1>6, <1>11, <2>2
    <3>2. d[k].simple[l].nonce = s.nonce[a] + 1
      BY <1>1, <1>3, <3>1
    <3>3. d[i].simple[j].nonce \in 1..s.nonce[a]
      BY <1>7, <2>2 DEF Numbered
    <3> QED BY <1>5, <3>2, <3>3
  <2>3. CASE ~ At(c, a, i, j)
    <3>1. i = L + 1 /\ j \in DOMAIN b.simple /\ b.simple[j].from = a
      BY <1>6, <1>11, <2>3
    <3>2. k \in 1..(L + 1)
      BY <1>1, <1>11 DEF At
    <3>3. i = k /\ j < l
      BY <1>1, <1>11, <3>1, <3>2
    <3>4. l \in DOMAIN b.simple /\ b.simple[l].from = a
      BY <1>1, <1>11, <3>1, <3>3 DEF At
    <3>5. j = l
      BY <1>8, <3>1, <3>4
    <3> QED BY <1>2, <3>1, <3>3, <3>5
  <2> QED BY <2>1, <2>2, <2>3
<1> QED BY <1>9, <1>10, <1>11 DEF Numbered, d, t

(* A block makes a ledger of a ledger.                                     *)
LEMMA BlockIsApplied ==
  ASSUME NEW b, SoundBlock(b), NEW s \in LedgerState
  PROVE  ApplyBlock(s, b) \in LedgerState
<1>1. /\ b.simple \o b.system \in Seq(Tx) /\ b.proposer \in Address
      /\ \A i \in DOMAIN (b.simple \o b.system) : WellFormed((b.simple \o b.system)[i])
  BY AllTransactions DEF SoundBlock
<1> DEFINE all == b.simple \o b.system
           p == b.proposer
<1>2. ApplyBlock(s, b) = Applied(s, all, p)
  BY DEF ApplyBlock
<1> HIDE DEF all, p
<1>3. PICK f : TxRun(f, s, all, p) /\ Applied(s, all, p) = f[Len(all)]
  BY <1>1, AppliedRun DEF all, p
<1>4. Len(all) \in Nat
  <2>1. all \in Seq(Tx)
    BY <1>1 DEF all
  <2> QED BY <2>1
<1> QED BY <1>2, <1>3, <1>4 DEF TxRun

(* A block keeps ledgers alike.                                            *)
LEMMA BlockKeepsAlike ==
  ASSUME NEW b, SoundBlock(b), NEW s \in LedgerState, NEW t \in LedgerState, NEW g, Alike(s, t, g)
  PROVE  Alike(ApplyBlock(s, b), ApplyBlock(t, b), g)
<1>1. /\ b.simple \o b.system \in Seq(Tx) /\ b.proposer \in Address
      /\ \A i \in DOMAIN (b.simple \o b.system) : WellFormed((b.simple \o b.system)[i])
  BY AllTransactions DEF SoundBlock
<1> DEFINE all == b.simple \o b.system
           p == b.proposer
<1>2. ApplyBlock(s, b) = Applied(s, all, p) /\ ApplyBlock(t, b) = Applied(t, all, p)
  BY DEF ApplyBlock
<1> HIDE DEF all, p
<1>3. Alike(Applied(s, all, p), Applied(t, all, p), g)
  BY <1>1, AppliedAlike DEF all, p
<1> QED BY <1>2, <1>3

(* The ledger before the genesis block.                                    *)
LEMMA EmptyLedgerType == EmptyLedger \in LedgerState
BY DEF EmptyLedger, LedgerState

(* The genesis block is one that the services build.                       *)
LEMMA GenesisIsSound == SoundBlock(GenesisBlock)
<1>1. /\ GenesisTxs \in Seq(Tx) /\ GenesisAdmits \in Seq(Tx) /\ Genesis \in Address
      /\ \A i \in DOMAIN GenesisTxs :
           WellFormed(GenesisTxs[i]) /\ GenesisTxs[i].type \in SimpleType
      /\ \A i \in DOMAIN GenesisAdmits :
           /\ WellFormed(GenesisAdmits[i]) /\ GenesisAdmits[i].type \in SystemType
           /\ SoundAmount(GenesisAdmits[i])
  BY GenesisAssumption, LedgerAssumption DEF SystemType, SoundAmount
<1> QED BY <1>1 DEF SoundBlock, GenesisBlock

(* The books of the genesis block.                                         *)
LEMMA BooksOfGenesis ==
  Books(<<GenesisBlock>>, ApplyBlock(EmptyLedger, GenesisBlock), {})
<1> DEFINE b == GenesisBlock
           c == <<b>>
           s == ApplyBlock(EmptyLedger, b)
           f == [i \in 0..1 |-> IF i = 0 THEN EmptyLedger ELSE s]
<1>1. s \in LedgerState
  BY BlockIsApplied, GenesisIsSound, EmptyLedgerType
<1>2. Solvent(c, s) /\ InOrder(c, s)
  <2>1. s = GenesisLedger
    BY DEF GenesisLedger
  <2>2. InOrder(c, s)
    BY <2>1, GenesisAssumption
  <2> HIDE DEF s
  <2> QED BY <2>1, <2>2 DEF Solvent
<1> HIDE DEF b, s
<1>3. Len(c) = 1 /\ c[1] = b
  OBVIOUS
<1>4. f \in [0..1 -> LedgerState] /\ f[0] = EmptyLedger /\ f[1] = s
  BY <1>1, EmptyLedgerType
<1>5. History(c, f)
  <2>1. \A i \in 1..1 : i = 1 /\ i - 1 = 0
    OBVIOUS
  <2>2. s = ApplyBlock(EmptyLedger, b)
    BY DEF s
  <2> HIDE DEF f, c
  <2> QED BY <1>3, <1>4, <2>1, <2>2 DEF History
<1>6. Alike(s, f[Len(c)], {})
  <2>1. \A a \in Address : s.balance[a] = s.balance[a] + 0
    BY <1>1 DEF LedgerState
  <2>2. Alike(s, s, {})
    BY <2>1 DEF Alike
  <2> HIDE DEF f, c
  <2> QED BY <1>3, <1>4, <2>2
<1>7. Fits(c, f, {})
  <2>1. 2..1 = {}
    OBVIOUS
  <2> QED BY <1>3, <2>1 DEF Fits
<1> HIDE DEF c, f
<1>8. Books(c, s, {})
  BY <1>1, <1>2, <1>5, <1>6, <1>7 DEF Books
<1> QED BY <1>8 DEF c, b, s

(* A valid block brings nobody into debt by what is checked.               *)
LEMMA SolventGrows ==
  ASSUME NEW B, NEW c \in Seq(B), NEW s \in LedgerState, Solvent(c, s),
         NEW b, SoundBlock(b), OneEach(b), ValidTxs(s, b.simple)
  PROVE  Solvent(Append(c, b), ApplyBlock(s, b))
<1> DEFINE d == Append(c, b)
           t == ApplyBlock(s, b)
           L == Len(c)
           N == Len(b.simple \o b.system)
<1> SUFFICES ASSUME NEW a \in Address, ~ InDebt(GenesisLedger, a), ~ Unchecked(d, a)
             PROVE  ~ InDebt(t, a)
  BY DEF Solvent
<1>1. /\ L \in Nat /\ DOMAIN c = 1..L /\ DOMAIN d = 1..(L + 1)
      /\ d[L + 1] = b /\ \A i \in 1..L : d[i] = c[i]
  <2>1. c \in Seq(B \cup {b})
    OBVIOUS
  <2> QED BY <2>1
<1>2. Account(s, t, b, a, N) /\ t \in LedgerState
  BY BlockKeepsBooks
<1> HIDE DEF d, t, L, N
<1>3. ~ Unchecked(c, a)
  <2>1. \A i \in DOMAIN c : i \in DOMAIN d /\ d[i] = c[i]
    BY <1>1
  <2> QED BY <2>1 DEF Unchecked
<1>4. ~ ExcusedBy(b, a)
  <2>1. L + 1 \in DOMAIN d /\ d[L + 1] = b
    BY <1>1
  <2> QED BY <2>1 DEF ExcusedBy, Unchecked
<1>5. ~ DrainedBy(b, a)
  BY <1>4 DEF DrainedBy, Drains, ExcusedBy, Excuses
<1>6. ~ InDebt(s, a)
  BY <1>3 DEF Solvent
<1>7. /\ s.balance[a] \in Int /\ t.balance[a] \in Int
      /\ s.stake[a] \in Int /\ t.stake[a] \in Int
  BY <1>2 DEF LedgerState
<1>8. t.stake[a] >= 0
  BY <1>2, <1>5, <1>6, <1>7 DEF Account, InDebt
<1>9. t.balance[a] >= 0
  BY <1>2, <1>4, <1>6, <1>7 DEF Account, InDebt
<1> QED BY <1>7, <1>8, <1>9 DEF InDebt

(* What is affordable with a faucet's gift is affordable without it, but   *)
(* for the accounts that got it.                                           *)
LEMMA AffordableAlike ==
  ASSUME NEW s \in LedgerState, NEW t \in LedgerState, NEW g, Alike(s, t, g),
         NEW tx, WellFormed(tx)
  PROVE  (tx.from \notin g) => (Affordable(s, tx) <=> Affordable(t, tx))
<1> SUFFICES ASSUME tx.from \notin g PROVE Affordable(s, tx) <=> Affordable(t, tx)
  OBVIOUS
<1>1. tx.from \in Address
  BY TypesOfTx
<1>2. t.balance[tx.from] \in Int
  BY <1>1 DEF LedgerState
<1>3. s.balance[tx.from] = t.balance[tx.from] /\ s.stake = t.stake
  BY <1>1, <1>2 DEF Alike
<1> QED BY <1>3 DEF Affordable

(* A chain that takes a valid block keeps its books.                       *)
LEMMA BooksGrow ==
  ASSUME NEW B, NEW c \in Seq(B), NEW s, NEW g, Books(c, s, g),
         NEW b, SoundBlock(b), OneEach(b), ValidTxs(s, b.simple)
  PROVE  Books(Append(c, b), ApplyBlock(s, b), g)
<1> DEFINE d == Append(c, b)
           t == ApplyBlock(s, b)
           L == Len(c)
<1>1. s \in LedgerState /\ Solvent(c, s) /\ InOrder(c, s)
  BY DEF Books
<1>2. PICK f : History(c, f) /\ Alike(s, f[L], g) /\ Fits(c, f, g)
  BY DEF Books
<1>3. /\ L \in Nat /\ DOMAIN c = 1..L /\ DOMAIN d = 1..(L + 1) /\ Len(d) = L + 1
      /\ d[L + 1] = b /\ \A i \in 1..L : d[i] = c[i]
  <2>1. c \in Seq(B \cup {b})
    OBVIOUS
  <2> QED BY <2>1
<1>4. t \in LedgerState
  BY <1>1, BlockIsApplied
<1>5. Solvent(d, t)
  BY <1>1, SolventGrows
<1>6. InOrder(d, t)
  <2>1. \A a \in Address \ {Genesis} : Numbered(c, s, a)
    BY <1>1, InOrderAt
  <2>2. \A a \in Address \ {Genesis} : Numbered(d, t, a)
    BY <1>1, <2>1, NumberedGrows
  <2> HIDE DEF d, t
  <2> QED BY <2>2, InOrderAt
<1> DEFINE h == [i \in 0..(L + 1) |-> IF i = L + 1 THEN ApplyBlock(f[L], b) ELSE f[i]]
<1> HIDE DEF d, L
<1>7. f \in [0..L -> LedgerState] /\ f[L] \in LedgerState /\ ApplyBlock(f[L], b) \in LedgerState
  <2>1. f \in [0..L -> LedgerState]
    BY <1>2 DEF History, L
  <2>2. f[L] \in LedgerState
    BY <1>3, <2>1
  <2> QED BY <2>1, <2>2, BlockIsApplied
<1>8. /\ h \in [0..(L + 1) -> LedgerState] /\ h[L + 1] = ApplyBlock(f[L], b)
      /\ \A i \in 0..L : h[i] = f[i]
  <2>1. \A i \in 0..(L + 1) : i = L + 1 \/ i \in 0..L
    BY <1>3
  <2>2. \A i \in 0..L : i # L + 1 /\ i \in 0..(L + 1)
    BY <1>3
  <2>3. L + 1 \in 0..(L + 1)
    BY <1>3
  <2> QED BY <1>7, <2>1, <2>2, <2>3
<1> HIDE DEF h, t
<1>9. History(d, h)
  <2>1. h[0] = EmptyLedger
    <3>1. 0 \in 0..L /\ f[0] = EmptyLedger
      BY <1>2, <1>3 DEF History
    <3> QED BY <1>8, <3>1
  <2>2. ASSUME NEW i \in 1..(L + 1) PROVE h[i] = ApplyBlock(h[i - 1], d[i])
    <3>1. CASE i \in 1..L
      <4>1. f[i] = ApplyBlock(f[i - 1], c[i])
        BY <1>2, <3>1 DEF History, L
      <4>2. i \in 0..L /\ i - 1 \in 0..L /\ d[i] = c[i]
        BY <1>3, <3>1
      <4> QED BY <1>8, <4>1, <4>2
    <3>2. CASE i = L + 1
      <4>1. i - 1 = L /\ L \in 0..L
        BY <1>3, <3>2
      <4> QED BY <1>3, <1>8, <3>2, <4>1
    <3> QED BY <1>3, <3>1, <3>2
  <2> QED BY <1>3, <1>8, <2>1, <2>2 DEF History
<1>10. Alike(t, h[Len(d)], g)
  <2>1. Alike(ApplyBlock(s, b), ApplyBlock(f[L], b), g)
    BY <1>1, <1>2, <1>7, BlockKeepsAlike DEF L
  <2> QED BY <1>3, <1>8, <2>1 DEF t
<1>11. Fits(d, h, g)
  <2> SUFFICES ASSUME NEW k \in 2..(L + 1), NEW j \in DOMAIN d[k].simple
               PROVE  /\ d[k].simple[j].nonce = h[k - 1].nonce[d[k].simple[j].from] + 1
                      /\ Affordable(h[k - 1], d[k].simple[j]) \/ d[k].simple[j].from \in g
    BY <1>3 DEF Fits
  <2>1. CASE k \in 2..L
    <3>1. d[k] = c[k] /\ h[k - 1] = f[k - 1]
      BY <1>3, <1>8, <2>1
    <3> QED BY <1>2, <2>1, <3>1 DEF Fits, L
  <2>2. CASE k = L + 1
    <3> DEFINE tx == b.simple[j]
    <3>1. d[k] = b /\ k - 1 = L /\ L \in 0..L
      BY <1>3, <2>2
    <3>2. h[k - 1] = f[L] /\ j \in DOMAIN b.simple
      BY <1>8, <3>1
    <3>3. tx.nonce = s.nonce[tx.from] + 1 /\ Affordable(s, tx)
      BY <1>1, <3>2, NextNonceOfBlock
    <3>4. s.nonce = f[L].nonce
      BY <1>2 DEF Alike
    <3>5. WellFormed(tx)
      BY <3>2 DEF SoundBlock
    <3> HIDE DEF tx
    <3>6. tx.from \notin g => (Affordable(s, tx) <=> Affordable(f[L], tx))
      BY <1>1, <1>2, <1>7, <3>5, AffordableAlike
    <3> QED BY <3>1, <3>2, <3>3, <3>4, <3>6 DEF tx
  <2> QED BY <1>3, <2>1, <2>2
<1>12. Books(d, t, g)
  BY <1>4, <1>5, <1>6, <1>9, <1>10, <1>11 DEF Books
<1> QED BY <1>12 DEF d, t

(* Reputations are not in the books.                                       *)
LEMMA BooksOfReputation ==
  ASSUME NEW c, NEW s, NEW g, Books(c, s, g), NEW r \in [Address -> Nat]
  PROVE  Books(c, [s EXCEPT !.rep = r], g)
<1> DEFINE t == [s EXCEPT !.rep = r]
<1>1. s \in LedgerState /\ Solvent(c, s) /\ InOrder(c, s)
  BY DEF Books
<1>2. /\ t \in LedgerState /\ t.balance = s.balance /\ t.stake = s.stake
      /\ t.nonce = s.nonce /\ t.node = s.node /\ t.pom = s.pom
  BY <1>1 DEF LedgerState
<1> HIDE DEF t
<1>3. Solvent(c, t)
  BY <1>1, <1>2 DEF Solvent, InDebt
<1>4. InOrder(c, t)
  BY <1>1, <1>2, InOrderAt DEF Numbered
<1>5. PICK f : History(c, f) /\ Alike(s, f[Len(c)], g) /\ Fits(c, f, g)
  BY DEF Books
<1>6. Alike(t, f[Len(c)], g)
  BY <1>2, <1>5 DEF Alike
<1>7. Books(c, t, g)
  BY <1>2, <1>3, <1>4, <1>5, <1>6 DEF Books
<1> QED BY <1>7 DEF t

(* A faucet gives once to an account, and the books say so.                *)
LEMMA BooksOfFaucet ==
  ASSUME NEW B, NEW c \in Seq(B), NEW s, NEW g, Books(c, s, g), NEW a \in Address \ g
  PROVE  Books(c, [s EXCEPT !.balance[a] = @ + FaucetAmount], g \cup {a})
<1> DEFINE t == [s EXCEPT !.balance[a] = @ + FaucetAmount]
           g2 == g \cup {a}
<1>0. FaucetAmount \in Nat
  BY ServiceAssumption
<1>1. s \in LedgerState /\ Solvent(c, s) /\ InOrder(c, s)
  BY DEF Books
<1>2. /\ t \in LedgerState /\ t.balance = [s.balance EXCEPT ![a] = @ + FaucetAmount]
      /\ t.stake = s.stake /\ t.nonce = s.nonce /\ t.node = s.node /\ t.pom = s.pom
  <2> DEFINE b == [s.balance EXCEPT ![a] = @ + FaucetAmount]
  <2>1. b \in [Address -> Int]
    BY <1>0, <1>1 DEF LedgerState
  <2>2. t = [s EXCEPT !.balance = b]
    BY <1>1 DEF LedgerState
  <2> HIDE DEF b, t
  <2>3. /\ [s EXCEPT !.balance = b] \in LedgerState /\ [s EXCEPT !.balance = b].balance = b
        /\ [s EXCEPT !.balance = b].stake = s.stake /\ [s EXCEPT !.balance = b].nonce = s.nonce
        /\ [s EXCEPT !.balance = b].node = s.node /\ [s EXCEPT !.balance = b].pom = s.pom
    BY <1>1, <2>1 DEF LedgerState
  <2> QED BY <2>2, <2>3 DEF b
<1>3. \A x \in Address : s.balance[x] \in Int
  BY <1>1 DEF LedgerState
<1>4. \A x \in Address : t.balance[x] = s.balance[x] + IF x = a THEN FaucetAmount ELSE 0
  <2>1. s.balance \in [Address -> Int]
    BY <1>1 DEF LedgerState
  <2> HIDE DEF t
  <2> QED BY <1>0, <1>2, <1>3, <2>1
<1> HIDE DEF t
<1>5. Solvent(c, t)
  <2>1. \A x \in Address : t.balance[x] < 0 => s.balance[x] < 0
    BY <1>0, <1>3, <1>4
  <2> QED BY <1>1, <1>2, <2>1 DEF Solvent, InDebt
<1>6. InOrder(c, t)
  BY <1>1, <1>2, InOrderAt DEF Numbered
<1>7. PICK f : History(c, f) /\ Alike(s, f[Len(c)], g) /\ Fits(c, f, g)
  BY DEF Books
<1>8. Alike(t, f[Len(c)], g2)
  <2> DEFINE e == f[Len(c)]
  <2>1. e \in LedgerState
    <3>1. Len(c) \in Nat /\ f \in [0..Len(c) -> LedgerState]
      BY <1>7 DEF History
    <3> QED BY <3>1
  <2>2. Alike(s, e, g) /\ \A x \in Address : e.balance[x] \in Int
    BY <1>7, <2>1 DEF LedgerState
  <2> HIDE DEF e
  <2>3. ASSUME NEW x \in Address
        PROVE  t.balance[x] = e.balance[x] + IF x \in g2 THEN FaucetAmount ELSE 0
    <3>1. s.balance[x] = e.balance[x] + IF x \in g THEN FaucetAmount ELSE 0
      BY <2>2 DEF Alike
    <3>2. t.balance[x] = s.balance[x] + IF x = a THEN FaucetAmount ELSE 0
      BY <1>4
    <3>3. a \notin g
      OBVIOUS
    <3>4. CASE x = a
      BY <1>0, <2>2, <3>1, <3>2, <3>3, <3>4
    <3>5. CASE x # a
      BY <1>0, <2>2, <3>1, <3>2, <3>5
    <3> QED BY <3>4, <3>5
  <2> HIDE DEF g2
  <2>4. Alike(t, e, g2)
    BY <1>2, <2>2, <2>3 DEF Alike
  <2> QED BY <2>4 DEF e
<1>9. Fits(c, f, g2)
  BY <1>7 DEF Fits
<1>10. Books(c, t, g2)
  BY <1>2, <1>5, <1>6, <1>7, <1>8, <1>9 DEF Books
<1> QED BY <1>10 DEF t

-----------------------------------------------------------------------------
(* A node. Its chain, mempool and file, and the blocks sealed.             *)

(* Block b rewards nobody with more than its round may mint.               *)
MintsRight(b) == SumOf(b, "REWARD") <= MintedFor(b)

(* The blocks M ever sealed.                                               *)
Sealed(M) ==
  /\ IsFiniteSet(M) /\ Cardinality(M) <= MaxBlocks
  /\ \A b \in M : /\ SoundBlock(b) /\ OneEach(b) /\ MintsRight(b)
                  /\ b.id \in 1..Cardinality(M) /\ b.height \in 1..b.id
  /\ \A b, d \in M : b.id = d.id => b = d

(* Chain c begins with the genesis block and goes on with blocks of M.     *)
Linked(c, M) ==
  /\ c \in Seq(M \cup {GenesisBlock}) /\ Len(c) >= 1 /\ c[1] = GenesisBlock
  /\ \A i \in 2..Len(c) : c[i] \in M /\ c[i].prev = c[i - 1].id
  /\ \A i \in 1..Len(c) : c[i].height = i - 1

(* The mempool q of a node with chain c and ledger s.                      *)
PoolOK(q, c, s) ==
  /\ q \in Seq(Tx)
  /\ \A i \in DOMAIN q :
       /\ WellFormed(q[i]) /\ q[i].type \in SimpleType /\ q[i].from # Genesis
       /\ q[i].nonce <= s.nonce[q[i].from] + 1
       /\ \A j \in DOMAIN c : q[i] \notin Range(c[j].simple)

(* The rows of a node's file.                                              *)
RowsOK(rows, M) ==
  /\ 0 \in DOMAIN rows /\ rows[0] = GenesisBlock
  /\ DOMAIN rows \subseteq 0..MaxBlocks
  /\ \A h \in DOMAIN rows \ {0} : rows[h] \in M

(* Node with chain c, ledger s, mempool q and file rows, that gave to g.   *)
NodeOK(c, s, q, rows, g, M) ==
  /\ Linked(c, M) /\ Books(c, s, g) /\ PoolOK(q, c, s) /\ RowsOK(rows, M)

(* A block sealed elsewhere does not matter to a node.                     *)
LEMMA MoreSealed ==
  ASSUME NEW c, NEW s, NEW q, NEW rows, NEW g, NEW M, NodeOK(c, s, q, rows, g, M),
         NEW M2, M \subseteq M2
  PROVE  NodeOK(c, s, q, rows, g, M2)
<1>1. Linked(c, M) /\ RowsOK(rows, M)
  BY DEF NodeOK
<1>2. Linked(c, M2)
  <2> DEFINE S == M \cup {GenesisBlock}
             T == M2 \cup {GenesisBlock}
  <2>1. S \subseteq T /\ c \in Seq(S)
    BY <1>1 DEF Linked
  <2> HIDE DEF S, T
  <2>2. c \in Seq(T)
    BY <2>1
  <2> QED BY <1>1, <2>2 DEF Linked, T
<1>3. RowsOK(rows, M2)
  BY <1>1 DEF RowsOK
<1> QED BY <1>2, <1>3 DEF NodeOK

(* One more block on a chain.                                              *)
LEMMA LinkedGrows ==
  ASSUME NEW M, Sealed(M), NEW c, Linked(c, M), NEW s, NEW b \in M, ValidBlock(c, s, b)
  PROVE  Linked(Append(c, b), M)
<1> DEFINE S == M \cup {GenesisBlock}
           d == Append(c, b)
           L == Len(c)
<1>1. c \in Seq(S) /\ b \in S /\ L >= 1
  BY DEF Linked
<1>2. \A i \in 1..L : c[i].height = i - 1
  BY DEF Linked
<1>3. b.prev = c[L].id /\ b.height = c[L].height + 1
  BY DEF ValidBlock, Tip
<1>4. /\ c[1] = GenesisBlock
      /\ \A i \in 2..L : c[i] \in M /\ c[i].prev = c[i - 1].id
  BY DEF Linked
<1> HIDE DEF S
<1>5. /\ L \in Nat /\ DOMAIN d = 1..(L + 1) /\ Len(d) = L + 1 /\ d \in Seq(S)
      /\ d[L + 1] = b /\ \A i \in 1..L : d[i] = c[i]
  BY <1>1
<1> HIDE DEF d, L
<1>6. b.height = L
  BY <1>1, <1>2, <1>3, <1>5
<1>7. \A i \in 1..(L + 1) : d[i].height = i - 1
  <2>1. \A i \in 1..(L + 1) : i \in 1..L \/ i = L + 1
    BY <1>5
  <2> QED BY <1>2, <1>5, <1>6, <2>1
<1>8. \A i \in 2..(L + 1) : d[i] \in M /\ d[i].prev = d[i - 1].id
  <2>1. ASSUME NEW i \in 2..L PROVE d[i] \in M /\ d[i].prev = d[i - 1].id
    <3>1. i \in 1..L /\ i - 1 \in 1..L
      BY <1>5
    <3> QED BY <1>4, <1>5, <3>1
  <2>2. d[L + 1] \in M /\ d[L + 1].prev = d[(L + 1) - 1].id
    <3>1. (L + 1) - 1 = L /\ L \in 1..L
      BY <1>1, <1>5
    <3> QED BY <1>3, <1>5, <3>1
  <2>3. \A i \in 2..(L + 1) : i \in 2..L \/ i = L + 1
    BY <1>5
  <2> QED BY <2>1, <2>2, <2>3
<1>9. d[1] = GenesisBlock /\ Len(d) >= 1
  BY <1>1, <1>4, <1>5
<1>10. Linked(d, M)
  BY <1>5, <1>7, <1>8, <1>9 DEF Linked, S
<1> QED BY <1>10 DEF d

(* A transaction on a chain has a nonce that the ledger has passed.        *)
LEMMA UsedNonces ==
  ASSUME NEW c, NEW s, NEW g, Books(c, s, g), NEW j \in DOMAIN c,
         NEW tx \in Range(c[j].simple), tx.from \in Address \ {Genesis}
  PROVE  tx.nonce <= s.nonce[tx.from]
<1>1. InOrder(c, s) /\ s \in LedgerState
  BY DEF Books
<1>2. Numbered(c, s, tx.from)
  BY <1>1, InOrderAt
<1>3. PICK k \in DOMAIN c[j].simple : c[j].simple[k] = tx
  BY DEF Range
<1>4. At(c, tx.from, j, k)
  BY <1>3 DEF At
<1>5. tx.nonce \in 1..s.nonce[tx.from]
  BY <1>2, <1>3, <1>4 DEF Numbered
<1>6. s.nonce[tx.from] \in Nat
  BY <1>1 DEF LedgerState
<1> QED BY <1>5, <1>6

(* What is left of the mempool when a block is taken.                      *)
LEMMA PoolShrinks ==
  ASSUME NEW B, NEW c \in Seq(B), NEW s \in LedgerState, NEW q, PoolOK(q, c, s),
         NEW b, SoundBlock(b), OneEach(b), ValidTxs(s, b.simple), NEW r \in [Address -> Nat]
  PROVE  PoolOK(LeftInPool(q, b), Append(c, b), [ApplyBlock(s, b) EXCEPT !.rep = r])
<1> DEFINE d == Append(c, b)
           t == ApplyBlock(s, b)
           u == [t EXCEPT !.rep = r]
           L == Len(c)
           w == LeftInPool(q, b)
           R == Range(b.simple)
<1>1. /\ L \in Nat /\ DOMAIN c = 1..L /\ DOMAIN d = 1..(L + 1)
      /\ d[L + 1] = b /\ \A i \in 1..L : d[i] = c[i]
  <2>1. c \in Seq(B \cup {b})
    OBVIOUS
  <2> QED BY <2>1
<1>2. t \in LedgerState /\ \A a \in Address : Account(s, t, b, a, Len(b.simple \o b.system))
  BY BlockKeepsBooks
<1>3. u.nonce = t.nonce
  BY <1>2 DEF LedgerState
<1>4. \A a \in Address : s.nonce[a] \in Nat /\ u.nonce[a] >= s.nonce[a]
  <2>1. \A a \in Address : s.nonce[a] \in Nat /\ (t.nonce[a] = s.nonce[a] \/ t.nonce[a] = s.nonce[a] + 1)
    BY <1>2 DEF Account, LedgerState
  <2> HIDE DEF t, u
  <2> QED BY <1>3, <2>1
<1>5. q \in Seq(Tx)
  BY DEF PoolOK
<1>6. /\ w \in Seq(Tx)
      /\ \A i \in DOMAIN w : \E j \in DOMAIN q : w[i] = q[j] /\ q[j] \notin R
  <2> HIDE DEF R
  <2>1. w = Without(q, R)
    BY DEF LeftInPool, R
  <2>2. /\ Without(q, R) \in Seq(Tx)
        /\ \A i \in DOMAIN Without(q, R) : \E j \in DOMAIN q : Without(q, R)[i] = q[j] /\ q[j] \notin R
    BY <1>5, WithoutKeeps
  <2> HIDE DEF w
  <2> QED BY <2>1, <2>2
<1> HIDE DEF d, t, u, L, w
<1>7. ASSUME NEW i \in DOMAIN w
      PROVE  /\ WellFormed(w[i]) /\ w[i].type \in SimpleType /\ w[i].from # Genesis
             /\ w[i].nonce <= u.nonce[w[i].from] + 1
             /\ \A j \in DOMAIN d : w[i] \notin Range(d[j].simple)
  <2>1. PICK k \in DOMAIN q : w[i] = q[k] /\ q[k] \notin R
    BY <1>6
  <2> DEFINE tx == q[k]
  <2>2. /\ WellFormed(tx) /\ tx.type \in SimpleType /\ tx.from # Genesis
        /\ tx.nonce <= s.nonce[tx.from] + 1
        /\ \A j \in DOMAIN c : tx \notin Range(c[j].simple)
    BY DEF PoolOK
  <2>3. tx.from \in Address /\ tx.nonce \in Nat
    BY <2>2, TypesOfTx
  <2>4. w[i] = tx /\ tx \notin R
    BY <2>1
  <2> HIDE DEF tx
  <2>5. tx.nonce <= u.nonce[tx.from] + 1
    <3>1. u.nonce[tx.from] \in Nat
      BY <1>2, <1>3, <2>3 DEF LedgerState
    <3>2. s.nonce[tx.from] \in Nat /\ u.nonce[tx.from] >= s.nonce[tx.from]
      BY <1>4, <2>3
    <3> QED BY <2>2, <2>3, <3>1, <3>2
  <2>6. ASSUME NEW j \in DOMAIN d PROVE tx \notin Range(d[j].simple)
    <3>1. CASE j \in 1..L
      BY <1>1, <2>2, <3>1
    <3>2. CASE j = L + 1
      BY <1>1, <2>4, <3>2
    <3> QED BY <1>1, <3>1, <3>2
  <2> QED BY <2>2, <2>4, <2>5, <2>6
<1>8. PoolOK(w, d, u)
  BY <1>6, <1>7 DEF PoolOK
<1> QED BY <1>8 DEF w, d, u, t

(* The row of a block that a chain takes.                                  *)
LEMMA RowsGrow ==
  ASSUME NEW M, Sealed(M), NEW rows, RowsOK(rows, M), NEW b \in M
  PROVE  RowsOK(Saved(rows, b), M)
<1>1. /\ b.height \in 1..b.id /\ b.id \in 1..Cardinality(M) /\ Cardinality(M) \in Nat
      /\ Cardinality(M) <= MaxBlocks /\ MaxBlocks \in Nat
  BY FS_CardinalityType, ServiceAssumption DEF Sealed
<1>2. b.height \in 0..MaxBlocks /\ b.height # 0
  BY <1>1
<1> QED BY <1>2 DEF RowsOK, Saved

(* A node that takes a block is as sound as it was.                        *)
LEMMA TakeKeeps ==
  ASSUME NEW M, Sealed(M), NEW c, NEW s, NEW q, NEW rows, NEW g, NodeOK(c, s, q, rows, g, M),
         NEW b \in M, ValidBlock(c, s, b), NEW r \in [Address -> Nat],
         NEW rows2, rows2 = rows \/ rows2 = Saved(rows, b)
  PROVE  NodeOK(Append(c, b), [ApplyBlock(s, b) EXCEPT !.rep = r], LeftInPool(q, b), rows2, g, M)
<1> DEFINE S == M \cup {GenesisBlock}
<1>1. Linked(c, M) /\ Books(c, s, g) /\ PoolOK(q, c, s) /\ RowsOK(rows, M)
  BY DEF NodeOK
<1>2. SoundBlock(b) /\ OneEach(b) /\ ValidTxs(s, b.simple)
  BY DEF Sealed, ValidBlock
<1>3. c \in Seq(S) /\ s \in LedgerState
  BY <1>1 DEF Linked, Books
<1> HIDE DEF S
<1>4. Linked(Append(c, b), M)
  BY <1>1, LinkedGrows
<1>5. Books(Append(c, b), ApplyBlock(s, b), g)
  BY <1>1, <1>2, <1>3, BooksGrow
<1>6. Books(Append(c, b), [ApplyBlock(s, b) EXCEPT !.rep = r], g)
  BY <1>5, BooksOfReputation
<1>7. PoolOK(LeftInPool(q, b), Append(c, b), [ApplyBlock(s, b) EXCEPT !.rep = r])
  BY <1>1, <1>2, <1>3, PoolShrinks
<1>8. RowsOK(rows2, M)
  BY <1>1, RowsGrow
<1> QED BY <1>4, <1>6, <1>7, <1>8 DEF NodeOK

(* The values of a function on a finite set.                               *)
LEMMA FiniteImage ==
  ASSUME NEW S, IsFiniteSet(S), NEW h
  PROVE  IsFiniteSet({h[x] : x \in S})
<1> DEFINE T == {h[x] : x \in S}
           f == [x \in S |-> h[x]]
<1>1. f \in Surjection(S, T)
  BY DEF Surjection
<1> HIDE DEF f, T
<1>2. IsFiniteSet(T)
  BY <1>1, FS_Surjection
<1> QED BY <1>2 DEF T

(* A sequence of the elements of a finite set.                             *)
LEMMA SetAsSequence ==
  ASSUME NEW S, IsFiniteSet(S)
  PROVE  SetToSeq(S) \in Seq(S) /\ IsInjective(SetToSeq(S))
<1> DEFINE n == Cardinality(S)
<1>1. n \in Nat /\ ExistsBijection(1..n, S)
  BY FS_CardinalityType
<1>2. \E f \in [1..n -> S] : IsInjective(f)
  BY <1>1 DEF ExistsBijection, Bijection, Injection
<1>3. SetToSeq(S) \in [1..n -> S] /\ IsInjective(SetToSeq(S))
  BY <1>2 DEF SetToSeq
<1> HIDE DEF n
<1> QED BY <1>1, <1>3

(* No two transactions of the sequence have the same sender.               *)
OnePerSender(txs) == \A i, j \in DOMAIN txs : txs[i].from = txs[j].from => i = j

(* A block may take from the mempool one transaction of each sender.       *)
LEMMA SelectionsAreSound ==
  ASSUME NEW c, NEW s \in LedgerState, NEW q, PoolOK(q, c, s), NEW max \in Nat,
         NEW txs \in Selections(q, s, max)
  PROVE  /\ txs \in Seq(Tx)
         /\ \A i \in DOMAIN txs :
              WellFormed(txs[i]) /\ txs[i].type \in SimpleType /\ txs[i].from # Genesis
         /\ OnePerSender(txs)
<1> DEFINE I == {j \in DOMAIN q : Candidate(q, s, j)}
           cand == {q[i] : i \in I}
           size == IF Cardinality(cand) < max THEN Cardinality(cand) ELSE max
<1>1. /\ q \in Seq(Tx)
      /\ \A i \in DOMAIN q :
           WellFormed(q[i]) /\ q[i].type \in SimpleType /\ q[i].from # Genesis
  BY DEF PoolOK
<1>2. Len(q) \in Nat /\ DOMAIN q = 1..Len(q)
  BY <1>1
<1>3. IsFiniteSet(I)
  <2>1. I \subseteq 1..Len(q)
    BY <1>2
  <2>2. IsFiniteSet(1..Len(q))
    BY <1>2, FS_Interval
  <2> HIDE DEF I
  <2> QED BY <2>1, <2>2, FS_Subset
<1>4. IsFiniteSet(cand)
  <2> HIDE DEF I
  <2> QED BY <1>3, FiniteImage
<1>5. Cardinality(cand) \in Nat
  <2> HIDE DEF cand
  <2> QED BY <1>4, FS_CardinalityType
<1>6. size \in Nat
  BY <1>5
<1>7. txs \in [1..size -> cand] /\ \A i, j \in 1..size : i < j => txs[i] # txs[j]
  <2>1. txs \in {x \in [1..size -> cand] :
                   /\ \A i, j \in 1..size : i < j => x[i] # x[j] /\ x[i].fee >= x[j].fee
                   /\ \A tx \in cand : \A i \in 1..size :
                        tx.fee > x[i].fee => \E j \in 1..size : x[j] = tx}
    BY DEF Selections
  <2> HIDE DEF size, cand
  <2> QED BY <2>1
<1>8. \A x \in cand : /\ x \in Tx /\ WellFormed(x) /\ x.type \in SimpleType /\ x.from # Genesis
                      /\ \E i \in I : x = q[i]
  BY <1>1, TypesOfTx
<1> HIDE DEF size, cand
<1>9. DOMAIN txs = 1..size /\ \A i \in 1..size : txs[i] \in cand
  BY <1>7
<1>10. txs \in Seq(Tx)
  <2>1. \A i \in 1..size : txs[i] \in Tx
    BY <1>8, <1>9
  <2>2. txs \in [1..size -> Tx]
    BY <1>7, <1>9, <2>1
  <2> QED BY <1>6, <2>2
<1>11. ASSUME NEW i \in DOMAIN txs, NEW j \in DOMAIN txs, txs[i].from = txs[j].from
       PROVE  i = j
  <2>1. PICK k \in I : txs[i] = q[k]
    BY <1>8, <1>9
  <2>2. PICK l \in I : txs[j] = q[l]
    BY <1>8, <1>9
  <2>3. Candidate(q, s, k) /\ Candidate(q, s, l) /\ k \in 1..Len(q) /\ l \in 1..Len(q)
    BY <1>2
  <2>4. q[k].from = q[l].from /\ q[k].nonce = q[l].nonce
    BY <1>11, <2>1, <2>2, <2>3 DEF Candidate
  <2>5. ~ (k < l) /\ ~ (l < k)
    <3>1. <<q[k].from, q[k].nonce>> = <<q[l].from, q[l].nonce>>
      BY <2>4
    <3>2. k < l => k \in 1..(l - 1)
      BY <1>2, <2>3
    <3>3. l < k => l \in 1..(k - 1)
      BY <1>2, <2>3
    <3> QED BY <2>3, <3>1, <3>2, <3>3 DEF Candidate
  <2>6. k = l
    BY <1>2, <2>3, <2>5
  <2>7. txs[i] = txs[j]
    BY <2>1, <2>2, <2>6
  <2> QED BY <1>6, <1>7, <1>9, <2>7
<1> QED BY <1>8, <1>9, <1>10, <1>11 DEF OnePerSender

(* The fees of the transactions of a block.                                *)
LEMMA FeesType ==
  ASSUME NEW txs \in Seq(Tx)
  PROVE  Fees(txs) \in Int
<1> DEFINE N == Len(txs)
           Def(f) == f = [i \in 0..N |-> IF i = 0 THEN 0 ELSE f[i - 1] + txs[i].fee]
           sum == CHOOSE f : Def(f)
<1>1. N \in Nat /\ \A i \in 1..N : txs[i].fee \in Int
  <2>1. N \in Nat /\ \A i \in 1..N : txs[i] \in Tx
    OBVIOUS
  <2> HIDE DEF N
  <2> QED BY <2>1 DEF Tx
<1>2. \E f \in [0..N -> Int] : Def(f)
  <2> DEFINE step == [i \in 1..N |-> [t \in Int |-> t + txs[i].fee]]
             zero == 0
  <2>1. step \in [1..N -> [Int -> Int]] /\ zero \in Int
    BY <1>1
  <2>2. PICK f : IsRun(f, N, Int, zero, step)
    <3> HIDE DEF step, N, zero
    <3> QED BY <1>1, <2>1, RecursionUpTo
  <2>3. f \in [0..N -> Int] /\ f[0] = 0 /\ \A i \in 1..N : f[i] = step[i][f[i - 1]]
    BY <2>2 DEF IsRun
  <2>4. \A i \in 1..N : f[i] = f[i - 1] + txs[i].fee
    <3>1. \A i \in 1..N : i - 1 \in 0..N
      BY <1>1
    <3>2. \A i \in 1..N : f[i - 1] \in Int
      BY <2>3, <3>1
    <3> QED BY <2>3, <3>2
  <2>5. Def(f)
    <3> DEFINE F == [i \in 0..N |-> IF i = 0 THEN 0 ELSE f[i - 1] + txs[i].fee]
    <3>1. \A i \in 0..N : i = 0 \/ i \in 1..N
      BY <1>1
    <3>2. \A i \in 0..N : f[i] = F[i]
      BY <2>3, <2>4, <3>1
    <3> QED BY <2>3, <3>2
  <2> HIDE DEF Def
  <2> QED BY <2>3, <2>5
<1>3. Def(sum)
  <2> HIDE DEF Def
  <2> QED BY <1>2
<1>4. Fees(txs) = sum[N]
  BY DEF Fees
<1>5. sum[0] = 0 /\ \A i \in 1..N : sum[i] = sum[i - 1] + txs[i].fee
  <2>1. \A i \in 1..N : i \in 0..N /\ i # 0
    BY <1>1
  <2>2. 0 \in 0..N
    BY <1>1
  <2> HIDE DEF sum
  <2> QED BY <1>3, <2>1, <2>2
<1> HIDE DEF sum, Def
<1> DEFINE P == {i \in 0..N : sum[i] \in Int}
<1>6. 0 \in P
  BY <1>1, <1>5
<1>7. ASSUME NEW i \in 0..(N - 1), i \in P PROVE i + 1 \in P
  <2>1. i + 1 \in 1..N /\ (i + 1) - 1 = i /\ i + 1 \in 0..N
    BY <1>1
  <2>2. sum[i + 1] = sum[i] + txs[i + 1].fee /\ txs[i + 1].fee \in Int /\ sum[i] \in Int
    BY <1>1, <1>5, <1>7, <2>1
  <2> QED BY <2>1, <2>2
<1>8. 0..N \subseteq P
  <2>1. \A i \in 0..(N - 1) : i \in P => i + 1 \in P
    BY <1>7
  <2> HIDE DEF P, N
  <2> QED BY <1>1, <1>6, <2>1, UpTo
<1>9. sum[N] \in Int
  BY <1>1, <1>8
<1> QED BY <1>4, <1>9

(* System transactions as the services build them.                         *)
SoundSystem(system) ==
  /\ system \in Seq(Tx)
  /\ \A i \in DOMAIN system : /\ WellFormed(system[i]) /\ system[i].type \in SystemType
                              /\ SoundAmount(system[i])

(* The rewards among the transactions z: who earned them, and that nobody  *)
(* earns two.                                                              *)
RewardsOf(z, primary, honest, fees) ==
  /\ \A i \in DOMAIN z : z[i].type = "REWARD" =>
       z[i].to \in honest /\ z[i].amount = Reward(z[i].to, primary, honest, fees)
  /\ \A i, j \in DOMAIN z :
       (z[i].type = "REWARD" /\ z[j].type = "REWARD" /\ z[i].to = z[j].to) => i = j

(* What a QoI round hands out.                                             *)
LEMMA RoundTxsAreSound ==
  ASSUME NEW primary, NEW honest \in SUBSET Address, honest # {},
         NEW others \in SUBSET Address, NEW fees \in Int
  PROVE  /\ SoundSystem(RoundTxs(primary, honest, others, fees))
         /\ RewardsOf(RoundTxs(primary, honest, others, fees), primary, honest, fees)
<1> DEFINE pay(a) == Reward(a, primary, honest, fees)
           earners == {a \in honest : pay(a) > 0}
           rw == [a \in earners |-> SystemTx("REWARD", Genesis, a, pay(a))]
           sl == [a \in others |-> SystemTx("SLASH", a, None, SlashPenalty)]
           R == {SystemTx("REWARD", Genesis, a, pay(a)) : a \in earners}
           S == {SystemTx("SLASH", a, None, SlashPenalty) : a \in others}
           Sys == {tx \in Tx : WellFormed(tx) /\ tx.type \in SystemType /\ SoundAmount(tx)}
<1>1. IsFiniteSet(earners) /\ IsFiniteSet(honest) /\ IsFiniteSet(others) /\ InferenceReward \in Nat
      /\ LeaderBonus \in Nat /\ SlashPenalty \in Nat /\ Genesis \in Address
  <2>1. earners \subseteq Address
    OBVIOUS
  <2> HIDE DEF earners
  <2> QED BY <2>1, FS_Subset, ServiceAssumption, LedgerAssumption
<1>2. R = {rw[a] : a \in earners} /\ S = {sl[a] : a \in others}
  <2> HIDE DEF earners, pay
  <2> QED OBVIOUS
<1>3. IsFiniteSet(R) /\ IsFiniteSet(S)
  <2> HIDE DEF rw, sl, earners
  <2>1. IsFiniteSet({rw[a] : a \in earners}) /\ IsFiniteSet({sl[a] : a \in others})
    BY <1>1, FiniteImage
  <2> HIDE DEF R, S
  <2> QED BY <1>2, <2>1
<1>4. ASSUME NEW a \in honest PROVE pay(a) \in Int
  <2> DEFINE n == Cardinality(honest)
             x == InferenceReward + fees
  <2>1. n \in Nat /\ n > 0
    <3>1. n \in Nat /\ n # 0
      BY <1>1, FS_CardinalityType, FS_EmptySet
    <3> HIDE DEF n
    <3> QED BY <3>1
  <2>2. x \in Int
    BY <1>1
  <2> HIDE DEF n, x
  <2>3. x \div n \in Int
    BY <2>1, <2>2
  <2> QED BY <1>1, <2>3 DEF Reward, n, x
<1>5. ASSUME NEW tx \in R
      PROVE  /\ tx \in Sys /\ tx.type = "REWARD" /\ tx.to \in honest /\ tx.amount = pay(tx.to)
             /\ tx = SystemTx("REWARD", Genesis, tx.to, pay(tx.to))
  <2>1. PICK a \in earners : tx = SystemTx("REWARD", Genesis, a, pay(a))
    OBVIOUS
  <2>2. a \in honest /\ a \in Address /\ pay(a) \in Int /\ pay(a) > 0
    BY <1>4
  <2>3. PICK x \in Int : x = pay(a) /\ x > 0
    BY <2>2
  <2>4. tx.type = "REWARD" /\ tx.to = a /\ tx.amount = pay(a)
    <3> HIDE DEF pay
    <3> QED BY <2>1 DEF SystemTx
  <2>5. SystemTx("REWARD", Genesis, a, x) \in Sys
    <3>1. SystemTx("REWARD", Genesis, a, x) \in Tx
      BY <1>1, <2>2, <2>3 DEF SystemTx, Tx, SystemType
    <3>2. WellFormed(SystemTx("REWARD", Genesis, a, x))
      BY <2>2, <3>1 DEF SystemTx, WellFormed
    <3>3. SoundAmount(SystemTx("REWARD", Genesis, a, x))
      BY <2>3 DEF SystemTx, SoundAmount
    <3>4. SystemTx("REWARD", Genesis, a, x).type \in SystemType
      BY DEF SystemTx, SystemType
    <3> QED BY <3>1, <3>2, <3>3, <3>4
  <2> HIDE DEF pay, Sys
  <2> QED BY <2>1, <2>2, <2>3, <2>4, <2>5
<1>6. ASSUME NEW tx \in S PROVE tx \in Sys /\ tx.type = "SLASH"
  <2>1. PICK a \in others : tx = SystemTx("SLASH", a, None, SlashPenalty)
    OBVIOUS
  <2>2. a \in Address
    OBVIOUS
  <2>3. SystemTx("SLASH", a, None, SlashPenalty) \in Tx
    BY <1>1, <2>2 DEF SystemTx, Tx, SystemType
  <2>4. WellFormed(SystemTx("SLASH", a, None, SlashPenalty))
    BY <2>3 DEF SystemTx, WellFormed
  <2>5. SoundAmount(SystemTx("SLASH", a, None, SlashPenalty))
    BY <1>1 DEF SystemTx, SoundAmount
  <2>6. tx.type = "SLASH" /\ tx.type \in SystemType
    BY <2>1 DEF SystemTx, SystemType
  <2> QED BY <2>1, <2>3, <2>4, <2>5, <2>6
<1> DEFINE x == SetToSeq(R)
           y == SetToSeq(S)
           z == RoundTxs(primary, honest, others, fees)
<1>7. z = x \o y
  BY DEF RoundTxs
<1> HIDE DEF R, S
<1>8. x \in Seq(R) /\ y \in Seq(S) /\ IsInjective(x)
  BY <1>3, SetAsSequence
<1> HIDE DEF x, y, z, Sys, pay
<1>9. /\ \A i \in DOMAIN x : x[i] \in R
      /\ \A i \in DOMAIN y : y[i] \in S
      /\ DOMAIN x = 1..Len(x) /\ DOMAIN y = 1..Len(y) /\ Len(x) \in Nat /\ Len(y) \in Nat
  BY <1>8
<1>10. /\ z \in Seq(R \cup S)
       /\ \A i \in DOMAIN z : \/ i \in DOMAIN x /\ z[i] = x[i]
                              \/ z[i] \in S
  <2>1. x \in Seq(R \cup S) /\ y \in Seq(R \cup S)
    BY <1>8
  <2>2. z \in Seq(R \cup S) /\ DOMAIN z = 1..(Len(x) + Len(y))
    BY <1>7, <2>1
  <2>3. ASSUME NEW i \in DOMAIN z
        PROVE  \/ i \in DOMAIN x /\ z[i] = x[i]
               \/ z[i] \in S
    <3>1. CASE i <= Len(x)
      BY <1>7, <1>9, <2>1, <2>2, <3>1
    <3>2. CASE i > Len(x)
      <4>1. i - Len(x) \in 1..Len(y)
        BY <1>9, <2>2, <3>2
      <4>2. z[i] = y[i - Len(x)]
        BY <1>7, <1>9, <2>1, <2>2, <3>2
      <4> QED BY <1>9, <4>1, <4>2
    <3> QED BY <1>9, <2>2, <3>1, <3>2
  <2> QED BY <2>2, <2>3
<1>11. \A i \in DOMAIN z : z[i] \in Sys
  BY <1>5, <1>6, <1>9, <1>10
<1>12. SoundSystem(z)
  <2>1. R \cup S \subseteq Tx
    BY <1>5, <1>6 DEF Sys
  <2>2. PICK T : T = R \cup S
    OBVIOUS
  <2>3. z \in Seq(T) /\ T \subseteq Tx
    BY <1>10, <2>1, <2>2
  <2>4. z \in Seq(Tx)
    BY <2>3
  <2> QED BY <1>11, <2>4 DEF SoundSystem, Sys
<1>13. \A i \in DOMAIN z : z[i].type = "REWARD" => i \in DOMAIN x /\ z[i] = x[i] /\ z[i] \in R
  <2>1. "REWARD" # "SLASH"
    OBVIOUS
  <2> QED BY <1>6, <1>9, <1>10, <2>1
<1>14. \A i \in DOMAIN z : z[i].type = "REWARD" => z[i].to \in honest /\ z[i].amount = pay(z[i].to)
  BY <1>5, <1>13
<1>15. ASSUME NEW i \in DOMAIN z, NEW j \in DOMAIN z,
              z[i].type = "REWARD", z[j].type = "REWARD", z[i].to = z[j].to
       PROVE  i = j
  <2>1. i \in DOMAIN x /\ j \in DOMAIN x /\ z[i] = x[i] /\ z[j] = x[j] /\ z[i] \in R /\ z[j] \in R
    BY <1>13, <1>15
  <2>2. /\ z[i] = SystemTx("REWARD", Genesis, z[i].to, pay(z[i].to))
        /\ z[j] = SystemTx("REWARD", Genesis, z[j].to, pay(z[j].to))
    BY <1>5, <2>1
  <2>3. x[i] = x[j]
    BY <1>15, <2>1, <2>2
  <2> QED BY <1>8, <2>1, <2>3 DEF IsInjective
<1>16. RewardsOf(z, primary, honest, fees)
  BY <1>14, <1>15 DEF RewardsOf, pay
<1> QED BY <1>12, <1>16 DEF z

(* The part of a pool x that m of its n shares are.                        *)
LEMMA ShareOfPool ==
  ASSUME NEW x \in Int, NEW n \in Nat, n > 0, NEW m \in Nat, m <= n
  PROVE  x \div n \in Int /\ (x \div n) * m <= NonNegative(x)
<1>1. PICK q \in Int : q = x \div n
  OBVIOUS
<1>2. q * n <= x
  BY <1>1
<1>3. CASE q < 0
  <2>1. q * m <= 0
    BY <1>3
  <2> QED BY <1>1, <2>1 DEF NonNegative
<1>4. CASE q >= 0
  <2>1. q * m <= q * n
    BY <1>4
  <2>2. q * m \in Int /\ q * n \in Int
    OBVIOUS
  <2> QED BY <1>1, <1>2, <2>1, <2>2 DEF NonNegative
<1> QED BY <1>1, <1>3, <1>4

(* The rewards of a QoI round are its pool at most, and the leader's bonus. *)
LEMMA RoundMints ==
  ASSUME NEW b, b.kind = "QOI", b.simple \in Seq(Tx), SoundSystem(b.system),
         \A i \in DOMAIN b.simple : b.simple[i].type \in SimpleType,
         NEW primary, NEW honest \in SUBSET Address, honest # {},
         RewardsOf(b.system, primary, honest, Fees(b.simple))
  PROVE  MintsRight(b)
<1>1. PICK v, w, txs, fees : /\ v = b.simple /\ w = b.system /\ txs = b.simple \o b.system
                             /\ fees = Fees(b.simple)
  OBVIOUS
<1>2. /\ v \in Seq(Tx) /\ w \in Seq(Tx) /\ txs = v \o w /\ fees \in Int
      /\ \A i \in DOMAIN v : v[i].type # "REWARD"
      /\ RewardsOf(w, primary, honest, fees)
  BY <1>1, FeesType DEF SoundSystem, SimpleType
<1> DEFINE D == 1..Len(txs)
           I == {i \in D : txs[i].type = "REWARD"}
           h == Mints(txs)
           x == InferenceReward + fees
           n == Cardinality(honest)
           q == x \div n
<1>3. /\ txs \in Seq(Tx) /\ DOMAIN txs = D /\ IsFiniteSet(D) /\ Len(txs) \in Nat
      /\ \A i \in D : txs[i] \in Tx
  <2>1. txs \in Seq(Tx)
    BY <1>2
  <2>2. Len(txs) \in Nat /\ DOMAIN txs = 1..Len(txs)
    BY <2>1
  <2> QED BY <2>1, <2>2, FS_Interval
<1>4. /\ x \in Int /\ n \in Nat /\ n > 0 /\ IsFiniteSet(honest) /\ LeaderBonus \in Nat
      /\ InferenceReward \in Nat
  <2>1. IsFiniteSet(honest) /\ InferenceReward \in Nat /\ LeaderBonus \in Nat
    BY FS_Subset, ServiceAssumption
  <2>2. n \in Nat /\ n # 0
    BY <2>1, FS_CardinalityType, FS_EmptySet
  <2> HIDE DEF n
  <2> QED BY <1>2, <2>1, <2>2
<1>5. \A i \in I : i - Len(v) \in DOMAIN w /\ txs[i] = w[i - Len(v)] /\ i \in Nat /\ Len(v) \in Nat
  <2>1. /\ Len(v) \in Nat /\ DOMAIN w = 1..Len(w) /\ DOMAIN txs = 1..Len(txs)
        /\ \A i \in 1..Len(v) : txs[i] = v[i] /\ i \in DOMAIN v
        /\ \A i \in (Len(v) + 1)..Len(txs) : txs[i] = w[i - Len(v)] /\ i - Len(v) \in 1..Len(w)
    BY <1>2
  <2>2. \A i \in 1..Len(txs) : i \in 1..Len(v) \/ i \in (Len(v) + 1)..Len(txs)
    BY <1>3, <2>1
  <2>3. \A i \in I : i \in 1..Len(txs) /\ txs[i].type = "REWARD" /\ i \in Nat
    BY <1>3
  <2> HIDE DEF I
  <2> QED BY <1>2, <2>1, <2>2, <2>3
<1>6. /\ \A i \in I : txs[i].to \in honest /\ txs[i].amount = Reward(txs[i].to, primary, honest, fees)
      /\ \A i, j \in I : txs[i].to = txs[j].to => i = j
  <2>1. \A i \in I : w[i - Len(v)].type = "REWARD"
    BY <1>5
  <2>2. ASSUME NEW i \in I, NEW j \in I, txs[i].to = txs[j].to PROVE i = j
    <3>1. i - Len(v) = j - Len(v)
      <4> HIDE DEF I
      <4> QED BY <1>2, <1>5, <2>1, <2>2 DEF RewardsOf
    <3> QED BY <1>5, <3>1
  <2>3. \A i \in I : txs[i].to \in honest /\ txs[i].amount = Reward(txs[i].to, primary, honest, fees)
    <3> HIDE DEF I
    <3> QED BY <1>2, <1>5, <2>1 DEF RewardsOf
  <2> QED BY <2>2, <2>3
<1>7. PICK lead : \A i \in I : i = lead <=> txs[i].to = primary
  <2>1. CASE \E i \in I : txs[i].to = primary
    <3>1. PICK j \in I : txs[j].to = primary
      BY <2>1
    <3>2. \A i \in I : i = j <=> txs[i].to = primary
      BY <1>6, <3>1
    <3> QED BY <3>2
  <2>2. CASE ~ \E i \in I : txs[i].to = primary
    <3>1. \A i \in I : i = 0 <=> txs[i].to = primary
      BY <2>2
    <3> QED BY <3>1
  <2> QED BY <2>1, <2>2
<1>8. Cardinality(I) <= n
  <2> DEFINE f == [i \in I |-> txs[i].to]
  <2>1. f \in Injection(I, honest)
    BY <1>6 DEF Injection, IsInjective
  <2> HIDE DEF f, I
  <2> QED BY <1>4, <2>1, FS_Injection
<1>9. q \in Int
  <2> HIDE DEF x, n
  <2> QED BY <1>4
<1>10. \A i \in D : h[i] = IF i \in I THEN q + (IF i = lead THEN LeaderBonus ELSE 0) ELSE 0
  <2> SUFFICES ASSUME NEW i \in D
               PROVE  h[i] = IF i \in I THEN q + (IF i = lead THEN LeaderBonus ELSE 0) ELSE 0
    OBVIOUS
  <2>1. h[i] = IF txs[i].type = "REWARD" THEN txs[i].amount ELSE 0
    BY <1>3 DEF Mints, Minted
  <2>2. i \in I => txs[i].amount = q + IF i = lead THEN LeaderBonus ELSE 0
    <3>1. i \in I => txs[i].amount = q + IF txs[i].to = primary THEN LeaderBonus ELSE 0
      BY <1>6 DEF Reward
    <3> HIDE DEF q
    <3> QED BY <1>7, <3>1
  <2> HIDE DEF h, q
  <2> QED BY <2>1, <2>2
<1>11. h \in [D -> Int]
  <2>1. DOMAIN h = D
    BY <1>3 DEF Mints
  <2>2. \A i \in D : h[i] \in Int
    <3> HIDE DEF h, q, I
    <3> QED BY <1>4, <1>9, <1>10
  <2>3. h = [i \in D |-> h[i]]
    BY <1>3 DEF Mints
  <2> HIDE DEF h
  <2> QED BY <2>2, <2>3
<1>12. I \in SUBSET D
  OBVIOUS
<1>13. SumOf(b, "REWARD") = SumFunction(h)
  BY <1>1 DEF SumOf, Mints, Minted
<1>14. MintedFor(b) = NonNegative(x) + LeaderBonus
  BY <1>1 DEF MintedFor
<1> HIDE DEF h, I, D
<1>15. /\ SumFunction(h) = q * Cardinality(I) + IF lead \in I THEN LeaderBonus ELSE 0
       /\ Cardinality(I) \in Nat
  <2> HIDE DEF q
  <2>1. Topped(h, D, I, q, lead, LeaderBonus)
    BY <1>10 DEF Topped
  <2> QED BY <1>3, <1>4, <1>9, <1>11, <1>12, <2>1, SumTopped
<1>16. q * Cardinality(I) <= NonNegative(x)
  <2> HIDE DEF x, n
  <2> QED BY <1>4, <1>8, <1>15, ShareOfPool
<1>17. q * Cardinality(I) \in Int /\ NonNegative(x) \in Int
  <2> HIDE DEF q, x
  <2> QED BY <1>4, <1>9, <1>15 DEF NonNegative
<1>18. PICK y \in Int, z \in Int : y = q * Cardinality(I) /\ z = NonNegative(x)
  BY <1>17
<1> HIDE DEF q, x, n
<1>19. SumFunction(h) <= z + LeaderBonus
  BY <1>4, <1>15, <1>16, <1>18
<1> QED BY <1>13, <1>14, <1>18, <1>19 DEF MintsRight

(* A block of a PoS round rewards nobody.                                  *)
LEMMA PosMints ==
  ASSUME NEW b, b.kind = "POS", b.simple \in Seq(Tx), b.system \in Seq(Tx),
         \A i \in DOMAIN b.simple : b.simple[i].type # "REWARD",
         \A i \in DOMAIN b.system : b.system[i].type # "REWARD"
  PROVE  MintsRight(b)
<1>1. PICK v, w, txs : v = b.simple /\ w = b.system /\ txs = v \o w
  OBVIOUS
<1>2. v \in Seq(Tx) /\ w \in Seq(Tx)
  BY <1>1
<1>3. /\ \A i \in DOMAIN v : v[i].type # "REWARD"
      /\ \A i \in DOMAIN w : w[i].type # "REWARD"
  BY <1>1
<1>4. /\ txs \in Seq(Tx) /\ DOMAIN txs = 1..Len(txs) /\ Len(txs) \in Nat
      /\ DOMAIN v = 1..Len(v) /\ DOMAIN w = 1..Len(w) /\ Len(v) \in Nat
      /\ \A i \in 1..Len(v) : txs[i] = v[i]
      /\ \A i \in (Len(v) + 1)..Len(txs) : txs[i] = w[i - Len(v)] /\ i - Len(v) \in 1..Len(w)
  <2>1. txs = v \o w /\ v \in Seq(Tx) /\ w \in Seq(Tx)
    BY <1>1, <1>2
  <2>2. txs \in Seq(Tx) /\ Len(txs) = Len(v) + Len(w)
    BY <2>1
  <2>3. /\ Len(v) \in Nat /\ DOMAIN v = 1..Len(v) /\ DOMAIN w = 1..Len(w)
        /\ DOMAIN txs = 1..Len(txs) /\ Len(txs) \in Nat
    BY <2>1, <2>2
  <2>4. /\ \A i \in 1..Len(v) : txs[i] = v[i]
        /\ \A i \in (Len(v) + 1)..Len(txs) : txs[i] = w[i - Len(v)] /\ i - Len(v) \in 1..Len(w)
    BY <2>1
  <2> QED BY <2>2, <2>3, <2>4
<1>5. \A i \in 1..Len(txs) : i \in 1..Len(v) \/ i \in (Len(v) + 1)..Len(txs)
  BY <1>4
<1>6. \A i \in 1..Len(txs) : txs[i].type # "REWARD"
  BY <1>3, <1>4, <1>5
<1>7. PICK h : h = Mints(txs)
  OBVIOUS
<1>8. h \in [1..Len(txs) -> Int] /\ \A i \in 1..Len(txs) : h[i] = 0
  BY <1>4, <1>6, <1>7 DEF Mints, Minted
<1>9. SumFunction(h) = 0
  <2>1. IsFiniteSet(1..Len(txs))
    BY <1>4, FS_Interval
  <2>2. Point(h, 1..Len(txs), 0, 0)
    BY <1>8 DEF Point
  <2> QED BY <1>8, <2>1, <2>2, SumPoint
<1>10. SumOf(b, "REWARD") = SumFunction(h)
  BY <1>1, <1>7 DEF SumOf, Mints, Minted
<1>11. MintedFor(b) = 0
  BY DEF MintedFor
<1> QED BY <1>9, <1>10, <1>11 DEF MintsRight

(* One more block sealed.                                                  *)
LEMMA SealedGrows ==
  ASSUME NEW M, Sealed(M), Cardinality(M) < MaxBlocks,
         NEW b, SoundBlock(b), OneEach(b), MintsRight(b),
         b.id = Cardinality(M) + 1, b.height \in 1..b.id
  PROVE  Sealed(M \cup {b})
<1> DEFINE k == Cardinality(M)
           T == M \cup {b}
<1>1. IsFiniteSet(M) /\ k \in Nat /\ MaxBlocks \in Nat
  BY FS_CardinalityType, ServiceAssumption DEF Sealed
<1>2. \A d \in M : d.id \in 1..k /\ d.id # b.id
  BY <1>1 DEF Sealed
<1>3. b \notin M
  BY <1>2
<1>4. IsFiniteSet(T) /\ Cardinality(T) = k + 1
  BY <1>1, <1>3, FS_AddElement
<1>5. \A d \in M : SoundBlock(d) /\ OneEach(d) /\ MintsRight(d) /\ d.height \in 1..d.id
  BY DEF Sealed
<1>6. \A d, e \in M : d.id = e.id => d = e
  BY DEF Sealed
<1>10. b.id = k + 1 /\ k < MaxBlocks
  OBVIOUS
<1> HIDE DEF k, T
<1>7. /\ Cardinality(T) <= MaxBlocks
      /\ \A d \in M : d.id \in 1..Cardinality(T)
      /\ b.id \in 1..Cardinality(T)
  BY <1>1, <1>2, <1>4, <1>10
<1>8. \A d, e \in T : d.id = e.id => d = e
  BY <1>2, <1>6 DEF T
<1>9. \A d \in T : /\ SoundBlock(d) /\ OneEach(d) /\ MintsRight(d)
                   /\ d.id \in 1..Cardinality(T) /\ d.height \in 1..d.id
  BY <1>5, <1>7 DEF T
<1>11. Sealed(T)
  BY <1>4, <1>7, <1>8, <1>9 DEF Sealed
<1> QED BY <1>11 DEF T

(* The height of a block is at most its number.                            *)
LEMMA NextHeight ==
  ASSUME NEW M, Sealed(M), NEW c, Linked(c, M)
  PROVE  Tip(c).height + 1 \in 1..(Cardinality(M) + 1)
<1> DEFINE L == Len(c)
<1>1. IsFiniteSet(M) /\ Cardinality(M) \in Nat
  BY FS_CardinalityType DEF Sealed
<1>2. L \in Nat /\ L >= 1 /\ c[L].height = L - 1
  <2> DEFINE S == M \cup {GenesisBlock}
  <2>1. c \in Seq(S) /\ L >= 1
    BY DEF Linked
  <2> HIDE DEF S
  <2>2. L \in Nat
    BY <2>1
  <2>3. L \in 1..L
    BY <2>1, <2>2
  <2>4. c[L].height = L - 1
    BY <2>3 DEF Linked
  <2> QED BY <2>1, <2>2, <2>4
<1>3. L # 1 => c[L] \in M
  <2> HIDE DEF L
  <2>1. L # 1 => L \in 2..L
    BY <1>2
  <2> QED BY <2>1 DEF Linked, L
<1>4. \A b \in M : b.id \in 1..Cardinality(M) /\ b.height \in 1..b.id
  BY DEF Sealed
<1>5. L # 1 => c[L].height <= Cardinality(M)
  BY <1>1, <1>3, <1>4
<1> HIDE DEF L
<1>6. c[L].height + 1 \in 1..(Cardinality(M) + 1)
  BY <1>1, <1>2, <1>5
<1> QED BY <1>6 DEF Tip, L

(* What a replay has made so far.                                          *)
Replayed(M) ==
  [chain: Seq(M \cup {GenesisBlock}), ledger: LedgerState, stopped: BOOLEAN]

(* f goes through what a replay of the rows makes, height by height.       *)
ReplayRun(f, rows, M) ==
  /\ f \in [0..MaxBlocks -> Replayed(M)]
  /\ f[0] = FirstRow(rows[0])
  /\ \A h \in 1..MaxBlocks :
       f[h] = IF h \in DOMAIN rows THEN NextRow(f[h - 1], rows[h]) ELSE f[h - 1]

(* What the next row does to a replay.                                     *)
LEMMA NextRowFields ==
  ASSUME NEW M, NEW r \in Replayed(M), NEW b \in M, SoundBlock(b)
  PROVE  /\ NextRow(r, b) \in Replayed(M)
         /\ IF r.stopped \/ ~ ValidBlock(r.chain, r.ledger, b)
            THEN /\ NextRow(r, b).chain = r.chain /\ NextRow(r, b).ledger = r.ledger
                 /\ NextRow(r, b).stopped = TRUE
            ELSE /\ NextRow(r, b).chain = Append(r.chain, b)
                 /\ NextRow(r, b).ledger = ApplyBlock(r.ledger, b)
                 /\ NextRow(r, b).stopped = r.stopped
<1> DEFINE S == M \cup {GenesisBlock}
           x == Append(r.chain, b)
           y == ApplyBlock(r.ledger, b)
<1>1. r.chain \in Seq(S) /\ r.ledger \in LedgerState /\ r.stopped \in BOOLEAN
  BY DEF Replayed
<1>2. b \in S
  OBVIOUS
<1>3. y \in LedgerState
  BY <1>1, BlockIsApplied
<1> HIDE DEF S, y
<1>4. x \in Seq(S)
  BY <1>1, <1>2
<1> HIDE DEF x
<1> DEFINE Q == Seq(S)
           W == LedgerState
<1>5. /\ Replayed(M) = [chain: Q, ledger: W, stopped: BOOLEAN]
      /\ r \in [chain: Q, ledger: W, stopped: BOOLEAN] /\ x \in Q /\ y \in W
  BY <1>3, <1>4 DEF Replayed, S
<1> HIDE DEF Q, W
<1>6. CASE r.stopped \/ ~ ValidBlock(r.chain, r.ledger, b)
  <2>1. NextRow(r, b) = [r EXCEPT !.stopped = TRUE]
    BY <1>6 DEF NextRow
  <2>2. /\ [r EXCEPT !.stopped = TRUE] \in Replayed(M)
        /\ [r EXCEPT !.stopped = TRUE].chain = r.chain
        /\ [r EXCEPT !.stopped = TRUE].ledger = r.ledger
        /\ [r EXCEPT !.stopped = TRUE].stopped = TRUE
    BY <1>5
  <2> QED BY <1>6, <2>1, <2>2
<1>7. CASE ~ (r.stopped \/ ~ ValidBlock(r.chain, r.ledger, b))
  <2>1. NextRow(r, b) = [r EXCEPT !.chain = x, !.ledger = y]
    BY <1>7 DEF NextRow, x, y
  <2>2. /\ [r EXCEPT !.chain = x, !.ledger = y] \in Replayed(M)
        /\ [r EXCEPT !.chain = x, !.ledger = y].chain = x
        /\ [r EXCEPT !.chain = x, !.ledger = y].ledger = y
        /\ [r EXCEPT !.chain = x, !.ledger = y].stopped = r.stopped
    BY <1>5
  <2> QED BY <1>7, <2>1, <2>2 DEF x, y
<1> QED BY <1>6, <1>7

(* What the first row makes.                                               *)
LEMMA FirstRowFields ==
  ASSUME NEW M
  PROVE  /\ FirstRow(GenesisBlock) \in Replayed(M)
         /\ FirstRow(GenesisBlock).chain = <<GenesisBlock>>
         /\ FirstRow(GenesisBlock).ledger = ApplyBlock(EmptyLedger, GenesisBlock)
         /\ FirstRow(GenesisBlock).stopped = FALSE
<1> DEFINE S == M \cup {GenesisBlock}
           x == <<GenesisBlock>>
           y == ApplyBlock(EmptyLedger, GenesisBlock)
<1>1. y \in LedgerState
  BY BlockIsApplied, GenesisIsSound, EmptyLedgerType
<1>2. x \in Seq(S)
  <2>1. GenesisBlock \in S
    OBVIOUS
  <2> HIDE DEF S
  <2> QED BY <2>1
<1>3. FirstRow(GenesisBlock) = [chain |-> x, ledger |-> y, stopped |-> FALSE]
  BY DEF FirstRow
<1>4. Replayed(M) = [chain: Seq(S), ledger: LedgerState, stopped: BOOLEAN]
  BY DEF Replayed
<1> HIDE DEF S, x, y
<1>5. /\ [chain |-> x, ledger |-> y, stopped |-> FALSE] \in Replayed(M)
      /\ [chain |-> x, ledger |-> y, stopped |-> FALSE].chain = x
      /\ [chain |-> x, ledger |-> y, stopped |-> FALSE].ledger = y
      /\ [chain |-> x, ledger |-> y, stopped |-> FALSE].stopped = FALSE
  BY <1>1, <1>2, <1>4
<1> QED BY <1>3, <1>5 DEF x, y

(* Replay is the end of such a run.                                        *)
LEMMA ReplayIsRun ==
  ASSUME NEW M, Sealed(M), NEW rows, RowsOK(rows, M)
  PROVE  \E f : ReplayRun(f, rows, M) /\ Replay(rows) = f[MaxBlocks]
<1> DEFINE N == MaxBlocks
           D == DOMAIN rows
           S == Replayed(M)
           first == FirstRow(rows[0])
           Def(f) == f = [h \in 0..N |->
                            IF h = 0 THEN FirstRow(rows[0])
                            ELSE IF h \in D THEN NextRow(f[h - 1], rows[h]) ELSE f[h - 1]]
           upTo == CHOOSE f : Def(f)
<1>1. N \in Nat /\ first \in S
  BY FirstRowFields, ServiceAssumption DEF RowsOK
<1>2. \A h \in 1..N : h \in D => rows[h] \in M /\ SoundBlock(rows[h])
  <2>1. \A h \in 1..N : h # 0
    BY <1>1
  <2> QED BY <2>1 DEF RowsOK, Sealed
<1>3. \A h \in 1..N : \A r \in S : h \in D => NextRow(r, rows[h]) \in S
  BY <1>2, NextRowFields
<1>4. \E f : Def(f)
  <2> DEFINE step == [h \in 1..N |-> [r \in S |-> IF h \in D THEN NextRow(r, rows[h]) ELSE r]]
  <2>1. step \in [1..N -> [S -> S]]
    <3> HIDE DEF S, N, D
    <3> QED BY <1>3
  <2>2. PICK f : IsRun(f, N, S, first, step)
    <3> HIDE DEF step, N, S, first
    <3> QED BY <1>1, <2>1, RecursionUpTo
  <2> HIDE DEF S
  <2>3. /\ f \in [0..N -> S] /\ f[0] = first
        /\ \A h \in 1..N : f[h] = IF h \in D THEN NextRow(f[h - 1], rows[h]) ELSE f[h - 1]
    <3>1. f \in [0..N -> S] /\ f[0] = first /\ \A h \in 1..N : f[h] = step[h][f[h - 1]]
      BY <2>2 DEF IsRun
    <3>2. \A h \in 1..N : h - 1 \in 0..N
      BY <1>1
    <3>3. \A h \in 1..N : f[h - 1] \in S
      BY <3>1, <3>2
    <3> HIDE DEF N, D, first
    <3> QED BY <3>1, <3>3
  <2>4. Def(f)
    <3> DEFINE F == [h \in 0..N |-> IF h = 0 THEN FirstRow(rows[0])
                            ELSE IF h \in D THEN NextRow(f[h - 1], rows[h]) ELSE f[h - 1]]
    <3>1. \A h \in 0..N : h = 0 \/ h \in 1..N
      BY <1>1
    <3>2. \A h \in 0..N : f[h] = F[h]
      BY <2>3, <3>1
    <3> QED BY <2>3, <3>2
  <2> QED BY <2>4
<1>5. Def(upTo)
  <2> HIDE DEF Def
  <2> QED BY <1>4
<1>6. Replay(rows) = upTo[N]
  BY DEF Replay
<1>7. /\ upTo[0] = first
      /\ \A h \in 1..N : upTo[h] = IF h \in D THEN NextRow(upTo[h - 1], rows[h]) ELSE upTo[h - 1]
  <2>1. \A h \in 1..N : h \in 0..N /\ h # 0
    BY <1>1
  <2>2. 0 \in 0..N
    BY <1>1
  <2> HIDE DEF upTo
  <2> QED BY <1>5, <2>1, <2>2
<1>8. upTo = [h \in 0..N |-> upTo[h]]
  <2> HIDE DEF upTo
  <2>1. upTo = [h \in 0..N |-> IF h = 0 THEN FirstRow(rows[0])
                            ELSE IF h \in D THEN NextRow(upTo[h - 1], rows[h]) ELSE upTo[h - 1]]
    BY <1>5
  <2> QED BY <2>1
<1> HIDE DEF upTo, Def, S
<1> DEFINE P == {h \in 0..N : upTo[h] \in S}
<1>9. 0 \in P
  BY <1>1, <1>7
<1>10. ASSUME NEW h \in 0..(N - 1), h \in P PROVE h + 1 \in P
  <2>1. h + 1 \in 1..N /\ (h + 1) - 1 = h /\ h + 1 \in 0..N
    BY <1>1
  <2>2. upTo[h + 1] = IF h + 1 \in D THEN NextRow(upTo[h], rows[h + 1]) ELSE upTo[h]
    BY <1>7, <2>1
  <2>3. upTo[h] \in S
    BY <1>10
  <2> QED BY <1>3, <2>1, <2>2, <2>3
<1>11. 0..N \subseteq P
  <2>1. \A h \in 0..(N - 1) : h \in P => h + 1 \in P
    BY <1>10
  <2> HIDE DEF P, N
  <2> QED BY <1>1, <1>9, <2>1, UpTo
<1>12. upTo \in [0..N -> S]
  BY <1>8, <1>11
<1>13. ReplayRun(upTo, rows, M)
  BY <1>7, <1>12 DEF ReplayRun, S
<1> QED BY <1>6, <1>13

-----------------------------------------------------------------------------
(* Replay. A start makes a chain of sealed blocks with its own books.      *)

(* The chain of the genesis block alone.                                   *)
LEMMA GenesisIsLinked ==
  ASSUME NEW M
  PROVE  Linked(<<GenesisBlock>>, M)
<1> DEFINE b == GenesisBlock
           S == M \cup {b}
           c == <<b>>
<1>1. b \in S /\ b.height = 0
  BY DEF GenesisBlock
<1> HIDE DEF b, S
<1>2. c \in Seq(S) /\ Len(c) = 1 /\ c[1] = b
  BY <1>1
<1>3. \A i \in 1..1 : i = 1
  OBVIOUS
<1>4. 2..1 = {}
  OBVIOUS
<1> HIDE DEF c
<1>5. \A i \in 1..Len(c) : c[i].height = i - 1
  BY <1>1, <1>2, <1>3
<1>6. \A i \in 2..Len(c) : c[i] \in M /\ c[i].prev = c[i - 1].id
  BY <1>2, <1>4
<1>7. Linked(c, M)
  BY <1>2, <1>5, <1>6 DEF Linked, S, b
<1> QED BY <1>7 DEF c, b

(* A replay makes a chain of sealed blocks and the ledger of that chain.   *)
LEMMA ReplayBooks ==
  ASSUME NEW M, Sealed(M), NEW rows, RowsOK(rows, M)
  PROVE  Linked(Replay(rows).chain, M) /\ Books(Replay(rows).chain, Replay(rows).ledger, {})
<1>1. PICK f : ReplayRun(f, rows, M) /\ Replay(rows) = f[MaxBlocks]
  BY ReplayIsRun
<1> DEFINE N == MaxBlocks
           Good(r) == Linked(r.chain, M) /\ Books(r.chain, r.ledger, {})
           P == {h \in 0..N : Good(f[h])}
<1>2. N \in Nat
  BY ServiceAssumption
<1>3. 0 \in P
  <2>1. f[0] = FirstRow(GenesisBlock)
    BY <1>1 DEF ReplayRun, RowsOK
  <2>2. Good(f[0])
    BY <2>1, FirstRowFields, GenesisIsLinked, BooksOfGenesis
  <2> QED BY <1>2, <2>2
<1>4. ASSUME NEW h \in 0..(N - 1), h \in P PROVE h + 1 \in P
  <2> DEFINE r == f[h]
             b == rows[h + 1]
  <2>1. h + 1 \in 1..N /\ (h + 1) - 1 = h /\ h + 1 \in 0..N /\ h \in 0..N /\ h + 1 # 0
    BY <1>2
  <2>2. /\ f[h + 1] = IF h + 1 \in DOMAIN rows THEN NextRow(r, b) ELSE r
        /\ r \in Replayed(M)
    BY <1>1, <2>1 DEF ReplayRun
  <2>3. Good(r)
    BY <1>4
  <2>4. CASE h + 1 \notin DOMAIN rows
    BY <2>1, <2>2, <2>3, <2>4
  <2>5. CASE h + 1 \in DOMAIN rows
    <3>1. b \in M
      BY <2>1, <2>5 DEF RowsOK
    <3>2. SoundBlock(b) /\ OneEach(b)
      BY <3>1 DEF Sealed
    <3>3. f[h + 1] = NextRow(r, b)
      BY <2>2, <2>5
    <3> HIDE DEF r, b
    <3>4. CASE r.stopped \/ ~ ValidBlock(r.chain, r.ledger, b)
      <4>1. NextRow(r, b).chain = r.chain /\ NextRow(r, b).ledger = r.ledger
        BY <2>2, <3>1, <3>2, <3>4, NextRowFields
      <4>2. Good(f[h + 1])
        BY <2>3, <3>3, <4>1
      <4> QED BY <2>1, <4>2
    <3>5. CASE ~ (r.stopped \/ ~ ValidBlock(r.chain, r.ledger, b))
      <4>1. /\ NextRow(r, b).chain = Append(r.chain, b)
            /\ NextRow(r, b).ledger = ApplyBlock(r.ledger, b)
        BY <2>2, <3>1, <3>2, <3>5, NextRowFields
      <4>2. Linked(Append(r.chain, b), M)
        BY <2>3, <3>1, <3>5, LinkedGrows
      <4>3. Books(Append(r.chain, b), ApplyBlock(r.ledger, b), {})
        <5> DEFINE S == M \cup {GenesisBlock}
        <5>1. r.chain \in Seq(S) /\ ValidTxs(r.ledger, b.simple)
          BY <2>3, <3>5 DEF Linked, ValidBlock
        <5> HIDE DEF S
        <5> QED BY <2>3, <3>2, <5>1, BooksGrow
      <4>4. Good(f[h + 1])
        BY <3>3, <4>1, <4>2, <4>3
      <4> QED BY <2>1, <4>4
    <3> QED BY <3>4, <3>5
  <2> QED BY <2>4, <2>5
<1>5. 0..N \subseteq P
  <2>1. \A h \in 0..(N - 1) : h \in P => h + 1 \in P
    BY <1>4
  <2> HIDE DEF P, N
  <2> QED BY <1>2, <1>3, <2>1, UpTo
<1>6. Good(f[N])
  <2>1. N \in 0..N
    BY <1>2
  <2> HIDE DEF Good
  <2> QED BY <1>5, <2>1
<1> QED BY <1>1, <1>6

(* Two chains of sealed blocks with the same tip are the same.             *)
LEMMA SameTipSameChain ==
  ASSUME NEW M, Sealed(M), NEW c, Linked(c, M), NEW d, Linked(d, M), Tip(c) = Tip(d)
  PROVE  c = d
<1> DEFINE S == M \cup {GenesisBlock}
           L == Len(c)
           K == Len(d)
<1>1. c \in Seq(S) /\ d \in Seq(S) /\ L >= 1 /\ K >= 1
  BY DEF Linked
<1>2. /\ \A i \in 1..L : c[i].height = i - 1
      /\ \A i \in 1..K : d[i].height = i - 1
      /\ c[1] = GenesisBlock /\ d[1] = GenesisBlock
      /\ \A i \in 2..L : c[i] \in M /\ c[i].prev = c[i - 1].id
      /\ \A i \in 2..K : d[i] \in M /\ d[i].prev = d[i - 1].id
      /\ c[L] = d[K]
  BY DEF Linked, Tip
<1> HIDE DEF S
<1>3. L \in Nat /\ K \in Nat /\ DOMAIN c = 1..L /\ DOMAIN d = 1..K
  BY <1>1
<1>4. c = [i \in 1..L |-> c[i]] /\ d = [i \in 1..K |-> d[i]]
  BY <1>1
<1> HIDE DEF L, K
<1>5. L = K
  <2>1. L \in 1..L /\ K \in 1..K
    BY <1>1, <1>3
  <2> QED BY <1>2, <1>3, <2>1
<1> DEFINE P == {k \in 0..(L - 1) : c[L - k] = d[L - k]}
<1>6. 0 \in P
  BY <1>1, <1>2, <1>3, <1>5
<1>7. ASSUME NEW k \in 0..((L - 1) - 1), k \in P PROVE k + 1 \in P
  <2> DEFINE i == L - k
  <2>1. i \in 2..L /\ i - 1 = L - (k + 1) /\ k + 1 \in 0..(L - 1)
    BY <1>3
  <2>2. c[i] = d[i] /\ c[i - 1].id = d[i - 1].id
    BY <1>2, <1>5, <1>7, <2>1
  <2>3. i - 1 = 1 \/ i - 1 \in 2..L
    BY <1>3, <2>1
  <2>4. c[i - 1] = d[i - 1]
    <3>1. CASE i - 1 = 1
      BY <1>2, <3>1
    <3>2. CASE i - 1 \in 2..L
      <4>1. c[i - 1] \in M /\ d[i - 1] \in M
        BY <1>2, <1>5, <3>2
      <4> QED BY <2>2, <4>1 DEF Sealed
    <3> QED BY <2>3, <3>1, <3>2
  <2> QED BY <2>1, <2>4
<1>8. 0..(L - 1) \subseteq P
  <2> DEFINE n == L - 1
  <2>1. n \in Nat
    BY <1>1, <1>3
  <2>2. \A k \in 0..(n - 1) : k \in P => k + 1 \in P
    BY <1>7
  <2> HIDE DEF P, n
  <2>3. 0..n \subseteq P
    BY <1>6, <2>1, <2>2, UpTo
  <2> QED BY <2>3 DEF n
<1>9. \A i \in 1..L : c[i] = d[i]
  <2> SUFFICES ASSUME NEW i \in 1..L PROVE c[i] = d[i]
    OBVIOUS
  <2>1. L - i \in 0..(L - 1) /\ L - (L - i) = i
    BY <1>3
  <2> QED BY <1>8, <2>1
<1> QED BY <1>4, <1>5, <1>9

(* A chain has one history.                                                *)
LEMMA OneHistory ==
  ASSUME NEW B, NEW c \in Seq(B), NEW f, History(c, f), NEW h, History(c, h)
  PROVE  f[Len(c)] = h[Len(c)]
<1> DEFINE L == Len(c)
           P == {k \in 0..L : f[k] = h[k]}
<1>1. L \in Nat
  OBVIOUS
<1>2. 0 \in P
  BY <1>1 DEF History
<1>3. ASSUME NEW k \in 0..(L - 1), k \in P PROVE k + 1 \in P
  <2>1. k + 1 \in 1..L /\ (k + 1) - 1 = k /\ k + 1 \in 0..L
    BY <1>1
  <2>2. f[k + 1] = ApplyBlock(f[k], c[k + 1]) /\ h[k + 1] = ApplyBlock(h[k], c[k + 1])
    BY <2>1 DEF History
  <2> QED BY <1>3, <2>1, <2>2
<1>4. 0..L \subseteq P
  <2>1. \A k \in 0..(L - 1) : k \in P => k + 1 \in P
    BY <1>3
  <2> HIDE DEF P, L
  <2> QED BY <1>1, <1>2, <2>1, UpTo
<1> QED BY <1>1, <1>4

-----------------------------------------------------------------------------
(* The inductive invariant. One lemma for each action.                     *)

(* The inductive invariant: every chain is made of sealed blocks, every    *)
(* ledger is the ledger of its chain, every mempool is ahead of it and     *)
(* every file holds sealed blocks.                                         *)
ServiceInv ==
  /\ script \in Scripts
  /\ up \in [Node -> BOOLEAN] /\ given \in [Node -> SUBSET Address]
  /\ DOMAIN chain = Node /\ DOMAIN ledger = Node /\ DOMAIN pool = Node /\ DOMAIN disk = Node
  /\ crashes \in 0..MaxCrashes /\ failures \in 0..MaxFailures
  /\ Sealed(made)
  /\ \A n \in Node : NodeOK(chain[n], ledger[n], pool[n], disk[n], given[n], made)

(* A block that a service builds can join the sealed ones.                 *)
LEMMA NewBlockIsSealed ==
  ASSUME ServiceInv, NEW n \in Node, CanSeal(n), NEW proposer \in Address, NEW k,
         NEW simple \in Selections(pool[n], ledger[n], MaxTxs), NEW system, SoundSystem(system),
         MintsRight(NewBlock(n, proposer, k, simple, system))
  PROVE  Sealed(made \cup {NewBlock(n, proposer, k, simple, system)})
<1> DEFINE b == NewBlock(n, proposer, k, simple, system)
<1>1. NodeOK(chain[n], ledger[n], pool[n], disk[n], given[n], made) /\ Sealed(made)
  BY DEF ServiceInv
<1>2. Linked(chain[n], made) /\ PoolOK(pool[n], chain[n], ledger[n]) /\ ledger[n] \in LedgerState
  BY <1>1 DEF NodeOK, Books
<1>3. Cardinality(made) < MaxBlocks /\ MaxTxs \in Nat
  BY ServiceAssumption DEF CanSeal
<1>4. /\ b.id = Cardinality(made) + 1 /\ b.height = Tip(chain[n]).height + 1
      /\ b.proposer = proposer /\ b.simple = simple /\ b.system = system
  BY DEF NewBlock
<1>5. /\ simple \in Seq(Tx)
      /\ \A i \in DOMAIN simple :
           WellFormed(simple[i]) /\ simple[i].type \in SimpleType /\ simple[i].from # Genesis
      /\ OnePerSender(simple)
  <2>1. PICK q, s, c, max : /\ q = pool[n] /\ s = ledger[n] /\ c = chain[n] /\ max = MaxTxs
    OBVIOUS
  <2>2. PoolOK(q, c, s) /\ s \in LedgerState /\ max \in Nat /\ simple \in Selections(q, s, max)
    BY <1>2, <1>3, <2>1
  <2> QED BY <2>2, SelectionsAreSound
<1>9. MintsRight(b)
  OBVIOUS
<1> HIDE DEF b
<1>6. b.height \in 1..b.id
  BY <1>1, <1>2, <1>4, NextHeight
<1>7. SoundBlock(b) /\ OneEach(b)
  BY <1>4, <1>5 DEF SoundBlock, SoundSystem, OneEach, OnePerSender
<1>8. Sealed(made \cup {b})
  BY <1>1, <1>3, <1>4, <1>6, <1>7, <1>9, SealedGrows
<1> QED BY <1>8 DEF b

(* One node moves on, and the others are as they were.                     *)
LEMMA OneNodeMoves ==
  ASSUME ServiceInv, NEW n \in Node, Sealed(made'), made \subseteq made',
         NEW c, NEW s, NEW q, NEW rows, NEW g \in SUBSET Address,
         NodeOK(c, s, q, rows, g, made'),
         \A m \in Node : chain'[m] = IF m = n THEN c ELSE chain[m],
         \A m \in Node : ledger'[m] = IF m = n THEN s ELSE ledger[m],
         \A m \in Node : pool'[m] = IF m = n THEN q ELSE pool[m],
         \A m \in Node : disk'[m] = IF m = n THEN rows ELSE disk[m],
         \A m \in Node : given'[m] = IF m = n THEN g ELSE given[m]
  PROVE  \A m \in Node : NodeOK(chain'[m], ledger'[m], pool'[m], disk'[m], given'[m], made')
<1> SUFFICES ASSUME NEW m \in Node
             PROVE  NodeOK(chain'[m], ledger'[m], pool'[m], disk'[m], given'[m], made')
  OBVIOUS
<1>1. CASE m = n
  BY <1>1
<1>2. CASE m # n
  <2>1. /\ chain'[m] = chain[m] /\ ledger'[m] = ledger[m] /\ pool'[m] = pool[m]
        /\ disk'[m] = disk[m] /\ given'[m] = given[m]
    BY <1>2
  <2>2. NodeOK(chain[m], ledger[m], pool[m], disk[m], given[m], made)
    BY DEF ServiceInv
  <2>3. PICK M2 : M2 = made'
    OBVIOUS
  <2>4. NodeOK(chain[m], ledger[m], pool[m], disk[m], given[m], M2)
    BY <2>2, <2>3, MoreSealed
  <2> QED BY <2>1, <2>3, <2>4
<1> QED BY <1>1, <1>2

(* Take keeps the invariant, whoever sealed the block.                     *)
LEMMA TakeStep ==
  ASSUME ServiceInv, NEW n \in Node, NEW M, M = made', Sealed(M), made \subseteq M,
         NEW b \in M, NEW deltas \in [Address -> Int], Take(n, b, deltas),
         script' = script, up' = up, given' = given, crashes' = crashes
  PROVE  ServiceInv'
<1> DEFINE c == chain[n]
           s == ledger[n]
           q == pool[n]
           rows == disk[n]
           g == given[n]
           t == ApplyBlock(s, b)
           r == [a \in Address |-> NonNegative(t.rep[a] + deltas[a])]
           u == [t EXCEPT !.rep = r]
           d == Append(c, b)
           w == LeftInPool(q, b)
<1>1. /\ DOMAIN chain = Node /\ DOMAIN ledger = Node /\ DOMAIN pool = Node /\ DOMAIN disk = Node
      /\ given \in [Node -> SUBSET Address] /\ failures \in 0..MaxFailures
      /\ script \in Scripts /\ up \in [Node -> BOOLEAN] /\ crashes \in 0..MaxCrashes
  BY DEF ServiceInv
<1>2. NodeOK(c, s, q, rows, g, M)
  <2>1. NodeOK(c, s, q, rows, g, made)
    BY DEF ServiceInv
  <2> HIDE DEF c, s, q, rows, g
  <2> QED BY <2>1, MoreSealed
<1>3. ValidBlock(c, s, b)
  BY DEF Take
<1>4. r \in [Address -> Nat]
  <2>1. s \in LedgerState /\ SoundBlock(b)
    BY <1>2 DEF NodeOK, Books, Sealed
  <2>2. t \in LedgerState
    <3> HIDE DEF s
    <3> QED BY <2>1, BlockIsApplied
  <2>3. \A a \in Address : t.rep[a] \in Nat /\ deltas[a] \in Int
    BY <2>2 DEF LedgerState
  <2> HIDE DEF t
  <2> QED BY <2>3 DEF NonNegative
<1>5. \A m \in Node : chain'[m] = IF m = n THEN d ELSE chain[m]
  BY <1>1 DEF Take
<1>6. \A m \in Node : ledger'[m] = IF m = n THEN u ELSE ledger[m]
  BY <1>1 DEF Take
<1>7. \A m \in Node : pool'[m] = IF m = n THEN w ELSE pool[m]
  BY <1>1 DEF Take
<1>8. DOMAIN chain' = Node /\ DOMAIN ledger' = Node /\ DOMAIN pool' = Node /\ DOMAIN disk' = Node
  BY <1>1 DEF Take, Persist
<1>9. failures' \in 0..MaxFailures
  <2>1. MaxFailures \in Nat
    BY ServiceAssumption
  <2> QED BY <1>1, <2>1 DEF Take, Persist
<1>10. PICK rows2 : /\ rows2 = rows \/ rows2 = Saved(rows, b)
                    /\ \A m \in Node : disk'[m] = IF m = n THEN rows2 ELSE disk[m]
  <2>1. CASE disk' = disk
    BY <2>1
  <2>2. CASE disk' = [disk EXCEPT ![n] = Saved(@, b)]
    <3>1. \A m \in Node : disk'[m] = IF m = n THEN Saved(rows, b) ELSE disk[m]
      BY <1>1, <2>2
    <3> QED BY <3>1
  <2> QED BY <2>1, <2>2 DEF Take, Persist
<1> HIDE DEF r
<1>11. NodeOK(d, u, w, rows2, g, M)
  <2> HIDE DEF c, s, q, rows, g
  <2> QED BY <1>2, <1>3, <1>4, <1>10, TakeKeeps
<1>12. \A m \in Node : given'[m] = IF m = n THEN g ELSE given[m]
  OBVIOUS
<1>13. g \in SUBSET Address
  BY <1>1
<1>14. \A m \in Node : NodeOK(chain'[m], ledger'[m], pool'[m], disk'[m], given'[m], made')
  <2> HIDE DEF d, u, w, g, rows
  <2>1. Sealed(made') /\ made \subseteq made' /\ NodeOK(d, u, w, rows2, g, made')
    BY <1>11
  <2>2. \A m \in Node : disk'[m] = IF m = n THEN rows2 ELSE disk[m]
    BY <1>10
  <2> QED BY <1>5, <1>6, <1>7, <1>12, <1>13, <2>1, <2>2, OneNodeMoves
<1> HIDE DEF c, s, q, rows, g, t, u, d, w
<1>15. Sealed(made')
  OBVIOUS
<1> QED BY <1>1, <1>8, <1>9, <1>14, <1>15 DEF ServiceInv

(* Every service starts from the genesis block.                            *)
LEMMA InitIsSound ==
  ASSUME Init
  PROVE  ServiceInv
<1> DEFINE c == <<GenesisBlock>>
           s == ApplyBlock(EmptyLedger, GenesisBlock)
           q == <<>>
           rows == [h \in {0} |-> GenesisBlock]
           g == {}
<1>1. PICK M : M = {}
  OBVIOUS
<1>2. Sealed(M)
  <2>1. MaxBlocks \in Nat
    BY ServiceAssumption
  <2>2. IsFiniteSet(M) /\ Cardinality(M) = 0
    BY <1>1, FS_EmptySet
  <2> QED BY <1>1, <2>1, <2>2 DEF Sealed
<1>3. Linked(c, M)
  BY GenesisIsLinked
<1>4. Books(c, s, g)
  BY BooksOfGenesis
<1>5. PoolOK(q, c, s)
  BY DEF PoolOK
<1>6. RowsOK(rows, M)
  <2>1. MaxBlocks \in Nat
    BY ServiceAssumption
  <2> QED BY <2>1 DEF RowsOK
<1>7. NodeOK(c, s, q, rows, g, M)
  <2> HIDE DEF c, s, q, rows, g
  <2> QED BY <1>3, <1>4, <1>5, <1>6 DEF NodeOK
<1>8. /\ script \in Scripts
      /\ chain = [n \in Node |-> c] /\ ledger = [n \in Node |-> s] /\ pool = [n \in Node |-> q]
      /\ disk = [n \in Node |-> rows] /\ up = [n \in Node |-> TRUE]
      /\ given = [n \in Node |-> g] /\ made = M /\ crashes = 0 /\ failures = 0
  BY <1>1 DEF Init, GenesisLedger
<1>9. g \in SUBSET Address /\ MaxCrashes \in Nat /\ MaxFailures \in Nat
  BY ServiceAssumption
<1> HIDE DEF c, s, q, rows, g
<1>10. \A n \in Node : NodeOK(chain[n], ledger[n], pool[n], disk[n], given[n], made)
  BY <1>7, <1>8
<1>11. up \in [Node -> BOOLEAN] /\ given \in [Node -> SUBSET Address]
  BY <1>8, <1>9
<1>12. crashes \in 0..MaxCrashes /\ failures \in 0..MaxFailures
  BY <1>8, <1>9
<1> QED BY <1>2, <1>8, <1>10, <1>11, <1>12 DEF ServiceInv

(* A client's transaction waits with the nonce that comes next.            *)
LEMMA SubmitStep ==
  ASSUME ServiceInv, NEW n \in Node, NEW tx \in script.simple, Submit(n, tx)
  PROVE  ServiceInv'
<1>1. PICK c, s, q, w, M : /\ c = chain[n] /\ s = ledger[n] /\ q = pool[n]
                           /\ w = Append(q, tx) /\ M = made
  OBVIOUS
<1>2. /\ WellFormed(tx) /\ tx.type \in SimpleType /\ tx.from # Genesis
      /\ tx.from \in Address /\ tx.nonce \in Nat /\ tx \in Tx
  <2>1. script \in Scripts
    BY DEF ServiceInv
  <2>2. WellFormed(tx) /\ tx.type \in SimpleType /\ tx.from # Genesis
    BY <2>1, ServiceAssumption
  <2> QED BY <2>2, TypesOfTx
<1>3. NodeOK(c, s, q, disk[n], given[n], M)
  BY <1>1 DEF ServiceInv
<1>4. tx.nonce = s.nonce[tx.from] + 1 /\ s.nonce[tx.from] \in Nat
  <2>1. s \in LedgerState
    BY <1>3 DEF NodeOK, Books
  <2> QED BY <1>1, <1>2, <2>1 DEF Submit, NextNonce, LedgerState
<1>5. ASSUME NEW j \in DOMAIN c PROVE tx \notin Range(c[j].simple)
  <2>1. Books(c, s, given[n]) /\ tx.from \in Address \ {Genesis}
    BY <1>2, <1>3 DEF NodeOK
  <2>2. PICK g : g = given[n]
    OBVIOUS
  <2>3. SUFFICES ASSUME tx \in Range(c[j].simple) PROVE FALSE
    OBVIOUS
  <2>4. tx.nonce <= s.nonce[tx.from]
    BY <2>1, <2>2, <2>3, UsedNonces
  <2> QED BY <1>4, <2>4
<1>6. PoolOK(w, c, s)
  <2>1. PoolOK(q, c, s)
    BY <1>3 DEF NodeOK
  <2>2. q \in Seq(Tx)
    BY <2>1 DEF PoolOK
  <2>3. /\ w \in Seq(Tx)
        /\ \A i \in DOMAIN w : w[i] = tx \/ \E j \in DOMAIN q : w[i] = q[j]
    BY <1>1, <1>2, <2>2
  <2>4. ASSUME NEW i \in DOMAIN w
        PROVE  /\ WellFormed(w[i]) /\ w[i].type \in SimpleType /\ w[i].from # Genesis
               /\ w[i].nonce <= s.nonce[w[i].from] + 1
               /\ \A j \in DOMAIN c : w[i] \notin Range(c[j].simple)
    <3>1. CASE w[i] = tx
      BY <1>2, <1>4, <1>5, <3>1
    <3>2. CASE \E j \in DOMAIN q : w[i] = q[j]
      BY <2>1, <3>2 DEF PoolOK
    <3> QED BY <2>3, <3>1, <3>2
  <2> QED BY <2>3, <2>4 DEF PoolOK
<1>7. NodeOK(c, s, w, disk[n], given[n], made')
  BY <1>1, <1>3, <1>6 DEF NodeOK, Submit
<1>8. /\ DOMAIN chain = Node /\ DOMAIN ledger = Node /\ DOMAIN pool = Node /\ DOMAIN disk = Node
      /\ given \in [Node -> SUBSET Address] /\ Sealed(made) /\ given[n] \in SUBSET Address
  BY DEF ServiceInv
<1>9. PICK r, g : r = disk[n] /\ g = given[n]
  OBVIOUS
<1>10. /\ \A m \in Node : chain'[m] = IF m = n THEN c ELSE chain[m]
       /\ \A m \in Node : ledger'[m] = IF m = n THEN s ELSE ledger[m]
       /\ \A m \in Node : pool'[m] = IF m = n THEN w ELSE pool[m]
       /\ \A m \in Node : disk'[m] = IF m = n THEN r ELSE disk[m]
       /\ \A m \in Node : given'[m] = IF m = n THEN g ELSE given[m]
  BY <1>1, <1>8, <1>9 DEF Submit
<1>11. \A m \in Node : NodeOK(chain'[m], ledger'[m], pool'[m], disk'[m], given'[m], made')
  <2>1. Sealed(made') /\ made \subseteq made' /\ NodeOK(c, s, w, r, g, made') /\ g \in SUBSET Address
    BY <1>7, <1>8, <1>9 DEF Submit
  <2> QED BY <1>10, <2>1, OneNodeMoves
<1>12. /\ DOMAIN chain' = Node /\ DOMAIN ledger' = Node /\ DOMAIN pool' = Node /\ DOMAIN disk' = Node
       /\ Sealed(made')
  BY <1>8 DEF Submit
<1>13. /\ script' = script /\ up' = up /\ given' = given /\ crashes' = crashes /\ failures' = failures
  BY DEF Submit, counters
<1> QED BY <1>11, <1>12, <1>13 DEF ServiceInv

(* The reputations of a PoS block.                                         *)
LEMMA NoDeltasType == NoDeltas \in [Address -> Int]
BY DEF NoDeltas

(* What the mempool of a node offers.                                      *)
LEMMA SelectionOfNode ==
  ASSUME ServiceInv, NEW n \in Node, NEW simple \in Selections(pool[n], ledger[n], MaxTxs)
  PROVE  /\ simple \in Seq(Tx)
         /\ \A i \in DOMAIN simple : simple[i].type \in SimpleType
<1>1. PoolOK(pool[n], chain[n], ledger[n]) /\ ledger[n] \in LedgerState
  BY DEF ServiceInv, NodeOK, Books
<1>2. PICK c, s, q, max : c = chain[n] /\ s = ledger[n] /\ q = pool[n] /\ max = MaxTxs
  OBVIOUS
<1>3. PoolOK(q, c, s) /\ s \in LedgerState /\ max \in Nat /\ simple \in Selections(q, s, max)
  BY <1>1, <1>2, ServiceAssumption
<1> QED BY <1>3, SelectionsAreSound

(* A block of a PoS round, or of a single node.                            *)
LEMMA SealPosStep ==
  ASSUME ServiceInv, NEW n \in Node, SealPos(n)
  PROVE  ServiceInv'
<1>1. n \in Address /\ script \in Scripts /\ CanSeal(n)
  BY ServiceAssumption DEF SealPos, ServiceInv
<1>2. PICK simple \in Selections(pool[n], ledger[n], MaxTxs),
           pom \in {<<>>} \cup {<<tx>> : tx \in script.pom} :
        /\ Take(n, NewBlock(n, n, "POS", simple, pom), NoDeltas)
        /\ made' = made \cup {NewBlock(n, n, "POS", simple, pom)}
  BY DEF SealPos
<1>3. SoundSystem(pom) /\ \A i \in DOMAIN pom : pom[i].type # "REWARD"
  <2>1. CASE pom = <<>>
    BY <2>1 DEF SoundSystem
  <2>2. CASE \E tx \in script.pom : pom = <<tx>>
    <3>1. PICK tx \in script.pom : pom = <<tx>>
      BY <2>2
    <3>2. WellFormed(tx) /\ tx.type \in {"VERIFY", "ADMITTED", "REJECTED"}
      BY <1>1, ServiceAssumption
    <3>3. tx \in Tx /\ tx.type \in SystemType /\ tx.type # "REWARD" /\ SoundAmount(tx)
      BY <3>2, TypesOfTx DEF SoundAmount, SystemType
    <3> QED BY <3>1, <3>2, <3>3 DEF SoundSystem
  <2> QED BY <1>2, <2>1, <2>2
<1>4. PICK k : k = "POS"
  OBVIOUS
<1>5. PICK b : b = NewBlock(n, n, k, simple, pom)
  OBVIOUS
<1>6. Sealed(made \cup {NewBlock(n, n, k, simple, pom)})
  <2>1. MintsRight(NewBlock(n, n, k, simple, pom))
    <3>1. b.kind = "POS" /\ b.simple = simple /\ b.system = pom
      BY <1>4, <1>5 DEF NewBlock
    <3>2. simple \in Seq(Tx) /\ \A i \in DOMAIN simple : simple[i].type \in SimpleType
      BY SelectionOfNode
    <3>3. \A i \in DOMAIN simple : simple[i].type # "REWARD"
      BY <3>2 DEF SimpleType
    <3>4. MintsRight(b)
      BY <1>3, <3>1, <3>2, <3>3, PosMints DEF SoundSystem
    <3> QED BY <1>5, <3>4
  <2> QED BY <1>1, <1>3, <2>1, NewBlockIsSealed
<1>7. PICK M : M = made'
  OBVIOUS
<1>8. Sealed(M) /\ made \subseteq M /\ b \in M
  BY <1>2, <1>4, <1>5, <1>6, <1>7
<1>9. PICK deltas : deltas = NoDeltas
  OBVIOUS
<1>10. deltas \in [Address -> Int] /\ Take(n, b, deltas)
  BY <1>2, <1>4, <1>5, <1>9, NoDeltasType
<1>11. script' = script /\ up' = up /\ given' = given /\ crashes' = crashes
  BY DEF SealPos
<1> QED BY <1>7, <1>8, <1>10, <1>11, TakeStep

(* The reputations of a QoI round.                                         *)
LEMMA RoundDeltasType ==
  ASSUME NEW primary, NEW honest, NEW others
  PROVE  RoundDeltas(primary, honest, others) \in [Address -> Int]
<1>1. RepGain \in Nat /\ RepLeaderBonus \in Nat /\ RepPenalty \in Nat
  BY ServiceAssumption, LedgerAssumption
<1> QED BY <1>1 DEF RoundDeltas

(* A block of a QoI round.                                                 *)
LEMMA SealQoIStep ==
  ASSUME ServiceInv, NEW n \in Node, SealQoI(n)
  PROVE  ServiceInv'
<1>1. CanSeal(n)
  BY DEF SealQoI
<1>2. PICK r \in Rounds, simple \in Selections(pool[n], ledger[n], MaxTxs) :
        LET honest == DnnValidators(ledger[n]) \ r.others
            b == NewBlock(n, r.primary, "QOI", simple,
                          RoundTxs(r.primary, honest, r.others, Fees(simple)))
        IN /\ honest # {}
           /\ Take(n, b, RoundDeltas(r.primary, honest, r.others))
           /\ made' = made \cup {b}
  BY DEF SealQoI
<1>3. PICK primary, honest, others, fees, k :
        /\ primary = r.primary /\ honest = DnnValidators(ledger[n]) \ r.others
        /\ others = r.others /\ fees = Fees(simple) /\ k = "QOI"
  OBVIOUS
<1>4. PICK system : system = RoundTxs(primary, honest, others, fees)
  OBVIOUS
<1>5. PICK b, deltas : /\ b = NewBlock(n, primary, k, simple, system)
                       /\ deltas = RoundDeltas(primary, honest, others)
  OBVIOUS
<1>6. Take(n, b, deltas) /\ made' = made \cup {b} /\ honest # {}
  BY <1>2, <1>3, <1>4, <1>5
<1>7. primary \in Address /\ others \in SUBSET Address
  BY <1>3, ServiceAssumption
<1>8. honest \in SUBSET Address
  BY <1>3 DEF DnnValidators
<1>9. /\ simple \in Seq(Tx) /\ \A i \in DOMAIN simple : simple[i].type \in SimpleType
      /\ fees \in Int
  BY <1>3, SelectionOfNode, FeesType
<1>10. SoundSystem(system) /\ RewardsOf(system, primary, honest, fees)
  BY <1>4, <1>6, <1>7, <1>8, <1>9, RoundTxsAreSound
<1>11. Sealed(made \cup {NewBlock(n, primary, k, simple, system)})
  <2>1. b.kind = "QOI" /\ b.simple = simple /\ b.system = system
    BY <1>3, <1>5 DEF NewBlock
  <2>2. MintsRight(b)
    BY <1>3, <1>6, <1>8, <1>9, <1>10, <2>1, RoundMints
  <2>3. MintsRight(NewBlock(n, primary, k, simple, system))
    BY <1>5, <2>2
  <2> QED BY <1>1, <1>7, <1>10, <2>3, NewBlockIsSealed
<1>12. PICK M : M = made'
  OBVIOUS
<1>13. Sealed(M) /\ made \subseteq M /\ b \in M
  BY <1>5, <1>6, <1>11, <1>12
<1>14. deltas \in [Address -> Int]
  BY <1>5, RoundDeltasType
<1>15. script' = script /\ up' = up /\ given' = given /\ crashes' = crashes
  BY DEF SealQoI
<1> QED BY <1>6, <1>12, <1>13, <1>14, <1>15, TakeStep

(* A block that arrives.                                                   *)
LEMMA IngestStep ==
  ASSUME ServiceInv, NEW n \in Node, NEW b \in made, Ingest(n, b)
  PROVE  ServiceInv'
<1>1. PICK M, deltas : M = made' /\ deltas = NoDeltas
  OBVIOUS
<1>2. Sealed(M) /\ made \subseteq M /\ b \in M
  BY <1>1 DEF ServiceInv, Ingest
<1>3. deltas \in [Address -> Int] /\ Take(n, b, deltas)
  BY <1>1, NoDeltasType DEF Ingest
<1>4. script' = script /\ up' = up /\ given' = given /\ crashes' = crashes
  BY DEF Ingest
<1> QED BY <1>1, <1>2, <1>3, <1>4, TakeStep

(* A gift of the faucet.                                                   *)
LEMMA FaucetStep ==
  ASSUME ServiceInv, NEW n \in Node, NEW a \in script.faucet, Faucet(n, a)
  PROVE  ServiceInv'
<1>1. PICK c, s, q, r, g, M : /\ c = chain[n] /\ s = ledger[n] /\ q = pool[n]
                              /\ r = disk[n] /\ g = given[n] /\ M = made
  OBVIOUS
<1>2. PICK t, h : /\ t = [s EXCEPT !.balance[a] = @ + FaucetAmount]
                  /\ h = g \cup {a}
  OBVIOUS
<1>3. a \in Address
  <2>1. script \in Scripts
    BY DEF ServiceInv
  <2> QED BY <2>1, ServiceAssumption
<1>4. NodeOK(c, s, q, r, g, M)
  BY <1>1 DEF ServiceInv
<1>5. Books(c, t, h)
  <2>1. Books(c, s, g) /\ Linked(c, M)
    BY <1>4 DEF NodeOK
  <2>2. a \in Address \ g
    BY <1>1, <1>3 DEF Faucet
  <2>3. PICK B : B = M \cup {GenesisBlock}
    OBVIOUS
  <2>4. c \in Seq(B)
    BY <2>1, <2>3 DEF Linked
  <2>5. Books(c, [s EXCEPT !.balance[a] = @ + FaucetAmount], g \cup {a})
    BY <2>1, <2>2, <2>4, BooksOfFaucet
  <2> QED BY <1>2, <2>5
<1>6. t.nonce = s.nonce
  <2>1. s \in LedgerState
    BY <1>4 DEF NodeOK, Books
  <2> QED BY <1>2, <2>1 DEF LedgerState
<1>7. PoolOK(q, c, t)
  BY <1>4, <1>6 DEF NodeOK, PoolOK
<1>8. NodeOK(c, t, q, r, h, M)
  BY <1>4, <1>5, <1>7 DEF NodeOK
<1>9. /\ DOMAIN chain = Node /\ DOMAIN ledger = Node /\ DOMAIN pool = Node /\ DOMAIN disk = Node
      /\ given \in [Node -> SUBSET Address] /\ Sealed(made) /\ given[n] \in SUBSET Address
  BY DEF ServiceInv
<1>10. /\ \A m \in Node : chain'[m] = IF m = n THEN c ELSE chain[m]
       /\ \A m \in Node : pool'[m] = IF m = n THEN q ELSE pool[m]
       /\ \A m \in Node : disk'[m] = IF m = n THEN r ELSE disk[m]
       /\ \A m \in Node : given'[m] = IF m = n THEN h ELSE given[m]
  BY <1>1, <1>2, <1>9 DEF Faucet
<1>11. /\ \A m \in Node : ledger'[m] = IF m = n THEN t ELSE ledger[m]
       /\ DOMAIN ledger' = Node
  <2>1. ledger' = [ledger EXCEPT ![n].balance[a] = @ + FaucetAmount]
    BY DEF Faucet
  <2>2. /\ DOMAIN ledger' = Node
        /\ \A m \in Node : m # n => ledger'[m] = ledger[m]
        /\ ledger'[n] = [s EXCEPT !.balance[a] = @ + FaucetAmount]
    BY <1>1, <1>9, <2>1
  <2> QED BY <1>2, <2>2
<1>12. \A m \in Node : NodeOK(chain'[m], ledger'[m], pool'[m], disk'[m], given'[m], made')
  <2>1. /\ Sealed(made') /\ made \subseteq made' /\ NodeOK(c, t, q, r, h, made')
        /\ h \in SUBSET Address
    BY <1>1, <1>2, <1>3, <1>8, <1>9 DEF Faucet
  <2> QED BY <1>10, <1>11, <2>1, OneNodeMoves
<1>13. /\ DOMAIN chain' = Node /\ DOMAIN pool' = Node /\ DOMAIN disk' = Node /\ Sealed(made')
  BY <1>9 DEF Faucet
<1>14. given' \in [Node -> SUBSET Address]
  BY <1>1, <1>3, <1>9 DEF Faucet
<1>15. /\ script' = script /\ up' = up /\ crashes' = crashes /\ failures' = failures
  BY DEF Faucet, counters
<1> QED BY <1>11, <1>12, <1>13, <1>14, <1>15 DEF ServiceInv

(* A kill.                                                                 *)
LEMMA CrashStep ==
  ASSUME ServiceInv, NEW n \in Node, Crash(n)
  PROVE  ServiceInv'
<1>1. /\ script' = script /\ chain' = chain /\ ledger' = ledger /\ pool' = pool /\ disk' = disk
      /\ given' = given /\ made' = made /\ failures' = failures
  BY DEF Crash
<1>2. up' \in [Node -> BOOLEAN]
  BY DEF Crash, ServiceInv
<1>3. crashes' \in 0..MaxCrashes
  <2>1. MaxCrashes \in Nat /\ crashes \in 0..MaxCrashes
    BY ServiceAssumption DEF ServiceInv
  <2> QED BY <2>1 DEF Crash
<1> QED BY <1>1, <1>2, <1>3 DEF ServiceInv

(* A start from the file.                                                  *)
LEMMA RestartOfNode ==
  ASSUME ServiceInv, NEW n \in Node, Restart(n)
  PROVE  ServiceInv'
<1>1. PICK r, M : r = disk[n] /\ M = made
  OBVIOUS
<1>2. PICK c, s, q, g : c = Replay(r).chain /\ s = Replay(r).ledger /\ q = <<>> /\ g = {}
  OBVIOUS
<1>3. RowsOK(r, M) /\ Sealed(M)
  BY <1>1 DEF ServiceInv, NodeOK
<1>4. Linked(c, M) /\ Books(c, s, g)
  BY <1>2, <1>3, ReplayBooks
<1>5. PoolOK(q, c, s)
  BY <1>2 DEF PoolOK
<1>6. NodeOK(c, s, q, r, g, M)
  BY <1>3, <1>4, <1>5 DEF NodeOK
<1>7. /\ DOMAIN chain = Node /\ DOMAIN ledger = Node /\ DOMAIN pool = Node /\ DOMAIN disk = Node
      /\ given \in [Node -> SUBSET Address] /\ up \in [Node -> BOOLEAN]
  BY DEF ServiceInv
<1>8. /\ \A m \in Node : chain'[m] = IF m = n THEN c ELSE chain[m]
      /\ \A m \in Node : ledger'[m] = IF m = n THEN s ELSE ledger[m]
      /\ \A m \in Node : pool'[m] = IF m = n THEN q ELSE pool[m]
      /\ \A m \in Node : disk'[m] = IF m = n THEN r ELSE disk[m]
      /\ \A m \in Node : given'[m] = IF m = n THEN g ELSE given[m]
  BY <1>1, <1>2, <1>7 DEF Restart
<1>9. g \in SUBSET Address
  BY <1>2
<1>10. \A m \in Node : NodeOK(chain'[m], ledger'[m], pool'[m], disk'[m], given'[m], made')
  <2>1. Sealed(made') /\ made \subseteq made' /\ NodeOK(c, s, q, r, g, made')
    BY <1>1, <1>3, <1>6 DEF Restart
  <2> QED BY <1>8, <1>9, <2>1, OneNodeMoves
<1>11. /\ DOMAIN chain' = Node /\ DOMAIN ledger' = Node /\ DOMAIN pool' = Node /\ DOMAIN disk' = Node
       /\ Sealed(made')
  BY <1>1, <1>3, <1>7 DEF Restart
<1>12. given' \in [Node -> SUBSET Address] /\ up' \in [Node -> BOOLEAN]
  BY <1>7 DEF Restart
<1>13. /\ script' = script /\ crashes' = crashes /\ failures' = failures
  BY DEF Restart, counters
<1> QED BY <1>10, <1>11, <1>12, <1>13 DEF ServiceInv

(* Every step keeps the invariant.                                         *)
LEMMA ServiceStep ==
  ASSUME ServiceInv, [Next]_vars
  PROVE  ServiceInv'
<1>1. CASE UNCHANGED vars
  BY <1>1 DEF vars, ServiceInv
<1>2. CASE Next
  <2>1. PICK n \in Node :
          \/ \E tx \in script.simple : Submit(n, tx)
          \/ SealPos(n)
          \/ SealQoI(n)
          \/ \E b \in made : Ingest(n, b)
          \/ \E a \in script.faucet : Faucet(n, a)
          \/ Crash(n)
          \/ Restart(n)
    BY <1>2 DEF Next
  <2> QED BY <2>1, SubmitStep, SealPosStep, SealQoIStep, IngestStep, FaucetStep, CrashStep,
             RestartOfNode
<1> QED BY <1>1, <1>2

(* The invariant holds in every state.                                     *)
LEMMA ServiceInvariant == Spec => []ServiceInv
<1>1. Init => ServiceInv
  BY InitIsSound
<1>2. ServiceInv /\ [Next]_vars => ServiceInv'
  BY ServiceStep
<1> QED BY <1>1, <1>2, PTL DEF Spec

-----------------------------------------------------------------------------
(* What the invariant gives. The invariants of the run, for every network. *)

(* Every ledger, mempool and file is typed, and block h of a chain has     *)
(* height h.                                                               *)
THEOREM LedgerIsTyped == Spec => []LedgerTypeOK
<1>1. ServiceInv => LedgerTypeOK
  <2> SUFFICES ASSUME ServiceInv PROVE LedgerTypeOK
    OBVIOUS
  <2>1. ASSUME NEW n \in Node
        PROVE  /\ ledger[n] \in LedgerState
               /\ \A i \in DOMAIN pool[n] : pool[n][i] \in Tx
               /\ DOMAIN disk[n] \subseteq 0..MaxBlocks
               /\ \A i \in DOMAIN chain[n] : chain[n][i].height = i - 1
    <3>1. Linked(chain[n], made) /\ Books(chain[n], ledger[n], given[n])
          /\ PoolOK(pool[n], chain[n], ledger[n]) /\ RowsOK(disk[n], made)
      BY DEF ServiceInv, NodeOK
    <3>2. \A i \in DOMAIN chain[n] : chain[n][i].height = i - 1
      <4> DEFINE S == made \cup {GenesisBlock}
      <4>1. chain[n] \in Seq(S) /\ \A i \in 1..Len(chain[n]) : chain[n][i].height = i - 1
        BY <3>1 DEF Linked
      <4> HIDE DEF S
      <4> QED BY <4>1
    <3>3. pool[n] \in Seq(Tx)
      BY <3>1 DEF PoolOK
    <3> QED BY <3>1, <3>2, <3>3 DEF Books, RowsOK
  <2> QED BY <2>1 DEF LedgerTypeOK, ServiceInv
<1> QED BY <1>1, ServiceInvariant, PTL

(* Whatever amounts and fees the clients name and whatever the genesis     *)
(* block leaves, only a transaction that nobody checks (a registration, a  *)
(* MODEL_RESPONSE, the value of a contract call) or a negative amount puts *)
(* an account into debt that was not in debt at genesis.                   *)
THEOREM NobodyOverdraws == Spec => []NoOverdraft
<1>1. ServiceInv => NoOverdraft
  BY DEF ServiceInv, NodeOK, Books, NoOverdraft
<1> QED BY <1>1, ServiceInvariant, PTL

(* On every chain the transactions of an account carry the nonces 1, 2, .. *)
(* in order, up to the ledger's.                                           *)
THEOREM NoncesCount == Spec => []NoncesInOrder
<1>1. ServiceInv => NoncesInOrder
  BY DEF ServiceInv, NodeOK, Books, NoncesInOrder
<1> QED BY <1>1, ServiceInvariant, PTL

(* What is in a mempool is on no block of the chain, and nothing there has *)
(* a nonce beyond the next one.                                            *)
THEOREM MempoolIsAhead == Spec => []PoolIsAhead
<1>1. ServiceInv => PoolIsAhead
  BY DEF ServiceInv, NodeOK, PoolOK, PoolIsAhead
<1> QED BY <1>1, ServiceInvariant, PTL

(* Two ledgers of one chain differ in reputations and gifts only.          *)
LEMMA SameChainSameLedger ==
  ASSUME NEW B, NEW c \in Seq(B), NEW s, NEW g, NEW t, NEW h, Books(c, s, g), Books(c, t, h)
  PROVE  /\ s \in LedgerState /\ t \in LedgerState
         /\ s.stake = t.stake /\ s.nonce = t.nonce /\ s.node = t.node /\ s.pom = t.pom
         /\ \A a \in Address :
              s.balance[a] - (IF a \in g THEN FaucetAmount ELSE 0)
                = t.balance[a] - (IF a \in h THEN FaucetAmount ELSE 0)
<1>1. PICK e : History(c, e) /\ Alike(s, e[Len(c)], g)
  BY DEF Books
<1>2. PICK f : History(c, f) /\ Alike(t, f[Len(c)], h)
  BY DEF Books
<1> DEFINE u == e[Len(c)]
<1>3. u = f[Len(c)]
  BY <1>1, <1>2, OneHistory
<1>4. u \in LedgerState
  <2>1. Len(c) \in Nat
    OBVIOUS
  <2>2. Len(c) \in 0..Len(c)
    BY <2>1
  <2> QED BY <1>1, <2>2 DEF History
<1>5. Alike(s, u, g) /\ Alike(t, u, h) /\ s \in LedgerState /\ t \in LedgerState
  BY <1>1, <1>2, <1>3 DEF Books
<1>6. FaucetAmount \in Nat
  BY ServiceAssumption
<1> HIDE DEF u
<1>7. ASSUME NEW a \in Address
      PROVE  s.balance[a] - (IF a \in g THEN FaucetAmount ELSE 0)
                = t.balance[a] - (IF a \in h THEN FaucetAmount ELSE 0)
  <2>1. s.balance[a] \in Int /\ t.balance[a] \in Int /\ u.balance[a] \in Int
    BY <1>4, <1>5 DEF LedgerState
  <2>2. /\ s.balance[a] = u.balance[a] + (IF a \in g THEN FaucetAmount ELSE 0)
        /\ t.balance[a] = u.balance[a] + (IF a \in h THEN FaucetAmount ELSE 0)
    BY <1>5 DEF Alike
  <2> QED BY <1>6, <2>1, <2>2
<1> QED BY <1>5, <1>7 DEF Alike

(* A ledger with other reputations and balances, field by field.           *)
LEMMA TwoFields ==
  ASSUME NEW l \in LedgerState, NEW x \in [Address -> Int], NEW z \in [Address -> Nat]
  PROVE  [l EXCEPT !.rep = z, !.balance = x]
           = [balance |-> x, stake |-> l.stake, nonce |-> l.nonce, rep |-> z,
              node |-> l.node, pom |-> l.pom]
<1>1. PICK L : L = [l EXCEPT !.rep = z, !.balance = x]
  OBVIOUS
<1>2. L \in LedgerState
  BY <1>1 DEF LedgerState
<1>3. /\ L.balance = x /\ L.stake = l.stake /\ L.nonce = l.nonce
      /\ L.rep = z /\ L.node = l.node /\ L.pom = l.pom
  BY <1>1 DEF LedgerState
<1>4. L = [balance |-> L.balance, stake |-> L.stake, nonce |-> L.nonce, rep |-> L.rep,
           node |-> L.node, pom |-> L.pom]
  BY <1>2 DEF LedgerState
<1> QED BY <1>1, <1>3, <1>4

(* Two running nodes with the same tip have the same chain, and ledgers    *)
(* that differ in reputations and in what their own faucets gave only.     *)
THEOREM TipsDecideLedgers == Spec => []SameTipSameLedger
<1>1. ServiceInv => SameTipSameLedger
  <2> SUFFICES ASSUME ServiceInv, NEW n \in Node, NEW m \in Node, Tip(chain[n]) = Tip(chain[m])
               PROVE  chain[n] = chain[m] /\ FromChain(n) = FromChain(m)
    BY DEF SameTipSameLedger
  <2>1. PICK M, c, d, s, t, g, h : /\ M = made /\ c = chain[n] /\ d = chain[m]
                                   /\ s = ledger[n] /\ t = ledger[m]
                                   /\ g = given[n] /\ h = given[m]
    OBVIOUS
  <2>2. Sealed(M) /\ Linked(c, M) /\ Linked(d, M) /\ Books(c, s, g) /\ Books(d, t, h)
    BY <2>1 DEF ServiceInv, NodeOK
  <2>3. Tip(c) = Tip(d)
    BY <2>1
  <2>4. c = d
    BY <2>2, <2>3, SameTipSameChain
  <2>5. PICK B : B = M \cup {GenesisBlock}
    OBVIOUS
  <2>6. c \in Seq(B) /\ Books(c, t, h)
    BY <2>2, <2>4, <2>5 DEF Linked
  <2>7. /\ s \in LedgerState /\ t \in LedgerState
        /\ s.stake = t.stake /\ s.nonce = t.nonce /\ s.node = t.node /\ s.pom = t.pom
        /\ \A a \in Address :
             s.balance[a] - (IF a \in g THEN FaucetAmount ELSE 0)
               = t.balance[a] - (IF a \in h THEN FaucetAmount ELSE 0)
    BY <2>2, <2>6, SameChainSameLedger
  <2> DEFINE x == [a \in Address |-> s.balance[a] - IF a \in g THEN FaucetAmount ELSE 0]
             y == [a \in Address |-> t.balance[a] - IF a \in h THEN FaucetAmount ELSE 0]
             z == NoDeltas
  <2>8. x = y
    BY <2>7
  <2>9. /\ FromChain(n) = [s EXCEPT !.rep = z, !.balance = x]
        /\ FromChain(m) = [t EXCEPT !.rep = z, !.balance = y]
    BY <2>1 DEF FromChain
  <2> HIDE DEF x, y, z
  <2>10. [s EXCEPT !.rep = z, !.balance = x] = [t EXCEPT !.rep = z, !.balance = x]
    <3>1. x \in [Address -> Int] /\ z \in [Address -> Nat]
      <4>1. \A a \in Address : s.balance[a] \in Int
        BY <2>7 DEF LedgerState
      <4>2. FaucetAmount \in Nat
        BY ServiceAssumption
      <4> QED BY <4>1, <4>2 DEF x, z, NoDeltas
    <3>2. \A l \in LedgerState :
            [l EXCEPT !.rep = z, !.balance = x]
              = [balance |-> x, stake |-> l.stake, nonce |-> l.nonce, rep |-> z,
                 node |-> l.node, pom |-> l.pom]
      BY <3>1, TwoFields
    <3> QED BY <2>7, <3>2
  <2> QED BY <2>1, <2>4, <2>8, <2>9, <2>10
<1> QED BY <1>1, ServiceInvariant, PTL

-----------------------------------------------------------------------------
(* What a start keeps. By induction over the rows of the file.             *)

(* A block that comes next by its nonces is valid, or spends from an       *)
(* account in g.                                                           *)
LEMMA InvalidSpendsGift ==
  ASSUME NEW s \in LedgerState, NEW b, SoundBlock(b), OneEach(b), NEW g,
         \A j \in DOMAIN b.simple :
           /\ b.simple[j].nonce = s.nonce[b.simple[j].from] + 1
           /\ Affordable(s, b.simple[j]) \/ b.simple[j].from \in g,
         ~ ValidTxs(s, b.simple)
  PROVE  \E tx \in Range(b.simple) : tx.from \in g
<1>1. ASSUME NEW i \in DOMAIN b.simple
      PROVE  ExpectedNonce(s, b.simple, i) = s.nonce[b.simple[i].from] + 1
  <2>1. {j \in 1..(i - 1) : b.simple[j].from = b.simple[i].from} = {}
    <3>1. DOMAIN b.simple = 1..Len(b.simple) /\ Len(b.simple) \in Nat
      BY DEF SoundBlock
    <3>2. \A j \in 1..(i - 1) : j \in DOMAIN b.simple /\ j # i
      BY <3>1
    <3> QED BY <3>2 DEF OneEach
  <2>2. s.nonce[b.simple[i].from] \in Nat
    BY TypesOfTx DEF SoundBlock, LedgerState
  <2> QED BY <2>1, <2>2 DEF ExpectedNonce
<1>2. PICK i \in DOMAIN b.simple : ~ Affordable(s, b.simple[i])
  BY <1>1 DEF ValidTxs
<1>3. b.simple[i].from \in g /\ b.simple[i] \in Range(b.simple)
  BY <1>2 DEF Range
<1> QED BY <1>3

(* The first k blocks of d are those of c.                                 *)
Agree(d, c, k) == \A i \in 1..k : d[i] = c[i]

(* Chain d is too short, because its next block spends from g; or it has   *)
(* the first h blocks of c.                                                *)
Kept(d, c, g, h) ==
  IF h <= Len(d) THEN d[h] = c[h]
  ELSE \E tx \in Range(c[Len(d) + 1].simple) : tx.from \in g

(* Where the replay of rows that begin with the first h blocks of c is     *)
(* after row m: it has stopped at a block that spends from g, it follows   *)
(* the chain c with the ledgers e, or it has passed block h.               *)
Following(r, m, c, e, g, h) ==
  \/ r.stopped /\ Len(r.chain) < h /\ Kept(r.chain, c, g, h)
  \/ /\ ~ r.stopped /\ m < h /\ Len(r.chain) = m + 1
     /\ Agree(r.chain, c, m + 1) /\ r.ledger = e[m + 1]
  \/ h <= m + 1 /\ h <= Len(r.chain) /\ Agree(r.chain, c, h)

(* A row that fits is taken.                                               *)
LEMMA RowTaken ==
  ASSUME NEW M, NEW r \in Replayed(M), NEW b \in M, SoundBlock(b), ~ r.stopped,
         ValidBlock(r.chain, r.ledger, b)
  PROVE  /\ NextRow(r, b).chain = Append(r.chain, b)
         /\ NextRow(r, b).ledger = ApplyBlock(r.ledger, b)
         /\ ~ NextRow(r, b).stopped
<1>1. ~ (r.stopped \/ ~ ValidBlock(r.chain, r.ledger, b))
  OBVIOUS
<1>2. /\ NextRow(r, b).chain = Append(r.chain, b)
      /\ NextRow(r, b).ledger = ApplyBlock(r.ledger, b)
      /\ NextRow(r, b).stopped = r.stopped
  BY <1>1, NextRowFields
<1> QED BY <1>2

(* The block after the first m + 1 of c, if a replay that follows c meets  *)
(* it: it is taken, or the replay stops.                                   *)
LEMMA NextRowFollows ==
  ASSUME NEW M, Sealed(M), NEW c, Linked(c, M), NEW g, NEW e, History(c, e), Fits(c, e, g),
         NEW h \in 1..Len(c), NEW m \in Nat, m + 1 < h, NEW r \in Replayed(M),
         ~ r.stopped, Len(r.chain) = m + 1, Agree(r.chain, c, m + 1), r.ledger = e[m + 1],
         NEW b, b = c[m + 2]
  PROVE  Following(NextRow(r, b), m + 1, c, e, g, h)
<1> DEFINE S == M \cup {GenesisBlock}
           L == m + 1
           d == r.chain
           s == r.ledger
<1>1. c \in Seq(S) /\ d \in Seq(S) /\ s \in LedgerState
  BY DEF Linked, Replayed
<1>2. /\ \A i \in 2..Len(c) : c[i] \in M /\ c[i].prev = c[i - 1].id
      /\ \A i \in 1..Len(c) : c[i].height = i - 1
  BY DEF Linked
<1> HIDE DEF S
<1>3. Len(c) \in Nat /\ L \in 1..Len(c) /\ L + 1 \in 2..Len(c) /\ L + 1 \in 1..Len(c)
      /\ (L + 1) - 1 = L /\ L + 1 = m + 2 /\ L < h /\ L \in 1..L /\ L \in Nat /\ h \in Nat
  BY <1>1
<1> HIDE DEF L
<1>4. b \in M /\ b.prev = c[L].id /\ b.height = L /\ c[L].height = L - 1
  BY <1>2, <1>3
<1>5. SoundBlock(b) /\ OneEach(b)
  BY <1>4 DEF Sealed
<1>6. Tip(d) = c[L]
  BY <1>3 DEF Tip, Agree, L
<1>7. b.prev = Tip(d).id /\ b.height = Tip(d).height + 1
  BY <1>3, <1>4, <1>6
<1>8. CASE ~ ValidBlock(d, s, b)
  <2>1. ~ ValidTxs(s, b.simple)
    BY <1>7, <1>8 DEF ValidBlock
  <2>2. \A j \in DOMAIN b.simple :
          /\ b.simple[j].nonce = s.nonce[b.simple[j].from] + 1
          /\ Affordable(s, b.simple[j]) \/ b.simple[j].from \in g
    <3>1. s = e[L] /\ b = c[L + 1]
      BY <1>3 DEF L
    <3> QED BY <1>3, <3>1 DEF Fits
  <2>3. \E tx \in Range(b.simple) : tx.from \in g
    BY <1>1, <1>5, <2>1, <2>2, InvalidSpendsGift
  <2>4. NextRow(r, b).chain = d /\ NextRow(r, b).stopped = TRUE
    BY <1>4, <1>5, <1>8, NextRowFields
  <2>5. Len(d) = L /\ ~ (h <= L) /\ b = c[L + 1]
    BY <1>3 DEF L
  <2>6. Kept(d, c, g, h)
    BY <2>3, <2>5 DEF Kept
  <2>7. Len(d) < h
    BY <1>3, <2>5
  <2> HIDE DEF d
  <2> QED BY <2>4, <2>6, <2>7 DEF Following
<1>9. CASE ValidBlock(d, s, b)
  <2> DEFINE x == NextRow(r, b)
  <2>1. x.chain = Append(d, b) /\ x.ledger = ApplyBlock(s, b) /\ ~ x.stopped
    <3>1. ValidBlock(r.chain, r.ledger, b)
      BY <1>9
    <3> QED BY <1>4, <1>5, <3>1, RowTaken
  <2>2. b \in S /\ Len(d) = L
    BY <1>4 DEF S, L
  <2> HIDE DEF x, d
  <2>3. /\ Len(x.chain) = L + 1 /\ x.chain[L + 1] = b
        /\ \A i \in 1..L : x.chain[i] = d[i]
    BY <1>1, <1>3, <2>1, <2>2
  <2>4. Agree(x.chain, c, L + 1)
    <3>1. \A i \in 1..(L + 1) : i \in 1..L \/ i = L + 1
      BY <1>3
    <3>2. b = c[L + 1] /\ \A i \in 1..L : d[i] = c[i]
      BY <1>3 DEF Agree, d, L
    <3> QED BY <2>3, <3>1, <3>2 DEF Agree
  <2>5. x.ledger = e[L + 1]
    <3>1. e[L + 1] = ApplyBlock(e[L], c[L + 1])
      BY <1>3 DEF History
    <3> QED BY <1>3, <2>1, <3>1 DEF L
  <2>6. ~ x.stopped
    BY <2>1
  <2>7. L = m + 1
    BY DEF L
  <2>8. Following(x, L, c, e, g, h)
    BY <1>3, <2>3, <2>4, <2>5, <2>6 DEF Following
  <2> QED BY <2>7, <2>8 DEF x
<1> QED BY <1>8, <1>9 DEF d, s

(* After the replay has stopped no row is taken.                           *)
LEMMA RowSkipped ==
  ASSUME NEW M, NEW r \in Replayed(M), NEW b \in M, SoundBlock(b), r.stopped
  PROVE  NextRow(r, b).chain = r.chain /\ NextRow(r, b).stopped
<1>1. NextRow(r, b) = [r EXCEPT !.stopped = TRUE]
  BY DEF NextRow
<1> QED BY <1>1 DEF Replayed

(* One row of a replay, whether the file has it or not.                    *)
LEMMA RowFollows ==
  ASSUME NEW M, Sealed(M), NEW c, Linked(c, M), NEW g, NEW e, History(c, e), Fits(c, e, g),
         NEW h \in 1..Len(c), NEW rows, RowsOK(rows, M),
         \A k \in 1..h : (k - 1) \in DOMAIN rows /\ rows[k - 1] = c[k],
         NEW m \in Nat, NEW r \in Replayed(M), Following(r, m, c, e, g, h),
         NEW x, x = IF m + 1 \in DOMAIN rows THEN NextRow(r, rows[m + 1]) ELSE r
  PROVE  Following(x, m + 1, c, e, g, h)
<1> DEFINE S == M \cup {GenesisBlock}
           b == rows[m + 1]
<1>1. r.chain \in Seq(S) /\ c \in Seq(S)
  BY DEF Replayed, Linked
<1>2. m + 1 \in DOMAIN rows => b \in M /\ SoundBlock(b) /\ b \in S
  <2>1. m + 1 # 0
    OBVIOUS
  <2> QED BY <2>1 DEF RowsOK, Sealed
<1> HIDE DEF S
<1>3. Len(r.chain) \in Nat /\ Len(c) \in Nat /\ h \in Nat /\ h >= 1
  BY <1>1
<1>4. PICK k : k = m + 1
  OBVIOUS
<1>5. CASE r.stopped /\ Len(r.chain) < h /\ Kept(r.chain, c, g, h)
  <2>1. x.chain = r.chain /\ x.stopped
    <3>1. CASE k \in DOMAIN rows
      <4>1. x = NextRow(r, b) /\ b \in M /\ SoundBlock(b)
        BY <1>2, <1>4, <3>1
      <4> HIDE DEF b
      <4> QED BY <1>5, <4>1, RowSkipped
    <3>2. CASE k \notin DOMAIN rows
      BY <1>4, <1>5, <3>2
    <3> QED BY <3>1, <3>2
  <2> QED BY <1>5, <2>1 DEF Following
<1>6. CASE h <= m + 1 /\ h <= Len(r.chain) /\ Agree(r.chain, c, h)
  <2>1. x.chain = r.chain \/ (x.chain = Append(r.chain, b) /\ b \in S)
    <3>1. CASE k \in DOMAIN rows
      BY <1>2, <1>4, <3>1, NextRowFields
    <3>2. CASE k \notin DOMAIN rows
      BY <1>4, <3>2
    <3> QED BY <3>1, <3>2
  <2>2. Len(x.chain) >= Len(r.chain) /\ Len(x.chain) \in Nat
        /\ \A i \in 1..Len(r.chain) : x.chain[i] = r.chain[i]
    <3> HIDE DEF b
    <3>1. CASE x.chain = r.chain
      BY <1>3, <3>1
    <3>2. CASE x.chain = Append(r.chain, b) /\ b \in S
      BY <1>1, <3>2
    <3> QED BY <2>1, <3>1, <3>2
  <2>3. \A i \in 1..h : i \in 1..Len(r.chain)
    BY <1>3, <1>6
  <2>4. Agree(x.chain, c, h)
    BY <1>6, <2>2, <2>3 DEF Agree
  <2>5. h <= (m + 1) + 1 /\ h <= Len(x.chain)
    BY <1>3, <1>6, <2>2
  <2> QED BY <2>4, <2>5 DEF Following
<1>7. CASE /\ ~ r.stopped /\ m < h /\ Len(r.chain) = m + 1
           /\ Agree(r.chain, c, m + 1) /\ r.ledger = e[m + 1]
  <2>1. CASE m + 1 < h
    <3>1. m + 2 \in 1..h /\ (m + 2) - 1 = m + 1
      BY <1>3, <2>1
    <3>2. m + 1 \in DOMAIN rows /\ b = c[m + 2]
      BY <3>1
    <3>3. x = NextRow(r, b)
      BY <3>2
    <3> HIDE DEF b
    <3>4. Following(NextRow(r, b), m + 1, c, e, g, h)
      BY <1>7, <2>1, <3>2, NextRowFollows
    <3> QED BY <3>3, <3>4
  <2>2. CASE ~ (m + 1 < h)
    <3>1. h = m + 1
      BY <1>3, <1>7, <2>2
    <3> QED BY <1>3, <1>6, <1>7, <3>1
  <2> QED BY <2>1, <2>2
<1> QED BY <1>5, <1>6, <1>7 DEF Following

(* A replay of rows that begin with blocks of a chain keeps them.          *)
LEMMA ReplayKeeps ==
  ASSUME NEW M, Sealed(M), NEW c, Linked(c, M), NEW s, NEW g, Books(c, s, g),
         NEW h \in 1..Len(c), NEW rows, RowsOK(rows, M),
         \A k \in 1..h : (k - 1) \in DOMAIN rows /\ rows[k - 1] = c[k]
  PROVE  Kept(Replay(rows).chain, c, g, h)
<1>1. PICK e : History(c, e) /\ Fits(c, e, g)
  BY DEF Books
<1>2. PICK f : ReplayRun(f, rows, M) /\ Replay(rows) = f[MaxBlocks]
  BY ReplayIsRun
<1> DEFINE N == MaxBlocks
           P == {m \in 0..N : Following(f[m], m, c, e, g, h)}
           S == M \cup {GenesisBlock}
<1>3. N \in Nat /\ h \in Nat /\ h >= 1 /\ h - 1 <= N /\ 1 \in 1..Len(c)
  <2>1. N \in Nat
    BY ServiceAssumption
  <2>2. c \in Seq(S)
    BY DEF Linked
  <2> HIDE DEF S
  <2>3. Len(c) \in Nat
    BY <2>2
  <2>4. h \in Nat /\ h >= 1 /\ h \in 1..h /\ 1 \in 1..Len(c)
    BY <2>3
  <2>5. h - 1 \in 0..N
    BY <2>4 DEF RowsOK
  <2> QED BY <2>1, <2>4, <2>5
<1>4. \A m \in 0..N : f[m] \in Replayed(M)
  BY <1>2 DEF ReplayRun
<1>5. 0 \in P
  <2> DEFINE r == FirstRow(GenesisBlock)
  <2>1. f[0] = r
    BY <1>2 DEF ReplayRun, RowsOK
  <2>2. /\ r.chain = <<GenesisBlock>> /\ r.ledger = ApplyBlock(EmptyLedger, GenesisBlock)
        /\ r.stopped = FALSE
    BY FirstRowFields
  <2>3. e[1] = ApplyBlock(EmptyLedger, GenesisBlock) /\ c[1] = GenesisBlock
    <3>1. e[0] = EmptyLedger /\ \A i \in 1..Len(c) : e[i] = ApplyBlock(e[i - 1], c[i])
      BY <1>1 DEF History
    <3>2. e[1] = ApplyBlock(e[1 - 1], c[1])
      BY <1>3, <3>1
    <3>3. 1 - 1 = 0
      OBVIOUS
    <3>4. c[1] = GenesisBlock
      BY DEF Linked
    <3> QED BY <3>1, <3>2, <3>3, <3>4
  <2> HIDE DEF r
  <2>4. Len(r.chain) = 1 /\ r.chain[1] = c[1] /\ r.ledger = e[1] /\ ~ r.stopped
    BY <2>2, <2>3
  <2>5. Agree(r.chain, c, 1)
    <3>1. \A i \in 1..1 : i = 1
      OBVIOUS
    <3> QED BY <2>4, <3>1 DEF Agree
  <2>6. Following(r, 0, c, e, g, h)
    <3>1. 0 + 1 = 1 /\ 0 < h
      BY <1>3
    <3> QED BY <2>4, <2>5, <3>1 DEF Following
  <2> QED BY <1>3, <2>1, <2>6
<1>6. ASSUME NEW m \in 0..(N - 1), m \in P PROVE m + 1 \in P
  <2>1. m + 1 \in 1..N /\ (m + 1) - 1 = m /\ m + 1 \in 0..N /\ m \in 0..N /\ m \in Nat
    BY <1>3
  <2>2. f[m + 1] = IF m + 1 \in DOMAIN rows THEN NextRow(f[m], rows[m + 1]) ELSE f[m]
    BY <1>2, <2>1 DEF ReplayRun
  <2>3. PICK r, x : r = f[m] /\ x = f[m + 1]
    OBVIOUS
  <2>4. r \in Replayed(M) /\ Following(r, m, c, e, g, h)
    BY <1>4, <1>6, <2>1, <2>3
  <2>5. x = IF m + 1 \in DOMAIN rows THEN NextRow(r, rows[m + 1]) ELSE r
    BY <2>2, <2>3
  <2>6. Following(x, m + 1, c, e, g, h)
    BY <1>1, <2>1, <2>4, <2>5, RowFollows
  <2> QED BY <2>1, <2>3, <2>6
<1>7. 0..N \subseteq P
  <2>1. \A m \in 0..(N - 1) : m \in P => m + 1 \in P
    BY <1>6
  <2> HIDE DEF P, N
  <2> QED BY <1>3, <1>5, <2>1, UpTo
<1>8. Following(f[N], N, c, e, g, h)
  BY <1>3, <1>7
<1> HIDE DEF N, P
<1>9. PICK r : r = f[N]
  OBVIOUS
<1>10. CASE r.stopped /\ Len(r.chain) < h /\ Kept(r.chain, c, g, h)
  BY <1>2, <1>9, <1>10 DEF N
<1>11. ASSUME h <= Len(r.chain), Agree(r.chain, c, h)
       PROVE  Kept(r.chain, c, g, h)
  <2>1. h \in 1..h
    BY <1>3
  <2> QED BY <1>11, <2>1 DEF Kept, Agree
<1>12. CASE N < h /\ Len(r.chain) = N + 1 /\ Agree(r.chain, c, N + 1)
  <2>1. h = N + 1
    BY <1>3, <1>12
  <2>2. h <= Len(r.chain) /\ Agree(r.chain, c, h)
    BY <1>3, <1>12, <2>1
  <2> QED BY <1>2, <1>9, <1>11, <2>2 DEF N
<1>13. CASE h <= Len(r.chain) /\ Agree(r.chain, c, h)
  BY <1>2, <1>9, <1>11, <1>13 DEF N
<1> QED BY <1>8, <1>9, <1>10, <1>12, <1>13 DEF Following

(* A start keeps the blocks of the file that agree with the chain before   *)
(* the kill, up to the first that was not written or that spends a gift of *)
(* the faucet.                                                             *)
THEOREM RestartsKeepPrefix == Spec => RestartKeepsPrefix
<1>1. ASSUME ServiceInv, [Next]_vars
      PROVE  RestartStep
  <2> SUFFICES ASSUME NEW n \in Node, ~ up[n], up'[n]
               PROVE  /\ \A h \in 1..Len(chain[n]) :
                           (\A k \in 1..h : (k - 1) \in DOMAIN disk[n] /\ disk[n][k - 1] = chain[n][k])
                             => IF h <= Len(chain'[n]) THEN chain'[n][h] = chain[n][h]
                                ELSE \E tx \in Range(chain[n][Len(chain'[n]) + 1].simple) :
                                       tx.from \in given[n]
                      /\ \A h \in 2..Len(chain'[n]) : chain'[n][h].prev = chain'[n][h - 1].id
    BY DEF RestartStep
  <2>1. up \in [Node -> BOOLEAN] /\ DOMAIN chain = Node
    BY <1>1 DEF ServiceInv
  <2>2. Restart(n)
    <3>1. CASE UNCHANGED vars
      BY <3>1 DEF vars
    <3>2. CASE Next
      <4>1. PICK m \in Node :
              \/ \E tx \in script.simple : Submit(m, tx)
              \/ SealPos(m)
              \/ SealQoI(m)
              \/ \E b \in made : Ingest(m, b)
              \/ \E a \in script.faucet : Faucet(m, a)
              \/ Crash(m)
              \/ Restart(m)
        BY <3>2 DEF Next
      <4>2. up' # up
        OBVIOUS
      <4>3. Crash(m) \/ Restart(m)
        BY <4>1, <4>2 DEF Submit, SealPos, SealQoI, Ingest, Faucet
      <4>4. ~ Crash(m)
        BY <2>1 DEF Crash
      <4>5. Restart(m) => m = n
        BY <2>1 DEF Restart
      <4> QED BY <4>3, <4>4, <4>5
    <3> QED BY <1>1, <3>1, <3>2
  <2>3. PICK c, d, s, g, rows, M : /\ c = chain[n] /\ d = Replay(disk[n]).chain /\ s = ledger[n]
                                   /\ g = given[n] /\ rows = disk[n] /\ M = made
    OBVIOUS
  <2>4. chain'[n] = d
    BY <2>1, <2>2, <2>3 DEF Restart
  <2>5. Sealed(M) /\ Linked(c, M) /\ Books(c, s, g) /\ RowsOK(rows, M)
    BY <1>1, <2>3 DEF ServiceInv, NodeOK
  <2>6. ASSUME NEW h \in 1..Len(c),
               \A k \in 1..h : (k - 1) \in DOMAIN rows /\ rows[k - 1] = c[k]
        PROVE  Kept(Replay(rows).chain, c, g, h)
    BY <2>5, <2>6, ReplayKeeps
  <2>7. d = Replay(rows).chain
    BY <2>3
  <2>8. \A h \in 2..Len(d) : d[h].prev = d[h - 1].id
    BY <2>5, <2>7, ReplayBooks DEF Linked
  <2> QED BY <2>3, <2>4, <2>6, <2>7, <2>8 DEF Kept
<1> QED BY <1>1, ServiceInvariant, PTL DEF Spec, RestartKeepsPrefix

-----------------------------------------------------------------------------
(* The supply.                                                             *)

(* Taking a block does to the supply what the block says.                  *)
LEMMA TakeSupply ==
  ASSUME ServiceInv, NEW n \in Node, NEW b, SoundBlock(b), OneEach(b), MintsRight(b),
         NEW deltas, Take(n, b, deltas)
  PROVE  SupplyStep
<1>1. PICK c, s : c = chain[n] /\ s = ledger[n]
  OBVIOUS
<1>2. PICK t, r : t = ApplyBlock(s, b) /\ r = [a \in Address |-> NonNegative(t.rep[a] + deltas[a])]
  OBVIOUS
<1>3. PICK u : u = [t EXCEPT !.rep = r]
  OBVIOUS
<1>4. DOMAIN chain = Node /\ DOMAIN ledger = Node /\ \A m \in Node : Len(chain[m]) \in Nat
  BY DEF ServiceInv, NodeOK, Linked
<1>5. chain'[n] = Append(c, b) /\ ledger'[n] = u
  BY <1>1, <1>2, <1>3, <1>4 DEF Take
<1>6. \A m \in Node : m # n => chain'[m] = chain[m]
  BY <1>4 DEF Take
<1>7. Tip(Append(c, b)) = b
  <2>1. c \in Seq(made \cup {GenesisBlock})
    BY <1>1 DEF ServiceInv, NodeOK, Linked
  <2>2. c \in Seq(made \cup {GenesisBlock, b})
    BY <2>1
  <2> QED BY <2>2 DEF Tip
<1>8. s \in LedgerState /\ ValidTxs(s, b.simple)
  BY <1>1 DEF ServiceInv, NodeOK, Books, Take, ValidBlock
<1>9. t \in LedgerState
  BY <1>2, <1>8, BlockIsApplied
<1>10. Supply(u) = Supply(t)
  <2>1. u.balance = t.balance /\ u.stake = t.stake
    BY <1>3, <1>9 DEF LedgerState
  <2> QED BY <2>1 DEF Supply
<1>11. LET change == Supply(u) - Supply(s) - SumOf(b, "REWARD") + SumOf(b, "CALL") - Rebates(b)
       IN /\ SumOf(b, "REWARD") <= MintedFor(b)
          /\ change >= -SumOf(b, "SLASH")
          /\ StakesHold(s, b) => change <= 0
          /\ ~ Slashing(b) => change = 0
  BY <1>2, <1>8, <1>10, BlockSupply DEF MintsRight
<1> SUFFICES ASSUME NEW m \in Node, up[m], Len(chain'[m]) > Len(chain[m])
             PROVE  LET d == Tip(chain'[m])
                        change == Supply(ledger'[m]) - Supply(ledger[m])
                                    - SumOf(d, "REWARD") + SumOf(d, "CALL") - Rebates(d)
                    IN /\ SumOf(d, "REWARD") <= MintedFor(d)
                       /\ change >= -SumOf(d, "SLASH")
                       /\ StakesHold(ledger[m], d) => change <= 0
                       /\ ~ Slashing(d) => change = 0
  BY DEF SupplyStep
<1>12. m = n
  <2>1. \A k \in Nat : ~ (k > k)
    OBVIOUS
  <2> QED BY <1>4, <1>6, <2>1
<1>13. Tip(chain'[m]) = b /\ ledger'[m] = u /\ ledger[m] = s
  BY <1>1, <1>5, <1>7, <1>12
<1> QED BY <1>11, <1>13

(* A step that no running node's chain grows by says nothing of a supply.  *)
LEMMA NoBlockNoSupply ==
  ASSUME ServiceInv, \A n \in Node : up[n] => chain'[n] = chain[n]
  PROVE  SupplyStep
<1>1. \A m \in Node : Len(chain[m]) \in Nat
  BY DEF ServiceInv, NodeOK, Linked
<1>2. \A k \in Nat : ~ (k > k)
  OBVIOUS
<1>3. \A n \in Node : up[n] => ~ (Len(chain'[n]) > Len(chain[n]))
  BY <1>1, <1>2
<1> QED BY <1>3 DEF SupplyStep

(* A block of any network changes what its accounts hold, balances and     *)
(* stakes together, by what it mints, which is at most the pool of its     *)
(* round and nothing in a PoS block, by its negative fees, less what its   *)
(* contract calls send, and at most what it slashes                        *)
(* (Chain._apply_tx, build_system_txs, compute_round_rewards).  The pool   *)
(* has the fees of the block in it, which the proposer gets as well.       *)
THEOREM SupplyIsKept == Spec => SupplyKept
<1>1. ASSUME ServiceInv, ServiceInv', [Next]_vars PROVE SupplyStep
  <2>1. \A b \in made' : SoundBlock(b) /\ OneEach(b) /\ MintsRight(b)
    BY <1>1 DEF ServiceInv, Sealed
  <2>2. CASE UNCHANGED vars
    BY <1>1, <2>2, NoBlockNoSupply DEF vars
  <2>3. CASE Next
    <3>1. PICK n \in Node :
            \/ \E tx \in script.simple : Submit(n, tx)
            \/ SealPos(n)
            \/ SealQoI(n)
            \/ \E b \in made : Ingest(n, b)
            \/ \E a \in script.faucet : Faucet(n, a)
            \/ Crash(n)
            \/ Restart(n)
      BY <2>3 DEF Next
    <3>2. CASE SealPos(n)
      <4>1. \E b, deltas : Take(n, b, deltas) /\ b \in made'
        BY <3>2 DEF SealPos
      <4> QED BY <1>1, <2>1, <4>1, TakeSupply
    <3>3. CASE SealQoI(n)
      <4>1. \E b, deltas : Take(n, b, deltas) /\ b \in made'
        BY <3>3 DEF SealQoI
      <4> QED BY <1>1, <2>1, <4>1, TakeSupply
    <3>4. CASE \E b \in made : Ingest(n, b)
      <4>1. PICK b \in made : Ingest(n, b)
        BY <3>4
      <4>2. Take(n, b, NoDeltas) /\ b \in made'
        BY <4>1 DEF Ingest
      <4> QED BY <1>1, <2>1, <4>2, TakeSupply
    <3>5. CASE Restart(n)
      <4>1. \A m \in Node : up[m] => m # n
        BY <3>5 DEF Restart
      <4>2. DOMAIN chain = Node
        BY <1>1 DEF ServiceInv
      <4>3. \A m \in Node : m # n => chain'[m] = chain[m]
        BY <3>5, <4>2 DEF Restart
      <4> QED BY <1>1, <4>1, <4>3, NoBlockNoSupply
    <3>6. CASE \/ \E tx \in script.simple : Submit(n, tx)
               \/ \E a \in script.faucet : Faucet(n, a)
               \/ Crash(n)
      <4>1. chain' = chain
        BY <3>6 DEF Submit, Faucet, Crash
      <4> QED BY <1>1, <4>1, NoBlockNoSupply
    <3> QED BY <3>1, <3>2, <3>3, <3>4, <3>5, <3>6
  <2> QED BY <1>1, <2>2, <2>3
<1> QED BY <1>1, ServiceInvariant, PTL DEF Spec, SupplyKept
=============================================================================
