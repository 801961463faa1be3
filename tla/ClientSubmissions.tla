------------------------- MODULE ClientSubmissions -------------------------
(***************************************************************************)
(* Who numbers the transactions of an account.  A run of the wallet asks a *)
(* node for the account's nonce and posts a transaction with the next one; *)
(* an InferenceNode or PoSNode counts for itself.  Nothing keeps two of    *)
(* them from using one account.  The node takes the next nonce after its   *)
(* chain's, any number of times, and seals at most one transaction of an   *)
(* account at a time, of those offered the ones with the highest fees.     *)
(*                                                                         *)
(* All transactions cost 1 and their fee.                                  *)
(***************************************************************************)
EXTENDS Naturals, Sequences, FiniteSets, Sieve

CONSTANTS
  ClAccount,
  ClWallet,     \* runs of the wallet at a time
  ClOwner,      \* ClOwner[w]: the account of wallet w
  ClBuilder,    \* the account of the node that counts for itself
  ClFunds,      \* ClFunds[a]: the balance of a
  ClFees,       \* the fees the wallets choose from
  ClBuilderFees,
  ClPoolSize,   \* MEMPOOL_MAX_SIZE
  ClBlockSize,  \* MAX_SIMPLE_TXS
  ClMaxTxs      \* bound: transactions made

ASSUME ClAssumption ==
  /\ ClOwner \in [ClWallet -> ClAccount] /\ ClBuilder \in ClAccount
  /\ ClFunds \in [ClAccount -> Nat] /\ ClFees \cup ClBuilderFees \subseteq Nat
  /\ ClPoolSize \in Nat /\ ClBlockSize \in Nat /\ ClMaxTxs \in Nat

VARIABLES
  clNonce,      \* the chain's nonce of each account
  clFunds,      \* the chain's balance of each account
  clPool,       \* pending transactions, in order of arrival
  clRead,       \* clRead[w]: the nonce w will post with, 0 before it asked
  clCounter,    \* _nonce of the builder
  clBuilt,      \* transactions it built and did not hand in yet
  clMade,
  clAccepted,   \* transactions answered with "accepted"
  clConfirmed   \* transactions in blocks

clVars == <<clNonce, clFunds, clPool, clRead, clCounter, clBuilt, clMade,
            clAccepted, clConfirmed>>

ClInit ==
  /\ clNonce = [a \in ClAccount |-> 0]
  /\ clFunds = ClFunds
  /\ clPool = <<>>
  /\ clRead = [w \in ClWallet |-> 0]
  /\ clCounter = 0 /\ clBuilt = {} /\ clMade = 0
  /\ clAccepted = {} /\ clConfirmed = {}

\* The timestamp of a transaction makes it different from every other one.
MadeTx(a, nonce, fee) == [from |-> a, nonce |-> nonce, fee |-> fee, id |-> clMade + 1]

\* POST /tx/submit: submit_tx, then Mempool.add.
SubmitTx(tx) ==
  IF tx.nonce = clNonce[tx.from] + 1 /\ Len(clPool) < ClPoolSize
  THEN clPool' = Append(clPool, tx) /\ clAccepted' = clAccepted \cup {tx}
  ELSE UNCHANGED <<clPool, clAccepted>>

\* send, stake, unstake and register begin with GET /state/balance.
WalletReads(w) ==
  /\ clRead[w] = 0
  /\ clRead' = [clRead EXCEPT ![w] = clNonce[ClOwner[w]] + 1]
  /\ UNCHANGED <<clNonce, clFunds, clPool, clCounter, clBuilt, clMade,
                 clAccepted, clConfirmed>>

WalletPosts(w) ==
  /\ clRead[w] # 0 /\ clMade < ClMaxTxs
  /\ \E fee \in ClFees : SubmitTx(MadeTx(ClOwner[w], clRead[w], fee))
  /\ clMade' = clMade + 1
  /\ clRead' = [clRead EXCEPT ![w] = 0]
  /\ UNCHANGED <<clNonce, clFunds, clCounter, clBuilt, clConfirmed>>

\* A builder numbers its transactions with a counter of its own.
Numbered(fee) == MadeTx(ClBuilder, clCounter + 1, fee)

\* build_register_tx, build_stake_tx, respond_to_challenge.
Build ==
  /\ clMade < ClMaxTxs
  /\ clCounter' = clCounter + 1
  /\ \E fee \in ClBuilderFees : clBuilt' = clBuilt \cup {Numbered(fee)}
  /\ clMade' = clMade + 1
  /\ UNCHANGED <<clNonce, clFunds, clPool, clRead, clAccepted, clConfirmed>>

\* In whatever order; the counter does not know the answer.
HandIn(tx) ==
  /\ SubmitTx(tx)
  /\ clBuilt' = clBuilt \ {tx}
  /\ UNCHANGED <<clNonce, clFunds, clRead, clCounter, clMade, clConfirmed>>

SyncNonce ==
  /\ clCounter # clNonce[ClBuilder]
  /\ clCounter' = clNonce[ClBuilder]
  /\ UNCHANGED <<clNonce, clFunds, clPool, clRead, clBuilt, clMade, clAccepted,
                 clConfirmed>>

\* Mutant: only the oldest pending transaction of a sender is looked at.
OffersOldest(a) ==
  {clPool[i] : i \in {k \in DOMAIN clPool :
     /\ clPool[k].from = a /\ clPool[k].nonce = clNonce[a] + 1
     /\ \A j \in 1..(k - 1) : clPool[j].from # a}}
\* select_simple: the first with the next nonce of each sender.
Offers(a) ==
  {clPool[i] : i \in {k \in DOMAIN clPool :
     /\ clPool[k].from = a /\ clPool[k].nonce = clNonce[a] + 1
     /\ \A j \in 1..(k - 1) : clPool[j].from = a => clPool[j].nonce # clPool[k].nonce}}

Offered == UNION {Offers(a) : a \in ClAccount}

\* The highest fees first, as many as fit; which of equal fees is left open.
Selections ==
  {block \in SUBSET Offered :
     /\ Cardinality(block) <= ClBlockSize
     /\ block = Offered \/ Cardinality(block) = ClBlockSize
     /\ \A tx \in block, left \in Offered \ block : tx.fee >= left.fee}

Cost(tx) == 1 + tx.fee

\* A selected transaction that is not covered fails the whole block, and is
\* selected again the next time.  (A block with nothing in it changes nothing.)
SealBlock ==
  \E block \in Selections :
    LET paid(a) == {tx \in block : tx.from = a}
        cost(a) == IF paid(a) = {} THEN 0 ELSE Cost(CHOOSE tx \in paid(a) : TRUE)
    IN /\ block # {} /\ \A tx \in block : Cost(tx) <= clFunds[tx.from]
       /\ clConfirmed' = clConfirmed \cup block
       /\ clNonce' = [a \in ClAccount |-> IF paid(a) = {} THEN clNonce[a] ELSE clNonce[a] + 1]
       /\ clFunds' = [a \in ClAccount |-> clFunds[a] - cost(a)]
       /\ clPool' = Without(clPool, block)
       /\ UNCHANGED <<clRead, clCounter, clBuilt, clMade, clAccepted>>

ClNext ==
  \/ \E w \in ClWallet : WalletReads(w) \/ WalletPosts(w)
  \/ Build
  \/ \E tx \in clBuilt : HandIn(tx)
  \/ SyncNonce
  \/ SealBlock

ClSpec == ClInit /\ [][ClNext]_clVars

-----------------------------------------------------------------------------
Settled(tx) == \E c \in clConfirmed : c.from = tx.from /\ c.nonce = tx.nonce

\* What the step seals.
Sealed == clConfirmed' \ clConfirmed
\* The account's transaction with this nonce was offered, but the block is full
\* of others that pay no less.
Outbid(tx) ==
  /\ Cardinality(Sealed) = ClBlockSize
  /\ \E offer \in Offers(tx.from) :
       offer.nonce = tx.nonce /\ \A c \in Sealed : c.fee >= offer.fee

\* Whoever numbered it, and whatever else of its account waits: a transaction
\* answered with "accepted" is in the next block the node seals, or another one
\* of the account with its nonce is in a block by then, unless the block is full
\* of others that pay no less than what its account has on offer.  (None is
\* sealed while a selected transaction is not covered.)
AcceptedSettles ==
  [][SealBlock => \A tx \in clAccepted : Settled(tx)' \/ Outbid(tx)]_clVars
=============================================================================
