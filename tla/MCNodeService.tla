--------------------------- MODULE MCNodeService ---------------------------
EXTENDS NodeService

CONSTANTS ann, bob, d1, d2, d3, d4, g

MCAddress == {ann, bob, d1, d2, d3, d4, g}
MCNode == {d1, d2}

Simple(type, from, to, amount, fee, nonce) ==
  [type |-> type, from |-> from, to |-> to, amount |-> amount, fee |-> fee,
   nonce |-> nonce, ok |-> FALSE]

Validators == <<d1, d2, d3, d4>>

\* ann and the validators get an allocation; the validators register and stake,
\* d3 more than it has.  The minimum stake is 2: one slash of 1 leaves a
\* validator below it.
MCGenesisTxs ==
  <<Simple("TRANSFER", g, ann, 20, 0, 1)>>
  \o [i \in 1..4 |-> Simple("TRANSFER", g, Validators[i], IF i = 3 THEN 1 ELSE 2, 0, i + 1)]
  \o [i \in 1..4 |-> Simple("REGISTER_DNN", Validators[i], None, 0, 0, 1)]
  \o [i \in 1..4 |-> Simple("STAKE", Validators[i], None, 2, 0, 2)]

MCGenesisAdmits == [i \in 1..4 |-> SystemTx("ADMITTED", g, Validators[i], 0)]

MCRounds == {[primary |-> d1, others |-> {}], [primary |-> d2, others |-> {d4}]}

Verify(v) == [SystemTx("VERIFY", d1, bob, 0) EXCEPT !.ok = v]

\* Two spends of ann that its 20 cover one at a time; a spend and the next one;
\* a fee with an unstaking; registrations of a PoS and of a DNN node, the
\* latter with its PoM session; negative amounts and fees; an account that
\* spends what a faucet gave it.
MCScripts ==
  {[simple |-> txs, pom |-> {}, faucet |-> {}] : txs \in
     {{Simple("TRANSFER", ann, bob, 8, 12, 1), Simple("STAKE", ann, None, 8, 12, 1)},
      {Simple("TRANSFER", ann, bob, 8, 0, 1), Simple("TRANSFER", ann, bob, 8, 12, 2)},
      {Simple("TRANSFER", ann, d1, 3, 12, 1), Simple("UNSTAKE", d1, None, 1, 2, 3)},
      {Simple("DEPLOY", ann, None, 0, 12, 1), Simple("CALL", ann, None, 2, 0, 2)},
      {Simple("REGISTER", ann, None, 0, 12, 1), Simple("RESPONSE", ann, None, 0, 0, 2)},
      {Simple("REGISTER_POS", bob, None, 0, 0, 1)},
      {Simple("TRANSFER", ann, d1, -3, -1, 1), Simple("STAKE", d4, None, -3, 1, 3)},
      {Simple("UNSTAKE", ann, None, -21, 0, 1), Simple("DEPLOY", d2, None, 0, -20, 3)}}}
  \cup {[simple |-> {Simple("REGISTER_DNN", bob, None, 0, 1, 1)}, pom |-> txs,
         faucet |-> {}] :
          txs \in {{Verify(TRUE), Verify(FALSE)},
                   {SystemTx("ADMITTED", g, bob, 0), SystemTx("REJECTED", g, bob, 0)}}}
  \cup {[simple |-> {Simple("TRANSFER", bob, ann, 7, 1, 1)}, pom |-> {}, faucet |-> {bob}]}

\* Transactions that the supply should not feel, two of them with a fee.
MCFeeScripts ==
  {[simple |-> {Simple("TRANSFER", ann, bob, 8, 6, 1), Simple("DEPLOY", ann, None, 0, 3, 2)},
    pom |-> {}, faucet |-> {bob}]}
=============================================================================
