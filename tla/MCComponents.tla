---------------------------- MODULE MCComponents ----------------------------
(***************************************************************************)
(* The parts of a node around the QoI machine, checked in one run: they    *)
(* share no state, so a behaviour follows one of them, picked at the       *)
(* start, and leaves the others in an initial state.                       *)
(***************************************************************************)
EXTENDS PoSRounds, ViewVotes, DelayedDelivery, CommitThreads, EventLog,
        StreamClients, ValidatorStakes, ModelStore, ProofOfModel, QuorumElection,
        TrainingRuns, ImageFetch, PeerDirectory, TLC

CONSTANTS r1, r2, s1, s2, s3, c1, c2, c3, a1, m1, m2, t1, t2, e1, e2, ca, cb, z1, z2,
          i1, i2, n1, n2, n3, p1, p2, p3

VARIABLE which

others(all) == UNCHANGED all
allVars == <<which, vcVars, scVars, thVars, lgVars, stVars, vrVars, msVars, pmVars,
             qsVars, tnVars, imVars, pdVars, vars>>

\* A fixed initial state of each component, for those not followed.
ThRest == ThInit /\ thPool = 1
LgRest == LgInit /\ lgThreads = 1
StRest == StInit /\ stClients = {}
PmRest == PmInit /\ pmVerifier = {1, 2, 3, 4} /\ pmAccurate = TRUE
                 /\ pmMatched = {} /\ pmTwice = {}
QsRest == QsInit /\ qsConfig = [pool |-> 5, dnn |-> 5, floor |-> 4, target |-> 4, ceiling |-> 19]
                 /\ \A e \in QsElector : ~qsImage[e]
ImRest == ImInit /\ imFile = "none" /\ imHolds = {}

Components == {"views", "scheduler", "threads", "log", "stream", "stakes",
               "models", "pom", "quorum", "training", "images", "peers",
               "pos"}

MCInit ==
  /\ which \in Components
  /\ VcInit /\ ScInit
  /\ IF which = "threads" THEN ThInit ELSE ThRest
  /\ IF which = "log" THEN LgInit ELSE LgRest
  /\ IF which = "stream" THEN StInit ELSE StRest
  /\ VrInit /\ MsInit
  /\ IF which = "pom" THEN PmInit ELSE PmRest
  /\ IF which = "quorum" THEN QsInit ELSE QsRest
  /\ TnInit
  /\ IF which = "images" THEN ImInit ELSE ImRest
  /\ PdInit /\ Init /\ (which # "pos" => pool = [n \in Node |-> {}])

MCNext ==
  /\ UNCHANGED which
  /\ \/ which = "views" /\ VcNext
        /\ others(<<scVars, thVars, lgVars, stVars, vrVars, msVars, pmVars, qsVars, tnVars,
                    imVars, pdVars, vars>>)
     \/ which = "scheduler" /\ ScNext
        /\ others(<<vcVars, thVars, lgVars, stVars, vrVars, msVars, pmVars, qsVars, tnVars,
                    imVars, pdVars, vars>>)
     \/ which = "threads" /\ ThNext
        /\ others(<<vcVars, scVars, lgVars, stVars, vrVars, msVars, pmVars, qsVars, tnVars,
                    imVars, pdVars, vars>>)
     \/ which = "log" /\ LgNext
        /\ others(<<vcVars, scVars, thVars, stVars, vrVars, msVars, pmVars, qsVars, tnVars,
                    imVars, pdVars, vars>>)
     \/ which = "stream" /\ StNext
        /\ others(<<vcVars, scVars, thVars, lgVars, vrVars, msVars, pmVars, qsVars, tnVars,
                    imVars, pdVars, vars>>)
     \/ which = "stakes" /\ VrNext
        /\ others(<<vcVars, scVars, thVars, lgVars, stVars, msVars, pmVars, qsVars, tnVars,
                    imVars, pdVars, vars>>)
     \/ which = "models" /\ MsNext
        /\ others(<<vcVars, scVars, thVars, lgVars, stVars, vrVars, pmVars, qsVars, tnVars,
                    imVars, pdVars, vars>>)
     \/ which = "pom" /\ PmNext
        /\ others(<<vcVars, scVars, thVars, lgVars, stVars, vrVars, msVars, qsVars, tnVars,
                    imVars, pdVars, vars>>)
     \/ which = "quorum" /\ QsNext
        /\ others(<<vcVars, scVars, thVars, lgVars, stVars, vrVars, msVars, pmVars, tnVars,
                    imVars, pdVars, vars>>)
     \/ which = "training" /\ TnNext
        /\ others(<<vcVars, scVars, thVars, lgVars, stVars, vrVars, msVars, pmVars, qsVars,
                    imVars, pdVars, vars>>)
     \/ which = "images" /\ ImNext
        /\ others(<<vcVars, scVars, thVars, lgVars, stVars, vrVars, msVars, pmVars, qsVars,
                    tnVars, pdVars, vars>>)
     \/ which = "peers" /\ PdNext
        /\ others(<<vcVars, scVars, thVars, lgVars, stVars, vrVars, msVars, pmVars, qsVars,
                    tnVars, imVars, vars>>)
     \/ which = "pos" /\ Next
        /\ others(<<vcVars, scVars, thVars, lgVars, stVars, vrVars, msVars, pmVars, qsVars,
                    tnVars, imVars, pdVars>>)

MCSpec == MCInit /\ [][MCNext]_allVars

-----------------------------------------------------------------------------
(* Constants *)

NetworkSizes == {[pool |-> 5, dnn |-> 5, floor |-> 4, target |-> 4, ceiling |-> 19],
                 [pool |-> 3, dnn |-> 4, floor |-> 4, target |-> 10, ceiling |-> 19],
                 [pool |-> 3, dnn |-> 3, floor |-> 1, target |-> 1, ceiling |-> 19],
                 [pool |-> 6, dnn |-> 7, floor |-> 4, target |-> 10, ceiling |-> 19]}

\* The odd places first, then the even ones.
Earlier(q, p) == IF p % 2 = 1 THEN q % 2 = 1 /\ q < p ELSE q % 2 = 1 \/ q < p
OddsFirst == [len \in 1..6 |-> [k \in 1..len |->
                {p \in 1..len : Cardinality({q \in 1..len : Earlier(q, p)}) < k}]]

\* The later a node registered, the better it knows the image.
LaterIsNearer == [n \in 1..6 |-> 7 - n]
Places == (e1 :> 2) @@ (e2 :> 5)

\* Every message comes once, and the COMMIT of s1 a second time.
OneComesTwice == [m \in ThMessage |-> IF m = <<"COMMIT", s1>> THEN 2 ELSE 1]

\* n1 is told of n2, n2 of n3; n1 is started twice and its operator enters n3.
Flags == (n1 :> {n2}) @@ (n2 :> {}) @@ (n3 :> {})
Configured == (n1 :> {}) @@ (n2 :> {n3}) @@ (n3 :> {})
Starts == (n1 :> 2) @@ (n2 :> 1) @@ (n3 :> 1)
Calls == {[at |-> n1, url |-> n3]}

\* One proposer of PoS blocks starts two rounds, so the other nodes are alike.
SecondTry == [n \in Node |-> IF n = p1 THEN 2 ELSE 1]
Replicas == Permutations(Node \ {p1})

Panels == {{1, 2, 3, 4}}
=============================================================================
