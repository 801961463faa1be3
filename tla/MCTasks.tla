------------------------------ MODULE MCTasks ------------------------------
(***************************************************************************)
(* The parts whose tasks are to get on: the engine's round loop, the       *)
(* timeout manager, the way of client transactions into blocks and of      *)
(* blocks to the nodes.  They share no state here, so a behaviour follows  *)
(* one of them and leaves the others in an initial state, where none of    *)
(* their fair actions is enabled.                                          *)
(***************************************************************************)
EXTENDS EngineRequests, RoundTimeouts, ClientSubmissions, BlockGossip, TLC

Sequence == INSTANCE SequencesExt

CONSTANTS r1, r2, q1, q2, w1, w2, ax, ay, n1, n2, n3

VARIABLE which

others(all) == UNCHANGED all
allVars == <<which, tmVars, clVars, vars, bgVars>>

MCInit ==
  /\ which \in {"timeouts", "clients", "engine", "gossip"}
  /\ TmInit /\ (which # "timeouts" => tmAsync = FALSE)
  /\ ClInit /\ Init
  /\ BgInit /\ (which # "gossip" => failures = 0)

MCNext ==
  /\ UNCHANGED which
  /\ \/ which = "timeouts" /\ TmNext
        /\ others(<<clVars, vars, bgVars>>)
     \/ which = "clients" /\ ClNext
        /\ others(<<tmVars, vars, bgVars>>)
     \/ which = "engine" /\ Next
        /\ others(<<tmVars, clVars, bgVars>>)
     \/ which = "gossip" /\ BgNext
        /\ others(<<tmVars, clVars, vars>>)

MCSpec ==
  MCInit /\ [][MCNext]_allVars /\ TmFairness /\ WF_vars(Resume) /\ BgFairness

-----------------------------------------------------------------------------
(* Constants *)

\* ax can pay for three transactions, ay for two.
Purses == (ax :> 3) @@ (ay :> 2)
Owners == (w1 :> ax) @@ (w2 :> ay)

\* n2 and n3 dial the sealer n1, n3 dials n2; nothing fails.
Triangle == [dials |-> {<<n2, n1>>, <<n3, n1>>, <<n3, n2>>}, failures |-> 0]

\* n3 knows the sealer through n2 only.
Line == [dials |-> {<<n2, n1>>, <<n3, n2>>}, failures |-> 1]
TriangleAndLine == {Triangle, Line}

\* Without does what SelectSeq does.
ASSUME WithoutIsSelectSeq ==
  \A s \in Sequence!BoundedSeq(1..3, 4), R \in SUBSET (1..3) :
    Without(s, R) = SelectSeq(s, LAMBDA e : e \notin R)
=============================================================================
