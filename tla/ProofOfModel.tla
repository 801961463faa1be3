---------------------------- MODULE ProofOfModel ----------------------------
(***************************************************************************)
(* Admission by proof of model: every verifier downloads the candidate's   *)
(* weights, compares their hash with the registered one and the candidate's*)
(* predictions with the ground truth, and sends MODEL_VERIFY.  Each holder *)
(* of a PoMVerificationState, and the chain with its pom_states, counts    *)
(* the verdicts as they come, the first one of each verifier.              *)
(***************************************************************************)
EXTENDS Naturals, FiniteSets

CONSTANTS
  PmVerifiers,  \* the sets of verifiers looked at (total_validators of them)
  PmTally,      \* the tallies
  PmF           \* f

ASSUME PomAssumption ==
  PmF \in Nat /\ \A P \in PmVerifiers : IsFiniteSet(P)

VARIABLES
  pmVerifier,   \* the verifiers
  pmAccurate,   \* the response reaches MIN_MODEL_ACCURACY
  pmMatched,    \* verifiers whose download has the registered hash
  pmTwice,      \* verifiers who downloaded again and send a second verdict
  pmPositive,   \* pmPositive[t], pmNegative[t]: the lists of tally t
  pmNegative

pmVars == <<pmVerifier, pmAccurate, pmMatched, pmTwice, pmPositive, pmNegative>>

PmInit ==
  /\ pmVerifier \in PmVerifiers
  /\ pmAccurate \in BOOLEAN
  /\ pmMatched \in SUBSET pmVerifier
  /\ pmTwice \in {{}} \cup {{v} : v \in pmVerifier}
  /\ pmPositive = [t \in PmTally |-> {}]
  /\ pmNegative = [t \in PmTally |-> {}]

\* verify_model_response; the second download may be another file.
Verdicts(v) ==
  {pmAccurate /\ v \in pmMatched}
  \cup (IF v \in pmTwice THEN {pmAccurate, FALSE} ELSE {})

Counts(t, v) == v \notin pmPositive[t] /\ v \notin pmNegative[t]

AddVerify(t, v, verified) ==
  /\ Counts(t, v)
  /\ IF verified
     THEN /\ pmPositive' = [pmPositive EXCEPT ![t] = @ \cup {v}]
          /\ UNCHANGED pmNegative
     ELSE /\ pmNegative' = [pmNegative EXCEPT ![t] = @ \cup {v}]
          /\ UNCHANGED pmPositive
  /\ UNCHANGED <<pmVerifier, pmAccurate, pmMatched, pmTwice>>

PmNext ==
  \E t \in PmTally, v \in pmVerifier : \E verified \in Verdicts(v) :
    AddVerify(t, v, verified)

PmSpec == PmInit /\ [][PmNext]_pmVars

\* Mutant: f + 1 positive verdicts admit.
AdmittedByFew(t) == Cardinality(pmPositive[t]) >= PmF + 1
\* tally_pom looks for admission first.
IsAdmitted(t) == Cardinality(pmPositive[t]) >= 2 * PmF + 1
IsRejected(t) ==
  /\ ~IsAdmitted(t)
  /\ \/ Cardinality(pmNegative[t]) >= 2 * PmF + 1
     \/ Cardinality(pmVerifier) - Cardinality(pmNegative[t]) < 2 * PmF + 1
AllIn(t) == pmPositive[t] \cup pmNegative[t] = pmVerifier

-----------------------------------------------------------------------------
\* Of at most 4f+1 verifiers who each send one verdict, no tally admits a node
\* that another rejects, in whatever orders the verdicts came and however many
\* are still on their way; and a tally that has all verdicts has decided.
VerdictsAgree ==
  Cardinality(pmVerifier) <= 4 * PmF + 1 =>
    /\ pmTwice = {} =>
         \A t, u \in PmTally : ~(IsAdmitted(t) /\ IsRejected(u))
    /\ \A t \in PmTally : AllIn(t) => IsAdmitted(t) \/ IsRejected(t)
=============================================================================
