----------------------------- MODULE ModelStore -----------------------------
(***************************************************************************)
(* ModelRegistry and ModelValidator: models with a state, the results of   *)
(* validating them, and the approval that follows a result that passed.    *)
(*                                                                         *)
(* One SQLite connection is shared by several threads.  A call is one step *)
(* except add_validation, which commits the result and then approves the   *)
(* model in a transaction of its own.                                      *)
(***************************************************************************)
EXTENDS Naturals, FiniteSets

CONSTANTS
  MsModel,      \* model ids
  MsNames,      \* the pairs of a name and a version, as numbers from 1
  MsMaxResults  \* bound: validations recorded

ASSUME MsAssumption == MsMaxResults \in Nat

MsState == {"absent", "draft", "approved", "rejected"}
Checks == {"basic", "file", "size", "framework", "metadata"}

VARIABLES
  msState,     \* msState[m]: the state column, "absent" without a row
  msName,      \* msName[m]: its name and version
  msResults,   \* the validations table: [model, passed, early], with early:
               \* recorded before the model was
  msCount,
  msPending,   \* models whose approval has still to be written
  msMoved,     \* models whose state was then set by update_model_state
  msCut        \* models whose approval a kill has prevented

msVars == <<msState, msName, msResults, msCount, msPending, msMoved, msCut>>

MsInit ==
  /\ msState = [m \in MsModel |-> "absent"]
  /\ msName = [m \in MsModel |-> 0]
  /\ msResults = {} /\ msCount = 0
  /\ msPending = {} /\ msMoved = {} /\ msCut = {}

\* Without its file a model fails two checks: the size check raises.  The
\* metadata check only warns.
FailedChecks(faults) ==
  IF "file" \in faults THEN (faults \cup {"size"}) \ {"metadata"}
  ELSE faults \ {"metadata"}
\* Mutant: a check that fails only counts.
ValidatedAnyway(faults) ==
  [passed |-> TRUE, checksPassed |-> Cardinality(Checks \ FailedChecks(faults))]
Validated(faults) ==
  [passed |-> FailedChecks(faults) = {},
   checksPassed |-> Cardinality(Checks \ FailedChecks(faults))]

\* model_id is the key, and (name, version) is unique.
RegisterModel(m, n) ==
  /\ msState[m] = "absent"
  /\ \A q \in MsModel : msName[q] # n
  /\ msState' = [msState EXCEPT ![m] = "draft"]
  /\ msName' = [msName EXCEPT ![m] = n]
  /\ UNCHANGED <<msResults, msCount, msPending, msMoved, msCut>>

\* Any state may follow any other.  Without a row nothing happens.
UpdateModelState(m, s) ==
  /\ msState[m] # "absent"
  /\ msState' = [msState EXCEPT ![m] = s]
  /\ msMoved' = msMoved \cup {m}
  /\ UNCHANGED <<msName, msResults, msCount, msPending, msCut>>

\* The foreign key is not enforced: a model without a row gets results too.
\* A result that did not pass never rejects a model.
AddValidation(m, faults) ==
  LET result == Validated(faults) IN
  /\ msCount < MsMaxResults
  /\ msCount' = msCount + 1
  /\ msResults' = msResults \cup
       {[model |-> m, passed |-> result.passed, checks |-> result.checksPassed,
         early |-> msState[m] = "absent"]}
  /\ msPending' = IF result.passed THEN msPending \cup {m} ELSE msPending
  /\ UNCHANGED <<msState, msName, msMoved, msCut>>

Approve(m) ==
  /\ m \in msPending
  /\ msPending' = msPending \ {m}
  /\ IF msState[m] = "absent" THEN UNCHANGED <<msState, msMoved, msCut>>
     ELSE /\ msState' = [msState EXCEPT ![m] = "approved"]
          /\ msMoved' = msMoved \ {m} /\ msCut' = msCut \ {m}
  /\ UNCHANGED <<msName, msResults, msCount>>

KillStore ==
  /\ msPending # {}
  /\ msCut' = msCut \cup msPending
  /\ msPending' = {}
  /\ UNCHANGED <<msState, msName, msResults, msCount, msMoved>>

MsNext ==
  \/ \E m \in MsModel :
       \/ \E n \in MsNames : RegisterModel(m, n)
       \/ \E s \in MsState \ {"absent"} : UpdateModelState(m, s)
       \/ \E faults \in SUBSET Checks : AddValidation(m, faults)
       \/ Approve(m)
  \/ KillStore

MsSpec == MsInit /\ [][MsNext]_msVars

-----------------------------------------------------------------------------
\* A model is approved exactly when a result passed all five checks, with
\* these exceptions: its state was set by hand since, the process died
\* between result and approval, or the result came before the model did.
PassedIsApproved ==
  \A m \in MsModel : m \notin msMoved =>
    /\ msState[m] = "approved"
         => \E r \in msResults : r.model = m /\ r.passed /\ r.checks = 5
    /\ (\E r \in msResults : r.model = m /\ r.checks = 5 /\ ~r.early)
         /\ m \notin msPending \cup msCut
         => msState[m] = "approved"
=============================================================================
