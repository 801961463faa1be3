-------------------------- MODULE ValidatorStakes --------------------------
(***************************************************************************)
(* ValidatorRegistry: the life of a validator from its registration, with  *)
(* slashing, deactivation, and export_state / import_state across a        *)
(* restart.  An address is registered at most once, so it stands for the   *)
(* validator's id.  Rewards, heartbeats and counters decide nothing and    *)
(* are left out.                                                           *)
(***************************************************************************)
EXTENDS Naturals

CONSTANTS
  VrAddress,
  VrMinStake,   \* min_stake
  VrStakes,     \* stakes asked for in registrations
  VrAmounts     \* amounts slashed

ASSUME ValidatorAssumption ==
  VrMinStake \in Nat /\ VrStakes \subseteq Nat /\ VrAmounts \subseteq Nat

VARIABLES
  vrInfo,      \* validators: a record or NoValidator
  vrHistory,   \* addresses with a stake_history
  vrExport     \* the last exported state: validators only matter

vrVars == <<vrInfo, vrHistory, vrExport>>

VrStatus == {"absent", "pending", "active", "inactive", "slashed"}

\* pledged, confirmed and back are not fields of ValidatorInfo: the stake at
\* the registration, whether confirm_stake succeeded, whether
\* reactivate_validator did.
Validator == [status : VrStatus, stake : Nat, paid : Nat, pledged : Nat,
              confirmed : BOOLEAN, back : BOOLEAN]
NoValidator == [status |-> "absent", stake |-> 0, paid |-> 0, pledged |-> 0,
                confirmed |-> FALSE, back |-> FALSE]

VrInit ==
  /\ vrInfo = [a \in VrAddress |-> NoValidator]
  /\ vrHistory = {}
  /\ vrExport = [a \in VrAddress |-> NoValidator]

Registered(a) == vrInfo[a].status # "absent"

\* RegistrationRequest.validate
Validates(s) == s >= VrMinStake

\* Mutant: the stake is not compared with the minimum.
RegisterUnchecked(a, s) ==
  /\ ~Registered(a)
  /\ vrInfo' = [vrInfo EXCEPT ![a] =
       [NoValidator EXCEPT !.status = "pending", !.stake = s, !.pledged = s]]
  /\ vrHistory' = vrHistory \cup {a}
  /\ UNCHANGED vrExport

RegisterValidator(a, s) ==
  /\ Validates(s) /\ ~Registered(a)
  /\ vrInfo' = [vrInfo EXCEPT ![a] =
       [NoValidator EXCEPT !.status = "pending", !.stake = s, !.pledged = s]]
  /\ vrHistory' = vrHistory \cup {a}
  /\ UNCHANGED vrExport

\* A validator brought back by import_state has no stake_history: KeyError.
ConfirmStake(a) ==
  /\ vrInfo[a].status = "pending" /\ a \in vrHistory
  /\ vrInfo' = [vrInfo EXCEPT ![a].status = "active", ![a].confirmed = TRUE]
  /\ UNCHANGED <<vrHistory, vrExport>>

SlashValidator(a, amount) ==
  LET v == vrInfo[a]
      cut == IF amount <= v.stake THEN amount ELSE v.stake
  IN /\ Registered(a)
     /\ vrInfo' = [vrInfo EXCEPT
          ![a].stake = v.stake - cut, ![a].paid = v.paid + cut,
          ![a].status = IF v.stake - cut < VrMinStake THEN "slashed" ELSE @]
     /\ UNCHANGED <<vrHistory, vrExport>>

DeactivateValidator(a) ==
  /\ Registered(a)
  /\ vrInfo' = [vrInfo EXCEPT ![a].status = "inactive"]
  /\ UNCHANGED <<vrHistory, vrExport>>

\* Neither the stake nor its confirmation is looked at.
ReactivateValidator(a) ==
  /\ vrInfo[a].status = "inactive"
  /\ vrInfo' = [vrInfo EXCEPT ![a].status = "active", ![a].back = TRUE]
  /\ UNCHANGED <<vrHistory, vrExport>>

ExportState ==
  /\ vrExport' = vrInfo
  /\ UNCHANGED <<vrInfo, vrHistory>>

\* import_state overwrites what it holds and keeps the rest, in the registry
\* at hand or in that of a new process.
ImportState(restart) ==
  /\ vrHistory' = IF restart THEN {} ELSE vrHistory
  /\ vrInfo' = [a \in VrAddress |->
                  IF vrExport[a].status = "absent" /\ ~restart
                  THEN vrInfo[a] ELSE vrExport[a]]
  /\ UNCHANGED vrExport

VrNext ==
  \/ \E a \in VrAddress :
       \/ \E s \in VrStakes : RegisterValidator(a, s)
       \/ \E amount \in VrAmounts : SlashValidator(a, amount)
       \/ ConfirmStake(a) \/ DeactivateValidator(a) \/ ReactivateValidator(a)
  \/ ExportState
  \/ \E restart \in BOOLEAN : ImportState(restart)

VrSpec == VrInit /\ [][VrNext]_vrVars

-----------------------------------------------------------------------------
\* An active validator that never went through reactivate_validator has a
\* confirmed stake of at least the minimum, and what a validator pledged is
\* its stake or was paid, through slashes, exports and imports in any order.
ActiveIsStaked ==
  \A a \in VrAddress :
    LET v == vrInfo[a] IN
      /\ v.status = "active" /\ ~v.back => v.confirmed /\ v.stake >= VrMinStake
      /\ v.stake + v.paid = v.pledged
=============================================================================
