----------------------------- MODULE ViewVotes -----------------------------
(***************************************************************************)
(* ViewChanger, one round id: a replica asks for the view after the one it *)
(* is in, collects the VIEW_CHANGE messages that come in, and announces    *)
(* NEW_VIEW when it holds 2f+1 of them.                                    *)
(*                                                                         *)
(* The object leaves carrying events to others to its bus: a VIEW_CHANGE   *)
(* may reach any replica, its sender included, any number of times or      *)
(* never.                                                                  *)
(***************************************************************************)
EXTENDS Naturals, FiniteSets

CONSTANTS
  VcNode,
  VcHandler,   \* bound: the replicas that handle messages; the others ask
  VcMaxView,   \* bound: old_view of a request
  VcMaxCalls   \* bound: view changes a replica initiates

ASSUME VcAssumption ==
  IsFiniteSet(VcNode) /\ VcHandler \subseteq VcNode /\ VcMaxView \in Nat

VARIABLES
  vcState,     \* _view_changes[round]: NoChange or [newView, votes, completed]
  vcCalls,     \* view changes initiated so far
  vcSent,      \* VIEW_CHANGE messages published
  vcNews       \* NEW_VIEW events published

vcVars == <<vcState, vcCalls, vcSent, vcNews>>

NoChange == [newView |-> 0, votes |-> {}, completed |-> FALSE]
Change(v) == [newView |-> v, votes |-> {}, completed |-> FALSE]

\* Mutant: counts one vote less.
VcNeededTwoF == 2 * ((Cardinality(VcNode) - 1) \div 3)
VcNeeded == 2 * ((Cardinality(VcNode) - 1) \div 3) + 1

VcInit ==
  /\ vcState = [n \in VcNode |-> NoChange]
  /\ vcCalls = [n \in VcNode |-> 0]
  /\ vcSent = {} /\ vcNews = {}

\* Refused while a change is known, whoever asked for it.  The replica's own
\* vote is not counted here.  The wait that follows reads the state and ends
\* with it or after ten seconds; it changes nothing and True is returned.
InitiateViewChange(n, oldView) ==
  /\ vcState[n] = NoChange /\ vcCalls[n] < VcMaxCalls
  /\ vcState' = [vcState EXCEPT ![n] = Change(oldView + 1)]
  /\ vcCalls' = [vcCalls EXCEPT ![n] = @ + 1]
  /\ vcSent' = vcSent \cup {[from |-> n, newView |-> oldView + 1]}
  /\ UNCHANGED vcNews

\* Votes are counted by sender whatever view they ask for; NEW_VIEW carries
\* the view of the message that completed them.
HandleViewChange(n, m) ==
  LET known == IF vcState[n] = NoChange THEN Change(m.newView) ELSE vcState[n]
      votes == known.votes \cup {m.from}
      enough == Cardinality(votes) >= VcNeeded /\ ~known.completed
  IN /\ vcState' = [vcState EXCEPT ![n] =
                      [known EXCEPT !.votes = votes, !.completed = @ \/ enough]]
     /\ vcNews' = IF enough
                  THEN vcNews \cup {[by |-> n, view |-> m.newView, votes |-> votes]}
                  ELSE vcNews
     /\ UNCHANGED <<vcCalls, vcSent>>

ClearViewChange(n) ==
  /\ vcState[n] # NoChange
  /\ vcState' = [vcState EXCEPT ![n] = NoChange]
  /\ UNCHANGED <<vcCalls, vcSent, vcNews>>

VcNext ==
  \/ \E n \in VcNode, v \in 0..VcMaxView : InitiateViewChange(n, v)
  \/ \E n \in VcHandler, m \in vcSent : HandleViewChange(n, m)
  \/ \E n \in VcHandler : ClearViewChange(n)

VcSpec == VcInit /\ [][VcNext]_vcVars

-----------------------------------------------------------------------------
\* Behind a NEW_VIEW there are replicas that did ask for a new view of the
\* round, one of them for the view announced; of 3f+1 replicas any two
\* announcements, also of different views and across clear_view_change, share
\* more than f.  (Of 3f+2 or 3f+3 they may share f or fewer: 2f+1 is then no
\* quorum.)
VcCertified ==
  /\ \A w \in vcNews :
       /\ \A q \in w.votes : \E m \in vcSent : m.from = q
       /\ \E q \in w.votes : [from |-> q, newView |-> w.view] \in vcSent
  /\ Cardinality(VcNode) % 3 = 1 =>
       \A w, x \in vcNews :
         Cardinality(w.votes \cap x.votes) > (Cardinality(VcNode) - 1) \div 3
=============================================================================
