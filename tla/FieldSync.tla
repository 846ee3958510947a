---------------------------- MODULE FieldSync -----------------------------
(***************************************************************************)
(* One spec field, followed through create, read, compare and update.  The *)
(* initial state picks the field, so that one run takes every field of the *)
(* resource through the four generated functions of ASGFields and shows    *)
(* which of them agree about it.                                           *)
(*                                                                         *)
(* Next to it goes the read-only state of the group (its warm pool, its    *)
(* suspended processes, ...), which sdkFind reads into the status and      *)
(* which the status of the custom resource is meant to show.               *)
(*                                                                         *)
(* The rounds are sequential here; edits and drift arrive between them.    *)
(* Reconciler interleaves them with the calls.                             *)
(***************************************************************************)
EXTENDS ASGFields

CONSTANTS
  Vals,        \* values that a user writes in the field
  States,      \* read-only states that AWS reports for the group
  NoState,     \* AWS reports none
  MaxChanges   \* bound on the edits and on the drifts

ASSUME FieldSyncAssumptions ==
  /\ Vals \subseteq Int
  /\ Fits(DefaultValue)
  /\ NoState \notin States
  /\ MaxChanges \in Nat

VARIABLES
  field,     \* the field followed, constant in a behaviour
  want,      \* its value in the spec of the custom resource
  exists,    \* the group has been created
  have,      \* its value in the group
  latest,    \* its value in the resource that sdkFind returned
  state,     \* the read-only state of the group
  read,      \* the state in the resource that sdkFind returned
  shown,     \* the state in the status of the custom resource
  pc,        \* where the round is
  written,   \* every value that a user or another client of AWS ever wrote
  changes    \* edits and drifts so far

statusVars == <<state, read, shown>>
vars == <<field, want, exists, have, latest, statusVars, pc, written, changes>>

One(v) == [n \in {field} |-> v]

\* The CRD makes Name immutable, so it has one value and no edit.
Init ==
  /\ field \in SpecFields
  /\ want \in IF field = "Name" THEN {DefaultValue} ELSE Vals \cup {Nil}
  /\ exists = FALSE
  /\ have = Nil
  /\ latest = Nil
  /\ state = NoState /\ read = NoState /\ shown = NoState
  /\ pc = "create"
  /\ written = {want}
  /\ changes = 0

\* Mutant: the range error is returned after the call instead of before it.
MutCreate ==
  /\ pc = "create"
  /\ IF OutOfRange(One(want), CreateFields) # {}
     THEN /\ pc' = "failed"
          /\ have' = CreatedWith(One(want))[field]
          /\ UNCHANGED exists
     ELSE /\ pc' = "read_created"
          /\ exists' = TRUE
          /\ have' = CreatedWith(One(want))[field]
  /\ UNCHANGED <<field, want, latest, statusVars, written, changes>>

\* sdkCreate: a value that does not fit fails before the call.
Create ==
  /\ pc = "create"
  /\ IF OutOfRange(One(want), CreateFields) # {}
     THEN /\ pc' = "failed"
          /\ UNCHANGED <<exists, have>>
     ELSE /\ pc' = "read_created"
          /\ exists' = TRUE
          /\ have' = CreatedWith(One(want))[field]
  /\ UNCHANGED <<field, want, latest, statusVars, written, changes>>

\* Mutant: what AWS reports no longer stays in the status.
MutStatusRead(old, new) == IF new = NoState THEN old ELSE new

\* sdkFind overwrites the status with what AWS reports, or with nothing.
StatusRead(old, new) == new

\* sdkFind, on the status that the custom resource shows.
Find ==
  /\ latest' = Observed(One(want), One(have))[field]
  /\ read' = StatusRead(shown, state)
  /\ UNCHANGED <<field, want, exists, have, state, written, changes>>

\* After a create the group is read once more, and the status patched from it.
ReadCreated ==
  /\ pc = "read_created"
  /\ Find
  /\ shown' = read'
  /\ pc' = "settled"

\* ReadOne, then newResourceDelta: without a difference the round is over.
Read ==
  /\ pc = "read"
  /\ Find
  /\ \/ /\ Differing(One(want), One(latest')) = {}
        /\ pc' = "settled"
        /\ shown' = read'
     \/ /\ Differing(One(want), One(latest')) # {}
        /\ pc' = "update"
        /\ UNCHANGED shown

\* sdkUpdate on a difference other than the tags.  A failure returns the resource
\* that was read, a success a copy of the desired one, with its old status.
Update ==
  /\ pc = "update"
  /\ \/ /\ OutOfRange(One(want), UpdateFields) # {}
        /\ pc' = "failed"
        /\ shown' = read
        /\ UNCHANGED have
     \/ /\ OutOfRange(One(want), UpdateFields) = {}
        /\ pc' = "settled"
        /\ have' = UpdatedWith(One(want), One(have))[field]
        /\ UNCHANGED shown
  /\ UNCHANGED <<field, want, exists, latest, state, read, written, changes>>

\* The next reconcile: a retry after an error, or the periodic resync.
Again ==
  /\ pc \in {"settled", "failed"}
  /\ pc' = IF exists THEN "read" ELSE "create"
  /\ UNCHANGED <<field, want, exists, have, latest, statusVars, written, changes>>

\* A user edits the field; the edit starts a reconcile.
Edit ==
  /\ pc \in {"settled", "failed"}
  /\ changes < MaxChanges
  /\ field # "Name"
  /\ want' \in (Vals \cup {Nil}) \ {want}
  /\ pc' = IF exists THEN "read" ELSE "create"
  /\ written' = written \cup {want'}
  /\ changes' = changes + 1
  /\ UNCHANGED <<field, exists, have, latest, statusVars>>

\* Another client of AWS changes the field of the group; the API takes only
\* values that fit.
Drift ==
  /\ pc \in {"settled", "failed"}
  /\ changes < MaxChanges
  /\ exists
  /\ field \in FindFields \ {"Name"}
  /\ have' \in {v \in Vals : Fits(v)} \ {have}
  /\ pc' = "read"
  /\ written' = written \cup {have'}
  /\ changes' = changes + 1
  /\ UNCHANGED <<field, want, exists, latest, statusVars>>

\* The read-only state of the group changes: AWS fills a warm pool, another client
\* suspends a process.
StateChange ==
  /\ pc \in {"settled", "failed"}
  /\ changes < MaxChanges
  /\ exists
  /\ state' \in (States \cup {NoState}) \ {state}
  /\ changes' = changes + 1
  /\ UNCHANGED <<field, want, exists, have, latest, read, shown, pc, written>>

Reconcile == Create \/ ReadCreated \/ Read \/ Update \/ Again

Next == Reconcile \/ Edit \/ Drift \/ StateChange

\* A round goes on, and a resource is reconciled again: after an error by the
\* retry, and else by the periodic resync.
Spec == Init /\ [][Next]_vars /\ WF_vars(Reconcile)

-----------------------------------------------------------------------------
(***************************************************************************)
(* Properties.                                                             *)
(***************************************************************************)

\* The variables have their types; the group's integers have the API's width,
\* and there are none before the group exists.
TypeOK ==
  /\ field \in SpecFields
  /\ {want, latest} \subseteq Value
  /\ exists \in BOOLEAN
  /\ have # Nil => exists /\ (field \in Int32Fields => Fits(have))
  /\ {state, read, shown} \subseteq States \cup {NoState}
  /\ pc \in {"create", "read_created", "read", "update", "settled", "failed"}
  /\ written \subseteq Value
  /\ changes \in 0 .. MaxChanges

\* Compared and read back, but never sent by an update.
CreateOnly == {"LoadBalancerNames", "TargetGroupARNs", "TrafficSources"}

\* Not read back: the observed resource repeats the desired value.
NeverRead == {"InstanceID", "LifecycleHookSpecificationList", "SkipZonalShiftValidation",
              "InstanceRef", "ServiceLinkedRoleRef", "TargetGroupRefs"}

(***************************************************************************)
(* A round of reconciliation that ends without error leaves the value that *)
(* the spec asks for in the group, for every field outside the two lists   *)
(* above: sdkFind, newResourceDelta and newUpdateRequestPayload, three     *)
(* generated functions of hundreds of lines, agree about the field, so     *)
(* that "synced" is never reported over an edit nobody sent.               *)
(***************************************************************************)
SettledMeansApplied ==
  (pc = "settled" /\ want # Nil /\ field \notin CreateOnly \cup NeverRead) => have = want

(***************************************************************************)
(* A group never holds a number that nobody wrote: the payload builders    *)
(* reject what int32(x) would wrap around before they convert it.          *)
(***************************************************************************)
NoInventedValue == have \in written \cup {Nil, DefaultValue}

(***************************************************************************)
(* An update of a field the spec sets changes the group, so that a round   *)
(* never repeats the update of the round before: the update sends what the *)
(* comparison finds different.  (An unset field is another matter: it      *)
(* differs from a value AWS holds and no payload can clear it.)            *)
(***************************************************************************)
UpdatesMakeProgress ==
  [][(pc = "update" /\ pc' = "settled" /\ want # Nil /\ field \notin CreateOnly)
       => have' # have]_vars

(***************************************************************************)
(* What Update and sdkUpdate say they return: the newly mutated resource,  *)
(* "a new resource with updated fields".  After an update that reported    *)
(* success the group has the value of the resource returned.               *)
(***************************************************************************)
UpdateAppliesEveryDifference ==
  [][(pc = "update" /\ pc' = "settled" /\ want # Nil) => have' = want]_vars

(***************************************************************************)
(* The status shows the state of the group once nothing changes any more,  *)
(* as long as the field can agree with the group: it has its value, or it  *)
(* is not read back.  The round that updates the group leaves the status   *)
(* as it was, so it takes a round without a difference.                    *)
(***************************************************************************)
StatusCatchesUp ==
  <>[]((exists /\ (have = want \/ field \in NeverRead)) => shown = state)

(***************************************************************************)
(* What the comment on AutoScalingGroupStatus says: it is the observed     *)
(* state of the group.                                                     *)
(***************************************************************************)
StatusShown == <>[](exists => shown = state)
=============================================================================
