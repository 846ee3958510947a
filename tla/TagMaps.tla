------------------------------ MODULE TagMaps ------------------------------
(***************************************************************************)
(* What the tag functions promise, on tag maps: the rounds of a resource   *)
(* whose tags are ensured, read, mirrored, synchronised and filtered.      *)
(* Reconciler works on such maps.  TagLists is what the code does, on      *)
(* lists, and implements this.                                             *)
(***************************************************************************)
EXTENDS Naturals, TagOps

CONSTANTS
  SpecMaps,    \* the tags that users write
  MaxChanges   \* bound on the edits and the changes by other clients

VARIABLES
  spec,     \* the tags of the custom resource
  work,     \* the tags of the working copy
  latest,   \* the tags read from AWS
  group,    \* the tags of the group
  pc,       \* what was done last
  changes

vars == <<spec, work, latest, group, pc, changes>>

Init ==
  /\ spec \in SpecMaps
  /\ work = NoTags /\ latest = NoTags /\ group = NoTags
  /\ pc = "start"
  /\ changes = 0

\* A reconcile starts from the spec, with the controller's tags added.
Ensure ==
  /\ pc = "start"
  /\ work' = EnsureTags(spec)
  /\ pc' = "ensured"
  /\ UNCHANGED <<spec, latest, group, changes>>

\* The group is read, and its aws: tags are mirrored.
Read ==
  /\ pc = "ensured"
  /\ latest' = group
  /\ work' = SyncAWSTags(work, group)
  /\ pc' = "read"
  /\ UNCHANGED <<spec, group, changes>>

\* The tag calls make the difference between latest and work.
Sync ==
  /\ pc = "read"
  /\ group' = SyncTags(group, work, latest)
  /\ pc' = "synced"
  /\ UNCHANGED <<spec, work, latest, changes>>

\* What the system owns is taken out of the copy.
Filter ==
  /\ pc = "synced"
  /\ work' = IgnoreSystemTags(work)
  /\ pc' = "filtered"
  /\ UNCHANGED <<spec, latest, group, changes>>

\* The reconcile ends.
Rest ==
  /\ pc = "filtered"
  /\ work' = NoTags /\ latest' = NoTags
  /\ pc' = "start"
  /\ UNCHANGED <<spec, group, changes>>

\* A user writes other tags.
Edit ==
  /\ pc = "start"
  /\ changes < MaxChanges
  /\ changes' = changes + 1
  /\ spec' \in SpecMaps
  /\ UNCHANGED <<work, latest, group, pc>>

\* Another client, or AWS itself, changes a tag of the group.
Outside ==
  /\ changes < MaxChanges
  /\ changes' = changes + 1
  /\ \E k \in Keys, v \in TagVals \cup {NoTag} : group' = [group EXCEPT ![k] = v]
  /\ UNCHANGED <<spec, work, latest, pc>>

Next == Ensure \/ Read \/ Sync \/ Filter \/ Rest \/ Edit \/ Outside

Spec == Init /\ [][Next]_vars
=============================================================================
