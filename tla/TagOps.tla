------------------------------ MODULE TagOps ------------------------------
(***************************************************************************)
(* The tag operations of the controller, on the map form of a tag list     *)
(* (acktags.Tags): a tag map gives every key of Keys a value, or NoTag     *)
(* when the list does not carry the key.                                   *)
(***************************************************************************)
CONSTANTS
  Keys,         \* tag keys
  AwsKeys,      \* the keys that start with "aws:"
  TagVals,      \* tag values
  NoTag,        \* the key is not present
  DefaultTags   \* the controller's own tags (--resource-tags), a tag map

TagMap == [Keys -> TagVals \cup {NoTag}]

ASSUME TagAssumptions ==
  /\ AwsKeys \subseteq Keys
  /\ NoTag \notin TagVals
  /\ DefaultTags \in TagMap

NoTags == [k \in Keys |-> NoTag]

\* EnsureTags: the controller's tags are merged in; a tag the resource already
\* has keeps its value.
EnsureTags(t) == [k \in Keys |-> IF t[k] # NoTag THEN t[k] ELSE DefaultTags[k]]

\* Mutant: only the aws: tags that the desired state lacks are mirrored.
MutSyncAWSTags(desired, latest) ==
  [k \in Keys |-> IF k \in AwsKeys /\ desired[k] = NoTag THEN latest[k] ELSE desired[k]]

\* syncAWSTags: the aws: tags of the latest state override those of the desired.
SyncAWSTags(desired, latest) ==
  [k \in Keys |-> IF k \in AwsKeys /\ latest[k] # NoTag THEN latest[k] ELSE desired[k]]

\* The keys of the controller's own tags.
SystemKeys == {k \in Keys : DefaultTags[k] # NoTag}

\* Mutant: only the aws: tags are ignored.
MutIgnoreSystemTags(t) == [k \in Keys |-> IF k \in AwsKeys THEN NoTag ELSE t[k]]

\* ignoreSystemTags: neither aws: tags nor the controller's own are kept.
IgnoreSystemTags(t) == [k \in Keys |-> IF k \in AwsKeys \cup SystemKeys THEN NoTag ELSE t[k]]

\* ackcompare.GetTagsDifference(latest, desired) as Tags uses it: a key whose
\* value changes is in both answers.
ToAdd(desired, latest) == {k \in Keys : desired[k] # NoTag /\ desired[k] # latest[k]}

DifferenceRemoved(desired, latest) ==
  {k \in Keys : latest[k] # NoTag /\ desired[k] # latest[k]}

\* Mutant: a key whose value changes is written and then removed.
MutToRemove(desired, latest) == DifferenceRemoved(desired, latest)

\* Tags drops from the removals the keys that it is about to write.
ToRemove(desired, latest) ==
  DifferenceRemoved(desired, latest) \ ToAdd(desired, latest)

\* What CreateOrUpdateTags and DeleteTags do to the tags of a group.
WithTags(group, desired, keys) == [k \in Keys |-> IF k \in keys THEN desired[k] ELSE group[k]]

WithoutTags(group, keys) == [k \in Keys |-> IF k \in keys THEN NoTag ELSE group[k]]

\* Tags, both calls at once: AWS refuses a call that names an aws: key, and the
\* first refusal is the last call.
SyncTags(group, desired, latest) ==
  LET added   == ToAdd(desired, latest)
      removed == ToRemove(desired, latest)
  IN  IF added \cap AwsKeys # {} THEN group
      ELSE IF removed \cap AwsKeys # {} THEN WithTags(group, desired, added)
      ELSE WithoutTags(WithTags(group, desired, added), removed)
=============================================================================
