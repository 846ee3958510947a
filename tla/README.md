# Verification of the ACK Auto Scaling controller

The controller keeps Auto Scaling groups in AWS equal to `AutoScalingGroup`
custom resources in Kubernetes. This directory holds TLA+ models of its
resource manager, the TLC runs that check them and TLAPS proofs about them.

## 1. Inventory

Most of the code is generated by `ack-generate`; the loop that calls it (queue,
finalizer patches, status patches, requeues) is the ACK runtime, a library that
is not part of the repository. Kubernetes and AWS are outside too. The models
take all three from what the repository's code needs of them and returns to
them, and say so in the `map` of `PROJECT.json` (`external`).

| Component | Source (`pkg/...`) | State | Operations | Correct when |
|---|---|---|---|---|
| Resource manager | `manager.go`, `sdk.go` | none between calls; works on copies of the resource | `ReadOne`, `Create`, `Update`, `Delete`, `EnsureTags`, `FilterSystemTags`, `IsSynced`, `LateInitialize` | no group is orphaned or taken from others; `Synced` is true when shown; work never stops silently; deletion ends |
| Field tables | `sdk.go` | – | `sdkFind`, `newCreateRequestPayload`, `newUpdateRequestPayload` | what the spec asks for arrives, nothing else does; no integer wraps |
| Delta | `delta.go` | – | `newResourceDelta` | differs exactly where an update has something to do |
| Tags | `tags.go`, `pkg/tags/tags.go` | – | `convertToOrderedACKTags`, `fromACKTags`, `syncAWSTags`, `ignoreSystemTags`, `Tags` | the tags match the spec; `aws:` tags are left alone; the user's list comes back as written |
| Conditions | `sdk.go`, `manager.go` | the resource's `Terminal`, `Recoverable`, `ResourceSynced` | `updateConditions`, `onError`, `onSuccess` | they tell the truth about the last outcome |
| Descriptor | `descriptor.go` | the finalizer | `IsManaged`, `MarkManaged`, `MarkUnmanaged`, `MarkAdopted` | the finalizer covers the life of the group |
| Manager factory | `manager_factory.go` | `rmCache`, an `RWMutex` | `ManagerFor` | the map is only touched under the lock; calls return |
| References | `references.go` | – | `ResolveReferences`, `ClearResolvedReferences` | a resolved value comes from a synced resource, each reference is resolved once and in place; clearing undoes resolving |
| API types | `apis/v1alpha1` | – | data types | their fields are those the generated functions handle |
| Accessors, identifiers, adoption, registry, `cmd/controller`, chart | rest | – | getters, start-up | not modelled, see section 6 |

How they interact. A worker of the runtime takes a resource from the queue, asks
the factory for a manager, and calls `EnsureTags`, `ResolveReferences`, `ReadOne`,
then `Create` (after a finalizer patch, whose answer has its references resolved
anew) or `Delta` and `Update`, or on the deletion path `ReadOne`,
`Delete` and a patch that removes the finalizer; it patches the status and
requeues. `ReadOne` changes the resource passed to it (`mirrorAWSTags`), `Update`
makes up to three AWS calls. The factory is the only state that workers share.

What is hard: the process may stop between any two calls; a call may fail before
or after it took effect; users edit and other clients change the group while a
reconcile holds copies; other controllers change the resources referred to
between two reads; the deletion in AWS goes on after the call returned;
four generated functions must agree on some seventy fields. `PROJECT.json` lists
these as hazards, each at its line with the properties that cover it.

## 2. Modules

| Module | Models |
|---|---|
| `ASGFields` | the spec fields of the API types; who sends, reads and compares which; the int32 range check and conversion |
| `FieldSync` | any one field through create, read, compare, update, edits and drift, with the status next to it |
| `TagOps` | on tag maps: `EnsureTags`, `syncAWSTags`, `ignoreSystemTags`, the additions and removals of `Tags` |
| `TagMaps` | abstract: rounds of ensuring, reading, synchronising and filtering tags, on maps |
| `TagLists` | the same rounds on the lists of the code, through `convertToOrderedACKTags` and `fromACKTags`; implements `TagMaps` |
| `References` | `ResolveReferences` one read at a time, `ClearResolvedReferences`, the referenced resources and their controllers |
| `Conditions` | `updateConditions`, `onError`, the `Synced` condition |
| `Reconciler` | a resource, its group, the worker, users, other clients, crashes; composes the four above |
| `GroupClaim` | the abstract promise about finalizer and group; `Reconciler` implements it |
| `ManagerFactory` | `ManagerFor` with Go's `RWMutex` |
| `MCFieldSync`, `MCReferences`, `MCTagLists`, `MCReconciler`, `MCManagerFactory` | the TLC instances |
| `ReconcilerTypes`, `ReconcilerProofs`, `ReconcilerStopProofs`, `ReconcilerSyncProofs`, `ReferencesProofs`, `FieldSyncProofs`, `TagListsProofs`, `ManagerFactoryProofs` | TLAPS proofs |

### Reconciler and the code

`pc` names the call the worker makes next. `read` is `DescribeAutoScalingGroups`
in `ReadOne`; `manage` the patch that follows `MarkManaged`; `create`,
`read_created` the create and the read after it; `tag_add`, `tag_del`, `update`
the three calls of `sdkUpdate`; `patch` the status patch; `del_read`, `del_call`,
`unmanage`, `del_patch` the deletion path. Everything a method does between two
calls is part of the action of the call before. `desired`, `latest` and `wcond`
are the copies the code works on; `spec`, `fin` and `cond` are what Kubernetes
holds. A call has up to four outcomes: done, refused by AWS (terminal: the request
is invalid, the name is taken or gone, or a create or a tag call reaches a limit of
the account), not executed (`CallFails`), executed but reported as failed (`Create`
has `CreateLost`, the others a second disjunct). `Crash` happens anywhere.

`came` is history: when the group of another client came (`Remember`). It came
`claimed` if the finalizer was there before it; it `raced` if it came between the
read that answers NotFound and the patch of the finalizer; otherwise it is `free`, and
it becomes so when the claim, or the reconcile about to make it, ends.
`ForeignUntouched` is about the free ones, `OnlyOwnRead` about the race.

Abstractions. The name is always set (the CRD requires it), so that the read does not
answer NotFound for want of one (`sdk.go:70`), and the group follows one name, since the
CRD makes `Name` immutable. A field's content is one integer or `Nil`, and an empty
list is `Nil`. A tag list is a map; `TagLists` shows that the lists behave as the maps
do. The workers of one resource do not overlap (the runtime's queue
guarantees it), so `Reconciler` has one worker and `ManagerFactory` the
concurrency between resources. A status patch either takes effect or the
process stops before it. Patches of the metadata do not change the spec. Specs
are not edited while the resource is being deleted. `GroupDeleted` lets AWS
answer a delete with the group gone or going. `IsSynced` always answers true, so
`EnsureSynced` takes its verdict from the error alone. References are resolved in
a model of their own, `References`: to `Reconciler` a resolved value is a value.

### References and the code

A spec is reduced to its references and the fields they resolve to: `ref` and
`val` for the fields with one reference (`InstanceID`, the `RoleARN` of each
lifecycle hook, `ServiceLinkedRoleARN`, in this order), `tgRefs` and `tgs` for the
list of target groups. `at` is the reference whose resolver runs next, `desired`
the resource that `ResolveReferences` was given and writes into, `invalid` the
error of `validateReferenceFields`, kept to the end behind the shadowed `err`
variables. `Skip`, `Take` and `Refuse` are one turn of a resolver, with the four
`getReferencedResourceState` functions, which differ in the type they read, as
`Resolvable`. When the runtime calls it is external: at the start of a reconcile,
and again after the finalizer is patched in, because the answer of that patch,
without the resolved values, becomes the working copy. A reference error
queues the resource again. `began` and `seen` are history: the copy as it was
given, and what each resource has offered since.

`ResolveReferences` writes into the resource it is given (`references.go:88`), where its
comment speaks of a copy: `desired` is that resource, from the first read on.
`ClearResolvedReferences`, which does copy, cannot tell a resolved value from one that the user wrote
next to the reference, and drops both. `ClearRestores` says so: at every moment it
gives what it gives for the spec before the resolution, and that is the spec itself
if no field has both. Such a spec ends with the error of `validateReferenceFields`
before the copy is patched or handed to a call, so the user's value is not lost in
Kubernetes; `ClearRestores` says this too.

### TagLists and the code

An entry's key or value may be missing and keys may repeat, as the CRD allows.
`ToMap` and `KeyOrder` are the two results of `convertToOrderedACKTags`. The loops that
append to a list for some of its entries are `At(s, I)`, the elements of `s` at the
places `I` in their order; `Firsts` are the places whose element did not come before,
the turns at which `fromACKTags` still finds the key in the map. `FromMap`
is the set of lists that `fromACKTags` may return, one for each order in which Go
may range over the keys outside the order. `work` is the working copy, `latest`
what AWS lists, in any order. When the runtime calls `EnsureTags` and
`FilterSystemTags` is external.

### FieldSync and the status

`sdkFind` overwrites the status fields with what AWS reports. `shown` is the
status in Kubernetes and `read` that of the resource `sdkFind` returned: a round
without a difference patches it, a successful update does not, since `sdkUpdate`
returns a copy of the desired resource with its old status, and a failed one
does, since `Update` then returns the resource that was read.

## 3. Runs

| Run | Checks | Shows |
|---|---|---|
| `field_tables` | `TypeOK`, `SettledMeansApplied`, `NoInventedValue`, `UpdatesMakeProgress`, `StatusCatchesUp` | the generated functions agree on every field of the API types, with the exceptions named in `CreateOnly` and `NeverRead`; the status follows the group once a round finds no difference |
| `references` | `TypeOK`, `HandedOver`, `ClearRestores`, `Arrives` | `Create` and `Update` get every reference resolved once and in place, from resources that were ready; clearing takes out what was resolved and nothing else; changes arrive in the end |
| `tag_lists` | `TypeOK`, `NoDuplicates`, `RoundTrip`, `ImplementsMaps`, `SyncSettles`, `SettledStays`, `Quiet` | lists with repeated or missing keys behave as the maps do, the user's tags come back as written, one undisturbed round settles the tags, settled tags are left alone even by calls made from an older read, and no order starts another update |
| `life_cycle` | `TypeOK`, `NoOrphan`, `NoSilentStop`, `DeletionSettles`, `ImplementsClaim` | creation and deletion survive crashes, lost answers and other clients |
| `tags` | `SyncedIsTrue`, `SystemTagsLeftAlone`, `ForeignUntouched`, `Converges` | the two tag calls, `aws:` tags, and groups of others that came while the name was free |
| `fields_and_tags` | `SyncedIsTrue`, `Converges` | `Synced` is never shown over an edit, a failed update or one that wrote the tags and then failed; edits arrive in the end |
| `manager_factory` | `TypeOK`, `MapGuarded`, `OnePerWorker`, `NoStandstill`, `CallsReturn` | the lock discipline of the cache: calls neither meet in the map nor wait for one another in a circle |
| `field_update_doc` | `UpdateAppliesEveryDifference`, violated | finding 1 |
| `status_doc` | `StatusShown`, violated | finding 4 |
| `delete_doc` | `GroupGoneFirst`, violated | finding 2 |
| `manager_factory_doc` | `OneManagerPerKey`, violated | finding 3 |
| `take_over_doc` | `OnlyOwnRead`, violated | finding 5 |

Findings: places where the code does not do what a comment or the chart says.

1. `sdkUpdate` "returns a new resource with updated fields", but its payload
   has no `LoadBalancerNames`, `TargetGroupARNs` and `TrafficSources`: an edit of
   these calls AWS, reports success and changes nothing.
2. The chart says the AWS resource is deleted before the Kubernetes resource is
   removed; the finalizer goes when the delete call is accepted, while the group
   is still in `Delete in progress`.
3. The comment in `ManagerFor` says the key avoids several managers for one
   account, region and role; two workers that miss at once make two, because the
   cache is not looked up again under the write lock.
4. `AutoScalingGroupStatus` "defines the observed state"; while the spec leaves a
   field unset that AWS fills in, every reconcile finds that field different,
   updates the group and returns the old status, so that the status never
   shows what was read.
5. The race for the name. `ReadOne` answers NotFound, another client creates the
   group, and only then is the finalizer patched in. The create is refused
   (`AlreadyExists`, terminal) or the process stops, but the finalizer stays: after
   the next edit or restart `ReadOne` finds the group under the finalizer, writes its
   ARN into the status, and the controller updates the group and its tags and
   deletes it with the resource. The CRD says that the ARN is set only once the
   controller has orchestrated the creation of the resource or verified an adopted
   one. The same happens, without a race, to a group that another client creates
   under the claim, for instance after it has deleted the controller's.

### Bounds

`MaxInt32` is 3 (three-bit integers): 5 and 9 do not fit and wrap around to
other values that the run knows. `field_tables` takes all fields one at a time
with three edits or drifts, enough for an edit on top of a drift on top of an
edit. One read-only state beside none is enough for a status that is late.
`references` has two fields with one reference and up to two target group
references, to resources of one name in two namespaces, which is what tells a
reference resolved in the wrong namespace or place; one edit, two changes of
referenced resources and one fault: a resource can go away and come back between
two reads, and a target can change between the two resolutions. `tag_lists` has two user keys, a controller key and an `aws:` key,
with an empty and a non-empty value, lists in which a key comes twice around a
nameless entry, and two edits or changes by others.

The `Reconciler` runs split the data, since fields, tags and life cycle meet
only in the order of the calls of `sdkUpdate`, which `fields_and_tags` exercises.
Five user operations (`life_cycle`) are apply, delete, apply, edit or delete,
apply; three faults can hit three calls of one reconcile; three operations of
other clients are create, delete, create. `take_over_doc` needs one edit (apply), one
foreign create and one crash after the patch of the finalizer. `fields_and_tags` and `tags` have three
edits and two foreign operations; `fields_and_tags` has two faults, so that both
calls of an update can fail; `tags` has one, which is enough to stop between its
two calls. Three workers and two keys are needed for a reader parked behind a
writer that waits for another reader, with a second key to tell entries apart.

The `Reconciler` runs switch deadlock checking off: with the bounds used up and
the resource gone, or terminal, the system is at rest.

### Fairness

`WF(Worker)`: a queued resource is handed to a worker and a call returns, in
success or error. `WF(Resync)`: the resync timer fires. `WF(FinishDelete)`: AWS
finishes a deletion that it accepted. No fairness on users, other clients,
faults or crashes; these are bounded, so liveness is stated for the time after
the last of them. In `FieldSync`,
`References` and `TagLists` the rounds go on (`WF(Reconcile)`, `WF(Worker)` and
`WF(Resync)`): an error is retried and the resync period starts another round.
In `ManagerFactory` each goroutine inside a call is scheduled
(`WF(InCall(t))`), and none has to make a call.

## 4. Proofs

All are checked by TLAPS for every value of the constants.

* `ReconcilerTypes!TypeCorrect`: `Spec => []TypeOK`. First lemmas about what the
  operators return (`NarrowInt`: an int32 conversion gives an integer in range;
  `FieldTypes`, `TagTypes`, `ConditionTypes`), then about the building blocks
  (`FailTypes`, `SucceedTypes`, `RestTypes`), then one step per action. It assumes
  `FieldAssumptions`, `TagAssumptions` and `ReconcilerAssumptions`: the constants
  have their types.
* `ReconcilerProofs!ClaimHolds`: `NoOrphan` alone is not inductive, since a worker
  about to create could meet a resource without the finalizer, and one about
  to remove the finalizer a live group. `ClaimInv` adds that a worker with an AWS
  call ahead read the finalizer, that nobody takes the finalizer off behind its
  back (a resource in deletion keeps it), and that `unmanage` is reached only
  without a live group of the controller's. From it follow `NeverOrphaned`
  (`NoOrphan`) and `Implements`
  (`ImplementsClaim`: each step is one of `GroupClaim` or a stutter; the lemma
  `Quiet` deals with the actions that touch neither finalizer nor group).
* `ReconcilerProofs!ForeignSafe` (`ForeignUntouched`): `FreeInv` says that as long as a
  group is there that came while its name was free, the name is not claimed and no
  reconcile is about to claim it, because only a read that finds no group leads to
  the claim. Without the claim no step of the worker writes a group
  (`UnclaimedStep`, from `ClaimInv`).
* `ReconcilerStopProofs!NeverSilent` (`NoSilentStop`): what keeps a resource out
  of the queue is decided over several steps, so `StopInv` says what is known at
  each: a reconcile that has not failed carries no terminal condition and no
  `Synced=True`, one about to patch the status shows the error it reports, and a
  resource that its user deleted meanwhile is queued. The proof also uses
  `TypeOK` and `ClaimInv`.
* `ReconcilerSyncProofs!SyncedHolds` (`SyncedIsTrue`): that the status is true is
  decided over the whole reconcile, so `SyncInv` follows it: as long as nothing was
  edited the working copy is the spec (`CopyOfSpec`); as long as nobody disturbed
  the group, `latest` knows its fields (`KnownGroup`), the tags of the group
  are those read, then those with the additions, then those desired (`KnownTags`,
  by the lemma `TagCalls`), and a success about to be shown has applied everything
  (`AppliedBeforePatch`); a create is shown as not synced (`CreatedUnsynced`). The
  lemma `Compared` is about the generated tables: what an update can change and a
  read can see is compared. It uses `TypeOK`, `ClaimInv` and `StopInv`.
* `ReconcilerSyncProofs!SystemTagsSafe` (`SystemTagsLeftAlone`): `Mirrored` says that
  from the read to the last tag call the working copy holds every `aws:` tag that
  was read. Then no such tag is in the difference the calls are made from
  (`SyncMirrors`), and only a read or a tag call leads to a tag call
  (`TagCallNext`).
* `ReferencesProofs`: `TypeCorrect`; `CompletelyResolved` (`HandedOver`) and
  `Clearable` (`ClearRestores`) from `ResInv`, which says of a resolution that has
  come to `at` that every reference before it is resolved in its place, to a
  target offered since the start, and the others are as they were given. `Clearable`
  holds for every spec, with both a reference and a value for one field too. The place
  of a target group among those resolved is a count (`Rank`), with the lemmas
  `RankStep` and `RankBounds`.
* `FieldSyncProofs`: `TypeCorrect`, `NothingInvented` (`NoInventedValue`),
  `RoundsApply` (`SettledMeansApplied`) and `NoIdleUpdate` (`UpdatesMakeProgress`), for
  any integers and any width of the API's (`NarrowFits`: the conversion is the
  identity on what passes the range check); `TablesAgree` goes through the tables for
  every field of the API types. For the last, `UpdateDue` says that a round comes to
  an update with the group's value in hand, in a field that is read and compared.
* `TagListsProofs`: the lists. It assumes, beside the types, that there are finitely
  many keys (AWS bounds their length). The first part is about sequences: counting
  the places `I` goes through them in order (`NthPlace`), so `At(s, I)` has the elements
  at these places (`AtElements`) and keeps the order in which elements first come, if
  their first places are in `I` (`AtOrder`, with `Precedes`); two sequences without
  repetition, of the same elements in the same order, are equal (`SameOrder`). The
  second is about the conversions: `FromMapGives` says of any list that `fromACKTags`
  may return that its keys are distinct, that its map is the map it was made of and
  that the keys of the given order keep it. `ListInv` adds to `TypeOK` and
  `NoDuplicates` that from `EnsureTags` on the working copy carries the user's own
  tags in the user's order (`UserKept`, `Carries`) and that the filter leaves no others
  (`OnlyOwn`); `RoundTrip` is not inductive without them, since it speaks of the end of
  three conversions. `ManagedIs` describes the list that must come back. From `ListInv`
  follow `TypeCorrect`, `DuplicateFree` (`NoDuplicates`), `TagsComeBack` (`RoundTrip`)
  and `Implements` (`ImplementsMaps`: the initial states, then one step of `TagMaps` per
  action). `CopyInv` says what map the working copy holds at the tag calls; with the
  lemmas `SyncReaches` and `SyncRests` about `SyncTags` it gives `OneRoundSettles`
  (`SyncSettles`) and `RoundsRest` (`SettledStays`), together the safety part of `Quiet`.
* `ManagerFactoryProofs`: `TypeCorrect`, `MapSafe`, `MadeOnce` and `NeverStandsStill`
  (`NoStandstill`) from one inductive invariant: the lock's reader and writer sets are
  the workers at the matching program points, readers are parked only while there
  is a writer, and a worker on its way to make a manager has not made one for that
  key.

Only model-checked: what is temporal beyond safety, under the fairness above
(`Converges`, `DeletionSettles`, `CallsReturn`, `StatusCatchesUp`, `Arrives`, `Quiet`),
which is out of the prover's reach. Every invariant, action property and refinement
that a passing run checks is proved.

The provers cannot apply the library's induction theorems, which take an operator
as a parameter. Where a proof about sequences needs induction it takes a least
counterexample instead: `LeastNat`, that a set of naturals has a least element,
follows from the well-foundedness of `<`. For the same reason the list functions are
defined by places (`At`) and not by the folds of the library, whose values for every
input could not be proved.

## 5. Plan

1. (done) `ASGFields`, `FieldSync`, `TagOps`, `Conditions`, `Reconciler`,
   `GroupClaim`, `ManagerFactory`; type correctness, the claim, the cache.
2. (done) `References` and its proofs.
3. (done) `TagLists` against `TagMaps`.
4. (done) The status in `FieldSync`; proofs of `FieldSync` and of `SyncedIsTrue`.
5. (done) Proofs of `TagLists`, of `UpdatesMakeProgress` and of `NoStandstill`: all of
   the safety that the runs check.
6. (open) One model of a reconcile with references and fields together: now
   `HandedOver` says what `Create` and `Update` are given and `SyncedIsTrue` what
   they make of it.

## 6. Not modelled

* Adoption and read-only resources: the runtime decides them from annotations
  and feature gates. Of the repository's part, `PopulateResourceFromAnnotation`
  sets the name or fails, `MarkAdopted` sets an annotation, and neither is read
  again here; `FilterSystemTags` is in `TagLists`.
* The deletion policy `retain`: with it the runtime removes the finalizer without
  calling `Delete`, and the group stays on purpose. The models have the default,
  `delete`.
* The accessors of `resource.go` and `identifiers.go` set or return one field each.
* `LateInitialize` has no field to initialise for this resource.
* The registry is filled before any goroutine starts; `cmd/controller` parses
  flags and starts the runtime.
* The generated deep copies: a copy is a copy.
* The error code `UNKNOWN`, which `sdkFind` maps to NotFound: the service does not
  document such an answer and the runs do not produce it. If it came on the
  deletion path, the finalizer would go from a group that lives.
* Chart, CRDs and RBAC: configuration, read for what it says of the program.
