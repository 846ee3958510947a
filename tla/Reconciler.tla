---------------------------- MODULE Reconciler ----------------------------
(***************************************************************************)
(* One AutoScalingGroup custom resource, the controller's worker that      *)
(* reconciles it, and the Auto Scaling group of the same name in AWS.      *)
(*                                                                         *)
(* The worker runs the resource manager's methods (manager.go, sdk.go and  *)
(* tags.go) one AWS call or one Kubernetes patch at a time, in the order   *)
(* in which the ACK runtime calls them; users edit the custom resource,    *)
(* other clients of AWS change the group, calls fail or lose their         *)
(* answers and the controller crashes between any two steps.  The runtime, *)
(* the Kubernetes API and AWS are external to this repository: they are    *)
(* modelled from what the resource manager needs and returns.              *)
(***************************************************************************)
EXTENDS ASGFields, TagOps, Conditions

CONSTANTS
  Fields,         \* the spec fields followed, names of ASGFields
  UserSpecs,      \* the specs that users write
  ForeignGroups,  \* what other clients of AWS make of the group
  Rejected,       \* field values that AWS answers with a ValidationError
  Outside,        \* what other clients do: "create", "delete", "drift"
  MaxEdits,       \* bound on the user's operations
  MaxFaults,      \* bound on failed calls, lost answers and crashes
  MaxOutside      \* bound on the operations of other clients

SpecSet == [f : [Fields -> Value], t : TagMap]

Blank == [f |-> [n \in Fields |-> Nil], t |-> NoTags]

ASSUME ReconcilerAssumptions ==
  /\ UserSpecs \subseteq SpecSet
  /\ ForeignGroups \subseteq SpecSet
  /\ {MaxEdits, MaxFaults, MaxOutside} \subseteq Nat

VARIABLES
  (* the custom resource in the Kubernetes API *)
  phase,      \* "absent", "present" or "deleting" (it has a deletion timestamp)
  spec,       \* its spec: fields and tags
  fin,        \* it carries the controller's finalizer
  cond,       \* its status conditions
  (* the group in AWS *)
  aws,        \* "absent", "live" or "deleting" (status "Delete in progress")
  owner,      \* who created it: "none", "ack" or "alien"
  group,      \* its fields and tags
  (* the worker, and the local variables of the reconcile it runs *)
  pc,         \* the next call
  managed,    \* the finalizer, as read when the reconcile began
  desired,    \* the resource desired
  latest,     \* the resource observed
  wcond,      \* the conditions of the working copy
  err,        \* class of the error to report
  (* the work queue *)
  queued,     \* the resource is waiting for a reconcile
  resync,     \* a reconcile is due after the resync period
  (* what the properties compare *)
  disturbed,  \* another client changed the group since the worker last read it
  came,       \* history: when the group of another client came.  "none": there
              \* is none; "claimed": after the claim of its name; "raced": after
              \* the read that found the name free, before the claim that follows
              \* it; "free": at any other time.  One that is still there when the
              \* claim, or the reconcile about to make it, ends is free from then on
  (* how much of the bounds is used *)
  edits, faults, meddling

crVars    == <<phase, spec, fin, cond>>
awsVars   == <<aws, owner, group>>
localVars == <<managed, desired, latest, wcond, err>>
queueVars == <<queued, resync>>
bounds    == <<edits, faults, meddling>>
histVars  == <<disturbed, came>>
vars      == <<crVars, awsVars, pc, localVars, queueVars, histVars, bounds>>

Init ==
  /\ phase = "absent" /\ spec = Blank /\ fin = FALSE /\ cond = NoConditions
  /\ aws = "absent" /\ owner = "none" /\ group = Blank
  /\ pc = "idle" /\ managed = FALSE /\ desired = Blank /\ latest = Blank
  /\ wcond = NoConditions /\ err = "none"
  /\ queued = FALSE /\ resync = FALSE
  /\ disturbed = FALSE /\ came = "none"
  /\ edits = 0 /\ faults = 0 /\ meddling = 0

-----------------------------------------------------------------------------
(***************************************************************************)
(* Steps of the worker.                                                    *)
(***************************************************************************)

\* The reconcile is over: its local variables are gone.
Rest ==
  /\ pc' = "idle"
  /\ managed' = FALSE
  /\ desired' = Blank
  /\ latest' = Blank
  /\ wcond' = NoConditions
  /\ err' = "none"

\* The history that follows from a step that makes a group of another client come
\* or go, or ends a claim or what leads to one.
Remember ==
  came' = IF aws' = "absent" \/ owner' # "alien" THEN "none"
          ELSE IF ~fin' /\ pc' # "manage" THEN "free"
          ELSE IF came # "none" THEN came
          ELSE IF fin' THEN "claimed" ELSE "raced"

\* A method of the resource manager ends in onError with an error of class e.
Fail(e, next) ==
  /\ wcond' = UpdateConditions(wcond, e)
  /\ err' = ReportedError(wcond, e)
  /\ pc' = next
  /\ UNCHANGED <<managed, desired, latest>>

\* A method ends in onSuccess, with the conditions c.
Succeed(c, next) ==
  /\ wcond' = UpdateConditions(c, "none")
  /\ pc' = next
  /\ UNCHANGED <<managed, desired, latest, err>>

Fault ==
  /\ faults < MaxFaults
  /\ faults' = faults + 1
  /\ UNCHANGED <<edits, meddling>>

\* The worker takes the resource from the queue; conditions start afresh and
\* EnsureTags adds the controller's tags to the copy.
StartSync ==
  /\ pc = "idle" /\ queued /\ phase = "present"
  /\ queued' = FALSE /\ resync' = FALSE
  /\ pc' = "read"
  /\ managed' = fin
  /\ desired' = [spec EXCEPT !.t = EnsureTags(@)]
  /\ UNCHANGED <<crVars, awsVars, latest, wcond, err, histVars, bounds>>

StartDelete ==
  /\ pc = "idle" /\ queued /\ phase = "deleting"
  /\ queued' = FALSE /\ resync' = FALSE
  /\ pc' = "del_read"
  /\ managed' = fin
  /\ desired' = spec
  /\ wcond' = cond
  /\ UNCHANGED <<crVars, awsVars, latest, err, histVars, bounds>>

\* The resource is gone when its turn comes.
StartGone ==
  /\ pc = "idle" /\ queued /\ phase = "absent"
  /\ queued' = FALSE /\ resync' = FALSE
  /\ UNCHANGED <<crVars, awsVars, pc, localVars, histVars, bounds>>

\* Mutant: the group is created before the finalizer is set.
MutReadNotFound ==
  /\ pc = "read" /\ aws = "absent"
  /\ pc' = "create"
  /\ UNCHANGED <<crVars, awsVars, localVars, queueVars, histVars, bounds>>

\* ReadOne without a group: NotFound leads to Create, after the finalizer is set.
ReadNotFound ==
  /\ pc = "read" /\ aws = "absent"
  /\ pc' = IF managed THEN "create" ELSE "manage"
  /\ UNCHANGED <<crVars, awsVars, localVars, queueVars, histVars, bounds>>

\* Mutant: every difference is taken for a difference of tags alone.
MutAfterRemove(d, l) == "patch"

\* The calls of sdkUpdate, in their order: tags written, tags deleted, group updated.
AfterRemove(d, l) == IF Differing(d.f, l.f) # {} THEN "update" ELSE "patch"

\* Mutant: a call that wrote tags does not go on to the removals.
MutAfterAdd(d, l) == AfterRemove(d, l)

AfterAdd(d, l) == IF ToRemove(d.t, l.t) # {} THEN "tag_del" ELSE AfterRemove(d, l)

\* Mutant: the test for other differences comes before the tags.
MutFirstCall(d, l) ==
  CASE Differing(d.f, l.f) = {}   -> "patch"
    [] ToAdd(d.t, l.t) # {}       -> "tag_add"
    [] OTHER                      -> AfterAdd(d, l)

FirstCall(d, l) == IF ToAdd(d.t, l.t) # {} THEN "tag_add" ELSE AfterAdd(d, l)

\* Mutant: a group that exists is taken for the resource's own.
MutReadFound ==
  /\ pc = "read" /\ aws # "absent"
  /\ latest' = [f |-> Observed(desired.f, group.f), t |-> group.t]
  /\ desired' = [desired EXCEPT !.t = SyncAWSTags(@, group.t)]
  /\ disturbed' = FALSE
  /\ wcond' = UpdateConditions(wcond, "none")
  /\ pc' = FirstCall(desired', latest')
  /\ UNCHANGED <<crVars, awsVars, managed, err, queueVars, came, bounds>>

\* ReadOne with a group: the aws: tags observed are mirrored into the desired
\* resource.  A group found by a resource without finalizer is someone else's;
\* otherwise the delta decides whether there is something to update.
ReadFound ==
  /\ pc = "read" /\ aws # "absent"
  /\ latest' = [f |-> Observed(desired.f, group.f), t |-> group.t]
  /\ desired' = [desired EXCEPT !.t = SyncAWSTags(@, group.t)]
  /\ disturbed' = FALSE
  /\ \/ /\ managed
        /\ wcond' = UpdateConditions(wcond, "none")
        /\ pc' = FirstCall(desired', latest')
        /\ UNCHANGED err
     \/ /\ ~managed
        /\ wcond' = NotManaged
        /\ err' = "terminal"
        /\ pc' = "patch"
  /\ UNCHANGED <<crVars, awsVars, managed, queueVars, came, bounds>>

\* The finalizer is patched in before anything is created.  The answer of the
\* patch replaces the working copy, so the controller's tags are added again.
MarkManaged ==
  /\ pc = "manage" /\ phase = "present"
  /\ fin' = TRUE
  /\ managed' = TRUE
  /\ desired' = [spec EXCEPT !.t = EnsureTags(@)]
  /\ pc' = "create"
  /\ UNCHANGED <<phase, spec, cond, awsVars, latest, wcond, err, queueVars, histVars,
                 bounds>>

\* The patch finds no resource.
MarkManagedGone ==
  /\ pc = "manage" /\ phase = "absent"
  /\ Rest
  /\ queued' = TRUE
  /\ UNCHANGED <<crVars, awsVars, resync, disturbed, bounds>>
  /\ Remember

\* What AWS answers with a ValidationError.
Valid(f, sent) == \A n \in Fields \cap sent : f[n] \notin Rejected

HasAwsTag(t) == \E k \in AwsKeys : t[k] # NoTag

\* sdkCreate: an integer out of range is an error before the call.
CreateOutOfRange ==
  /\ pc = "create" /\ OutOfRange(desired.f, CreateFields) # {}
  /\ Fail("other", "patch")
  /\ UNCHANGED <<crVars, awsVars, queueVars, histVars, bounds>>

CreateReady ==
  /\ pc = "create"
  /\ OutOfRange(desired.f, CreateFields) = {}
  /\ Valid(desired.f, CreateFields)
  /\ ~HasAwsTag(desired.t)

GroupCreated ==
  /\ aws = "absent"
  /\ aws' = "live"
  /\ owner' = "ack"
  /\ group' = [f |-> CreatedWith(desired.f), t |-> desired.t]

\* sdkCreate succeeds; the resource is not synced, and it is read back.
Create ==
  /\ CreateReady
  /\ GroupCreated
  /\ wcond' = AfterCreate(wcond)
  /\ pc' = "read_created"
  /\ UNCHANGED <<crVars, managed, desired, latest, err, queueVars, histVars, bounds>>

\* The name is taken (AlreadyExists), the request is invalid, or the account has
\* reached a limit (LimitExceeded).
CreateRejected ==
  /\ pc = "create" /\ OutOfRange(desired.f, CreateFields) = {}
  /\ \/ /\ aws # "absent" \/ ~Valid(desired.f, CreateFields) \/ HasAwsTag(desired.t)
        /\ UNCHANGED bounds
     \/ Fault
  /\ Fail("terminal", "patch")
  /\ UNCHANGED <<crVars, awsVars, queueVars, histVars>>

\* The group is created but the answer is lost: the error is reported, or the
\* SDK retries the call and reports AlreadyExists.
CreateLost ==
  /\ CreateReady
  /\ GroupCreated
  /\ Fault
  /\ \E e \in {"other", "terminal"} : Fail(e, "patch")
  /\ UNCHANGED <<crVars, queueVars, histVars>>

\* The read that follows a create.
ReadCreated ==
  /\ pc = "read_created"
  /\ \/ aws # "absent" /\ Succeed(wcond, "patch")
     \/ aws = "absent" /\ Fail("other", "patch")
  /\ UNCHANGED <<crVars, awsVars, queueVars, histVars, bounds>>

\* CreateOrUpdateTags and DeleteTags need the group and refuse aws: keys.
AcceptsTags(keys) == aws # "absent" /\ keys \cap AwsKeys = {}

TagAdd ==
  LET keys == ToAdd(desired.t, latest.t) IN
  /\ pc = "tag_add" /\ AcceptsTags(keys)
  /\ group' = [group EXCEPT !.t = WithTags(@, desired.t, keys)]
  /\ \/ /\ pc' = AfterAdd(desired, latest)
        /\ UNCHANGED <<localVars, bounds>>
     \/ /\ Fault
        /\ Fail("other", "patch")
  /\ UNCHANGED <<crVars, aws, owner, queueVars, histVars>>

\* The group or the tags are refused, or a limit is reached (LimitExceeded).
TagAddRejected ==
  /\ pc = "tag_add"
  /\ \/ ~AcceptsTags(ToAdd(desired.t, latest.t)) /\ UNCHANGED bounds
     \/ Fault
  /\ Fail("terminal", "patch")
  /\ UNCHANGED <<crVars, awsVars, queueVars, histVars>>

TagRemove ==
  LET keys == ToRemove(desired.t, latest.t) IN
  /\ pc = "tag_del" /\ AcceptsTags(keys)
  /\ group' = [group EXCEPT !.t = WithoutTags(@, keys)]
  /\ \/ /\ pc' = AfterRemove(desired, latest)
        /\ UNCHANGED <<localVars, bounds>>
     \/ /\ Fault
        /\ Fail("other", "patch")
  /\ UNCHANGED <<crVars, aws, owner, queueVars, histVars>>

TagRemoveRejected ==
  /\ pc = "tag_del" /\ ~AcceptsTags(ToRemove(desired.t, latest.t))
  /\ Fail("terminal", "patch")
  /\ UNCHANGED <<crVars, awsVars, queueVars, histVars, bounds>>

\* Mutant: the error of the payload is swallowed.
MutUpdateOutOfRange ==
  /\ pc = "update" /\ OutOfRange(desired.f, UpdateFields) # {}
  /\ Succeed(NoConditions, "patch")
  /\ UNCHANGED <<crVars, awsVars, queueVars, histVars, bounds>>

\* sdkUpdate: an integer out of range is an error, with the tags already written.
UpdateOutOfRange ==
  /\ pc = "update" /\ OutOfRange(desired.f, UpdateFields) # {}
  /\ Fail("other", "patch")
  /\ UNCHANGED <<crVars, awsVars, queueVars, histVars, bounds>>

\* The resource returned has the conditions of the desired one, none so far.
Update ==
  /\ pc = "update" /\ OutOfRange(desired.f, UpdateFields) = {}
  /\ aws = "live" /\ Valid(desired.f, UpdateFields)
  /\ group' = [group EXCEPT !.f = UpdatedWith(desired.f, @)]
  /\ \/ /\ Succeed(NoConditions, "patch")
        /\ UNCHANGED bounds
     \/ /\ Fault
        /\ Fail("other", "patch")
  /\ UNCHANGED <<crVars, aws, owner, queueVars, histVars>>

UpdateRejected ==
  /\ pc = "update" /\ OutOfRange(desired.f, UpdateFields) = {}
  /\ aws # "live" \/ ~Valid(desired.f, UpdateFields)
  /\ Fail("terminal", "patch")
  /\ UNCHANGED <<crVars, awsVars, queueVars, histVars, bounds>>

\* The status is patched.  An error is retried unless it is terminal; a resource
\* that is synced is reconciled again after the resync period, one that is not
\* at once.
PatchStatus ==
  LET c == EnsureSynced(wcond, err) IN
  /\ pc = "patch"
  /\ cond' = IF phase = "absent" THEN cond ELSE c
  /\ queued' = (queued \/ err = "other" \/ (err = "none" /\ c.synced # "True"))
  /\ resync' = (err = "none" /\ c.synced = "True")
  /\ Rest
  /\ UNCHANGED <<phase, spec, fin, awsVars, histVars, bounds>>

\* Mutant: the finalizer goes without the group.
MutDelRead ==
  /\ pc = "del_read"
  /\ pc' = "unmanage"
  /\ UNCHANGED <<crVars, awsVars, localVars, queueVars, histVars, bounds>>

\* Deletion: ReadOne, then Delete if there is a group, then the finalizer goes.
DelRead ==
  /\ pc = "del_read"
  /\ \/ /\ aws = "absent"
        /\ pc' = "unmanage"
        /\ UNCHANGED localVars
     \/ /\ aws # "absent"
        /\ Succeed(wcond, "del_call")
  /\ UNCHANGED <<crVars, awsVars, queueVars, histVars, bounds>>

\* AWS deletes the group in the background, or has deleted it when it answers.
GroupDeleted ==
  \/ /\ aws = "live"
     /\ aws' = "deleting"
     /\ UNCHANGED <<owner, group>>
  \/ /\ aws = "live"
     /\ aws' = "absent" /\ owner' = "none" /\ group' = Blank
  \/ /\ aws = "deleting"
     /\ UNCHANGED awsVars

DelCall ==
  /\ pc = "del_call"
  /\ GroupDeleted
  /\ \/ /\ pc' = "unmanage"
        /\ UNCHANGED <<localVars, bounds>>
     \/ /\ Fault
        /\ Fail("other", "del_patch")
  /\ UNCHANGED <<crVars, queueVars, disturbed>>
  /\ Remember

\* The group went between the read and the call: ValidationError, terminal.
DelRejected ==
  /\ pc = "del_call" /\ aws = "absent"
  /\ Fail("terminal", "del_patch")
  /\ UNCHANGED <<crVars, awsVars, queueVars, histVars, bounds>>

\* Mutant: the finalizer is not taken off the resource.
MutUnmanage ==
  /\ pc = "unmanage"
  /\ Rest
  /\ UNCHANGED <<crVars, awsVars, queueVars, histVars, bounds>>

\* Without its finalizer the resource is gone.
Unmanage ==
  /\ pc = "unmanage"
  /\ phase' = "absent" /\ spec' = Blank /\ fin' = FALSE /\ cond' = NoConditions
  /\ Rest
  /\ UNCHANGED <<awsVars, queueVars, disturbed, bounds>>
  /\ Remember

DelPatchStatus ==
  /\ pc = "del_patch"
  /\ cond' = wcond
  /\ queued' = (queued \/ err = "other")
  /\ Rest
  /\ UNCHANGED <<phase, spec, fin, awsVars, resync, histVars, bounds>>

\* A call that AWS does not execute: throttled, timed out, service unavailable.
CallFails ==
  /\ Fault
  /\ \/ /\ pc \in {"read", "read_created", "create", "tag_add", "tag_del", "update"}
        /\ Fail("other", "patch")
     \/ /\ pc \in {"del_read", "del_call"}
        /\ Fail("other", "del_patch")
  /\ UNCHANGED <<crVars, awsVars, queueVars, histVars>>

\* A patch of the finalizer that Kubernetes does not execute: the reconcile ends
\* and is retried.
PatchFails ==
  /\ Fault
  /\ pc \in {"manage", "unmanage"}
  /\ Rest
  /\ queued' = TRUE
  /\ UNCHANGED <<crVars, awsVars, resync, disturbed>>
  /\ Remember

-----------------------------------------------------------------------------
(***************************************************************************)
(* Steps of the queue, the controller process, the users and AWS.          *)
(***************************************************************************)

Resync ==
  /\ pc = "idle" /\ resync /\ ~queued
  /\ resync' = FALSE
  /\ queued' = TRUE
  /\ UNCHANGED <<crVars, awsVars, pc, localVars, histVars, bounds>>

\* The process stops anywhere; when it starts it lists every resource.
Crash ==
  /\ Fault
  /\ Rest
  /\ queued' = (phase # "absent")
  /\ resync' = FALSE
  /\ UNCHANGED <<crVars, awsVars, disturbed>>
  /\ Remember

UserEdits ==
  /\ edits < MaxEdits
  /\ edits' = edits + 1
  /\ queued' = TRUE
  /\ UNCHANGED <<awsVars, pc, localVars, resync, histVars, faults, meddling>>

Apply ==
  /\ phase = "absent"
  /\ phase' = "present"
  /\ spec' \in UserSpecs
  /\ UNCHANGED <<fin, cond>>
  /\ UserEdits

Edit ==
  /\ phase = "present"
  /\ spec' \in UserSpecs \ {spec}
  /\ UNCHANGED <<phase, fin, cond>>
  /\ UserEdits

\* A resource with a finalizer stays until the finalizer is removed.
Delete ==
  /\ phase = "present"
  /\ \/ /\ fin
        /\ phase' = "deleting"
        /\ UNCHANGED <<spec, fin, cond>>
     \/ /\ ~fin
        /\ phase' = "absent" /\ spec' = Blank /\ cond' = NoConditions
        /\ UNCHANGED fin
  /\ UserEdits

Meddle(what) ==
  /\ what \in Outside
  /\ meddling < MaxOutside
  /\ meddling' = meddling + 1
  /\ disturbed' = TRUE
  /\ UNCHANGED <<crVars, pc, localVars, queueVars, edits, faults>>
  /\ Remember

ForeignCreate ==
  /\ aws = "absent"
  /\ aws' = "live" /\ owner' = "alien" /\ group' \in ForeignGroups
  /\ Meddle("create")

ForeignDelete ==
  /\ aws = "live"
  /\ aws' = "deleting"
  /\ UNCHANGED <<owner, group>>
  /\ Meddle("delete")

ForeignChange ==
  /\ aws = "live"
  /\ group' \in ForeignGroups \ {group}
  /\ UNCHANGED <<aws, owner>>
  /\ Meddle("drift")

\* AWS finishes a deletion.
FinishDelete ==
  /\ aws = "deleting"
  /\ aws' = "absent" /\ owner' = "none" /\ group' = Blank
  /\ disturbed' = TRUE
  /\ UNCHANGED <<crVars, pc, localVars, queueVars, bounds>>
  /\ Remember

-----------------------------------------------------------------------------
Worker ==
  \/ StartSync \/ StartDelete \/ StartGone
  \/ ReadNotFound \/ ReadFound
  \/ MarkManaged \/ MarkManagedGone
  \/ CreateOutOfRange \/ Create \/ CreateRejected \/ CreateLost \/ ReadCreated
  \/ TagAdd \/ TagAddRejected \/ TagRemove \/ TagRemoveRejected
  \/ UpdateOutOfRange \/ Update \/ UpdateRejected
  \/ PatchStatus
  \/ DelRead \/ DelCall \/ DelRejected \/ Unmanage \/ DelPatchStatus
  \/ CallFails \/ PatchFails

User == Apply \/ Edit \/ Delete

OtherClients == ForeignCreate \/ ForeignDelete \/ ForeignChange

Next == Worker \/ Resync \/ Crash \/ User \/ OtherClients \/ FinishDelete

\* The queue hands the resource to a worker, a worker's calls return, the resync
\* timer fires and AWS finishes its deletions.
Fairness == WF_vars(Worker) /\ WF_vars(Resync) /\ WF_vars(FinishDelete)

Spec == Init /\ [][Next]_vars /\ Fairness

-----------------------------------------------------------------------------
(***************************************************************************)
(* Properties.                                                             *)
(***************************************************************************)

PCs == {"idle", "read", "manage", "create", "read_created", "tag_add", "tag_del",
        "update", "patch", "del_read", "del_call", "unmanage", "del_patch"}

\* Every variable has its type.
TypeOK ==
  /\ phase \in {"absent", "present", "deleting"}
  /\ spec \in SpecSet /\ fin \in BOOLEAN /\ cond \in ConditionSet
  /\ aws \in {"absent", "live", "deleting"}
  /\ owner \in {"none", "ack", "alien"}
  /\ group \in SpecSet
  /\ pc \in PCs /\ managed \in BOOLEAN
  /\ desired \in SpecSet /\ latest \in SpecSet
  /\ wcond \in ConditionSet /\ err \in ErrorClass
  /\ {queued, resync, disturbed} \subseteq BOOLEAN
  /\ came \in {"none", "claimed", "raced", "free"}
  /\ edits \in 0 .. MaxEdits /\ faults \in 0 .. MaxFaults
  /\ meddling \in 0 .. MaxOutside

(***************************************************************************)
(* A group that the controller created is never left behind: as long as it *)
(* lives there is a custom resource that carries the finalizer, so that    *)
(* deleting the resource deletes the group.  It holds through crashes and  *)
(* lost answers because the finalizer is patched in before the create and  *)
(* removed only after a NotFound or an accepted delete.                    *)
(***************************************************************************)
NoOrphan == (aws = "live" /\ owner = "ack") => (phase # "absent" /\ fin)

(***************************************************************************)
(* The controller does not touch a group of another client, tags included, *)
(* that stands, or once stood, while the custom resource neither had       *)
(* claimed the name with its finalizer nor had just read it as free in     *)
(* order to claim it: it neither writes nor deletes the group, and no      *)
(* later finalizer brings the group into its hands.  What the code does    *)
(* touch is a group that came after the claim, or in the race between the  *)
(* read that answers NotFound and the patch of the finalizer               *)
(* (OnlyOwnRead).                                                          *)
(***************************************************************************)
ForeignUntouched == [][(pc # pc' /\ came = "free") => UNCHANGED awsVars]_vars

(***************************************************************************)
(* What the status shows is true.  When the resource is at rest, Synced is *)
(* True and nobody else changed the group since it was read, the group has *)
(* the value of every field of the spec that an update can change and a    *)
(* read can see, and all tags of the spec and of the controller but        *)
(* no others outside aws:.  An edit in the middle of a reconcile, a call   *)
(* that was executed but reported as failed, or a tag call followed by a   *)
(* failing update never leaves a stale Synced behind.                      *)
(***************************************************************************)
InSync ==
  /\ aws # "absent"
  /\ \A n \in Fields \cap UpdateFields \cap FindFields :
        spec.f[n] # Nil => group.f[n] = spec.f[n]
  /\ \A k \in Keys \ AwsKeys : group.t[k] = EnsureTags(spec.t)[k]

AtRest == pc = "idle" /\ ~queued

SyncedIsTrue ==
  (AtRest /\ phase = "present" /\ cond.synced = "True" /\ ~disturbed) => InSync

(***************************************************************************)
(* The controller never stops working on a resource in silence: one that   *)
(* is neither queued nor in a worker's hands either is synced and will be  *)
(* looked at again, or shows a terminal condition to its user.             *)
(***************************************************************************)
NoSilentStop ==
  /\ (AtRest /\ phase = "present") =>
        \/ cond.synced = "True" /\ resync /\ cond.terminal # "True"
        \/ cond.terminal = "True" /\ cond.synced # "True"
  /\ (AtRest /\ phase = "deleting") => cond.terminal = "True"

(***************************************************************************)
(* No tag call that the controller makes names an aws: tag that the group  *)
(* carried when it was read: neither to overwrite it with what the user    *)
(* wrote nor to remove it because the user did not.                        *)
(***************************************************************************)
SystemTagsLeftAlone ==
  pc \in {"tag_add", "tag_del"} =>
    \A k \in AwsKeys : latest.t[k] # NoTag =>
      k \notin ToAdd(desired.t, latest.t) \cup ToRemove(desired.t, latest.t)

(***************************************************************************)
(* Once the users, the other clients and the faults pause, the group comes *)
(* to match the spec, or the resource shows a terminal condition, or its   *)
(* spec holds an integer that the API cannot take.                         *)
(***************************************************************************)
Converges ==
  <>[](\/ phase # "present"
       \/ aws = "live" /\ InSync
       \/ cond.terminal = "True"
       \/ OutOfRange(spec.f, CreateFields \cup UpdateFields) # {})

(***************************************************************************)
(* A deletion completes: the resource goes, or it tells its user why not.  *)
(***************************************************************************)
DeletionSettles == phase = "deleting" ~> (phase = "absent" \/ cond.terminal = "True")

(***************************************************************************)
(* The finalizer and the live group follow the protocol of GroupClaim.     *)
(***************************************************************************)
LiveGroup == IF aws # "live" THEN "none" ELSE IF owner = "ack" THEN "ours" ELSE "theirs"

Promise == INSTANCE GroupClaim WITH held <- fin, have <- LiveGroup

ImplementsClaim == Promise!Spec

(***************************************************************************)
(* What the CRD says of the ARN that sdkFind writes into the status: it is *)
(* set only once the controller has orchestrated the creation of the group *)
(* or verified an adopted one.  So no reconcile that goes on with a group  *)
(* as the resource's own, its ARN in hand, has read one that another       *)
(* client created before the resource claimed the name.                    *)
(***************************************************************************)
OnlyOwnRead == [][(ReadFound /\ managed) => came # "raced"]_vars

(***************************************************************************)
(* What the chart and the descriptor say of a deletion: the controller     *)
(* deletes the AWS resource before the Kubernetes resource is removed.     *)
(***************************************************************************)
GroupGoneFirst ==
  [][(phase = "deleting" /\ phase' = "absent") => (owner = "ack" => aws = "absent")]_vars
=============================================================================
