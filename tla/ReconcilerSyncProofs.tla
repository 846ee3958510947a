----------------------- MODULE ReconcilerSyncProofs -----------------------
(***************************************************************************)
(* TLAPS proofs about what a synchronisation of Reconciler does, for any   *)
(* fields, tags, specs, other clients and bounds: the Synced condition is  *)
(* true, and no tag call names an aws: tag that was read.                  *)
(***************************************************************************)
EXTENDS ReconcilerStopProofs

(***************************************************************************)
(* The strengthening of SyncedIsTrue, part by part.  As long as nothing    *)
(* was edited, the working copy is the spec.                               *)
(***************************************************************************)
CopyOfSpec ==
  (pc \in Running \cup {"patch"} /\ ~queued) =>
    /\ desired.f = spec.f
    /\ \A k \in Keys \ AwsKeys : desired.t[k] = EnsureTags(spec.t)[k]

(***************************************************************************)
(* As long as nobody else touched the group, an update knows its fields    *)
(* and how far its tags have come.                                         *)
(***************************************************************************)
KnownGroup ==
  (pc \in {"tag_add", "tag_del", "update"} /\ ~disturbed) =>
    /\ aws # "absent"
    /\ \A n \in Fields \cap FindFields : latest.f[n] = group.f[n]

KnownTags ==
  ~disturbed =>
    /\ pc = "tag_add" => group.t = latest.t
    /\ pc = "tag_del" => group.t = WithTags(latest.t, desired.t, ToAdd(desired.t, latest.t))
    /\ pc = "update" => group.t = desired.t

(***************************************************************************)
(* The group has what the working copy asks for.                           *)
(***************************************************************************)
FieldsApplied ==
  \A n \in Fields \cap UpdateFields \cap FindFields :
    desired.f[n] # Nil => group.f[n] = desired.f[n]

Applied == aws # "absent" /\ group.t = desired.t /\ FieldsApplied

AppliedBeforePatch ==
  (pc = "patch" /\ err = "none" /\ wcond.synced = "absent" /\ ~disturbed) => Applied

(***************************************************************************)
(* After a create the condition is set, to False.                          *)
(***************************************************************************)
CreatedUnsynced == pc = "read_created" => wcond.synced = "False"

SyncInv ==
  /\ CopyOfSpec
  /\ KnownGroup
  /\ KnownTags
  /\ AppliedBeforePatch
  /\ CreatedUnsynced
  /\ SyncedIsTrue

-----------------------------------------------------------------------------
(***************************************************************************)
(* The operators.                                                          *)
(***************************************************************************)

(***************************************************************************)
(* The int32 conversion is the identity on the integers that fit.          *)
(***************************************************************************)
LEMMA NarrowFits == ASSUME NEW v \in Int, Fits(v) PROVE Narrow(v) = v
<1> DEFINE n == 2 * (MaxInt32 + 1)
           x == v - MinInt32
<1>1. n \in Nat /\ n > 0 /\ MinInt32 \in Int /\ n = MaxInt32 - MinInt32 + 1
  BY FieldAssumptions DEF MinInt32
<1>2. x \in Nat /\ x < n
  BY <1>1, FieldAssumptions DEF Fits
<1>3. x % n = x
  <2> HIDE DEF x, n
  <2> QED
    BY <1>1, <1>2
<1> QED
  BY <1>1, <1>3 DEF Narrow

(***************************************************************************)
(* An update that passes the range check leaves in the group what it was   *)
(* asked for.                                                              *)
(***************************************************************************)
LEMMA UpdatedAsAsked ==
  ASSUME NEW f \in [Fields -> Value], NEW g \in [Fields -> Value],
         OutOfRange(f, UpdateFields) = {},
         NEW n \in Fields \cap UpdateFields, f[n] # Nil
  PROVE  UpdatedWith(f, g)[n] = f[n]
<1>1. UpdatedWith(f, g)[n] = Sent(f, n)
  BY DEF UpdatedWith
<1>2. CASE n \in Int32Fields
  <2>1. f[n] \in Int /\ Fits(f[n])
    BY <1>2 DEF OutOfRange, Value
  <2> QED
    BY <1>1, <1>2, <2>1, NarrowFits DEF Sent
<1>3. CASE n \notin Int32Fields
  BY <1>1, <1>3 DEF Sent
<1> QED
  BY <1>2, <1>3

(***************************************************************************)
(* What an update can change and a read can see is compared: the tables of *)
(* the three generated functions agree.                                    *)
(***************************************************************************)
LEMMA Compared == (UpdateFields \cap FindFields) \subseteq DeltaFields
  BY DEF UpdateFields, UpdateBasics, UpdateLaunch, UpdateRequirements1, UpdateRequirements2,
         UpdateTail, FindFields, FindBasics, FindLaunch, FindRequirements, FindTail,
         DeltaFields, DeltaBasics, DeltaLaunch, DeltaMixed, DeltaTail, CreateRequirements1,
         CreateRequirements2

(***************************************************************************)
(* Writing what is to be added and removing what is to be removed gives    *)
(* the tags desired.                                                       *)
(***************************************************************************)
LEMMA TagCalls ==
  ASSUME NEW d \in TagMap, NEW l \in TagMap
  PROVE  /\ ToAdd(d, l) = {} => WithTags(l, d, ToAdd(d, l)) = l
         /\ WithoutTags(WithTags(l, d, ToAdd(d, l)), ToRemove(d, l)) = d
         /\ ToRemove(d, l) = {} => WithTags(l, d, ToAdd(d, l)) = d
<1> DEFINE w == WithTags(l, d, ToAdd(d, l))
<1>1. ToAdd(d, l) = {} => w = l
  BY DEF TagMap, WithTags
<1>2. \A k \in Keys : k \notin ToRemove(d, l) => w[k] = d[k]
  BY DEF TagMap, WithTags, ToAdd, ToRemove, DifferenceRemoved
<1>3. \A k \in Keys : k \in ToRemove(d, l) => d[k] = NoTag
  BY DEF ToAdd, ToRemove, DifferenceRemoved
<1>4. WithoutTags(w, ToRemove(d, l)) = d
  <2>1. \A k \in Keys : WithoutTags(w, ToRemove(d, l))[k] = d[k]
    BY <1>2, <1>3 DEF WithoutTags
  <2> QED
    BY <2>1 DEF TagMap, WithoutTags
<1>5. ToRemove(d, l) = {} => w = d
  BY <1>2 DEF TagMap, WithTags
<1> QED
  BY <1>1, <1>4, <1>5

(***************************************************************************)
(* Without a difference in the fields, the group has the fields desired.   *)
(***************************************************************************)
LEMMA NoDifference ==
  ASSUME NEW f \in [Fields -> Value], NEW l \in [Fields -> Value], Differing(f, l) = {},
         NEW n \in Fields \cap UpdateFields \cap FindFields
  PROVE  l[n] = f[n]
  BY Compared DEF Differing

-----------------------------------------------------------------------------
(***************************************************************************)
(* Steps that are no news to the invariant.                                *)
(***************************************************************************)

(***************************************************************************)
(* A method that fails on the way to a patch claims nothing.               *)
(***************************************************************************)
LEMMA FailClaims ==
  ASSUME TypeOK, SyncInv, pc \in Running, NEW e \in {"other", "terminal"},
         Fail(e, "patch"), UNCHANGED <<spec, queued>>
  PROVE  SyncInv'
<1>1. wcond \in ConditionSet
  BY DEF TypeOK
<1>2. pc' = "patch" /\ err' = e /\ desired' = desired
  BY <1>1, FailShows DEF Fail
<1> QED
  BY <1>2 DEF SyncInv, CopyOfSpec, KnownGroup, KnownTags, AppliedBeforePatch,
              CreatedUnsynced, SyncedIsTrue, AtRest, Running

(***************************************************************************)
(* A reconcile that ends with the resource queued, or not present, claims  *)
(* nothing either.                                                         *)
(***************************************************************************)
LEMMA RestClaims ==
  ASSUME Rest, queued' \/ phase' # "present"
  PROVE  SyncInv'
  BY DEF Rest, SyncInv, CopyOfSpec, KnownGroup, KnownTags, AppliedBeforePatch,
         CreatedUnsynced, SyncedIsTrue, AtRest, Running

(***************************************************************************)
(* Nor does a step to or within a deletion.                                *)
(***************************************************************************)
LEMMA DeletionClaims ==
  ASSUME pc' \in {"del_read", "del_call", "unmanage", "del_patch"}
  PROVE  SyncInv'
  BY DEF SyncInv, CopyOfSpec, KnownGroup, KnownTags, AppliedBeforePatch, CreatedUnsynced,
         SyncedIsTrue, AtRest, Running

(***************************************************************************)
(* A step beside the worker keeps the invariant if it queues the resource, *)
(* or marks the group disturbed, or changes nothing that matters.          *)
(***************************************************************************)
LEMMA EditAside ==
  ASSUME SyncInv, UNCHANGED <<pc, localVars, awsVars, disturbed>>, queued' = TRUE
  PROVE  SyncInv'
  BY DEF localVars, awsVars, SyncInv, CopyOfSpec, KnownGroup, KnownTags,
         AppliedBeforePatch, Applied, FieldsApplied, CreatedUnsynced, SyncedIsTrue, AtRest

LEMMA DisturbanceAside ==
  ASSUME SyncInv, UNCHANGED <<pc, localVars, crVars, queueVars>>, disturbed' = TRUE
  PROVE  SyncInv'
  BY DEF localVars, crVars, queueVars, SyncInv, CopyOfSpec, KnownGroup, KnownTags,
         AppliedBeforePatch, CreatedUnsynced, SyncedIsTrue

LEMMA Stutter ==
  ASSUME SyncInv, UNCHANGED vars
  PROVE  SyncInv'
  BY DEF vars, localVars, awsVars, crVars, queueVars, histVars, SyncInv, CopyOfSpec, KnownGroup,
         KnownTags, AppliedBeforePatch, Applied, FieldsApplied, CreatedUnsynced,
         SyncedIsTrue, AtRest, InSync

-----------------------------------------------------------------------------
(***************************************************************************)
(* The steps that establish or use it.                                     *)
(***************************************************************************)

(***************************************************************************)
(* The read takes note of the group; without a difference the group has    *)
(* what the working copy asks for.                                         *)
(***************************************************************************)
LEMMA ReadFoundClaims ==
  ASSUME TypeOK, StopInv, SyncInv, ReadFound
  PROVE  SyncInv'
<1>1. /\ pc = "read" /\ aws # "absent" /\ disturbed' = FALSE
      /\ UNCHANGED <<phase, spec, cond, aws, group, queued>>
  BY DEF ReadFound, crVars, awsVars, queueVars
<1>2. /\ desired \in SpecSet /\ group \in SpecSet /\ wcond \in ConditionSet
  BY DEF TypeOK
<1>3. desired' = [desired EXCEPT !.t = SyncAWSTags(desired.t, group.t)]
  BY DEF ReadFound
<1>4. desired'.f = desired.f /\ desired'.t = SyncAWSTags(desired.t, group.t)
  BY <1>2, <1>3 DEF SpecSet
<1>5. latest' = [f |-> Observed(desired.f, group.f), t |-> group.t]
  BY DEF ReadFound
<1>6. \A n \in Fields \cap FindFields : latest'.f[n] = group.f[n]
  BY <1>2, <1>5 DEF SpecSet, Observed
<1>7. desired.f \in [Fields -> Value] /\ latest'.f \in [Fields -> Value]
  BY <1>2, <1>5 DEF SpecSet, Observed
<1>8. desired'.t \in TagMap /\ group.t \in TagMap
  BY <1>2, <1>4 DEF SpecSet, TagMap, SyncAWSTags
<1>9. CopyOfSpec'
  <2>1. \A k \in Keys \ AwsKeys : desired'.t[k] = desired.t[k]
    BY <1>4 DEF SyncAWSTags
  <2> QED
    BY <1>1, <1>4, <2>1 DEF SyncInv, CopyOfSpec, Running
<1>10. CASE managed
  <2>1. /\ wcond' = UpdateConditions(wcond, "none") /\ err' = err
        /\ pc' = FirstCall(desired', latest')
    BY <1>10 DEF ReadFound
  <2>2. pc' \in {"tag_add", "tag_del", "update", "patch"}
    BY <2>1 DEF FirstCall, AfterAdd, AfterRemove
  <2>3. pc' # "tag_add" => WithTags(group.t, desired'.t, ToAdd(desired'.t, latest'.t)) = group.t
    BY <1>5, <1>8, <2>1, TagCalls DEF FirstCall
  <2>4. pc' \in {"update", "patch"} => group.t = desired'.t
    <3>1. pc' \in {"update", "patch"} => ToRemove(desired'.t, latest'.t) = {}
      BY <2>1 DEF FirstCall, AfterAdd
    <3> QED
      BY <1>5, <1>8, <2>3, <3>1, TagCalls
  <2>5. pc' = "patch" => FieldsApplied'
    <3>1. SUFFICES ASSUME pc' = "patch", NEW n \in Fields \cap UpdateFields \cap FindFields
                   PROVE  group.f[n] = desired.f[n]
      BY <1>1, <1>4 DEF FieldsApplied
    <3>2. Differing(desired.f, latest'.f) = {}
      BY <1>4, <2>1, <3>1 DEF FirstCall, AfterAdd, AfterRemove
    <3> QED
      BY <1>6, <1>7, <3>2, NoDifference
  <2> QED
    BY <1>1, <1>5, <1>6, <1>9, <2>2, <2>3, <2>4, <2>5
    DEF SyncInv, KnownGroup, KnownTags, AppliedBeforePatch, Applied, CreatedUnsynced,
        SyncedIsTrue, AtRest
<1>11. CASE ~managed
  <2>1. err' = "terminal" /\ pc' = "patch"
    BY <1>11 DEF ReadFound
  <2> QED
    BY <1>9, <2>1 DEF SyncInv, KnownGroup, KnownTags, AppliedBeforePatch, CreatedUnsynced,
                      SyncedIsTrue, AtRest
<1> QED
  BY <1>10, <1>11

(***************************************************************************)
(* After the tags to add come those to remove, then the fields.            *)
(***************************************************************************)
LEMMA TagAddClaims ==
  ASSUME TypeOK, SyncInv, TagAdd
  PROVE  SyncInv'
<1>1. /\ pc = "tag_add" /\ UNCHANGED <<spec, phase, cond, aws, queued, disturbed>>
      /\ group' = [group EXCEPT !.t = WithTags(group.t, desired.t, ToAdd(desired.t, latest.t))]
  BY DEF TagAdd, crVars, queueVars, histVars
<1>2. group \in SpecSet /\ desired \in SpecSet /\ latest \in SpecSet
  BY DEF TypeOK
<1>3. /\ group'.f = group.f
      /\ group'.t = WithTags(group.t, desired.t, ToAdd(desired.t, latest.t))
  BY <1>1, <1>2 DEF SpecSet
<1>4. desired.t \in TagMap /\ latest.t \in TagMap
  BY <1>2 DEF SpecSet
<1>5. CASE Fail("other", "patch")
  BY <1>1, <1>5, FailClaims DEF Running
<1>6. CASE pc' = AfterAdd(desired, latest) /\ UNCHANGED localVars
  <2>1. UNCHANGED <<desired, latest, wcond, err>>
    BY <1>6 DEF localVars
  <2>2. pc' \in {"tag_del", "update", "patch"}
    BY <1>6 DEF AfterAdd, AfterRemove
  <2>3. ~disturbed => group'.t = WithTags(latest.t, desired.t, ToAdd(desired.t, latest.t))
    BY <1>1, <1>3 DEF SyncInv, KnownTags
  <2>4. (~disturbed /\ pc' # "tag_del") => group'.t = desired.t
    <3>1. pc' # "tag_del" => ToRemove(desired.t, latest.t) = {}
      BY <1>6 DEF AfterAdd
    <3> QED
      BY <1>4, <2>3, <3>1, TagCalls
  <2>5. (~disturbed /\ pc' = "patch") => FieldsApplied'
    <3>1. SUFFICES ASSUME ~disturbed, pc' = "patch",
                          NEW n \in Fields \cap UpdateFields \cap FindFields
                   PROVE  group.f[n] = desired.f[n]
      BY <1>3, <2>1 DEF FieldsApplied
    <3>2. Differing(desired.f, latest.f) = {}
      BY <1>6, <3>1 DEF AfterAdd, AfterRemove
    <3>3. latest.f[n] = group.f[n]
      BY <1>1, <3>1 DEF SyncInv, KnownGroup
    <3> QED
      BY <1>2, <3>2, <3>3, NoDifference DEF SpecSet
  <2> QED
    BY <1>1, <1>3, <2>1, <2>2, <2>3, <2>4, <2>5
    DEF SyncInv, CopyOfSpec, KnownGroup, KnownTags, AppliedBeforePatch, Applied,
        CreatedUnsynced, SyncedIsTrue, AtRest, Running
<1> QED
  BY <1>5, <1>6 DEF TagAdd

LEMMA TagRemoveClaims ==
  ASSUME TypeOK, SyncInv, TagRemove
  PROVE  SyncInv'
<1>1. /\ pc = "tag_del" /\ UNCHANGED <<spec, phase, cond, aws, queued, disturbed>>
      /\ group' = [group EXCEPT !.t = WithoutTags(group.t, ToRemove(desired.t, latest.t))]
  BY DEF TagRemove, crVars, queueVars, histVars
<1>2. group \in SpecSet /\ desired \in SpecSet /\ latest \in SpecSet
  BY DEF TypeOK
<1>3. group'.f = group.f /\ group'.t = WithoutTags(group.t, ToRemove(desired.t, latest.t))
  BY <1>1, <1>2 DEF SpecSet
<1>4. CASE Fail("other", "patch")
  BY <1>1, <1>4, FailClaims DEF Running
<1>5. CASE pc' = AfterRemove(desired, latest) /\ UNCHANGED localVars
  <2>1. UNCHANGED <<desired, latest, wcond, err>>
    BY <1>5 DEF localVars
  <2>2. pc' \in {"update", "patch"}
    BY <1>5 DEF AfterRemove
  <2>3. ~disturbed => group'.t = desired.t
    <3>1. desired.t \in TagMap /\ latest.t \in TagMap
      BY <1>2 DEF SpecSet
    <3>2. ~disturbed => group.t = WithTags(latest.t, desired.t, ToAdd(desired.t, latest.t))
      BY <1>1 DEF SyncInv, KnownTags
    <3> QED
      BY <1>3, <3>1, <3>2, TagCalls
  <2>4. (~disturbed /\ pc' = "patch") => FieldsApplied'
    <3>1. SUFFICES ASSUME ~disturbed, pc' = "patch",
                          NEW n \in Fields \cap UpdateFields \cap FindFields
                   PROVE  group.f[n] = desired.f[n]
      BY <1>3, <2>1 DEF FieldsApplied
    <3>2. Differing(desired.f, latest.f) = {}
      BY <1>5, <3>1 DEF AfterRemove
    <3>3. latest.f[n] = group.f[n]
      BY <1>1, <3>1 DEF SyncInv, KnownGroup
    <3> QED
      BY <1>2, <3>2, <3>3, NoDifference DEF SpecSet
  <2> QED
    BY <1>1, <1>3, <2>1, <2>2, <2>3, <2>4
    DEF SyncInv, CopyOfSpec, KnownGroup, KnownTags, AppliedBeforePatch, Applied,
        CreatedUnsynced, SyncedIsTrue, AtRest, Running
<1> QED
  BY <1>4, <1>5 DEF TagRemove

(***************************************************************************)
(* The update comes last and leaves the fields in the group.               *)
(***************************************************************************)
LEMMA UpdateClaims ==
  ASSUME TypeOK, SyncInv, Update
  PROVE  SyncInv'
<1>1. /\ pc = "update" /\ aws = "live" /\ OutOfRange(desired.f, UpdateFields) = {}
      /\ UNCHANGED <<spec, phase, cond, aws, queued, disturbed>>
      /\ group' = [group EXCEPT !.f = UpdatedWith(desired.f, group.f)]
  BY DEF Update, crVars, queueVars, histVars
<1>2. group \in SpecSet /\ desired \in SpecSet
  BY DEF TypeOK
<1>3. group'.t = group.t /\ group'.f = UpdatedWith(desired.f, group.f)
  BY <1>1, <1>2 DEF SpecSet
<1>4. CASE Fail("other", "patch")
  BY <1>1, <1>4, FailClaims DEF Running
<1>5. CASE Succeed(NoConditions, "patch")
  <2>1. pc' = "patch" /\ UNCHANGED <<desired, latest, err>>
    BY <1>5 DEF Succeed
  <2>2. FieldsApplied'
    <3>1. SUFFICES ASSUME NEW n \in Fields \cap UpdateFields \cap FindFields,
                          desired.f[n] # Nil
                   PROVE  group'.f[n] = desired.f[n]
      BY <2>1 DEF FieldsApplied
    <3> QED
      BY <1>1, <1>2, <1>3, <3>1, UpdatedAsAsked DEF SpecSet
  <2>3. ~disturbed => group'.t = desired.t
    BY <1>1, <1>3 DEF SyncInv, KnownTags
  <2> QED
    BY <1>1, <2>1, <2>2, <2>3
    DEF SyncInv, CopyOfSpec, KnownGroup, KnownTags, AppliedBeforePatch, Applied,
        CreatedUnsynced, SyncedIsTrue, AtRest, Running
<1> QED
  BY <1>4, <1>5 DEF Update

(***************************************************************************)
(* A create is not synced yet, and the read after it keeps it so.          *)
(***************************************************************************)
LEMMA CreateClaims ==
  ASSUME TypeOK, SyncInv, Create \/ ReadCreated
  PROVE  SyncInv'
<1>1. wcond \in ConditionSet /\ UNCHANGED <<spec, phase, queued>>
  BY DEF TypeOK, Create, ReadCreated, crVars, queueVars
<1>2. CASE Create
  <2>1. /\ pc = "create" /\ pc' = "read_created"
        /\ wcond' = AfterCreate(wcond) /\ desired' = desired
    BY <1>2 DEF Create, CreateReady
  <2>2. wcond'.synced = "False"
    BY <1>1, <2>1, Outcomes
  <2> QED
    BY <1>1, <2>1, <2>2
    DEF SyncInv, CopyOfSpec, KnownGroup, KnownTags, AppliedBeforePatch, CreatedUnsynced,
        SyncedIsTrue, AtRest, Running
<1>3. CASE pc = "read_created" /\ Succeed(wcond, "patch")
  <2>1. pc' = "patch" /\ wcond' = UpdateConditions(wcond, "none") /\ desired' = desired
    BY <1>3 DEF Succeed
  <2>2. wcond'.synced = "False"
    BY <1>1, <1>3, <2>1, Outcomes DEF ErrorClass, SyncInv, CreatedUnsynced
  <2> QED
    BY <1>1, <1>3, <2>1, <2>2
    DEF SyncInv, CopyOfSpec, KnownGroup, KnownTags, AppliedBeforePatch, CreatedUnsynced,
        SyncedIsTrue, AtRest, Running
<1>4. CASE pc = "read_created" /\ Fail("other", "patch")
  BY <1>1, <1>4, FailClaims DEF Running
<1> QED
  BY <1>2, <1>3, <1>4 DEF ReadCreated

(***************************************************************************)
(* The patch shows Synced=True only over what was applied.                 *)
(***************************************************************************)
LEMMA PatchClaims ==
  ASSUME TypeOK, StopInv, SyncInv, PatchStatus
  PROVE  SyncInv'
<1>1. /\ pc = "patch" /\ Rest /\ pc' = "idle"
      /\ UNCHANGED <<phase, spec, aws, group, disturbed>>
      /\ cond' = IF phase = "absent" THEN cond ELSE EnsureSynced(wcond, err)
      /\ queued' = (queued \/ err = "other"
                      \/ (err = "none" /\ EnsureSynced(wcond, err).synced # "True"))
  BY DEF PatchStatus, Rest, awsVars, histVars
<1>2. CASE ~(phase = "present" /\ cond'.synced = "True" /\ ~queued' /\ ~disturbed)
  BY <1>1, <1>2
  DEF SyncInv, CopyOfSpec, KnownGroup, KnownTags, AppliedBeforePatch, CreatedUnsynced,
      SyncedIsTrue, AtRest, Running
<1>3. CASE phase = "present" /\ cond'.synced = "True" /\ ~queued' /\ ~disturbed
  <2>1. wcond \in ConditionSet /\ err \in ErrorClass /\ Undecided
    BY <1>1 DEF TypeOK, StopInv
  <2>2. EnsureSynced(wcond, err).synced = "True"
    BY <1>1, <1>3
  <2>3. wcond.synced = "absent"
    BY <2>1, <2>2 DEF Undecided, EnsureSynced
  <2>4. err = "none"
    BY <2>1, <2>2, Verdict DEF Undecided
  <2>5. ~queued
    BY <1>1, <1>3
  <2>6. Applied
    BY <1>1, <1>3, <2>3, <2>4 DEF SyncInv, AppliedBeforePatch
  <2>7. desired.f = spec.f /\ \A k \in Keys \ AwsKeys : desired.t[k] = EnsureTags(spec.t)[k]
    BY <1>1, <2>5 DEF SyncInv, CopyOfSpec
  <2>8. InSync
    BY <2>6, <2>7 DEF Applied, FieldsApplied, InSync
  <2>9. InSync'
    BY <1>1, <2>8 DEF InSync
  <2> QED
    BY <1>1, <2>9
    DEF SyncInv, CopyOfSpec, KnownGroup, KnownTags, AppliedBeforePatch, CreatedUnsynced,
        SyncedIsTrue, AtRest, Running
<1> QED
  BY <1>2, <1>3

-----------------------------------------------------------------------------
(***************************************************************************)
(* Every step keeps the invariant.                                         *)
(***************************************************************************)
LEMMA SyncStep ==
  ASSUME TypeOK, ClaimInv, StopInv, SyncInv, [Next]_vars
  PROVE  SyncInv'
<1> USE DEF crVars, awsVars, queueVars
<1>1. CASE StartSync
  <2>1. /\ pc' = "read" /\ UNCHANGED spec
        /\ desired' = [spec EXCEPT !.t = EnsureTags(spec.t)]
    BY <1>1 DEF StartSync
  <2>2. desired'.f = spec.f /\ desired'.t = EnsureTags(spec.t)
    BY <2>1 DEF TypeOK, SpecSet
  <2> QED
    BY <2>1, <2>2
    DEF SyncInv, CopyOfSpec, KnownGroup, KnownTags, AppliedBeforePatch, CreatedUnsynced,
        SyncedIsTrue, AtRest
<1>2. CASE MarkManaged
  <2>1. /\ pc' = "create" /\ UNCHANGED spec
        /\ desired' = [spec EXCEPT !.t = EnsureTags(spec.t)]
    BY <1>2 DEF MarkManaged
  <2>2. desired'.f = spec.f /\ desired'.t = EnsureTags(spec.t)
    BY <2>1 DEF TypeOK, SpecSet
  <2> QED
    BY <2>1, <2>2
    DEF SyncInv, CopyOfSpec, KnownGroup, KnownTags, AppliedBeforePatch, CreatedUnsynced,
        SyncedIsTrue, AtRest
<1>3. CASE StartDelete \/ DelRead \/ DelCall \/ DelRejected
  BY <1>3, DeletionClaims DEF StartDelete, DelRead, DelCall, DelRejected, Succeed, Fail
<1>4. CASE StartGone
  <2>1. pc = "idle" /\ phase = "absent" /\ UNCHANGED <<pc, phase>>
    BY <1>4 DEF StartGone
  <2> QED
    BY <2>1
    DEF SyncInv, CopyOfSpec, KnownGroup, KnownTags, AppliedBeforePatch, CreatedUnsynced,
        SyncedIsTrue, Running
<1>5. CASE ReadNotFound
  <2>1. pc = "read" /\ pc' \in {"create", "manage"} /\ UNCHANGED <<spec, queued, desired>>
    BY <1>5 DEF ReadNotFound, localVars
  <2> QED
    BY <2>1
    DEF SyncInv, CopyOfSpec, KnownGroup, KnownTags, AppliedBeforePatch, CreatedUnsynced,
        SyncedIsTrue, AtRest, Running
<1>6. CASE ReadFound
  BY <1>6, ReadFoundClaims
<1>7. CASE Create \/ ReadCreated
  BY <1>7, CreateClaims
<1>8. CASE TagAdd
  BY <1>8, TagAddClaims
<1>9. CASE TagRemove
  BY <1>9, TagRemoveClaims
<1>10. CASE Update
  BY <1>10, UpdateClaims
<1>11. CASE PatchStatus
  BY <1>11, PatchClaims
<1>12. CASE \/ CreateOutOfRange \/ CreateRejected \/ CreateLost \/ TagAddRejected
            \/ TagRemoveRejected \/ UpdateOutOfRange \/ UpdateRejected
  <2>1. /\ pc \in {"create", "tag_add", "tag_del", "update"}
        /\ UNCHANGED <<spec, queued>>
        /\ \E e \in {"other", "terminal"} : Fail(e, "patch")
    BY <1>12 DEF CreateOutOfRange, CreateRejected, CreateLost, CreateReady, TagAddRejected,
                 TagRemoveRejected, UpdateOutOfRange, UpdateRejected
  <2> QED
    BY <2>1, FailClaims DEF Running
<1>13. CASE CallFails
  <2>1. UNCHANGED <<spec, queued>>
    BY <1>13 DEF CallFails
  <2>2. CASE /\ pc \in {"read", "read_created", "create", "tag_add", "tag_del", "update"}
             /\ Fail("other", "patch")
    BY <2>1, <2>2, FailClaims DEF Running
  <2>3. CASE Fail("other", "del_patch")
    BY <2>3, DeletionClaims DEF Fail
  <2> QED
    BY <1>13, <2>2, <2>3 DEF CallFails
<1>14. CASE MarkManagedGone \/ Unmanage \/ PatchFails \/ Crash
  <2>1. Rest /\ (queued' \/ phase' # "present")
    BY <1>14 DEF MarkManagedGone, Unmanage, PatchFails, Crash
  <2> QED
    BY <2>1, RestClaims
<1>15. CASE DelPatchStatus
  <2>1. Rest /\ phase' # "present"
    BY <1>15 DEF DelPatchStatus, ClaimInv
  <2> QED
    BY <2>1, RestClaims
<1>16. CASE Resync \/ User
  <2>1. UNCHANGED <<pc, localVars, awsVars, disturbed>> /\ queued' = TRUE
    BY <1>16 DEF Resync, User, Apply, Edit, Delete, UserEdits, histVars
  <2> QED
    BY <2>1, EditAside
<1>17. CASE OtherClients \/ FinishDelete
  <2>1. UNCHANGED <<pc, localVars, crVars, queueVars>> /\ disturbed' = TRUE
    BY <1>17 DEF OtherClients, ForeignCreate, ForeignDelete, ForeignChange, FinishDelete,
                 Meddle
  <2> QED
    BY <2>1, DisturbanceAside
<1>18. CASE UNCHANGED vars
  BY <1>18, Stutter
<1> QED
  BY <1>1, <1>2, <1>3, <1>4, <1>5, <1>6, <1>7, <1>8, <1>9, <1>10, <1>11, <1>12, <1>13,
     <1>14, <1>15, <1>16, <1>17, <1>18
  DEF Next, Worker

(***************************************************************************)
(* Synced=True at rest means that the group has the fields and the tags of *)
(* the spec, unless somebody else changed it since it was read.            *)
(***************************************************************************)
THEOREM SyncedHolds == Spec => []SyncedIsTrue
<1>1. Init => ClaimInv /\ StopInv /\ SyncInv
  BY DEF Init, ClaimInv, NoOrphan, StopInv, NoSilentStop, Undecided, SyncInv, CopyOfSpec,
         KnownGroup, KnownTags, AppliedBeforePatch, CreatedUnsynced, SyncedIsTrue, AtRest,
         Running
<1>2. /\ TypeOK /\ ClaimInv /\ StopInv /\ SyncInv
      /\ [Next]_vars
      => StopInv' /\ SyncInv'
  BY StopStep, SyncStep
<1>3. SyncInv => SyncedIsTrue
  BY DEF SyncInv
<1> QED
  BY <1>1, <1>2, <1>3, TypeCorrect, ClaimHolds, PTL DEF Spec

-----------------------------------------------------------------------------
(***************************************************************************)
(* The tags of AWS itself.                                                 *)
(***************************************************************************)

(***************************************************************************)
(* The strengthening of SystemTagsLeftAlone: from the read to the last tag *)
(* call the working copy carries every aws: tag that was read.             *)
(***************************************************************************)
Mirrored ==
  pc \in {"tag_add", "tag_del"} =>
    \A k \in AwsKeys : latest.t[k] # NoTag => desired.t[k] = latest.t[k]

(***************************************************************************)
(* What syncAWSTags mirrors is no difference.                              *)
(***************************************************************************)
LEMMA SyncMirrors ==
  ASSUME NEW t, NEW u, NEW k \in AwsKeys, u[k] # NoTag
  PROVE  SyncAWSTags(t, u)[k] = u[k]
  BY TagAssumptions DEF SyncAWSTags

(***************************************************************************)
(* A step that ends at a tag call is the read, or a tag call that keeps    *)
(* the working copy.                                                       *)
(***************************************************************************)
LEMMA TagCallNext ==
  ASSUME TypeOK, [Next]_vars, pc' \in {"tag_add", "tag_del"}
  PROVE  \/ ReadFound
         \/ /\ pc \in {"tag_add", "tag_del"}
            /\ UNCHANGED <<desired, latest>>
<1> USE DEF Rest, Fail, Succeed, UserEdits, Meddle, localVars
<1>1. CASE StartSync \/ StartDelete \/ StartGone \/ ReadNotFound
  BY <1>1 DEF StartSync, StartDelete, StartGone, ReadNotFound
<1>2. CASE MarkManaged \/ MarkManagedGone \/ CreateOutOfRange \/ Create \/ CreateRejected
  BY <1>2 DEF MarkManaged, MarkManagedGone, CreateOutOfRange, Create, CreateRejected
<1>3. CASE CreateLost \/ ReadCreated \/ TagAddRejected \/ TagRemoveRejected
  BY <1>3 DEF CreateLost, ReadCreated, TagAddRejected, TagRemoveRejected
<1>4. CASE TagAdd
  <2>1. pc = "tag_add" /\ UNCHANGED <<desired, latest>>
    BY <1>4 DEF TagAdd
  <2> QED
    BY <2>1
<1>5. CASE TagRemove
  <2>1. pc = "tag_del" /\ UNCHANGED <<desired, latest>>
    BY <1>5 DEF TagRemove
  <2> QED
    BY <2>1
<1>6. CASE UpdateOutOfRange \/ Update \/ UpdateRejected \/ PatchStatus
  BY <1>6 DEF UpdateOutOfRange, Update, UpdateRejected, PatchStatus
<1>7. CASE DelRead \/ DelCall \/ DelRejected \/ Unmanage \/ DelPatchStatus
  BY <1>7 DEF DelRead, DelCall, DelRejected, Unmanage, DelPatchStatus
<1>8. CASE CallFails \/ PatchFails \/ Resync \/ Crash
  BY <1>8 DEF CallFails, PatchFails, Resync, Crash
<1>9. CASE User \/ OtherClients \/ FinishDelete
  BY <1>9 DEF User, Apply, Edit, Delete, OtherClients, ForeignCreate, ForeignDelete,
              ForeignChange, FinishDelete
<1>10. CASE UNCHANGED vars
  BY <1>10 DEF vars
<1> QED
  BY <1>1, <1>2, <1>3, <1>4, <1>5, <1>6, <1>7, <1>8, <1>9, <1>10 DEF Next, Worker

(***************************************************************************)
(* Every step keeps the aws: tags mirrored.                                *)
(***************************************************************************)
LEMMA MirrorStep == ASSUME TypeOK, Mirrored, [Next]_vars PROVE Mirrored'
<1> SUFFICES ASSUME pc' \in {"tag_add", "tag_del"}, NEW k \in AwsKeys, latest'.t[k] # NoTag
             PROVE  desired'.t[k] = latest'.t[k]
  BY DEF Mirrored
<1>1. CASE ReadFound
  <2>1. latest' = [f |-> Observed(desired.f, group.f), t |-> group.t]
    BY <1>1 DEF ReadFound
  <2>2. desired' = [desired EXCEPT !.t = SyncAWSTags(desired.t, group.t)]
    BY <1>1 DEF ReadFound
  <2>3. desired'.t = SyncAWSTags(desired.t, group.t)
    BY <2>2 DEF TypeOK, SpecSet
  <2> QED
    BY <2>1, <2>3, SyncMirrors
<1>2. CASE pc \in {"tag_add", "tag_del"} /\ UNCHANGED <<desired, latest>>
  BY <1>2 DEF Mirrored
<1> QED
  BY <1>1, <1>2, TagCallNext

(***************************************************************************)
(* The worker never asks AWS to write or to remove an aws: tag that it     *)
(* read, in any of its tag calls.                                          *)
(***************************************************************************)
THEOREM SystemTagsSafe == Spec => []SystemTagsLeftAlone
<1>1. Init => Mirrored
  BY DEF Init, Mirrored
<1>2. TypeOK /\ Mirrored /\ [Next]_vars => Mirrored'
  BY MirrorStep
<1>3. Mirrored => SystemTagsLeftAlone
  BY DEF Mirrored, SystemTagsLeftAlone, ToAdd, ToRemove, DifferenceRemoved
<1> QED
  BY <1>1, <1>2, <1>3, TypeCorrect, PTL DEF Spec
=============================================================================
