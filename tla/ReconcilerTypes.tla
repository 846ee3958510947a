-------------------------- MODULE ReconcilerTypes --------------------------
(***************************************************************************)
(* TLAPS proof that Reconciler is type correct, for any fields, tags,      *)
(* specs, other clients and bounds.                                        *)
(***************************************************************************)
EXTENDS Reconciler, TLAPS

(***************************************************************************)
(* TypeOK by actor: the custom resource, the group, the worker, the queue  *)
(* and the bounds.                                                         *)
(***************************************************************************)
CrOK ==
  /\ phase \in {"absent", "present", "deleting"}
  /\ spec \in SpecSet /\ fin \in BOOLEAN /\ cond \in ConditionSet

AwsOK ==
  /\ aws \in {"absent", "live", "deleting"}
  /\ owner \in {"none", "ack", "alien"}
  /\ group \in SpecSet

LocalOK ==
  /\ managed \in BOOLEAN
  /\ desired \in SpecSet /\ latest \in SpecSet
  /\ wcond \in ConditionSet /\ err \in ErrorClass

QueueOK == queued \in BOOLEAN /\ resync \in BOOLEAN

HistOK == disturbed \in BOOLEAN /\ came \in {"none", "claimed", "raced", "free"}

BoundsOK ==
  /\ edits \in 0 .. MaxEdits /\ faults \in 0 .. MaxFaults
  /\ meddling \in 0 .. MaxOutside

(***************************************************************************)
(* TypeOK is the conjunction of its parts.                                 *)
(***************************************************************************)
LEMMA Parts ==
  TypeOK <=> CrOK /\ AwsOK /\ pc \in PCs /\ LocalOK /\ QueueOK /\ HistOK /\ BoundsOK
  BY DEF TypeOK, CrOK, AwsOK, LocalOK, QueueOK, HistOK, BoundsOK

-----------------------------------------------------------------------------
(***************************************************************************)
(* What the operators return.                                              *)
(***************************************************************************)

(***************************************************************************)
(* The int32 conversion of an integer is an integer, within 32 bits.       *)
(***************************************************************************)
LEMMA NarrowInt == ASSUME NEW v \in Int PROVE Narrow(v) \in Int /\ Fits(Narrow(v))
<1>1. MaxInt32 \in Int /\ 2 * (MaxInt32 + 1) > 0
  BY FieldAssumptions
<1>2. (v - MinInt32) % (2 * (MaxInt32 + 1)) \in 0 .. 2 * (MaxInt32 + 1) - 1
  BY <1>1 DEF MinInt32
<1> QED
  BY <1>1, <1>2 DEF Narrow, Fits, MinInt32

(***************************************************************************)
(* A create, an update and a read of typed fields give typed fields.       *)
(***************************************************************************)
LEMMA FieldTypes ==
  ASSUME NEW f \in [Fields -> Value], NEW g \in [Fields -> Value]
  PROVE  /\ CreatedWith(f) \in [Fields -> Value]
         /\ UpdatedWith(f, g) \in [Fields -> Value]
         /\ Observed(f, g) \in [Fields -> Value]
<1>1. ASSUME NEW n \in Fields, f[n] # Nil PROVE Sent(f, n) \in Value
  BY <1>1, NarrowInt DEF Sent, Value
<1>2. ASSUME NEW n \in Fields PROVE Defaulted(n) \in Value
  BY FieldAssumptions DEF Defaulted, Value
<1>3. CreatedWith(f) \in [Fields -> Value]
  BY <1>1, <1>2 DEF CreatedWith
<1>4. UpdatedWith(f, g) \in [Fields -> Value]
  BY <1>1 DEF UpdatedWith
<1>5. Observed(f, g) \in [Fields -> Value]
  BY DEF Observed
<1> QED
  BY <1>3, <1>4, <1>5

(***************************************************************************)
(* The tag operations turn tag maps into tag maps.                         *)
(***************************************************************************)
LEMMA TagTypes ==
  ASSUME NEW t \in TagMap, NEW u \in TagMap, NEW ks
  PROVE  /\ NoTags \in TagMap
         /\ EnsureTags(t) \in TagMap
         /\ SyncAWSTags(t, u) \in TagMap
         /\ WithTags(t, u, ks) \in TagMap
         /\ WithoutTags(t, ks) \in TagMap
  BY TagAssumptions DEF TagMap, NoTags, EnsureTags, SyncAWSTags, WithTags, WithoutTags

(***************************************************************************)
(* Every outcome leaves conditions with legal statuses and is reported as  *)
(* an error of a known class.                                              *)
(***************************************************************************)
LEMMA ConditionTypes ==
  ASSUME NEW c \in ConditionSet, NEW e \in ErrorClass
  PROVE  /\ NoConditions \in ConditionSet
         /\ NotManaged \in ConditionSet
         /\ UpdateConditions(c, e) \in ConditionSet
         /\ AfterCreate(c) \in ConditionSet
         /\ ReportedError(c, e) \in ErrorClass
         /\ EnsureSynced(c, e) \in ConditionSet
<1> USE DEF ConditionSet, ErrorClass, Status, NoConditions, Cleared
<1>1. NoConditions \in ConditionSet /\ NotManaged \in ConditionSet
  BY DEF NotManaged
<1>2. ASSUME NEW x \in ErrorClass PROVE UpdateConditions(c, x) \in ConditionSet
  BY DEF UpdateConditions
<1>3. AfterCreate(c) \in ConditionSet
  BY <1>2 DEF AfterCreate
<1>4. ReportedError(c, e) \in ErrorClass
  BY DEF ReportedError
<1>5. EnsureSynced(c, e) \in ConditionSet
  BY DEF EnsureSynced
<1> QED
  BY <1>1, <1>2, <1>3, <1>4, <1>5

(***************************************************************************)
(* A resource with no field and no tag is typed, and a typed resource      *)
(* stays so when its fields or its tags are replaced by typed ones.        *)
(***************************************************************************)
LEMMA SpecTypes ==
  /\ Blank \in SpecSet
  /\ \A s \in SpecSet : s.f \in [Fields -> Value] /\ s.t \in TagMap
  /\ \A s \in SpecSet, t \in TagMap : [s EXCEPT !.t = t] \in SpecSet
  /\ \A s \in SpecSet, f \in [Fields -> Value] : [s EXCEPT !.f = f] \in SpecSet
  /\ \A f \in [Fields -> Value], t \in TagMap : [f |-> f, t |-> t] \in SpecSet
<1>1. [n \in Fields |-> Nil] \in [Fields -> Value]
  BY DEF Value
<1>2. NoTags \in TagMap
  BY DEF NoTags, TagMap
<1> QED
  BY <1>1, <1>2 DEF SpecSet, Blank

-----------------------------------------------------------------------------
(***************************************************************************)
(* The building blocks of the worker's steps.                              *)
(***************************************************************************)

(***************************************************************************)
(* What a step leaves alone stays typed.                                   *)
(***************************************************************************)
LEMMA Untouched ==
  /\ CrOK /\ UNCHANGED crVars => CrOK'
  /\ AwsOK /\ UNCHANGED awsVars => AwsOK'
  /\ LocalOK /\ UNCHANGED localVars => LocalOK'
  /\ QueueOK /\ UNCHANGED queueVars => QueueOK'
  /\ HistOK /\ UNCHANGED histVars => HistOK'
  /\ BoundsOK /\ UNCHANGED bounds => BoundsOK'
  BY DEF CrOK, AwsOK, LocalOK, QueueOK, HistOK, BoundsOK, crVars, awsVars, localVars,
         queueVars, histVars, bounds

(***************************************************************************)
(* What is remembered of the group of another client has its type.         *)
(***************************************************************************)
LEMMA RememberTypes == HistOK /\ Remember /\ disturbed' \in BOOLEAN => HistOK'
  BY DEF HistOK, Remember

(***************************************************************************)
(* The end of a reconcile clears typed locals.                             *)
(***************************************************************************)
LEMMA RestTypes == Rest => LocalOK' /\ pc' \in PCs
<1>1. NoConditions \in ConditionSet /\ "none" \in ErrorClass
  BY DEF NoConditions, ConditionSet, Status, ErrorClass
<1> QED
  BY <1>1, SpecTypes DEF Rest, LocalOK, PCs

(***************************************************************************)
(* A method that ends in an error leaves typed locals.                     *)
(***************************************************************************)
LEMMA FailTypes ==
  ASSUME LocalOK, NEW e \in ErrorClass, NEW next \in PCs, Fail(e, next)
  PROVE  LocalOK' /\ pc' \in PCs
  BY ConditionTypes DEF LocalOK, Fail

(***************************************************************************)
(* So does one that ends in success.                                       *)
(***************************************************************************)
LEMMA SucceedTypes ==
  ASSUME LocalOK, NEW c \in ConditionSet, NEW next \in PCs, Succeed(c, next)
  PROVE  LocalOK' /\ pc' \in PCs
<1>1. "none" \in ErrorClass
  BY DEF ErrorClass
<1> QED
  BY <1>1, ConditionTypes DEF LocalOK, Succeed

(***************************************************************************)
(* A fault stays within its bound.                                         *)
(***************************************************************************)
LEMMA FaultTypes == BoundsOK /\ Fault => BoundsOK'
  BY ReconcilerAssumptions DEF BoundsOK, Fault

(***************************************************************************)
(* The calls of sdkUpdate lead to one another.                             *)
(***************************************************************************)
LEMMA Routes ==
  ASSUME NEW d, NEW l
  PROVE  FirstCall(d, l) \in PCs /\ AfterAdd(d, l) \in PCs /\ AfterRemove(d, l) \in PCs
  BY DEF FirstCall, AfterAdd, AfterRemove, PCs

(***************************************************************************)
(* A created group is typed.                                               *)
(***************************************************************************)
LEMMA CreatedTypes == LocalOK /\ GroupCreated => AwsOK'
<1> SUFFICES ASSUME LocalOK, GroupCreated PROVE AwsOK'
  OBVIOUS
<1>1. desired.f \in [Fields -> Value] /\ desired.t \in TagMap
  BY SpecTypes DEF LocalOK
<1>2. CreatedWith(desired.f) \in [Fields -> Value]
  BY <1>1, FieldTypes
<1>3. [f |-> CreatedWith(desired.f), t |-> desired.t] \in SpecSet
  BY <1>1, <1>2, SpecTypes
<1> QED
  BY <1>3 DEF GroupCreated, AwsOK

-----------------------------------------------------------------------------
(***************************************************************************)
(* Every step keeps the types.                                             *)
(***************************************************************************)
LEMMA TypeStep == ASSUME TypeOK, [Next]_vars PROVE TypeOK'
<1> SUFFICES CrOK' /\ AwsOK' /\ pc' \in PCs /\ LocalOK' /\ QueueOK' /\ HistOK' /\ BoundsOK'
  BY DEF TypeOK, CrOK, AwsOK, LocalOK, QueueOK, HistOK, BoundsOK
<1>0. CrOK /\ AwsOK /\ pc \in PCs /\ LocalOK /\ QueueOK /\ HistOK /\ BoundsOK
  BY Parts
<1>c. "none" \in ErrorClass /\ "terminal" \in ErrorClass /\ "other" \in ErrorClass
  BY DEF ErrorClass
<1>p. {"idle", "read", "manage", "create", "read_created", "tag_add", "tag_del", "update",
       "patch", "del_read", "del_call", "unmanage", "del_patch"} \subseteq PCs
  BY DEF PCs
<1> USE <1>0
<1>1. CASE StartSync
  <2>1. EnsureTags(spec.t) \in TagMap
    BY SpecTypes, TagTypes DEF CrOK
  <2>2. desired' \in SpecSet
    BY <1>1, <2>1, SpecTypes DEF StartSync, CrOK
  <2>3. LocalOK' /\ QueueOK' /\ pc' \in PCs
    BY <1>1, <2>2 DEF StartSync, LocalOK, QueueOK, CrOK, PCs
  <2> QED
    BY <1>1, <2>3, Untouched DEF StartSync
<1>2. CASE StartDelete
  <2>1. LocalOK' /\ QueueOK' /\ pc' \in PCs
    BY <1>2 DEF StartDelete, LocalOK, QueueOK, CrOK, PCs
  <2> QED
    BY <1>2, <2>1, Untouched DEF StartDelete
<1>3. CASE StartGone
  <2>1. QueueOK'
    BY <1>3 DEF StartGone, QueueOK
  <2> QED
    BY <1>3, <2>1, Untouched DEF StartGone
<1>4. CASE ReadNotFound
  BY <1>4, Untouched DEF ReadNotFound, PCs
<1>5. CASE ReadFound
  <2>1. /\ desired.f \in [Fields -> Value] /\ desired.t \in TagMap
        /\ group.f \in [Fields -> Value] /\ group.t \in TagMap
    BY SpecTypes DEF LocalOK, AwsOK
  <2>2. /\ Observed(desired.f, group.f) \in [Fields -> Value]
        /\ SyncAWSTags(desired.t, group.t) \in TagMap
    BY <2>1, FieldTypes, TagTypes
  <2>3. latest' \in SpecSet /\ desired' \in SpecSet
    BY <1>5, <2>1, <2>2, SpecTypes DEF ReadFound, LocalOK
  <2>4. wcond' \in ConditionSet /\ err' \in ErrorClass /\ pc' \in PCs
    <3>1. CASE managed
      BY <1>5, <1>c, <3>1, ConditionTypes, Routes DEF ReadFound, LocalOK
    <3>2. CASE ~managed
      BY <1>5, <1>c, <1>p, <3>2, ConditionTypes DEF ReadFound, LocalOK
    <3> QED
      BY <3>1, <3>2
  <2>5. LocalOK' /\ HistOK'
    BY <1>5, <2>3, <2>4 DEF ReadFound, LocalOK, HistOK
  <2> QED
    BY <1>5, <2>4, <2>5, Untouched DEF ReadFound
<1>6. CASE MarkManaged
  <2>1. EnsureTags(spec.t) \in TagMap
    BY SpecTypes, TagTypes DEF CrOK
  <2>2. desired' \in SpecSet
    BY <1>6, <2>1, SpecTypes DEF MarkManaged, CrOK
  <2>3. CrOK' /\ LocalOK' /\ pc' \in PCs
    BY <1>6, <2>2 DEF MarkManaged, CrOK, LocalOK, PCs
  <2> QED
    BY <1>6, <2>3, Untouched DEF MarkManaged
<1>7. CASE MarkManagedGone
  <2>1. QueueOK' /\ HistOK'
    BY <1>7, RememberTypes DEF MarkManagedGone, QueueOK, HistOK
  <2> QED
    BY <1>7, <2>1, Untouched, RestTypes, FaultTypes DEF MarkManagedGone
<1>8. CASE CreateOutOfRange
  BY <1>8, <1>c, <1>p, Untouched, FailTypes DEF CreateOutOfRange
<1>9. CASE Create
  <2>1. LocalOK' /\ pc' \in PCs
    BY <1>9, <1>c, ConditionTypes DEF Create, LocalOK, PCs
  <2> QED
    BY <1>9, <2>1, Untouched, CreatedTypes DEF Create
<1>10. CASE CreateRejected
  BY <1>10, <1>c, <1>p, Untouched, FailTypes, FaultTypes DEF CreateRejected
<1>11. CASE CreateLost
  <2>1. LocalOK' /\ pc' \in PCs
    BY <1>11, <1>c, <1>p, FailTypes DEF CreateLost
  <2> QED
    BY <1>11, <2>1, Untouched, CreatedTypes, FaultTypes DEF CreateLost
<1>12. CASE ReadCreated
  <2>1. LocalOK' /\ pc' \in PCs
    BY <1>12, <1>c, <1>p, FailTypes, SucceedTypes DEF ReadCreated, LocalOK
  <2> QED
    BY <1>12, <2>1, Untouched DEF ReadCreated
<1>13. CASE TagAdd
  <2> DEFINE t == WithTags(group.t, desired.t, ToAdd(desired.t, latest.t))
  <2>1. desired.t \in TagMap /\ group.t \in TagMap
    BY SpecTypes DEF LocalOK, AwsOK
  <2>2. t \in TagMap
    BY <2>1, TagTypes
  <2>3. group' = [group EXCEPT !.t = t] /\ UNCHANGED <<aws, owner>>
    BY <1>13 DEF TagAdd
  <2> HIDE DEF t
  <2>4. AwsOK'
    BY <2>2, <2>3, SpecTypes DEF AwsOK
  <2>5. \/ pc' = AfterAdd(desired, latest) /\ UNCHANGED <<localVars, bounds>>
        \/ Fault /\ Fail("other", "patch")
    BY <1>13 DEF TagAdd
  <2>6. LocalOK' /\ pc' \in PCs
    BY <2>5, <1>c, <1>p, FailTypes, Routes, Untouched
  <2>7. BoundsOK'
    BY <2>5, FaultTypes, Untouched
  <2>8. UNCHANGED <<crVars, queueVars, histVars>>
    BY <1>13 DEF TagAdd
  <2> QED
    BY <2>4, <2>6, <2>7, <2>8, Untouched
<1>14. CASE TagAddRejected
  BY <1>14, <1>c, <1>p, Untouched, FailTypes, FaultTypes DEF TagAddRejected
<1>15. CASE TagRemove
  <2> DEFINE t == WithoutTags(group.t, ToRemove(desired.t, latest.t))
  <2>1. desired.t \in TagMap /\ group.t \in TagMap
    BY SpecTypes DEF LocalOK, AwsOK
  <2>2. t \in TagMap
    BY <2>1, TagTypes
  <2>3. group' = [group EXCEPT !.t = t] /\ UNCHANGED <<aws, owner>>
    BY <1>15 DEF TagRemove
  <2> HIDE DEF t
  <2>4. AwsOK'
    BY <2>2, <2>3, SpecTypes DEF AwsOK
  <2>5. \/ pc' = AfterRemove(desired, latest) /\ UNCHANGED <<localVars, bounds>>
        \/ Fault /\ Fail("other", "patch")
    BY <1>15 DEF TagRemove
  <2>6. LocalOK' /\ pc' \in PCs
    BY <2>5, <1>c, <1>p, FailTypes, Routes, Untouched
  <2>7. BoundsOK'
    BY <2>5, FaultTypes, Untouched
  <2>8. UNCHANGED <<crVars, queueVars, histVars>>
    BY <1>15 DEF TagRemove
  <2> QED
    BY <2>4, <2>6, <2>7, <2>8, Untouched
<1>16. CASE TagRemoveRejected
  BY <1>16, <1>c, <1>p, Untouched, FailTypes DEF TagRemoveRejected
<1>17. CASE UpdateOutOfRange
  BY <1>17, <1>c, <1>p, Untouched, FailTypes DEF UpdateOutOfRange
<1>18. CASE Update
  <2>1. desired.f \in [Fields -> Value] /\ group.f \in [Fields -> Value]
    BY SpecTypes DEF LocalOK, AwsOK
  <2>2. UpdatedWith(desired.f, group.f) \in [Fields -> Value]
    BY <2>1, FieldTypes
  <2>3. AwsOK'
    BY <1>18, <2>2, SpecTypes DEF Update, AwsOK
  <2>4. NoConditions \in ConditionSet
    BY DEF NoConditions, ConditionSet, Status
  <2>5. LocalOK' /\ pc' \in PCs
    BY <1>18, <1>c, <1>p, <2>4, FailTypes, SucceedTypes DEF Update
  <2> QED
    BY <1>18, <2>3, <2>5, Untouched, FaultTypes DEF Update
<1>19. CASE UpdateRejected
  BY <1>19, <1>c, <1>p, Untouched, FailTypes DEF UpdateRejected
<1>20. CASE PatchStatus
  <2>1. EnsureSynced(wcond, err) \in ConditionSet
    BY ConditionTypes DEF LocalOK
  <2>2. CrOK' /\ QueueOK'
    BY <1>20, <2>1 DEF PatchStatus, CrOK, QueueOK
  <2> QED
    BY <1>20, <2>2, Untouched, RestTypes DEF PatchStatus
<1>21. CASE DelRead
  <2>1. LocalOK' /\ pc' \in PCs
    BY <1>21, <1>p, SucceedTypes, Untouched DEF DelRead, LocalOK
  <2> QED
    BY <1>21, <2>1, Untouched DEF DelRead
<1>22. CASE DelCall
  <2>1. AwsOK'
    BY <1>22, SpecTypes DEF DelCall, GroupDeleted, AwsOK, awsVars
  <2>2. LocalOK' /\ pc' \in PCs
    BY <1>22, <1>c, <1>p, FailTypes, Untouched DEF DelCall
  <2>3. HistOK'
    BY <1>22, RememberTypes DEF DelCall, HistOK
  <2> QED
    BY <1>22, <2>1, <2>2, <2>3, Untouched, FaultTypes DEF DelCall
<1>23. CASE DelRejected
  BY <1>23, <1>c, <1>p, Untouched, FailTypes DEF DelRejected
<1>24. CASE Unmanage
  <2>1. NoConditions \in ConditionSet
    BY DEF NoConditions, ConditionSet, Status
  <2>2. CrOK'
    BY <1>24, <2>1, SpecTypes DEF Unmanage, CrOK
  <2>3. HistOK'
    BY <1>24, RememberTypes DEF Unmanage, HistOK
  <2> QED
    BY <1>24, <2>2, <2>3, Untouched, RestTypes DEF Unmanage
<1>25. CASE DelPatchStatus
  <2>1. CrOK' /\ QueueOK'
    BY <1>25 DEF DelPatchStatus, CrOK, LocalOK, QueueOK
  <2> QED
    BY <1>25, <2>1, Untouched, RestTypes DEF DelPatchStatus
<1>26. CASE CallFails
  <2>1. LocalOK' /\ pc' \in PCs
    BY <1>26, <1>c, <1>p, FailTypes DEF CallFails
  <2> QED
    BY <1>26, <2>1, Untouched, FaultTypes DEF CallFails
<1>27. CASE PatchFails
  <2>1. QueueOK' /\ HistOK'
    BY <1>27, RememberTypes DEF PatchFails, QueueOK, HistOK
  <2> QED
    BY <1>27, <2>1, Untouched, RestTypes, FaultTypes DEF PatchFails
<1>28. CASE Resync
  <2>1. QueueOK'
    BY <1>28 DEF Resync, QueueOK
  <2> QED
    BY <1>28, <2>1, Untouched DEF Resync
<1>29. CASE Crash
  <2>1. QueueOK' /\ HistOK'
    BY <1>29, RememberTypes DEF Crash, QueueOK, HistOK
  <2> QED
    BY <1>29, <2>1, Untouched, RestTypes, FaultTypes DEF Crash
<1>30. CASE Apply
  <2>1. NoConditions \in ConditionSet
    BY DEF NoConditions, ConditionSet, Status
  <2>2. CrOK'
    BY <1>30, <2>1, SpecTypes, ReconcilerAssumptions DEF Apply, CrOK
  <2>3. QueueOK' /\ BoundsOK'
    BY <1>30, ReconcilerAssumptions DEF Apply, UserEdits, QueueOK, BoundsOK
  <2> QED
    BY <1>30, <2>2, <2>3, Untouched DEF Apply, UserEdits
<1>31. CASE Edit
  <2>1. NoConditions \in ConditionSet
    BY DEF NoConditions, ConditionSet, Status
  <2>2. CrOK'
    BY <1>31, <2>1, SpecTypes, ReconcilerAssumptions DEF Edit, CrOK
  <2>3. QueueOK' /\ BoundsOK'
    BY <1>31, ReconcilerAssumptions DEF Edit, UserEdits, QueueOK, BoundsOK
  <2> QED
    BY <1>31, <2>2, <2>3, Untouched DEF Edit, UserEdits
<1>32. CASE Delete
  <2>1. NoConditions \in ConditionSet
    BY DEF NoConditions, ConditionSet, Status
  <2>2. CrOK'
    BY <1>32, <2>1, SpecTypes, ReconcilerAssumptions DEF Delete, CrOK
  <2>3. QueueOK' /\ BoundsOK'
    BY <1>32, ReconcilerAssumptions DEF Delete, UserEdits, QueueOK, BoundsOK
  <2> QED
    BY <1>32, <2>2, <2>3, Untouched DEF Delete, UserEdits
<1>33. CASE ForeignCreate
  <2>1. AwsOK'
    BY <1>33, ReconcilerAssumptions DEF ForeignCreate, AwsOK
  <2>2. HistOK' /\ BoundsOK'
    BY <1>33, RememberTypes, ReconcilerAssumptions DEF ForeignCreate, Meddle, HistOK, BoundsOK
  <2> QED
    BY <1>33, <2>1, <2>2, Untouched DEF ForeignCreate, Meddle
<1>34. CASE ForeignDelete
  <2>1. AwsOK'
    BY <1>34, ReconcilerAssumptions DEF ForeignDelete, AwsOK
  <2>2. HistOK' /\ BoundsOK'
    BY <1>34, RememberTypes, ReconcilerAssumptions DEF ForeignDelete, Meddle, HistOK, BoundsOK
  <2> QED
    BY <1>34, <2>1, <2>2, Untouched DEF ForeignDelete, Meddle
<1>35. CASE ForeignChange
  <2>1. AwsOK'
    BY <1>35, ReconcilerAssumptions DEF ForeignChange, AwsOK
  <2>2. HistOK' /\ BoundsOK'
    BY <1>35, RememberTypes, ReconcilerAssumptions DEF ForeignChange, Meddle, HistOK, BoundsOK
  <2> QED
    BY <1>35, <2>1, <2>2, Untouched DEF ForeignChange, Meddle
<1>36. CASE FinishDelete
  <2>1. AwsOK'
    BY <1>36, SpecTypes DEF FinishDelete, AwsOK
  <2>2. HistOK'
    BY <1>36, RememberTypes DEF FinishDelete, HistOK
  <2> QED
    BY <1>36, <2>1, <2>2, Untouched DEF FinishDelete
<1>37. CASE UNCHANGED vars
  BY <1>37, Untouched DEF vars, localVars
<1> QED
  BY <1>1, <1>2, <1>3, <1>4, <1>5, <1>6, <1>7, <1>8, <1>9, <1>10, <1>11, <1>12,
     <1>13, <1>14, <1>15, <1>16, <1>17, <1>18, <1>19, <1>20, <1>21, <1>22,
     <1>23, <1>24, <1>25, <1>26, <1>27, <1>28, <1>29, <1>30, <1>31, <1>32,
     <1>33, <1>34, <1>35, <1>36, <1>37
  DEF Next, Worker, User, OtherClients

(***************************************************************************)
(* Type correctness of the custom resource, the group and the worker.      *)
(***************************************************************************)
THEOREM TypeCorrect == Spec => []TypeOK
<1>1. Init => TypeOK
  <2>1. NoConditions \in ConditionSet
    BY DEF NoConditions, ConditionSet, Status
  <2> SUFFICES ASSUME Init PROVE TypeOK
    OBVIOUS
  <2>2. CrOK /\ AwsOK
    BY <2>1, SpecTypes DEF Init, CrOK, AwsOK
  <2>3. pc \in PCs /\ LocalOK
    BY <2>1, SpecTypes DEF Init, LocalOK, PCs, ErrorClass
  <2>4. QueueOK /\ HistOK
    BY DEF Init, QueueOK, HistOK
  <2>5. BoundsOK
    BY ReconcilerAssumptions DEF Init, BoundsOK
  <2> QED
    BY <2>2, <2>3, <2>4, <2>5, Parts
<1>2. TypeOK /\ [Next]_vars => TypeOK'
  BY TypeStep
<1> QED
  BY <1>1, <1>2, PTL DEF Spec
=============================================================================
