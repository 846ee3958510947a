-------------------------- MODULE ReconcilerProofs --------------------------
(***************************************************************************)
(* TLAPS proofs about Reconciler, for any fields, tags, specs, other       *)
(* clients and bounds.                                                     *)
(***************************************************************************)
EXTENDS Reconciler, TLAPS

(***************************************************************************)
(* The strengthening of NoOrphan.  The worker calls AWS only while the     *)
(* resource carries the finalizer, which nobody else can take away, and is *)
(* about to remove the finalizer only when no group of its own lives.      *)
(***************************************************************************)
ClaimInv ==
  /\ phase = "deleting" => fin
  /\ phase = "absent" => ~fin
  /\ managed => fin
  /\ pc \in {"create", "read_created", "tag_add", "tag_del", "update"} => managed
  /\ pc \in {"del_read", "del_call", "unmanage", "del_patch"} => phase = "deleting"
  /\ pc = "unmanage" => ~(aws = "live" /\ owner = "ack")
  /\ NoOrphan

(***************************************************************************)
(* Every step of the worker, the users, AWS and the other clients keeps    *)
(* the claim.                                                              *)
(***************************************************************************)
LEMMA ClaimStep == ASSUME ClaimInv, [Next]_vars PROVE ClaimInv'
<1> USE DEF ClaimInv, NoOrphan, crVars, awsVars, localVars, queueVars, bounds, Rest, Fail,
            Succeed, Fault, GroupCreated, GroupDeleted, UserEdits, Meddle, CreateReady,
            FirstCall, AfterAdd, AfterRemove
<1>1. CASE StartSync
  BY <1>1 DEF StartSync
<1>2. CASE StartDelete
  BY <1>2 DEF StartDelete
<1>3. CASE StartGone
  BY <1>3 DEF StartGone
<1>4. CASE ReadNotFound
  BY <1>4 DEF ReadNotFound
<1>5. CASE ReadFound
  BY <1>5 DEF ReadFound
<1>6. CASE MarkManaged
  BY <1>6 DEF MarkManaged
<1>7. CASE MarkManagedGone
  BY <1>7 DEF MarkManagedGone
<1>8. CASE CreateOutOfRange
  BY <1>8 DEF CreateOutOfRange
<1>9. CASE Create
  BY <1>9 DEF Create
<1>10. CASE CreateRejected
  BY <1>10 DEF CreateRejected
<1>11. CASE CreateLost
  BY <1>11 DEF CreateLost
<1>12. CASE ReadCreated
  BY <1>12 DEF ReadCreated
<1>13. CASE TagAdd
  <2>1. pc = "tag_add" /\ UNCHANGED <<phase, fin, aws, owner>>
    BY <1>13 DEF TagAdd
  <2>2. AfterAdd(desired, latest) \in {"tag_del", "update", "patch"}
    OBVIOUS
  <2>3. managed' = managed /\ pc' \in {"tag_del", "update", "patch"}
    BY <1>13, <2>2 DEF TagAdd
  <2> QED
    BY <2>1, <2>3
<1>14. CASE TagAddRejected
  BY <1>14 DEF TagAddRejected
<1>15. CASE TagRemove
  <2>1. pc = "tag_del" /\ UNCHANGED <<phase, fin, aws, owner>>
    BY <1>15 DEF TagRemove
  <2>2. AfterRemove(desired, latest) \in {"update", "patch"}
    OBVIOUS
  <2>3. managed' = managed /\ pc' \in {"tag_del", "update", "patch"}
    BY <1>15, <2>2 DEF TagRemove
  <2> QED
    BY <2>1, <2>3
<1>16. CASE TagRemoveRejected
  BY <1>16 DEF TagRemoveRejected
<1>17. CASE UpdateOutOfRange
  BY <1>17 DEF UpdateOutOfRange
<1>18. CASE Update
  BY <1>18 DEF Update
<1>19. CASE UpdateRejected
  BY <1>19 DEF UpdateRejected
<1>20. CASE PatchStatus
  BY <1>20 DEF PatchStatus
<1>21. CASE DelRead
  BY <1>21 DEF DelRead
<1>22. CASE DelCall
  BY <1>22 DEF DelCall
<1>23. CASE DelRejected
  BY <1>23 DEF DelRejected
<1>24. CASE Unmanage
  BY <1>24 DEF Unmanage
<1>25. CASE DelPatchStatus
  BY <1>25 DEF DelPatchStatus
<1>26. CASE CallFails
  BY <1>26 DEF CallFails
<1>27. CASE PatchFails
  BY <1>27 DEF PatchFails
<1>28. CASE Resync
  BY <1>28 DEF Resync
<1>29. CASE Crash
  BY <1>29 DEF Crash
<1>30. CASE Apply
  BY <1>30 DEF Apply
<1>31. CASE Edit
  BY <1>31 DEF Edit
<1>32. CASE Delete
  BY <1>32 DEF Delete
<1>33. CASE ForeignCreate
  BY <1>33 DEF ForeignCreate
<1>34. CASE ForeignDelete
  BY <1>34 DEF ForeignDelete
<1>35. CASE ForeignChange
  BY <1>35 DEF ForeignChange
<1>36. CASE FinishDelete
  BY <1>36 DEF FinishDelete
<1>37. CASE UNCHANGED vars
  BY <1>37 DEF vars
<1> QED
  BY <1>1, <1>2, <1>3, <1>4, <1>5, <1>6, <1>7, <1>8, <1>9, <1>10, <1>11, <1>12, <1>13, <1>14, <1>15, <1>16, <1>17, <1>18, <1>19, <1>20, <1>21, <1>22, <1>23, <1>24, <1>25, <1>26, <1>27, <1>28, <1>29, <1>30, <1>31, <1>32, <1>33, <1>34, <1>35, <1>36, <1>37 DEF Next, Worker, User, OtherClients

(***************************************************************************)
(* The claim holds from the start and for ever.                            *)
(***************************************************************************)
THEOREM ClaimHolds == Spec => []ClaimInv
<1>1. Init => ClaimInv
  BY DEF Init, ClaimInv, NoOrphan
<1>2. ClaimInv /\ [Next]_vars => ClaimInv'
  BY ClaimStep
<1> QED
  BY <1>1, <1>2, PTL DEF Spec

(***************************************************************************)
(* A live group that the controller created always has a custom resource   *)
(* with the finalizer, whatever crashes, answers are lost or edits come.   *)
(***************************************************************************)
THEOREM NeverOrphaned == Spec => []NoOrphan
<1>1. ClaimInv => NoOrphan
  BY DEF ClaimInv
<1> QED
  BY <1>1, ClaimHolds, PTL

(***************************************************************************)
(* The steps that write neither the finalizer nor the life of the group:   *)
(* all but nine.                                                           *)
(***************************************************************************)
LEMMA Quiet ==
  ASSUME [Next]_vars
  PROVE  \/ UNCHANGED <<fin, aws, owner>>
         \/ MarkManaged \/ Create \/ CreateLost \/ DelCall \/ Unmanage
         \/ ForeignCreate \/ ForeignDelete \/ FinishDelete
<1> USE DEF crVars, awsVars, UserEdits, Meddle
<1>1. CASE StartSync \/ StartDelete \/ StartGone \/ ReadNotFound \/ ReadFound
  BY <1>1 DEF StartSync, StartDelete, StartGone, ReadNotFound, ReadFound
<1>2. CASE MarkManagedGone \/ CreateOutOfRange \/ CreateRejected \/ ReadCreated
  BY <1>2 DEF MarkManagedGone, CreateOutOfRange, CreateRejected, ReadCreated
<1>3. CASE TagAdd
  <2>1. UNCHANGED <<fin, aws, owner>>
    BY <1>3 DEF TagAdd
  <2> QED
    BY <2>1
<1>4. CASE TagRemove
  <2>1. UNCHANGED <<fin, aws, owner>>
    BY <1>4 DEF TagRemove
  <2> QED
    BY <2>1
<1>5. CASE TagAddRejected \/ TagRemoveRejected \/ UpdateOutOfRange \/ UpdateRejected
  BY <1>5 DEF TagAddRejected, TagRemoveRejected, UpdateOutOfRange, UpdateRejected
<1>6. CASE Update
  BY <1>6 DEF Update
<1>7. CASE PatchStatus \/ DelRead \/ DelRejected \/ DelPatchStatus
  BY <1>7 DEF PatchStatus, DelRead, DelRejected, DelPatchStatus
<1>8. CASE CallFails \/ PatchFails \/ Resync \/ Crash
  BY <1>8 DEF CallFails, PatchFails, Resync, Crash
<1>9. CASE User \/ ForeignChange
  BY <1>9 DEF User, Apply, Edit, Delete, ForeignChange
<1>10. CASE UNCHANGED vars
  BY <1>10 DEF vars
<1> QED
  BY <1>1, <1>2, <1>3, <1>4, <1>5, <1>6, <1>7, <1>8, <1>9, <1>10
  DEF Next, Worker, OtherClients

(***************************************************************************)
(* Under the claim a step of Reconciler is a step of GroupClaim, or leaves *)
(* the finalizer and the live group as they are.                           *)
(***************************************************************************)
LEMMA ClaimRefined == ASSUME ClaimInv, [Next]_vars PROVE [Promise!Next]_(Promise!vars)
<1> USE DEF ClaimInv, NoOrphan, LiveGroup, Promise!vars, Promise!Next, awsVars
<1>1. CASE UNCHANGED <<fin, aws, owner>>
  BY <1>1
<1>2. CASE MarkManaged
  BY <1>2 DEF MarkManaged, Promise!Claim
<1>3. CASE Create
  <2>1. pc = "create" /\ aws = "absent" /\ aws' = "live" /\ owner' = "ack" /\ fin' = fin
    BY <1>3 DEF Create, CreateReady, GroupCreated, crVars
  <2> QED
    BY <2>1 DEF Promise!Provision
<1>4. CASE CreateLost
  <2>1. pc = "create" /\ aws = "absent" /\ aws' = "live" /\ owner' = "ack" /\ fin' = fin
    BY <1>4 DEF CreateLost, CreateReady, GroupCreated, crVars
  <2> QED
    BY <2>1 DEF Promise!Provision
<1>5. CASE DelCall
  BY <1>5 DEF DelCall, GroupDeleted, crVars, Promise!Vanish
<1>6. CASE Unmanage
  <2>1. pc = "unmanage" /\ fin' = FALSE /\ UNCHANGED <<aws, owner>>
    BY <1>6 DEF Unmanage
  <2> QED
    BY <2>1 DEF Promise!Release
<1>7. CASE ForeignCreate
  <2>1. aws = "absent" /\ aws' = "live" /\ owner' = "alien" /\ fin' = fin
    BY <1>7 DEF ForeignCreate, Meddle, crVars
  <2> QED
    BY <2>1 DEF Promise!Intrude
<1>8. CASE ForeignDelete
  BY <1>8 DEF ForeignDelete, Meddle, crVars, Promise!Vanish
<1>9. CASE FinishDelete
  <2>1. aws = "deleting" /\ aws' = "absent" /\ fin' = fin
    BY <1>9 DEF FinishDelete, crVars
  <2> QED
    BY <2>1
<1> QED
  BY <1>1, <1>2, <1>3, <1>4, <1>5, <1>6, <1>7, <1>8, <1>9, Quiet

(***************************************************************************)
(* The finalizer and the live group follow GroupClaim: a group is created  *)
(* under the claim alone, and the claim goes when no own group is left.    *)
(***************************************************************************)
THEOREM Implements == Spec => ImplementsClaim
<1>1. Init => Promise!Init
  BY DEF Init, Promise!Init, LiveGroup
<1>2. ClaimInv /\ [Next]_vars => [Promise!Next]_(Promise!vars)
  BY ClaimRefined
<1> QED
  BY <1>1, <1>2, ClaimHolds, PTL DEF Spec, ImplementsClaim, Promise!Spec

(***************************************************************************)
(* A group that another client created while its name was free stays out   *)
(* of the controller's reach: the name is not claimed as long as it is     *)
(* there, and nobody is about to claim it, since only a read that finds no *)
(* group leads to a claim.                                                 *)
(***************************************************************************)
FreeInv ==
  came = "free" => aws # "absent" /\ owner = "alien" /\ ~fin /\ pc # "manage"

(***************************************************************************)
(* A step that leaves the group, the finalizer and the history alone, and  *)
(* does not lead to a claim, keeps it.                                     *)
(***************************************************************************)
LEMMA FreeStays ==
  ASSUME FreeInv, UNCHANGED <<aws, owner, fin, came>>, pc' # "manage" \/ pc' = pc
  PROVE  FreeInv'
  BY DEF FreeInv

(***************************************************************************)
(* Every step keeps such a group out of reach.                             *)
(***************************************************************************)
LEMMA FreeStep == ASSUME ClaimInv, FreeInv, [Next]_vars PROVE FreeInv'
<1> USE DEF crVars, awsVars, histVars
<1>1. CASE StartSync \/ StartDelete \/ StartGone \/ ReadFound
  <2>1. pc' # "manage" \/ pc' = pc
    BY <1>1 DEF StartSync, StartDelete, StartGone, ReadFound, FirstCall, AfterAdd, AfterRemove
  <2>2. UNCHANGED <<aws, owner, fin, came>>
    BY <1>1 DEF StartSync, StartDelete, StartGone, ReadFound
  <2> QED
    BY <2>1, <2>2, FreeStays
<1>2. CASE ReadNotFound
  BY <1>2 DEF ReadNotFound, FreeInv
<1>3. CASE MarkManaged
  BY <1>3 DEF MarkManaged, FreeInv
<1>4. CASE Create \/ CreateLost
  BY <1>4 DEF Create, CreateLost, GroupCreated, FreeInv
<1>5. CASE CreateOutOfRange \/ CreateRejected \/ ReadCreated
  BY <1>5, FreeStays DEF CreateOutOfRange, CreateRejected, ReadCreated, Fail, Succeed
<1>6. CASE TagAdd
  <2>1. pc' # "manage"
    BY <1>6 DEF TagAdd, AfterAdd, AfterRemove, Fail
  <2>2. UNCHANGED <<aws, owner, fin, came>>
    BY <1>6 DEF TagAdd
  <2> QED
    BY <2>1, <2>2, FreeStays
<1>7. CASE TagRemove
  <2>1. pc' # "manage"
    BY <1>7 DEF TagRemove, AfterRemove, Fail
  <2>2. UNCHANGED <<aws, owner, fin, came>>
    BY <1>7 DEF TagRemove
  <2> QED
    BY <2>1, <2>2, FreeStays
<1>8. CASE TagAddRejected \/ TagRemoveRejected \/ UpdateOutOfRange \/ UpdateRejected
  BY <1>8, FreeStays DEF TagAddRejected, TagRemoveRejected, UpdateOutOfRange, UpdateRejected, Fail
<1>9. CASE Update
  BY <1>9, FreeStays DEF Update, Fail, Succeed
<1>10. CASE PatchStatus \/ DelRead \/ DelRejected \/ DelPatchStatus
  BY <1>10, FreeStays DEF PatchStatus, DelRead, DelRejected, DelPatchStatus, Rest, Fail, Succeed
<1>11. CASE DelCall
  <2>1. fin /\ fin' = fin
    BY <1>11 DEF DelCall, ClaimInv
  <2> QED
    BY <1>11, <2>1 DEF DelCall, Remember, FreeInv
<1>12. CASE CallFails
  BY <1>12, FreeStays DEF CallFails, Fail
<1>13. CASE MarkManagedGone \/ PatchFails \/ Crash
  BY <1>13 DEF MarkManagedGone, PatchFails, Crash, Rest, Remember, FreeInv
<1>14. CASE Unmanage
  BY <1>14 DEF Unmanage, Rest, Remember, FreeInv
<1>15. CASE Resync \/ User
  BY <1>15, FreeStays DEF Resync, User, Apply, Edit, Delete, UserEdits
<1>16. CASE OtherClients \/ FinishDelete
  <2>1. Remember /\ UNCHANGED <<fin, pc>>
    BY <1>16 DEF OtherClients, ForeignCreate, ForeignDelete, ForeignChange, FinishDelete, Meddle
  <2> QED
    BY <2>1 DEF Remember, FreeInv
<1>17. CASE UNCHANGED vars
  BY <1>17, FreeStays DEF vars
<1> QED
  BY <1>1, <1>2, <1>3, <1>4, <1>5, <1>6, <1>7, <1>8, <1>9, <1>10, <1>11, <1>12, <1>13, <1>14,
     <1>15, <1>16, <1>17 DEF Next, Worker

(***************************************************************************)
(* A step of the worker, without the claim, leaves a group that is there   *)
(* as it is.                                                               *)
(***************************************************************************)
LEMMA UnclaimedStep ==
  ASSUME ClaimInv, [Next]_vars, pc # pc', aws # "absent", ~fin
  PROVE  UNCHANGED awsVars
<1> USE DEF ClaimInv, awsVars
<1>1. CASE Create \/ CreateLost
  BY <1>1 DEF Create, CreateLost, GroupCreated
<1>2. CASE TagAdd \/ TagRemove \/ Update
  BY <1>2 DEF TagAdd, TagRemove, Update
<1>3. CASE DelCall
  BY <1>3 DEF DelCall
<1>4. CASE OtherClients \/ FinishDelete
  BY <1>4 DEF OtherClients, ForeignCreate, ForeignDelete, ForeignChange, FinishDelete, Meddle
<1>5. CASE StartSync \/ StartDelete \/ StartGone \/ ReadNotFound \/ ReadFound
  BY <1>5 DEF StartSync, StartDelete, StartGone, ReadNotFound, ReadFound
<1>6. CASE MarkManaged \/ MarkManagedGone \/ CreateOutOfRange \/ CreateRejected \/ ReadCreated
  BY <1>6 DEF MarkManaged, MarkManagedGone, CreateOutOfRange, CreateRejected, ReadCreated
<1>7. CASE TagAddRejected \/ TagRemoveRejected \/ UpdateOutOfRange \/ UpdateRejected
  BY <1>7 DEF TagAddRejected, TagRemoveRejected, UpdateOutOfRange, UpdateRejected
<1>8. CASE PatchStatus \/ DelRead \/ DelRejected \/ Unmanage \/ DelPatchStatus
  BY <1>8 DEF PatchStatus, DelRead, DelRejected, Unmanage, DelPatchStatus
<1>9. CASE CallFails \/ PatchFails \/ Resync \/ Crash \/ User
  BY <1>9 DEF CallFails, PatchFails, Resync, Crash, User, Apply, Edit, Delete, UserEdits
<1>10. CASE UNCHANGED vars
  BY <1>10 DEF vars
<1> QED
  BY <1>1, <1>2, <1>3, <1>4, <1>5, <1>6, <1>7, <1>8, <1>9, <1>10 DEF Next, Worker

(***************************************************************************)
(* A group that another client created while the name was neither claimed  *)
(* nor about to be is never written and never deleted by the controller,   *)
(* whatever is claimed later (descriptor.go:113).                          *)
(***************************************************************************)
THEOREM ForeignSafe == Spec => ForeignUntouched
<1>1. Init => FreeInv
  BY DEF Init, FreeInv
<1>2. ClaimInv /\ FreeInv /\ [Next]_vars => FreeInv'
  BY FreeStep
<1>3. ClaimInv /\ FreeInv /\ [Next]_vars
        => [(pc # pc' /\ came = "free") => UNCHANGED awsVars]_vars
  BY UnclaimedStep DEF FreeInv
<1> QED
  BY <1>1, <1>2, <1>3, ClaimHolds, PTL DEF Spec, ForeignUntouched
=============================================================================
