----------------------- MODULE ReconcilerStopProofs -----------------------
(***************************************************************************)
(* TLAPS proof that Reconciler never stops working on a resource in        *)
(* silence, whatever fails, crashes or is edited meanwhile.                *)
(***************************************************************************)
EXTENDS ReconcilerProofs, ReconcilerTypes

(***************************************************************************)
(* The strengthening of NoSilentStop.  A reconcile that has not failed     *)
(* carries no terminal and no Synced=True condition; one about to patch    *)
(* the status shows the error it reports; a resource deleted meanwhile is  *)
(* in the queue.                                                           *)
(***************************************************************************)
Running == {"read", "manage", "create", "read_created", "tag_add", "tag_del", "update"}

Undecided == wcond.synced \in {"absent", "False"}

StopInv ==
  /\ NoSilentStop
  /\ pc = "idle" => wcond = NoConditions
  /\ pc \in Running \cup {"idle"} => err = "none"
  /\ pc \in Running => wcond.terminal # "True"
  /\ pc \in Running \cup {"patch"} => Undecided /\ (phase = "present" \/ queued)
  /\ pc = "patch" => /\ err = "none" => wcond.terminal # "True"
                     /\ err = "terminal" => wcond.terminal = "True"
  /\ pc = "del_patch" => err = "other" \/ wcond.terminal = "True"

(***************************************************************************)
(* How an outcome shows in the conditions and in the error reported.       *)
(***************************************************************************)
LEMMA Outcomes ==
  ASSUME NEW c \in ConditionSet
  PROVE  /\ \A e \in ErrorClass : UpdateConditions(c, e).synced = c.synced
         /\ UpdateConditions(c, "none").terminal # "True"
         /\ UpdateConditions(c, "other").terminal # "True"
         /\ UpdateConditions(c, "terminal").terminal = "True"
         /\ ReportedError(c, "other") = "other"
         /\ ReportedError(c, "terminal") = "terminal"
         /\ AfterCreate(c).terminal # "True" /\ AfterCreate(c).synced = "False"
  BY DEF ConditionSet, Status, ErrorClass, UpdateConditions, Cleared, ReportedError,
         AfterCreate

(***************************************************************************)
(* The verdict that the status shows in the end: True without an error     *)
(* only, and the terminal condition as it was.                             *)
(***************************************************************************)
LEMMA Verdict ==
  ASSUME NEW c \in ConditionSet, NEW e \in ErrorClass, c.synced \in {"absent", "False"}
  PROVE  /\ EnsureSynced(c, e).terminal = c.terminal
         /\ EnsureSynced(c, e).synced = "True" => e = "none"
<1>1. CASE c.synced = "absent"
  BY <1>1 DEF ConditionSet, Status, ErrorClass, EnsureSynced
<1>2. CASE c.synced = "False"
  BY <1>2 DEF ConditionSet, Status, ErrorClass, EnsureSynced
<1> QED
  BY <1>1, <1>2

(***************************************************************************)
(* A method that fails on the way to a patch shows its error there.        *)
(***************************************************************************)
LEMMA FailShows ==
  ASSUME wcond \in ConditionSet, NEW e \in {"other", "terminal"}, NEW next, Fail(e, next)
  PROVE  /\ pc' = next
         /\ err' = e
         /\ wcond'.synced = wcond.synced
         /\ e = "terminal" => wcond'.terminal = "True"
<1>1. e \in ErrorClass
  BY DEF ErrorClass
<1> QED
  BY <1>1, Outcomes DEF Fail

(***************************************************************************)
(* So a failing method on the way to the status keeps the invariant.       *)
(***************************************************************************)
LEMMA FailToPatch ==
  ASSUME TypeOK, StopInv, pc \in Running, NEW e \in {"other", "terminal"},
         Fail(e, "patch"), UNCHANGED <<phase, queued>>
  PROVE  StopInv'
<1>1. wcond \in ConditionSet
  BY DEF TypeOK
<1>2. /\ pc' = "patch"
      /\ err' = e
      /\ wcond'.synced = wcond.synced
      /\ e = "terminal" => wcond'.terminal = "True"
  BY <1>1, FailShows
<1> QED
  BY <1>2 DEF StopInv, NoSilentStop, AtRest, Undecided, Running

(***************************************************************************)
(* And one on the way to the status of a deletion.                         *)
(***************************************************************************)
LEMMA FailToDelPatch ==
  ASSUME TypeOK, StopInv, NEW e \in {"other", "terminal"}, Fail(e, "del_patch")
  PROVE  StopInv'
<1>1. wcond \in ConditionSet
  BY DEF TypeOK
<1>2. /\ pc' = "del_patch"
      /\ err' = e
      /\ e = "terminal" => wcond'.terminal = "True"
  BY <1>1, FailShows
<1> QED
  BY <1>2 DEF StopInv, NoSilentStop, AtRest, Undecided, Running

(***************************************************************************)
(* A reconcile that ends with the resource queued, or gone, is no stop.    *)
(***************************************************************************)
LEMMA RestQueued ==
  ASSUME Rest, queued' \/ phase' = "absent"
  PROVE  StopInv'
  BY DEF Rest, StopInv, NoSilentStop, AtRest, Undecided, Running, NoConditions

(***************************************************************************)
(* A step that leaves the worker alone, and queues the resource or leaves  *)
(* it alone, is no stop either.                                            *)
(***************************************************************************)
LEMMA AsideStep ==
  ASSUME StopInv, UNCHANGED <<pc, localVars>>,
         \/ queued' = TRUE
         \/ UNCHANGED <<phase, cond, queued, resync>>
  PROVE  StopInv'
  BY DEF localVars, StopInv, NoSilentStop, AtRest, Undecided, Running

(***************************************************************************)
(* Every step keeps the invariant.                                         *)
(***************************************************************************)
LEMMA StopStep == ASSUME TypeOK, ClaimInv, StopInv, [Next]_vars PROVE StopInv'
<1> USE DEF crVars, queueVars
<1>t. wcond \in ConditionSet /\ err \in ErrorClass /\ cond \in ConditionSet
  BY DEF TypeOK
<1>1. CASE StartSync
  BY <1>1 DEF StartSync, StopInv, NoSilentStop, AtRest, Undecided, Running, NoConditions
<1>2. CASE StartDelete
  BY <1>2 DEF StartDelete, StopInv, NoSilentStop, AtRest, Undecided, Running
<1>3. CASE StartGone
  BY <1>3 DEF StartGone, localVars, StopInv, NoSilentStop, AtRest, Undecided, Running
<1>4. CASE ReadNotFound
  BY <1>4 DEF ReadNotFound, localVars, StopInv, NoSilentStop, AtRest, Undecided, Running
<1>5. CASE ReadFound
  <2>1. pc = "read" /\ UNCHANGED <<phase, queued>>
    BY <1>5 DEF ReadFound
  <2>2. CASE managed
    <3>1. /\ wcond' = UpdateConditions(wcond, "none")
          /\ err' = err
          /\ pc' \in {"tag_add", "tag_del", "update", "patch"}
      BY <1>5, <2>2 DEF ReadFound, FirstCall, AfterAdd, AfterRemove
    <3>2. wcond'.terminal # "True" /\ wcond'.synced = wcond.synced
      BY <3>1, <1>t, Outcomes DEF ErrorClass
    <3> QED
      BY <2>1, <3>1, <3>2 DEF StopInv, NoSilentStop, AtRest, Undecided, Running
  <2>3. CASE ~managed
    <3>1. wcond' = NotManaged /\ err' = "terminal" /\ pc' = "patch"
      BY <1>5, <2>3 DEF ReadFound
    <3> QED
      BY <2>1, <3>1 DEF NotManaged, StopInv, NoSilentStop, AtRest, Undecided, Running
  <2> QED
    BY <2>2, <2>3
<1>6. CASE MarkManaged
  BY <1>6 DEF MarkManaged, StopInv, NoSilentStop, AtRest, Undecided, Running
<1>7. CASE MarkManagedGone
  BY <1>7, RestQueued DEF MarkManagedGone
<1>8. CASE CreateOutOfRange \/ CreateRejected \/ CreateLost
  <2>1. pc = "create" /\ UNCHANGED <<phase, queued>>
    BY <1>8 DEF CreateOutOfRange, CreateRejected, CreateLost, CreateReady
  <2>2. \E e \in {"other", "terminal"} : Fail(e, "patch")
    BY <1>8 DEF CreateOutOfRange, CreateRejected, CreateLost
  <2> QED
    BY <2>1, <2>2, FailToPatch DEF Running
<1>9. CASE Create
  <2>1. /\ wcond' = AfterCreate(wcond) /\ pc' = "read_created"
        /\ pc = "create" /\ UNCHANGED <<phase, queued, err>>
    BY <1>9 DEF Create, CreateReady
  <2>2. wcond'.terminal # "True" /\ wcond'.synced = "False"
    BY <2>1, <1>t, Outcomes
  <2> QED
    BY <2>1, <2>2 DEF StopInv, NoSilentStop, AtRest, Undecided, Running
<1>10. CASE ReadCreated
  <2>1. pc = "read_created" /\ UNCHANGED <<phase, queued>>
    BY <1>10 DEF ReadCreated
  <2>2. CASE Succeed(wcond, "patch")
    <3>1. wcond' = UpdateConditions(wcond, "none") /\ err' = err /\ pc' = "patch"
      BY <2>2 DEF Succeed
    <3>2. wcond'.terminal # "True" /\ wcond'.synced = wcond.synced
      BY <3>1, <1>t, Outcomes DEF ErrorClass
    <3> QED
      BY <2>1, <3>1, <3>2 DEF StopInv, NoSilentStop, AtRest, Undecided, Running
  <2>3. CASE Fail("other", "patch")
    BY <2>1, <2>3, FailToPatch DEF Running
  <2> QED
    BY <1>10, <2>2, <2>3 DEF ReadCreated
<1>11. CASE TagAdd
  <2>1. pc = "tag_add" /\ UNCHANGED <<phase, queued>>
    BY <1>11 DEF TagAdd
  <2>2. \/ pc' = AfterAdd(desired, latest) /\ UNCHANGED localVars
        \/ Fail("other", "patch")
    BY <1>11 DEF TagAdd
  <2>3. CASE pc' = AfterAdd(desired, latest) /\ UNCHANGED localVars
    <3>1. pc' \in {"tag_del", "update", "patch"} /\ UNCHANGED <<wcond, err>>
      BY <2>3 DEF AfterAdd, AfterRemove, localVars
    <3> QED
      BY <2>1, <3>1 DEF StopInv, NoSilentStop, AtRest, Undecided, Running
  <2> QED
    BY <2>1, <2>2, <2>3, FailToPatch DEF Running
<1>12. CASE TagRemove
  <2>1. pc = "tag_del" /\ UNCHANGED <<phase, queued>>
    BY <1>12 DEF TagRemove
  <2>2. \/ pc' = AfterRemove(desired, latest) /\ UNCHANGED localVars
        \/ Fail("other", "patch")
    BY <1>12 DEF TagRemove
  <2>3. CASE pc' = AfterRemove(desired, latest) /\ UNCHANGED localVars
    <3>1. pc' \in {"update", "patch"} /\ UNCHANGED <<wcond, err>>
      BY <2>3 DEF AfterRemove, localVars
    <3> QED
      BY <2>1, <3>1 DEF StopInv, NoSilentStop, AtRest, Undecided, Running
  <2> QED
    BY <2>1, <2>2, <2>3, FailToPatch DEF Running
<1>13. CASE TagAddRejected \/ TagRemoveRejected \/ UpdateOutOfRange \/ UpdateRejected
  <2>1. pc \in Running /\ UNCHANGED <<phase, queued>>
    BY <1>13 DEF TagAddRejected, TagRemoveRejected, UpdateOutOfRange, UpdateRejected, Running
  <2>2. \E e \in {"other", "terminal"} : Fail(e, "patch")
    BY <1>13 DEF TagAddRejected, TagRemoveRejected, UpdateOutOfRange, UpdateRejected
  <2> QED
    BY <2>1, <2>2, FailToPatch
<1>14. CASE Update
  <2>1. pc = "update" /\ UNCHANGED <<phase, queued>>
    BY <1>14 DEF Update
  <2>2. CASE Succeed(NoConditions, "patch")
    <3>1. wcond' = UpdateConditions(NoConditions, "none") /\ err' = err /\ pc' = "patch"
      BY <2>2 DEF Succeed
    <3>2. NoConditions \in ConditionSet /\ NoConditions.synced = "absent"
      BY DEF NoConditions, ConditionSet, Status
    <3>3. wcond'.terminal # "True" /\ wcond'.synced = "absent"
      BY <3>1, <3>2, Outcomes DEF ErrorClass
    <3> QED
      BY <2>1, <3>1, <3>3 DEF StopInv, NoSilentStop, AtRest, Undecided, Running
  <2>3. CASE Fail("other", "patch")
    BY <2>1, <2>3, FailToPatch DEF Running
  <2> QED
    BY <1>14, <2>2, <2>3 DEF Update
<1>15. CASE PatchStatus
  <2> DEFINE c == EnsureSynced(wcond, err)
  <2>1. /\ pc = "patch"
        /\ cond' = IF phase = "absent" THEN cond ELSE c
        /\ queued' = (queued \/ err = "other" \/ (err = "none" /\ c.synced # "True"))
        /\ resync' = (err = "none" /\ c.synced = "True")
        /\ UNCHANGED phase
    BY <1>15 DEF PatchStatus
  <2>2. pc' = "idle" /\ wcond' = NoConditions /\ err' = "none"
    BY <1>15 DEF PatchStatus, Rest
  <2>3. c.terminal = wcond.terminal /\ (c.synced = "True" => err = "none")
    BY <1>t, <2>1, Verdict DEF StopInv, Undecided
  <2>4. phase = "present" \/ queued
    BY <2>1 DEF StopInv
  <2>5. /\ err = "none" => wcond.terminal # "True"
        /\ err = "terminal" => wcond.terminal = "True"
    BY <2>1 DEF StopInv
  <2> HIDE DEF c
  <2>6. NoSilentStop'
    BY <1>t, <2>1, <2>2, <2>3, <2>4, <2>5 DEF NoSilentStop, AtRest, ErrorClass
  <2> QED
    BY <2>2, <2>6 DEF StopInv, Undecided, Running
<1>16. CASE DelRead
  BY <1>16 DEF DelRead, Succeed, localVars, StopInv, NoSilentStop, AtRest, Undecided, Running
<1>17. CASE DelCall
  <2>1. pc' = "unmanage" \/ Fail("other", "del_patch")
    BY <1>17 DEF DelCall
  <2>2. CASE pc' = "unmanage"
    BY <2>2 DEF StopInv, NoSilentStop, AtRest, Undecided, Running
  <2> QED
    BY <2>1, <2>2, FailToDelPatch
<1>18. CASE DelRejected
  BY <1>18, FailToDelPatch DEF DelRejected
<1>19. CASE Unmanage
  BY <1>19, RestQueued DEF Unmanage
<1>20. CASE DelPatchStatus
  <2>1. /\ pc = "del_patch" /\ cond' = wcond
        /\ queued' = (queued \/ err = "other")
        /\ UNCHANGED phase
    BY <1>20 DEF DelPatchStatus
  <2>2. pc' = "idle" /\ wcond' = NoConditions /\ err' = "none"
    BY <1>20 DEF DelPatchStatus, Rest
  <2>3. phase = "deleting"
    BY <2>1 DEF ClaimInv
  <2>4. NoSilentStop'
    BY <2>1, <2>2, <2>3 DEF StopInv, NoSilentStop, AtRest
  <2> QED
    BY <2>2, <2>4 DEF StopInv, Undecided, Running
<1>21. CASE CallFails
  <2>1. UNCHANGED <<phase, queued>>
    BY <1>21 DEF CallFails
  <2>2. \/ pc \in Running /\ Fail("other", "patch")
        \/ Fail("other", "del_patch")
    BY <1>21 DEF CallFails, Running
  <2> QED
    BY <2>1, <2>2, FailToPatch, FailToDelPatch
<1>22. CASE PatchFails
  BY <1>22, RestQueued DEF PatchFails
<1>23. CASE Crash
  <2>1. Rest /\ queued' = (phase # "absent") /\ UNCHANGED phase
    BY <1>23 DEF Crash
  <2> QED
    BY <2>1, RestQueued
<1>24. CASE Resync \/ User
  <2>1. UNCHANGED <<pc, localVars>> /\ queued' = TRUE
    BY <1>24 DEF Resync, User, Apply, Edit, Delete, UserEdits
  <2> QED
    BY <2>1, AsideStep
<1>25. CASE OtherClients \/ FinishDelete
  <2>1. UNCHANGED <<pc, localVars, phase, cond, queued, resync>>
    BY <1>25 DEF OtherClients, ForeignCreate, ForeignDelete, ForeignChange, FinishDelete,
                 Meddle
  <2> QED
    BY <2>1, AsideStep
<1>26. CASE UNCHANGED vars
  BY <1>26, AsideStep DEF vars
<1> QED
  BY <1>1, <1>2, <1>3, <1>4, <1>5, <1>6, <1>7, <1>8, <1>9, <1>10, <1>11, <1>12, <1>13,
     <1>14, <1>15, <1>16, <1>17, <1>18, <1>19, <1>20, <1>21, <1>22, <1>23, <1>24, <1>25,
     <1>26
  DEF Next, Worker

(***************************************************************************)
(* A resource that nobody works on and that is not queued is synced and    *)
(* due for a resync, or shows a terminal condition.                        *)
(***************************************************************************)
THEOREM NeverSilent == Spec => []NoSilentStop
<1>1. Init => StopInv
  BY DEF Init, StopInv, NoSilentStop, AtRest, Undecided, Running
<1>2. TypeOK /\ ClaimInv /\ StopInv /\ [Next]_vars => StopInv'
  BY StopStep
<1>3. StopInv => NoSilentStop
  BY DEF StopInv
<1> QED
  BY <1>1, <1>2, <1>3, TypeCorrect, ClaimHolds, PTL DEF Spec
=============================================================================
