-------------------------- MODULE FieldSyncProofs --------------------------
(***************************************************************************)
(* TLAPS proofs about FieldSync, for any width of the API's integers, any  *)
(* values and defaults, and any number of edits and drifts: types, that no *)
(* value is invented by the int32 conversion, that a round that ends       *)
(* without error has applied the spec, and that no round repeats the       *)
(* update of the round before, for every field of the API types.           *)
(***************************************************************************)
EXTENDS FieldSync, TLAPS

-----------------------------------------------------------------------------
(***************************************************************************)
(* The int32 conversion.                                                   *)
(***************************************************************************)

(***************************************************************************)
(* The conversion is the identity on the integers that fit.                *)
(***************************************************************************)
LEMMA NarrowFits == ASSUME NEW v \in Int, Fits(v) PROVE Narrow(v) = v
<1> DEFINE n == 2 * (MaxInt32 + 1)
           x == v - MinInt32
<1>1. n \in Nat /\ n > 0 /\ MinInt32 \in Int /\ n = MaxInt32 - MinInt32 + 1
  BY FieldAssumptions DEF MinInt32
<1>2. x \in Nat /\ x < n
  BY <1>1, FieldAssumptions DEF Fits
<1>3. x % n = x
  <2> HIDE DEF x, n
  <2> QED
    BY <1>1, <1>2
<1> QED
  BY <1>1, <1>3 DEF Narrow

(***************************************************************************)
(* A value in a payload that passes the range check arrives as it is.      *)
(***************************************************************************)
LEMMA SentAsIs ==
  ASSUME NEW n, NEW v \in Value, NEW S, v # Nil, n \in S,
         OutOfRange([m \in {n} |-> v], S) = {}
  PROVE  Sent([m \in {n} |-> v], n) = v /\ (n \in Int32Fields => Fits(v))
<1>1. CASE n \in Int32Fields
  <2>1. Fits(v)
    BY <1>1 DEF OutOfRange
  <2> QED
    BY <1>1, <2>1, NarrowFits DEF Sent, Value
<1>2. CASE n \notin Int32Fields
  BY <1>2 DEF Sent
<1> QED
  BY <1>1, <1>2

-----------------------------------------------------------------------------
(***************************************************************************)
(* The tables.                                                             *)
(***************************************************************************)

\* The fields that create, read, compare and update agree about.
Covered(n) == n \in CreateFields /\ n \in FindFields /\ n \in DeltaFields /\ n \in UpdateFields

(***************************************************************************)
(* Every field of the API types is in each of the four tables, except for  *)
(* the nine that SettledMeansApplied leaves out.                           *)
(***************************************************************************)
LEMMA TablesAgree ==
  ASSUME NEW n \in SpecFields, n \notin CreateOnly \cup NeverRead
  PROVE  Covered(n)
<1>1. CASE n \in SpecUpToInstance
  <2>1. n \in CreateBasics \cap UpdateBasics \cap FindBasics
    BY <1>1 DEF SpecUpToInstance, CreateBasics, UpdateBasics, FindBasics, CreateOnly, NeverRead
  <2>2. n \in DeltaBasics \cup DeltaLaunch
    BY <1>1 DEF SpecUpToInstance, DeltaBasics, DeltaLaunch
  <2> QED
    BY <2>1, <2>2 DEF Covered, CreateFields, FindFields, DeltaFields, UpdateFields
<1>2. CASE n \in SpecFromLaunch
  <2>1. n \in CreateBasics \cup CreateLaunch \cup CreateTail
    BY <1>2 DEF SpecFromLaunch, CreateBasics, CreateLaunch, CreateTail, CreateOnly, NeverRead
  <2>2. n \in UpdateBasics \cup UpdateLaunch \cup UpdateTail
    BY <1>2 DEF SpecFromLaunch, UpdateBasics, UpdateLaunch, UpdateTail, CreateOnly, NeverRead
  <2>3. n \in FindBasics \cup FindLaunch \cup FindTail
    BY <1>2 DEF SpecFromLaunch, FindBasics, FindLaunch, FindTail, CreateOnly, NeverRead
  <2>4. n \in DeltaLaunch \cup DeltaTail
    BY <1>2 DEF SpecFromLaunch, DeltaLaunch, DeltaTail
  <2> QED
    BY <2>1, <2>2, <2>3, <2>4 DEF Covered, CreateFields, FindFields, DeltaFields, UpdateFields
<1>3. CASE n \in PolicyFields
  <2>1. n \in CreateLaunch \cap UpdateLaunch \cap FindLaunch \cap DeltaMixed
    BY <1>3 DEF PolicyFields, CreateLaunch, UpdateLaunch, FindLaunch, DeltaMixed
  <2> QED
    BY <2>1 DEF Covered, CreateFields, FindFields, DeltaFields, UpdateFields
<1>4. CASE n \in OverrideFields
  <2>1. n \in CreateRequirements1 \cup CreateTail
    BY <1>4 DEF OverrideFields, CreateRequirements1, CreateTail
  <2>2. n \in UpdateRequirements1 \cup UpdateTail
    BY <1>4 DEF OverrideFields, UpdateRequirements1, UpdateTail
  <2>3. n \in FindRequirements \cup FindTail
    BY <1>4 DEF OverrideFields, FindRequirements, FindTail
  <2>4. n \in DeltaMixed
    BY <1>4 DEF OverrideFields, DeltaMixed, CreateRequirements1
  <2> QED
    BY <2>1, <2>2, <2>3, <2>4 DEF Covered, CreateFields, FindFields, DeltaFields, UpdateFields
<1>5. CASE n \in RequirementFields
  <2>1. n \in CreateRequirements1 \cup CreateRequirements2
    BY <1>5 DEF RequirementFields, CreateRequirements1, CreateRequirements2
  <2>2. n \in UpdateRequirements1 \cup UpdateRequirements2
    BY <1>5 DEF RequirementFields, UpdateRequirements1, UpdateRequirements2
  <2>3. n \in FindRequirements \cup FindTail
    BY <1>5 DEF RequirementFields, FindRequirements, FindTail
  <2>4. n \in DeltaMixed
    BY <2>1 DEF DeltaMixed
  <2> QED
    BY <2>1, <2>2, <2>3, <2>4 DEF Covered, CreateFields, FindFields, DeltaFields, UpdateFields
<1> QED
  BY <1>1, <1>2, <1>3, <1>4, <1>5 DEF SpecFields

-----------------------------------------------------------------------------
(***************************************************************************)
(* What the operators return for the one field.                            *)
(***************************************************************************)

(***************************************************************************)
(* A create that passes the range check gives the group the spec's value,  *)
(* or AWS's default.                                                       *)
(***************************************************************************)
LEMMA CreatedValue ==
  ASSUME want \in Value, OutOfRange(One(want), CreateFields) = {}
  PROVE  /\ want # Nil /\ field \in CreateFields =>
              CreatedWith(One(want))[field] = want /\ (field \in Int32Fields => Fits(want))
         /\ ~(want # Nil /\ field \in CreateFields) =>
              CreatedWith(One(want))[field] \in {Nil, DefaultValue}
<1>1. CreatedWith(One(want))[field]
        = IF field \in CreateFields /\ want # Nil THEN Sent(One(want), field) ELSE Defaulted(field)
  BY DEF CreatedWith, One
<1>2. want # Nil /\ field \in CreateFields =>
        Sent(One(want), field) = want /\ (field \in Int32Fields => Fits(want))
  BY SentAsIs DEF One
<1>3. Defaulted(field) \in {Nil, DefaultValue}
  BY DEF Defaulted
<1> QED
  BY <1>1, <1>2, <1>3

(***************************************************************************)
(* An update that passes it gives the group the spec's value, or leaves    *)
(* the group as it is.                                                     *)
(***************************************************************************)
LEMMA UpdatedValue ==
  ASSUME want \in Value, OutOfRange(One(want), UpdateFields) = {}
  PROVE  /\ want # Nil /\ field \in UpdateFields =>
              UpdatedWith(One(want), One(have))[field] = want
                /\ (field \in Int32Fields => Fits(want))
         /\ ~(want # Nil /\ field \in UpdateFields) =>
              UpdatedWith(One(want), One(have))[field] = have
<1>1. UpdatedWith(One(want), One(have))[field]
        = IF field \in UpdateFields /\ want # Nil THEN Sent(One(want), field) ELSE have
  BY DEF UpdatedWith, One
<1>2. want # Nil /\ field \in UpdateFields =>
        Sent(One(want), field) = want /\ (field \in Int32Fields => Fits(want))
  BY SentAsIs DEF One
<1> QED
  BY <1>1, <1>2

(***************************************************************************)
(* sdkFind returns the group's value or the one it was given.              *)
(***************************************************************************)
LEMMA FoundValue ==
  Observed(One(want), One(have))[field] = IF field \in FindFields THEN have ELSE want
  BY DEF Observed, One

(***************************************************************************)
(* Without a difference a field that is compared has the value desired.    *)
(***************************************************************************)
LEMMA NoDifference ==
  ASSUME NEW v, field \in DeltaFields, Differing(One(want), One(v)) = {}
  PROVE  want = v
  BY DEF Differing, One

-----------------------------------------------------------------------------
(***************************************************************************)
(* The inductive invariant: types, where the group's value comes from, and *)
(* that it is the spec's after a create and at the end of a round.         *)
(***************************************************************************)

Applied ==
  pc \in {"read_created", "settled"} /\ want # Nil /\ field \notin CreateOnly \cup NeverRead
    => have = want

HaveOK ==
  /\ have \in Value /\ want \in written
  /\ pc \in {"read_created", "read", "update", "settled"} => exists

SyncInv == TypeOK /\ HaveOK /\ NoInventedValue /\ Applied

(***************************************************************************)
(* The values of the constants.                                            *)
(***************************************************************************)
LEMMA Values == Nil \in Value /\ DefaultValue \in Value /\ Vals \subseteq Value
  BY FieldAssumptions, FieldSyncAssumptions DEF Value

(***************************************************************************)
(* It holds initially.                                                     *)
(***************************************************************************)
LEMMA InvInit == Init => SyncInv
<1> SUFFICES ASSUME Init PROVE SyncInv
  OBVIOUS
<1>1. want \in Value
  BY Values DEF Init
<1>2. TypeOK
  <2>1. changes \in 0 .. MaxChanges
    BY FieldSyncAssumptions DEF Init
  <2>2. written \subseteq Value /\ latest \in Value
    BY <1>1, Values DEF Init
  <2> QED
    BY <1>1, <2>1, <2>2 DEF Init, TypeOK
<1>3. HaveOK /\ NoInventedValue /\ Applied
  BY Values DEF Init, HaveOK, NoInventedValue, Applied
<1> QED
  BY <1>2, <1>3 DEF SyncInv

(***************************************************************************)
(* A read returns typed values, and reads the status of the group.         *)
(***************************************************************************)
LEMMA FindTypes ==
  ASSUME SyncInv, Find
  PROVE  latest' \in Value /\ read' \in States \cup {NoState}
  BY FoundValue DEF SyncInv, TypeOK, HaveOK, Find, StatusRead

(***************************************************************************)
(* Every step keeps it.                                                    *)
(***************************************************************************)
LEMMA InvStep == SyncInv /\ [Next]_vars => SyncInv'
<1> SUFFICES ASSUME SyncInv, [Next]_vars PROVE SyncInv'
  OBVIOUS
<1> USE DEF SyncInv
<1>0. MaxChanges \in Nat
  BY FieldSyncAssumptions
<1>1. CASE Create
  <2>1. CASE OutOfRange(One(want), CreateFields) # {}
    BY <1>1, <2>1 DEF Create, TypeOK, HaveOK, NoInventedValue, Applied, statusVars
  <2>2. CASE OutOfRange(One(want), CreateFields) = {}
    <3>1. have' = CreatedWith(One(want))[field] /\ exists' = TRUE /\ pc' = "read_created"
          /\ UNCHANGED <<field, want, latest, state, read, shown, written, changes>>
      BY <1>1, <2>2 DEF Create, statusVars
    <3>2. want \in Value /\ field \in SpecFields
      BY DEF TypeOK
    <3>3. have' \in {want, Nil, DefaultValue}
          /\ (want # Nil /\ field \in CreateFields => have' = want)
          /\ (have' # Nil /\ field \in Int32Fields => Fits(have'))
      BY <2>2, <3>1, <3>2, CreatedValue, FieldSyncAssumptions
    <3>4. Applied'
      BY <3>1, <3>2, <3>3, TablesAgree DEF Applied, Covered
    <3>5. HaveOK' /\ NoInventedValue'
      BY <3>1, <3>2, <3>3, Values DEF HaveOK, NoInventedValue
    <3>6. TypeOK'
      BY <3>1, <3>3 DEF TypeOK
    <3> QED
      BY <3>4, <3>5, <3>6
  <2> QED
    BY <2>1, <2>2
<1>2. CASE ReadCreated
  <2>1. latest' \in Value /\ read' \in States \cup {NoState}
    BY <1>2, FindTypes DEF ReadCreated
  <2> QED
    BY <1>2, <2>1 DEF ReadCreated, Find, TypeOK, HaveOK, NoInventedValue, Applied
<1>3. CASE Read
  <2>1. latest' \in Value /\ read' \in States \cup {NoState}
    BY <1>3, FindTypes DEF Read
  <2>2. UNCHANGED <<field, want, exists, have, state, written, changes>>
        /\ pc = "read" /\ pc' \in {"settled", "update"} /\ shown' \in {shown, read'}
    BY <1>3 DEF Read, Find
  <2>3. TypeOK' /\ HaveOK' /\ NoInventedValue'
    BY <2>1, <2>2 DEF TypeOK, HaveOK, NoInventedValue
  <2>4. Applied'
    <3> SUFFICES ASSUME pc' = "settled", field \notin CreateOnly \cup NeverRead
                 PROVE  have = want
      BY <2>2 DEF Applied
    <3>1. field \in DeltaFields /\ field \in FindFields
      BY TablesAgree DEF TypeOK, Covered
    <3>2. Differing(One(want), One(latest')) = {} /\ latest' = have
      BY <1>3, <3>1, FoundValue DEF Read, Find
    <3> QED
      BY <3>1, <3>2, NoDifference
  <2> QED
    BY <2>3, <2>4
<1>4. CASE Update
  <2>1. CASE OutOfRange(One(want), UpdateFields) # {}
    BY <1>4, <2>1 DEF Update, TypeOK, HaveOK, NoInventedValue, Applied
  <2>2. CASE OutOfRange(One(want), UpdateFields) = {}
    <3>1. have' = UpdatedWith(One(want), One(have))[field] /\ pc = "update" /\ pc' = "settled"
          /\ UNCHANGED <<field, want, exists, latest, state, read, shown, written, changes>>
      BY <1>4, <2>2 DEF Update
    <3>2. want \in Value /\ field \in SpecFields
      BY DEF TypeOK
    <3>3. IF want # Nil /\ field \in UpdateFields
          THEN have' = want /\ (field \in Int32Fields => Fits(want))
          ELSE have' = have
      BY <2>2, <3>1, <3>2, UpdatedValue
    <3>4. Applied'
      BY <3>1, <3>2, <3>3, TablesAgree DEF Applied, Covered
    <3>5. HaveOK' /\ NoInventedValue'
      BY <3>1, <3>2, <3>3 DEF HaveOK, NoInventedValue
    <3>6. exists
      BY <1>4 DEF Update, HaveOK
    <3>7. TypeOK'
      BY <3>1, <3>3, <3>6 DEF TypeOK
    <3> QED
      BY <3>4, <3>5, <3>7
  <2> QED
    BY <2>1, <2>2
<1>5. CASE Again
  BY <1>5 DEF Again, TypeOK, HaveOK, NoInventedValue, Applied, statusVars
<1>6. CASE Edit
  <2>1. want' \in Value
    BY <1>6, Values DEF Edit
  <2> QED
    BY <1>6, <1>0, <2>1 DEF Edit, TypeOK, HaveOK, NoInventedValue, Applied, statusVars
<1>7. CASE Drift
  <2>1. have' \in Value /\ Fits(have')
    BY <1>7, Values DEF Drift
  <2> QED
    BY <1>7, <1>0, <2>1 DEF Drift, TypeOK, HaveOK, NoInventedValue, Applied, statusVars
<1>8. CASE StateChange
  BY <1>8, <1>0 DEF StateChange, TypeOK, HaveOK, NoInventedValue, Applied
<1>9. CASE UNCHANGED vars
  BY <1>9 DEF vars, statusVars, TypeOK, HaveOK, NoInventedValue, Applied
<1> QED
  BY <1>1, <1>2, <1>3, <1>4, <1>5, <1>6, <1>7, <1>8, <1>9 DEF Next, Reconcile

(***************************************************************************)
(* The invariant holds.                                                    *)
(***************************************************************************)
LEMMA SyncHolds == Spec => []SyncInv
  BY InvInit, InvStep, PTL DEF Spec

(***************************************************************************)
(* FieldSync is type correct: the group's integers have the API's width.   *)
(***************************************************************************)
THEOREM TypeCorrect == Spec => []TypeOK
<1>1. SyncInv => TypeOK
  BY DEF SyncInv
<1> QED
  BY <1>1, SyncHolds, PTL

(***************************************************************************)
(* No number reaches AWS that nobody wrote, whatever the width (the range  *)
(* checks of newCreateRequestPayload and newUpdateRequestPayload).         *)
(***************************************************************************)
THEOREM NothingInvented == Spec => []NoInventedValue
<1>1. SyncInv => NoInventedValue
  BY DEF SyncInv
<1> QED
  BY <1>1, SyncHolds, PTL

(***************************************************************************)
(* A round that ends without error has applied the spec, for every field   *)
(* of the API types outside the nine that are listed (sdkFind,             *)
(* newResourceDelta and the two payloads).                                 *)
(***************************************************************************)
THEOREM RoundsApply == Spec => []SettledMeansApplied
<1>1. SyncInv => SettledMeansApplied
  BY DEF SyncInv, Applied, SettledMeansApplied
<1> QED
  BY <1>1, SyncHolds, PTL

-----------------------------------------------------------------------------
(***************************************************************************)
(* Progress.                                                               *)
(***************************************************************************)

\* A round comes to an update with the group's value in hand, which is not the
\* spec's.
UpdateDue ==
  pc = "update" => /\ field \in FindFields \cap DeltaFields
                   /\ latest = have
                   /\ latest # want

(***************************************************************************)
(* A field that is not read back repeats the desired value in the resource *)
(* read, so that it never differs: sdkFind reads no field of NeverRead.    *)
(***************************************************************************)
LEMMA NeverReadIsNotFound == ASSUME NEW n \in NeverRead PROVE n \notin FindFields
<1>1. n \notin FindBasics \cup FindLaunch
  BY DEF NeverRead, FindBasics, FindLaunch
<1>2. n \notin FindRequirements \cup FindTail
  BY DEF NeverRead, FindRequirements, FindTail
<1> QED
  BY <1>1, <1>2 DEF FindFields

(***************************************************************************)
(* A difference is in a field that is read and compared, and it is between *)
(* the group and the spec.                                                 *)
(***************************************************************************)
LEMMA DifferenceIsReal ==
  ASSUME Find, Differing(One(want), One(latest')) # {}
  PROVE  field \in FindFields \cap DeltaFields /\ latest' = have /\ latest' # want
<1>1. field \in DeltaFields /\ want # latest'
  BY DEF Differing, One
<1>2. latest' = IF field \in FindFields THEN have ELSE want
  BY FoundValue DEF Find
<1> QED
  BY <1>1, <1>2

(***************************************************************************)
(* Every step keeps UpdateDue: only a read leads to an update.             *)
(***************************************************************************)
LEMMA UpdateDueStep == UpdateDue /\ [Next]_vars => UpdateDue'
<1> SUFFICES ASSUME UpdateDue, [Next]_vars, pc' = "update"
             PROVE  /\ field' \in FindFields \cap DeltaFields
                    /\ latest' = have' /\ latest' # want'
  BY DEF UpdateDue
<1>1. CASE Read
  BY <1>1, DifferenceIsReal DEF Read, Find
<1>2. CASE Create \/ ReadCreated \/ Update \/ Again
  BY <1>2 DEF Create, ReadCreated, Update, Again
<1>3. CASE Edit \/ Drift \/ StateChange
  BY <1>3 DEF Edit, Drift, StateChange
<1>4. CASE UNCHANGED vars
  BY <1>4 DEF UpdateDue, vars
<1> QED
  BY <1>1, <1>2, <1>3, <1>4 DEF Next, Reconcile

(***************************************************************************)
(* An update that reports success sends the field that differs, and the    *)
(* group takes it.                                                         *)
(***************************************************************************)
LEMMA UpdateChanges ==
  ASSUME SyncInv, UpdateDue, [Next]_vars,
         pc = "update", pc' = "settled", want # Nil, field \notin CreateOnly
  PROVE  have' # have
<1>1. field \in UpdateFields
  BY NeverReadIsNotFound, TablesAgree DEF UpdateDue, SyncInv, TypeOK, Covered
<1>2. CASE Update
  <2>1. /\ OutOfRange(One(want), UpdateFields) = {}
        /\ have' = UpdatedWith(One(want), One(have))[field]
    BY <1>2 DEF Update
  <2>2. have' = want
    BY <1>1, <2>1, UpdatedValue DEF SyncInv, TypeOK
  <2> QED
    BY <2>2 DEF UpdateDue
<1>3. CASE Create \/ ReadCreated \/ Read \/ Again
  BY <1>3 DEF Create, ReadCreated, Read, Again
<1>4. CASE Edit \/ Drift \/ StateChange
  BY <1>4 DEF Edit, Drift, StateChange
<1>5. CASE UNCHANGED vars
  BY <1>5 DEF vars
<1> QED
  BY <1>2, <1>3, <1>4, <1>5 DEF Next, Reconcile

(***************************************************************************)
(* No round repeats the update of the round before, for any field that the *)
(* spec sets and an update can send: what newResourceDelta finds different *)
(* is in the payload of sdkUpdate.                                         *)
(***************************************************************************)
THEOREM NoIdleUpdate == Spec => UpdatesMakeProgress
<1>1. Init => UpdateDue
  BY DEF Init, UpdateDue
<1>2. SyncInv /\ UpdateDue /\ [Next]_vars
        => [(pc = "update" /\ pc' = "settled" /\ want # Nil /\ field \notin CreateOnly)
              => have' # have]_vars
  BY UpdateChanges
<1> QED
  BY <1>1, <1>2, UpdateDueStep, SyncHolds, PTL DEF Spec, UpdatesMakeProgress
=============================================================================
