------------------------- MODULE ReferencesProofs -------------------------
(***************************************************************************)
(* TLAPS proofs about References, for any number of reference fields and   *)
(* target groups, any resources that are referred to, and any interleaving *)
(* of the reads with edits, changes, failures and crashes: type            *)
(* correctness, that a call is only ever handed completely resolved        *)
(* values, and that clearing always gives back the spec.                   *)
(***************************************************************************)
EXTENDS References, FiniteSetTheorems, TLAPS

(***************************************************************************)
(* TypeOK by part.                                                         *)
(***************************************************************************)
WorldOK ==
  /\ objs \in [Keys -> Object]
  /\ spec \in SpecSet
  /\ fin \in BOOLEAN /\ queued \in BOOLEAN /\ resync \in BOOLEAN
  /\ sent \in Sent

LocalOK ==
  /\ desired \in SpecSet /\ began \in SpecSet
  /\ invalid \in BOOLEAN
  /\ pc \in {"idle", "resolve", "manage", "call"}
  /\ at \in 1 .. Count(desired) + 1
  /\ seen \in [Keys -> SUBSET Targets]

BoundsOK == edits \in 0 .. MaxEdits /\ changes \in 0 .. MaxChanges /\ faults \in 0 .. MaxFaults

(***************************************************************************)
(* TypeOK is the conjunction of its parts.                                 *)
(***************************************************************************)
LEMMA Parts == TypeOK <=> WorldOK /\ LocalOK /\ BoundsOK
  BY DEF TypeOK, WorldOK, LocalOK, BoundsOK

-----------------------------------------------------------------------------
(***************************************************************************)
(* What the operators return.                                              *)
(***************************************************************************)

(***************************************************************************)
(* The working copy of an idle worker is a spec without references.        *)
(***************************************************************************)
LEMMA BlankType == Blank \in SpecSet /\ Count(Blank) \in Nat /\ NoOffers \in [Keys -> SUBSET Targets]
  BY ReferencesAssumptions DEF Blank, SpecSet, Unset, Ref, Count, NoOffers

(***************************************************************************)
(* The number of references is a number, and each has its type.            *)
(***************************************************************************)
LEMMA CountType ==
  ASSUME NEW s \in SpecSet
  PROVE  /\ Count(s) \in Nat
         /\ \A i \in 1 .. Count(s) : RefAt(s, i) \in Ref
  BY ReferencesAssumptions DEF SpecSet, Count, RefAt

(***************************************************************************)
(* A resource offers targets, and only when it is ready.                   *)
(***************************************************************************)
LEMMA OfferType ==
  ASSUME NEW o \in Object
  PROVE  /\ Offer(o) \in SUBSET Targets
         /\ Resolvable(o) => o.target \in Targets /\ o.target \in Offer(o)
  BY DEF Offer, Resolvable, Object

(***************************************************************************)
(* The offers of typed resources are typed.                                *)
(***************************************************************************)
LEMMA OffersType == WorldOK => Offers \in [Keys -> SUBSET Targets]
  BY OfferType DEF WorldOK, Offers

(***************************************************************************)
(* A named reference leads to a resource.                                  *)
(***************************************************************************)
LEMMA KeyType == ASSUME NEW r \in NamedRef PROVE KeyOf(r) \in Keys
  BY ReferencesAssumptions DEF NamedRef, KeyOf, Keys

(***************************************************************************)
(* A target put in its place leaves a spec, with the same references.      *)
(***************************************************************************)
LEMMA WithTargetType ==
  ASSUME NEW s \in SpecSet, NEW i \in 1 .. Count(s), NEW v \in Targets
  PROVE  /\ WithTarget(s, i, v) \in SpecSet
         /\ WithTarget(s, i, v).ref = s.ref
         /\ WithTarget(s, i, v).tgRefs = s.tgRefs
         /\ Count(WithTarget(s, i, v)) = Count(s)
<1>1. CASE i <= NumSlots
  <2>1. i \in 1 .. NumSlots
    BY <1>1, CountType, ReferencesAssumptions
  <2> QED
    BY <1>1, <2>1 DEF WithTarget, SpecSet, Count
<1>2. CASE ~(i <= NumSlots)
  <2>1. Append(s.tgs, v) \in Seq(Targets)
    BY DEF SpecSet
  <2> QED
    BY <1>2, <2>1 DEF WithTarget, SpecSet, Count
<1> QED
  BY <1>1, <1>2

-----------------------------------------------------------------------------
(***************************************************************************)
(* Type correctness.                                                       *)
(***************************************************************************)

(***************************************************************************)
(* An idle worker is typed.                                                *)
(***************************************************************************)
LEMMA RestTypes == Rest => LocalOK'
<1> SUFFICES ASSUME Rest PROVE LocalOK'
  OBVIOUS
<1>1. desired' \in SpecSet /\ began' \in SpecSet /\ seen' \in [Keys -> SUBSET Targets]
  BY BlankType DEF Rest
<1>2. at' \in 1 .. Count(desired)' + 1
  <2>1. Count(desired)' = Count(Blank)
    BY DEF Rest, Count
  <2> QED
    BY <2>1, BlankType DEF Rest
<1> QED
  BY <1>1, <1>2 DEF Rest, LocalOK

(***************************************************************************)
(* A worker that starts to resolve a spec is typed.                        *)
(***************************************************************************)
LEMMA ResolveTypes == WorldOK /\ Resolve(spec) => LocalOK'
<1> SUFFICES ASSUME WorldOK, Resolve(spec) PROVE LocalOK'
  OBVIOUS
<1>1. desired' \in SpecSet /\ began' \in SpecSet /\ seen' \in [Keys -> SUBSET Targets]
  BY OffersType DEF Resolve, WorldOK
<1>2. at' \in 1 .. Count(desired)' + 1
  <2>1. Count(desired)' = Count(spec)
    BY DEF Resolve, Count
  <2>2. Count(spec) \in Nat
    BY CountType DEF WorldOK
  <2> QED
    BY <2>1, <2>2 DEF Resolve
<1> QED
  BY <1>1, <1>2 DEF Resolve, LocalOK

(***************************************************************************)
(* References is type correct: in particular the resolver stays within the *)
(* references of its working copy (references.go:83).                      *)
(***************************************************************************)
THEOREM TypeCorrect == Spec => []TypeOK
<1>1. Init => TypeOK
  <2> SUFFICES ASSUME Init PROVE TypeOK
    OBVIOUS
  <2>1. WorldOK
    <3>1. sent \in Sent
      BY DEF Init, Sent, Unset
    <3>2. objs \in [Keys -> Object] /\ spec \in SpecSet
      BY ReferencesAssumptions DEF Init
    <3> QED
      BY <3>1, <3>2 DEF Init, WorldOK
  <2>2. LocalOK
    <3>1. at \in 1 .. Count(desired) + 1
      BY BlankType DEF Init
    <3> QED
      BY <3>1, BlankType DEF Init, LocalOK
  <2>3. BoundsOK
    BY ReferencesAssumptions DEF Init, BoundsOK
  <2> QED
    BY <2>1, <2>2, <2>3, Parts
<1>2. TypeOK /\ [Next]_vars => TypeOK'
  <2> SUFFICES ASSUME TypeOK, [Next]_vars PROVE TypeOK'
    OBVIOUS
  <2> SUFFICES WorldOK' /\ LocalOK' /\ BoundsOK'
    BY DEF TypeOK, WorldOK, LocalOK, BoundsOK
  <2> USE ReferencesAssumptions
  <2>0. WorldOK /\ LocalOK /\ BoundsOK
    BY Parts
  <2>g. GiveUp => WorldOK' /\ LocalOK'
    BY <2>0, RestTypes DEF GiveUp, WorldOK
  <2>f. Fault => BoundsOK'
    BY <2>0 DEF Fault, BoundsOK
  <2>u. UNCHANGED bounds => BoundsOK'
    BY <2>0 DEF bounds, BoundsOK
  <2>1. CASE Start
    <3>1. WorldOK'
      BY <2>0, <2>1 DEF Start, WorldOK
    <3> QED
      BY <2>0, <2>1, <2>u, <3>1, ResolveTypes DEF Start
  <2>2. CASE Skip
    <3>1. at' \in 1 .. Count(desired)' + 1
      BY <2>0, <2>2, CountType DEF Skip, Resolving, LocalOK, Count
    <3>2. LocalOK'
      BY <2>0, <2>2, <3>1 DEF Skip, LocalOK
    <3>3. WorldOK'
      BY <2>0, <2>2 DEF Skip, WorldOK
    <3> QED
      BY <2>2, <2>u, <3>2, <3>3 DEF Skip
  <2>3. CASE Take
    <3> DEFINE v == objs[KeyOf(Current)].target
    <3>1. v \in Targets
      BY <2>0, <2>3, KeyType, OfferType DEF Take, WorldOK
    <3>2. at \in 1 .. Count(desired) /\ Count(desired) \in Nat
      BY <2>0, <2>3, CountType DEF Take, Resolving, LocalOK
    <3>3. desired' = WithTarget(desired, at, v) /\ at' = at + 1
      BY <2>3 DEF Take
    <3> HIDE DEF v
    <3>4. desired' \in SpecSet /\ Count(desired') = Count(desired)
      BY <2>0, <3>1, <3>2, <3>3, WithTargetType DEF LocalOK
    <3>5. at' \in 1 .. Count(desired)' + 1
      BY <3>2, <3>3, <3>4 DEF Count
    <3>6. LocalOK'
      BY <2>0, <2>3, <3>4, <3>5 DEF Take, LocalOK
    <3>7. WorldOK'
      BY <2>0, <2>3 DEF Take, WorldOK
    <3> QED
      BY <2>3, <2>u, <3>6, <3>7 DEF Take
  <2>4. CASE Refuse
    BY <2>4, <2>g, <2>u DEF Refuse
  <2>5. CASE GetFails
    BY <2>5, <2>g, <2>f DEF GetFails
  <2>6. CASE Return
    <3>1. CASE GiveUp
      BY <2>6, <3>1, <2>g, <2>u DEF Return
    <3>2. CASE ~GiveUp
      <4>1. UNCHANGED <<objs, spec, fin, localVars, queued, resync, sent>>
            /\ pc' \in {"manage", "call"}
        BY <2>6, <3>2 DEF Return
      <4>2. Count(desired)' = Count(desired)
        BY <4>1 DEF Count, localVars
      <4> QED
        BY <2>0, <2>6, <2>u, <4>1, <4>2 DEF Return, localVars, WorldOK, LocalOK
    <3> QED
      BY <3>1, <3>2
  <2>7. CASE MarkManaged
    <3>1. WorldOK'
      BY <2>0, <2>7 DEF MarkManaged, WorldOK
    <3> QED
      BY <2>0, <2>7, <2>u, <3>1, ResolveTypes DEF MarkManaged
  <2>8. CASE Call
    <3>1. sent' \in Sent
      BY <2>0, <2>8 DEF Call, Sent, LocalOK, SpecSet
    <3>2. WorldOK'
      BY <2>0, <2>8, <3>1 DEF Call, WorldOK
    <3> QED
      BY <2>8, <2>u, <3>2, RestTypes DEF Call
  <2>9. CASE CallFails
    BY <2>9, <2>g, <2>f DEF CallFails
  <2>10. CASE Resync
    <3>1. Count(desired)' = Count(desired)
      BY <2>10 DEF Resync, localVars, Count
    <3> QED
      BY <2>0, <2>10, <2>u, <3>1 DEF Resync, localVars, WorldOK, LocalOK
  <2>11. CASE Crash
    BY <2>11, <2>g, <2>f DEF Crash
  <2>12. CASE Edit
    <3>1. Count(desired)' = Count(desired)
      BY <2>12 DEF Edit, localVars, Count
    <3>2. LocalOK'
      BY <2>0, <2>12, <3>1 DEF Edit, localVars, LocalOK
    <3>3. WorldOK' /\ BoundsOK'
      BY <2>0, <2>12 DEF Edit, WorldOK, BoundsOK
    <3> QED
      BY <3>2, <3>3
  <2>13. CASE Change
    <3>1. PICK k \in Keys, o \in Objects :
             /\ objs' = [objs EXCEPT ![k] = o]
             /\ seen' = IF pc = "idle" THEN seen ELSE [seen EXCEPT ![k] = @ \cup Offer(o)]
      BY <2>13 DEF Change
    <3>2. objs' \in [Keys -> Object]
      BY <2>0, <3>1 DEF WorldOK
    <3>3. seen' \in [Keys -> SUBSET Targets]
      BY <2>0, <3>1, OfferType DEF LocalOK
    <3>4. Count(desired)' = Count(desired)
      BY <2>13 DEF Change, Count
    <3>5. LocalOK'
      BY <2>0, <2>13, <3>3, <3>4 DEF Change, LocalOK
    <3>6. WorldOK' /\ BoundsOK'
      BY <2>0, <2>13, <3>2 DEF Change, WorldOK, BoundsOK
    <3> QED
      BY <3>5, <3>6
  <2>14. CASE UNCHANGED vars
    <3>1. Count(desired)' = Count(desired)
      BY <2>14 DEF vars, localVars, Count
    <3> QED
      BY <2>0, <2>14, <2>u, <3>1 DEF vars, localVars, WorldOK, LocalOK
  <2> QED
    BY <2>1, <2>2, <2>3, <2>4, <2>5, <2>6, <2>7, <2>8, <2>9, <2>10, <2>11, <2>12, <2>13, <2>14
       DEF Next, Worker
<1> QED
  BY <1>1, <1>2, PTL DEF Spec

-----------------------------------------------------------------------------
(***************************************************************************)
(* The places of the target groups.                                        *)
(***************************************************************************)

(***************************************************************************)
(* No target group has a place before the first; the next one with a From  *)
(* has the next place, and one without From none.                          *)
(***************************************************************************)
LEMMA RankStep ==
  ASSUME NEW s, NEW j \in Nat
  PROVE  /\ Rank(s, 0) = 0
         /\ Rank(s, j) \in Nat
         /\ Rank(s, j + 1) = IF HasFrom(s.tgRefs[j + 1]) THEN Rank(s, j) + 1 ELSE Rank(s, j)
<1> DEFINE B(n) == {m \in 1 .. n : HasFrom(s.tgRefs[m])}
<1>1. IsFiniteSet(B(j)) /\ Cardinality(B(j)) \in Nat
  <2>1. IsFiniteSet(1 .. j)
    BY FS_Interval
  <2>2. B(j) \in SUBSET (1 .. j)
    OBVIOUS
  <2> QED
    BY <2>1, <2>2, FS_Subset, FS_CardinalityType
<1>2. B(0) = {}
  OBVIOUS
<1>3. B(j + 1) = IF HasFrom(s.tgRefs[j + 1]) THEN B(j) \cup {j + 1} ELSE B(j)
  OBVIOUS
<1>4. j + 1 \notin B(j)
  OBVIOUS
<1>5. Rank(s, 0) = Cardinality(B(0)) /\ Rank(s, j) = Cardinality(B(j))
      /\ Rank(s, j + 1) = Cardinality(B(j + 1))
  BY DEF Rank
<1> HIDE DEF B
<1>6. Cardinality(B(0)) = 0
  BY <1>2, FS_EmptySet
<1>7. Cardinality(B(j) \cup {j + 1}) = Cardinality(B(j)) + 1
  BY <1>1, <1>4, FS_AddElement
<1> QED
  BY <1>1, <1>3, <1>5, <1>6, <1>7

(***************************************************************************)
(* A target group with a From has a place, at most that of a later one.    *)
(***************************************************************************)
LEMMA RankBounds ==
  ASSUME NEW s, NEW n \in Nat, NEW j \in 1 .. n, HasFrom(s.tgRefs[j])
  PROVE  Rank(s, j) \in 1 .. Rank(s, n)
<1> DEFINE B(k) == {m \in 1 .. k : HasFrom(s.tgRefs[m])}
<1>1. IsFiniteSet(B(n)) /\ Cardinality(B(n)) \in Nat
  <2>1. IsFiniteSet(1 .. n) /\ B(n) \in SUBSET (1 .. n)
    BY FS_Interval
  <2> QED
    BY <2>1, FS_Subset, FS_CardinalityType
<1>2. B(j) \in SUBSET B(n) /\ j \in B(j)
  OBVIOUS
<1>3. Rank(s, j) = Cardinality(B(j)) /\ Rank(s, n) = Cardinality(B(n))
  BY DEF Rank
<1> HIDE DEF B
<1>4. IsFiniteSet(B(j)) /\ Cardinality(B(j)) \in Nat /\ Cardinality(B(j)) <= Cardinality(B(n))
  BY <1>1, <1>2, FS_Subset, FS_CardinalityType
<1>5. Cardinality(B(j)) # 0
  BY <1>2, <1>4, FS_EmptySet
<1> QED
  BY <1>1, <1>3, <1>4, <1>5

-----------------------------------------------------------------------------
(***************************************************************************)
(* The inductive invariant of a resolution.  HandedOver alone speaks of    *)
(* the end; the invariant says how far the resolver has come.              *)
(***************************************************************************)

\* How many target group references are behind the resolver.
Behind == IF at > NumSlots THEN at - 1 - NumSlots ELSE 0

\* The references stay, and the verdict of the validation is about them.
RefsKept ==
  /\ desired.ref = began.ref
  /\ desired.tgRefs = began.tgRefs
  /\ invalid = ~ReferencesValid(began)

\* Nothing is called before the last reference is resolved, nor if the spec is
\* invalid.
CompleteFirst == pc \in {"manage", "call"} => at > Count(desired) /\ ~invalid

\* What the resources offer now has been seen.
OffersSeen == \A k \in Keys : Offers[k] \subseteq seen[k]

\* The fields behind the resolver are filled, the others are as they were.
SlotsFilled ==
  \A i \in 1 .. NumSlots :
     IF i < at /\ HasFrom(began.ref[i])
     THEN began.ref[i] \in NamedRef /\ desired.val[i] \in seen[KeyOf(began.ref[i])]
     ELSE desired.val[i] = began.val[i]

\* So are the target groups, one for each reference, in order.
GroupsFilled ==
  IF began.tgRefs = <<>> THEN desired.tgs = began.tgs
  ELSE ~invalid =>
       /\ Len(desired.tgs) = Rank(began, Behind)
       /\ \A j \in 1 .. Behind :
             HasFrom(began.tgRefs[j]) =>
                /\ began.tgRefs[j] \in NamedRef
                /\ desired.tgs[Rank(began, j)] \in seen[KeyOf(began.tgRefs[j])]

ResInv ==
  pc # "idle" => RefsKept /\ CompleteFirst /\ OffersSeen /\ SlotsFilled /\ GroupsFilled

(***************************************************************************)
(* The invariant holds where a resolution starts.                          *)
(***************************************************************************)
LEMMA ResolveStarts == WorldOK /\ Resolve(spec) /\ UNCHANGED objs => ResInv'
<1> SUFFICES ASSUME WorldOK, Resolve(spec), UNCHANGED objs PROVE ResInv'
  OBVIOUS
<1>1. RefsKept' /\ CompleteFirst'
  BY DEF Resolve, RefsKept, CompleteFirst
<1>2. OffersSeen'
  BY DEF Resolve, OffersSeen, Offers
<1>3. SlotsFilled'
  BY DEF Resolve, SlotsFilled
<1>4. GroupsFilled'
  <2>1. Behind' = 0 /\ Rank(began', 0) = 0
    BY RankStep, ReferencesAssumptions DEF Resolve, Behind
  <2>2. ~invalid' /\ began'.tgRefs # <<>> => desired'.tgs = <<>>
    BY DEF Resolve, ReferencesValid
  <2> QED
    BY <2>1, <2>2 DEF Resolve, GroupsFilled
<1> QED
  BY <1>1, <1>2, <1>3, <1>4 DEF ResInv

(***************************************************************************)
(* A reference that is skipped or resolved takes the resolver one further. *)
(***************************************************************************)
LEMMA BehindStep ==
  ASSUME LocalOK, at' = at + 1
  PROVE  /\ Behind \in Nat
         /\ at <= NumSlots => Behind = 0 /\ Behind' = 0
         /\ at > NumSlots => Behind' = Behind + 1 /\ Behind + 1 = at - NumSlots
<1>1. at \in Nat /\ NumSlots \in Nat
  BY CountType, ReferencesAssumptions DEF LocalOK
<1> QED
  BY <1>1 DEF Behind

(***************************************************************************)
(* Every step keeps the invariant.                                         *)
(***************************************************************************)
LEMMA ResStep == TypeOK /\ ResInv /\ [Next]_vars => ResInv'
<1> SUFFICES ASSUME TypeOK, ResInv, [Next]_vars PROVE ResInv'
  OBVIOUS
<1>0. WorldOK /\ LocalOK
  BY Parts
<1>n. NumSlots \in Nat /\ at \in Nat /\ at >= 1
  BY <1>0, CountType, ReferencesAssumptions DEF LocalOK
<1>i. pc' = "idle" => ResInv'
  BY DEF ResInv
<1>g. GiveUp => ResInv'
  BY <1>i DEF GiveUp, Rest
<1>u. UNCHANGED <<objs, pc, localVars>> => ResInv'
  <2> SUFFICES ASSUME UNCHANGED <<objs, pc, localVars>> PROVE ResInv'
    OBVIOUS
  <2> QED
    BY DEF localVars, ResInv, RefsKept, CompleteFirst, OffersSeen, Offers, SlotsFilled,
           GroupsFilled, Behind, Count
<1>1. CASE Start
  BY <1>0, <1>1, ResolveStarts DEF Start
<1>2. CASE Skip
  <2>0. RefsKept /\ OffersSeen /\ SlotsFilled /\ GroupsFilled /\ pc' = "resolve"
    BY <1>2 DEF Skip, Resolving, ResInv
  <2>1. UNCHANGED <<objs, desired, began, invalid, seen>> /\ at' = at + 1 /\ ~HasFrom(Current)
    BY <1>2 DEF Skip
  <2>2. RefsKept' /\ CompleteFirst'
    BY <2>0, <2>1 DEF RefsKept, CompleteFirst
  <2>3. OffersSeen'
    BY <2>0, <2>1 DEF OffersSeen, Offers
  <2>4. SlotsFilled'
    BY <2>0, <2>1, <1>n DEF SlotsFilled, RefsKept, Current, RefAt
  <2>5. GroupsFilled'
    <3>1. CASE at <= NumSlots
      BY <2>0, <2>1, <3>1, <1>0, BehindStep DEF GroupsFilled
    <3>2. CASE at > NumSlots
      <4>1. Behind \in Nat /\ Behind' = Behind + 1 /\ ~HasFrom(began.tgRefs[Behind + 1])
        BY <2>0, <2>1, <3>2, <1>0, <1>n, BehindStep DEF Current, RefAt, RefsKept
      <4>2. Rank(began, Behind + 1) = Rank(began, Behind)
        BY <4>1, RankStep
      <4> QED
        BY <2>0, <2>1, <4>1, <4>2 DEF GroupsFilled
    <3> QED
      BY <3>1, <3>2, <1>n
  <2> QED
    BY <2>2, <2>3, <2>4, <2>5 DEF ResInv
<1>3. CASE Take
  <2> DEFINE k == KeyOf(Current)
             v == objs[k].target
  <2>0. RefsKept /\ OffersSeen /\ SlotsFilled /\ GroupsFilled /\ pc' = "resolve"
    BY <1>3 DEF Take, Resolving, ResInv
  <2>1. /\ UNCHANGED <<objs, began, invalid, seen>>
        /\ at' = at + 1
        /\ desired' = WithTarget(desired, at, v)
        /\ Current \in NamedRef
    BY <1>3 DEF Take
  <2>a. at \in 1 .. Count(desired) /\ Count(desired) \in Nat
    BY <1>0, <1>3, <1>n, CountType DEF Take, Resolving, LocalOK
  <2>2. v \in Targets /\ k \in Keys /\ v \in seen[k]
    <3>1. k \in Keys
      BY <2>1, KeyType
    <3>2. objs[k] \in Object /\ Resolvable(objs[k])
      BY <1>0, <1>3, <3>1 DEF Take, WorldOK
    <3>3. v \in Targets /\ v \in Offer(objs[k])
      BY <3>2, OfferType
    <3>4. Offer(objs[k]) \subseteq seen[k]
      BY <2>0, <3>1 DEF OffersSeen, Offers
    <3> QED
      BY <3>1, <3>3, <3>4
  <2>h. HasFrom(Current)
    BY <2>1, ReferencesAssumptions DEF HasFrom
  <2> HIDE DEF v
  <2>3. desired'.ref = desired.ref /\ desired'.tgRefs = desired.tgRefs /\ desired' \in SpecSet
    BY <1>0, <2>1, <2>2, <2>a, WithTargetType DEF LocalOK
  <2>4. RefsKept' /\ CompleteFirst'
    BY <2>0, <2>1, <2>3 DEF RefsKept, CompleteFirst
  <2>5. OffersSeen'
    BY <2>0, <2>1 DEF OffersSeen, Offers
  <2>6. CASE at <= NumSlots
    <3>1. at \in 1 .. NumSlots
      BY <2>6, <1>n
    <3>2. desired'.val = [desired.val EXCEPT ![at] = v] /\ desired'.tgs = desired.tgs
      BY <2>1, <2>6, <1>0 DEF WithTarget, LocalOK, SpecSet
    <3>3. Current = began.ref[at]
      BY <2>0, <2>6 DEF Current, RefAt, RefsKept
    <3>4. SlotsFilled'
      <4> SUFFICES ASSUME NEW i \in 1 .. NumSlots
                   PROVE  IF i < at' /\ HasFrom(began.ref[i])
                          THEN /\ began.ref[i] \in NamedRef
                               /\ desired'.val[i] \in seen[KeyOf(began.ref[i])]
                          ELSE desired'.val[i] = began.val[i]
        BY <2>1 DEF SlotsFilled
      <4>1. desired.val \in [1 .. NumSlots -> Targets \cup {Nil}]
        BY <1>0 DEF LocalOK, SpecSet
      <4>2. CASE i = at
        BY <4>1, <4>2, <3>1, <3>2, <3>3, <2>1, <2>2, <2>h, <1>n
      <4>3. CASE i # at
        <5>1. desired'.val[i] = desired.val[i] /\ (i < at' <=> i < at)
          BY <4>1, <4>3, <3>2, <2>1, <1>n
        <5> QED
          BY <5>1, <2>0 DEF SlotsFilled
      <4> QED
        BY <4>2, <4>3
    <3>5. GroupsFilled'
      BY <2>0, <2>1, <2>6, <3>2, <1>0, BehindStep DEF GroupsFilled
    <3> QED
      BY <2>4, <2>5, <3>4, <3>5 DEF ResInv
  <2>7. CASE at > NumSlots
    <3>1. desired'.val = desired.val /\ desired'.tgs = Append(desired.tgs, v)
      BY <2>1, <2>7, <1>0, <1>n DEF WithTarget, LocalOK, SpecSet
    <3>2. SlotsFilled'
      BY <2>0, <2>1, <2>7, <3>1, <1>n DEF SlotsFilled
    <3>3. Behind \in Nat /\ Behind' = Behind + 1 /\ Behind + 1 = at - NumSlots
      BY <2>1, <2>7, <1>0, BehindStep
    <3>4. Current = began.tgRefs[Behind + 1] /\ began.tgRefs # <<>>
      <4>1. Behind + 1 \in 1 .. Len(desired.tgRefs)
        BY <2>a, <3>3, <1>0, <1>n DEF Count, LocalOK, SpecSet
      <4> QED
        BY <4>1, <2>0, <2>7, <3>3, <1>n DEF Current, RefAt, RefsKept
    <3>5. GroupsFilled'
      <4> SUFFICES ASSUME ~invalid
                   PROVE  /\ Len(desired'.tgs) = Rank(began, Behind + 1)
                          /\ \A j \in 1 .. Behind + 1 :
                                HasFrom(began.tgRefs[j]) =>
                                /\ began.tgRefs[j] \in NamedRef
                                /\ desired'.tgs[Rank(began, j)] \in seen[KeyOf(began.tgRefs[j])]
        BY <2>1, <3>3, <3>4 DEF GroupsFilled
      <4>1. /\ Len(desired.tgs) = Rank(began, Behind)
            /\ \A j \in 1 .. Behind :
                  HasFrom(began.tgRefs[j]) =>
                     /\ began.tgRefs[j] \in NamedRef
                     /\ desired.tgs[Rank(began, j)] \in seen[KeyOf(began.tgRefs[j])]
        BY <2>0, <3>4 DEF GroupsFilled
      <4>2. Rank(began, Behind) \in Nat /\ Rank(began, Behind + 1) = Rank(began, Behind) + 1
        BY <2>h, <3>3, <3>4, RankStep
      <4>3. desired.tgs \in Seq(Targets)
        BY <1>0 DEF LocalOK, SpecSet
      <4>4. /\ Len(desired'.tgs) = Rank(began, Behind) + 1
            /\ desired'.tgs[Rank(began, Behind) + 1] = v
            /\ \A n \in 1 .. Rank(began, Behind) : desired'.tgs[n] = desired.tgs[n]
        BY <3>1, <4>1, <4>2, <4>3, <2>2
      <4>5. ASSUME NEW j \in 1 .. Behind + 1, HasFrom(began.tgRefs[j])
            PROVE  /\ began.tgRefs[j] \in NamedRef
                   /\ desired'.tgs[Rank(began, j)] \in seen[KeyOf(began.tgRefs[j])]
        <5>1. CASE j = Behind + 1
          BY <5>1, <4>2, <4>4, <3>4, <2>1, <2>2
        <5>2. CASE j # Behind + 1
          <6>1. j \in 1 .. Behind
            BY <5>2, <3>3
          <6>2. Rank(began, j) \in 1 .. Rank(began, Behind)
            BY <6>1, <4>5, <3>3, RankBounds
          <6> QED
            BY <6>1, <6>2, <4>1, <4>4, <4>5
        <5> QED
          BY <5>1, <5>2
      <4> QED
        BY <4>2, <4>4, <4>5
    <3> QED
      BY <2>4, <2>5, <3>2, <3>5 DEF ResInv
  <2> QED
    BY <2>6, <2>7, <1>n
<1>4. CASE Refuse
  BY <1>4, <1>g DEF Refuse
<1>5. CASE GetFails
  BY <1>5, <1>g DEF GetFails
<1>6. CASE Return
  <2>1. CASE GiveUp
    BY <2>1, <1>g
  <2>2. CASE ~GiveUp
    <3>1. /\ ~invalid /\ Resolved /\ pc' \in {"manage", "call"}
          /\ UNCHANGED <<objs, localVars>>
      BY <1>6, <2>2 DEF Return
    <3>2. CompleteFirst'
      BY <3>1 DEF Resolved, CompleteFirst, localVars, Count
    <3>3. RefsKept /\ OffersSeen /\ SlotsFilled /\ GroupsFilled
      BY <3>1 DEF ResInv, Resolved
    <3>4. RefsKept' /\ OffersSeen' /\ SlotsFilled' /\ GroupsFilled'
      BY <3>1, <3>3 DEF localVars, RefsKept, OffersSeen, Offers, SlotsFilled, GroupsFilled, Behind
    <3> QED
      BY <3>2, <3>4 DEF ResInv
  <2> QED
    BY <2>1, <2>2
<1>7. CASE MarkManaged
  BY <1>0, <1>7, ResolveStarts DEF MarkManaged
<1>8. CASE Call
  BY <1>8, <1>i DEF Call, Rest
<1>9. CASE CallFails
  BY <1>9, <1>g DEF CallFails
<1>10. CASE Resync
  BY <1>10, <1>u DEF Resync
<1>11. CASE Crash
  BY <1>11, <1>g DEF Crash
<1>12. CASE Edit
  BY <1>12, <1>u DEF Edit
<1>13. CASE Change
  <2> SUFFICES ASSUME pc # "idle" PROVE ResInv'
    BY <1>13, <1>i DEF Change
  <2>1. PICK k \in Keys, o \in Objects :
           /\ objs' = [objs EXCEPT ![k] = o]
           /\ seen' = [seen EXCEPT ![k] = @ \cup Offer(o)]
    BY <1>13 DEF Change
  <2>2. UNCHANGED <<pc, at, desired, invalid, began>>
    BY <1>13 DEF Change
  <2>3. RefsKept /\ CompleteFirst /\ OffersSeen /\ SlotsFilled /\ GroupsFilled
    BY DEF ResInv
  <2>4. \A x \in Keys : seen[x] \subseteq seen'[x]
    BY <1>0, <2>1 DEF LocalOK
  <2>5. RefsKept' /\ CompleteFirst'
    BY <2>2, <2>3 DEF RefsKept, CompleteFirst, Count
  <2>6. OffersSeen'
    BY <1>0, <2>1, <2>3 DEF OffersSeen, Offers, LocalOK, WorldOK
  <2>7. SlotsFilled'
    BY <2>2, <2>3, <2>4, KeyType DEF SlotsFilled
  <2>8. GroupsFilled'
    BY <2>2, <2>3, <2>4, KeyType DEF GroupsFilled, Behind
  <2> QED
    BY <2>5, <2>6, <2>7, <2>8 DEF ResInv
<1>14. CASE UNCHANGED vars
  BY <1>14, <1>u DEF vars
<1> QED
  BY <1>1, <1>2, <1>3, <1>4, <1>5, <1>6, <1>7, <1>8, <1>9, <1>10, <1>11, <1>12, <1>13, <1>14
     DEF Next, Worker

(***************************************************************************)
(* The invariant of the resolution holds.                                  *)
(***************************************************************************)
LEMMA ResHolds == Spec => [](TypeOK /\ ResInv)
<1>1. Init => ResInv
  BY DEF Init, ResInv
<1>2. Spec => []TypeOK
  BY TypeCorrect
<1>3. TypeOK /\ ResInv /\ [Next]_vars => ResInv'
  BY ResStep
<1> QED
  BY <1>1, <1>2, <1>3, PTL DEF Spec

(***************************************************************************)
(* A call is handed a spec in which every reference is resolved once and   *)
(* in place, to a target that was offered during the resolution, whatever  *)
(* the other controllers, the user and the failures do (references.go:83). *)
(***************************************************************************)
THEOREM CompletelyResolved == Spec => []HandedOver
<1>1. TypeOK /\ ResInv => HandedOver
  <2> SUFFICES ASSUME TypeOK, ResInv, pc = "call"
               PROVE  ReferencesValid(began) /\ Filled(began, desired, seen)
    BY DEF HandedOver
  <2>1. RefsKept /\ SlotsFilled /\ GroupsFilled /\ at > Count(desired) /\ ~invalid
    BY DEF ResInv, CompleteFirst
  <2>2. LocalOK
    BY Parts
  <2>3. NumSlots \in Nat /\ at \in Nat /\ Len(began.tgRefs) \in Nat
        /\ at = NumSlots + Len(began.tgRefs) + 1
    <3>1. Count(desired) \in Nat /\ at = Count(desired) + 1
      BY <2>1, <2>2, CountType DEF LocalOK
    <3>2. NumSlots \in Nat /\ Len(began.tgRefs) \in Nat
      BY <2>2, ReferencesAssumptions DEF LocalOK, SpecSet
    <3> QED
      BY <2>1, <3>1, <3>2 DEF RefsKept, Count
  <2>4. Behind = Len(began.tgRefs)
    BY <2>3 DEF Behind
  <2>5. ReferencesValid(began)
    BY <2>1 DEF RefsKept
  <2>6. \A i \in 1 .. NumSlots :
           IF HasFrom(began.ref[i]) THEN desired.val[i] \in seen[KeyOf(began.ref[i])]
                                    ELSE desired.val[i] = began.val[i]
    BY <2>1, <2>3 DEF SlotsFilled
  <2>7. IF began.tgRefs = <<>>
        THEN desired.tgs = began.tgs
        ELSE /\ Len(desired.tgs) = Rank(began, Len(began.tgRefs))
             /\ \A j \in 1 .. Len(began.tgRefs) :
                   HasFrom(began.tgRefs[j]) =>
                      desired.tgs[Rank(began, j)] \in seen[KeyOf(began.tgRefs[j])]
    BY <2>1, <2>4 DEF GroupsFilled
  <2> QED
    BY <2>5, <2>6, <2>7 DEF Filled
<1> QED
  BY <1>1, ResHolds, PTL

(***************************************************************************)
(* Clearing undoes resolving at every moment, for specs with a value next  *)
(* to a reference too (references.go:52).  The values at the references go *)
(* whatever they are, the others are as they were given.  That gives back  *)
(* a valid spec, and the patch of the finalizer and the calls are only     *)
(* reached with a valid one.                                               *)
(***************************************************************************)
THEOREM Clearable == Spec => []ClearRestores
<1>1. TypeOK /\ ResInv => ClearRestores
  <2> SUFFICES ASSUME TypeOK, ResInv, pc # "idle"
               PROVE  /\ ClearResolved(desired) = ClearResolved(began)
                      /\ (ReferencesValid(began) \/ pc \in {"manage", "call"})
                            => ClearResolved(desired) = began
    BY DEF ClearRestores
  <2>1. RefsKept /\ CompleteFirst /\ SlotsFilled /\ GroupsFilled
    BY DEF ResInv
  <2>2. desired \in SpecSet /\ began \in SpecSet
    BY Parts DEF LocalOK
  <2>3. [i \in 1 .. NumSlots |-> IF desired.ref[i] # NoRef THEN Nil ELSE desired.val[i]]
          = [i \in 1 .. NumSlots |-> IF began.ref[i] # NoRef THEN Nil ELSE began.val[i]]
    BY <2>1 DEF RefsKept, SlotsFilled, HasFrom
  <2>4. (IF desired.tgRefs # <<>> THEN <<>> ELSE desired.tgs)
          = (IF began.tgRefs # <<>> THEN <<>> ELSE began.tgs)
    BY <2>1 DEF RefsKept, GroupsFilled
  <2>5. ClearResolved(desired) = ClearResolved(began)
    <3>1. desired = [ref |-> desired.ref, val |-> desired.val,
                     tgRefs |-> desired.tgRefs, tgs |-> desired.tgs]
      BY <2>2 DEF SpecSet
    <3>2. began = [ref |-> began.ref, val |-> began.val,
                   tgRefs |-> began.tgRefs, tgs |-> began.tgs]
      BY <2>2 DEF SpecSet
    <3> QED
      BY <2>1, <2>3, <2>4, <3>1, <3>2 DEF ClearResolved, RefsKept
  <2>6. ASSUME ReferencesValid(began) PROVE ClearResolved(began) = began
    <3>1. [i \in 1 .. NumSlots |-> IF began.ref[i] # NoRef THEN Nil ELSE began.val[i]]
            = began.val
      BY <2>2, <2>6 DEF SpecSet, ReferencesValid
    <3>2. (IF began.tgRefs # <<>> THEN <<>> ELSE began.tgs) = began.tgs
      BY <2>6 DEF ReferencesValid
    <3>3. ClearResolved(began) = [began EXCEPT !.val = began.val, !.tgs = began.tgs]
      BY <3>1, <3>2 DEF ClearResolved
    <3> QED
      BY <2>2, <3>3 DEF SpecSet
  <2>7. pc \in {"manage", "call"} => ReferencesValid(began)
    BY <2>1 DEF CompleteFirst, RefsKept
  <2> QED
    BY <2>5, <2>6, <2>7
<1> QED
  BY <1>1, ResHolds, PTL
=============================================================================
