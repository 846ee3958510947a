---------------------------- MODULE References ----------------------------
(***************************************************************************)
(* References to other custom resources (references.go).  Some fields of   *)
(* the spec name a resource of another controller instead of a value: an   *)
(* EC2 instance, the roles of the lifecycle hooks, a service-linked role   *)
(* and a list of target groups.  ResolveReferences reads these resources   *)
(* one by one through the Kubernetes API and writes what it finds into the *)
(* working copy; ClearResolvedReferences takes it out again before the     *)
(* copy is patched into Kubernetes.                                        *)
(*                                                                         *)
(* One read is one step: between two reads the other controllers change    *)
(* the conditions and the targets of their resources, or delete them, the  *)
(* user edits the spec, a read fails or the process stops.  The runtime    *)
(* calls ResolveReferences at the start of a reconcile and again after the *)
(* patch that sets the finalizer.                                          *)
(***************************************************************************)
EXTENDS Integers, Sequences, FiniteSets

CONSTANTS
  NumSlots,    \* the fields that hold one reference, in the order of
               \* ResolveReferences: InstanceID, the RoleARN of each lifecycle
               \* hook, ServiceLinkedRoleARN
  Names,       \* names of referenced resources
  Namespaces,  \* Kubernetes namespaces
  OwnNs,       \* the namespace of the custom resource
  NoNs,        \* a reference without namespace
  Targets,     \* what a reference resolves to: instance IDs and ARNs
  Nil,         \* a field that is not set
  NoRef,       \* no reference
  Hollow,      \* a reference whose From is not set
  Unnamed,     \* a reference whose From has no name
  Missing,     \* a referenced resource that does not exist
  UserSpecs,   \* the specs that users write
  Objects,     \* the states of referenced resources that are followed
  MaxEdits,    \* bound on the user's edits
  MaxChanges,  \* bound on the changes of referenced resources
  MaxFaults    \* bound on failed calls and crashes

NamedRef == [ns : Namespaces \cup {NoNs}, name : Names]

Ref == NamedRef \cup {NoRef, Hollow, Unnamed}

SpecSet == [ref    : [1 .. NumSlots -> Ref],
            val    : [1 .. NumSlots -> Targets \cup {Nil}],
            tgRefs : Seq(Ref),
            tgs    : Seq(Targets)]

\* A referenced resource: its conditions, and the field that is referred to.
Object == [terminal : BOOLEAN, synced : BOOLEAN, target : Targets \cup {Nil}] \cup {Missing}

Keys == Namespaces \X Names

ASSUME ReferencesAssumptions ==
  /\ {NumSlots, MaxEdits, MaxChanges, MaxFaults} \subseteq Nat
  /\ OwnNs \in Namespaces
  /\ {NoRef, Hollow, Unnamed} \cap NamedRef = {}
  /\ NoRef # Hollow /\ NoRef # Unnamed /\ Hollow # Unnamed
  /\ Nil \notin Targets
  /\ UserSpecs \subseteq SpecSet
  /\ Objects \subseteq Object

Unset == [i \in 1 .. NumSlots |-> Nil]

Blank == [ref |-> [i \in 1 .. NumSlots |-> NoRef], val |-> Unset, tgRefs |-> <<>>, tgs |-> <<>>]

-----------------------------------------------------------------------------
(***************************************************************************)
(* The functions of references.go.                                         *)
(***************************************************************************)

\* The references of a spec in the order in which they are resolved.
Count(s) == NumSlots + Len(s.tgRefs)

RefAt(s, i) == IF i <= NumSlots THEN s.ref[i] ELSE s.tgRefs[i - NumSlots]

\* A reference without From is skipped.
HasFrom(r) == r \notin {NoRef, Hollow}

\* A reference without namespace stays in the namespace of the resource.
KeyOf(r) == <<IF r.ns = NoNs THEN OwnNs ELSE r.ns, r.name>>

\* getReferencedResourceState: it exists, is not terminal, is synced and has the
\* field.  Every other answer is an error.
Resolvable(o) ==
  /\ o # Missing
  /\ ~o.terminal
  /\ o.synced
  /\ o.target # Nil

\* validateReferenceFields: no field has both a reference and a value.
ReferencesValid(s) ==
  /\ \A i \in 1 .. NumSlots : s.ref[i] # NoRef => s.val[i] = Nil
  /\ s.tgRefs # <<>> => s.tgs = <<>>

\* Mutant: a target group replaces the one before.
MutWithTarget(s, i, v) ==
  IF i <= NumSlots THEN [s EXCEPT !.val[i] = v] ELSE [s EXCEPT !.tgs = <<v>>]

\* What is found is assigned to the field, or appended to the target groups.
WithTarget(s, i, v) ==
  IF i <= NumSlots THEN [s EXCEPT !.val[i] = v] ELSE [s EXCEPT !.tgs = Append(@, v)]

\* Mutant: the target groups are not cleared.
MutClearResolved(s) ==
  [s EXCEPT !.val = [i \in 1 .. NumSlots |-> IF s.ref[i] # NoRef THEN Nil ELSE s.val[i]]]

\* ClearResolvedReferences
ClearResolved(s) ==
  [s EXCEPT !.val = [i \in 1 .. NumSlots |-> IF s.ref[i] # NoRef THEN Nil ELSE s.val[i]],
            !.tgs = IF s.tgRefs # <<>> THEN <<>> ELSE s.tgs]

-----------------------------------------------------------------------------
VARIABLES
  objs,     \* the referenced resources, by namespace and name
  spec,     \* the spec of the custom resource
  fin,      \* its finalizer
  pc,       \* the worker: "idle", "resolve", "manage" or "call"
  at,       \* the next reference to resolve
  desired,  \* the working copy: what ResolveReferences is given and returns
  invalid,  \* what validateReferenceFields found
  queued,   \* the resource is waiting for a reconcile
  resync,   \* a reconcile is due after the resync period
  sent,     \* the values last handed to Create or Update
  (* history, for the properties *)
  began,    \* the working copy as it was passed to ResolveReferences
  seen,     \* the targets that each resource has offered since then
  (* how much of the bounds is used *)
  edits, changes, faults

localVars == <<at, desired, invalid, began, seen>>
bounds    == <<edits, changes, faults>>
vars      == <<objs, spec, fin, pc, localVars, queued, resync, sent, bounds>>

\* The target that a resource offers, if any.
Offer(o) == IF Resolvable(o) THEN {o.target} ELSE {}

Offers == [k \in Keys |-> Offer(objs[k])]

NoOffers == [k \in Keys |-> {}]

Init ==
  /\ objs \in [Keys -> Objects]
  /\ spec \in UserSpecs
  /\ fin = FALSE
  /\ pc = "idle" /\ at = 1 /\ desired = Blank /\ invalid = FALSE
  /\ queued = TRUE /\ resync = FALSE
  /\ sent = [val |-> Unset, tgs |-> <<>>]
  /\ began = Blank /\ seen = NoOffers
  /\ edits = 0 /\ changes = 0 /\ faults = 0

\* Mutant: the next resolution goes on where the last one stopped.
MutRest ==
  /\ pc' = "idle"
  /\ UNCHANGED at
  /\ desired' = Blank
  /\ invalid' = FALSE
  /\ began' = Blank
  /\ seen' = NoOffers

Rest ==
  /\ pc' = "idle"
  /\ at' = 1
  /\ desired' = Blank
  /\ invalid' = FALSE
  /\ began' = Blank
  /\ seen' = NoOffers

\* An error ends the reconcile; the resource is queued again.
GiveUp ==
  /\ Rest
  /\ queued' = TRUE
  /\ UNCHANGED <<objs, spec, fin, resync, sent>>

Fault ==
  /\ faults < MaxFaults
  /\ faults' = faults + 1
  /\ UNCHANGED <<edits, changes>>

\* ResolveReferences is called with s.  What validateReferenceFields answers is
\* kept until the end.
Resolve(s) ==
  /\ pc' = "resolve"
  /\ at' = 1
  /\ desired' = s
  /\ invalid' = ~ReferencesValid(s)
  /\ began' = s
  /\ seen' = Offers

Start ==
  /\ pc = "idle" /\ queued
  /\ queued' = FALSE /\ resync' = FALSE
  /\ Resolve(spec)
  /\ UNCHANGED <<objs, spec, fin, sent, bounds>>

\* The reference that is resolved next.
Current == RefAt(desired, at)

Resolving == pc = "resolve" /\ at <= Count(desired)

Skip ==
  /\ Resolving
  /\ ~HasFrom(Current)
  /\ at' = at + 1
  /\ UNCHANGED <<objs, spec, fin, pc, desired, invalid, queued, resync, sent, began, seen,
                 bounds>>

Take ==
  /\ Resolving
  /\ Current \in NamedRef
  /\ Resolvable(objs[KeyOf(Current)])
  /\ desired' = WithTarget(desired, at, objs[KeyOf(Current)].target)
  /\ at' = at + 1
  /\ UNCHANGED <<objs, spec, fin, pc, invalid, queued, resync, sent, began, seen, bounds>>

\* A reference without a name, or to a resource that is not ready.
Refuse ==
  /\ Resolving
  /\ \/ Current = Unnamed
     \/ Current \in NamedRef /\ ~Resolvable(objs[KeyOf(Current)])
  /\ GiveUp
  /\ UNCHANGED bounds

\* The read of the Kubernetes API fails.
GetFails ==
  /\ Resolving
  /\ Current \in NamedRef
  /\ GiveUp
  /\ Fault

Resolved == pc = "resolve" /\ at > Count(desired)

\* Mutant: the answer of the last resolver hides that of validateReferenceFields.
MutReturn ==
  /\ Resolved
  /\ pc' = IF fin THEN "call" ELSE "manage"
  /\ UNCHANGED <<objs, spec, fin, localVars, queued, resync, sent, bounds>>

\* ResolveReferences returns: the error of the validation comes last.
Return ==
  /\ Resolved
  /\ \/ /\ invalid
        /\ GiveUp
     \/ /\ ~invalid
        /\ pc' = IF fin THEN "call" ELSE "manage"
        /\ UNCHANGED <<objs, spec, fin, localVars, queued, resync, sent>>
  /\ UNCHANGED bounds

\* The finalizer is patched in.  The answer, without the resolved values, is the
\* new working copy, and its references are resolved.
MarkManaged ==
  /\ pc = "manage"
  /\ fin' = TRUE
  /\ Resolve(spec)
  /\ UNCHANGED <<objs, spec, queued, resync, sent, bounds>>

\* Create or Update gets the resolved copy.
Call ==
  /\ pc = "call"
  /\ sent' = [val |-> desired.val, tgs |-> desired.tgs]
  /\ resync' = TRUE
  /\ Rest
  /\ UNCHANGED <<objs, spec, fin, queued, bounds>>

\* The patch or the call fails.
CallFails ==
  /\ pc \in {"manage", "call"}
  /\ GiveUp
  /\ Fault

-----------------------------------------------------------------------------
(***************************************************************************)
(* The queue, the process, the user and the other controllers.             *)
(***************************************************************************)

Resync ==
  /\ pc = "idle" /\ resync /\ ~queued
  /\ resync' = FALSE
  /\ queued' = TRUE
  /\ UNCHANGED <<objs, spec, fin, pc, localVars, sent, bounds>>

Crash ==
  /\ GiveUp
  /\ Fault

Edit ==
  /\ edits < MaxEdits
  /\ edits' = edits + 1
  /\ spec' \in UserSpecs \ {spec}
  /\ queued' = TRUE
  /\ UNCHANGED <<objs, fin, pc, localVars, resync, sent, changes, faults>>

\* Another controller reconciles its resource, or the resource is deleted.  This
\* controller does not watch it.
Change ==
  /\ changes < MaxChanges
  /\ changes' = changes + 1
  /\ \E k \in Keys, o \in Objects :
       /\ o # objs[k]
       /\ objs' = [objs EXCEPT ![k] = o]
       /\ seen' = IF pc = "idle" THEN seen ELSE [seen EXCEPT ![k] = @ \cup Offer(o)]
  /\ UNCHANGED <<spec, fin, pc, at, desired, invalid, queued, resync, sent, began, edits,
                 faults>>

Worker ==
  \/ Start \/ Skip \/ Take \/ Refuse \/ GetFails \/ Return
  \/ MarkManaged \/ Call \/ CallFails

Next == Worker \/ Resync \/ Crash \/ Edit \/ Change

\* A queued resource gets a worker, calls return and the resync timer fires.
Fairness == WF_vars(Worker) /\ WF_vars(Resync)

Spec == Init /\ [][Next]_vars /\ Fairness

-----------------------------------------------------------------------------
(***************************************************************************)
(* Properties.                                                             *)
(***************************************************************************)

Sent == [val : [1 .. NumSlots -> Targets \cup {Nil}], tgs : Seq(Targets)]

\* Every variable has its type, and the resolver stays within the references.
TypeOK ==
  /\ objs \in [Keys -> Object]
  /\ {spec, desired, began} \subseteq SpecSet
  /\ {fin, invalid, queued, resync} \subseteq BOOLEAN
  /\ pc \in {"idle", "resolve", "manage", "call"}
  /\ at \in 1 .. Count(desired) + 1
  /\ sent \in Sent
  /\ seen \in [Keys -> SUBSET Targets]
  /\ edits \in 0 .. MaxEdits /\ changes \in 0 .. MaxChanges /\ faults \in 0 .. MaxFaults

\* The place of the j-th target group reference among those that are resolved.
Rank(s, j) == Cardinality({m \in 1 .. j : HasFrom(s.tgRefs[m])})

\* The values v are those of s with every reference replaced by a target that the
\* resource it names offers: each in its place, no one missing, no one twice.
Filled(s, v, offers) ==
  /\ \A i \in 1 .. NumSlots :
        IF HasFrom(s.ref[i]) THEN v.val[i] \in offers[KeyOf(s.ref[i])]
                             ELSE v.val[i] = s.val[i]
  /\ IF s.tgRefs = <<>>
     THEN v.tgs = s.tgs
     ELSE /\ Len(v.tgs) = Rank(s, Len(s.tgRefs))
          /\ \A j \in 1 .. Len(s.tgRefs) :
                HasFrom(s.tgRefs[j]) => v.tgs[Rank(s, j)] \in offers[KeyOf(s.tgRefs[j])]

(***************************************************************************)
(* What Create and Update are given is a spec in which no field had both a *)
(* reference and a value, with every reference resolved exactly once and   *)
(* in place, to a target that a synced, non-terminal resource has offered  *)
(* since ResolveReferences was called: nothing half resolved by a call     *)
(* that failed, nothing left from the resolution before the finalizer was  *)
(* patched, no target group twice.                                         *)
(***************************************************************************)
HandedOver ==
  pc = "call" => ReferencesValid(began) /\ Filled(began, desired, seen)

(***************************************************************************)
(* Clearing undoes resolving, however far that has come: at every moment   *)
(* ClearResolvedReferences gives what it gives for the spec as it was      *)
(* before the resolution, so that no resolved value is patched into        *)
(* Kubernetes and no other is changed.  That is the spec itself, with all  *)
(* that the user wrote, unless the user wrote a value next to a reference, *)
(* which clearing drops; such a spec never comes as far as the patch of    *)
(* the finalizer or a call, so that the user's value is not lost there.    *)
(***************************************************************************)
ClearRestores ==
  pc # "idle" =>
    /\ ClearResolved(desired) = ClearResolved(began)
    /\ (ReferencesValid(began) \/ pc \in {"manage", "call"}) => ClearResolved(desired) = began

(***************************************************************************)
(* Once the users, the other controllers and the faults pause, the values  *)
(* last handed over are those that the referenced resources offer now,     *)
(* unless the spec is invalid or a referenced resource is not ready.       *)
(***************************************************************************)
CanResolve ==
  /\ ReferencesValid(spec)
  /\ \A i \in 1 .. Count(spec) :
        LET r == RefAt(spec, i) IN
        /\ r # Unnamed
        /\ r \in NamedRef => Resolvable(objs[KeyOf(r)])

Arrives == <>[](CanResolve => Filled(spec, sent, Offers))
=============================================================================
