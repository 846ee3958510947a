----------------------------- MODULE TagLists -----------------------------
(***************************************************************************)
(* The tags of a resource as the code holds them: lists of entries whose   *)
(* key and value may be missing and whose keys may repeat (tags.go).       *)
(* Every function takes the list apart into a map and the order of its     *)
(* keys, changes the map, and makes a list again: the keys of the order    *)
(* first, the others in whatever order Go ranges over the map.             *)
(*                                                                         *)
(* The rounds are those of TagMaps.  When the runtime calls EnsureTags and *)
(* FilterSystemTags is external.                                           *)
(***************************************************************************)
EXTENDS TagOps, Integers, SequencesExt

CONSTANTS
  NoKey, NoVal,  \* an entry without key or value
  Empty,         \* the empty string
  UserLists,     \* the tag lists that users write
  MaxChanges     \* bound on the edits and the changes by other clients

Entry == [key : Keys \cup {NoKey}, val : TagVals \cup {NoVal}]

ASSUME TagListAssumptions ==
  /\ NoKey \notin Keys /\ NoVal \notin TagVals /\ NoVal # NoTag
  /\ Empty \in TagVals
  /\ IsFiniteSet(Keys)   \* AWS bounds the length of a key
  /\ UserLists \subseteq Seq(Entry)
  /\ MaxChanges \in Nat

-----------------------------------------------------------------------------
(***************************************************************************)
(* convertToOrderedACKTags and fromACKTags.                                *)
(***************************************************************************)

\* Mutant: an entry without value keeps none.
MutValueOf(e) == e.val

ValueOf(e) == IF e.val = NoVal THEN Empty ELSE e.val

Places(l, k) == {i \in 1 .. Len(l) : l[i].key = k}

\* The map: the last entry of a key wins.
ToMap(l) ==
  [k \in Keys |-> IF Places(l, k) = {} THEN NoTag ELSE ValueOf(l[Max(Places(l, k))])]

\* The elements of s at the places I, in the order of s: the n-th of them is where
\* n of the places are behind or reached.
At(s, I) ==
  [n \in 1 .. Cardinality(I) |-> s[CHOOSE i \in I : Cardinality({j \in I : j <= i}) = n]]

\* Mutant: the order of the list is lost.
MutKeyOrder(l) == <<>>

\* The order: the keys as they come, repeated ones included.
KeyOrder(l) ==
  At([i \in 1 .. Len(l) |-> l[i].key], {i \in 1 .. Len(l) : l[i].key # NoKey})

\* The places of a sequence whose element did not come before.
Firsts(s) == {i \in 1 .. Len(s) : \A j \in 1 .. i - 1 : s[j] # s[i]}

\* Mutant: a key stays in the map after it is taken.
MutTaken(m, order) == At(order, {i \in 1 .. Len(order) : m[order[i]] # NoTag})

\* The keys that fromACKTags takes in order: each once, if the map has it.
Taken(m, order) == At(order, {i \in Firsts(order) : m[order[i]] # NoTag})

\* Mutant: the keys outside the order are forgotten.
MutFromMap(m, order) ==
  LET ks == Taken(m, order) IN
  {[i \in 1 .. Len(ks) |-> [key |-> ks[i], val |-> m[ks[i]]]]}

\* The lists that fromACKTags may return.
FromMap(m, order) ==
  LET taken  == Taken(m, order)
      others == {k \in Keys : m[k] # NoTag} \ ToSet(taken)
  IN  {[i \in 1 .. Len(ks) |-> [key |-> ks[i], val |-> m[ks[i]]]] :
         ks \in {taken \o rest : rest \in SetToSeqs(others)}}

-----------------------------------------------------------------------------
VARIABLES
  spec,     \* the tag list of the custom resource
  work,     \* the tag list of the working copy
  latest,   \* the tag list read from AWS
  group,    \* the tags of the group, a map
  pc,       \* what was done last
  changes   \* edits and changes by other clients so far

vars == <<spec, work, latest, group, pc, changes>>

Init ==
  /\ spec \in UserLists
  /\ work = <<>> /\ latest = <<>> /\ group = NoTags
  /\ pc = "start"
  /\ changes = 0

\* EnsureTags
Ensure ==
  /\ pc = "start"
  /\ work' \in FromMap(EnsureTags(ToMap(spec)), KeyOrder(spec))
  /\ pc' = "ensured"
  /\ UNCHANGED <<spec, latest, group, changes>>

\* Mutant: the aws: tags are not mirrored.
MutRead ==
  /\ pc = "ensured"
  /\ latest' \in FromMap(group, <<>>)
  /\ pc' = "read"
  /\ UNCHANGED <<spec, work, group, changes>>

\* ReadOne: AWS lists the tags in any order; mirrorAWSTags.
Read ==
  /\ pc = "ensured"
  /\ latest' \in FromMap(group, <<>>)
  /\ work' \in FromMap(SyncAWSTags(ToMap(work), ToMap(latest')), KeyOrder(work))
  /\ pc' = "read"
  /\ UNCHANGED <<spec, group, changes>>

\* Tags: both lists as maps, and the two calls.  That they fail one by one is in
\* Reconciler.
Sync ==
  /\ pc = "read"
  /\ group' = SyncTags(group, ToMap(work), ToMap(latest))
  /\ pc' = "synced"
  /\ UNCHANGED <<spec, work, latest, changes>>

\* FilterSystemTags
Filter ==
  /\ pc = "synced"
  /\ work' \in FromMap(IgnoreSystemTags(ToMap(work)), KeyOrder(work))
  /\ pc' = "filtered"
  /\ UNCHANGED <<spec, latest, group, changes>>

\* The reconcile ends; the next one starts from the spec again.
Rest ==
  /\ pc = "filtered"
  /\ work' = <<>> /\ latest' = <<>>
  /\ pc' = "start"
  /\ UNCHANGED <<spec, group, changes>>

Edit ==
  /\ pc = "start"
  /\ changes < MaxChanges
  /\ changes' = changes + 1
  /\ spec' \in UserLists \ {spec}
  /\ UNCHANGED <<work, latest, group, pc>>

Outside ==
  /\ changes < MaxChanges
  /\ changes' = changes + 1
  /\ \E k \in Keys, v \in TagVals \cup {NoTag} :
       /\ v # group[k]
       /\ group' = [group EXCEPT ![k] = v]
  /\ UNCHANGED <<spec, work, latest, pc>>

Worker == Ensure \/ Read \/ Sync \/ Filter \/ Rest

Next == Worker \/ Edit \/ Outside

\* A reconcile goes on, and the resync period starts the next.
Spec == Init /\ [][Next]_vars /\ WF_vars(Worker)

-----------------------------------------------------------------------------
(***************************************************************************)
(* Properties.                                                             *)
(***************************************************************************)

\* The variables have their types, and a list that the controller makes has
\* neither an entry without key nor one without value.
TypeOK ==
  /\ spec \in Seq(Entry)
  /\ {work, latest} \subseteq Seq([key : Keys, val : TagVals])
  /\ group \in TagMap
  /\ pc \in {"start", "ensured", "read", "synced", "filtered"}
  /\ changes \in 0 .. MaxChanges

\* A list that the controller makes names no key twice, whatever the user wrote:
\* fromACKTags deletes the key that it takes from the map.
NoDuplicates == IsInjective(KeyOrder(work)) /\ IsInjective(KeyOrder(latest))

\* The tags of a list that are the user's to manage: each key where it first comes,
\* with the value that it has last.
Managed(l) ==
  LET last(k) == l[Max(Places(l, k))]
      tags == [i \in 1 .. Len(l) |->
                 [key |-> l[i].key,
                  val |-> IF last(l[i].key).val = NoVal THEN Empty ELSE last(l[i].key).val]]
  IN  At(tags, {i \in 1 .. Len(l) :
                  /\ l[i].key \notin AwsKeys \cup SystemKeys \cup {NoKey}
                  /\ \A j \in 1 .. i - 1 : l[j].key # l[i].key})

(***************************************************************************)
(* EnsureTags, mirrorAWSTags and FilterSystemTags together give back the   *)
(* user's own tags, in the user's order and with nothing added, although   *)
(* each of them passes the tags through a map: what is patched into the    *)
(* spec is what the user wrote.                                            *)
(***************************************************************************)
RoundTrip == pc = "filtered" => work = Managed(spec)

(***************************************************************************)
(* The order of the lists, repeated keys and missing values make no        *)
(* difference to the tags: the lists implement the maps of TagMaps, on     *)
(* which Reconciler and its proofs rest.                                   *)
(***************************************************************************)
Maps == INSTANCE TagMaps WITH
          SpecMaps <- {ToMap(l) : l \in UserLists},
          spec <- ToMap(spec), work <- ToMap(work), latest <- ToMap(latest)

ImplementsMaps == Maps!Spec

\* The group has the tags that the spec asks for.
Settled == SyncAWSTags(EnsureTags(ToMap(spec)), group) = group

(***************************************************************************)
(* If nobody else changes the group between the read and the tag calls,    *)
(* and no aws: tag is to be written, which AWS refuses, the calls of Tags  *)
(* settle the tags, whatever was there: one round is enough.               *)
(***************************************************************************)
SyncSettles ==
  [][pc # "synced" /\ pc' = "synced" /\ group = ToMap(latest)
     /\ ToAdd(ToMap(work), ToMap(latest)) \cap AwsKeys = {} => Settled']_vars

(***************************************************************************)
(* While the tags are settled no step of the controller changes them, even *)
(* if it works on an older read, and a read finds no difference to update. *)
(***************************************************************************)
SettledStays ==
  [][pc' # pc /\ Settled =>
       group' = group /\ (pc' = "read" => ToMap(work') = ToMap(latest'))]_vars

(***************************************************************************)
(* Once nobody changes the tags any more, a round finds no difference and  *)
(* makes no tag call, unless the user wrote an aws: tag: neither the order *)
(* in which Go ranges over a map nor that of AWS's answer starts another   *)
(* update.                                                                 *)
(***************************************************************************)
Quiet ==
  <>[](pc = "read" /\ (\A k \in AwsKeys : Places(spec, k) = {})
         => ToMap(work) = ToMap(latest))
=============================================================================
