--------------------------- MODULE MCReferences ---------------------------
(***************************************************************************)
(* TLC instance of References: two fields that hold one reference and up   *)
(* to two target groups, resources of one name in the own and a far        *)
(* namespace.                                                              *)
(***************************************************************************)
EXTENDS References

Named(ns, name) == [ns |-> ns, name |-> name]

A == Named(NoNs, "a")

\* Another one, of the same name.
FarA == Named("far", "a")

Wanting(r1, r2, v2, tgRefs, tgs) ==
  [ref |-> <<r1, r2>>, val |-> <<Nil, v2>>, tgRefs |-> tgRefs, tgs |-> tgs]

MCSpecs ==
  { \* every kind of reference, target groups near and far
    Wanting(A, NoRef, "t1", <<FarA, A>>, <<>>),
    \* no reference at all
    Wanting(NoRef, NoRef, "t2", <<>>, <<"t1", "t1">>),
    \* references without From or without a name
    Wanting(Hollow, A, Nil, <<Hollow, A>>, <<>>),
    Wanting(A, Unnamed, Nil, <<>>, <<>>),
    \* a reference and a value for one field
    Wanting(NoRef, A, "t1", <<>>, <<>>),
    Wanting(NoRef, NoRef, Nil, <<FarA>>, <<"t1">>) }

Ready(t) == [terminal |-> FALSE, synced |-> TRUE, target |-> t]

MCObjects ==
  { Missing, Ready("t1"), Ready("t2"),
    [terminal |-> FALSE, synced |-> FALSE, target |-> "t1"],
    [terminal |-> TRUE, synced |-> TRUE, target |-> "t2"],
    Ready(Nil) }
=============================================================================
