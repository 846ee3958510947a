---------------------------- MODULE MCReconciler ----------------------------
(***************************************************************************)
(* TLC instances of Reconciler.  Each .cfg follows the life cycle alone, or *)
(* tags, or a field with a tag, so that the interesting interleavings stay *)
(* small.                                                                  *)
(***************************************************************************)
EXTENDS Reconciler

NoDefaultTags == [k \in Keys |-> NoTag]

TheSpec(f, t) == [f |-> f, t |-> t]

Bare == [f |-> [n \in Fields |-> Nil], t |-> [k \in Keys |-> NoTag]]

\* Life cycle: no field and no tag.
BareSpecs == {Bare}

\* Tags: a user tag, a controller tag and an aws: tag.
TagKeys == {"env", "ack", "aws"}

ControllerTags == [k \in TagKeys |-> IF k = "ack" THEN "v1" ELSE NoTag]

TagSpec(env, ack, aw) ==
  TheSpec(Bare.f, [k \in TagKeys |-> CASE k = "env" -> env [] k = "ack" -> ack [] OTHER -> aw])

TagSpecs == {TagSpec("v1", NoTag, NoTag), TagSpec("v2", NoTag, NoTag),
             TagSpec(NoTag, "v2", NoTag), TagSpec(NoTag, NoTag, "v2")}

TagGroups == {TagSpec("v1", "v1", "v1"), TagSpec("v2", NoTag, "v2"), TagSpec("v1", "v1", NoTag)}

\* A field and a tag, edited together: 9 does not fit, 2 is rejected, and either
\* may come after a tag call that was made.
MixedSpecs ==
  {TheSpec([n \in Fields |-> v], [k \in Keys |-> w]) :
     <<v, w>> \in {<<1, "v1">>, <<3, "v2">>, <<9, "v2">>, <<2, NoTag>>, <<Nil, "v1">>}}

MixedGroups ==
  {TheSpec([n \in Fields |-> v], [k \in Keys |-> w]) : <<v, w>> \in {<<1, "v2">>, <<3, "v1">>}}
=============================================================================
