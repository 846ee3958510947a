----------------------------- MODULE GroupClaim -----------------------------
(***************************************************************************)
(* What the controller promises about an AWS group and the custom resource *)
(* that stands for it, without saying how: the resource holds a claim on   *)
(* the name (its finalizer), a group of the controller's is created only   *)
(* under the claim, and the claim is given up only when none is left.      *)
(* MarkManaged and MarkUnmanaged (descriptor.go) describe the finalizer in *)
(* these terms.  Reconciler implements it.                                 *)
(***************************************************************************)
VARIABLES
  held,   \* the claim
  have    \* the live group: "none", "ours" or "theirs"

vars == <<held, have>>

Init == held = FALSE /\ have = "none"

Claim == ~held /\ held' = TRUE /\ UNCHANGED have

Provision == held /\ have = "none" /\ have' = "ours" /\ UNCHANGED held

Release == held /\ have # "ours" /\ held' = FALSE /\ UNCHANGED have

\* Somebody else's group comes, whether the name is claimed or not.
Intrude == have = "none" /\ have' = "theirs" /\ UNCHANGED held

\* The group is deleted, by the controller or by somebody else.
Vanish == have # "none" /\ have' = "none" /\ UNCHANGED held

Next == Claim \/ Provision \/ Release \/ Intrude \/ Vanish

Spec == Init /\ [][Next]_vars
=============================================================================
