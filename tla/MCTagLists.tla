---------------------------- MODULE MCTagLists ----------------------------
(***************************************************************************)
(* TLC instance of TagLists: two keys of the user's, one of the            *)
(* controller's and an aws: key.                                           *)
(***************************************************************************)
EXTENDS TagLists

MCDefaultTags == [k \in Keys |-> IF k = "d1" THEN "x" ELSE NoTag]

Tag(k, v) == [key |-> k, val |-> v]

MCUserLists ==
  { <<>>,
    \* a key twice, with an entry without key or value between
    <<Tag("u1", "x"), Tag(NoKey, "x"), Tag("u2", NoVal), Tag("u1", "")>>,
    \* a key of the controller's between two of the user's
    <<Tag("u2", "x"), Tag("d1", ""), Tag("u1", NoVal)>>,
    \* a key of AWS's
    <<Tag("aws", "x"), Tag("u2", "x"), Tag("u2", "")>> }
=============================================================================
