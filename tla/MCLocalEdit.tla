----------------------------- MODULE MCLocalEdit -----------------------------
(***************************************************************************)
(* Instances of LocalEdit: two groups, one of them active, and lists that  *)
(* start empty or with one node in the active group.  The CLI, which knows *)
(* a node by group and name, may leave two nodes of one name: MCTwins, for *)
(* the variation the README describes.                                     *)
(***************************************************************************)
EXTENDS LocalEdit

MCStart == {<<>>, <<[name |-> "n", group |-> "a"]>>}
MCTwins == {<<[name |-> "n", group |-> "a"], [name |-> "n", group |-> "b"]>>}

\* A user who waits for each change to be applied; two groups.
Waiting == [groups |-> <<"a", "b">>, starts |-> MCStart, edits |-> 3,
            patient |-> TRUE, failing |-> FALSE]

\* A user who goes on while changes are applied; writes may fail.
Hurried == [groups |-> <<"a">>, starts |-> MCStart, edits |-> 3,
            patient |-> FALSE, failing |-> TRUE]

MCUsers == {Waiting, Hurried}
=============================================================================
