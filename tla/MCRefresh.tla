------------------------------ MODULE MCRefresh ------------------------------
(***************************************************************************)
(* Instances of Refresh.                                                   *)
(***************************************************************************)
EXTENDS Refresh, TLC

CONSTANTS A, B, X, Y

\* One name that may get either URL; the second server never answers in some.
Moving == A :> {X, Y} @@ B :> {}
Both   == A :> {X} @@ B :> {Y}

Play(n, feeds, hung, fails, patient, wander) ==
    [max |-> n, feeds |-> feeds, hung |-> hung, fails |-> fails,
     patient |-> patient, wander |-> wander]

MCScopes == {Play(6, Moving, {}, {"save"}, TRUE, TRUE),
             Play(5, Both, {}, {}, TRUE, FALSE),
             Play(4, Moving, {}, {"save", "file"}, FALSE, TRUE),
             Play(5, Moving, {Y}, {}, FALSE, FALSE),
             Play(4, Both, {}, {"file"}, FALSE, FALSE)}
=============================================================================
