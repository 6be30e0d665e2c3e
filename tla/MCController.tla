---------------------------- MODULE MCController ----------------------------
(***************************************************************************)
(* Instances of Controller: both streams, or a stream beside the other     *)
(* loops; a group of two members.                                          *)
(***************************************************************************)
EXTENDS Controller

CONSTANTS traffic, connections, proxies

Group(auto, direct, ms) == [auto |-> auto, direct |-> direct, known |-> TRUE, members |-> ms]

MCUsed == {[loops |-> {traffic, connections}, groups |-> {NoGroup}],
           [loops |-> {traffic}, groups |-> {Group(FALSE, FALSE, Member)}],
           [loops |-> {proxies, "logs"}, groups |-> {NoGroup}],
           [loops |-> {"update"}, groups |-> Groups]}
=============================================================================
