---------------------------- MODULE MCAssembler ----------------------------
(***************************************************************************)
(* Assemble on every small input: up to two subscriptions, up to one local *)
(* group that may share a subscription's name, every active source, targets*)
(* of every shape the code distinguishes, and a local rule or none.        *)
(***************************************************************************)
EXTENDS AssemblerRun

MCAutoOf(s)    == s \o "-auto"
MCNodeOf(s, n) == s \o ":" \o n
MCTemplate     == << Direct, Reject >>

NodeLists == {<<>>} \union {<<[name |-> n, via |-> v]>> : n \in NodeName, v \in {"", "b"}}
                    \union {<<[name |-> "n", via |-> "m"], [name |-> "m", via |-> "a"]>>}
SubGroups   == [name : {"a", "b"}, nodes : NodeLists, rules : {<<>>, <<"n", "b">>}]
LocalGroups == [name : {"b", "c"}, nodes : NodeLists, rules : {<<>>}]

\* Names within one list are distinct: the store's own operations see to it.
SubLists == {<<>>} \union {<<g>> : g \in SubGroups}
                   \union {<<p[1], p[2]>> : p \in {q \in SubGroups \X SubGroups :
                                                      q[1].name # q[2].name}}
MCInputs ==
    [subs : SubLists, locals : {<<>>} \union {<<g>> : g \in LocalGroups},
     rules : {<<>>, <<"a-auto">>}, active : {"", "a", "b", "c"},
     target : {"", "DIRECT", "a", "b-auto", "a:n"}, mode : {"rule"}]
=============================================================================
