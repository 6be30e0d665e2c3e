----------------------------- MODULE MCPipeline -----------------------------
(***************************************************************************)
(* Instances of Pipeline.  Two source names are enough for a stale name, a *)
(* fallback and a collision; each scope enables the verbs of one family.   *)
(***************************************************************************)
EXTENDS Pipeline

MCAutoOf(s)    == s \o "-auto"
MCNodeOf(s, n) == s \o ":" \o n
MCTemplate     == << Reject >>

\* An empty feed, and one with a node and a rule for a group of its own.
EmptyResult == [nodes |-> <<>>, rules |-> <<>>]
GoodResult  == [nodes |-> <<[name |-> "n", via |-> ""]>>, rules |-> <<"m">>]
MCResults   == {EmptyResult, GoodResult}
MCGoodOnly  == {GoodResult}

\* A new install; an rc.2 store with an ungrouped node and the self-loop target.
MCFirstDisks == {Defaults,
                 [Defaults EXCEPT !.nodes = <<[name |-> "n", group |-> "", via |-> ""]>>,
                                  !.target = Proxy]}
MCNewInstall == {Defaults}

\* CLI verbs on subscriptions, groups, the active source and the cache.
SourceVerbs ==
    [sources |-> {"a", "b"}, vias |-> {""}, results |-> MCResults, disks |-> MCFirstDisks,
     verbs   |-> {"add-sub", "rm-sub", "set-sub", "update",
                  "add-group", "rm-group", "set-group", "active"},
     fronts  |-> {"cli"}, failing |-> FALSE, nodes |-> 1, rules |-> 0]

\* CLI verbs on groups and their nodes, renames included.
NodeVerbs ==
    [sources |-> {"a", "b"}, vias |-> {"", "a"}, results |-> MCGoodOnly, disks |-> MCFirstDisks,
     verbs   |-> {"add-group", "rm-group", "add-node", "rm-node", "edit-node", "rename"},
     fronts  |-> {"cli"}, failing |-> FALSE, nodes |-> 2, rules |-> 0]

\* Sessions and verbs on subscriptions, active source and target, failing I/O.
FailingIO ==
    [sources |-> {"a", "b"}, vias |-> {""}, results |-> MCGoodOnly, disks |-> MCNewInstall,
     verbs   |-> {"add-sub", "rm-sub", "update", "active", "target"},
     fronts  |-> {"cli", "tui"}, failing |-> TRUE, nodes |-> 0, rules |-> 0]

\* Sessions and CLI verbs in turn, on one source name that both kinds use.
OneName ==
    [sources |-> {"a"}, vias |-> {""}, results |-> MCGoodOnly, disks |-> MCNewInstall,
     verbs   |-> {"add-sub", "rm-sub", "set-sub", "update", "add-group", "set-group",
                  "rm-group", "add-node", "mv-node", "rm-node", "mode", "add-rule", "rm-rule"},
     fronts  |-> {"cli", "tui"}, failing |-> FALSE, nodes |-> 1, rules |-> 1]

MCVerbs    == {SourceVerbs, NodeVerbs}
MCSessions == {FailingIO, OneName}
=============================================================================
