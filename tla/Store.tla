------------------------------- MODULE Store -------------------------------
(***************************************************************************)
(* The routing part of store.Config and every operation the code performs  *)
(* on it.  This module has no variables: each operator takes a             *)
(* configuration and returns the configuration the code leaves behind, and *)
(* its guard, where the code can refuse, is the Can... operator beside it. *)
(* Pipeline.tla gives the operations a disk, sessions and failures.        *)
(*                                                                         *)
(* A configuration is a record                                             *)
(*   subs, groups  the subscriptions and the local-nodes groups, sequences *)
(*                 of [name, on], `on' being the Enabled flag;             *)
(*   nodes         the local nodes, a sequence of [name, group, via];      *)
(*   rules         the targets of the local rules, in order;               *)
(*   active        ActiveSource, "" when none is set;                      *)
(*   target        GlobalTarget, "" when none is set;                      *)
(*   mode          the routing mode.                                       *)
(* Ports, credentials, URLs and rule payloads never decide which source or *)
(* node is routed to; they are left out.                                   *)
(***************************************************************************)
EXTENDS Naturals, Sequences, SequencesExt, FiniteSets

CONSTANTS
    Name,           \* names a source or a group of nodes may have
    NodeName,       \* names a proxy node may have
    AutoOf(_),      \* AutoOf(s) is the text "<s>-auto"
    NodeOf(_, _)    \* NodeOf(s, n) is the text "<s>:<n>"

\* The policies vpnkit emits in every config.yaml, and those mihomo builds in.
Proxy  == "Proxy"       \* the top-level selector, "rocket Proxy"
Direct == "Direct"      \* the helper selector, "bullseye Direct"
Reject == "Reject"      \* the helper selector, "stop Reject"
BuiltIn  == {"DIRECT", "REJECT"}
Helper   == {Proxy, Direct, Reject}
Reserved == BuiltIn \union Helper

DefaultGroup == "local"
Modes == {"rule", "global", "direct"}

\* Every text that can stand where mihomo expects the name of a policy.
Ref == Name \union NodeName \union Reserved \union {AutoOf(s) : s \in Name}
            \union {NodeOf(s, n) : s \in Name, n \in NodeName}

\* sources.ValidateName and ValidateNodeName keep names non-empty, off the
\* reserved words and free of ":", and "-auto" can be stripped only one way.
ASSUME NamesAreTexts ==
    /\ "" \notin Ref
    /\ DefaultGroup \in Name
    /\ Name \intersect Reserved = {}
    /\ \A s \in Name : AutoOf(s) \notin Reserved
    /\ \A s, t \in Name : AutoOf(s) = AutoOf(t) => s = t
    /\ \A s \in Name, n \in NodeName : NodeOf(s, n) \notin Reserved \union Name
    /\ \A s, t \in Name, n \in NodeName : NodeOf(s, n) # AutoOf(t)
    /\ \A s, t \in Name, n, m \in NodeName : NodeOf(s, n) = NodeOf(t, m) => s = t /\ n = m

Source == [name : Name, on : BOOLEAN]
Node   == [name : NodeName, group : Name \union {""}, via : Ref \union {""}]
Config == [subs : Seq(Source), groups : Seq(Source), nodes : Seq(Node),
           rules : Seq(Ref), active : Name \union {""},
           target : Ref \union {""}, mode : Modes]

-----------------------------------------------------------------------------
(* Reading a configuration.                                                *)

NamesIn(list)   == {list[i].name : i \in DOMAIN list}
OnIndices(list) == {i \in DOMAIN list : list[i].on}
EnabledIn(list) == {list[i].name : i \in OnIndices(list)}
IndexOf(list, s) ==
    CHOOSE i \in DOMAIN list : list[i].name = s /\ \A j \in 1 .. i - 1 : list[j].name # s

\* The elements of a list at the given places, in their order.
InOrder(places) ==
    CHOOSE f \in [1 .. Cardinality(places) -> places] :
        \A i, j \in DOMAIN f : i < j => f[i] < f[j]
Filtered(list, places) ==
    LET f == InOrder(places) IN [k \in 1 .. Cardinality(places) |-> list[f[k]]]

Sources(cfg) == NamesIn(cfg.subs) \union NamesIn(cfg.groups)
Enabled(cfg) == EnabledIn(cfg.subs) \union EnabledIn(cfg.groups)

FirstOn(list) ==
    list[CHOOSE i \in OnIndices(list) : \A j \in OnIndices(list) : i <= j].name

\* firstEnabledProxySource, and its twin firstProxySource in package app:
\* subscriptions before groups, each in insertion order.
FirstEnabled(cfg) ==
    IF OnIndices(cfg.subs) # {} THEN FirstOn(cfg.subs)
    ELSE IF OnIndices(cfg.groups) # {} THEN FirstOn(cfg.groups)
    ELSE ""

\* deriveActiveFromGlobalTarget followed by sourceExists: the enabled source
\* whose url-test group the target names, "" if there is none.
DerivedActive(cfg) ==
    IF \E s \in Enabled(cfg) : cfg.target = AutoOf(s)
    THEN CHOOSE s \in Enabled(cfg) : cfg.target = AutoOf(s)
    ELSE ""

-----------------------------------------------------------------------------
(* store.Load: the fields it fills in or repairs, in the order it does so. *)
(* Load saves the result when it differs from what was read.               *)

ResetTarget(cfg) ==
    IF cfg.target \in {"", Proxy} THEN [cfg EXCEPT !.target = "DIRECT"] ELSE cfg

GroupOrphans(cfg) ==
    LET bare    == {i \in DOMAIN cfg.nodes : cfg.nodes[i].group = ""}
        grouped == [i \in DOMAIN cfg.nodes |->
                      IF i \in bare THEN [cfg.nodes[i] EXCEPT !.group = DefaultGroup]
                                    ELSE cfg.nodes[i]]
        created == IF bare = {} \/ DefaultGroup \in NamesIn(cfg.groups) THEN <<>>
                   ELSE << [name |-> DefaultGroup, on |-> TRUE] >>
    IN  [cfg EXCEPT !.nodes = grouped, !.groups = @ \o created]

BumpTarget(cfg) ==
    IF cfg.target = "DIRECT" /\ FirstEnabled(cfg) # ""
    THEN [cfg EXCEPT !.target = AutoOf(FirstEnabled(cfg))]
    ELSE cfg

\* Fault: takes the target's text, "-auto" and all, for the active source.
DeriveActiveUnstripped(cfg) ==
    IF cfg.active = "" /\ DerivedActive(cfg) # "" THEN [cfg EXCEPT !.active = cfg.target]
    ELSE cfg

DeriveActive(cfg) ==
    IF cfg.active # "" THEN cfg
    ELSE IF DerivedActive(cfg) # "" THEN [cfg EXCEPT !.active = DerivedActive(cfg)]
    ELSE [cfg EXCEPT !.active = FirstEnabled(cfg)]

Load(cfg) == DeriveActive(BumpTarget(GroupOrphans(ResetTarget(cfg))))

\* store.defaults: what Load writes when there is no config.toml.
Defaults == [subs |-> <<>>, groups |-> <<>>, nodes |-> <<>>, rules |-> <<>>,
             active |-> "", target |-> "DIRECT", mode |-> "rule"]

-----------------------------------------------------------------------------
(* Subscriptions.                                                          *)

Append1(list, s, on) == Append(list, [name |-> s, on |-> on])
SetOn(list, s, on)   == [list EXCEPT ![IndexOf(list, s)].on = on]
IsOn(list, s)        == list[IndexOf(list, s)].on
Drop(list, s)        == RemoveAt(list, IndexOf(list, s))

\* The two nudges a new source gives, after it has been appended.
NudgeTarget(cfg, s) ==
    IF cfg.target = "DIRECT" /\ FirstEnabled(cfg) = s
    THEN [cfg EXCEPT !.target = AutoOf(s)] ELSE cfg
NudgeActive(cfg, s) == IF cfg.active = "" THEN [cfg EXCEPT !.active = s] ELSE cfg
\* Fault: does not forget the active source.
ClearActiveNot(cfg, s) == cfg

ClearActive(cfg, s) == IF cfg.active = s THEN [cfg EXCEPT !.active = ""] ELSE cfg

\* Pipeline.AddSubscription, the terminal UI's path (it always adds enabled).
CanAddSubscription(cfg, s) == s \notin NamesIn(cfg.subs)
AddSubscription(cfg, s) ==
    NudgeActive(NudgeTarget([cfg EXCEPT !.subs = Append1(@, s, TRUE)], s), s)

\* `vpnkit subs add': checks the groups too, and nudges nothing.
\* Fault: looks among the subscriptions only.
CanRunSubsAddAnyGroup(cfg, s) == s \notin NamesIn(cfg.subs)

CanRunSubsAdd(cfg, s) == s \notin Sources(cfg)
RunSubsAdd(cfg, s) == [cfg EXCEPT !.subs = Append1(@, s, TRUE)]

CanDeleteSubscription(cfg, s) == s \in NamesIn(cfg.subs)
\* Fault: leaves the global target alone.
DeleteSubscriptionOnly(cfg, s) == ClearActive([cfg EXCEPT !.subs = Drop(@, s)], s)

DeleteSubscription(cfg, s) ==
    LET c == ClearActive([cfg EXCEPT !.subs = Drop(@, s)], s)
    IN  IF c.target \in {s, AutoOf(s)} THEN [c EXCEPT !.target = ""] ELSE c

\* SetSubscriptionEnabled; ToggleSubscriptionEnabled sets the opposite value.
SetSubscriptionEnabled(cfg, s, on) ==
    LET c == [cfg EXCEPT !.subs = SetOn(@, s, on)]
    IN  IF on THEN c ELSE ClearActive(c, s)

-----------------------------------------------------------------------------
(* Local-nodes groups and the nodes in them.                               *)

CanAddLocalGroup(cfg, g) == g \notin NamesIn(cfg.groups)
AddLocalGroup(cfg, g) ==
    NudgeActive(NudgeTarget([cfg EXCEPT !.groups = Append1(@, g, TRUE)], g), g)

NodesOf(cfg, g) == {i \in DOMAIN cfg.nodes : cfg.nodes[i].group = g}
HasNode(cfg, g, n) == \E i \in NodesOf(cfg, g) : cfg.nodes[i].name = n

CanDeleteLocalGroup(cfg, g, force) ==
    g \in NamesIn(cfg.groups) /\ (force \/ NodesOf(cfg, g) = {})
\* Fault: a forced removal leaves the group's nodes behind.
DeleteLocalGroupOnly(cfg, g, force) == ClearActive([cfg EXCEPT !.groups = Drop(@, g)], g)

DeleteLocalGroup(cfg, g, force) ==
    LET kept == IF force THEN Filtered(cfg.nodes, DOMAIN cfg.nodes \ NodesOf(cfg, g)) ELSE cfg.nodes
    IN  ClearActive([cfg EXCEPT !.groups = Drop(@, g), !.nodes = kept], g)

\* ToggleLocalGroupEnabled, which `enable' and `disable' call when the flag differs.
ToggleLocalGroupEnabled(cfg, g) ==
    LET c == [cfg EXCEPT !.groups = SetOn(@, g, ~IsOn(@, g))]
    IN  IF IsOn(c.groups, g) THEN c ELSE ClearActive(c, g)

CanRenameLocalGroup(cfg, g, h) ==
    g \in NamesIn(cfg.groups) /\ h \notin Sources(cfg)
RenameLocalGroup(cfg, g, h) ==
    [cfg EXCEPT !.groups[IndexOf(cfg.groups, g)].name = h,
                !.nodes = [i \in DOMAIN @ |->
                    IF i \in NodesOf(cfg, g) THEN [@[i] EXCEPT !.group = h] ELSE @[i]]]

NewNode(n, g, via) == [name |-> n, group |-> g, via |-> via]

\* `vpnkit local-nodes add': creates the group when it does not exist.
\* Fault: no look for a node of that name in the group.
CanCliAddNodeAlways(cfg, g, n) == TRUE

CanCliAddNode(cfg, g, n) == ~HasNode(cfg, g, n)
CliAddNode(cfg, g, n, via) ==
    [cfg EXCEPT !.nodes = Append(@, NewNode(n, g, via)),
                !.groups = IF g \in NamesIn(@) THEN @ ELSE Append1(@, g, TRUE)]

\* `vpnkit local-nodes rm': every node with that group and name goes.
CliRemoveNode(cfg, g, n) ==
    LET kept == {i \in DOMAIN cfg.nodes : cfg.nodes[i].group # g \/ cfg.nodes[i].name # n}
    IN  [cfg EXCEPT !.nodes = Filtered(@, kept)]

\* `vpnkit local-nodes mv': the first node with that group and name moves.
FirstNode(cfg, g, n) ==
    CHOOSE i \in NodesOf(cfg, g) : cfg.nodes[i].name = n
        /\ \A j \in NodesOf(cfg, g) : cfg.nodes[j].name = n => i <= j
CanMoveNode(cfg, g, n, h) == HasNode(cfg, g, n) /\ h \in NamesIn(cfg.groups)
MoveNode(cfg, g, n, h) == [cfg EXCEPT !.nodes[FirstNode(cfg, g, n)].group = h]

\* `vpnkit local-nodes edit' of group, name and via, the keys in either order
\* and each checked when its turn comes; h = g and m = n stand for no such key.
\* Fault: no look for the new name in the node's group.
CanEditNodeAnyName(cfg, g, n, h, m) == HasNode(cfg, g, n) /\ h \in NamesIn(cfg.groups)

CanEditNode(cfg, g, n, h, m) ==
    /\ HasNode(cfg, g, n)
    /\ h = g \/ h \in NamesIn(cfg.groups)
    /\ \/ (m = n \/ ~HasNode(cfg, g, m)) /\ (h = g \/ ~HasNode(cfg, h, m))
       \/ (h = g \/ ~HasNode(cfg, h, n)) /\ (m = n \/ ~HasNode(cfg, h, m))
EditNode(cfg, g, n, h, m, via) ==
    [cfg EXCEPT !.nodes[FirstNode(cfg, g, n)] = NewNode(m, h, via)]

-----------------------------------------------------------------------------
(* Rules, target, active source and mode.                                  *)

\* The source a target is checked against: "-auto" stripped, or the part
\* before ":"; whether the node exists is not looked at.
BaseOf(t) ==
    IF \E s \in Name : t = AutoOf(s) THEN CHOOSE s \in Name : t = AutoOf(s)
    ELSE IF \E s \in Name, n \in NodeName : t = NodeOf(s, n)
         THEN CHOOSE s \in Name : \E n \in NodeName : t = NodeOf(s, n)
    ELSE t

\* validateTarget looks among the subscriptions first, then among the groups.
ValidTarget(cfg, t) ==
    \/ t \in BuiltIn
    \/ LET s == BaseOf(t)
       IN  \/ s \in NamesIn(cfg.subs) /\ IsOn(cfg.subs, s)
           \/ s \notin NamesIn(cfg.subs) /\ s \in NamesIn(cfg.groups) /\ IsOn(cfg.groups, s)

SetTarget(cfg, t) == [cfg EXCEPT !.target = t]

CanSetActiveSource(cfg, s) == s \in Enabled(cfg)
SetActiveSource(cfg, s) == [cfg EXCEPT !.active = s, !.target = AutoOf(s)]

SetMode(cfg, m) == [cfg EXCEPT !.mode = m]

AddRule(cfg, t) == [cfg EXCEPT !.rules = Append(@, t)]
RemoveRule(cfg, i) == [cfg EXCEPT !.rules = RemoveAt(@, i)]
=============================================================================
