----------------------------- MODULE Assembler -----------------------------
(***************************************************************************)
(* assembler.Assemble: the pure function from vpnkit's state to mihomo's   *)
(* config.yaml.  An input is a record                                      *)
(*   subs     the enabled subscriptions that have a fetched result,        *)
(*   locals   the enabled local-nodes groups,                              *)
(*            both sequences of [name, nodes, rules]: nodes is a function  *)
(*            from slots (positions in the source's list) to [name, via],  *)
(*            via being `dialer-proxy'; rules is the targets of the rules  *)
(*            the source ships (always empty for a local group);           *)
(*   rules    the targets of the user's local rules;                       *)
(*   active, target, mode   as in Store.                                   *)
(* The document keeps what mihomo checks when it loads the file: who is    *)
(* named and who refers to whom.  Its proxies and groups are sets of       *)
(* entries that remember their owner (a position in subs \o locals), so    *)
(* that two entries with one name stay two entries.                        *)
(***************************************************************************)
EXTENDS Store

CONSTANTS
    Template,   \* targets of the embedded template's rules, MATCH stripped
    Slot        \* positions a node may have in its source's list

ASSUME TemplateTargets == Template \in Seq(Helper)
ASSUME SlotsArePositions == Slot \subseteq Nat

NodeTable == UNION {[S -> [name : NodeName, via : Ref \union {""}]] : S \in SUBSET Slot}
Group == [name : Name, nodes : NodeTable, rules : Seq(Ref)]
Input == [subs : Seq(Group), locals : Seq(Group), rules : Seq(Ref),
          active : Name \union {""}, target : Ref \union {""}, mode : Modes]

All(in) == in.subs \o in.locals

NamesOfNodes(g) == {g.nodes[k].name : k \in DOMAIN g.nodes}
NodeRefs(g)     == {NodeOf(g.name, g.nodes[k].name) : k \in DOMAIN g.nodes}

\* emitPair skips a source without nodes, and so must every reference to it.
\* Fault: sources without nodes count.
PopulatedOrNot(in) == DOMAIN All(in)

Populated(in) == {i \in DOMAIN All(in) : DOMAIN All(in)[i].nodes # {}}

-----------------------------------------------------------------------------
(* proxies                                                                 *)

\* Fault: the bare node name.
ProxyNameBare(g, k) == g.nodes[k].name

ProxyName(g, k) == NodeOf(g.name, g.nodes[k].name)

\* Pass 1 of emitProxies: a later source's node overwrites an earlier one's.
Holders(in, n) == {i \in DOMAIN All(in) : n \in NamesOfNodes(All(in)[i])}
Qualified(in, n) ==
    LET last == CHOOSE i \in Holders(in, n) : \A j \in Holders(in, n) : j <= i
    IN  NodeOf(All(in)[last].name, n)

\* Sources without nodes count here.
GroupNames(in) == Reserved \union
    UNION {{All(in)[i].name, AutoOf(All(in)[i].name)} : i \in DOMAIN All(in)}

\* namespaced: a group name wins over a node name; unknown text is left alone.
\* Fault: the text as the feed has it.
DialerBare(in, via) == via

Dialer(in, via) ==
    IF via = "" \/ via \in GroupNames(in) \/ Holders(in, via) = {} THEN via
    ELSE Qualified(in, via)

EmitProxies(in) ==
    UNION {{[owner |-> i, slot |-> k,
             name   |-> ProxyName(All(in)[i], k),
             dialer |-> Dialer(in, All(in)[i].nodes[k].via)]
              : k \in DOMAIN All(in)[i].nodes} : i \in DOMAIN All(in)}

-----------------------------------------------------------------------------
(* proxy-groups                                                            *)

EmitPair(i, g) ==
    {[owner |-> i, name |-> g.name, members |-> {AutoOf(g.name)} \union NodeRefs(g)],
     [owner |-> i, name |-> AutoOf(g.name), members |-> NodeRefs(g)]}

EmitGroups(in) == UNION {EmitPair(i, All(in)[i]) : i \in Populated(in)}

\* firstEnabledSourceName over what Assemble was given.
FirstGiven(in) == IF All(in) = <<>> THEN "" ELSE All(in)[1].name
ActiveOf(in)   == IF in.active = "" THEN FirstGiven(in) ELSE in.active

\* Fault: a listed source is enough, populated or not.
TopProxyMembersForListed(in) ==
    IF \E i \in DOMAIN All(in) : All(in)[i].name = ActiveOf(in)
    THEN << AutoOf(ActiveOf(in)), ActiveOf(in), "DIRECT" >>
    ELSE << "DIRECT" >>

\* Fault: every populated source is a member.
TopProxyMembersForAll(in) ==
    [i \in DOMAIN All(in) |-> IF i \in Populated(in) THEN All(in)[i].name ELSE "DIRECT"]
        \o << "DIRECT" >>

TopProxyMembersFor(in) ==
    IF \E i \in Populated(in) : All(in)[i].name = ActiveOf(in)
    THEN << AutoOf(ActiveOf(in)), ActiveOf(in), "DIRECT" >>
    ELSE << "DIRECT" >>

\* Fault: any target is taken to exist.
GlobalTargetExistsAlways(in, t) == TRUE

GlobalTargetExists(in, t) ==
    \/ t \in Reserved
    \/ \E i \in Populated(in) :
         t \in {All(in)[i].name, AutoOf(All(in)[i].name)} \union NodeRefs(All(in)[i])

WithTargetFirst(list, t) ==
    IF t = Proxy THEN list
    ELSE IF t \in {list[i] : i \in DOMAIN list} THEN
        <<t>> \o RemoveAt(list, CHOOSE i \in DOMAIN list :
                                   list[i] = t /\ \A j \in 1 .. i - 1 : list[j] # t)
    ELSE <<t>> \o list

\* Assemble replaces an empty target by the selector's own name first.
EffectiveTarget(in) == IF in.target = "" THEN Proxy ELSE in.target

TopMembers(in) ==
    IF GlobalTargetExists(in, EffectiveTarget(in))
    THEN WithTargetFirst(TopProxyMembersFor(in), EffectiveTarget(in))
    ELSE TopProxyMembersFor(in)

-----------------------------------------------------------------------------
(* rules                                                                   *)

\* Fault: targets are copied as they are.
RewriteTargetNot(t, g, siblings) == t

RewriteTarget(t, g, siblings) ==
    IF t \in Reserved THEN t
    ELSE IF t \in NamesOfNodes(g) THEN NodeOf(g.name, t)
    ELSE IF t \in siblings THEN t
    ELSE g.name

\* The first subscription of that name; a local group's name finds none.
PickActiveSubRules(in) ==
    LET named    == {i \in DOMAIN in.subs : in.subs[i].name = ActiveOf(in)}
        g        == in.subs[CHOOSE i \in named : \A j \in named : i <= j]
        siblings == {in.subs[i].name : i \in DOMAIN in.subs}
    IN  IF ActiveOf(in) = "" \/ named = {} THEN <<>>
        ELSE [k \in DOMAIN g.rules |-> RewriteTarget(g.rules[k], g, siblings)]

\* Fault: the active source's rules in place of the local ones.
EmitRulesOfOne(in) ==
    CASE in.mode = "global" -> << Proxy >>
      [] in.mode = "direct" -> << Direct >>
      [] PickActiveSubRules(in) # <<>> -> PickActiveSubRules(in) \o << Proxy >>
      [] OTHER -> in.rules \o Template \o << Proxy >>

EmitRules(in) ==
    CASE in.mode = "global" -> << Proxy >>
      [] in.mode = "direct" -> << Direct >>
      [] OTHER -> in.rules
                    \o (IF PickActiveSubRules(in) # <<>> THEN PickActiveSubRules(in)
                                                         ELSE Template)
                    \o << Proxy >>

-----------------------------------------------------------------------------
Assemble(in) == [proxies |-> EmitProxies(in),
                 groups  |-> EmitGroups(in),
                 top     |-> TopMembers(in),
                 rules   |-> EmitRules(in)]

(***************************************************************************)
(* What mihomo requires of a document before it loads it.                  *)
(***************************************************************************)
Policies(doc) == Reserved \union {p.name : p \in doc.proxies}
                          \union {g.name : g \in doc.groups}

Elements(list) == {list[i] : i \in DOMAIN list}

\* The selector every MATCH rule ends in offers only policies that exist, and
\* never itself ("loop is detected in ProxyGroup", proxy_groups.go).
TopClosed(doc) == Elements(doc.top) \subseteq Policies(doc) \ {Proxy}

\* Every member of every other group is an emitted proxy or group.
GroupsClosed(doc) == \A g \in doc.groups :
    g.members # {} /\ g.members \subseteq Policies(doc)

RulesClosed(doc) == Elements(doc.rules) \subseteq Policies(doc)

\* No two entries carry one name.
NamesUnique(doc) ==
    /\ \A p, q \in doc.proxies : p.name = q.name => p = q
    /\ \A g, h \in doc.groups : g.name = h.name => g = h
    /\ \A p \in doc.proxies, g \in doc.groups : p.name # g.name
=============================================================================
