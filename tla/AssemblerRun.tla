---------------------------- MODULE AssemblerRun ----------------------------
(***************************************************************************)
(* One call of Assemble on an arbitrary input, and what the document it    *)
(* returns promises mihomo.  The source's callers establish little about   *)
(* the input (Pipeline.tla says what), so the promises are stated for      *)
(* every input, or under the weakest condition the code needs.             *)
(***************************************************************************)
EXTENDS Assembler

CONSTANT Inputs     \* the inputs Assemble may be called with

ASSUME InputsTyped == Inputs \subseteq Input

VARIABLES input, output
callVars == <<input, output>>

NoOutput == [proxies |-> {}, groups |-> {}, top |-> <<>>, rules |-> <<>>]

CallInit == input \in Inputs /\ output = NoOutput
Call == output = NoOutput /\ output' = Assemble(input) /\ UNCHANGED input
CallSpec == CallInit /\ [][Call]_callVars

Returned == output # NoOutput

-----------------------------------------------------------------------------
(* The top-level selector is never empty, never contains itself and never  *)
(* names a policy the document does not define, however stale the active   *)
(* source and the global target are (topProxyMembersFor,                   *)
(* globalTargetExists, withTargetFirst).                                   *)
TopIsClosed == Returned => output.top # <<>> /\ TopClosed(output)

(* Every source group has members, and each is emitted in this document    *)
(* (emitPair skips a source without nodes).                                *)
GroupsAreClosed == Returned => GroupsClosed(output)

(* When the top-level selector's default is left alone, or names the       *)
(* active source, nothing but that source and DIRECT can be chosen in it   *)
(* (topProxyMembersFor).                                                   *)
OwnTarget == \/ EffectiveTarget(input) \in {Proxy, ActiveOf(input), "DIRECT"}
             \/ EffectiveTarget(input) = AutoOf(ActiveOf(input))
TopIsActive == Returned /\ OwnTarget =>
    Elements(output.top) \subseteq {AutoOf(ActiveOf(input)), ActiveOf(input), "DIRECT"}

(* A `via' that names a node some given source has, a populated source or  *)
(* a reserved policy is emitted as a dialer-proxy mihomo can resolve       *)
(* (the two passes of emitProxies).                                        *)
Resolvable(via) ==
    \/ via \in Reserved
    \/ \E i \in Populated(input) :
         via \in {All(input)[i].name, AutoOf(All(input)[i].name)}
    \/ via \notin GroupNames(input) /\ Holders(input, via) # {}
DialersResolve == Returned => \A p \in output.proxies :
    LET via == All(input)[p.owner].nodes[p.slot].via
    IN  Resolvable(via) => p.dialer \in Policies(output)

(* When no two sources share a name, no source is named like another one's *)
(* url-test group and no source has two nodes of one name, no two entries  *)
(* of the document do: the namespacing of nodes is enough to keep nodes of *)
(* different sources apart (emitProxies).                                  *)
SourcesDistinct ==
    /\ \A i, j \in DOMAIN All(input) :
         /\ All(input)[i].name = All(input)[j].name => i = j
         /\ All(input)[i].name # AutoOf(All(input)[j].name)
    /\ \A i \in DOMAIN All(input) : \A k, l \in DOMAIN All(input)[i].nodes :
         All(input)[i].nodes[k].name = All(input)[i].nodes[l].name => k = l
NamesAreUnique == Returned /\ SourcesDistinct => NamesUnique(output)

(* If the local rules aim at policies of the document and every given      *)
(* subscription has nodes, every rule's target exists: rewriteTarget leaves*)
(* no target of a subscription's rule dangling.                            *)
RulesResolve ==
    Returned /\ Elements(input.rules) \subseteq Policies(output)
             /\ (\A i \in DOMAIN input.subs : i \in Populated(input))
        => RulesClosed(output)

(* Every reference that can resolve does: dialers and rules.               *)
ReferencesResolve == DialersResolve /\ RulesResolve
=============================================================================
