------------------------------ MODULE Pipeline ------------------------------
(***************************************************************************)
(* The life of vpnkit's state on disk: config.toml, the cache of fetched   *)
(* subscriptions and mihomo's config.yaml, changed by one vpnkit process   *)
(* after another.                                                          *)
(*                                                                         *)
(* A process is either one CLI verb or a terminal-UI session.  Both load   *)
(* config.toml into memory, change the copy, save it, and reassemble       *)
(* config.yaml from the copy; a verb does so once, a session any number of *)
(* times.  Either may be refused, interrupted, or fail to save, at any     *)
(* point; nothing is rolled back.  Processes that overlap are the subject  *)
(* of StoreLock.tla, and the steps inside one change of LocalEdit.tla.     *)
(***************************************************************************)
EXTENDS Assembler

CONSTANT Scopes     \* the instances of a run; a behaviour keeps to one of them

VARIABLE scope      \* the instance of this behaviour

SourceName    == scope.sources   \* names the user gives to sources (and node groups)
Vias          == scope.vias      \* dialer-proxy texts the user gives to nodes
Result        == scope.results   \* what a fetch of a subscription may bring
Verbs         == scope.verbs     \* the operations the user makes use of
Fronts        == scope.fronts    \* the front ends in use
WritesMayFail == scope.failing   \* whether writing config.toml, or a cache file's
                                 \* writing or removal, can fail
MaxNodes      == scope.nodes     \* bounds on the lists the user grows
MaxRules      == scope.rules

ASSUME InstanceOK == \A s \in Scopes :
    /\ s.sources \subseteq Name
    /\ s.vias \subseteq Ref \union {""}
    /\ s.results \subseteq [nodes : NodeTable, rules : Seq(Ref)]
    /\ s.disks \subseteq Config         \* contents config.toml may start with
    /\ s.fronts \subseteq {"cli", "tui"}
    /\ s.failing \in BOOLEAN
    /\ s.nodes \in Nat /\ s.rules \in Nat

VARIABLES
    disk,       \* config.toml
    cache,      \* sub-cache/<name>.json: a function from cached names to results
    doc,        \* config.yaml
    who,        \* the running process: "nobody", "cli" or "tui"
    phase,      \* "ready"; "owed": saved, not yet reassembled; "done": reassembled
    mem,        \* its store.Cfg
    res         \* its Pipeline.subResults, a function like cache

vars == <<scope, disk, cache, doc, who, phase, mem, res>>

NoResults == [s \in {} |-> s]
Without(f, s) == [t \in DOMAIN f \ {s} |-> f[t]]
Over(f, g) == [t \in DOMAIN f \union DOMAIN g |-> IF t \in DOMAIN f THEN f[t] ELSE g[t]]
Just(s, r) == [t \in {s} |-> r]
NoDoc == [proxies |-> {}, groups |-> {}, top |-> <<>>, rules |-> <<>>]

-----------------------------------------------------------------------------
(* Pipeline.Assemble: which results it uses and what it hands to the       *)
(* assembler.                                                              *)

SubscriptionGroup(s, result) == [name |-> s, nodes |-> result.nodes, rules |-> result.rules]

LocalGroup(cfg, g) ==
    [name  |-> g, rules |-> <<>>,
     nodes |-> [i \in NodesOf(cfg, g) |-> [name |-> cfg.nodes[i].name, via |-> cfg.nodes[i].via]]]

InputOf(cfg, results) ==
    LET known == Filtered(cfg.subs, {i \in OnIndices(cfg.subs) : cfg.subs[i].name \in DOMAIN results})
        on    == Filtered(cfg.groups, OnIndices(cfg.groups))
    IN  [subs   |-> [i \in DOMAIN known |-> SubscriptionGroup(known[i].name, results[known[i].name])],
         locals |-> [i \in DOMAIN on |-> LocalGroup(cfg, on[i].name)],
         rules  |-> cfg.rules, active |-> cfg.active,
         target |-> cfg.target, mode |-> cfg.mode]

\* Fault: the disk cache is never read.
LoadedFromMemory(cfg, r, c) == r

\* The in-memory result wins; the disk cache fills in for the enabled rest.
Loaded(cfg, r, c) ==
    Over(r, [s \in DOMAIN c \intersect EnabledIn(cfg.subs) |-> c[s]])

DocOf(cfg, r, c) == Assemble(InputOf(cfg, Loaded(cfg, r, c)))

-----------------------------------------------------------------------------
(* Processes.                                                              *)

Init ==
    /\ scope \in Scopes /\ disk \in scope.disks
    /\ cache = NoResults /\ doc = NoDoc
    /\ who = "nobody" /\ phase = "ready" /\ mem = Defaults /\ res = NoResults

\* storeLoad and NewPipeline.  Load saves what it repaired.
StartCli ==
    /\ who = "nobody" /\ "cli" \in Fronts
    /\ who' = "cli" /\ mem' = Load(disk) /\ disk' = Load(disk)
    /\ UNCHANGED <<cache, doc, phase, res>>

\* app.Run: Load, then the reassembly forced on every launch.
StartTui ==
    /\ who = "nobody" /\ "tui" \in Fronts
    /\ who' = "tui" /\ mem' = Load(disk) /\ disk' = Load(disk)
    /\ doc' = DocOf(Load(disk), NoResults, cache)
    /\ res' = Loaded(Load(disk), NoResults, cache)
    /\ UNCHANGED <<cache, phase>>

Gone == who' = "nobody" /\ phase' = "ready" /\ mem' = Defaults /\ res' = NoResults

\* A refused verb, an interrupt, a crash, the end of a session.
Die == who # "nobody" /\ Gone /\ UNCHANGED <<disk, cache, doc>>

\* The mutation's Assemble: at once in a verb (applyMutation), by an
\* asynchronous command in a session (PipelineMutatedMsg).
Reassemble ==
    /\ phase = "owed"
    /\ doc' = DocOf(mem, res, cache)
    /\ res' = Loaded(mem, res, cache)
    /\ phase' = IF who = "cli" THEN "done" ELSE "ready"
    /\ UNCHANGED <<disk, cache, who, mem>>

\* applyMutation's loadClient reads, and may repair, config.toml again.
CliExit ==
    /\ phase = "done"
    /\ disk' = Load(disk)
    /\ Gone /\ UNCHANGED <<cache, doc>>

-----------------------------------------------------------------------------
(* A change of the configuration, common to every operation: memory is     *)
(* changed first, then saved.  When the save fails a verb exits and a      *)
(* session goes on with what it has in memory.                             *)

By(front, verb) == who = front /\ (front = "cli" => phase = "ready") /\ verb \in Verbs

Killed == UNCHANGED disk /\ who' = "nobody" /\ phase' = "ready" /\ mem' = Defaults

Saved(c, next) == disk' = c /\ mem' = c /\ phase' = next /\ UNCHANGED who
Unsaved(c) ==
    /\ WritesMayFail /\ UNCHANGED disk
    /\ IF who = "cli" THEN Killed ELSE mem' = c /\ UNCHANGED <<who, phase>>

Change(c) ==
    /\ Saved(c, "owed") \/ Unsaved(c)
    /\ UNCHANGED <<cache, doc>>
    /\ res' = IF who' = "nobody" THEN NoResults ELSE res

-----------------------------------------------------------------------------
(* Subscriptions.                                                          *)

CliAddSub(s) == By("cli", "add-sub") /\ CanRunSubsAdd(mem, s) /\ Change(RunSubsAdd(mem, s))

TuiAddSub(s) == By("tui", "add-sub") /\ CanAddSubscription(mem, s)
                                     /\ Change(AddSubscription(mem, s))

\* Fault: the cached result stays.
DeleteSubOnly(s) ==
    /\ By("cli", "rm-sub") \/ By("tui", "rm-sub")
    /\ CanDeleteSubscription(mem, s)
    /\ Change(DeleteSubscription(mem, s))

\* The cached result goes before config.toml is saved, and the process may
\* be killed in between; failing to remove the cache file is only a warning.
DeleteSub(s) ==
    /\ By("cli", "rm-sub") \/ By("tui", "rm-sub")
    /\ CanDeleteSubscription(mem, s)
    /\ cache' = Without(cache, s) \/ (WritesMayFail /\ UNCHANGED cache)
    /\ \/ Saved(DeleteSubscription(mem, s), "owed")
       \/ Unsaved(DeleteSubscription(mem, s))
       \/ Killed
    /\ res' = IF who' = "nobody" THEN NoResults ELSE Without(res, s)
    /\ UNCHANGED doc

CliSetSub(s, on) == By("cli", "set-sub") /\ CanDeleteSubscription(mem, s)
                                         /\ Change(SetSubscriptionEnabled(mem, s, on))

TuiToggleSub(s) == By("tui", "set-sub") /\ CanDeleteSubscription(mem, s)
    /\ Change(SetSubscriptionEnabled(mem, s, ~IsOn(mem.subs, s)))

\* The cache files that a refresh of these results leaves; writing one may
\* fail with only a warning.
Cached(fetched) ==
    {Over([s \in kept |-> fetched[s]], cache) :
        kept \in IF WritesMayFail THEN SUBSET DOMAIN fetched ELSE {DOMAIN fetched}}

\* `vpnkit subs update': RefreshSubscription for each name; if one fails the
\* others are kept, and the verb exits without reassembling.
CliUpdate(names, fetched) ==
    /\ By("cli", "update") /\ names # {} /\ names \subseteq NamesIn(mem.subs)
    /\ DOMAIN fetched \subseteq names
    /\ cache' \in Cached(fetched)
    /\ IF DOMAIN fetched = names
       THEN phase' = "owed" /\ res' = Over(fetched, res) /\ UNCHANGED <<who, mem>>
       ELSE Gone
    /\ UNCHANGED <<disk, doc>>

\* RefreshSubscription in a session, its fetch and its result in one step.
\* If the save fails nothing is cached.
TuiRefresh(s, r) ==
    /\ By("tui", "update") /\ s \in NamesIn(mem.subs)
    /\ res' = Over(Just(s, r), res)
    /\ \/ disk' = mem /\ cache' \in Cached(Just(s, r)) /\ phase' = "owed"
       \/ WritesMayFail /\ UNCHANGED <<disk, cache, phase>>
    /\ UNCHANGED <<doc, who, mem>>

-----------------------------------------------------------------------------
(* Groups of local nodes.                                                  *)

CliAddGroup(g) == By("cli", "add-group") /\ g \notin NamesIn(mem.subs)
    /\ CanAddLocalGroup(mem, g) /\ Change(AddLocalGroup(mem, g))

TuiAddGroup(g) == By("tui", "add-group") /\ CanAddLocalGroup(mem, g)
                                         /\ Change(AddLocalGroup(mem, g))

\* A session never forces.
DeleteGroup(g, force) ==
    /\ By("cli", "rm-group") \/ (By("tui", "rm-group") /\ ~force)
    /\ CanDeleteLocalGroup(mem, g, force)
    /\ Change(DeleteLocalGroup(mem, g, force))

ToggleGroup(g) ==
    /\ By("cli", "set-group") \/ By("tui", "set-group")
    /\ g \in NamesIn(mem.groups)
    /\ Change(ToggleLocalGroupEnabled(mem, g))

RenameGroup(g, h) ==
    /\ By("cli", "rename") \/ By("tui", "rename")
    /\ CanRenameLocalGroup(mem, g, h)
    /\ Change(RenameLocalGroup(mem, g, h))

-----------------------------------------------------------------------------
(* Local nodes.  The CLI names a node by group and name, the session's     *)
(* manager by name alone.                                                  *)

CliAdd(n, g, via) == By("cli", "add-node") /\ Len(mem.nodes) < MaxNodes
    /\ CanCliAddNode(mem, g, n) /\ Change(CliAddNode(mem, g, n, via))

CliRemove(g, n) == By("cli", "rm-node") /\ HasNode(mem, g, n)
                                        /\ Change(CliRemoveNode(mem, g, n))

CliMove(g, n, h) == By("cli", "mv-node") /\ CanMoveNode(mem, g, n, h)
                                         /\ Change(MoveNode(mem, g, n, h))

CliEdit(g, n, h, m, via) == By("cli", "edit-node") /\ CanEditNode(mem, g, n, h, m)
                                                   /\ Change(EditNode(mem, g, n, h, m, via))

\* The node form and the pasted URI: Manager.Add and SaveLocal.  The form's
\* group is free text, `local' when left empty, and is not looked up.  The
\* reassembly is owed even when the save fails.
TuiAddNode(n, g, via) ==
    /\ By("tui", "add-node") /\ Len(mem.nodes) < MaxNodes
    /\ \A i \in DOMAIN mem.nodes : mem.nodes[i].name # n
    /\ mem' = [mem EXCEPT !.nodes = Append(@, NewNode(n, g, via))]
    /\ disk' = mem' \/ (WritesMayFail /\ UNCHANGED disk)
    /\ phase' = "owed"
    /\ UNCHANGED <<cache, doc, who, res>>

\* `d' on the node shown under the cursor: Manager.Remove and SaveLocal.
TuiRemoveNode(g, n) ==
    /\ By("tui", "rm-node") /\ HasNode(mem, g, n)
    /\ Change([mem EXCEPT !.nodes = RemoveAt(@, IndexOf(@, n))])

-----------------------------------------------------------------------------
(* Active source, target, mode and rules.                                  *)

SetActive(s) ==
    /\ By("cli", "active") \/ By("tui", "active")
    /\ CanSetActiveSource(mem, s)
    /\ Change(SetActiveSource(mem, s))

\* `vpnkit target' saves and ends.
CliSetTarget(t) ==
    /\ By("cli", "target") /\ ValidTarget(mem, t)
    /\ disk' = SetTarget(mem, t) /\ Gone /\ UNCHANGED <<cache, doc>>

SetRoutingMode(m) ==
    /\ By("cli", "mode") \/ By("tui", "mode")
    /\ Change(SetMode(mem, m))

CliAddRule(t) == By("cli", "add-rule") /\ Len(mem.rules) < MaxRules
    /\ ValidTarget(mem, t) /\ Change(AddRule(mem, t))

CliRemoveRule(i) == By("cli", "rm-rule") /\ Change(RemoveRule(mem, i))

\* The rules pane saves and owes no reassembly.
TuiRemoveRule(i) ==
    /\ By("tui", "rm-rule")
    /\ Saved(RemoveRule(mem, i), phase) \/ Unsaved(RemoveRule(mem, i))
    /\ UNCHANGED <<cache, doc, res>>

-----------------------------------------------------------------------------
SubStep ==
    \/ \E s \in SourceName : CliAddSub(s) \/ TuiAddSub(s) \/ DeleteSub(s) \/ TuiToggleSub(s)
    \/ \E s \in SourceName, on \in BOOLEAN : CliSetSub(s, on)
    \/ \E s \in SourceName, r \in Result : TuiRefresh(s, r)
    \/ \E names \in SUBSET NamesIn(mem.subs) : \E ok \in SUBSET names :
         \E fetched \in [ok -> Result] : CliUpdate(names, fetched)

GroupStep ==
    \/ \E g \in SourceName : CliAddGroup(g) \/ TuiAddGroup(g) \/ ToggleGroup(g)
    \/ \E g \in SourceName, force \in BOOLEAN : DeleteGroup(g, force)
    \/ \E g, h \in SourceName : RenameGroup(g, h)

NodeStep ==
    \/ \E n \in NodeName, g \in SourceName, via \in Vias :
         CliAdd(n, g, via) \/ TuiAddNode(n, g, via)
    \/ \E n \in NodeName, g \in SourceName : CliRemove(g, n) \/ TuiRemoveNode(g, n)
    \/ \E n \in NodeName, g, h \in SourceName :
         \/ CliMove(g, n, h)
         \/ \E m \in NodeName, via \in Vias : CliEdit(g, n, h, m, via)

RoutingStep ==
    \/ \E s \in SourceName : SetActive(s)
    \/ \E t \in Ref : CliSetTarget(t) \/ CliAddRule(t)
    \/ \E m \in Modes : SetRoutingMode(m)
    \/ \E i \in DOMAIN mem.rules : CliRemoveRule(i) \/ TuiRemoveRule(i)

Next ==
    /\ \/ StartCli \/ StartTui \/ Reassemble \/ CliExit \/ Die
       \/ SubStep \/ GroupStep \/ NodeStep \/ RoutingStep
    /\ UNCHANGED scope

Spec == Init /\ [][Next]_vars

-----------------------------------------------------------------------------
(* Every variable has the type the code gives it.                          *)
TypeOK ==
    /\ disk \in Config /\ mem \in Config
    /\ DOMAIN cache \subseteq Name /\ \A s \in DOMAIN cache : cache[s] \in Result
    /\ DOMAIN res \subseteq Name /\ \A s \in DOMAIN res : res[s] \in Result
    /\ who \in {"nobody", "cli", "tui"} /\ phase \in {"ready", "owed", "done"}
    /\ doc.top \in Seq(Ref) /\ doc.rules \in Seq(Ref)

(* Whatever sequence of operations, failures and restarts produced it, the *)
(* selector every unmatched connection goes through, and every group, name *)
(* policies config.yaml defines (proxy_groups.go, topProxyMembersFor).     *)
GroupsLoad == doc # NoDoc => TopClosed(doc) /\ GroupsClosed(doc)

(* config.toml never names as active a source that is gone or switched off:*)
(* every operation that removes or disables the active source forgets it   *)
(* (ClearActive's comments in pipeline.go), and Load derives only live ones.*)
(* RenameLocalGroup alone leaves the old name behind (pipeline.go:721).    *)
ActiveOK(cfg) == cfg.active # "" => cfg.active \in Enabled(cfg)
ActiveIsEnabled == "rename" \notin Verbs => ActiveOK(disk)

(* Subscriptions and groups share the routing namespace; the verbs refuse  *)
(* a name the other kind uses (runSubsAdd, local-groups add, rename).      *)
NamespaceDisjoint == NamesIn(disk.subs) \intersect NamesIn(disk.groups) = {}

(* Every local node is in a group that exists, so that it is emitted when  *)
(* the group is enabled (add creates, mv requires, rm refuses or cascades, *)
(* rename carries the nodes along); "" is for Load to repair.              *)
NodesGrouped == \A i \in DOMAIN disk.nodes :
    disk.nodes[i].group \in NamesIn(disk.groups) \union {""}

(* (group, name) identifies a local node (local-nodes add and edit).       *)
NodesDistinct == \A i, j \in DOMAIN disk.nodes :
    disk.nodes[i].group = disk.nodes[j].group /\ disk.nodes[i].name = disk.nodes[j].name => i = j

(* A cached result belongs to a subscription of config.toml: one that is   *)
(* removed and added again starts without the old nodes.                   *)
CacheOwned == DOMAIN cache \subseteq NamesIn(disk.subs)

(* A session holds results of subscriptions it lists and of no others, so  *)
(* that one removed and added again is not emitted with its old nodes      *)
(* (DeleteSubscription, whatever becomes of the file).                     *)
ResultsOwned == DOMAIN res \subseteq NamesIn(mem.subs)

(* What a finished change wrote to config.yaml does not depend on what the *)
(* process happened to hold in memory: a new process reassembling from     *)
(* config.toml and the cache emits the same proxies and source groups; but *)
(* after a save that failed, a session's memory is ahead of config.toml.   *)
Settled == phase = "done" \/ (who = "tui" /\ phase = "ready")
EmittedFromDisk == Settled /\ ~WritesMayFail =>
    LET again == DocOf(disk, NoResults, cache)
    IN  doc.proxies = again.proxies /\ doc.groups = again.groups

(* A target that is a source or a source's url-test group names a source   *)
(* that config.toml has: removing a subscription forgets a target aimed at *)
(* it (DeleteSubscription); removing or renaming a group does not.         *)
TargetNotGone == {"rm-group", "rename"} \intersect Verbs = {} =>
    \A s \in Name : disk.target \in {s, AutoOf(s)} => s \in Sources(disk)

(* When a verb is over, the rules of config.yaml start with the local      *)
(* rules, whichever source is active and whatever rules it ships           *)
(* (emitRules).                                                            *)
LocalRulesEmitted == phase = "done" /\ mem.mode = "rule" => IsPrefix(mem.rules, doc.rules)

(* No two proxies or groups of the document share a name.                  *)
NamesLoad == doc # NoDoc => NamesUnique(doc)

(* CLI verbs on sources, in any order and however far each came: the       *)
(* document loads, and active source, namespace and cache follow the list. *)
SourcesSound == GroupsLoad /\ ActiveIsEnabled /\ NamespaceDisjoint /\ CacheOwned

(* CLI verbs on groups and nodes keep every node reachable and unambiguous,*)
(* in config.toml and in config.yaml.                                      *)
NodesSound == NodesGrouped /\ NodesDistinct /\ NamesLoad

(* Sessions and verbs in turn, some of whose writes fail: nothing refers to*)
(* a source that is gone, be it the active one, the target or a result.    *)
RoutingSound == ActiveIsEnabled /\ TargetNotGone /\ ResultsOwned

(* Sessions and verbs in turn emit the same document, local rules first.   *)
DocSound == EmittedFromDisk /\ LocalRulesEmitted
=============================================================================
