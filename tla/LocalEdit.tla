------------------------------ MODULE LocalEdit ------------------------------
(***************************************************************************)
(* One terminal-UI session changing its local nodes, step by step.         *)
(*                                                                         *)
(* The nodes are held twice: in localnodes.Manager (its own mutex), which  *)
(* the Sources tab changes, and in store.Cfg.LocalNodes (under Pipeline.mu)*)
(* which SaveLocal fills from the manager and Save writes to disk.  Every  *)
(* saved change starts a command, on a goroutine of its own, that runs     *)
(* Pipeline.Assemble: it loads the manager from the store, and then, after *)
(* Pipeline.mu is released, the assembler reads the manager once per group *)
(* for the proxies, once per group for the group's members, and once more  *)
(* for the top-level selector.  The user goes on meanwhile, unless Patient.*)
(***************************************************************************)
EXTENDS Naturals, Sequences, SequencesExt

CONSTANTS
    NodeName,   \* names of nodes
    Active,     \* the active source, a group in every scope
    Workers,    \* goroutines that may assemble at once (bound)
    Scopes      \* the instances of a run; a behaviour keeps to one of them

VARIABLE scope  \* the instance of this behaviour

Groups      == scope.groups     \* the enabled groups, in order
MaxEdits    == scope.edits      \* changes the user makes (bound)
Patient     == scope.patient    \* whether the user waits for one change to be applied
SaveMayFail == scope.failing    \* whether Store.Save and AtomicWrite may fail

Group == {Groups[i] : i \in DOMAIN Groups}
Node  == [name : NodeName, group : Group]

Unique(list) == \A i, j \in DOMAIN list : list[i].name = list[j].name => i = j

ASSUME EditsOK == \A s \in Scopes :
    /\ s.groups \in Seq(STRING) /\ Active \in {s.groups[i] : i \in DOMAIN s.groups}
    /\ \A list \in s.starts :              \* lists config.toml may start with
         /\ list \in Seq([name : NodeName, group : {s.groups[i] : i \in DOMAIN s.groups}])
         /\ Unique(list)
    /\ s.edits \in Nat /\ s.patient \in BOOLEAN /\ s.failing \in BOOLEAN

VARIABLES
    mgr,    \* localnodes.Manager's list
    cfg,    \* store.Cfg.LocalNodes
    disk,   \* the nodes of config.toml
    doc,    \* config.yaml
    ui,     \* the change the UI goroutine is making
    run,    \* the assembly each worker is doing
    edits   \* changes begun (bound)

vars == <<scope, mgr, cfg, disk, doc, ui, run, edits>>

-----------------------------------------------------------------------------
HasName(list, n) == \E i \in DOMAIN list : list[i].name = n
FirstOf(list, n) ==
    CHOOSE i \in DOMAIN list : list[i].name = n /\ \A j \in 1 .. i - 1 : list[j].name # n
DropName(list, n) == RemoveAt(list, FirstOf(list, n))

MembersIn(list, g) == {list[i] : i \in {j \in DOMAIN list : list[j].group = g}}

\* emitPair skips a group without nodes; topProxyMembersFor names no such group.
PairOf(list, g) == IF MembersIn(list, g) = {} THEN {} ELSE {<<g, MembersIn(list, g)>>}
\* Fault: the active group is named whether or not it has nodes.
TopOfAny(list) == {Active}

TopOf(list)     == {g \in {Active} : MembersIn(list, g) # {}}

DocOf(list) == [proxies |-> UNION {MembersIn(list, g) : g \in Group},
                pairs   |-> UNION {PairOf(list, g) : g \in Group},
                top     |-> TopOf(list)]

EmptyDoc == [proxies |-> {}, pairs |-> {}, top |-> {}]
NoNode   == [name |-> "", group |-> ""]
Resting  == [pc |-> "idle", at |-> 1, out |-> EmptyDoc]

Init ==
    /\ scope \in Scopes
    /\ cfg \in scope.starts /\ mgr = cfg /\ disk = cfg /\ doc = DocOf(cfg)
    /\ ui = [pc |-> "idle", op |-> "none", old |-> NoNode, new |-> NoNode, was |-> cfg]
    /\ run = [w \in Workers |-> Resting]
    /\ edits = 0

-----------------------------------------------------------------------------
(* The UI goroutine.                                                       *)

AllResting == \A w \in Workers : run[w].pc = "idle"

Begin(op, old, new, next) ==
    /\ ui.pc \in {"idle", "refused"} /\ edits < MaxEdits
    /\ Patient => AllResting
    /\ ui' = [pc |-> next, op |-> op, old |-> old, new |-> new, was |-> mgr]
    /\ edits' = edits + 1
    /\ UNCHANGED <<cfg, disk, doc, run>>

\* The node form and the pasted URI: Manager.Add.
AddNode(n) ==
    /\ Begin("add", NoNode, n, "changed")
    /\ ~HasName(mgr, n.name) /\ mgr' = Append(mgr, n)

\* `d': Manager.Remove of the name under the cursor.
DeleteNode(n) ==
    /\ HasName(mgr, n)
    /\ Begin("delete", mgr[FirstOf(mgr, n)], NoNode, "changed")
    /\ mgr' = DropName(mgr, n)

\* `e' on the node named n, saved as new: Manager.Get, ...
EditGet(n, new) ==
    /\ HasName(mgr, n)
    /\ Begin("edit", mgr[FirstOf(mgr, n)], new, "found")
    /\ UNCHANGED mgr

Goes(from, to) == ui.pc = from /\ ui' = [ui EXCEPT !.pc = to]

\* ... Remove, which may find that the node has gone, ...
EditRemove ==
    /\ IF HasName(mgr, ui.old.name)
       THEN Goes("found", "removed") /\ mgr' = DropName(mgr, ui.old.name)
       ELSE Goes("found", "idle") /\ UNCHANGED mgr
    /\ UNCHANGED <<cfg, disk, doc, run, edits>>

\* ... Add, ...
EditAdd ==
    /\ IF HasName(mgr, ui.new.name)
       THEN Goes("removed", "collided") /\ UNCHANGED mgr
       ELSE Goes("removed", "changed") /\ mgr' = Append(mgr, ui.new)
    /\ UNCHANGED <<cfg, disk, doc, run, edits>>

\* Fault: the original is not put back.
RollbackNot ==
    /\ Goes("collided", "refused")
    /\ UNCHANGED <<mgr, cfg, disk, doc, run, edits>>

\* Fault: the original is put back unchecked.
RollbackUnchecked ==
    /\ Goes("collided", "refused")
    /\ mgr' = Append(mgr, ui.old)
    /\ UNCHANGED <<cfg, disk, doc, run, edits>>

\* ... and after a collision Add of the old node, its error ignored.
Rollback ==
    /\ Goes("collided", "refused")
    /\ mgr' = IF HasName(mgr, ui.old.name) THEN mgr ELSE Append(mgr, ui.old)
    /\ UNCHANGED <<cfg, disk, doc, run, edits>>

\* SaveLocal up to the release of Pipeline.mu.
SaveLocal ==
    /\ Goes("changed", "write") /\ cfg' = mgr
    /\ UNCHANGED <<mgr, disk, doc, run, edits>>

\* Fault: the change is saved and no PipelineMutatedMsg is sent.
SaveQuietly ==
    /\ Goes("write", "idle") /\ disk' = cfg
    /\ UNCHANGED <<mgr, cfg, doc, run, edits>>

\* Store.Save, and the PipelineMutatedMsg; a delete that was not saved sends none.
Save ==
    /\ Goes("write", "idle")
    /\ \/ disk' = cfg
       \/ SaveMayFail /\ UNCHANGED disk
    /\ \/ \E w \in Workers : run[w].pc = "idle" /\ run' = [run EXCEPT ![w].pc = "sync"]
       \/ ui.op = "delete" /\ SaveMayFail /\ disk' = disk /\ UNCHANGED run
    /\ UNCHANGED <<mgr, cfg, doc, edits>>

-----------------------------------------------------------------------------
(* A worker: Pipeline.Assemble.                                            *)

Sync(w) ==
    /\ run[w].pc = "sync" /\ mgr' = cfg
    /\ run' = [run EXCEPT ![w] = [pc |-> "proxies", at |-> 1, out |-> EmptyDoc]]
    /\ UNCHANGED <<cfg, disk, doc, ui, edits>>

\* Fault: one group too many.
AfterLast(r, next) == IF r.at <= Len(Groups) THEN [r EXCEPT !.at = @ + 1]
                                              ELSE [r EXCEPT !.at = 1, !.pc = next]

\* After the group at hand comes the next one, or the next phase.
After(r, next) == IF r.at < Len(Groups) THEN [r EXCEPT !.at = @ + 1]
                                        ELSE [r EXCEPT !.at = 1, !.pc = next]

WithNodes(w) == [run[w] EXCEPT !.out.proxies = @ \union MembersIn(mgr, Groups[run[w].at])]
WithPair(w)  == [run[w] EXCEPT !.out.pairs = @ \union PairOf(mgr, Groups[run[w].at])]

ReadProxies(w) ==
    /\ run[w].pc = "proxies"
    /\ run' = [run EXCEPT ![w] = After(WithNodes(w), "pairs")]
    /\ UNCHANGED <<mgr, cfg, disk, doc, ui, edits>>

ReadPair(w) ==
    /\ run[w].pc = "pairs"
    /\ run' = [run EXCEPT ![w] = After(WithPair(w), "top")]
    /\ UNCHANGED <<mgr, cfg, disk, doc, ui, edits>>

ReadTop(w) ==
    /\ run[w].pc = "top"
    /\ run' = [run EXCEPT ![w].out.top = TopOf(mgr), ![w].pc = "publish"]
    /\ UNCHANGED <<mgr, cfg, disk, doc, ui, edits>>

\* config.AtomicWrite.
Publish(w) ==
    /\ run[w].pc = "publish" /\ run' = [run EXCEPT ![w] = Resting]
    /\ doc' = run[w].out \/ (SaveMayFail /\ UNCHANGED doc)
    /\ UNCHANGED <<mgr, cfg, disk, ui, edits>>

-----------------------------------------------------------------------------
UserStep == \/ \E n \in Node : AddNode(n)
            \/ \E n \in NodeName : DeleteNode(n)
            \/ \E n \in NodeName, new \in Node : EditGet(n, new)
UiStep == EditRemove \/ EditAdd \/ Rollback \/ SaveLocal \/ Save
Assembly(w) == Sync(w) \/ ReadProxies(w) \/ ReadPair(w) \/ ReadTop(w) \/ Publish(w)
AtRest == ui.pc \in {"idle", "refused"} /\ AllResting

Next == \/ /\ UserStep \/ UiStep \/ \E w \in Workers : Assembly(w)
           /\ UNCHANGED scope
        \/ AtRest /\ edits = MaxEdits /\ UNCHANGED vars

Spec == Init /\ [][Next]_vars

\* The Go scheduler runs every goroutine that can run; the user need do nothing.
FairSpec == Spec /\ WF_vars(UiStep /\ UNCHANGED scope)
                 /\ \A w \in Workers : WF_vars(Assembly(w) /\ UNCHANGED scope)

-----------------------------------------------------------------------------
UiPCs  == {"idle", "found", "removed", "collided", "refused", "changed", "write"}
RunPCs == {"idle", "sync", "proxies", "pairs", "top", "publish"}

Doc    == [proxies : SUBSET Node, pairs : SUBSET (Group \X SUBSET Node), top : SUBSET Group]
Ui     == [pc : UiPCs, op : {"none", "add", "delete", "edit"},
           old : Node \union {NoNode}, new : Node \union {NoNode}, was : Seq(Node)]

(* Every variable has the type the code gives it.                          *)
TypeOK ==
    /\ scope \in Scopes /\ edits \in 0 .. MaxEdits
    /\ mgr \in Seq(Node) /\ cfg \in Seq(Node) /\ disk \in Seq(Node) /\ doc \in Doc
    /\ ui \in Ui /\ run \in [Workers -> [pc : RunPCs, at : 1 .. Len(Groups), out : Doc]]

(* Manager.Add's check keeps names distinct however edits, rollbacks and   *)
(* resyncs interleave, in the manager and in the store.                    *)
NamesStayDistinct == Unique(mgr) /\ Unique(cfg)

\* What the user asked for, applied to a list.
Intended(list) ==
    CASE ui.op = "add"    -> Append(list, ui.new)
      [] ui.op = "delete" -> DropName(list, ui.old.name)
      [] ui.op = "edit"   -> Append(DropName(list, ui.old.name), ui.new)

(* SaveLocal stores exactly the change the user made: nothing of it is lost*)
(* and nothing else comes with it (the manager is the authoritative source *)
(* for nodes not yet saved, DeleteLocalGroup's comment in pipeline.go), of *)
(* a user who waits for one change to be applied before the next.  The     *)
(* order of the nodes is not kept: a refused edit puts its node last.      *)
SavedAsIntended == [][Patient /\ SaveLocal => ToSet(cfg') = ToSet(Intended(cfg))]_vars

(* A refused edit leaves the manager with the nodes it had: the original   *)
(* node is put back (sources.go; USAGE.md, name collision on edit), if no  *)
(* other change is being applied.                                          *)
RefusedEditRestores == Patient /\ ui.pc = "refused" => ToSet(mgr) = ToSet(ui.was)

(* Whatever it was assembled from, config.yaml never has a group with a    *)
(* member that is not among its proxies, nor a selector over a group it    *)
(* does not define (topProxyMembersFor's comment, proxy_groups.go), unless *)
(* the user changes nodes while it is assembled.                           *)
DocLoads == Patient =>
    /\ \A p \in doc.pairs : p[2] \subseteq doc.proxies
    /\ doc.top \subseteq {p[1] : p \in doc.pairs}

(* Once the user stops, config.yaml becomes and stays what config.toml's   *)
(* nodes assemble to.                                                      *)
AppliedAtLast == Patient => <>[](doc = DocOf(disk))

(* A refused edit restores the manager, and config.yaml holds together.    *)
EditsSound == RefusedEditRestores /\ DocLoads
=============================================================================
