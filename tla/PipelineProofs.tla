--------------------------- MODULE PipelineProofs ---------------------------
(***************************************************************************)
(* Proofs about Pipeline.tla: for any names, front ends, initial contents  *)
(* of config.toml and lists of any length, over failing writes, kills and  *)
(* restarts, nothing refers to a source that is gone.                      *)
(*                                                                         *)
(* Kept says of a configuration what the operations keep: the lemmas of    *)
(* AssemblerProofs say so operation by operation.  Here both copies are kept,  *)
(* the file and the process's, with the results and the cache between.     *)
(***************************************************************************)
EXTENDS Pipeline, AssemblerProofs

\* No name is both a subscription's and a group's, nor will be when Load adds
\* the default group.
Separate(cfg) ==
    DefaultGroup \notin NamesIn(cfg.subs) /\ NamesIn(cfg.subs) \intersect NamesIn(cfg.groups) = {}

\* What the verbs in use keep, if the file starts with it.
KeepsActive(sc) == "rename" \notin sc.verbs /\ \A d \in sc.disks : Live(d)
KeepsTarget(sc) == {"rm-group", "rename"} \intersect sc.verbs = {} /\ \A d \in sc.disks : Aimed(d)
KeepsApart(sc)  == /\ "tui" \notin sc.fronts /\ "add-node" \notin sc.verbs
                   /\ DefaultGroup \notin sc.sources
                   /\ \A d \in sc.disks : Separate(d)
KeepsNone(sc)   == "add-sub" \notin sc.verbs /\ \A d \in sc.disks : d.subs = <<>>
KeepsOnce(sc)   == \A d \in sc.disks : Unrepeated(d)
KeepsNodes(sc)  == /\ "tui" \notin sc.fronts /\ "mv-node" \notin sc.verbs
                   /\ \A d \in sc.disks : Tidy(d)

Kept(sc, cfg) == /\ Shaped(cfg) /\ Filled(cfg)
                 /\ KeepsActive(sc) => Live(cfg)
                 /\ KeepsTarget(sc) => Aimed(cfg)
                 /\ KeepsApart(sc)  => Separate(cfg)
                 /\ KeepsNone(sc)   => cfg.subs = <<>>
                 /\ KeepsOnce(sc)   => Unrepeated(cfg)
                 /\ KeepsNodes(sc)  => Tidy(cfg)

\* What a process has in memory has been through Load.
Held(sc, cfg) == Kept(sc, cfg) /\ Housed(cfg)

IInv == /\ scope \in Scopes /\ who \in Fronts \union {"nobody"}
        /\ Kept(scope, disk) /\ Held(scope, mem)
        /\ DOMAIN res \subseteq NamesIn(mem.subs)
        /\ who = "nobody" => phase = "ready" /\ DOMAIN res = {}
        /\ ~WritesMayFail => DOMAIN cache \subseteq NamesIn(disk.subs)
                             /\ (who # "nobody" => disk = mem)

-----------------------------------------------------------------------------
(* What is kept, operation by operation.                                   *)

\* The defaults have no source to refer to.
LEMMA DefaultsKept == ASSUME NEW sc PROVE Held(sc, Defaults)
<1>1. /\ Defaults.subs = <<>> /\ Defaults.groups = <<>> /\ Defaults.active = ""
      /\ Defaults.target = "DIRECT" /\ Defaults.nodes = <<>> /\ Defaults.rules = <<>>
      /\ Defaults.mode = "rule"
  BY DEF Defaults
<1>2. Shaped(Defaults)
  <2>1. ASSUME NEW e, e \in Seq(Source)
        PROVE  Shaped([subs |-> e, groups |-> e, nodes |-> <<>>, rules |-> <<>>,
                       active |-> "", target |-> "DIRECT", mode |-> "rule"])
    BY <2>1, Names DEF Shaped
  <2>2. <<>> \in Seq(Source)
    OBVIOUS
  <2> QED  BY <2>1, <2>2 DEF Defaults
<1>3. NamesIn(<<>>) = {}
  BY DEF NamesIn
<1> HIDE DEF Defaults
<1>4. Live(Defaults)
  BY <1>1 DEF Live
<1>5. Aimed(Defaults)
  BY <1>1, Names DEF Aimed
<1>6. Separate(Defaults)
  BY <1>1, <1>3 DEF Separate
<1>7. Filled(Defaults)
  <2>1. <<>> \in Seq(Node) /\ <<>> \in Seq(Ref)
    OBVIOUS
  <2> QED  BY <1>1, <2>1 DEF Filled, Modes
<1>8. DOMAIN <<>> = {}
  OBVIOUS
<1>9. Unrepeated(Defaults)
  <2>1. Once(<<>>)
    BY <1>8 DEF Once
  <2> QED  BY <1>1, <2>1 DEF Unrepeated
<1>10. Housed(Defaults) /\ Tidy(Defaults)
  <2>1. DOMAIN Defaults.nodes = {}
    BY <1>1, <1>8
  <2> QED  BY <2>1 DEF Housed, Tidy, Grouped, Distinct
<1> QED  BY <1>1, <1>2, <1>4, <1>5, <1>6, <1>7, <1>9, <1>10 DEF Kept, Held

\* A file of the right type that a behaviour may start with.
LEMMA DiskKept == ASSUME NEW sc \in Scopes, NEW d \in sc.disks PROVE Kept(sc, d)
<1>1. d \in Config
  BY InstanceOK
<1>2. Shaped(d)
  BY <1>1 DEF Config, Shaped
<1>3. Filled(d)
  BY <1>1 DEF Config, Filled
<1> QED  BY <1>2, <1>3
         DEF Kept, KeepsActive, KeepsTarget, KeepsApart, KeepsNone, KeepsOnce, KeepsNodes

\* Load.
LEMMA LoadKept ==
    ASSUME NEW sc, NEW cfg, Kept(sc, cfg)
    PROVE  Held(sc, Load(cfg)) /\ Load(cfg).subs = cfg.subs
<1>1. Shaped(cfg) /\ Filled(cfg)
  BY DEF Kept
<1>2. /\ Shaped(Load(cfg)) /\ Load(cfg).subs = cfg.subs
      /\ NamesIn(Load(cfg).groups) \subseteq NamesIn(cfg.groups) \union {DefaultGroup}
      /\ Live(cfg) => Live(Load(cfg))
      /\ Aimed(cfg) => Aimed(Load(cfg))
      /\ Unrepeated(cfg) => Unrepeated(Load(cfg))
  BY <1>1, LoadFacts
<1>3. Filled(Load(cfg)) /\ Housed(Load(cfg)) /\ (Tidy(cfg) => Tidy(Load(cfg)))
  BY <1>1, LoadNodes
<1> QED  BY <1>2, <1>3 DEF Kept, Held, Separate

\* What leaves the nodes alone.
LEMMA SourcesKept ==
    ASSUME NEW sc, NEW cfg, Held(sc, cfg), NEW c, Framed(cfg, c), Shaped(c),
           NamesIn(cfg.groups) \subseteq NamesIn(c.groups),
           KeepsActive(sc) /\ Live(cfg) => Live(c),
           KeepsTarget(sc) /\ Aimed(cfg) => Aimed(c),
           KeepsApart(sc) /\ Separate(cfg) => Separate(c),
           KeepsNone(sc) /\ cfg.subs = <<>> => c.subs = <<>>,
           KeepsOnce(sc) /\ Unrepeated(cfg) => Unrepeated(c)
    PROVE  Held(sc, c)
<1>1. /\ (Filled(cfg) => Filled(c)) /\ (Housed(cfg) => Housed(c))
      /\ Tidy(cfg) => Tidy(c)
  BY FramedFacts
<1> QED  BY <1>1 DEF Held, Kept

\* What leaves the sources, the active one and the target alone.
LEMMA SameKept ==
    ASSUME NEW sc, NEW cfg, Held(sc, cfg), NEW c, Same(cfg, c), Filled(c), Housed(c),
           KeepsNodes(sc) /\ Tidy(cfg) => Tidy(c)
    PROVE  Held(sc, c) /\ c.subs = cfg.subs
<1>1. Shaped(c) /\ c.subs = cfg.subs /\ c.groups = cfg.groups
  BY DEF Same
<1> QED  BY <1>1, SameFacts DEF Held, Kept, Separate, Unrepeated

\* A cached result is used for a subscription only.
LEMMA LoadedOwned ==
    ASSUME NEW cfg, Shaped(cfg), NEW r, NEW c, DOMAIN r \subseteq NamesIn(cfg.subs)
    PROVE  DOMAIN Loaded(cfg, r, c) \subseteq NamesIn(cfg.subs)
<1>1. EnabledIn(cfg.subs) \subseteq NamesIn(cfg.subs)
  BY SourcesNamed DEF Shaped
<1>2. DOMAIN Loaded(cfg, r, c) = DOMAIN r \union (DOMAIN c \intersect EnabledIn(cfg.subs))
  BY DEF Loaded, Over
<1> QED  BY <1>1, <1>2

-----------------------------------------------------------------------------
(* What is kept, step by step.                                             *)

\* Who asks for a verb, and that the instance has it.
LEMMA Asked ==
    ASSUME IInv, NEW front \in {"cli", "tui"}, NEW verb, By(front, verb)
    PROVE  /\ who = front /\ who # "nobody" /\ verb \in scope.verbs
           /\ front = "tui" => ~KeepsApart(scope) /\ ~KeepsNodes(scope)
BY DEF IInv, By, Verbs, Fronts, KeepsApart, KeepsNodes

\* A change to a kept configuration that loses no subscription.
LEMMA ChangeKeeps ==
    ASSUME IInv, NEW c, Held(scope, c), NamesIn(mem.subs) \subseteq NamesIn(c.subs),
           who # "nobody", Change(c), UNCHANGED scope
    PROVE  IInv'
<1>1. scope' = scope /\ WritesMayFail' = WritesMayFail /\ Fronts' = Fronts
  BY DEF WritesMayFail, Fronts
<1>2. CASE disk' = c /\ mem' = c /\ who' = who /\ cache' = cache /\ res' = res
  BY <1>1, <1>2 DEF IInv, Held
<1>3. CASE disk' = disk /\ mem' = c /\ who' = who /\ res' = res /\ WritesMayFail
  BY <1>1, <1>3 DEF IInv
<1>4. CASE /\ disk' = disk /\ mem' = Defaults /\ WritesMayFail
           /\ who' = "nobody" /\ phase' = "ready" /\ res' = NoResults
  <2>1. DOMAIN NoResults = {}
    BY DEF NoResults
  <2> HIDE DEF NoResults, Defaults
  <2> QED  BY <1>1, <1>4, <2>1, DefaultsKept DEF IInv
<1> QED  BY <1>2, <1>3, <1>4 DEF Change, Saved, Unsaved, Killed

\* A process that ends, whatever it leaves in the file and the cache.
LEMMA GoneKeeps ==
    ASSUME IInv, Gone, UNCHANGED scope, Kept(scope, disk'),
           ~WritesMayFail => DOMAIN cache' \subseteq NamesIn(disk'.subs)
    PROVE  IInv'
<1>1. scope' = scope /\ WritesMayFail' = WritesMayFail /\ Fronts' = Fronts
  BY DEF WritesMayFail, Fronts
<1>2. /\ mem' = Defaults /\ who' = "nobody" /\ phase' = "ready"
      /\ res' = NoResults /\ DOMAIN NoResults = {}
  BY DEF Gone, NoResults
<1> HIDE DEF NoResults, Defaults
<1> QED  BY <1>1, <1>2, DefaultsKept DEF IInv

\* What an instance gives the user.
LEMMA ScopeFacts ==
    ASSUME IInv
    PROVE  SourceName \subseteq Name /\ SourceName = scope.sources /\ Verbs = scope.verbs
           /\ Fronts = scope.fronts
BY InstanceOK DEF IInv, SourceName, Verbs, Fronts

\* Verbs on subscriptions.
LEMMA SubKeeps == ASSUME IInv, SubStep, UNCHANGED scope PROVE IInv'
<1>0. Shaped(mem) /\ Filled(mem) /\ Housed(mem) /\ Held(scope, mem) /\ Kept(scope, disk)
  BY DEF IInv, Held, Kept
<1>1. ASSUME NEW s \in SourceName, CliAddSub(s)  PROVE IInv'
  <2> DEFINE c == RunSubsAdd(mem, s)
  <2>1. By("cli", "add-sub") /\ s \notin Sources(mem) /\ Change(c) /\ s \in Name
    BY <1>1, ScopeFacts DEF CliAddSub, CanRunSubsAdd
  <2>2. /\ Shaped(c) /\ c.groups = mem.groups /\ NamesIn(c.subs) = NamesIn(mem.subs) \union {s}
        /\ (Live(mem) => Live(c)) /\ (Aimed(mem) => Aimed(c))
        /\ Unrepeated(mem) /\ s \notin NamesIn(mem.subs) => Unrepeated(c)
    BY <1>0, <2>1, AddSubFacts
  <2>3. Framed(mem, c)
    BY <1>0, FrameFacts
  <2> HIDE DEF c
  <2>4. ~KeepsNone(scope) /\ (KeepsApart(scope) => s # DefaultGroup)
    BY <1>1, <2>1, Asked, ScopeFacts DEF KeepsApart, KeepsNone
  <2>5. Held(scope, c)
    BY <1>0, <2>1, <2>2, <2>3, <2>4, SourcesKept DEF Separate, Sources
  <2> QED  BY <2>1, <2>2, <2>5, Asked, ChangeKeeps
<1>2. ASSUME NEW s \in SourceName, TuiAddSub(s)  PROVE IInv'
  <2> DEFINE c == AddSubscription(mem, s)
  <2>1. By("tui", "add-sub") /\ Change(c) /\ s \in Name
    BY <1>2, ScopeFacts DEF TuiAddSub
  <2>0. s \notin NamesIn(mem.subs)
    BY <1>2 DEF TuiAddSub, CanAddSubscription
  <2>2. /\ Shaped(c) /\ c.groups = mem.groups /\ NamesIn(c.subs) = NamesIn(mem.subs) \union {s}
        /\ (Live(mem) => Live(c)) /\ (Aimed(mem) => Aimed(c))
        /\ Unrepeated(mem) => Unrepeated(c)
    BY <1>0, <2>0, <2>1, AddSubFacts
  <2>3. Framed(mem, c)
    BY <1>0, FrameFacts
  <2> HIDE DEF c
  <2>4. ~KeepsNone(scope) /\ ~KeepsApart(scope)
    BY <2>1, Asked DEF KeepsNone
  <2>5. Held(scope, c)
    BY <1>0, <2>2, <2>3, <2>4, SourcesKept
  <2> QED  BY <2>1, <2>2, <2>5, Asked, ChangeKeeps
<1>3. ASSUME NEW s \in SourceName, DeleteSub(s)  PROVE IInv'
  <2> DEFINE c == DeleteSubscription(mem, s)
  <2>1. who # "nobody" /\ s \in NamesIn(mem.subs) /\ s \in Name
    BY <1>3, Asked, ScopeFacts DEF DeleteSub, CanDeleteSubscription
  <2>2. /\ Shaped(c) /\ c.groups = mem.groups
        /\ NamesIn(c.subs) \subseteq NamesIn(mem.subs)
        /\ NamesIn(mem.subs) \ {s} \subseteq NamesIn(c.subs)
        /\ (Live(mem) => Live(c)) /\ (Aimed(mem) => Aimed(c))
        /\ Unrepeated(mem) => Unrepeated(c)
    BY <1>0, <2>1, DeleteSubFacts
  <2>0. Framed(mem, c) /\ mem.subs # <<>>
    BY <1>0, <2>1, FrameFacts DEF NamesIn
  <2>3. /\ cache' = Without(cache, s) \/ (WritesMayFail /\ UNCHANGED cache)
        /\ Saved(c, "owed") \/ Unsaved(c) \/ Killed
        /\ res' = IF who' = "nobody" THEN NoResults ELSE Without(res, s)
    BY <1>3 DEF DeleteSub
  <2> HIDE DEF c
  <2>4. Held(scope, c)
    BY <1>0, <2>0, <2>2, SourcesKept DEF Separate
  <2>5. DOMAIN Without(cache, s) = DOMAIN cache \ {s} /\ DOMAIN Without(res, s) = DOMAIN res \ {s}
    BY DEF Without
  <2>6. scope' = scope /\ WritesMayFail' = WritesMayFail /\ Fronts' = Fronts
    BY DEF WritesMayFail, Fronts
  <2>7. CASE disk' = c /\ mem' = c /\ who' = who
    BY <2>1, <2>2, <2>3, <2>4, <2>5, <2>6, <2>7 DEF IInv, Held
  <2>8. CASE disk' = disk /\ mem' = c /\ who' = who /\ WritesMayFail
    BY <2>1, <2>2, <2>3, <2>4, <2>5, <2>6, <2>8 DEF IInv
  <2>9. CASE disk' = disk /\ Killed
    <3>1. Gone
      BY <2>3, <2>9 DEF Killed, Gone
    <3>2. ~WritesMayFail => DOMAIN cache' \subseteq NamesIn(disk.subs)
      BY <2>3, <2>5 DEF IInv
    <3> QED  BY <1>0, <2>9, <3>1, <3>2, GoneKeeps
  <2> QED  BY <2>3, <2>7, <2>8, <2>9 DEF Saved, Unsaved, Killed
<1>4. ASSUME NEW s \in SourceName, NEW on \in BOOLEAN,
             NEW c, c = SetSubscriptionEnabled(mem, s, on), s \in NamesIn(mem.subs),
             who # "nobody", Change(c)
      PROVE  IInv'
  <2>1. /\ Shaped(c) /\ c.groups = mem.groups /\ NamesIn(c.subs) = NamesIn(mem.subs)
        /\ (Live(mem) => Live(c)) /\ (Aimed(mem) => Aimed(c))
        /\ Unrepeated(mem) => Unrepeated(c)
    BY <1>0, <1>4, SwitchSubFacts
  <2>3. Framed(mem, c) /\ mem.subs # <<>>
    BY <1>0, <1>4, FrameFacts DEF NamesIn
  <2>2. Held(scope, c)
    BY <1>0, <2>1, <2>3, SourcesKept DEF Separate
  <2> QED  BY <1>4, <2>1, <2>2, ChangeKeeps
<1>5. ASSUME NEW s \in SourceName, NEW on \in BOOLEAN, CliSetSub(s, on)  PROVE IInv'
  BY <1>4, <1>5, Asked DEF CliSetSub, CanDeleteSubscription
<1>6. ASSUME NEW s \in SourceName, TuiToggleSub(s)  PROVE IInv'
  <2>1. CASE IsOn(mem.subs, s)
    BY <1>4, <1>6, <2>1, Asked DEF TuiToggleSub, CanDeleteSubscription
  <2>2. CASE ~IsOn(mem.subs, s)
    BY <1>4, <1>6, <2>2, Asked DEF TuiToggleSub, CanDeleteSubscription
  <2> QED  BY <2>1, <2>2
<1>7. ASSUME NEW s \in SourceName, NEW r \in Result, TuiRefresh(s, r)  PROVE IInv'
  <2>1. /\ who = "tui" /\ s \in NamesIn(mem.subs) /\ res' = Over(Just(s, r), res)
        /\ \/ disk' = mem /\ cache' \in Cached(Just(s, r))
           \/ WritesMayFail /\ UNCHANGED <<disk, cache>>
        /\ UNCHANGED <<who, mem>>
    BY <1>7, Asked DEF TuiRefresh
  <2>2. DOMAIN Just(s, r) = {s}
    BY DEF Just
  <2>3. DOMAIN res' = {s} \union DOMAIN res
    BY <2>1, <2>2 DEF Over
  <2>4. \A k \in Cached(Just(s, r)) : DOMAIN k \subseteq {s} \union DOMAIN cache
    BY <2>2 DEF Cached, Over
  <2>5. scope' = scope /\ WritesMayFail' = WritesMayFail /\ Fronts' = Fronts
    BY DEF WritesMayFail, Fronts
  <2> QED  BY <1>0, <2>1, <2>3, <2>4, <2>5 DEF IInv, Held
<1>8. ASSUME NEW names \in SUBSET NamesIn(mem.subs), NEW ok \in SUBSET names,
             NEW fetched \in [ok -> Result], CliUpdate(names, fetched)
      PROVE  IInv'
  <2>1. /\ who = "cli" /\ cache' \in Cached(fetched) /\ UNCHANGED disk
        /\ Gone \/ (res' = Over(fetched, res) /\ UNCHANGED <<who, mem>>)
    BY <1>8, Asked DEF CliUpdate
  <2>2. DOMAIN fetched \subseteq NamesIn(mem.subs)
    OBVIOUS
  <2>3. DOMAIN Over(fetched, res) = DOMAIN fetched \union DOMAIN res
    BY DEF Over
  <2>4. \A k \in Cached(fetched) : DOMAIN k \subseteq DOMAIN fetched \union DOMAIN cache
    BY DEF Cached, Over
  <2>5. scope' = scope /\ WritesMayFail' = WritesMayFail /\ Fronts' = Fronts
    BY DEF WritesMayFail, Fronts
  <2>6. ~WritesMayFail => DOMAIN cache' \subseteq NamesIn(disk'.subs)
    BY <2>1, <2>2, <2>4 DEF IInv
  <2>7. CASE Gone
    BY <1>0, <2>1, <2>6, <2>7, GoneKeeps
  <2>8. CASE res' = Over(fetched, res) /\ UNCHANGED <<who, mem>>
    BY <1>0, <2>1, <2>2, <2>3, <2>5, <2>6, <2>8 DEF IInv
  <2> QED  BY <2>1, <2>7, <2>8
<1> QED  BY <1>1, <1>2, <1>3, <1>5, <1>6, <1>7, <1>8 DEF SubStep

\* Verbs on groups.
LEMMA GroupKeeps == ASSUME IInv, GroupStep, UNCHANGED scope PROVE IInv'
<1>0. Shaped(mem) /\ Filled(mem) /\ Housed(mem) /\ Held(scope, mem) /\ Kept(scope, disk)
  BY DEF IInv, Held, Kept
<1>1. ASSUME NEW g \in SourceName, who # "nobody", Change(AddLocalGroup(mem, g)),
             g \notin NamesIn(mem.groups), KeepsApart(scope) => g \notin NamesIn(mem.subs)
      PROVE  IInv'
  <2> DEFINE c == AddLocalGroup(mem, g)
  <2>1. g \in Name
    BY ScopeFacts
  <2>2. /\ Shaped(c) /\ c.subs = mem.subs /\ NamesIn(c.groups) = NamesIn(mem.groups) \union {g}
        /\ (Live(mem) => Live(c)) /\ (Aimed(mem) => Aimed(c))
        /\ Unrepeated(mem) => Unrepeated(c)
    BY <1>0, <1>1, <2>1, AddGroupFacts
  <2>4. Framed(mem, c)
    BY <1>0, FrameFacts
  <2> HIDE DEF c
  <2>3. Held(scope, c)
    BY <1>0, <1>1, <2>2, <2>4, SourcesKept DEF Separate
  <2> QED  BY <1>1, <2>2, <2>3, ChangeKeeps DEF c
<1>2. ASSUME NEW g \in SourceName, CliAddGroup(g)  PROVE IInv'
  BY <1>1, <1>2, Asked DEF CliAddGroup, CanAddLocalGroup
<1>3. ASSUME NEW g \in SourceName, TuiAddGroup(g)  PROVE IInv'
  BY <1>1, <1>3, Asked DEF TuiAddGroup, CanAddLocalGroup
<1>4. ASSUME NEW g \in SourceName, ToggleGroup(g)  PROVE IInv'
  <2> DEFINE c == ToggleLocalGroupEnabled(mem, g)
  <2>1. who # "nobody" /\ g \in NamesIn(mem.groups) /\ Change(c)
    BY <1>4, Asked DEF ToggleGroup
  <2>2. /\ Shaped(c) /\ c.subs = mem.subs /\ NamesIn(c.groups) = NamesIn(mem.groups)
        /\ (Live(mem) => Live(c)) /\ (Aimed(mem) => Aimed(c))
        /\ Unrepeated(mem) => Unrepeated(c)
    BY <1>0, <2>1, SwitchGroupFacts
  <2>4. Framed(mem, c)
    BY <1>0, FrameFacts
  <2> HIDE DEF c
  <2>3. Held(scope, c)
    BY <1>0, <2>2, <2>4, SourcesKept DEF Separate
  <2> QED  BY <2>1, <2>2, <2>3, ChangeKeeps
<1>5. ASSUME NEW g \in SourceName, NEW force \in BOOLEAN, DeleteGroup(g, force)  PROVE IInv'
  <2> DEFINE c == DeleteLocalGroup(mem, g, force)
  <2>1. /\ who # "nobody" /\ "rm-group" \in scope.verbs
        /\ CanDeleteLocalGroup(mem, g, force) /\ g \in NamesIn(mem.groups) /\ Change(c)
    BY <1>5, Asked DEF DeleteGroup, CanDeleteLocalGroup
  <2>2. /\ Shaped(c) /\ c.subs = mem.subs /\ NamesIn(c.groups) \subseteq NamesIn(mem.groups)
        /\ Live(mem) => Live(c)
        /\ Unrepeated(mem) => Unrepeated(c)
    BY <1>0, <2>1, DeleteGroupFacts
  <2>4. Filled(c) /\ Housed(c) /\ (Tidy(mem) => Tidy(c))
    BY <1>0, <2>1, DeleteGroupNodes
  <2> HIDE DEF c
  <2>3. Held(scope, c)
    BY <1>0, <2>1, <2>2, <2>4 DEF Held, Kept, Separate, KeepsTarget
  <2> QED  BY <2>1, <2>2, <2>3, ChangeKeeps
<1>6. ASSUME NEW g \in SourceName, NEW h \in SourceName, RenameGroup(g, h)  PROVE IInv'
  <2> DEFINE c == RenameLocalGroup(mem, g, h)
  <2>1. /\ who # "nobody" /\ "rename" \in scope.verbs
        /\ g \in NamesIn(mem.groups) /\ h \notin Sources(mem) /\ h \in Name /\ Change(c)
    BY <1>6, Asked, ScopeFacts DEF RenameGroup, CanRenameLocalGroup
  <2>2. /\ Shaped(c) /\ c.subs = mem.subs
        /\ NamesIn(c.groups) \subseteq NamesIn(mem.groups) \union {h}
        /\ Unrepeated(mem) /\ h \notin NamesIn(mem.groups) => Unrepeated(c)
    BY <1>0, <2>1, RenameGroupFacts
  <2>5. h \notin NamesIn(mem.groups)
    BY <2>1 DEF Sources
  <2>4. Filled(c) /\ Housed(c) /\ (Tidy(mem) => Tidy(c))
    BY <1>0, <2>1, <2>5, RenameGroupNodes
  <2> HIDE DEF c
  <2>3. Held(scope, c)
    BY <1>0, <2>1, <2>2, <2>4, <2>5
       DEF Held, Kept, Separate, Sources, KeepsActive, KeepsTarget
  <2> QED  BY <2>1, <2>2, <2>3, ChangeKeeps
<1> QED  BY <1>2, <1>3, <1>4, <1>5, <1>6 DEF GroupStep

\* Verbs on nodes: none but the one that creates a group is about sources.
\* Only verbs keep nodes tidy.
LEMMA NodeKeeps == ASSUME IInv, NodeStep, UNCHANGED scope PROVE IInv'
<1>0. Shaped(mem) /\ Filled(mem) /\ Housed(mem) /\ Held(scope, mem) /\ Kept(scope, disk)
  BY DEF IInv, Held, Kept
<1> SourceName \subseteq Name /\ Vias \subseteq AnyVia
  BY InstanceOK, ScopeFacts DEF IInv, Vias, AnyVia
<1>1. ASSUME NEW c, NEW x, c = [mem EXCEPT !.nodes = x]
      PROVE  Same(mem, c) /\ c.nodes = x /\ c.rules = mem.rules /\ c.mode = mem.mode
             /\ c.groups = mem.groups
  <2>1. Same(mem, c)
    BY <1>0, <1>1, OtherFacts
  <2>2. DOMAIN mem = {"subs", "groups", "nodes", "rules", "active", "target", "mode"}
    BY <1>0 DEF Shaped
  <2> QED  BY <1>1, <2>1, <2>2 DEF Same
<1>2. ASSUME NEW c, Same(mem, c), Filled(c), Housed(c), KeepsNodes(scope) /\ Tidy(mem) => Tidy(c),
             who # "nobody", Change(c)
      PROVE  IInv'
  <2>1. Held(scope, c) /\ c.subs = mem.subs
    BY <1>0, <1>2, SameKept
  <2> QED  BY <1>2, <2>1, ChangeKeeps
<1>3. ASSUME NEW n \in NodeName, NEW g \in SourceName, NEW via \in Vias, CliAdd(n, g, via)
      PROVE  IInv'
  <2> DEFINE c == CliAddNode(mem, g, n, via)
             x == Append(mem.nodes, NewNode(n, g, via))
  <2>1. /\ who # "nobody" /\ "add-node" \in scope.verbs /\ g \in Name /\ Change(c)
        /\ ~HasNode(mem, g, n)
    BY <1>3, Asked, ScopeFacts DEF CliAdd, CanCliAddNode
  <2>2. CASE g \in NamesIn(mem.groups)
    <3>1. c = [mem EXCEPT !.nodes = x]
      BY <1>0, <2>2 DEF CliAddNode, Shaped
    <3> HIDE DEF c
    <3>2. Same(mem, c) /\ c.nodes = x /\ c.rules = mem.rules /\ c.mode = mem.mode
          /\ c.groups = mem.groups
      BY <1>1, <3>1
    <3>3. Filled(c) /\ Housed(c) /\ (Tidy(mem) => Tidy(c))
      BY <1>0, <2>1, <2>2, <3>2, AddNodeFacts
    <3> QED  BY <1>2, <2>1, <3>2, <3>3
  <2>3. CASE g \notin NamesIn(mem.groups)
    <3>1. c = [mem EXCEPT !.nodes = x, !.groups = Append1(@, g, TRUE)]
      BY <1>0, <2>3 DEF CliAddNode, Shaped
    <3>2. \E y : c = [mem EXCEPT !.nodes = y, !.groups = Append1(@, g, TRUE)]
      BY <3>1
    <3>3. c.nodes = x /\ c.rules = mem.rules /\ c.mode = mem.mode
      BY <1>0, <3>1 DEF Shaped
    <3> HIDE DEF c
    <3>4. /\ Shaped(c) /\ c.subs = mem.subs /\ NamesIn(c.groups) = NamesIn(mem.groups) \union {g}
          /\ (Live(mem) => Live(c)) /\ (Aimed(mem) => Aimed(c))
          /\ Unrepeated(mem) /\ g \notin NamesIn(mem.groups) => Unrepeated(c)
      BY <1>0, <2>1, <3>2, AddGroupFacts
    <3>5. Filled(c) /\ Housed(c) /\ (Tidy(mem) => Tidy(c))
      BY <1>0, <2>1, <3>3, <3>4, AddNodeFacts
    <3> HIDE DEF x
    <3>6. Held(scope, c)
      BY <1>0, <2>1, <2>3, <3>4, <3>5 DEF Held, Kept, KeepsApart
    <3> QED  BY <2>1, <3>4, <3>6, ChangeKeeps
  <2> QED  BY <2>2, <2>3
<1>4. ASSUME NEW n \in NodeName, NEW g \in SourceName, NEW via \in Vias, TuiAddNode(n, g, via)
      PROVE  IInv'
  <2> DEFINE x == Append(mem.nodes, NewNode(n, g, via))
             c == [mem EXCEPT !.nodes = x]
  <2>1. /\ who = "tui" /\ ~KeepsNodes(scope) /\ mem' = c
        /\ disk' = mem' \/ (WritesMayFail /\ UNCHANGED disk)
        /\ UNCHANGED <<cache, who, res>>
    BY <1>4, Asked DEF TuiAddNode
  <2>2. c = [mem EXCEPT !.nodes = x]
    OBVIOUS
  <2> HIDE DEF c
  <2>3. Same(mem, c) /\ c.nodes = x /\ c.rules = mem.rules /\ c.mode = mem.mode
    BY <1>1, <2>2
  <2>4. Filled(c) /\ Housed(c)
    BY <1>0, <2>3, AddNodeFacts
  <2> HIDE DEF x
  <2>5. Held(scope, c) /\ c.subs = mem.subs
    BY <1>0, <2>1, <2>3, <2>4, SameKept
  <2>6. scope' = scope /\ WritesMayFail' = WritesMayFail /\ Fronts' = Fronts
    BY DEF WritesMayFail, Fronts
  <2> QED  BY <2>1, <2>5, <2>6 DEF IInv, Held
<1>5. ASSUME NEW n \in NodeName, NEW g \in SourceName, CliRemove(g, n)  PROVE IInv'
  <2> DEFINE c == CliRemoveNode(mem, g, n)
  <2>1. who # "nobody" /\ Change(c)
    BY <1>5, Asked DEF CliRemove
  <2>2. Same(mem, c)
    BY <1>1 DEF CliRemoveNode
  <2>3. Filled(c) /\ Housed(c) /\ (Tidy(mem) => Tidy(c))
    BY <1>0, RemoveNodeFacts
  <2> HIDE DEF c
  <2> QED  BY <1>2, <2>1, <2>2, <2>3
<1>6. ASSUME NEW n \in NodeName, NEW g \in SourceName, TuiRemoveNode(g, n)  PROVE IInv'
  <2> DEFINE k == IndexOf(mem.nodes, n)
             x == RemoveAt(mem.nodes, k)
             c == [mem EXCEPT !.nodes = x]
  <2>1. who # "nobody" /\ ~KeepsNodes(scope) /\ HasNode(mem, g, n)
        /\ Change([mem EXCEPT !.nodes = RemoveAt(@, IndexOf(@, n))])
    BY <1>6, Asked DEF TuiRemoveNode
  <2>2. [mem EXCEPT !.nodes = RemoveAt(@, IndexOf(@, n))] = c
    BY <1>0 DEF Shaped
  <2>3. c = [mem EXCEPT !.nodes = x]
    OBVIOUS
  <2> HIDE DEF c
  <2>4. Same(mem, c) /\ c.nodes = x /\ c.rules = mem.rules /\ c.mode = mem.mode
    BY <1>1, <2>3
  <2>5. mem.nodes \in Seq(Node)
    BY <1>0 DEF Filled
  <2>6. n \in NamesIn(mem.nodes)
    BY <2>1 DEF HasNode, NodesOf, NamesIn
  <2>7. k \in 1 .. Len(mem.nodes)
    BY <2>5, <2>6, IndexFound
  <2> HIDE DEF k
  <2>8. /\ x \in Seq(Node) /\ Len(x) = Len(mem.nodes) - 1
        /\ \A j \in 1 .. Len(mem.nodes) - 1 :
             x[j] = IF j < k THEN mem.nodes[j] ELSE mem.nodes[j + 1]
    BY <2>5, <2>7, RemoveAtFacts
  <2> HIDE DEF x
  <2>9. Filled(c)
    BY <1>0, <2>4, <2>8 DEF Filled
  <2>10. Housed(c)
    <3>1. DOMAIN x = 1 .. Len(mem.nodes) - 1 /\ DOMAIN mem.nodes = 1 .. Len(mem.nodes)
          /\ Len(mem.nodes) \in Nat
      BY <2>5, <2>8
    <3>2. \A j \in DOMAIN x : \E i \in DOMAIN mem.nodes : x[j] = mem.nodes[i]
      <4> TAKE j \in DOMAIN x
      <4>1. CASE j < k
        BY <2>7, <2>8, <3>1, <4>1
      <4>2. CASE ~(j < k)
        <5>1. x[j] = mem.nodes[j + 1] /\ j + 1 \in DOMAIN mem.nodes
          BY <2>8, <3>1, <4>2
        <5> QED  BY <5>1
      <4> QED  BY <4>1, <4>2
    <3> QED  BY <1>0, <2>4, <3>2 DEF Housed
  <2> QED  BY <1>2, <2>1, <2>2, <2>4, <2>9, <2>10
<1>7. ASSUME NEW n \in NodeName, NEW g \in SourceName, NEW h \in SourceName, CliMove(g, n, h)
      PROVE  IInv'
  <2> DEFINE c == MoveNode(mem, g, n, h)
  <2>1. /\ who # "nobody" /\ "mv-node" \in scope.verbs /\ HasNode(mem, g, n) /\ h \in Name
        /\ Change(c)
    BY <1>7, Asked DEF CliMove, CanMoveNode
  <2>2. Same(mem, c)
    <3>1. \E x : c = [mem EXCEPT !.nodes = x]
      BY <1>0 DEF MoveNode, Shaped
    <3> QED  BY <1>1, <3>1
  <2>3. Filled(c) /\ Housed(c)
    <3>1. \E v : v \in AnyVia
      BY DEF AnyVia
    <3> QED  BY <1>0, <2>1, <3>1, EditNodeFacts
  <2> HIDE DEF c
  <2> QED  BY <1>2, <2>1, <2>2, <2>3 DEF KeepsNodes
<1>8. ASSUME NEW n \in NodeName, NEW g \in SourceName, NEW h \in SourceName,
             NEW m \in NodeName, NEW via \in Vias, CliEdit(g, n, h, m, via)
      PROVE  IInv'
  <2> DEFINE c == EditNode(mem, g, n, h, m, via)
  <2>1. /\ who # "nobody" /\ HasNode(mem, g, n) /\ CanEditNode(mem, g, n, h, m)
        /\ h \in Name /\ Change(c)
    BY <1>8, Asked DEF CliEdit, CanEditNode
  <2>2. Same(mem, c)
    <3>1. \E x : c = [mem EXCEPT !.nodes = x]
      BY <1>0 DEF EditNode, Shaped
    <3> QED  BY <1>1, <3>1
  <2>3. Filled(c) /\ Housed(c) /\ (Tidy(mem) => Tidy(c))
    BY <1>0, <2>1, EditNodeFacts
  <2> HIDE DEF c
  <2> QED  BY <1>2, <2>1, <2>2, <2>3
<1> QED  BY <1>3, <1>4, <1>5, <1>6, <1>7, <1>8 DEF NodeStep

\* Verbs on the active source, the target, the mode and the rules.
LEMMA RoutingKeeps == ASSUME IInv, RoutingStep, UNCHANGED scope PROVE IInv'
<1>0. Shaped(mem) /\ Filled(mem) /\ Housed(mem) /\ Held(scope, mem) /\ Kept(scope, disk)
  BY DEF IInv, Held, Kept
<1>1. ASSUME NEW c, NEW x, \/ c = [mem EXCEPT !.mode = x] /\ x \in Modes
                           \/ c = [mem EXCEPT !.rules = x] /\ x \in Seq(Ref)
      PROVE  Held(scope, c) /\ c.subs = mem.subs
  <2>1. Same(mem, c)
    BY <1>0, <1>1, OtherFacts
  <2>2. DOMAIN mem = {"subs", "groups", "nodes", "rules", "active", "target", "mode"}
    BY <1>0 DEF Shaped
  <2>3. /\ c.nodes = mem.nodes /\ c.groups = mem.groups
        /\ c.mode \in Modes /\ c.rules \in Seq(Ref)
    BY <1>0, <1>1, <2>2 DEF Filled
  <2>4. Filled(c) /\ Housed(c) /\ (Tidy(mem) => Tidy(c))
    BY <1>0, <2>3 DEF Filled, Housed, Tidy, Grouped, Distinct
  <2> QED  BY <1>0, <2>1, <2>4, SameKept
<1>2. ASSUME NEW s \in SourceName, SetActive(s)  PROVE IInv'
  <2> DEFINE c == SetActiveSource(mem, s)
  <2>1. who # "nobody" /\ CanSetActiveSource(mem, s) /\ s \in Name /\ Change(c)
    BY <1>2, Asked, ScopeFacts DEF SetActive
  <2>2. /\ Shaped(c) /\ c.subs = mem.subs /\ c.groups = mem.groups /\ Live(c) /\ Aimed(c)
    BY <1>0, <2>1, SetActiveFacts
  <2>3. Framed(mem, c)
    BY <1>0, FrameFacts
  <2> HIDE DEF c
  <2>4. Held(scope, c)
    BY <1>0, <2>2, <2>3, SourcesKept DEF Separate, Unrepeated
  <2> QED  BY <2>1, <2>2, <2>4, ChangeKeeps
<1>3. ASSUME NEW t \in Ref, CliSetTarget(t)  PROVE IInv'
  <2> DEFINE c == SetTarget(mem, t)
  <2>1. who # "nobody" /\ ValidTarget(mem, t) /\ disk' = c /\ Gone /\ UNCHANGED cache
    BY <1>3, Asked DEF CliSetTarget
  <2>2. /\ Shaped(c) /\ c.subs = mem.subs /\ c.groups = mem.groups
        /\ (Live(mem) => Live(c)) /\ Aimed(c)
    BY <1>0, <2>1, SetTargetFacts
  <2>3. Framed(mem, c)
    BY <1>0, FrameFacts
  <2> HIDE DEF c
  <2>4. Held(scope, c)
    BY <1>0, <2>2, <2>3, SourcesKept DEF Separate, Unrepeated
  <2>5. ~WritesMayFail => DOMAIN cache' \subseteq NamesIn(disk'.subs)
    BY <2>1, <2>2 DEF IInv
  <2> QED  BY <2>1, <2>4, <2>5, GoneKeeps DEF Held
<1>4. ASSUME NEW m \in Modes, SetRoutingMode(m)  PROVE IInv'
  <2>1. who # "nobody" /\ Change([mem EXCEPT !.mode = m])
    BY <1>4, Asked DEF SetRoutingMode, SetMode
  <2> QED  BY <1>1, <2>1, ChangeKeeps
<1>5. ASSUME NEW t \in Ref, CliAddRule(t)  PROVE IInv'
  <2> DEFINE x == Append(mem.rules, t)
             c == [mem EXCEPT !.rules = x]
  <2>1. who # "nobody" /\ Change(c)
    BY <1>0, <1>5, Asked DEF CliAddRule, AddRule, Shaped
  <2>2. x \in Seq(Ref)
    BY <1>0 DEF Filled
  <2> HIDE DEF x
  <2>3. Held(scope, c) /\ c.subs = mem.subs
    BY <1>1, <2>2
  <2> HIDE DEF c
  <2> QED  BY <2>1, <2>3, ChangeKeeps
<1>6. ASSUME NEW i \in DOMAIN mem.rules
      PROVE  Held(scope, RemoveRule(mem, i)) /\ RemoveRule(mem, i).subs = mem.subs
  <2> DEFINE x == RemoveAt(mem.rules, i)
  <2>1. RemoveRule(mem, i) = [mem EXCEPT !.rules = x]
    BY <1>0 DEF RemoveRule, Shaped
  <2>2. x \in Seq(Ref)
    <3>1. mem.rules \in Seq(Ref)
      BY <1>0 DEF Filled
    <3> HIDE DEF x
    <3>2. i \in 1 .. Len(mem.rules)
      BY <3>1
    <3> QED  BY <3>1, <3>2, RemoveAtFacts DEF x
  <2> HIDE DEF x
  <2> QED  BY <1>1, <2>1, <2>2
<1>7. ASSUME NEW i \in DOMAIN mem.rules, CliRemoveRule(i)  PROVE IInv'
  BY <1>6, <1>7, Asked, ChangeKeeps DEF CliRemoveRule
<1>8. ASSUME NEW i \in DOMAIN mem.rules, TuiRemoveRule(i)  PROVE IInv'
  <2> DEFINE c == RemoveRule(mem, i)
  <2>1. /\ who = "tui" /\ UNCHANGED <<cache, res>>
        /\ Saved(c, phase) \/ Unsaved(c)
    BY <1>8, Asked DEF TuiRemoveRule
  <2>2. Held(scope, c) /\ c.subs = mem.subs
    BY <1>6
  <2> HIDE DEF c
  <2>3. scope' = scope /\ WritesMayFail' = WritesMayFail /\ Fronts' = Fronts
    BY DEF WritesMayFail, Fronts
  <2>4. CASE disk' = c /\ mem' = c /\ who' = who
    BY <2>1, <2>2, <2>3, <2>4 DEF IInv, Held
  <2>5. CASE disk' = disk /\ mem' = c /\ who' = who /\ WritesMayFail
    BY <2>1, <2>2, <2>3, <2>5 DEF IInv
  <2> QED  BY <2>1, <2>4, <2>5 DEF Saved, Unsaved
<1> QED  BY <1>2, <1>3, <1>4, <1>5, <1>7, <1>8 DEF RoutingStep

-----------------------------------------------------------------------------
(* The invariant.                                                          *)

\* It holds at first.
LEMMA Starts == Init => IInv
<1> SUFFICES ASSUME Init PROVE IInv
  OBVIOUS
<1>1. /\ scope \in Scopes /\ disk \in scope.disks /\ who = "nobody" /\ phase = "ready"
      /\ mem = Defaults
  BY DEF Init
<1>2. DOMAIN cache = {} /\ DOMAIN res = {}
  BY DEF Init, NoResults
<1> HIDE DEF Defaults
<1> QED  BY <1>1, <1>2, DiskKept, DefaultsKept DEF IInv

\* Every step keeps it.
LEMMA StepKeeps == IInv /\ [Next]_vars => IInv'
<1> SUFFICES ASSUME IInv, [Next]_vars PROVE IInv'
  OBVIOUS
<1>0. Shaped(mem) /\ Filled(mem) /\ Housed(mem) /\ Held(scope, mem) /\ Kept(scope, disk)
  BY DEF IInv, Held, Kept
<1>1. /\ Held(scope, Load(disk)) /\ Kept(scope, Load(disk)) /\ Load(disk).subs = disk.subs
      /\ Shaped(Load(disk))
  BY <1>0, LoadKept DEF Held, Kept
<1>2. UNCHANGED scope => scope' = scope /\ WritesMayFail' = WritesMayFail /\ Fronts' = Fronts
  BY DEF WritesMayFail, Fronts
<1>3. DOMAIN NoResults = {}
  BY DEF NoResults
<1>4. CASE StartCli /\ UNCHANGED scope
  <2>1. /\ who = "nobody" /\ who' = "cli" /\ "cli" \in Fronts
        /\ mem' = Load(disk) /\ disk' = Load(disk) /\ UNCHANGED <<cache, res>>
    BY <1>4 DEF StartCli
  <2>2. DOMAIN res = {}
    BY <2>1 DEF IInv
  <2> QED  BY <1>1, <1>2, <1>4, <2>1, <2>2 DEF IInv
<1>5. CASE StartTui /\ UNCHANGED scope
  <2>1. /\ who' = "tui" /\ "tui" \in Fronts /\ UNCHANGED cache
        /\ mem' = Load(disk) /\ disk' = Load(disk)
        /\ res' = Loaded(Load(disk), NoResults, cache)
    BY <1>5 DEF StartTui
  <2>2. DOMAIN res' \subseteq NamesIn(Load(disk).subs)
    BY <1>1, <1>3, <2>1, LoadedOwned
  <2> QED  BY <1>1, <1>2, <1>5, <2>1, <2>2 DEF IInv
<1>6. CASE Reassemble /\ UNCHANGED scope
  <2>1. /\ UNCHANGED <<disk, cache, who, mem>> /\ res' = Loaded(mem, res, cache)
        /\ phase = "owed"
    BY <1>6 DEF Reassemble
  <2>2. DOMAIN res' \subseteq NamesIn(mem.subs)
    BY <1>0, <2>1, LoadedOwned DEF IInv
  <2> QED  BY <1>2, <1>6, <2>1, <2>2 DEF IInv
<1>7. CASE CliExit /\ UNCHANGED scope
  BY <1>1, <1>7, GoneKeeps DEF CliExit, IInv
<1>8. CASE Die /\ UNCHANGED scope
  BY <1>0, <1>8, GoneKeeps DEF Die, IInv
<1>9. CASE UNCHANGED vars
  BY <1>2, <1>9 DEF IInv, vars
<1> QED  BY <1>4, <1>5, <1>6, <1>7, <1>8, <1>9, SubKeeps, GroupKeeps, NodeKeeps, RoutingKeeps
         DEF Next

-----------------------------------------------------------------------------
(* What Assemble is given.                                                 *)

\* The results are of the instance.
Fed(sc, r) == DOMAIN r \subseteq Name /\ \A s \in DOMAIN r : r[s] \in sc.results

\* A node's name and dialer.
LEMMA NodeFields ==
    /\ \A e \in Node : e.name \in NodeName /\ e.via \in AnyVia
    /\ AnyTable = UNION {[S -> [name : NodeName, via : AnyVia]] : S \in SUBSET Nat}
<1> DEFINE G == Name \union {""}
<1>1. Node = [name : NodeName, group : G, via : AnyVia]
  BY DEF Node, AnyVia
<1>2. AnyTable = UNION {[S -> [name : NodeName, via : AnyVia]] : S \in SUBSET Nat}
  BY DEF AnyTable, AnyVia
<1> HIDE DEF G
<1> QED  BY <1>1, <1>2

\* A local group's nodes are a table.
LEMMA LocalGroupTyped ==
    ASSUME NEW cfg, Filled(cfg), NEW g \in Name
    PROVE  LocalGroup(cfg, g) \in AnyGroup
<1> DEFINE entry(i) == [name |-> cfg.nodes[i].name, via |-> cfg.nodes[i].via]
           x == [i \in NodesOf(cfg, g) |-> entry(i)]
<1>1. cfg.nodes \in Seq(Node)
  BY DEF Filled
<1>2. NodesOf(cfg, g) \subseteq Nat /\ NodesOf(cfg, g) \subseteq DOMAIN cfg.nodes
  BY <1>1 DEF NodesOf
<1>3. \A i \in NodesOf(cfg, g) : cfg.nodes[i] \in Node
  BY <1>1, <1>2
<1>4. \A i \in NodesOf(cfg, g) : entry(i) \in [name : NodeName, via : AnyVia]
  BY <1>3, NodeFields
<1> HIDE DEF entry
<1>5. x \in [NodesOf(cfg, g) -> [name : NodeName, via : AnyVia]]
  BY <1>4
<1> HIDE DEF x
<1>6. x \in AnyTable
  BY <1>2, <1>5, NodeFields
<1>7. LocalGroup(cfg, g) = [name |-> g, rules |-> <<>>, nodes |-> x]
  BY DEF LocalGroup, x, entry
<1>8. <<>> \in Seq(Ref)
  OBVIOUS
<1> QED  BY <1>6, <1>7, <1>8 DEF AnyGroup

\* Each enabled subscription with a result, and each enabled group, once.
LEMMA InputFacts ==
    ASSUME NEW sc \in Scopes, NEW c, Shaped(c), Filled(c), NEW r, Fed(sc, r)
    PROVE  LET in == InputOf(c, r) IN
           /\ Well(in) /\ in.rules = c.rules /\ in.mode = c.mode
           /\ \E f \in [DOMAIN in.subs -> DOMAIN c.subs] :
                /\ \A i, j \in DOMAIN in.subs : f[i] = f[j] => i = j
                /\ \A i \in DOMAIN in.subs : LET s == c.subs[f[i]].name IN
                     s \in DOMAIN r /\ in.subs[i] = SubscriptionGroup(s, r[s])
           /\ \E f \in [DOMAIN in.locals -> DOMAIN c.groups] :
                /\ \A i, j \in DOMAIN in.locals : f[i] = f[j] => i = j
                /\ \A i \in DOMAIN in.locals :
                     in.locals[i] = LocalGroup(c, c.groups[f[i]].name)
<1> DEFINE chosen == {i \in OnIndices(c.subs) : c.subs[i].name \in DOMAIN r}
           known  == Filtered(c.subs, chosen)
           on     == Filtered(c.groups, OnIndices(c.groups))
           subs   == [i \in DOMAIN known |-> SubscriptionGroup(known[i].name, r[known[i].name])]
           locals == [i \in DOMAIN on |-> LocalGroup(c, on[i].name)]
           in == InputOf(c, r)
<1>1. /\ in.subs = subs /\ in.locals = locals /\ in.rules = c.rules /\ in.active = c.active
      /\ in.target = c.target /\ in.mode = c.mode
  BY DEF InputOf
<1> HIDE DEF in
<1>2. c.subs \in Seq(Source) /\ c.groups \in Seq(Source)
  BY DEF Shaped
<1>3. chosen \subseteq DOMAIN c.subs /\ OnIndices(c.groups) \subseteq DOMAIN c.groups
  BY DEF OnIndices
<1>4. \A i \in chosen : c.subs[i].name \in DOMAIN r
  OBVIOUS
<1> HIDE DEF chosen
<1>5. /\ known \in Seq(Source)
      /\ \E f \in [DOMAIN known -> chosen] :
           /\ \A i, j \in DOMAIN known : f[i] = f[j] => i = j
           /\ \A i \in DOMAIN known : known[i] = c.subs[f[i]]
  <2>1. c.subs \in Seq(Source) /\ chosen \subseteq DOMAIN c.subs
    BY <1>2, <1>3
  <2> QED  BY <2>1, FilteredFacts
<1>6. /\ on \in Seq(Source)
      /\ \E e \in [DOMAIN on -> OnIndices(c.groups)] :
           /\ \A i, j \in DOMAIN on : e[i] = e[j] => i = j
           /\ \A i \in DOMAIN on : on[i] = c.groups[e[i]]
  BY <1>2, <1>3, FilteredFacts
<1> HIDE DEF known, on
<1>7. PICK f \in [DOMAIN known -> chosen] :
        /\ \A i, j \in DOMAIN known : f[i] = f[j] => i = j
        /\ \A i \in DOMAIN known : known[i] = c.subs[f[i]]
  BY <1>5
<1>8. PICK e \in [DOMAIN on -> OnIndices(c.groups)] :
        /\ \A i, j \in DOMAIN on : e[i] = e[j] => i = j
        /\ \A i \in DOMAIN on : on[i] = c.groups[e[i]]
  BY <1>6
<1>9. /\ DOMAIN known = 1 .. Len(known) /\ Len(known) \in Nat
      /\ DOMAIN on = 1 .. Len(on) /\ Len(on) \in Nat
  BY <1>5, <1>6
<1>10. \A i \in DOMAIN known : known[i].name \in Name /\ known[i].name \in DOMAIN r
  <2>1. \A i \in DOMAIN known : known[i] \in Source
    BY <1>5
  <2> QED  BY <1>4, <1>7, <2>1 DEF Source
<1>11. \A i \in DOMAIN on : on[i].name \in Name
  <2>1. \A i \in DOMAIN on : on[i] \in Source
    BY <1>6
  <2> QED  BY <2>1 DEF Source
<1>12. \A s \in DOMAIN r : s \in Name /\ SubscriptionGroup(s, r[s]) \in AnyGroup
  <2> TAKE s \in DOMAIN r
  <2>1. s \in Name /\ r[s] \in [nodes : NodeTable, rules : Seq(Ref)]
    BY InstanceOK DEF Fed
  <2>2. r[s].nodes \in AnyTable /\ r[s].rules \in Seq(Ref)
    BY <2>1, TablesWell
  <2> QED  BY <2>1, <2>2 DEF SubscriptionGroup, AnyGroup
<1>13. subs \in Seq(AnyGroup)
  <2>1. \A i \in DOMAIN known : SubscriptionGroup(known[i].name, r[known[i].name]) \in AnyGroup
    BY <1>10, <1>12
  <2>2. subs \in [1 .. Len(known) -> AnyGroup]
    BY <1>9, <2>1
  <2> HIDE DEF subs
  <2> QED  BY <1>9, <2>2
<1>14. locals \in Seq(AnyGroup)
  <2>1. \A i \in DOMAIN on : LocalGroup(c, on[i].name) \in AnyGroup
    BY <1>11, LocalGroupTyped
  <2>2. locals \in [1 .. Len(on) -> AnyGroup]
    BY <1>9, <2>1
  <2> HIDE DEF locals
  <2> QED  BY <1>9, <2>2
<1>15. /\ DOMAIN subs = DOMAIN known
       /\ \A i \in DOMAIN subs : LET s == c.subs[f[i]].name IN
            s \in DOMAIN r /\ subs[i] = SubscriptionGroup(s, r[s])
  BY <1>7, <1>10
<1>16. /\ DOMAIN locals = DOMAIN on
       /\ \A i \in DOMAIN locals : locals[i] = LocalGroup(c, c.groups[e[i]].name)
  BY <1>8
<1> HIDE DEF subs, locals
<1>17. f \in [DOMAIN subs -> DOMAIN c.subs] /\ e \in [DOMAIN locals -> DOMAIN c.groups]
  BY <1>3, <1>7, <1>8, <1>15, <1>16
<1>18. Well(in)
  BY <1>1, <1>13, <1>14 DEF Well, Filled, Shaped
<1>19. /\ \A i, j \in DOMAIN subs : f[i] = f[j] => i = j
       /\ \A i, j \in DOMAIN locals : e[i] = e[j] => i = j
  BY <1>7, <1>8, <1>15, <1>16
<1> QED  BY <1>1, <1>15, <1>16, <1>17, <1>18, <1>19 DEF in

\* The sources Assemble is given have names of their own, and so have the nodes
\* of each, if the configuration's do and the results' do.
LEMMA InputApart ==
    ASSUME AutosApart, NEW sc \in Scopes, NEW c, Shaped(c), Filled(c), NEW r, Fed(sc, r),
           Unrepeated(c), Distinct(c), NamesIn(c.subs) \intersect NamesIn(c.groups) = {},
           \A f \in sc.results : \A k, l \in DOMAIN f.nodes :
             f.nodes[k].name = f.nodes[l].name => k = l
    PROVE  NamesUnique(Assemble(InputOf(c, r)))
<1> DEFINE in == InputOf(c, r)
           all == All(in)
<1>1. Well(in)
  BY InputFacts
<1>2. PICK f \in [DOMAIN in.subs -> DOMAIN c.subs] :
        /\ \A i, j \in DOMAIN in.subs : f[i] = f[j] => i = j
        /\ \A i \in DOMAIN in.subs : LET s == c.subs[f[i]].name IN
             s \in DOMAIN r /\ in.subs[i] = SubscriptionGroup(s, r[s])
  BY InputFacts
<1>3. PICK e \in [DOMAIN in.locals -> DOMAIN c.groups] :
        /\ \A i, j \in DOMAIN in.locals : e[i] = e[j] => i = j
        /\ \A i \in DOMAIN in.locals : in.locals[i] = LocalGroup(c, c.groups[e[i]].name)
  BY InputFacts
<1> HIDE DEF in
<1>4. \A i \in DOMAIN all : all[i].name \in Name
  BY <1>1, SourcesTyped
<1>5. in.subs \in Seq(AnyGroup) /\ in.locals \in Seq(AnyGroup)
  BY <1>1 DEF Well
<1>6. \A x, y \in Seq(AnyGroup) :
        /\ \A i \in DOMAIN (x \o y) :
             \/ i \in DOMAIN x /\ (x \o y)[i] = x[i]
             \/ i - Len(x) \in DOMAIN y /\ i \notin DOMAIN x /\ (x \o y)[i] = y[i - Len(x)]
        /\ DOMAIN (x \o y) \subseteq Int /\ Len(x) \in Int
  OBVIOUS
<1>7. /\ \A i \in DOMAIN all :
           \/ i \in DOMAIN in.subs /\ all[i] = in.subs[i]
           \/ i - Len(in.subs) \in DOMAIN in.locals /\ i \notin DOMAIN in.subs
              /\ all[i] = in.locals[i - Len(in.subs)]
      /\ DOMAIN all \subseteq Int /\ Len(in.subs) \in Int
  BY <1>5, <1>6 DEF All
<1> DEFINE sub(i)   == c.subs[f[i]].name
           group(i) == c.groups[e[i]].name
<1>8. \A i \in DOMAIN in.subs : /\ in.subs[i].name = sub(i) /\ in.subs[i].nodes = r[sub(i)].nodes
                                /\ sub(i) \in DOMAIN r /\ f[i] \in DOMAIN c.subs
  <2>1. \A s, x : SubscriptionGroup(s, x).name = s /\ SubscriptionGroup(s, x).nodes = x.nodes
    BY DEF SubscriptionGroup
  <2>2. \A i \in DOMAIN in.subs : sub(i) \in DOMAIN r /\ f[i] \in DOMAIN c.subs
                                  /\ in.subs[i] = SubscriptionGroup(sub(i), r[sub(i)])
    BY <1>2
  <2> HIDE DEF sub
  <2> QED  BY <2>1, <2>2
<1>9. \A i \in DOMAIN in.locals :
        /\ in.locals[i].name = group(i) /\ e[i] \in DOMAIN c.groups
        /\ in.locals[i].nodes = LocalGroup(c, group(i)).nodes
  <2>1. \A g : LocalGroup(c, g).name = g
    BY DEF LocalGroup
  <2>2. \A i \in DOMAIN in.locals : /\ e[i] \in DOMAIN c.groups
                                    /\ in.locals[i] = LocalGroup(c, group(i))
    BY <1>3
  <2> HIDE DEF group
  <2> QED  BY <2>1, <2>2
<1>10. \A i, j \in DOMAIN in.subs : in.subs[i].name = in.subs[j].name => i = j
  BY <1>2, <1>8 DEF Unrepeated, Once, sub
<1>11. \A i, j \in DOMAIN in.locals : in.locals[i].name = in.locals[j].name => i = j
  BY <1>3, <1>9 DEF Unrepeated, Once
<1>12. \A i \in DOMAIN in.subs, j \in DOMAIN in.locals : in.subs[i].name # in.locals[j].name
  <2>1. \A i \in DOMAIN in.subs : in.subs[i].name \in NamesIn(c.subs)
    BY <1>8 DEF NamesIn
  <2>2. \A j \in DOMAIN in.locals : in.locals[j].name \in NamesIn(c.groups)
    BY <1>9 DEF NamesIn
  <2> QED  BY <2>1, <2>2
<1>13. \A i \in DOMAIN in.subs : \A k, l \in DOMAIN in.subs[i].nodes :
         in.subs[i].nodes[k].name = in.subs[i].nodes[l].name => k = l
  <2> TAKE i \in DOMAIN in.subs
  <2>1. in.subs[i].nodes = r[sub(i)].nodes /\ sub(i) \in DOMAIN r
    BY <1>8
  <2> HIDE DEF sub
  <2>2. r[sub(i)] \in sc.results
    BY <2>1 DEF Fed
  <2> QED  BY <2>1, <2>2
<1>14. \A i \in DOMAIN in.locals : \A k, l \in DOMAIN in.locals[i].nodes :
         in.locals[i].nodes[k].name = in.locals[i].nodes[l].name => k = l
  <2> TAKE i \in DOMAIN in.locals
  <2> DEFINE g == group(i)
             x == in.locals[i].nodes
  <2>0. x = LocalGroup(c, g).nodes
    BY <1>9
  <2>1. /\ DOMAIN x = NodesOf(c, g)
        /\ \A k \in NodesOf(c, g) : x[k].name = c.nodes[k].name
    <3> HIDE DEF x, g
    <3> QED  BY <2>0 DEF LocalGroup
  <2>2. \A k \in NodesOf(c, g) : k \in DOMAIN c.nodes /\ c.nodes[k].group = g
    BY DEF NodesOf
  <2> HIDE DEF x, g
  <2>3. ASSUME NEW k \in DOMAIN x, NEW l \in DOMAIN x, x[k].name = x[l].name
        PROVE  k = l
    <3>1. Home(c.nodes[k]) = Home(c.nodes[l])
      BY <2>1, <2>2 DEF Home
    <3> QED  BY <2>1, <2>2, <2>3, <3>1 DEF Distinct
  <2> QED  BY <2>3 DEF x
<1> HIDE DEF all
<1>15. \A i, j \in DOMAIN all :
         /\ all[i].name = all[j].name => i = j
         /\ all[i].name # AutoOf(all[j].name)
  <2> TAKE i \in DOMAIN all, j \in DOMAIN all
  <2>1. all[i].name # AutoOf(all[j].name)
    BY <1>4 DEF AutosApart
  <2>2. ASSUME all[i].name = all[j].name PROVE i = j
    <3>1. CASE i \in DOMAIN in.subs /\ j \in DOMAIN in.subs
      BY <1>5, <1>7, <1>10, <2>2, <3>1
    <3>2. CASE i \notin DOMAIN in.subs /\ j \notin DOMAIN in.subs
      <4>1. i - Len(in.subs) = j - Len(in.subs)
        BY <1>7, <1>11, <2>2, <3>2
      <4>2. i \in Int /\ j \in Int /\ Len(in.subs) \in Int
        BY <1>7
      <4> QED  BY <4>1, <4>2
    <3>3. CASE i \in DOMAIN in.subs /\ j \notin DOMAIN in.subs
      BY <1>7, <1>12, <2>2, <3>3
    <3>4. CASE i \notin DOMAIN in.subs /\ j \in DOMAIN in.subs
      BY <1>7, <1>12, <2>2, <3>4
    <3> QED  BY <3>1, <3>2, <3>3, <3>4
  <2> QED  BY <2>1, <2>2
<1>16. \A i \in DOMAIN all : \A k, l \in DOMAIN all[i].nodes :
         all[i].nodes[k].name = all[i].nodes[l].name => k = l
  BY <1>7, <1>13, <1>14
<1> QED  BY <1>1, <1>15, <1>16, NamesOfAssemble DEF in, all

\* Results that agree on the enabled subscriptions are used alike.
LEMMA SameInput ==
    ASSUME NEW c, Shaped(c), NEW r, NEW k,
           \A s \in EnabledIn(c.subs) :
             (s \in DOMAIN r <=> s \in DOMAIN k) /\ (s \in DOMAIN r => r[s] = k[s])
    PROVE  InputOf(c, r) = InputOf(c, k)
<1> DEFINE chosen(x) == {i \in OnIndices(c.subs) : c.subs[i].name \in DOMAIN x}
           known == Filtered(c.subs, chosen(r))
           subs(x) == [i \in DOMAIN known |-> SubscriptionGroup(known[i].name, x[known[i].name])]
           locals == LET on == Filtered(c.groups, OnIndices(c.groups))
                     IN  [i \in DOMAIN on |-> LocalGroup(c, on[i].name)]
           rest(y) == [subs |-> y, locals |-> locals, rules |-> c.rules, active |-> c.active,
                       target |-> c.target, mode |-> c.mode]
<1>1. \A i \in OnIndices(c.subs) : c.subs[i].name \in EnabledIn(c.subs)
  BY DEF EnabledIn
<1>2. chosen(r) = chosen(k)
  BY <1>1
<1>3. InputOf(c, r) = rest(subs(r))
  BY DEF InputOf
<1>4. InputOf(c, k) = rest(subs(k))
  <2> DEFINE other == Filtered(c.subs, chosen(k))
             all(z) == [i \in DOMAIN z |-> SubscriptionGroup(z[i].name, k[z[i].name])]
  <2>1. InputOf(c, k) = rest(all(other))
    BY DEF InputOf
  <2>2. other = known
    <3> HIDE DEF chosen
    <3> QED  BY <1>2
  <2>3. subs(k) = all(known)
    OBVIOUS
  <2> HIDE DEF rest, all, other, known, subs
  <2> QED  BY <2>1, <2>2, <2>3
<1>5. \A i \in DOMAIN known : known[i].name \in EnabledIn(c.subs) /\ known[i].name \in DOMAIN r
  <2>1. c.subs \in Seq(Source) /\ chosen(r) \subseteq DOMAIN c.subs
    BY DEF Shaped, OnIndices
  <2>2. \A i \in chosen(r) : c.subs[i].name \in EnabledIn(c.subs) /\ c.subs[i].name \in DOMAIN r
    BY <1>1
  <2> HIDE DEF chosen
  <2>3. \E f \in [DOMAIN known -> chosen(r)] : \A i \in DOMAIN known : known[i] = c.subs[f[i]]
    <3> DEFINE P == chosen(r)
    <3> HIDE DEF P
    <3>1. \E f \in [DOMAIN Filtered(c.subs, P) -> P] :
            \A i \in DOMAIN Filtered(c.subs, P) : Filtered(c.subs, P)[i] = c.subs[f[i]]
      <4>1. c.subs \in Seq(Source) /\ P \subseteq DOMAIN c.subs
        BY <2>1 DEF P
      <4> QED  BY <4>1, FilteredFacts
    <3> QED  BY <3>1 DEF P
  <2> HIDE DEF known
  <2> QED  BY <2>2, <2>3
<1> HIDE DEF known
<1>6. subs(r) = subs(k)
  <2>1. \A i \in DOMAIN known : r[known[i].name] = k[known[i].name]
    BY <1>5
  <2> QED  BY <2>1
<1> HIDE DEF subs, rest
<1> QED  BY <1>3, <1>4, <1>6

\* Proxies and groups depend on the sources alone.
LEMMA SameSources ==
    ASSUME NEW a, NEW b, a.subs = b.subs, a.locals = b.locals
    PROVE  EmitProxies(a) = EmitProxies(b) /\ EmitGroups(a) = EmitGroups(b)
<1> DEFINE names(all) == Reserved \union
             UNION {{all[i].name, AutoOf(all[i].name)} : i \in DOMAIN all}
           holders(all, n) == {i \in DOMAIN all : n \in NamesOfNodes(all[i])}
           qualified(all, n) ==
             NodeOf(all[CHOOSE i \in holders(all, n) : \A j \in holders(all, n) : j <= i].name, n)
           dialer(all, via) ==
             IF via = "" \/ via \in names(all) \/ holders(all, via) = {} THEN via
             ELSE qualified(all, via)
           proxies(all) == UNION {{[owner |-> i, slot |-> k,
                                    name   |-> ProxyName(all[i], k),
                                    dialer |-> dialer(all, all[i].nodes[k].via)]
                                    : k \in DOMAIN all[i].nodes} : i \in DOMAIN all}
           groups(all) ==
             UNION {EmitPair(i, all[i]) : i \in {j \in DOMAIN all : DOMAIN all[j].nodes # {}}}
<1>1. All(a) = All(b)
  BY DEF All
<1>2. EmitProxies(a) = proxies(All(a)) /\ EmitProxies(b) = proxies(All(b))
  BY Zenon DEF EmitProxies, Dialer, GroupNames, Holders, Qualified
<1>3. EmitGroups(a) = groups(All(a)) /\ EmitGroups(b) = groups(All(b))
  BY Zenon DEF EmitGroups, Populated
<1> HIDE DEF proxies, groups
<1> QED  BY <1>1, <1>2, <1>3

\* Rules are no matter of proxies and groups.
LEMMA RulesAside ==
    ASSUME NEW c, NEW d, NEW r, d.subs = c.subs, d.groups = c.groups, d.nodes = c.nodes
    PROVE  /\ Assemble(InputOf(d, r)).proxies = Assemble(InputOf(c, r)).proxies
           /\ Assemble(InputOf(d, r)).groups = Assemble(InputOf(c, r)).groups
<1> DEFINE subs(list) ==
             LET known == Filtered(list, {i \in OnIndices(list) : list[i].name \in DOMAIN r})
             IN  [i \in DOMAIN known |-> SubscriptionGroup(known[i].name, r[known[i].name])]
           table(nodes, g) == [i \in {j \in DOMAIN nodes : nodes[j].group = g} |->
                                 [name |-> nodes[i].name, via |-> nodes[i].via]]
           locals(list, nodes) ==
             LET on == Filtered(list, OnIndices(list))
             IN  [i \in DOMAIN on |-> [name  |-> on[i].name, rules |-> <<>>,
                                       nodes |-> table(nodes, on[i].name)]]
<1>1. InputOf(c, r).subs = subs(c.subs) /\ InputOf(d, r).subs = subs(d.subs)
  BY DEF InputOf
<1>2. /\ InputOf(c, r).locals = locals(c.groups, c.nodes)
      /\ InputOf(d, r).locals = locals(d.groups, d.nodes)
  BY DEF InputOf, LocalGroup, NodesOf
<1> HIDE DEF subs, locals
<1>3. InputOf(d, r).subs = InputOf(c, r).subs /\ InputOf(d, r).locals = InputOf(c, r).locals
  BY <1>1, <1>2
<1>4. \A in : Assemble(in).proxies = EmitProxies(in) /\ Assemble(in).groups = EmitGroups(in)
  BY DEF Assemble
<1> QED  BY <1>3, <1>4, SameSources

-----------------------------------------------------------------------------
(* What is written.  Each document is Assemble's, of a kept configuration  *)
(* and of results of the instance; the local rules of a verb that is done  *)
(* come first in it; and, while writes succeed, whoever reassembles from   *)
(* the cache alone comes to the same sources.                              *)

Emitted(sc, d) == \E c, r : Kept(sc, c) /\ Fed(sc, r) /\ d = Assemble(InputOf(c, r))

\* What is in memory is in the cache.
Agreed(r, k) == \A s \in DOMAIN r : s \in DOMAIN k /\ r[s] = k[s]

Produced == /\ phase \in {"ready", "owed", "done"} /\ (phase = "done" => who = "cli")
            /\ Fed(scope, res) /\ Fed(scope, cache)
            /\ doc = NoDoc \/ Emitted(scope, doc)
            /\ LocalRulesEmitted
            /\ ~WritesMayFail => Agreed(res, cache) /\ EmittedFromDisk

\* What a verb and a session's command do to the results and the cache, and
\* that they leave config.yaml alone and a reassembly owed: all but the removal
\* of a rule in a session.
Ran == /\ UNCHANGED <<scope, doc>> /\ phase' \in {"ready", "owed"}
       /\ Fed(scope, res') /\ Fed(scope, cache')
       /\ ~WritesMayFail => Agreed(res', cache')
       /\ ~WritesMayFail => \/ phase' = "owed" \/ who' = "nobody"
                            \/ /\ UNCHANGED <<who, phase, cache>> /\ who = "tui"
                               /\ mem'.subs = mem.subs /\ mem'.groups = mem.groups
                               /\ mem'.nodes = mem.nodes

\* Taking from, and adding to, results of the instance.
LEMMA FedFacts ==
    ASSUME NEW sc, NEW r, Fed(sc, r)
    PROVE  /\ Fed(sc, NoResults)
           /\ \A s : Fed(sc, Without(r, s))
           /\ \A k : Fed(sc, k) => Fed(sc, Over(r, k))
<1>1. Fed(sc, NoResults)
  BY DEF Fed, NoResults
<1>2. \A s : Fed(sc, Without(r, s))
  BY DEF Fed, Without
<1>3. ASSUME NEW k, Fed(sc, k) PROVE Fed(sc, Over(r, k))
  BY <1>3 DEF Fed, Over
<1> QED  BY <1>1, <1>2, <1>3

\* The same for what memory and the cache have in common.
LEMMA AgreedFacts ==
    ASSUME NEW r, NEW k, Agreed(r, k)
    PROVE  /\ Agreed(NoResults, k)
           /\ \A s : Agreed(Without(r, s), Without(k, s))
           /\ \A f : Agreed(Over(f, r), Over(f, k))
<1>1. Agreed(NoResults, k)
  BY DEF Agreed, NoResults
<1>2. \A s : Agreed(Without(r, s), Without(k, s))
  BY DEF Agreed, Without
<1>3. \A f : Agreed(Over(f, r), Over(f, k))
  BY DEF Agreed, Over
<1> QED  BY <1>1, <1>2, <1>3

\* What is loaded is of the instance, and in the cache.
LEMMA LoadedFacts ==
    ASSUME NEW sc, NEW c, NEW r, Fed(sc, r), NEW k, Fed(sc, k)
    PROVE  /\ Fed(sc, Loaded(c, r, k))
           /\ Agreed(r, k) => Agreed(Loaded(c, r, k), k)
<1> DEFINE on == [s \in DOMAIN k \intersect EnabledIn(c.subs) |-> k[s]]
<1>1. Fed(sc, on)
  BY DEF Fed
<1>2. Agreed(on, k)
  BY DEF Agreed
<1> HIDE DEF on
<1>3. Loaded(c, r, k) = Over(r, on)
  BY DEF Loaded, on
<1>4. Agreed(r, k) => Agreed(Over(r, on), k)
  BY <1>2 DEF Agreed, Over
<1> QED  BY <1>1, <1>3, <1>4, FedFacts

\* What a change does.
LEMMA ChangeRuns ==
    ASSUME Produced, UNCHANGED scope, phase # "done", NEW c, Change(c)
    PROVE  Ran
<1>1. /\ UNCHANGED <<scope, doc, cache>> /\ phase' \in {"ready", "owed"}
      /\ res' = NoResults \/ res' = res
  BY DEF Change, Saved, Unsaved, Killed, Produced
<1>2. ~WritesMayFail => phase' = "owed"
  BY DEF Change, Saved, Unsaved
<1>3. Fed(scope, res') /\ Fed(scope, cache')
  BY <1>1, FedFacts DEF Produced
<1>4. ~WritesMayFail => Agreed(res', cache')
  BY <1>1, AgreedFacts DEF Produced
<1> QED  BY <1>1, <1>2, <1>3, <1>4 DEF Ran

\* Whoever asks for a verb is not done.
LEMMA AskedReady ==
    ASSUME Produced, NEW front \in {"cli", "tui"}, NEW verb, By(front, verb)
    PROVE  phase # "done"
BY DEF Produced, By

\* Verbs on subscriptions.
LEMMA SubRuns == ASSUME IInv, Produced, SubStep, UNCHANGED scope PROVE Ran
<1>1. ASSUME NEW s \in SourceName, CliAddSub(s) \/ TuiAddSub(s) \/ TuiToggleSub(s)  PROVE Ran
  BY <1>1, AskedReady, ChangeRuns DEF CliAddSub, TuiAddSub, TuiToggleSub
<1>2. ASSUME NEW s \in SourceName, NEW on \in BOOLEAN, CliSetSub(s, on)  PROVE Ran
  BY <1>2, AskedReady, ChangeRuns DEF CliSetSub
<1>3. ASSUME NEW s \in SourceName, DeleteSub(s)  PROVE Ran
  <2> DEFINE c == DeleteSubscription(mem, s)
  <2>1. /\ cache' = Without(cache, s) \/ (WritesMayFail /\ UNCHANGED cache)
        /\ Saved(c, "owed") \/ Unsaved(c) \/ Killed
        /\ res' = NoResults \/ res' = Without(res, s)
        /\ UNCHANGED doc /\ phase # "done"
    BY <1>3, AskedReady DEF DeleteSub
  <2> HIDE DEF c
  <2>2. phase' \in {"ready", "owed"} /\ (~WritesMayFail => phase' = "owed" \/ who' = "nobody")
    BY <2>1 DEF Saved, Unsaved, Killed, Produced
  <2>3. Fed(scope, res') /\ Fed(scope, cache')
    BY <2>1, FedFacts DEF Produced
  <2>4. ~WritesMayFail => Agreed(res', cache')
    <3>1. Agreed(NoResults, Without(cache, s))
      BY DEF Agreed, NoResults
    <3> QED  BY <2>1, <3>1, AgreedFacts DEF Produced
  <2> QED  BY <2>1, <2>2, <2>3, <2>4 DEF Ran
<1>4. ASSUME NEW f, Fed(scope, f), cache' \in Cached(f)
      PROVE  Fed(scope, cache') /\ (~WritesMayFail => cache' = Over(f, cache))
  <2>1. PICK kept \in IF WritesMayFail THEN SUBSET DOMAIN f ELSE {DOMAIN f} :
               cache' = Over([s \in kept |-> f[s]], cache)
    BY <1>4 DEF Cached
  <2> DEFINE g == [s \in kept |-> f[s]]
  <2>2. kept \subseteq DOMAIN f /\ (~WritesMayFail => kept = DOMAIN f)
    OBVIOUS
  <2>3. Fed(scope, g)
    BY <1>4, <2>2 DEF Fed
  <2>4. ~WritesMayFail => Over(g, cache) = Over(f, cache)
    BY <2>2 DEF Over
  <2> HIDE DEF g
  <2>5. cache' = Over(g, cache)
    BY <2>1 DEF g
  <2> QED  BY <2>3, <2>4, <2>5, FedFacts DEF Produced
<1>5. ASSUME NEW s \in SourceName, NEW r \in Result, TuiRefresh(s, r)  PROVE Ran
  <2> DEFINE f == Just(s, r)
  <2>1. /\ res' = Over(f, res) /\ UNCHANGED <<doc, who>> /\ phase # "done"
        /\ \/ cache' \in Cached(f) /\ phase' = "owed"
           \/ WritesMayFail /\ UNCHANGED <<cache, phase>>
    BY <1>5, AskedReady DEF TuiRefresh
  <2>2. Fed(scope, f)
    BY ScopeFacts DEF Fed, Just, Result
  <2> HIDE DEF f
  <2>3. Fed(scope, res') /\ Fed(scope, cache')
    BY <1>4, <2>1, <2>2, FedFacts DEF Produced
  <2>4. ~WritesMayFail => Agreed(res', cache')
    BY <1>4, <2>1, <2>2, AgreedFacts DEF Produced
  <2> QED  BY <2>1, <2>3, <2>4 DEF Ran, Produced
<1>6. ASSUME NEW names \in SUBSET NamesIn(mem.subs), NEW ok \in SUBSET names,
             NEW fetched \in [ok -> Result], CliUpdate(names, fetched)
      PROVE  Ran
  <2>1. /\ cache' \in Cached(fetched) /\ UNCHANGED doc /\ phase # "done"
        /\ \/ phase' = "owed" /\ res' = Over(fetched, res)
           \/ Gone
    BY <1>6, AskedReady DEF CliUpdate
  <2>2. Fed(scope, fetched)
    <3>1. NamesIn(mem.subs) \subseteq Name
      BY SourcesNamed DEF IInv, Held, Kept, Shaped
    <3> QED  BY <3>1 DEF Fed, Result
  <2>3. Fed(scope, res') /\ Fed(scope, cache')
    BY <1>4, <2>1, <2>2, FedFacts DEF Produced, Gone
  <2>4. ~WritesMayFail => Agreed(res', cache')
    <3>1. \A k : Agreed(NoResults, k)
      BY DEF Agreed, NoResults
    <3> QED  BY <1>4, <2>1, <2>2, <3>1, AgreedFacts DEF Produced, Gone
  <2> QED  BY <2>1, <2>3, <2>4 DEF Ran, Gone
<1> QED  BY <1>1, <1>2, <1>3, <1>5, <1>6 DEF SubStep

\* Verbs on groups.
LEMMA GroupRuns == ASSUME IInv, Produced, GroupStep, UNCHANGED scope PROVE Ran
<1>1. ASSUME NEW g \in SourceName, CliAddGroup(g) \/ TuiAddGroup(g) \/ ToggleGroup(g)  PROVE Ran
  BY <1>1, AskedReady, ChangeRuns DEF CliAddGroup, TuiAddGroup, ToggleGroup
<1>2. ASSUME NEW g \in SourceName, NEW force \in BOOLEAN, DeleteGroup(g, force)  PROVE Ran
  BY <1>2, AskedReady, ChangeRuns DEF DeleteGroup
<1>3. ASSUME NEW g \in SourceName, NEW h \in SourceName, RenameGroup(g, h)  PROVE Ran
  BY <1>3, AskedReady, ChangeRuns DEF RenameGroup
<1> QED  BY <1>1, <1>2, <1>3 DEF GroupStep

\* Verbs on nodes.
LEMMA NodeRuns == ASSUME IInv, Produced, NodeStep, UNCHANGED scope PROVE Ran
<1>1. ASSUME NEW n \in NodeName, NEW g \in SourceName, NEW via \in Vias, CliAdd(n, g, via)
      PROVE  Ran
  BY <1>1, AskedReady, ChangeRuns DEF CliAdd
<1>2. ASSUME NEW n \in NodeName, NEW g \in SourceName, NEW via \in Vias, TuiAddNode(n, g, via)
      PROVE  Ran
  BY <1>2 DEF TuiAddNode, Ran, Produced
<1>3. ASSUME NEW n \in NodeName, NEW g \in SourceName, CliRemove(g, n) \/ TuiRemoveNode(g, n)
      PROVE  Ran
  BY <1>3, AskedReady, ChangeRuns DEF CliRemove, TuiRemoveNode
<1>4. ASSUME NEW n \in NodeName, NEW g \in SourceName, NEW h \in SourceName, CliMove(g, n, h)
      PROVE  Ran
  BY <1>4, AskedReady, ChangeRuns DEF CliMove
<1>5. ASSUME NEW n \in NodeName, NEW g \in SourceName, NEW h \in SourceName,
             NEW m \in NodeName, NEW via \in Vias, CliEdit(g, n, h, m, via)
      PROVE  Ran
  BY <1>5, AskedReady, ChangeRuns DEF CliEdit
<1> QED  BY <1>1, <1>2, <1>3, <1>4, <1>5 DEF NodeStep

\* Verbs on the active source, the target, the mode and the rules.
LEMMA RoutingRuns == ASSUME IInv, Produced, RoutingStep, UNCHANGED scope PROVE Ran
<1>1. ASSUME NEW s \in SourceName, SetActive(s)  PROVE Ran
  BY <1>1, AskedReady, ChangeRuns DEF SetActive
<1>2. ASSUME NEW t \in Ref, CliSetTarget(t)  PROVE Ran
  <2>1. UNCHANGED <<cache, doc>> /\ Gone
    BY <1>2 DEF CliSetTarget
  <2> QED  BY <2>1, FedFacts, AgreedFacts DEF Ran, Gone, Produced
<1>3. ASSUME NEW t \in Ref, CliAddRule(t)  PROVE Ran
  BY <1>3, AskedReady, ChangeRuns DEF CliAddRule
<1>4. ASSUME NEW m \in Modes, SetRoutingMode(m)  PROVE Ran
  BY <1>4, AskedReady, ChangeRuns DEF SetRoutingMode
<1>5. ASSUME NEW i \in DOMAIN mem.rules, CliRemoveRule(i)  PROVE Ran
  BY <1>5, AskedReady, ChangeRuns DEF CliRemoveRule
<1>6. ASSUME NEW i \in DOMAIN mem.rules, TuiRemoveRule(i)  PROVE Ran
  <2>1. /\ who = "tui" /\ phase # "done" /\ UNCHANGED <<cache, doc, res>>
        /\ Saved(RemoveRule(mem, i), phase) \/ Unsaved(RemoveRule(mem, i))
    BY <1>6, AskedReady DEF TuiRemoveRule, By
  <2>2. /\ RemoveRule(mem, i).subs = mem.subs /\ RemoveRule(mem, i).groups = mem.groups
        /\ RemoveRule(mem, i).nodes = mem.nodes
    <3>1. DOMAIN mem = {"subs", "groups", "nodes", "rules", "active", "target", "mode"}
      BY DEF IInv, Held, Kept, Shaped
    <3> QED  BY <3>1 DEF RemoveRule
  <2> HIDE DEF RemoveRule
  <2> QED  BY <2>1, <2>2 DEF Ran, Saved, Unsaved, Killed, Produced
<1> QED  BY <1>1, <1>2, <1>3, <1>4, <1>5, <1>6 DEF RoutingStep

\* A document is one Assemble makes of what is in memory, and it is the one the
\* cache alone would give.
LEMMA DocMade ==
    ASSUME NEW sc \in Scopes, NEW c, Kept(sc, c), NEW r, Fed(sc, r), NEW k, Fed(sc, k)
    PROVE  /\ Emitted(sc, DocOf(c, r, k))
           /\ c.mode = "rule" => IsPrefix(c.rules, DocOf(c, r, k).rules)
           /\ Agreed(r, k) => DocOf(c, r, k) = DocOf(c, NoResults, k)
<1> DEFINE l == Loaded(c, r, k)
           m == Loaded(c, NoResults, k)
<1>1. Fed(sc, l)
  BY LoadedFacts
<1>2. DocOf(c, r, k) = Assemble(InputOf(c, l)) /\ DocOf(c, NoResults, k) = Assemble(InputOf(c, m))
  BY DEF DocOf
<1>3. Shaped(c) /\ Filled(c)
  BY DEF Kept
<1>4. ASSUME Agreed(r, k) PROVE InputOf(c, l) = InputOf(c, m)
  <2>1. \A s \in EnabledIn(c.subs) :
          (s \in DOMAIN l <=> s \in DOMAIN m) /\ (s \in DOMAIN l => l[s] = m[s])
    BY <1>4 DEF Loaded, Over, Agreed, NoResults
  <2> HIDE DEF l, m
  <2> QED  BY <1>3, <2>1, SameInput
<1> HIDE DEF l, m
<1>5. c.mode = "rule" => IsPrefix(c.rules, Assemble(InputOf(c, l)).rules)
  <2>1. Well(InputOf(c, l)) /\ InputOf(c, l).rules = c.rules /\ InputOf(c, l).mode = c.mode
    BY <1>1, <1>3, InputFacts
  <2> QED  BY <2>1, DocTyped
<1> QED  BY <1>1, <1>2, <1>4, <1>5 DEF Emitted

\* The document a configuration gives, its rules aside.
LEMMA DocAside ==
    ASSUME NEW c, NEW d, NEW k, d.subs = c.subs, d.groups = c.groups, d.nodes = c.nodes
    PROVE  /\ DocOf(d, NoResults, k).proxies = DocOf(c, NoResults, k).proxies
           /\ DocOf(d, NoResults, k).groups = DocOf(c, NoResults, k).groups
<1> DEFINE l == Loaded(c, NoResults, k)
<1>1. Loaded(d, NoResults, k) = l
  BY DEF Loaded
<1>2. DocOf(c, NoResults, k) = Assemble(InputOf(c, l)) /\ DocOf(d, NoResults, k) = Assemble(InputOf(d, l))
  BY <1>1 DEF DocOf
<1> HIDE DEF l
<1> QED  BY <1>2, RulesAside

\* At first there is no document and nothing fetched.
LEMMA ProducedStarts == Init => Produced
<1> SUFFICES ASSUME Init PROVE Produced
  OBVIOUS
<1>1. /\ cache = NoResults /\ res = NoResults /\ doc = NoDoc /\ who = "nobody"
      /\ phase = "ready"
  BY DEF Init
<1>2. Fed(scope, NoResults) /\ Agreed(NoResults, NoResults)
  BY DEF Fed, Agreed, NoResults
<1> HIDE DEF NoResults, NoDoc
<1> QED  BY <1>1, <1>2 DEF Produced, LocalRulesEmitted, EmittedFromDisk, Settled

\* Every step keeps it.
LEMMA ProducedStep == IInv /\ Produced /\ [Next]_vars => Produced'
<1> SUFFICES ASSUME IInv, Produced, [Next]_vars PROVE Produced'
  OBVIOUS
<1>0. IInv'
  BY StepKeeps
<1>1. CASE UNCHANGED vars
  BY <1>1 DEF vars, Produced, LocalRulesEmitted, EmittedFromDisk, Settled, WritesMayFail
<1> UNCHANGED scope => scope' = scope /\ WritesMayFail' = WritesMayFail
  BY DEF WritesMayFail
<1>2. CASE (SubStep \/ GroupStep \/ NodeStep \/ RoutingStep) /\ UNCHANGED scope
  <2>1. Ran
    BY <1>2, SubRuns, GroupRuns, NodeRuns, RoutingRuns
  <2>2. doc' = doc /\ phase' \in {"ready", "owed"} /\ Fed(scope, res') /\ Fed(scope, cache')
    BY <2>1 DEF Ran
  <2>3. LocalRulesEmitted'
    BY <2>2 DEF LocalRulesEmitted
  <2>4. ASSUME ~WritesMayFail PROVE EmittedFromDisk'
    <3> SUFFICES ASSUME Settled'
                 PROVE  LET again == DocOf(disk', NoResults, cache')
                        IN  doc'.proxies = again.proxies /\ doc'.groups = again.groups
      BY DEF EmittedFromDisk
    <3>1. who' = "tui" /\ phase' = "ready"
      BY <2>2 DEF Settled
    <3>2. /\ UNCHANGED <<who, phase, cache>> /\ who = "tui"
          /\ mem'.subs = mem.subs /\ mem'.groups = mem.groups /\ mem'.nodes = mem.nodes
      BY <2>1, <2>4, <3>1 DEF Ran
    <3>3. disk = mem /\ disk' = mem'
      BY <1>0, <1>2, <2>4, <3>1, <3>2 DEF IInv
    <3>4. /\ doc.proxies = DocOf(mem, NoResults, cache).proxies
          /\ doc.groups = DocOf(mem, NoResults, cache).groups
      BY <2>4, <3>1, <3>2, <3>3 DEF Produced, EmittedFromDisk, Settled
    <3>5. /\ DocOf(mem', NoResults, cache).proxies = DocOf(mem, NoResults, cache).proxies
          /\ DocOf(mem', NoResults, cache).groups = DocOf(mem, NoResults, cache).groups
      BY <3>2, DocAside
    <3> QED  BY <2>2, <3>2, <3>3, <3>4, <3>5
  <2>5. ~WritesMayFail => Agreed(res', cache')
    BY <2>1 DEF Ran
  <2> QED  BY <1>2, <2>2, <2>3, <2>4, <2>5 DEF Produced
<1>3. CASE StartCli /\ UNCHANGED scope
  <2>1. /\ who' = "cli" /\ UNCHANGED <<cache, doc, phase, res>> /\ phase = "ready"
    BY <1>3 DEF StartCli, IInv
  <2> QED  BY <1>3, <2>1 DEF Produced, LocalRulesEmitted, EmittedFromDisk, Settled
<1>4. CASE StartTui /\ UNCHANGED scope
  <2> DEFINE c == Load(disk)
  <2>1. /\ who' = "tui" /\ disk' = c /\ doc' = DocOf(c, NoResults, cache)
        /\ res' = Loaded(c, NoResults, cache) /\ UNCHANGED <<cache, phase>> /\ phase = "ready"
    BY <1>4 DEF StartTui, IInv
  <2>2. Kept(scope, c)
    BY LoadKept DEF IInv, Held
  <2> HIDE DEF c
  <2>3. Fed(scope, NoResults) /\ Fed(scope, cache) /\ scope \in Scopes
    BY FedFacts DEF Produced, IInv
  <2>4. Emitted(scope, doc')
    BY <2>1, <2>2, <2>3, DocMade
  <2>5. Fed(scope, res') /\ Agreed(res', cache)
    <3>1. Agreed(NoResults, cache)
      BY DEF Agreed, NoResults
    <3> QED  BY <2>1, <2>3, <3>1, LoadedFacts
  <2>6. LocalRulesEmitted' /\ EmittedFromDisk'
    BY <2>1 DEF LocalRulesEmitted, EmittedFromDisk
  <2> QED  BY <1>4, <2>1, <2>3, <2>4, <2>5, <2>6 DEF Produced
<1>5. CASE Reassemble /\ UNCHANGED scope
  <2>1. /\ doc' = DocOf(mem, res, cache) /\ res' = Loaded(mem, res, cache)
        /\ UNCHANGED <<disk, cache, who, mem>>
        /\ phase' = IF who = "cli" THEN "done" ELSE "ready"
    BY <1>5 DEF Reassemble
  <2>2. /\ Kept(scope, mem) /\ Fed(scope, res) /\ Fed(scope, cache) /\ scope \in Scopes
        /\ (~WritesMayFail => Agreed(res, cache))
    BY DEF IInv, Held, Produced
  <2>3. /\ Emitted(scope, doc')
        /\ mem.mode = "rule" => IsPrefix(mem.rules, doc'.rules)
        /\ ~WritesMayFail => doc' = DocOf(mem, NoResults, cache)
    BY <2>1, <2>2, DocMade
  <2>4. Fed(scope, res') /\ (~WritesMayFail => Agreed(res', cache))
    BY <2>1, <2>2, LoadedFacts
  <2>5. LocalRulesEmitted'
    BY <2>1, <2>3 DEF LocalRulesEmitted
  <2>6. ASSUME ~WritesMayFail PROVE EmittedFromDisk'
    <3>1. Settled' => disk' = mem
      BY <1>0, <1>5, <2>1, <2>6 DEF IInv, Settled
    <3> QED  BY <2>1, <2>3, <2>6, <3>1 DEF EmittedFromDisk
  <2> QED  BY <1>5, <2>1, <2>2, <2>3, <2>4, <2>5, <2>6 DEF Produced
<1>6. CASE (CliExit \/ Die) /\ UNCHANGED scope
  <2>1. Gone /\ UNCHANGED <<cache, doc>>
    BY <1>6 DEF CliExit, Die
  <2>2. Fed(scope, NoResults) /\ Agreed(NoResults, cache)
    BY FedFacts DEF Produced, Agreed, NoResults
  <2> HIDE DEF NoResults
  <2> QED  BY <1>6, <2>1, <2>2 DEF Gone, Produced, LocalRulesEmitted, EmittedFromDisk, Settled
<1> QED  BY <1>1, <1>2, <1>3, <1>4, <1>5, <1>6 DEF Next

-----------------------------------------------------------------------------
(* What follows.                                                           *)

\* The invariants hold throughout.
LEMMA Invariant == Spec => [](IInv /\ Produced)
BY Starts, StepKeeps, ProducedStarts, ProducedStep, PTL DEF Spec

\* A document there is is Assemble's of a well-formed input.
LEMMA DocMeant ==
    ASSUME IInv, Produced, doc # NoDoc
    PROVE  \E in : Well(in) /\ doc = Assemble(in)
<1>1. scope \in Scopes /\ Emitted(scope, doc)
  BY DEF IInv, Produced
<1>2. PICK c, r : Kept(scope, c) /\ Fed(scope, r) /\ doc = Assemble(InputOf(c, r))
  BY <1>1 DEF Emitted
<1>3. Well(InputOf(c, r))
  BY <1>1, <1>2, InputFacts DEF Kept
<1> QED  BY <1>2, <1>3

\* Every variable keeps its type: what the operations leave in config.toml and
\* in memory is a configuration, results come from fetches, and config.yaml
\* lists texts that can name a policy.
THEOREM TypeCorrect == Spec => []TypeOK
<1>1. ASSUME IInv, Produced PROVE TypeOK
  <2>1. ASSUME NEW cfg, Kept(scope, cfg) PROVE cfg \in Config
    BY <2>1 DEF Kept, Shaped, Filled, Config
  <2>2. disk \in Config /\ mem \in Config
    BY <1>1, <2>1 DEF IInv, Held
  <2>3. doc.top \in Seq(Ref) /\ doc.rules \in Seq(Ref)
    <3>1. CASE doc = NoDoc
      <4>1. <<>> \in Seq(Ref)
        OBVIOUS
      <4> QED  BY <3>1, <4>1 DEF NoDoc
    <3>2. CASE doc # NoDoc
      BY <1>1, <3>2, DocMeant, DocTyped
    <3> QED  BY <3>1, <3>2
  <2>4. who \in {"nobody", "cli", "tui"}
    BY <1>1, InstanceOK DEF IInv, Fronts
  <2> QED  BY <1>1, <2>2, <2>3, <2>4 DEF Produced, Fed, TypeOK, Result
<1> QED  BY <1>1, Invariant, PTL

\* Whatever operations, failures, kills and restarts came before, the selector
\* and every group of config.yaml name policies it defines
\* (Pipeline.Assemble, proxy_groups.go).
THEOREM DocumentsLoad == Spec => []GroupsLoad
<1>1. ASSUME IInv, Produced PROVE GroupsLoad
  BY <1>1, DocMeant, TopOfAssemble, GroupsOfAssemble DEF GroupsLoad
<1> QED  BY <1>1, Invariant, PTL

\* As long as writes succeed, whoever reassembles from config.toml and the cache
\* comes to the proxies and the groups config.yaml has (Pipeline.Assemble, and
\* DeleteSubscription, RefreshSubscription on the cache).
THEOREM EmittedStaysFromDisk == Spec => []EmittedFromDisk
<1>1. IInv /\ Produced => EmittedFromDisk
  BY DEF Produced, EmittedFromDisk
<1> QED  BY <1>1, Invariant, PTL

\* The same, and the local rules come first in config.yaml when a verb is over
\* (emitRules).
THEOREM DocumentsStaySound == Spec => []DocSound
<1>1. IInv /\ Produced => LocalRulesEmitted
  BY DEF Produced
<1> QED  BY <1>1, EmittedStaysFromDisk, Invariant, PTL DEF DocSound

\* A session's results are of subscriptions it lists, whatever the verbs, the
\* front ends and the failures (Pipeline.subResults, DeleteSubscription).
THEOREM ResultsAreOwned == Spec => []ResultsOwned
<1>1. IInv => ResultsOwned
  BY DEF IInv, ResultsOwned
<1> QED  BY <1>1, Invariant, PTL

\* config.toml never names as active a source that is gone or off, if it did
\* not at first and nobody renames a group (ClearActive, Load).
THEOREM ActiveStaysEnabled ==
    ASSUME \A sc \in Scopes : \A d \in sc.disks : ActiveOK(d)
    PROVE  Spec => []ActiveIsEnabled
<1>1. IInv => ActiveIsEnabled
  <2> SUFFICES ASSUME IInv, "rename" \notin Verbs PROVE ActiveOK(disk)
    BY DEF ActiveIsEnabled
  <2>1. KeepsActive(scope)
    BY DEF IInv, KeepsActive, Verbs, Live, ActiveOK
  <2> QED  BY <2>1 DEF IInv, Kept, Live, ActiveOK
<1> QED  BY <1>1, Invariant, PTL

\* Nothing refers to a source that is gone: neither the active source, nor the
\* target, nor a result; over failing writes, kills and restarts, if the file
\* did not at first and no url-test group has the name of a source.
THEOREM RoutingStaysSound ==
    ASSUME AutosApart,
           \A sc \in Scopes : \A d \in sc.disks : Live(d) /\ Aimed(d)
    PROVE  Spec => []RoutingSound
<1>1. IInv => TargetNotGone
  <2> SUFFICES ASSUME IInv, {"rm-group", "rename"} \intersect Verbs = {}
               PROVE  \A s \in Name : disk.target \in {s, AutoOf(s)} => s \in Sources(disk)
    BY DEF TargetNotGone
  <2>1. KeepsTarget(scope)
    BY DEF IInv, KeepsTarget, Verbs
  <2> QED  BY <2>1 DEF IInv, Kept, Aimed
<1>2. \A sc \in Scopes : \A d \in sc.disks : ActiveOK(d)
  BY DEF Live, ActiveOK
<1>3. Spec => []ActiveIsEnabled
  BY <1>2, ActiveStaysEnabled
<1> QED  BY <1>1, <1>3, ResultsAreOwned, Invariant, PTL DEF RoutingSound

\* Verbs alone, none of which adds a node and with it a group, never give a
\* group the name of a subscription (runSubsAdd, `local-groups add' and
\* `rename'), if no subscription may be called what Load calls its group; nor
\* does anything where there are no subscriptions.
THEOREM NamespaceStaysDisjoint ==
    ASSUME \A sc \in Scopes : KeepsApart(sc) \/ KeepsNone(sc)
    PROVE  Spec => []NamespaceDisjoint
<1>1. IInv => NamespaceDisjoint
  <2>1. NamesIn(<<>>) = {}
    BY DEF NamesIn
  <2> QED  BY <2>1 DEF IInv, Kept, Separate, NamespaceDisjoint
<1> QED  BY <1>1, Invariant, PTL

\* As long as writes succeed a cached result is a subscription's of
\* config.toml, over kills and restarts (DeleteSubscription, `subs update').
THEOREM CacheIsOwned == Spec => [](~WritesMayFail => CacheOwned)
<1>1. IInv => (~WritesMayFail => CacheOwned)
  BY DEF IInv, CacheOwned
<1> QED  BY <1>1, Invariant, PTL

\* Verbs on sources, however far each comes: the document loads, and the active
\* source, the namespace and the cache follow the lists.
THEOREM SourcesStaySound ==
    ASSUME \A sc \in Scopes : /\ ~sc.failing /\ (KeepsApart(sc) \/ KeepsNone(sc))
                              /\ \A d \in sc.disks : ActiveOK(d)
    PROVE  Spec => []SourcesSound
<1>1. IInv => ~WritesMayFail
  BY DEF IInv, WritesMayFail
<1>2. \A sc \in Scopes : \A d \in sc.disks : ActiveOK(d)
  OBVIOUS
<1>3. \A sc \in Scopes : KeepsApart(sc) \/ KeepsNone(sc)
  OBVIOUS
<1>4. Spec => []ActiveIsEnabled
  BY <1>2, ActiveStaysEnabled
<1>5. Spec => []NamespaceDisjoint
  BY <1>3, NamespaceStaysDisjoint
<1> QED  BY <1>1, <1>4, <1>5, DocumentsLoad, CacheIsOwned, Invariant, PTL DEF SourcesSound

\* Verbs that move no node keep every node in a group that is there and the
\* only one of its name in it, and config.yaml's entries apart, if config.toml's
\* were at first and no feed has two nodes of one name (local-nodes add, edit
\* and rm, local-groups rm and rename, Load, emitProxies).
THEOREM NodesStaySound ==
    ASSUME AutosApart,
           \A sc \in Scopes :
             /\ KeepsNodes(sc) /\ KeepsOnce(sc) /\ (KeepsApart(sc) \/ KeepsNone(sc))
             /\ \A f \in sc.results : \A k, l \in DOMAIN f.nodes :
                  f.nodes[k].name = f.nodes[l].name => k = l
    PROVE  Spec => []NodesSound
<1>1. IInv => NodesGrouped /\ NodesDistinct
  <2>1. IInv => Tidy(disk)
    BY DEF IInv, Kept
  <2>2. Tidy(disk) => NodesGrouped /\ NodesDistinct
    BY DEF Tidy, Grouped, Distinct, NodesGrouped, NodesDistinct, Home
  <2> QED  BY <2>1, <2>2
<1>2. ASSUME IInv, Produced PROVE NamesLoad
  <2> SUFFICES ASSUME doc # NoDoc PROVE NamesUnique(doc)
    BY DEF NamesLoad
  <2>1. scope \in Scopes /\ Emitted(scope, doc)
    BY <1>2 DEF IInv, Produced
  <2>2. PICK c, r : Kept(scope, c) /\ Fed(scope, r) /\ doc = Assemble(InputOf(c, r))
    BY <2>1 DEF Emitted
  <2>3. /\ Shaped(c) /\ Filled(c) /\ Unrepeated(c) /\ Distinct(c)
        /\ NamesIn(c.subs) \intersect NamesIn(c.groups) = {}
    <3>1. NamesIn(<<>>) = {}
      BY DEF NamesIn
    <3> QED  BY <2>1, <2>2, <3>1 DEF Kept, Tidy, Separate
  <2>4. \A f \in scope.results : \A k, l \in DOMAIN f.nodes :
          f.nodes[k].name = f.nodes[l].name => k = l
    BY <2>1
  <2> QED  BY <2>1, <2>2, <2>3, <2>4, InputApart
<1> QED  BY <1>1, <1>2, Invariant, PTL DEF NodesSound
=============================================================================
