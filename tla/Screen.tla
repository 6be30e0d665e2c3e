------------------------------- MODULE Screen -------------------------------
(***************************************************************************)
(* The terminal UI: which part of the screen a key goes to, what that part *)
(* does with it, and what the screen shows of the store.                   *)
(*                                                                         *)
(* bubbletea calls Model.Update with one message at a time: a key, a poll, *)
(* or the result of a command that ran on a goroutine.  Handler is the     *)
(* order in which Update looks for the owner of a key; every tab is a      *)
(* record of what it shows.  Cursors count from 0, as in the code.  The    *)
(* keys h, l and Space do what Left, Right and Enter do and are left out,  *)
(* as are flashes, colours, texts typed, and keys that only send a request *)
(* to mihomo (x, u and t, and Enter on the Groups tab).                    *)
(***************************************************************************)
EXTENDS Store

CONSTANTS
    Scopes,     \* the instances of a run; a behaviour keeps to one of them
    MaxPending  \* PipelineMutated messages under way at once (bound)

VARIABLES
    scope,      \* the instance of this behaviour
    cfg,        \* the store and the managers of local nodes and local rules
    app,        \* the tab on screen, the focus, and whether the program runs
    conns, rules, groups, sources, settings,    \* the tabs that hold a cursor
    mutated,    \* PipelineMutated messages under way
    doing,      \* commands of the settings pages that have not ended
    leaving     \* the user presses nothing but Esc and Ctrl-C from now on

vars == <<scope, cfg, app, conns, rules, groups, sources, settings, mutated, doing, leaving>>

Keys    == scope.keys           \* keys in use
Fetched == scope.fetched        \* the names of a subscription's nodes
MayFail == scope.failing        \* whether config.toml may fail to be written
Rows    == scope.rows           \* lengths of the lists mihomo sends

ASSUME ScopesOK == \A s \in Scopes :
    /\ s.keys \subseteq STRING /\ s.fetched \in Seq(NodeName) /\ s.failing \in BOOLEAN
    /\ s.rows \subseteq Nat /\ s.start \in Config
    /\ s.typed \subseteq Name /\ s.groups \subseteq Name
ASSUME MaxPendingOK == MaxPending \in Nat \ {0}

Tabs      == <<"dashboard", "groups", "sources", "rules", "connections", "logs", "settings">>
TabKeys   == <<"1", "2", "3", "4", "5", "6", "7">>
SubPages  == <<"core", "service", "controller", "routing", "active", "template", "cache", "about">>
Global    == {"tab", "shift+tab", "q", "ctrl+c"} \union ToSet(TabKeys)
Up        == {"up", "k"}
Down      == {"down", "j"}
NoText    == {"up", "down", "left", "right", "tab", "shift+tab", "pgup", "pgdown", "ctrl+c"}
PageSize  == 10
Templates == 3      \* embedded rule templates
ModeOpts  == <<"rule", "global", "direct">>

\* The fields of the node form, per protocol: five common ones, its own, and via.
FieldCount == <<8, 14, 13, 10, 13, 12>>
Hysteria2  == 5

On(t)     == Tabs[app.tab] = t
Page      == SubPages[settings.page]
Form      == sources.form
Lesser(a, b) == IF a < b THEN a ELSE b
NoForm    == [kind |-> "none", field |-> 0, proto |-> Hysteria2, node |-> ""]
Moved(at, k, len) == IF k \in Up /\ at > 0 THEN at - 1
                     ELSE IF k \in Down /\ at + 1 < len THEN at + 1 ELSE at

-----------------------------------------------------------------------------
(* What the tabs show of the store.                                        *)

InGroup(nodes, g) == IF g = "" THEN nodes
                     ELSE Filtered(nodes, {i \in DOMAIN nodes : nodes[i].group = g})
\* Fault: every node is listed, whatever the group.
ShownAll == sources.nodes

Shown == InGroup(sources.nodes, sources.group)      \* filteredNodes

EnabledNames(list) == LET on == Filtered(list, OnIndices(list))
                      IN  [i \in DOMAIN on |-> on[i].name]
SnapItems(c) == EnabledNames(c.subs) \o EnabledNames(c.groups)

GroupRows(c) ==
    [i \in DOMAIN c.subs |-> [name |-> c.subs[i].name, nodes |-> Fetched]] \o
    [i \in DOMAIN c.groups |->
        LET g == c.groups[i].name
            mine == Filtered(c.nodes, NodesOf(c, g))
        IN  [name |-> g, nodes |-> [j \in DOMAIN mine |-> mine[j].name]]]

NodeCount(rows, at) == IF at < Len(rows) THEN Len(rows[at + 1].nodes) ELSE 0

\* Fault: the cursors stay where they were.
RefreshedInPlace(g, c) == [g EXCEPT !.rows = GroupRows(c)]

\* groups.Refresh, which clamps both cursors.
Refreshed(g, c) ==
    LET rows == GroupRows(c)
        at   == IF g.at >= Len(rows) /\ rows # <<>> THEN Len(rows) - 1 ELSE g.at
        n    == NodeCount(rows, at)
    IN  [g EXCEPT !.rows = rows, !.at = at,
                  !.node = IF n = 0 THEN 0 ELSE Lesser(@, n - 1)]

\* activeModel.refreshSnapshot.
Resnapped(s, c) ==
    LET items == SnapItems(c)
    IN  [s EXCEPT !.snap = items,
                  !.active = IF @ >= Len(items) /\ items # <<>> THEN Len(items) - 1 ELSE @]

Init ==
    /\ scope \in Scopes /\ cfg = scope.start
    /\ app = [tab |-> 1, focus |-> "body", running |-> TRUE]
    /\ conns = [items |-> 0, filter |-> FALSE, filtering |-> FALSE, at |-> 0]
    /\ rules = [live |-> 0, filter |-> FALSE, filtering |-> FALSE, at |-> 0,
                page |-> "live", rows |-> cfg.rules, row |-> 0]
    /\ groups = [rows |-> GroupRows(cfg), at |-> 0, node |-> 0, pane |-> "groups"]
    /\ sources = [page |-> "subs", focus |-> "sidebar", subs |-> cfg.subs, sub |-> 0,
                  nodes |-> cfg.nodes, groups |-> cfg.groups, node |-> 0, form |-> NoForm,
                  group |-> IF cfg.groups = <<>> THEN "" ELSE cfg.groups[1].name]
    /\ settings = [page |-> 1, focus |-> "sidebar", routing |-> 0, active |-> 0, template |-> 0,
                   snap |-> SnapItems(cfg), busy |-> {}]
    /\ mutated = 0 /\ doing = {} /\ leaving = FALSE

-----------------------------------------------------------------------------
(* Who gets a key.                                                         *)

\* inputOpen: a filter or a form is open.
Typing == conns.filtering \/ rules.filtering \/ (On("sources") /\ Form.kind # "none")

\* Keys a tab without a form takes before the global ones.
TabTakes(k) ==
    CASE On("connections") -> k \in {"/", "x", "pgup", "pgdown"} \union Up \union Down
      [] On("logs")        -> k = "p"
      [] On("rules")       -> k \in {"T", "/", "u", "pgup", "pgdown", "d", "K", "J"}
                                      \union Up \union Down
      [] On("groups")      -> k \in {"r", "t", "enter"} \union Up \union Down
      [] On("dashboard")   -> FALSE
      [] OTHER             -> k \notin Global

\* Fault: a form lets the global keys through.
FormTakesFew(k) == On("sources") /\ Form.kind # "none" /\ k \notin Global

FormTakes(k) == On("sources") /\ Form.kind # "none" /\ k # "ctrl+c"

Handler(k) ==
    IF ~Typing /\ k \in {"left", "right"} THEN "focus"
    ELSE IF ~Typing /\ app.focus = "sidebar" /\ k \in Up \union Down THEN "sidebar"
    ELSE IF On("connections") /\ conns.filtering THEN "conns filter"
    ELSE IF On("rules") /\ rules.filtering
         THEN IF rules.page = "local" THEN "local rules" ELSE "rules filter"
    ELSE IF FormTakes(k) THEN "form"
    ELSE IF TabTakes(k) THEN Tabs[app.tab]
    ELSE "global"

-----------------------------------------------------------------------------
(* Focus and tabs.                                                         *)

OwnsArrows(page) == page \in {"routing", "active", "template"}

ShiftFocus(k) ==
    /\ CASE k = "left" /\ app.focus = "body" /\ On("settings") /\ settings.focus = "content" ->
              settings' = [settings EXCEPT !.focus = "sidebar"] /\ UNCHANGED <<app, sources, groups>>
         [] k = "left" /\ app.focus = "body" /\ On("sources") /\ sources.focus = "content" ->
              sources' = [sources EXCEPT !.focus = "sidebar"] /\ UNCHANGED <<app, settings, groups>>
         [] k = "left" /\ app.focus = "body" /\ On("groups") /\ groups.pane = "nodes" ->
              groups' = [groups EXCEPT !.pane = "groups"] /\ UNCHANGED <<app, sources, settings>>
         [] k = "right" /\ app.focus = "body" /\ On("settings") ->
              /\ settings' = [settings EXCEPT !.focus = IF OwnsArrows(Page) THEN "content" ELSE @]
              /\ UNCHANGED <<app, sources, groups>>
         [] k = "right" /\ app.focus = "body" /\ On("sources") ->
              sources' = [sources EXCEPT !.focus = "content"] /\ UNCHANGED <<app, settings, groups>>
         [] k = "right" /\ app.focus = "body" /\ On("groups") ->
              groups' = [groups EXCEPT !.pane = "nodes"] /\ UNCHANGED <<app, sources, settings>>
         [] OTHER ->
              /\ app' = [app EXCEPT !.focus = IF k = "left" THEN "sidebar" ELSE "body"]
              /\ UNCHANGED <<sources, settings, groups>>
    /\ UNCHANGED <<cfg, conns, rules, mutated, doing>>

GoTo(t) == app' = [app EXCEPT !.tab = t]

CycleTab(k) ==
    /\ GoTo(IF k \in Up THEN IF app.tab > 1 THEN app.tab - 1 ELSE 1
            ELSE Lesser(app.tab + 1, Len(Tabs)))
    /\ UNCHANGED <<cfg, conns, rules, groups, sources, settings, mutated, doing>>

\* The global cascade; the keys ?, m, r and : only set the flash.
GlobalKey(k) ==
    /\ CASE k \in {"q", "ctrl+c"}     -> app' = [app EXCEPT !.running = FALSE]
         [] k \in ToSet(TabKeys)      -> \E t \in DOMAIN Tabs : TabKeys[t] = k /\ GoTo(t)
         [] k = "tab"                 -> GoTo((app.tab % Len(Tabs)) + 1)
         [] k = "shift+tab"           -> GoTo(((app.tab + Len(Tabs) - 2) % Len(Tabs)) + 1)
         [] OTHER                     -> UNCHANGED app
    /\ UNCHANGED <<cfg, conns, rules, groups, sources, settings, mutated, doing>>

-----------------------------------------------------------------------------
(* Connections and Rules.                                                  *)

\* At most one row of a list matches the filter.
Visible(len, filter) == IF filter THEN Lesser(len, 1) ELSE len

\* Fault: Esc clears the filter and goes on typing.
FilterAfterStays(r, k) ==
    CASE k = "esc"   -> [r EXCEPT !.filter = FALSE]
      [] k = "enter" -> [r EXCEPT !.filtering = FALSE]
      [] k \in NoText -> r
      [] k = "backspace" -> [r EXCEPT !.filter = FALSE]
      [] OTHER       -> [r EXCEPT !.filter = TRUE]

\* An open filter: Esc clears and closes it, Enter closes it, a text goes into it.
FilterAfter(r, k) ==
    CASE k = "esc"   -> [r EXCEPT !.filter = FALSE, !.filtering = FALSE]
      [] k = "enter" -> [r EXCEPT !.filtering = FALSE]
      [] k \in NoText -> r
      [] k = "backspace" -> [r EXCEPT !.filter = FALSE]
      [] OTHER       -> [r EXCEPT !.filter = TRUE]

\* Arrows and page keys over a list of len visible rows.
Scrolled(at, k, len) ==
    CASE k = "pgdown" -> IF len = 0 THEN at ELSE Lesser(at + PageSize, len - 1)
      [] k = "pgup"   -> IF at < PageSize THEN 0 ELSE at - PageSize
      [] OTHER        -> Moved(at, k, len)

ConnsKey(k) ==
    /\ conns' = IF k = "/" THEN [conns EXCEPT !.filtering = TRUE]
                ELSE [conns EXCEPT !.at = Scrolled(@, k, Visible(conns.items, conns.filter))]
    /\ UNCHANGED <<cfg, app, rules, groups, sources, settings, mutated, doing>>

ConnsFilterKey(k) ==
    /\ conns' = FilterAfter(conns, k)
    /\ UNCHANGED <<cfg, app, rules, groups, sources, settings, mutated, doing>>

RulesFilterKey(k) ==
    /\ rules' = FilterAfter(rules, k)
    /\ UNCHANGED <<cfg, app, conns, groups, sources, settings, mutated, doing>>

\* localRulesPane.Update; the result of SaveLocal is not looked at, and no
\* PipelineMutated follows.
Swapped(list, i) == [list EXCEPT ![i] = list[i + 1], ![i + 1] = list[i]]
LocalRulesKey(k) ==
    LET at == rules.row
        n  == Len(rules.rows)
    IN  /\ cfg' = CASE k = "d" /\ at < n     -> RemoveRule(cfg, at + 1)
                    [] k = "K" /\ at > 0     -> [cfg EXCEPT !.rules = Swapped(@, at)]
                    [] k = "J" /\ at + 1 < n -> [cfg EXCEPT !.rules = Swapped(@, at + 1)]
                    [] OTHER                 -> cfg
        /\ rules' = CASE k \in {"d", "K", "J"} ->
                           [rules EXCEPT !.rows = cfg'.rules,
                                         !.row = CASE k = "d" /\ at > 0 /\ at + 1 >= n -> at - 1
                                                   [] k = "K" /\ at > 0     -> at - 1
                                                   [] k = "J" /\ at + 1 < n -> at + 1
                                                   [] OTHER                 -> at]
                      [] OTHER -> [rules EXCEPT !.row = Moved(@, k, n)]
        /\ UNCHANGED <<app, conns, groups, sources, settings, mutated, doing>>

\* On the page of local rules the arrows still move the live list's cursor.
RulesKey(k) ==
    CASE k = "T" ->
           /\ rules' = IF rules.page = "live" THEN [rules EXCEPT !.page = "local", !.rows = cfg.rules]
                       ELSE [rules EXCEPT !.page = "live"]
           /\ UNCHANGED <<cfg, app, conns, groups, sources, settings, mutated, doing>>
      [] k = "/" ->
           /\ rules' = [rules EXCEPT !.filtering = TRUE]
           /\ UNCHANGED <<cfg, app, conns, groups, sources, settings, mutated, doing>>
      [] k \in {"d", "K", "J"} /\ rules.page = "local" -> LocalRulesKey(k)
      [] OTHER ->
           /\ rules' = [rules EXCEPT !.at = Scrolled(@, k, Visible(rules.live, rules.filter))]
           /\ UNCHANGED <<cfg, app, conns, groups, sources, settings, mutated, doing>>

-----------------------------------------------------------------------------
(* Groups.                                                                 *)

GroupsKey(k) ==
    LET there == IF groups.pane = "groups"
                 THEN LET at == Moved(groups.at, k, Len(groups.rows))
                      IN  [groups EXCEPT !.at = at, !.node = IF at = groups.at THEN @ ELSE 0]
                 ELSE [groups EXCEPT !.node = Moved(@, k, NodeCount(groups.rows, groups.at))]
    IN  /\ groups' = IF k \in {"t", "enter"} THEN groups ELSE Refreshed(there, cfg)
        /\ UNCHANGED <<cfg, app, conns, rules, sources, settings, mutated, doing>>

-----------------------------------------------------------------------------
(* Sources.                                                                *)

Elsewhere == UNCHANGED <<app, conns, rules, groups, settings, doing>>

\* emitPipelineMutated.
Emits == mutated' = mutated + 1
Quiet == UNCHANGED mutated

Closed == [sources EXCEPT !.form = NoForm]
Pulled(at, len) == IF at > 0 /\ at >= len THEN len - 1 ELSE at

\* What a form leaves behind when its operation is refused or cannot be saved.
Refused == sources' = Closed /\ UNCHANGED cfg /\ Quiet
Unsaved(c) == MayFail /\ cfg' = c /\ sources' = Closed /\ Quiet

SubmitSub(s) ==
    IF s = "" \/ ~CanAddSubscription(cfg, s) THEN Refused
    ELSE LET c == AddSubscription(cfg, s)
         IN  \/ cfg' = c /\ sources' = [Closed EXCEPT !.subs = c.subs] /\ Emits
             \/ Unsaved(c)

\* Fault: the list of groups is not loaded again.
SubmitGroupOnly(g) ==
    IF g = "" \/ ~CanAddLocalGroup(cfg, g) THEN Refused
    ELSE cfg' = AddLocalGroup(cfg, g) /\ Emits /\ sources' = [Closed EXCEPT !.group = g, !.node = 0]

SubmitGroup(g) ==
    IF g = "" \/ ~CanAddLocalGroup(cfg, g) THEN Refused
    ELSE LET c == AddLocalGroup(cfg, g)
         IN  \/ cfg' = c /\ Emits
                /\ sources' = [Closed EXCEPT !.groups = c.groups, !.group = g, !.node = 0]
             \/ Unsaved(c)

\* The nodes on screen keep their old group until the next change of a node.
SubmitRename(h) ==
    IF h = "" \/ (h # sources.group /\ ~CanRenameLocalGroup(cfg, sources.group, h)) THEN Refused
    ELSE LET c == IF h = sources.group THEN cfg ELSE RenameLocalGroup(cfg, sources.group, h)
         IN  \/ cfg' = c /\ Emits
                /\ sources' = [Closed EXCEPT !.groups = c.groups, !.group = h]
             \/ h # sources.group /\ Unsaved(c)

Named(nodes, n) == \E i \in DOMAIN nodes : nodes[i].name = n
Minus(nodes, n) == RemoveAt(nodes, IndexOf(nodes, n))

\* Manager.Add and SaveLocal, whose failure is only reported.
SubmitNewNode(node) ==
    IF Named(cfg.nodes, node.name) THEN Refused
    ELSE /\ cfg' = [cfg EXCEPT !.nodes = Append(@, node)]
         /\ sources' = [Closed EXCEPT !.nodes = cfg'.nodes] /\ Emits

\* Get, Remove and Add; a collision puts the old node back, at the end.
SubmitEdit(old, node) ==
    IF ~Named(cfg.nodes, old) THEN Refused
    ELSE LET rest == Minus(cfg.nodes, old)
         IN  IF Named(rest, node.name)
             THEN /\ cfg' = [cfg EXCEPT !.nodes = Append(rest, @[IndexOf(@, old)])]
                  /\ sources' = Closed /\ Quiet
             ELSE /\ cfg' = [cfg EXCEPT !.nodes = Append(rest, node)]
                  /\ sources' = [Closed EXCEPT !.nodes = cfg'.nodes] /\ Emits

\* The form's group is free text, `local' when left empty.
Given(g) == IF g = "" THEN DefaultGroup ELSE g

SubmitForm ==
    CASE Form.kind = "sub"      -> \E s \in scope.typed \union {""} : SubmitSub(s)
      [] Form.kind = "newgroup" -> \E g \in scope.typed \union {""} : SubmitGroup(g)
      [] Form.kind = "rename"   -> \E h \in scope.typed \union {""} : SubmitRename(h)
      [] Form.kind = "uri"      -> \/ Refused
                                   \/ \E n \in NodeName :
                                        SubmitNewNode(NewNode(n, Given(sources.group), ""))
      [] Form.kind = "node"     -> \/ UNCHANGED <<sources, cfg, mutated>>    \* commitFieldForm refuses
                                   \/ \E n \in NodeName, g \in scope.groups \union {""} :
                                        IF Form.node = "" THEN SubmitNewNode(NewNode(n, Given(g), ""))
                                        ELSE SubmitEdit(Form.node, NewNode(n, Given(g), ""))

Fields == CASE Form.kind = "sub"  -> 3
            [] Form.kind = "node" -> FieldCount[Form.proto]
            [] OTHER              -> 1

CycleProto(f, k) ==
    [f EXCEPT !.field = 0,
              !.proto = IF k = "right" THEN (@ % Len(FieldCount)) + 1
                        ELSE ((@ + Len(FieldCount) - 2) % Len(FieldCount)) + 1]

FormKey(k) ==
    /\ CASE k = "esc" -> Refused
         [] k = "enter" /\ Form.kind = "sub" /\ Form.field + 1 < Fields ->
              sources' = [sources EXCEPT !.form.field = @ + 1] /\ UNCHANGED <<cfg, mutated>>
         [] k = "enter" /\ (Form.kind # "sub" \/ Form.field + 1 = Fields) -> SubmitForm
         [] k \in {"tab", "down"} /\ Form.field + 1 < Fields ->
              sources' = [sources EXCEPT !.form.field = @ + 1] /\ UNCHANGED <<cfg, mutated>>
         [] k \in {"shift+tab", "up"} /\ Form.field > 0 ->
              sources' = [sources EXCEPT !.form.field = @ - 1] /\ UNCHANGED <<cfg, mutated>>
         [] k \in {"left", "right"} /\ Form.kind = "node" /\ Form.field = 0 ->
              sources' = [sources EXCEPT !.form = CycleProto(@, k)] /\ UNCHANGED <<cfg, mutated>>
         [] OTHER -> UNCHANGED <<sources, cfg, mutated>>
    /\ Elsewhere

Opens(kind, node) ==
    /\ sources' = [sources EXCEPT !.form = [NoForm EXCEPT !.kind = kind, !.node = node,
                                                          !.field = IF kind = "node" THEN 1 ELSE 0]]
    /\ UNCHANGED cfg /\ Quiet
\* The row stays as it is: the cursor is off the list, or the store refused.
Nothing == UNCHANGED <<sources, cfg, mutated>>

\* Fault: the change is not announced.
AppliedQuietly(c, next) == cfg' = c /\ sources' = next /\ Quiet

\* An operation on the store: its list is reloaded and the change announced,
\* unless config.toml cannot be written.
Applied(c, next) == \/ cfg' = c /\ sources' = next /\ Emits
                    \/ MayFail /\ cfg' = c /\ UNCHANGED sources /\ Quiet

SubsKey(k) ==
    LET on == sources.sub < Len(sources.subs)
        s  == sources.subs[sources.sub + 1].name
    IN  CASE k = "a" -> Opens("sub", "")
          [] k = "d" /\ on ->
               IF s \notin NamesIn(cfg.subs) THEN Nothing
               ELSE LET c == DeleteSubscription(cfg, s)
                    IN  Applied(c, [sources EXCEPT !.subs = c.subs, !.sub = Pulled(@, Len(c.subs))])
          [] k = "e" /\ on ->
               IF s \notin NamesIn(cfg.subs) THEN Nothing
               ELSE LET c == SetSubscriptionEnabled(cfg, s, ~IsOn(cfg.subs, s))
                    IN  Applied(c, [sources EXCEPT !.subs = c.subs])
          [] OTHER -> /\ sources' = [sources EXCEPT !.sub = Moved(@, k, Len(sources.subs))]
                      /\ UNCHANGED <<cfg, mutated>>

\* `d' names the node by its bare name.
DeleteRow(name) ==
    IF ~Named(cfg.nodes, name) THEN Nothing
    ELSE LET c == [cfg EXCEPT !.nodes = Minus(@, name)]
         IN  Applied(c, [sources EXCEPT !.nodes = c.nodes,
                                        !.node = Pulled(@, Len(InGroup(c.nodes, sources.group)))])

DeleteGroup ==
    IF sources.group = "" \/ ~CanDeleteLocalGroup(cfg, sources.group, FALSE) THEN Nothing
    ELSE LET c == DeleteLocalGroup(cfg, sources.group, FALSE)
         IN  Applied(c, [sources EXCEPT !.groups = c.groups, !.node = 0,
                             !.group = IF c.groups = <<>> THEN "" ELSE c.groups[1].name])

ToggleGroup ==
    IF sources.group \notin NamesIn(cfg.groups) THEN Nothing
    ELSE LET c == ToggleLocalGroupEnabled(cfg, sources.group)
         IN  Applied(c, [sources EXCEPT !.groups = c.groups])

LocalsKey(k) ==
    LET on == sources.node < Len(Shown)
    IN  CASE k = "a"         -> Opens("node", "")
          [] k = "e" /\ on   -> Opens("node", Shown[sources.node + 1].name)
          [] k = "u"         -> Opens("uri", "")
          [] k = "N"         -> Opens("newgroup", "")
          [] k = "E" /\ sources.group # "" -> Opens("rename", "")
          [] k = "d" /\ on   -> DeleteRow(Shown[sources.node + 1].name)
          [] k = "D"         -> DeleteGroup
          [] k = "T"         -> ToggleGroup
          [] OTHER           -> /\ sources' = [sources EXCEPT !.node = Moved(@, k, Len(Shown))]
                                /\ UNCHANGED <<cfg, mutated>>

\* A deletion that could not be saved, or the rename of a group, leaves rows on
\* screen that the store no longer has; when more of them go at once than the
\* one deleted, the cursor may come to -1.  The next `d' or `e' indexes the
\* list with it, and bubbletea ends the program.
Panics(k) == /\ k \in {"d", "e"}
             /\ IF sources.page = "subs" THEN sources.sub < 0 ELSE sources.node < 0

Crash ==
    /\ app' = [app EXCEPT !.running = FALSE]
    /\ UNCHANGED <<cfg, conns, rules, groups, sources, settings, mutated, doing>>

SourcesKey(k) ==
    /\ ~Panics(k)
    /\ IF sources.focus = "sidebar" /\ k \in {"up", "down"}
       THEN /\ sources' = [sources EXCEPT !.page = IF k = "down" THEN "locals" ELSE "subs"]
            /\ UNCHANGED <<cfg, mutated>>
       ELSE IF sources.page = "subs" THEN SubsKey(k) ELSE LocalsKey(k)
    /\ Elsewhere

-----------------------------------------------------------------------------
(* Settings.                                                               *)

Idle == UNCHANGED <<cfg, doing>>

\* An up or down arrow that the page on screen does not own turns the page.
TurnPage(k) ==
    /\ settings' = [settings EXCEPT !.focus = "sidebar",
            !.page = IF k = "up" THEN IF @ > 1 THEN @ - 1 ELSE 1 ELSE Lesser(@ + 1, Len(SubPages))]
    /\ Idle

\* A command that runs on a goroutine; the page is busy until it is told.
Starts(page) ==
    /\ settings' = [settings EXCEPT !.busy = @ \union {page}]
    /\ doing' = doing \union {page}

RoutingKey(k) ==
    IF "routing" \in settings.busy THEN UNCHANGED settings /\ Idle
    ELSE IF k # "enter"
         THEN settings' = [settings EXCEPT !.routing = Moved(@, k, Len(ModeOpts))] /\ Idle
    ELSE LET c == SetMode(cfg, ModeOpts[settings.routing + 1])
         IN  /\ cfg' = c
             /\ Starts("routing") \/ (MayFail /\ UNCHANGED <<settings, doing>>)

\* Enter picks the source at the cursor of the snapshot, which is taken first.
ActiveKey(k) ==
    LET now  == Resnapped(settings, cfg)
        pick == now.snap[now.active + 1]
        shut == settings' = now /\ Idle
    IN  IF "active" \in now.busy THEN shut
        ELSE IF k # "enter"
             THEN settings' = [now EXCEPT !.active = Moved(@, k, Len(now.snap))] /\ Idle
        ELSE IF now.active >= Len(now.snap) \/ ~CanSetActiveSource(cfg, pick) THEN shut
        ELSE /\ cfg' = SetActiveSource(cfg, pick)
             /\ \/ /\ settings' = [now EXCEPT !.busy = @ \union {"active"}]
                   /\ doing' = doing \union {"active"}
                \/ MayFail /\ settings' = now /\ UNCHANGED doing

\* Start, stop, restart and uninstall, or the upgrade of mihomo.
ServiceKey(k) ==
    /\ IF Page \notin settings.busy /\ k \in (IF Page = "core" THEN {"u"} ELSE {"s", "S", "r", "u"})
       THEN Starts(Page) ELSE UNCHANGED <<settings, doing>>
    /\ UNCHANGED cfg

SettingsKey(k) ==
    /\ IF k \in {"up", "down"} /\ ~(OwnsArrows(Page) /\ settings.focus = "content") THEN TurnPage(k)
       ELSE CASE Page = "routing"             -> RoutingKey(k)
              [] Page = "active"              -> ActiveKey(k)
              [] Page \in {"core", "service"} -> ServiceKey(k)
              [] Page = "template"            ->
                   settings' = [settings EXCEPT !.template = Moved(@, k, Templates)] /\ Idle
              [] OTHER                        -> UNCHANGED settings /\ Idle
    /\ UNCHANGED <<app, conns, rules, groups, sources, mutated>>

-----------------------------------------------------------------------------
(* Model.Update: a key, the result of a command, a poll.                   *)

Press(k) ==
    /\ app.running /\ k \in Keys /\ mutated < MaxPending
    /\ leaving => k \in {"esc", "ctrl+c"}
    /\ LET h == Handler(k)
       IN  CASE h = "focus"        -> ShiftFocus(k)
             [] h = "sidebar"      -> CycleTab(k)
             [] h = "conns filter" -> ConnsFilterKey(k)
             [] h = "rules filter" -> RulesFilterKey(k)
             [] h = "local rules"  -> LocalRulesKey(k)
             [] h = "form"         -> FormKey(k)
             [] h = "connections"  -> ConnsKey(k)
             [] h = "rules"        -> RulesKey(k)
             [] h = "groups"       -> GroupsKey(k)
             [] h = "sources"      -> SourcesKey(k) \/ (Panics(k) /\ Crash)
             [] h = "settings"     -> SettingsKey(k)
             [] h = "logs"         -> UNCHANGED vars
             [] OTHER              -> GlobalKey(k)
    /\ UNCHANGED <<scope, leaving>>

\* The Groups tab is brought up to date, and applyConfig runs on a goroutine.
Deliver ==
    /\ app.running /\ mutated > 0
    /\ mutated' = mutated - 1 /\ groups' = Refreshed(groups, cfg)
    /\ UNCHANGED <<scope, cfg, app, conns, rules, sources, settings, doing, leaving>>

\* Fault: only the page on screen is told.
FinishOnPage(c) ==
    /\ app.running /\ c \in doing /\ doing' = doing \ {c}
    /\ settings' = IF c \in {"routing", "active"} /\ c = Page
                   THEN [settings EXCEPT !.busy = @ \ {c}] ELSE settings
    /\ UNCHANGED <<scope, cfg, app, conns, rules, groups, sources, mutated, leaving>>

\* A command ends.  Update has no case for the results of the Service and
\* Core pages, which stay busy.
Finish(c) ==
    /\ app.running /\ c \in doing /\ doing' = doing \ {c}
    /\ settings' = IF c \in {"routing", "active"}
                   THEN LET idle == [settings EXCEPT !.busy = @ \ {c}]
                        IN  IF "active" \in {c, Page} THEN Resnapped(idle, cfg) ELSE idle
                   ELSE settings
    /\ UNCHANGED <<scope, cfg, app, conns, rules, groups, sources, mutated, leaving>>

PollConnections ==
    /\ app.running
    /\ \E n \in Rows : conns' = [conns EXCEPT !.items = n, !.at = IF @ >= n THEN 0 ELSE @]
    /\ UNCHANGED <<scope, cfg, app, rules, groups, sources, settings, mutated, doing, leaving>>

PollRules ==
    /\ app.running
    /\ \E n \in Rows :
         LET len == Visible(n, rules.filter)
         IN  rules' = [rules EXCEPT !.live = n,
                          !.at = IF len = 0 THEN 0 ELSE Lesser(@, len - 1)]
    /\ UNCHANGED <<scope, cfg, app, conns, groups, sources, settings, mutated, doing, leaving>>

\* ServiceStatus goes to the page on screen, and the Active page looks again.
PollService ==
    /\ app.running /\ Page = "active" /\ settings' = Resnapped(settings, cfg)
    /\ UNCHANGED <<scope, cfg, app, conns, rules, groups, sources, mutated, doing, leaving>>

Leave ==
    /\ app.running /\ ~leaving /\ leaving' = TRUE
    /\ UNCHANGED <<scope, cfg, app, conns, rules, groups, sources, settings, mutated, doing>>

Next ==
    \/ \E k \in Keys : Press(k)
    \/ Deliver \/ PollConnections \/ PollRules \/ PollService \/ Leave
    \/ \E c \in doing : Finish(c)

Spec == Init /\ [][Next]_vars

\* bubbletea delivers every message, and who wants to leave goes on pressing
\* Esc and Ctrl-C.
FairSpec ==
    /\ Spec /\ WF_vars(Deliver)
    /\ \A c \in {"routing", "active", "service", "core"} : WF_vars(Finish(c))
    /\ \A k \in {"esc", "ctrl+c"} : WF_vars(leaving /\ Press(k))

-----------------------------------------------------------------------------

\* Every component has its type, and no cursor or field is off its list; the
\* cursor of the nodes may be past its end, where the keys look for it.
\* (Deletions that could not be saved, and renames, may leave it off at -1.)
OnList(at, len) == at \in Nat /\ (at < len \/ len = 0)
TypeOK ==
    /\ scope \in Scopes /\ cfg \in Config /\ leaving \in BOOLEAN
    /\ app \in [tab : DOMAIN Tabs, focus : {"sidebar", "body"}, running : BOOLEAN]
    /\ conns \in [items : Rows \union {0}, filter : BOOLEAN, filtering : BOOLEAN, at : Nat]
    /\ OnList(conns.at, conns.items) /\ OnList(rules.at, rules.live)
    /\ rules.page \in {"live", "local"} /\ OnList(rules.row, Len(rules.rows))
    /\ OnList(groups.at, Len(groups.rows)) /\ OnList(groups.node, NodeCount(groups.rows, groups.at))
    /\ MayFail \/ OnList(sources.sub, Len(sources.subs))
    /\ MayFail \/ "E" \in Keys \/ sources.node \in Nat
    /\ Form.proto \in DOMAIN FieldCount /\ Form.field < Fields
    /\ settings.page \in DOMAIN SubPages /\ settings.routing < Len(ModeOpts)
    /\ OnList(settings.active, Len(settings.snap)) /\ settings.template < Templates
    /\ settings.busy \union doing \subseteq {"routing", "active", "service", "core"}
    /\ doing \subseteq settings.busy /\ mutated \in 0 .. MaxPending

\* What takes the keys is on screen: an open filter or form belongs to the tab
\* shown, and the content of a settings page holds the focus only when it has
\* a list (inputOpen, subPageOwnsArrows, settings.Update).
FocusOnScreen ==
    /\ conns.filtering => On("connections")
    /\ rules.filtering => On("rules")
    /\ Form.kind # "none" => On("sources")
    /\ settings.focus = "content" => OwnsArrows(Page)

\* When config.toml can be written, the Sources and Rules tabs list what the
\* store holds after every key; the rows of a node keep the old group's name
\* after a rename (sources.Update, localRulesPane.Update).
PageShowsStore ==
    ~MayFail =>
        /\ sources.subs = cfg.subs /\ sources.groups = cfg.groups /\ rules.rows = cfg.rules
        /\ "E" \notin Keys => ToSet(sources.nodes) = ToSet(cfg.nodes)

\* `d' removes the node of the row under the cursor, and of the group on
\* screen, as long as no two groups hold a node of one name and the list is
\* up to date (localNodesModel, Manager.Remove).
RowHit ==
    [][(/\ Len(cfg'.nodes) < Len(cfg.nodes) /\ ~MayFail /\ "E" \notin Keys
        /\ \A i, j \in DOMAIN cfg.nodes : cfg.nodes[i].name = cfg.nodes[j].name => i = j)
       => \E i \in DOMAIN cfg.nodes :
            /\ cfg'.nodes = RemoveAt(cfg.nodes, i)
            /\ cfg.nodes[i] = Shown[sources.node + 1]
            /\ sources.group \in {"", cfg.nodes[i].group}]_vars

\* The Groups tab, which reads the store when it is told to, is brought up to
\* date again after every change made on another tab (PipelineMutatedMsg in
\* Update, which calls groups.Refresh).
RowSet(rows) == {[name |-> rows[i].name, nodes |-> ToSet(rows[i].nodes)] : i \in DOMAIN rows}
StoredRows ==
    {[name |-> s, nodes |-> ToSet(Fetched)] : s \in NamesIn(cfg.subs)} \union
    {[name |-> g, nodes |-> {cfg.nodes[i].name : i \in NodesOf(cfg, g)}] : g \in NamesIn(cfg.groups)}
GroupsCatchUp ==
    ~MayFail => []<>(~app.running \/ RowSet(groups.rows) = StoredRows)

\* A page that is busy reloading mihomo takes keys again, whatever page the
\* user has gone to meanwhile: "otherwise the sub-page's busy flag stays true
\* forever" (settings.Update).
BusyEnds ==
    \A page \in {"routing", "active"} :
        page \in settings.busy ~> (page \notin settings.busy \/ ~app.running)

\* Esc and Ctrl-C lead out of the program from every tab, filter and form, as
\* long as no filter can be opened on the page of local rules.
LeaverQuits == ~({"T", "/"} \subseteq Keys) => (leaving ~> ~app.running)

\* "Ctrl-C must always be a quit path" (app/update.go).
LeaverAlwaysQuits == leaving ~> ~app.running

\* What is on screen has the focus and agrees with the store.
ScreenAgrees == FocusOnScreen /\ PageShowsStore

\* What is out of date or busy does not stay so.
ScreenCatchesUp == GroupsCatchUp /\ BusyEnds
=============================================================================
