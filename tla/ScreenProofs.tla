---------------------------- MODULE ScreenProofs ----------------------------
(***************************************************************************)
(* Theorems about Screen, for any keys, lists of any length, names typed   *)
(* and failures.                                                           *)
(*                                                                         *)
(* Most of the invariant is a type for each tab's record.  The rest says   *)
(* which lists follow the store: exactly, or up to the order of the nodes, *)
(* which a refused edit changes in the manager and not on the screen.      *)
(***************************************************************************)
EXTENDS Screen, AssemblerProofs

Cmds  == {"routing", "active", "service", "core"}
Kinds == {"none", "sub", "newgroup", "rename", "uri", "node"}
Row   == [name : Name, nodes : Seq(NodeName)]
Text  == Name \union {""}      \* what is typed for a name

\* A cursor that an empty list has sent back to 0.
AtRow(at, len) == at \in Nat /\ (at < len \/ at = 0)

\* The same elements as often, in another order.
Shuffled(a, b) ==
    /\ Len(a) = Len(b)
    /\ \E f \in [DOMAIN a -> DOMAIN b] : /\ \A i, j \in DOMAIN a : f[i] = f[j] => i = j
                                         /\ \A j \in DOMAIN b : \E i \in DOMAIN a : f[i] = j
                                         /\ \A i \in DOMAIN a : a[i] = b[f[i]]

-----------------------------------------------------------------------------
(* The inductive invariant.                                                *)

Held(c)    == Shaped(c) /\ Filled(c)
StoreTyped == scope \in Scopes /\ Held(cfg)

AppTyped ==
    /\ app \in [tab : 1 .. 7, focus : {"sidebar", "body"}, running : BOOLEAN]
    /\ leaving \in BOOLEAN /\ mutated \in 0 .. MaxPending

ConnsTyped ==
    /\ conns \in [items : Rows \union {0}, filter : BOOLEAN, filtering : BOOLEAN, at : Nat]
    /\ OnList(conns.at, conns.items)

RulesTyped ==
    /\ rules \in [live : Nat, filter : BOOLEAN, filtering : BOOLEAN, at : Nat,
                  page : {"live", "local"}, rows : Seq(Ref), row : Nat]
    /\ OnList(rules.at, rules.live) /\ AtRow(rules.row, Len(rules.rows))
    /\ rules.rows = cfg.rules

GroupsRecord == [rows : Seq(Row), at : Nat, node : Nat, pane : {"groups", "nodes"}]
GroupsTyped ==
    /\ groups \in GroupsRecord
    /\ OnList(groups.at, Len(groups.rows)) /\ OnList(groups.node, NodeCount(groups.rows, groups.at))

\* (The node a form is about may be any.)
SourcesRecord ==
    [page : {"subs", "locals"}, focus : {"sidebar", "content"}, subs : Seq(Source), sub : Int,
     nodes : Seq(Node), groups : Seq(Source), node : Int, group : Text,
     form : [kind : Kinds, field : Nat, proto : 1 .. 6, node : {Form.node}]]
SourcesFine ==
    /\ sources \in SourcesRecord
    /\ Form.field < Fields /\ (Form.kind = "rename" => "E" \in Keys)

SettingsRecord ==
    [page : 1 .. 8, focus : {"sidebar", "content"}, routing : 0 .. 2, active : Nat,
     template : 0 .. 2, snap : Seq(Name), busy : SUBSET Cmds]
SettingsTyped ==
    /\ settings \in SettingsRecord
    /\ OnList(settings.active, Len(settings.snap)) /\ doing \subseteq settings.busy

\* What the Sources tab lists is in the store, and its cursors are where they can be.
Follows ==
    ~MayFail =>
        /\ sources.subs = cfg.subs /\ sources.groups = cfg.groups
        /\ AtRow(sources.sub, Len(sources.subs))
        /\ "E" \notin Keys => Shuffled(sources.nodes, cfg.nodes) /\ sources.node \in Nat

IInv ==
    /\ StoreTyped /\ AppTyped /\ ConnsTyped /\ RulesTyped /\ GroupsTyped /\ SourcesFine
    /\ SettingsTyped /\ Follows /\ FocusOnScreen

-----------------------------------------------------------------------------
(* Cursors.                                                                *)

\* Which tab is which.
LEMMA TabFacts ==
    /\ Len(Tabs) = 7 /\ DOMAIN Tabs = 1 .. 7
    /\ \A i \in 1 .. 7 : /\ Tabs[i] = "sources" <=> i = 3
                         /\ Tabs[i] = "rules" <=> i = 4
                         /\ Tabs[i] = "connections" <=> i = 5
BY DEF Tabs

\* Moving a cursor keeps it on its list.
LEMMA MovedFacts ==
    ASSUME NEW at \in Int, NEW k, NEW len \in Nat
    PROVE  LET b == Moved(at, k, len) IN
           /\ b \in Int
           /\ at \in Nat => b \in Nat
           /\ OnList(at, len) => OnList(b, len)
           /\ AtRow(at, len) => AtRow(b, len)
BY DEF Moved, OnList, AtRow

\* Scrolling does, too, over the rows that match a filter.
LEMMA ScrolledFacts ==
    ASSUME NEW at \in Nat, NEW k, NEW len \in Nat, NEW v, v = len \/ (v = 1 /\ len >= 1), OnList(at, len)
    PROVE  Scrolled(at, k, v) \in Nat /\ OnList(Scrolled(at, k, v), len)
<1>1. CASE k = "pgdown"
  BY <1>1 DEF Scrolled, OnList, Lesser, PageSize
<1>2. CASE k = "pgup"
  BY <1>2 DEF Scrolled, OnList, PageSize
<1>3. CASE k \notin {"pgdown", "pgup"}
  <2>1. Scrolled(at, k, v) = Moved(at, k, v)
    BY <1>3 DEF Scrolled
  <2> QED  BY <2>1 DEF Moved, OnList
<1> QED  BY <1>1, <1>2, <1>3

\* A filter shows all rows, or one if there are any.
LEMMA VisibleFacts ==
    ASSUME NEW len \in Nat, NEW filter
    PROVE  LET v == Visible(len, filter) IN v = len \/ (v = 1 /\ len >= 1)
BY DEF Visible, Lesser

-----------------------------------------------------------------------------
(* Lists the tabs make of the store.                                       *)

\* A list of the group's nodes among the given ones, each at most once.
Drawn(a, nodes, g) ==
    \E f \in [DOMAIN a -> DOMAIN nodes] :
        /\ \A i, j \in DOMAIN a : f[i] = f[j] => i = j
        /\ \A i \in DOMAIN a : a[i] = nodes[f[i]] /\ (g = "" \/ a[i].group = g)

\* The nodes shown of a group.
LEMMA InGroupFacts ==
    ASSUME NEW nodes \in Seq(Node), NEW g, NEW a, a = InGroup(nodes, g)
    PROVE  a \in Seq(Node) /\ Drawn(a, nodes, g)
<1>1. CASE g = ""
  <2>1. a = nodes
    BY <1>1 DEF InGroup
  <2> DEFINE id == [i \in DOMAIN a |-> i]
  <2>2. id \in [DOMAIN a -> DOMAIN nodes] /\ \A i \in DOMAIN a : id[i] = i /\ a[i] = nodes[i]
    BY <2>1
  <2> HIDE DEF id
  <2>3. /\ \A i, j \in DOMAIN a : id[i] = id[j] => i = j
        /\ \A i \in DOMAIN a : a[i] = nodes[id[i]] /\ (g = "" \/ a[i].group = g)
    BY <1>1, <2>2
  <2>4. Drawn(a, nodes, g)
    BY <2>2, <2>3, Zenon DEF Drawn
  <2> QED  BY <2>1, <2>4
<1>2. CASE g # ""
  <2> DEFINE places == {i \in DOMAIN nodes : nodes[i].group = g}
  <2>1. a = Filtered(nodes, places)
    BY <1>2 DEF InGroup
  <2>2. places \subseteq DOMAIN nodes /\ \A i \in places : nodes[i].group = g
    OBVIOUS
  <2> HIDE DEF places
  <2>3. /\ a \in Seq(Node)
        /\ \E f \in [DOMAIN a -> places] :
             /\ \A i, j \in DOMAIN a : f[i] = f[j] => i = j
             /\ \A i \in DOMAIN a : a[i] = nodes[f[i]]
    BY <2>1, <2>2, FilteredFacts
  <2>4. PICK f \in [DOMAIN a -> places] :
             /\ \A i, j \in DOMAIN a : f[i] = f[j] => i = j
             /\ \A i \in DOMAIN a : a[i] = nodes[f[i]]
    BY <2>3
  <2>5. f \in [DOMAIN a -> DOMAIN nodes] /\ \A i \in DOMAIN a : a[i].group = g
    BY <2>2, <2>4
  <2>6. Drawn(a, nodes, g)
    BY <2>4, <2>5, Zenon DEF Drawn
  <2> QED  BY <2>3, <2>6
<1> QED  BY <1>1, <1>2

\* The elements of lists of sources and of nodes have names.
LEMMA NamesInside ==
    /\ \A list \in Seq(Source) : \A i \in DOMAIN list : list[i].name \in Name
    /\ \A list \in Seq(Node) : \A i \in DOMAIN list : list[i].name \in NodeName
<1>1. ASSUME NEW list \in Seq(Source), NEW i \in DOMAIN list PROVE list[i].name \in Name
  <2>1. list[i] \in Source
    OBVIOUS
  <2> QED  BY <2>1 DEF Source
<1>2. ASSUME NEW list \in Seq(Node), NEW i \in DOMAIN list PROVE list[i].name \in NodeName
  <2>1. list[i] \in Node
    OBVIOUS
  <2> QED  BY <2>1 DEF Node
<1> QED  BY <1>1, <1>2

\* The sources that can be made active have names.
LEMMA SnapTyped ==
    ASSUME NEW c, Shaped(c)
    PROVE  SnapItems(c) \in Seq(Name)
<1>1. ASSUME NEW list \in Seq(Source) PROVE EnabledNames(list) \in Seq(Name)
  <2> DEFINE on == Filtered(list, OnIndices(list))
  <2>1. on \in Seq(Source)
    <3>1. OnIndices(list) \subseteq DOMAIN list
      BY DEF OnIndices
    <3> QED  BY <3>1, FilteredFacts
  <2> HIDE DEF on
  <2>2. \A i \in DOMAIN on : on[i].name \in Name
    BY <2>1, NamesInside
  <2>3. [i \in DOMAIN on |-> on[i].name] \in Seq(Name)
    <3>1. DOMAIN on = 1 .. Len(on) /\ Len(on) \in Nat
      BY <2>1
    <3>2. [i \in 1 .. Len(on) |-> on[i].name] \in [1 .. Len(on) -> Name]
      BY <2>2, <3>1
    <3> QED  BY <3>1, <3>2, SeqDef
  <2> QED  BY <2>3 DEF EnabledNames, on
<1>2. EnabledNames(c.subs) \in Seq(Name) /\ EnabledNames(c.groups) \in Seq(Name)
  BY <1>1 DEF Shaped
<1> QED  BY <1>2 DEF SnapItems

\* The rows of the Groups tab.
LEMMA GroupRowsTyped ==
    ASSUME NEW c, Shaped(c), Filled(c), Fetched \in Seq(NodeName)
    PROVE  GroupRows(c) \in Seq(Row)
<1> DEFINE a == [i \in DOMAIN c.subs |-> [name |-> c.subs[i].name, nodes |-> Fetched]]
           mine(i) == Filtered(c.nodes, NodesOf(c, c.groups[i].name))
           n(i) == [j \in DOMAIN mine(i) |-> mine(i)[j].name]
           b == [i \in DOMAIN c.groups |-> [name |-> c.groups[i].name, nodes |-> n(i)]]
<1>1. c.subs \in Seq(Source) /\ c.groups \in Seq(Source) /\ c.nodes \in Seq(Node)
  BY DEF Shaped, Filled
<1>2. \A list \in Seq(Source) : /\ DOMAIN list = 1 .. Len(list) /\ Len(list) \in Nat
                                /\ \A i \in DOMAIN list : list[i].name \in Name
  BY NamesInside
<1>3. a \in Seq(Row)
  <2>1. a \in [1 .. Len(c.subs) -> Row]
    BY <1>1, <1>2 DEF Row
  <2>2. Len(c.subs) \in Nat
    BY <1>1
  <2> HIDE DEF a
  <2> QED  BY <2>1, <2>2
<1>4. ASSUME NEW i \in DOMAIN c.groups PROVE n(i) \in Seq(NodeName)
  <2> DEFINE m == mine(i)
  <2>1. m \in Seq(Node)
    <3>1. NodesOf(c, c.groups[i].name) \subseteq DOMAIN c.nodes
      BY DEF NodesOf
    <3> QED  BY <1>1, <3>1, FilteredFacts
  <2> HIDE DEF m
  <2>2. DOMAIN m = 1 .. Len(m) /\ Len(m) \in Nat /\ \A j \in DOMAIN m : m[j].name \in NodeName
    BY <2>1, NamesInside
  <2>3. [j \in DOMAIN m |-> m[j].name] \in [1 .. Len(m) -> NodeName]
    BY <2>2
  <2>4. [j \in DOMAIN m |-> m[j].name] \in Seq(NodeName)
    BY <2>2, <2>3, SeqDef
  <2> QED  BY <2>4 DEF m
<1>5. b \in Seq(Row)
  <2> HIDE DEF n
  <2>1. b \in [1 .. Len(c.groups) -> Row]
    BY <1>1, <1>2, <1>4 DEF Row
  <2>2. Len(c.groups) \in Nat
    BY <1>1
  <2> HIDE DEF b
  <2> QED  BY <2>1, <2>2
<1>6. GroupRows(c) = a \o b
  BY DEF GroupRows, NodesOf
<1> HIDE DEF a, b
<1> QED  BY <1>3, <1>5, <1>6

\* The Groups tab is brought up to date with both cursors on their lists.
LEMMA RefreshedFacts ==
    ASSUME NEW c, Shaped(c), Filled(c), Fetched \in Seq(NodeName),
           NEW g \in GroupsRecord, NEW h, h = Refreshed(g, c)
    PROVE  /\ h \in GroupsRecord /\ OnList(h.at, Len(h.rows))
           /\ OnList(h.node, NodeCount(h.rows, h.at))
<1> DEFINE rows == GroupRows(c)
           at == IF g.at >= Len(rows) /\ rows # <<>> THEN Len(rows) - 1 ELSE g.at
           n == NodeCount(rows, at)
           node == IF n = 0 THEN 0 ELSE Lesser(g.node, n - 1)
<1>1. rows \in Seq(Row)
  BY GroupRowsTyped
<1>2. h = [g EXCEPT !.rows = rows, !.at = at, !.node = node]
  BY DEF Refreshed
<1> HIDE DEF rows
<1>3. /\ g.at \in Nat /\ g.node \in Nat /\ Len(rows) \in Nat /\ (rows = <<>> <=> Len(rows) = 0)
      /\ DOMAIN rows = 1 .. Len(rows)
  BY <1>1 DEF GroupsRecord
<1>4. at \in Nat /\ OnList(at, Len(rows))
  BY <1>3 DEF OnList
<1> HIDE DEF at
<1>5. n \in Nat
  <2>1. CASE at < Len(rows)
    <3>1. rows[at + 1] \in Row
      BY <1>1, <1>3, <1>4, <2>1
    <3>2. Len(rows[at + 1].nodes) \in Nat
      BY <3>1 DEF Row
    <3> QED  BY <2>1, <3>2 DEF NodeCount
  <2>2. CASE ~(at < Len(rows))
    BY <2>2 DEF NodeCount
  <2> QED  BY <2>1, <2>2
<1> HIDE DEF n
<1>6. node \in Nat /\ OnList(node, n)
  BY <1>3, <1>5 DEF OnList, Lesser
<1> HIDE DEF node
<1>7. h \in GroupsRecord /\ h.rows = rows /\ h.at = at /\ h.node = node
  BY <1>1, <1>2, <1>4, <1>6 DEF GroupsRecord
<1> QED  BY <1>4, <1>6, <1>7 DEF n

\* The Active page looks again, with its cursor on the list.
LEMMA ResnappedFacts ==
    ASSUME NEW c, Shaped(c), NEW s \in SettingsRecord, NEW h, h = Resnapped(s, c)
    PROVE  /\ h \in SettingsRecord /\ OnList(h.active, Len(h.snap))
           /\ h.busy = s.busy /\ h.page = s.page /\ h.focus = s.focus
<1> DEFINE items == SnapItems(c)
           at == IF s.active >= Len(items) /\ items # <<>> THEN Len(items) - 1 ELSE s.active
<1>1. items \in Seq(Name)
  BY SnapTyped
<1>2. h = [s EXCEPT !.snap = items, !.active = at]
  BY DEF Resnapped
<1> HIDE DEF items
<1>3. /\ s.active \in Nat /\ Len(items) \in Nat /\ (items = <<>> <=> Len(items) = 0)
  BY <1>1 DEF SettingsRecord
<1>4. at \in Nat /\ OnList(at, Len(items))
  BY <1>3 DEF OnList
<1> HIDE DEF at
<1>5. /\ h \in SettingsRecord /\ h.snap = items /\ h.active = at
      /\ h.busy = s.busy /\ h.page = s.page /\ h.focus = s.focus
  BY <1>1, <1>2, <1>4 DEF SettingsRecord
<1> QED  BY <1>4, <1>5

-----------------------------------------------------------------------------
(* The same nodes in another order.                                        *)

\* Any list is itself in some order.
LEMMA ShuffledSelf ==
    ASSUME NEW S, NEW a \in Seq(S)
    PROVE  Shuffled(a, a)
<1> DEFINE f == [i \in DOMAIN a |-> i]
<1>1. f \in [DOMAIN a -> DOMAIN a] /\ \A i \in DOMAIN a : f[i] = i
  OBVIOUS
<1> HIDE DEF f
<1>2. /\ \A i, j \in DOMAIN a : f[i] = f[j] => i = j
      /\ \A j \in DOMAIN a : \E i \in DOMAIN a : f[i] = j
      /\ \A i \in DOMAIN a : a[i] = a[f[i]]
  BY <1>1
<1> QED  BY <1>1, <1>2, Zenon DEF Shuffled

\* Twice in another order is in another order.
LEMMA ShuffledTwice ==
    ASSUME NEW a, NEW b, NEW c, Shuffled(a, b), Shuffled(b, c)
    PROVE  Shuffled(a, c)
<1>1. PICK f \in [DOMAIN a -> DOMAIN b] : /\ \A i, j \in DOMAIN a : f[i] = f[j] => i = j
                                          /\ \A j \in DOMAIN b : \E i \in DOMAIN a : f[i] = j
                                          /\ \A i \in DOMAIN a : a[i] = b[f[i]]
  BY DEF Shuffled
<1>2. PICK e \in [DOMAIN b -> DOMAIN c] : /\ \A i, j \in DOMAIN b : e[i] = e[j] => i = j
                                          /\ \A j \in DOMAIN c : \E i \in DOMAIN b : e[i] = j
                                          /\ \A i \in DOMAIN b : b[i] = c[e[i]]
  BY DEF Shuffled
<1> DEFINE h == [i \in DOMAIN a |-> e[f[i]]]
<1>3. h \in [DOMAIN a -> DOMAIN c] /\ \A i \in DOMAIN a : h[i] = e[f[i]] /\ f[i] \in DOMAIN b
  BY <1>1, <1>2
<1> HIDE DEF h
<1>4. /\ \A i, j \in DOMAIN a : h[i] = h[j] => i = j
      /\ \A i \in DOMAIN a : a[i] = c[h[i]]
  BY <1>1, <1>2, <1>3
<1>5. ASSUME NEW j \in DOMAIN c PROVE \E i \in DOMAIN a : h[i] = j
  <2>1. PICK k \in DOMAIN b : e[k] = j
    BY <1>2
  <2>2. PICK i \in DOMAIN a : f[i] = k
    BY <1>1
  <2> QED  BY <1>3, <2>1, <2>2
<1>6. Len(a) = Len(c)
  BY DEF Shuffled
<1> QED  BY <1>3, <1>4, <1>5, <1>6, Zenon DEF Shuffled

\* An element taken out and put back at the end.
LEMMA ShuffledBack ==
    ASSUME NEW S, NEW a \in Seq(S), NEW k \in 1 .. Len(a), NEW b,
           b = Append(RemoveAt(a, k), a[k])
    PROVE  b \in Seq(S) /\ Len(b) = Len(a) /\ Shuffled(a, b)
<1> DEFINE rest == RemoveAt(a, k)
           f == [i \in 1 .. Len(a) |-> IF i < k THEN i ELSE IF i = k THEN Len(a) ELSE i - 1]
<1>1. /\ rest \in Seq(S) /\ Len(rest) = Len(a) - 1
      /\ \A j \in 1 .. Len(a) - 1 : rest[j] = IF j < k THEN a[j] ELSE a[j + 1]
  BY RemoveAtFacts
<1>2. b = Append(rest, a[k])
  OBVIOUS
<1> HIDE DEF rest
<1>3. a[k] \in S /\ Len(a) \in Nat /\ k \in Nat /\ DOMAIN a = 1 .. Len(a)
  OBVIOUS
<1>4. /\ b \in Seq(S) /\ Len(b) = Len(a) /\ b[Len(a)] = a[k]
      /\ \A j \in 1 .. Len(a) - 1 : b[j] = rest[j]
  BY <1>1, <1>2, <1>3
<1>5. DOMAIN b = 1 .. Len(a)
  BY <1>4
<1>6. /\ f \in [1 .. Len(a) -> 1 .. Len(a)]
      /\ \A i \in 1 .. Len(a) : f[i] = IF i < k THEN i ELSE IF i = k THEN Len(a) ELSE i - 1
  BY <1>3
<1> HIDE DEF f
<1>7. \A i, j \in 1 .. Len(a) : f[i] = f[j] => i = j
  BY <1>3, <1>6
<1>8. ASSUME NEW j \in 1 .. Len(a) PROVE \E i \in 1 .. Len(a) : f[i] = j
  <2>1. CASE j < k
    BY <1>6, <2>1
  <2>2. CASE j = Len(a)
    BY <1>6, <2>2
  <2>3. CASE k <= j /\ j < Len(a)
    <3>3. j \in Nat /\ 1 <= j /\ j < Len(a) /\ k <= j
      BY <1>3, <2>3
    <3>1. j + 1 \in 1 .. Len(a) /\ ~(j + 1 < k) /\ j + 1 # k /\ (j + 1) - 1 = j
      BY <1>3, <3>3
    <3>2. f[j + 1] = j
      BY <1>6, <3>1
    <3> QED  BY <3>1, <3>2
  <2>4. j < k \/ (k <= j /\ j < Len(a)) \/ j = Len(a)
    <3>1. \A n \in Nat : \A m \in 1 .. n : m < k \/ (k <= m /\ m < n) \/ m = n
      BY <1>3
    <3> QED  BY <1>3, <3>1
  <2> QED  BY <2>1, <2>2, <2>3, <2>4
<1>9. ASSUME NEW i \in 1 .. Len(a) PROVE a[i] = b[f[i]]
  <2>1. CASE i < k
    <3>1. i \in 1 .. Len(a) - 1
      BY <1>3, <2>1
    <3> QED  BY <1>1, <1>4, <1>6, <2>1, <3>1
  <2>2. CASE i = k
    BY <1>3, <1>4, <1>6, <2>2
  <2>3. CASE i > k
    <3>1. i - 1 \in 1 .. Len(a) - 1 /\ ~(i - 1 < k) /\ f[i] = i - 1 /\ (i - 1) + 1 = i
      BY <1>3, <1>6, <2>3
    <3>2. rest[i - 1] = a[i]
      BY <1>1, <3>1
    <3> QED  BY <1>4, <3>1, <3>2
  <2>4. i < k \/ i = k \/ i > k
    BY <1>3
  <2> QED  BY <2>1, <2>2, <2>3, <2>4
<1>10. /\ f \in [DOMAIN a -> DOMAIN b] /\ \A i, j \in DOMAIN a : f[i] = f[j] => i = j
       /\ \A j \in DOMAIN b : \E i \in DOMAIN a : f[i] = j
       /\ \A i \in DOMAIN a : a[i] = b[f[i]]
  BY <1>3, <1>5, <1>6, <1>7, <1>8, <1>9
<1>11. Shuffled(a, b)
  BY <1>4, <1>10, Zenon DEF Shuffled
<1> QED  BY <1>4, <1>11

\* Of two rows on screen one is left after a node has gone from the store.
LEMMA StillShown ==
    ASSUME NEW nodes \in Seq(Node), NEW stored \in Seq(Node), Shuffled(nodes, stored),
           NEW k \in 1 .. Len(stored), NEW g, Len(InGroup(nodes, g)) >= 2
    PROVE  Len(InGroup(RemoveAt(stored, k), g)) \in Nat \ {0}
<1>1. PICK rest : rest = RemoveAt(stored, k)
  OBVIOUS
<1>2. /\ rest \in Seq(Node) /\ Len(rest) = Len(stored) - 1
      /\ \A j \in 1 .. Len(stored) - 1 : rest[j] = IF j < k THEN stored[j] ELSE stored[j + 1]
  BY <1>1, RemoveAtFacts
<1>3. Len(stored) \in Nat /\ Len(nodes) \in Nat /\ DOMAIN stored = 1 .. Len(stored)
      /\ DOMAIN rest = 1 .. Len(stored) - 1
  BY <1>2
<1>4. CASE g = ""
  <2>1. InGroup(nodes, g) = nodes /\ InGroup(rest, g) = rest
    BY <1>4 DEF InGroup
  <2>2. Len(nodes) = Len(stored)
    BY DEF Shuffled
  <2> QED  BY <1>1, <1>2, <1>3, <2>1, <2>2
<1>5. CASE g # ""
  <2>1. PICK a : a = InGroup(nodes, g)
    OBVIOUS
  <2>2. a \in Seq(Node)
    BY <2>1, InGroupFacts
  <2>3. PICK f \in [DOMAIN a -> DOMAIN nodes] :
             /\ \A i, j \in DOMAIN a : f[i] = f[j] => i = j
             /\ \A i \in DOMAIN a : a[i] = nodes[f[i]] /\ (g = "" \/ a[i].group = g)
    <3>1. Drawn(a, nodes, g)
      BY <2>1, InGroupFacts
    <3> QED  BY <3>1 DEF Drawn
  <2>4. PICK e \in [DOMAIN nodes -> DOMAIN stored] :
             /\ \A i, j \in DOMAIN nodes : e[i] = e[j] => i = j
             /\ \A i \in DOMAIN nodes : nodes[i] = stored[e[i]]
    BY DEF Shuffled
  <2>5. 1 \in DOMAIN a /\ 2 \in DOMAIN a
    BY <2>1, <2>2
  <2>13. \A i \in DOMAIN a : f[i] \in DOMAIN nodes /\ nodes[f[i]].group = g
    BY <1>5, <2>3
  <2>14. \A i \in DOMAIN nodes : e[i] \in DOMAIN stored /\ stored[e[i]].group = nodes[i].group
    BY <2>4
  <2>15. f[1] # f[2] /\ f[1] \in DOMAIN nodes /\ f[2] \in DOMAIN nodes
    <3>1. 1 # 2
      OBVIOUS
    <3> QED  BY <2>3, <2>5, <3>1
  <2>6. /\ e[f[1]] \in DOMAIN stored /\ e[f[2]] \in DOMAIN stored /\ e[f[1]] # e[f[2]]
        /\ stored[e[f[1]]].group = g /\ stored[e[f[2]]].group = g
    BY <2>4, <2>5, <2>13, <2>14, <2>15
  <2>7. PICK j \in DOMAIN stored : j # k /\ stored[j].group = g
    BY <2>6
  <2> DEFINE i == IF j < k THEN j ELSE j - 1
             places == {x \in DOMAIN rest : rest[x].group = g}
  <2>8. i \in DOMAIN rest /\ rest[i] = stored[j]
    <3>1. CASE j < k
      BY <1>2, <1>3, <3>1
    <3>2. CASE j > k
      <4>1. j - 1 \in 1 .. Len(stored) - 1 /\ ~(j - 1 < k) /\ (j - 1) + 1 = j
        BY <1>3, <3>2
      <4>2. rest[j - 1] = stored[j]
        BY <1>2, <4>1
      <4> QED  BY <1>3, <3>2, <4>1, <4>2
    <3> QED  BY <1>3, <2>7, <3>1, <3>2
  <2> HIDE DEF i
  <2>9. places # {} /\ places \subseteq 1 .. Len(stored) - 1
    BY <1>3, <2>7, <2>8
  <2>10. InGroup(rest, g) = Filtered(rest, places)
    BY <1>5 DEF InGroup
  <2> HIDE DEF places
  <2>16. IsFiniteSet(1 .. Len(stored) - 1)
    BY <1>3, FS_Interval
  <2>17. IsFiniteSet(places)
    BY <2>9, <2>16, FS_Subset
  <2>11. Cardinality(places) \in Nat /\ Cardinality(places) # 0
    BY <2>9, <2>17, FS_CardinalityType, FS_EmptySet
  <2>12. Len(Filtered(rest, places)) = Cardinality(places)
    BY <2>11 DEF Filtered
  <2> QED  BY <1>1, <2>10, <2>11, <2>12
<1> QED  BY <1>4, <1>5

-----------------------------------------------------------------------------
(* Operations on the store.                                                *)

\* A configuration that is held is one.
LEMMA HeldTyped ==
    ASSUME NEW c, Held(c)
    PROVE  /\ c \in Config /\ c.subs \in Seq(Source) /\ c.groups \in Seq(Source)
           /\ c.nodes \in Seq(Node) /\ c.rules \in Seq(Ref)
BY DEF Held, Shaped, Filled, Config

\* How many subscriptions an operation on them leaves.
LEMMA SubsCounted ==
    ASSUME NEW old, Held(old), NEW s, NEW on \in BOOLEAN
    PROVE  /\ Len(AddSubscription(old, s).subs) = Len(old.subs) + 1
           /\ s \in NamesIn(old.subs) =>
                /\ Len(DeleteSubscription(old, s).subs) = Len(old.subs) - 1
                /\ Len(SetSubscriptionEnabled(old, s, on).subs) = Len(old.subs)
<1>0. DOMAIN old = {"subs", "groups", "nodes", "rules", "active", "target", "mode"}
  BY DEF Held, Shaped
<1> DEFINE With(d, x) == DOMAIN d = DOMAIN old /\ d.subs = x
<1>1. \A d, x, y : With(d, x) => With([d EXCEPT !.active = y], x) /\ With([d EXCEPT !.target = y], x)
  BY <1>0
<1>2. \A x : With([old EXCEPT !.subs = x], x)
  BY <1>0
<1> HIDE DEF With
<1>3. \A d, x, t : With(d, x) => /\ With(NudgeTarget(d, t), x) /\ With(NudgeActive(d, t), x)
                                 /\ With(ClearActive(d, t), x)
  BY <1>1 DEF NudgeTarget, NudgeActive, ClearActive
<1>4. old.subs \in Seq(Source)
  BY HeldTyped
<1>5. With(AddSubscription(old, s), Append1(old.subs, s, TRUE))
  BY <1>2, <1>3 DEF AddSubscription
<1>6. With(DeleteSubscription(old, s), Drop(old.subs, s))
  BY <1>1, <1>2, <1>3 DEF DeleteSubscription
<1>7. With(SetSubscriptionEnabled(old, s, on), SetOn(old.subs, s, on))
  BY <1>2, <1>3 DEF SetSubscriptionEnabled
<1>8. Len(Append1(old.subs, s, TRUE)) = Len(old.subs) + 1
  BY <1>4 DEF Append1
<1>9. ASSUME s \in NamesIn(old.subs) PROVE Len(Drop(old.subs, s)) = Len(old.subs) - 1
  <2>1. IndexOf(old.subs, s) \in 1 .. Len(old.subs)
    BY <1>4, <1>9, IndexFound
  <2> QED  BY <1>4, <2>1, RemoveAtFacts DEF Drop
<1>10. Len(SetOn(old.subs, s, on)) = Len(old.subs)
  BY <1>4 DEF SetOn
<1> QED  BY <1>5, <1>6, <1>7, <1>8, <1>9, <1>10 DEF With

\* Operations on subscriptions.
LEMMA SubsHeld ==
    ASSUME NEW old, Held(old), NEW s \in Name, NEW on \in BOOLEAN, NEW c,
           \/ c = AddSubscription(old, s)
           \/ s \in NamesIn(old.subs) /\ c = DeleteSubscription(old, s)
           \/ s \in NamesIn(old.subs) /\ c = SetSubscriptionEnabled(old, s, on)
    PROVE  Held(c) /\ Framed(old, c) /\ c.groups = old.groups
<1>1. Shaped(old) /\ Filled(old)
  BY DEF Held
<1>2. Framed(old, c)
  BY <1>1, FrameFacts
<1>3. Shaped(c) /\ c.groups = old.groups
  <2>1. CASE c = AddSubscription(old, s)
    BY <1>1, <2>1, AddSubFacts
  <2>2. CASE s \in NamesIn(old.subs) /\ c = DeleteSubscription(old, s)
    BY <1>1, <2>2, DeleteSubFacts
  <2>3. CASE s \in NamesIn(old.subs) /\ c = SetSubscriptionEnabled(old, s, on)
    BY <1>1, <2>3, SwitchSubFacts
  <2> QED  BY <2>1, <2>2, <2>3
<1> QED  BY <1>1, <1>2, <1>3, FramedFacts DEF Held

\* Operations on groups of local nodes.
LEMMA GroupsHeld ==
    ASSUME NEW old, Held(old), NEW g \in Name, NEW c,
           \/ c = AddLocalGroup(old, g)
           \/ CanDeleteLocalGroup(old, g, FALSE) /\ c = DeleteLocalGroup(old, g, FALSE)
           \/ g \in NamesIn(old.groups) /\ c = ToggleLocalGroupEnabled(old, g)
    PROVE  Held(c) /\ Framed(old, c) /\ c.subs = old.subs
<1>1. Shaped(old) /\ Filled(old)
  BY DEF Held
<1>2. CASE CanDeleteLocalGroup(old, g, FALSE) /\ c = DeleteLocalGroup(old, g, FALSE)
  <2>1. g \in NamesIn(old.groups)
    BY <1>2 DEF CanDeleteLocalGroup
  <2>2. Shaped(c) /\ c.subs = old.subs
    BY <1>1, <1>2, <2>1, DeleteGroupFacts
  <2>3. Framed(old, c)
    <3>1. PICK x : x = [old EXCEPT !.groups = Drop(old.groups, g)]
      OBVIOUS
    <3>2. c = ClearActive(x, g) /\ Framed(old, x)
      BY <1>1, <1>2, <3>1 DEF DeleteLocalGroup, Framed, Shaped
    <3>3. DOMAIN x = {"subs", "groups", "nodes", "rules", "active", "target", "mode"}
      BY <1>1, <3>1 DEF Shaped
    <3> QED  BY <3>2, <3>3 DEF ClearActive, Framed
  <2> QED  BY <1>1, <2>2, <2>3, FramedFacts DEF Held
<1>3. CASE c = AddLocalGroup(old, g)
  <2>1. Shaped(c) /\ c.subs = old.subs
    BY <1>1, <1>3, AddGroupFacts
  <2>2. Framed(old, c)
    BY <1>1, <1>3, FrameFacts
  <2> QED  BY <1>1, <2>1, <2>2, FramedFacts DEF Held
<1>4. CASE g \in NamesIn(old.groups) /\ c = ToggleLocalGroupEnabled(old, g)
  <2>1. Shaped(c) /\ c.subs = old.subs
    BY <1>1, <1>4, SwitchGroupFacts
  <2>2. Framed(old, c)
    BY <1>1, <1>4, FrameFacts
  <2> QED  BY <1>1, <2>1, <2>2, FramedFacts DEF Held
<1> QED  BY <1>2, <1>3, <1>4

\* The rename of a group.
LEMMA RenameHeld ==
    ASSUME NEW old, Held(old), NEW g, NEW h \in Name, CanRenameLocalGroup(old, g, h),
           NEW c, c = RenameLocalGroup(old, g, h)
    PROVE  /\ Held(c) /\ c.subs = old.subs /\ c.rules = old.rules
           /\ Len(c.nodes) = Len(old.nodes)
<1>1. Shaped(old) /\ Filled(old) /\ g \in NamesIn(old.groups) /\ h \notin NamesIn(old.groups)
  BY DEF Held, CanRenameLocalGroup, Sources
<1>2. Shaped(c) /\ c.subs = old.subs
  BY <1>1, RenameGroupFacts
<1>3. Filled(c)
  BY <1>1, RenameGroupNodes
<1> DEFINE nodes == [i \in DOMAIN old.nodes |->
                       IF i \in NodesOf(old, g) THEN [old.nodes[i] EXCEPT !.group = h]
                                                ELSE old.nodes[i]]
<1>4. c.nodes = nodes /\ c.rules = old.rules
  <2>1. \E x : c = [old EXCEPT !.groups = x, !.nodes = nodes]
    BY <1>1 DEF RenameLocalGroup, Shaped
  <2> HIDE DEF nodes
  <2> QED  BY <1>1, <2>1 DEF Shaped
<1>5. DOMAIN nodes = DOMAIN old.nodes
  OBVIOUS
<1> HIDE DEF nodes
<1>6. c.nodes \in Seq(Node) /\ old.nodes \in Seq(Node)
  BY <1>1, <1>3 DEF Filled
<1>7. Len(c.nodes) = Len(old.nodes)
  <2>1. \A x \in Seq(Node) : Len(x) \in Nat /\ DOMAIN x = 1 .. Len(x)
    OBVIOUS
  <2>2. \A m, n \in Nat : 1 .. m = 1 .. n => m = n
    <3> SUFFICES ASSUME NEW m \in Nat, NEW n \in Nat, 1 .. m = 1 .. n PROVE m = n
      OBVIOUS
    <3>1. m > 0 => m \in 1 .. n
      OBVIOUS
    <3>2. n > 0 => n \in 1 .. m
      OBVIOUS
    <3> QED  BY <3>1, <3>2
  <2> QED  BY <1>4, <1>5, <1>6, <2>1, <2>2
<1> QED  BY <1>2, <1>3, <1>4, <1>7 DEF Held

\* The other operations: a mode, an active source, rules, nodes.
LEMMA OthersHeld ==
    ASSUME NEW old, Held(old), NEW c,
           \/ \E m \in Modes : c = SetMode(old, m)
           \/ \E s \in Name : CanSetActiveSource(old, s) /\ c = SetActiveSource(old, s)
           \/ \E list \in Seq(Ref) : c = [old EXCEPT !.rules = list]
           \/ \E list \in Seq(Node) : c = [old EXCEPT !.nodes = list]
    PROVE  Held(c) /\ c.subs = old.subs /\ c.groups = old.groups
<1>1. Shaped(old) /\ Filled(old)
  BY DEF Held
<1>2. ASSUME NEW m \in Modes, c = SetMode(old, m) PROVE Held(c) /\ c.subs = old.subs /\ c.groups = old.groups
  BY <1>1, <1>2 DEF SetMode, Held, Shaped, Filled
<1>3. ASSUME NEW s \in Name, CanSetActiveSource(old, s), c = SetActiveSource(old, s)
      PROVE  Held(c) /\ c.subs = old.subs /\ c.groups = old.groups
  <2>1. Shaped(c) /\ c.subs = old.subs /\ c.groups = old.groups
    BY <1>1, <1>3, SetActiveFacts
  <2>2. Framed(old, c)
    BY <1>1, <1>3, FrameFacts
  <2> QED  BY <1>1, <2>1, <2>2, FramedFacts DEF Held
<1>4. ASSUME NEW list \in Seq(Ref), c = [old EXCEPT !.rules = list]
      PROVE  Held(c) /\ c.subs = old.subs /\ c.groups = old.groups
  BY <1>1, <1>4 DEF Held, Shaped, Filled
<1>5. ASSUME NEW list \in Seq(Node), c = [old EXCEPT !.nodes = list]
      PROVE  Held(c) /\ c.subs = old.subs /\ c.groups = old.groups
  BY <1>1, <1>5 DEF Held, Shaped, Filled
<1> QED  BY <1>2, <1>3, <1>4, <1>5

-----------------------------------------------------------------------------
(* What a message leaves alone.                                            *)

\* A part of the invariant stays true when what it is about stays as it is.
LEMMA Untouched ==
    ASSUME IInv, UNCHANGED scope
    PROVE  /\ UNCHANGED cfg => StoreTyped'
           /\ UNCHANGED <<app, leaving, mutated>> => AppTyped'
           /\ UNCHANGED conns => ConnsTyped'
           /\ UNCHANGED rules /\ cfg'.rules = cfg.rules => RulesTyped'
           /\ UNCHANGED groups => GroupsTyped'
           /\ UNCHANGED sources => SourcesFine'
           /\ UNCHANGED <<settings, doing>> => SettingsTyped'
           /\ UNCHANGED sources /\ Len(cfg'.nodes) \in Nat /\ cfg'.subs = cfg.subs
                /\ cfg'.groups = cfg.groups /\ cfg'.nodes = cfg.nodes => Follows'
           /\ UNCHANGED <<app, conns, rules, sources, settings>> => FocusOnScreen'
<1>1. UNCHANGED cfg => StoreTyped'
  BY DEF IInv, StoreTyped
<1>2. UNCHANGED <<app, leaving, mutated>> => AppTyped'
  BY DEF IInv, AppTyped
<1>3. UNCHANGED conns => ConnsTyped'
  BY DEF IInv, ConnsTyped, Rows
<1>4. UNCHANGED rules /\ cfg'.rules = cfg.rules => RulesTyped'
  BY DEF IInv, RulesTyped
<1>5. UNCHANGED groups => GroupsTyped'
  BY DEF IInv, GroupsTyped
<1>6. UNCHANGED sources => SourcesFine'
  BY DEF IInv, SourcesFine, SourcesRecord, Form, Fields, Keys
<1>7. UNCHANGED <<settings, doing>> => SettingsTyped'
  BY DEF IInv, SettingsTyped
<1>8. UNCHANGED sources /\ Len(cfg'.nodes) \in Nat /\ cfg'.subs = cfg.subs
        /\ cfg'.groups = cfg.groups /\ cfg'.nodes = cfg.nodes => Follows'
  BY DEF IInv, Follows, MayFail, Keys
<1>9. UNCHANGED <<app, conns, rules, sources, settings>> => FocusOnScreen'
  BY DEF IInv, FocusOnScreen, On, Form, Page
<1> QED  BY <1>1, <1>2, <1>3, <1>4, <1>5, <1>6, <1>7, <1>8, <1>9

\* What the scope of a run is made of.
LEMMA ScopeFacts ==
    ASSUME scope \in Scopes
    PROVE  /\ Fetched \in Seq(NodeName) /\ MayFail \in BOOLEAN /\ Rows \subseteq Nat
           /\ scope.start \in Config /\ scope.typed \subseteq Name /\ scope.groups \subseteq Name
BY ScopesOK DEF Fetched, MayFail, Rows

-----------------------------------------------------------------------------
(* Focus and tabs.                                                         *)

\* The arrows move the focus between the tabs and the parts of a page.
LEMMA FocusStep ==
    ASSUME IInv, NEW k, ShiftFocus(k), UNCHANGED <<scope, leaving>>
    PROVE  IInv'
<1>1. UNCHANGED <<cfg, conns, rules, mutated, doing>>
  BY DEF ShiftFocus
<1>2. \/ /\ \/ settings' = [settings EXCEPT !.focus = "sidebar"]
            \/ settings' = [settings EXCEPT !.focus = IF OwnsArrows(Page) THEN "content" ELSE @]
         /\ UNCHANGED <<app, sources, groups>>
      \/ /\ \E f \in {"sidebar", "content"} : sources' = [sources EXCEPT !.focus = f]
         /\ UNCHANGED <<app, settings, groups>>
      \/ /\ \E p \in {"groups", "nodes"} : groups' = [groups EXCEPT !.pane = p]
         /\ UNCHANGED <<app, sources, settings>>
      \/ /\ \E f \in {"sidebar", "body"} : app' = [app EXCEPT !.focus = f]
         /\ UNCHANGED <<sources, settings, groups>>
  BY DEF ShiftFocus
<1>3. StoreTyped' /\ ConnsTyped' /\ RulesTyped'
  BY <1>1, Untouched
<1>4. AppTyped'
  <2>1. leaving' = leaving /\ mutated' = mutated
    BY <1>1
  <2> QED  BY <1>2, <2>1 DEF IInv, AppTyped
<1>5. GroupsTyped'
  <2>1. UNCHANGED groups \/ \E p \in {"groups", "nodes"} : groups' = [groups EXCEPT !.pane = p]
    BY <1>2
  <2> QED  BY <2>1 DEF IInv, GroupsTyped, GroupsRecord
<1>6. SourcesFine' /\ Follows'
  <2>1. UNCHANGED sources \/ \E f \in {"sidebar", "content"} : sources' = [sources EXCEPT !.focus = f]
    BY <1>2
  <2>2. SourcesFine'
    BY <2>1 DEF IInv, SourcesFine, SourcesRecord, Form, Fields, Keys
  <2>3. /\ sources'.subs = sources.subs /\ sources'.groups = sources.groups
        /\ sources'.sub = sources.sub /\ sources'.node = sources.node /\ sources'.nodes = sources.nodes
    BY <2>1 DEF IInv, SourcesFine, SourcesRecord
  <2> QED  BY <1>1, <2>2, <2>3 DEF IInv, Follows, MayFail, Keys
<1>7. SettingsTyped'
  <2>1. \/ UNCHANGED settings
        \/ settings' = [settings EXCEPT !.focus = "sidebar"]
        \/ settings' = [settings EXCEPT !.focus = IF OwnsArrows(Page) THEN "content" ELSE @]
    BY <1>2
  <2> QED  BY <1>1, <2>1 DEF IInv, SettingsTyped, SettingsRecord
<1>8. FocusOnScreen'
  <2>1. On("sources")' = On("sources") /\ On("connections")' = On("connections")
        /\ On("rules")' = On("rules")
    BY <1>2 DEF IInv, AppTyped, On
  <2>2. Form' = Form
    BY <1>2 DEF IInv, SourcesFine, SourcesRecord, Form
  <2>3. settings'.focus = "content" => OwnsArrows(Page)'
    BY <1>2 DEF IInv, FocusOnScreen, SettingsTyped, SettingsRecord, Page, OwnsArrows
  <2> QED  BY <1>1, <2>1, <2>2, <2>3 DEF IInv, FocusOnScreen
<1> QED  BY <1>3, <1>4, <1>5, <1>6, <1>7, <1>8 DEF IInv

\* Another tab is shown only when no filter and no form is open.
LEMMA TabStep ==
    ASSUME IInv, NEW k, ~Typing \/ k = "ctrl+c", (CycleTab(k) /\ ~Typing) \/ GlobalKey(k),
           UNCHANGED <<scope, leaving>>
    PROVE  IInv'
<1>1. UNCHANGED <<cfg, conns, rules, groups, sources, settings, mutated, doing>>
  BY DEF CycleTab, GlobalKey
<1>2. \/ ~Typing /\ \E t \in 1 .. 7 : app' = [app EXCEPT !.tab = t]
      \/ app' = [app EXCEPT !.running = FALSE]
      \/ UNCHANGED app
  <2>0. app.tab \in 1 .. 7
    BY DEF IInv, AppTyped
  <2>1. CASE CycleTab(k) /\ ~Typing
    BY <2>0, <2>1, TabFacts DEF CycleTab, GoTo, Lesser
  <2>2. CASE GlobalKey(k)
    <3>0. ToSet(TabKeys) = {"1", "2", "3", "4", "5", "6", "7"}
      BY DEF ToSet, TabKeys
    <3>1. CASE k \in {"q", "ctrl+c"}
      BY <2>2, <3>0, <3>1 DEF GlobalKey
    <3>2. CASE k \notin {"q", "ctrl+c"}
      <4>1. \/ \E t \in DOMAIN Tabs : GoTo(t)
            \/ GoTo((app.tab % Len(Tabs)) + 1)
            \/ GoTo(((app.tab + Len(Tabs) - 2) % Len(Tabs)) + 1)
            \/ UNCHANGED app
        BY <2>2, <3>2 DEF GlobalKey
      <4>2. (app.tab % 7) + 1 \in 1 .. 7 /\ ((app.tab + 7 - 2) % 7) + 1 \in 1 .. 7
        BY <2>0
      <4>3. \E t \in 1 .. 7 : GoTo(t) \/ UNCHANGED app
        BY <4>1, <4>2, TabFacts
      <4> QED  BY <3>2, <4>3 DEF GoTo
    <3> QED  BY <3>1, <3>2
  <2> QED  BY <2>1, <2>2
<1>3. AppTyped'
  BY <1>1, <1>2 DEF IInv, AppTyped
<1>4. FocusOnScreen'
  <2>1. CASE ~Typing
    <3>1. ~conns.filtering /\ ~rules.filtering /\ Form.kind = "none"
      BY <2>1 DEF Typing, IInv, FocusOnScreen
    <3> QED  BY <1>1, <3>1 DEF IInv, FocusOnScreen, Form, Page
  <2>2. CASE Typing
    <3>1. app'.tab = app.tab
      BY <1>2, <2>2 DEF IInv, AppTyped
    <3> QED  BY <1>1, <3>1 DEF IInv, FocusOnScreen, On, Form, Page
  <2> QED  BY <2>1, <2>2
<1>5. Len(cfg'.nodes) \in Nat
  BY <1>1, HeldTyped DEF IInv, StoreTyped
<1> QED  BY <1>1, <1>3, <1>4, <1>5, Untouched DEF IInv

-----------------------------------------------------------------------------
(* Connections, Rules and Groups.                                          *)

\* What a key makes of an open filter.
LEMMA FilterFacts ==
    ASSUME NEW r, NEW k, NEW h, h = FilterAfter(r, k)
    PROVE  \/ h = r
           \/ h = [r EXCEPT !.filter = FALSE, !.filtering = FALSE]
           \/ h = [r EXCEPT !.filtering = FALSE]
           \/ \E b \in BOOLEAN : h = [r EXCEPT !.filter = b]
BY DEF FilterAfter, NoText

\* Keys of the Connections tab.
LEMMA ConnsStep ==
    ASSUME IInv, NEW k, On("connections"), ConnsKey(k) \/ ConnsFilterKey(k),
           UNCHANGED <<scope, leaving>>
    PROVE  IInv'
<1>1. UNCHANGED <<cfg, app, rules, groups, sources, settings, mutated, doing>>
  BY DEF ConnsKey, ConnsFilterKey
<1>2. Len(cfg'.nodes) \in Nat
  BY <1>1, HeldTyped DEF IInv, StoreTyped
<1>3. /\ conns \in [items : Rows \union {0}, filter : BOOLEAN, filtering : BOOLEAN, at : Nat]
      /\ OnList(conns.at, conns.items) /\ Rows \subseteq Nat
  BY ScopeFacts DEF IInv, ConnsTyped, StoreTyped
<1>4. \/ conns' = [conns EXCEPT !.filtering = TRUE]
      \/ conns' = [conns EXCEPT !.at = Scrolled(@, k, Visible(conns.items, conns.filter))]
      \/ conns' = conns
      \/ conns' = [conns EXCEPT !.filter = FALSE, !.filtering = FALSE]
      \/ conns' = [conns EXCEPT !.filtering = FALSE]
      \/ \E b \in BOOLEAN : conns' = [conns EXCEPT !.filter = b]
  <2>1. CASE ConnsKey(k)
    BY <2>1 DEF ConnsKey
  <2>2. CASE ConnsFilterKey(k)
    <3>1. conns' = FilterAfter(conns, k)
      BY <2>2 DEF ConnsFilterKey
    <3> QED  BY <3>1, FilterFacts
  <2> QED  BY <2>1, <2>2
<1>5. PICK at : at = Scrolled(conns.at, k, Visible(conns.items, conns.filter))
  OBVIOUS
<1>6. at \in Nat /\ OnList(at, conns.items)
  <2>1. conns.items \in Nat /\ conns.at \in Nat
    <3>1. conns.items \in Rows \union {0} /\ conns.at \in Nat
      BY <1>3
    <3>2. \A x \in Rows \union {0} : x \in Nat
      BY ScopeFacts DEF IInv, StoreTyped
    <3> QED  BY <3>1, <3>2
  <2>2. PICK v : v = Visible(conns.items, conns.filter)
    OBVIOUS
  <2>3. v = conns.items \/ (v = 1 /\ conns.items >= 1)
    BY <2>1, <2>2, VisibleFacts
  <2> QED  BY <1>3, <1>5, <2>1, <2>2, <2>3, ScrolledFacts
<1>7. ConnsTyped'
  <2>1. /\ conns' \in [items : Rows \union {0}, filter : BOOLEAN, filtering : BOOLEAN, at : Nat]
        /\ OnList(conns'.at, conns'.items)
    BY <1>3, <1>4, <1>5, <1>6
  <2> QED  BY <2>1 DEF ConnsTyped, Rows
<1>8. FocusOnScreen'
  BY <1>1 DEF IInv, FocusOnScreen, On, Form, Page
<1> QED  BY <1>1, <1>2, <1>7, <1>8, Untouched DEF IInv

\* What the record of the Rules tab may become when the rules stay as they are.
LEMMA RulesMove ==
    ASSUME IInv, NEW at \in Nat, OnList(at, rules.live), NEW row \in Nat, AtRow(row, Len(rules.rows)),
           NEW b \in BOOLEAN, NEW f \in BOOLEAN, f => rules.filtering \/ On("rules"),
           NEW p \in {"live", "local"},
           rules' = [rules EXCEPT !.at = at, !.row = row, !.filter = b, !.filtering = f, !.page = p],
           UNCHANGED <<scope, leaving, cfg, app, conns, groups, sources, settings, mutated, doing>>
    PROVE  IInv' /\ cfg'.nodes = cfg.nodes
<1>1. Len(cfg'.nodes) \in Nat
  BY HeldTyped DEF IInv, StoreTyped
<1>2. RulesTyped'
  BY DEF IInv, RulesTyped
<1>3. FocusOnScreen'
  <2>1. rules'.filtering = f
    BY DEF IInv, RulesTyped
  <2> QED  BY <2>1 DEF IInv, FocusOnScreen, On, Form, Page
<1> QED  BY <1>1, <1>2, <1>3, Untouched DEF IInv

\* Keys of the local rules.
LEMMA LocalRulesStep ==
    ASSUME IInv, NEW k, LocalRulesKey(k), UNCHANGED <<scope, leaving>>
    PROVE  IInv' /\ cfg'.nodes = cfg.nodes
<1> DEFINE at == rules.row
           n == Len(cfg.rules)
           row == CASE k = "d" /\ at > 0 /\ at + 1 >= n -> at - 1
                    [] k = "K" /\ at > 0     -> at - 1
                    [] k = "J" /\ at + 1 < n -> at + 1
                    [] OTHER                 -> at
<1>1. UNCHANGED <<app, conns, groups, sources, settings, mutated, doing>>
  BY DEF LocalRulesKey
<1>2. /\ rules.rows = cfg.rules /\ cfg.rules \in Seq(Ref) /\ at \in Nat /\ n \in Nat
      /\ AtRow(at, n) /\ Held(cfg)
  BY HeldTyped DEF IInv, StoreTyped, RulesTyped
<1>3. cfg' = CASE k = "d" /\ at < n     -> RemoveRule(cfg, at + 1)
               [] k = "K" /\ at > 0     -> [cfg EXCEPT !.rules = Swapped(cfg.rules, at)]
               [] k = "J" /\ at + 1 < n -> [cfg EXCEPT !.rules = Swapped(cfg.rules, at + 1)]
               [] OTHER                 -> cfg
  BY <1>2 DEF LocalRulesKey
<1>4. rules' = CASE k \in {"d", "K", "J"} -> [rules EXCEPT !.rows = cfg'.rules, !.row = row]
                 [] OTHER -> [rules EXCEPT !.row = Moved(at, k, n)]
  BY <1>2 DEF LocalRulesKey
<1>5. \A i \in 1 .. n - 1 : Swapped(cfg.rules, i) \in Seq(Ref) /\ Len(Swapped(cfg.rules, i)) = n
  BY <1>2 DEF Swapped
<1>6. \A i \in 1 .. n : RemoveAt(cfg.rules, i) \in Seq(Ref) /\ Len(RemoveAt(cfg.rules, i)) = n - 1
  BY <1>2, RemoveAtFacts
<1> HIDE DEF n, at
<1>7. \E list \in Seq(Ref) :
        /\ cfg' = [cfg EXCEPT !.rules = list]
        /\ \/ k = "d" /\ at < n /\ Len(list) = n - 1
           \/ k = "d" /\ ~(at < n) /\ Len(list) = n
           \/ k # "d" /\ Len(list) = n
        /\ k \notin {"d", "K", "J"} => list = cfg.rules
  <2>0. [cfg EXCEPT !.rules = cfg.rules] = cfg /\ n = Len(cfg.rules)
    BY <1>2 DEF Held, Shaped, n
  <2>1. CASE k = "d" /\ at < n
    <3>1. at + 1 \in 1 .. n
      BY <1>2, <2>1
    <3>2. cfg' = [cfg EXCEPT !.rules = RemoveAt(cfg.rules, at + 1)]
      BY <1>3, <2>1 DEF RemoveRule
    <3> QED  BY <1>6, <2>1, <3>1, <3>2
  <2>2. CASE k = "K" /\ at > 0
    <3>1. at \in 1 .. n - 1
      BY <1>2, <2>2 DEF AtRow
    <3>2. cfg' = [cfg EXCEPT !.rules = Swapped(cfg.rules, at)]
      BY <1>3, <2>2
    <3> QED  BY <1>5, <2>2, <3>1, <3>2
  <2>3. CASE k = "J" /\ at + 1 < n
    <3>1. at + 1 \in 1 .. n - 1
      BY <1>2, <2>3
    <3>2. cfg' = [cfg EXCEPT !.rules = Swapped(cfg.rules, at + 1)]
      BY <1>3, <2>3
    <3> QED  BY <1>5, <2>3, <3>1, <3>2
  <2>4. CASE ~(k = "d" /\ at < n) /\ ~(k = "K" /\ at > 0) /\ ~(k = "J" /\ at + 1 < n)
    <3>1. cfg' = cfg
      BY <1>3, <2>4
    <3> QED  BY <1>2, <2>0, <2>4, <3>1
  <2> QED  BY <2>1, <2>2, <2>3, <2>4
<1>8. PICK list \in Seq(Ref) :
        /\ cfg' = [cfg EXCEPT !.rules = list]
        /\ \/ k = "d" /\ at < n /\ Len(list) = n - 1
           \/ k = "d" /\ ~(at < n) /\ Len(list) = n
           \/ k # "d" /\ Len(list) = n
        /\ k \notin {"d", "K", "J"} => list = cfg.rules
  BY <1>7
<1>9. Held(cfg') /\ cfg'.subs = cfg.subs /\ cfg'.groups = cfg.groups
  BY <1>2, <1>8, OthersHeld
<1>10. cfg'.rules = list /\ cfg'.nodes = cfg.nodes /\ Len(cfg'.nodes) \in Nat
  <2>1. cfg'.rules = list /\ cfg'.nodes = cfg.nodes
    BY <1>2, <1>8 DEF Held, Shaped
  <2> QED  BY <1>9, <2>1, HeldTyped
<1>11. row \in Nat /\ AtRow(row, Len(list))
  BY <1>2, <1>8 DEF AtRow
<1> HIDE DEF row
<1>12. RulesTyped'
  <2>1. CASE k \in {"d", "K", "J"}
    <3>1. rules' = [rules EXCEPT !.rows = list, !.row = row]
      BY <1>4, <1>10, <2>1
    <3> QED  BY <1>10, <1>11, <3>1 DEF IInv, RulesTyped
  <2>2. CASE k \notin {"d", "K", "J"}
    <3>1. PICK m : m = Moved(at, k, n)
      OBVIOUS
    <3>2. m \in Nat /\ AtRow(m, n)
      BY <1>2, <3>1, MovedFacts
    <3>3. rules' = [rules EXCEPT !.row = m]
      BY <1>4, <2>2, <3>1
    <3>4. cfg'.rules = cfg.rules /\ n = Len(rules.rows)
      BY <1>2, <1>8, <1>10, <2>2 DEF n
    <3> QED  BY <3>2, <3>3, <3>4 DEF IInv, RulesTyped
  <2> QED  BY <2>1, <2>2
<1>13. FocusOnScreen'
  <2>1. rules'.filtering = rules.filtering
    BY <1>4 DEF IInv, RulesTyped
  <2> QED  BY <1>1, <2>1 DEF IInv, FocusOnScreen, On, Form, Page
<1>14. StoreTyped'
  BY <1>9 DEF IInv, StoreTyped
<1> QED  BY <1>1, <1>9, <1>10, <1>12, <1>13, <1>14, Untouched DEF IInv

\* Keys of the Rules tab.
LEMMA RulesStep ==
    ASSUME IInv, NEW k, On("rules"), RulesKey(k) \/ RulesFilterKey(k), UNCHANGED <<scope, leaving>>
    PROVE  IInv' /\ cfg'.nodes = cfg.nodes
<1>1. /\ rules \in [live : Nat, filter : BOOLEAN, filtering : BOOLEAN, at : Nat,
                    page : {"live", "local"}, rows : Seq(Ref), row : Nat]
      /\ OnList(rules.at, rules.live) /\ AtRow(rules.row, Len(rules.rows)) /\ rules.rows = cfg.rules
  BY DEF IInv, RulesTyped
<1> DEFINE To(at, b, f, p) ==
      rules' = [rules EXCEPT !.at = at, !.row = @, !.filter = b, !.filtering = f, !.page = p]
<1>2. ASSUME NEW at \in Nat, OnList(at, rules.live), NEW b \in BOOLEAN, NEW f \in BOOLEAN,
             NEW p \in {"live", "local"}, To(at, b, f, p),
             UNCHANGED <<cfg, app, conns, groups, sources, settings, mutated, doing>>
      PROVE  IInv' /\ cfg'.nodes = cfg.nodes
  BY <1>1, <1>2, RulesMove
<1>3. CASE RulesFilterKey(k)
  <2>1. rules' = FilterAfter(rules, k)
        /\ UNCHANGED <<cfg, app, conns, groups, sources, settings, mutated, doing>>
    BY <1>3 DEF RulesFilterKey
  <2>2. \E b, f \in BOOLEAN : To(rules.at, b, f, rules.page)
    <3>1. \/ rules' = rules
          \/ rules' = [rules EXCEPT !.filter = FALSE, !.filtering = FALSE]
          \/ rules' = [rules EXCEPT !.filtering = FALSE]
          \/ \E b \in BOOLEAN : rules' = [rules EXCEPT !.filter = b]
      BY <2>1, FilterFacts
    <3>2. \/ To(rules.at, rules.filter, rules.filtering, rules.page)
          \/ To(rules.at, FALSE, FALSE, rules.page)
          \/ To(rules.at, rules.filter, FALSE, rules.page)
          \/ \E b \in BOOLEAN : To(rules.at, b, rules.filtering, rules.page)
      BY <1>1, <3>1
    <3> HIDE DEF To
    <3> QED  BY <1>1, <3>2
  <2> HIDE DEF To
  <2> QED  BY <1>1, <1>2, <2>1, <2>2
<1>4. CASE RulesKey(k)
  <2>1. CASE k = "T"
    <3>1. \E p \in {"live", "local"} : To(rules.at, rules.filter, rules.filtering, p)
      BY <1>1, <1>4, <2>1 DEF RulesKey
    <3>2. UNCHANGED <<cfg, app, conns, groups, sources, settings, mutated, doing>>
      BY <1>4, <2>1 DEF RulesKey
    <3> HIDE DEF To
    <3> QED  BY <1>1, <1>2, <3>1, <3>2
  <2>2. CASE k = "/"
    <3>1. To(rules.at, rules.filter, TRUE, rules.page)
      BY <1>1, <1>4, <2>2 DEF RulesKey
    <3>2. UNCHANGED <<cfg, app, conns, groups, sources, settings, mutated, doing>>
      BY <1>4, <2>2 DEF RulesKey
    <3> HIDE DEF To
    <3> QED  BY <1>1, <1>2, <3>1, <3>2
  <2>3. CASE k \in {"d", "K", "J"} /\ rules.page = "local"
    <3>1. LocalRulesKey(k)
      BY <1>4, <2>3 DEF RulesKey
    <3> QED  BY <3>1, LocalRulesStep
  <2>4. CASE k \notin {"T", "/"} /\ ~(k \in {"d", "K", "J"} /\ rules.page = "local")
    <3>1. PICK v : v = Visible(rules.live, rules.filter)
      OBVIOUS
    <3>2. PICK at : at = Scrolled(rules.at, k, v)
      OBVIOUS
    <3>3. /\ rules' = [rules EXCEPT !.at = at]
          /\ UNCHANGED <<cfg, app, conns, groups, sources, settings, mutated, doing>>
      BY <1>4, <2>4, <3>1, <3>2 DEF RulesKey
    <3>4. To(at, rules.filter, rules.filtering, rules.page)
      BY <1>1, <3>3
    <3>5. at \in Nat /\ OnList(at, rules.live)
      <4>1. v = rules.live \/ (v = 1 /\ rules.live >= 1)
        BY <1>1, <3>1, VisibleFacts
      <4> QED  BY <1>1, <3>2, <4>1, ScrolledFacts
    <3> HIDE DEF To
    <3> QED  BY <1>1, <1>2, <3>3, <3>4, <3>5
  <2> QED  BY <2>1, <2>2, <2>3, <2>4
<1> QED  BY <1>3, <1>4

\* Keys of the Groups tab, and the news that the store has changed.
LEMMA GroupsStep ==
    ASSUME IInv, NEW k, GroupsKey(k) \/ Deliver, UNCHANGED <<scope, leaving>>
    PROVE  IInv'
<1>1. /\ UNCHANGED <<cfg, app, conns, rules, sources, settings, doing>>
      /\ mutated' \in 0 .. MaxPending
  <2>1. mutated \in 0 .. MaxPending
    BY DEF IInv, AppTyped
  <2> QED  BY <2>1, MaxPendingOK DEF GroupsKey, Deliver
<1>2. \/ groups' = groups
      \/ \E there \in GroupsRecord : groups' = Refreshed(there, cfg)
  <2>1. groups \in GroupsRecord
    BY DEF IInv, GroupsTyped
  <2>2. CASE GroupsKey(k)
    <3> DEFINE a == Moved(groups.at, k, Len(groups.rows))
               n == Moved(groups.node, k, NodeCount(groups.rows, groups.at))
               first == [groups EXCEPT !.at = a, !.node = IF a = groups.at THEN groups.node ELSE 0]
               second == [groups EXCEPT !.node = n]
    <3>1. a \in Nat /\ n \in Nat
      BY <2>1, MovedFacts DEF GroupsRecord, Moved
    <3>2. \/ groups' = groups
          \/ groups' = Refreshed(first, cfg)
          \/ groups' = Refreshed(second, cfg)
      BY <2>1, <2>2 DEF GroupsKey, GroupsRecord
    <3> HIDE DEF a, n
    <3>3. first \in GroupsRecord /\ second \in GroupsRecord
      BY <2>1, <3>1 DEF GroupsRecord
    <3> QED  BY <3>2, <3>3
  <2>3. CASE Deliver
    BY <2>1, <2>3 DEF Deliver
  <2> QED  BY <2>2, <2>3
<1>3. Held(cfg) /\ Fetched \in Seq(NodeName)
  BY ScopeFacts DEF IInv, StoreTyped
<1>4. GroupsTyped'
  <2>1. CASE groups' = groups
    BY <2>1 DEF IInv, GroupsTyped
  <2>2. ASSUME NEW there \in GroupsRecord, groups' = Refreshed(there, cfg) PROVE GroupsTyped'
    BY <1>3, <2>2, RefreshedFacts DEF GroupsTyped, Held
  <2> QED  BY <1>2, <2>1, <2>2
<1>5. AppTyped' /\ Len(cfg'.nodes) \in Nat
  BY <1>1, <1>3, HeldTyped DEF IInv, AppTyped
<1> QED  BY <1>1, <1>4, <1>5, Untouched DEF IInv

-----------------------------------------------------------------------------
(* Settings, polls and the end.                                            *)

\* A change of the Settings tab that leaves the other tabs alone.
LEMMA SettingsMove ==
    ASSUME IInv, UNCHANGED <<scope, app, conns, rules, groups, sources, mutated, leaving>>,
           Held(cfg'), cfg'.subs = cfg.subs, cfg'.groups = cfg.groups, cfg'.nodes = cfg.nodes,
           cfg'.rules = cfg.rules, settings' \in SettingsRecord,
           OnList(settings'.active, Len(settings'.snap)), doing' \subseteq settings'.busy,
           settings'.focus = "content" => OwnsArrows(SubPages[settings'.page])
    PROVE  IInv' /\ cfg'.nodes = cfg.nodes
<1>1. StoreTyped' /\ Len(cfg'.nodes) \in Nat
  BY HeldTyped DEF IInv, StoreTyped
<1>2. SettingsTyped'
  BY DEF SettingsTyped
<1>3. FocusOnScreen'
  BY DEF IInv, FocusOnScreen, On, Form, Page
<1> QED  BY <1>1, <1>2, <1>3, Untouched DEF IInv

\* Keys of the Settings tab.
LEMMA SettingsStep ==
    ASSUME IInv, NEW k, SettingsKey(k), UNCHANGED <<scope, leaving>>
    PROVE  IInv' /\ cfg'.nodes = cfg.nodes
<1>1. /\ UNCHANGED <<scope, app, conns, rules, groups, sources, mutated, leaving>>
      /\ settings \in SettingsRecord /\ OnList(settings.active, Len(settings.snap))
      /\ doing \subseteq settings.busy /\ Held(cfg)
      /\ settings.focus = "content" => OwnsArrows(SubPages[settings.page])
  BY DEF SettingsKey, IInv, SettingsTyped, StoreTyped, FocusOnScreen, Page
<1>2. /\ settings.page \in 1 .. 8 /\ settings.routing \in 0 .. 2 /\ settings.template \in 0 .. 2
      /\ settings.active \in Nat
  BY <1>1 DEF SettingsRecord
<1> DEFINE Idles == cfg' = cfg /\ doing' = doing
<1>3. CASE settings' = settings /\ Idles
  BY <1>1, <1>3, SettingsMove
<1>4. CASE TurnPage(k)
  <2>1. \E p \in 1 .. 8 : settings' = [settings EXCEPT !.focus = "sidebar", !.page = p]
    <3>1. /\ (IF settings.page > 1 THEN settings.page - 1 ELSE 1) \in 1 .. 8
          /\ Lesser(settings.page + 1, 8) \in 1 .. 8 /\ Len(SubPages) = 8
      BY <1>2 DEF Lesser, SubPages
    <3> QED  BY <1>4, <3>1 DEF TurnPage
  <2>2. /\ settings' \in SettingsRecord /\ OnList(settings'.active, Len(settings'.snap))
        /\ settings'.busy = settings.busy /\ settings'.focus = "sidebar"
    BY <1>1, <2>1 DEF SettingsRecord
  <2>3. Idles
    BY <1>4 DEF TurnPage, Idle
  <2> QED  BY <1>1, <2>2, <2>3, SettingsMove
<1>5. ASSUME NEW p \in Cmds, Starts(p), Held(cfg'), cfg'.subs = cfg.subs, cfg'.groups = cfg.groups,
             cfg'.nodes = cfg.nodes, cfg'.rules = cfg.rules
      PROVE  IInv' /\ cfg'.nodes = cfg.nodes
  <2>1. /\ settings' \in SettingsRecord /\ settings'.active = settings.active
        /\ settings'.snap = settings.snap /\ settings'.page = settings.page
        /\ settings'.focus = settings.focus /\ doing' \subseteq settings'.busy
    BY <1>1, <1>5 DEF Starts, SettingsRecord
  <2> QED  BY <1>1, <1>5, <2>1, SettingsMove
<1>6. CASE RoutingKey(k)
  <2>1. CASE "routing" \in settings.busy
    BY <1>3, <1>6, <2>1 DEF RoutingKey, Idle
  <2>2. CASE "routing" \notin settings.busy /\ k # "enter"
    <3>1. PICK r : r = Moved(settings.routing, k, Len(ModeOpts))
      OBVIOUS
    <3>2. r \in 0 .. 2
      <4>1. Len(ModeOpts) = 3
        BY DEF ModeOpts
      <4> QED  BY <1>2, <3>1, <4>1 DEF Moved
    <3>3. settings' = [settings EXCEPT !.routing = r] /\ Idles
      BY <1>6, <2>2, <3>1 DEF RoutingKey, Idle
    <3>4. /\ settings' \in SettingsRecord /\ settings'.active = settings.active
          /\ settings'.snap = settings.snap /\ settings'.page = settings.page
          /\ settings'.focus = settings.focus /\ settings'.busy = settings.busy
      BY <1>1, <3>2, <3>3 DEF SettingsRecord
    <3> QED  BY <1>1, <3>3, <3>4, SettingsMove
  <2>3. CASE "routing" \notin settings.busy /\ k = "enter"
    <3>1. PICK m : m = ModeOpts[settings.routing + 1]
      OBVIOUS
    <3>2. m \in Modes
      <4>1. settings.routing = 0 \/ settings.routing = 1 \/ settings.routing = 2
        BY <1>2
      <4> QED  BY <3>1, <4>1 DEF ModeOpts, Modes
    <3>3. cfg' = SetMode(cfg, m) /\ (Starts("routing") \/ UNCHANGED <<settings, doing>>)
      BY <1>6, <2>3, <3>1 DEF RoutingKey
    <3>4. Held(cfg') /\ cfg'.subs = cfg.subs /\ cfg'.groups = cfg.groups
      BY <1>1, <3>2, <3>3, OthersHeld
    <3>5. cfg'.nodes = cfg.nodes /\ cfg'.rules = cfg.rules
      BY <1>1, <3>3 DEF SetMode, Held, Shaped
    <3>6. CASE Starts("routing")
      BY <1>5, <3>4, <3>5, <3>6 DEF Cmds
    <3>7. CASE UNCHANGED <<settings, doing>>
      BY <1>1, <3>4, <3>5, <3>7, SettingsMove
    <3> QED  BY <3>3, <3>6, <3>7
  <2> QED  BY <2>1, <2>2, <2>3
<1>7. CASE ActiveKey(k)
  <2>1. PICK now : now = Resnapped(settings, cfg)
    OBVIOUS
  <2>2. /\ now \in SettingsRecord /\ OnList(now.active, Len(now.snap))
        /\ now.busy = settings.busy /\ now.page = settings.page /\ now.focus = settings.focus
    BY <1>1, <2>1, ResnappedFacts DEF Held
  <2>3. now.active \in Nat /\ now.snap \in Seq(Name) /\ Len(now.snap) \in Nat
    BY <2>2 DEF SettingsRecord
  <2>4. CASE settings' = now /\ Idles
    BY <1>1, <2>2, <2>4, SettingsMove
  <2>5. CASE k # "enter" /\ "active" \notin now.busy
    <3>1. PICK a : a = Moved(now.active, k, Len(now.snap))
      OBVIOUS
    <3>2. a \in Nat /\ OnList(a, Len(now.snap))
      BY <2>2, <2>3, <3>1, MovedFacts
    <3>3. settings' = [now EXCEPT !.active = a] /\ Idles
      BY <1>7, <2>1, <2>5, <3>1 DEF ActiveKey, Idle
    <3>4. /\ settings' \in SettingsRecord /\ settings'.active = a
          /\ settings'.snap = now.snap /\ settings'.page = now.page
          /\ settings'.focus = now.focus /\ settings'.busy = now.busy
      BY <2>2, <3>2, <3>3 DEF SettingsRecord
    <3> QED  BY <1>1, <2>2, <3>2, <3>3, <3>4, SettingsMove
  <2>6. CASE /\ "active" \notin now.busy /\ k = "enter" /\ now.active < Len(now.snap)
             /\ CanSetActiveSource(cfg, now.snap[now.active + 1])
    <3>1. PICK pick : pick = now.snap[now.active + 1]
      OBVIOUS
    <3>2. pick \in Name
      BY <2>3, <2>6, <3>1
    <3>3. /\ cfg' = SetActiveSource(cfg, pick)
          /\ \/ /\ settings' = [now EXCEPT !.busy = @ \union {"active"}]
                /\ doing' = doing \union {"active"}
             \/ settings' = now /\ UNCHANGED doing
      BY <1>7, <2>1, <2>3, <2>6, <3>1 DEF ActiveKey
    <3>4. Held(cfg') /\ cfg'.subs = cfg.subs /\ cfg'.groups = cfg.groups
      BY <1>1, <2>6, <3>1, <3>2, <3>3, OthersHeld
    <3>5. cfg'.nodes = cfg.nodes /\ cfg'.rules = cfg.rules
      <4>1. Framed(cfg, cfg')
        BY <1>1, <3>3, FrameFacts DEF Held
      <4> QED  BY <4>1 DEF Framed
    <3>6. /\ settings' \in SettingsRecord /\ settings'.active = now.active
          /\ settings'.snap = now.snap /\ settings'.page = now.page
          /\ settings'.focus = now.focus /\ doing' \subseteq settings'.busy
      BY <1>1, <2>2, <3>3 DEF SettingsRecord, Cmds
    <3> QED  BY <1>1, <2>2, <3>4, <3>5, <3>6, SettingsMove
  <2> QED  BY <1>7, <2>1, <2>3, <2>4, <2>5, <2>6 DEF ActiveKey, Idle
<1>8. CASE ServiceKey(k) /\ Page \in {"core", "service"}
  <2>1. /\ cfg' = cfg
        /\ Starts(Page) \/ UNCHANGED <<settings, doing>>
    BY <1>8 DEF ServiceKey
  <2>2. CASE Starts(Page)
    BY <1>1, <1>5, <1>8, <2>1, <2>2 DEF Cmds
  <2> QED  BY <1>3, <2>1, <2>2
<1>9. CASE settings' = [settings EXCEPT !.template = Moved(@, k, Templates)] /\ Idles
  <2>1. PICK t : t = Moved(settings.template, k, Templates)
    OBVIOUS
  <2>2. t \in 0 .. 2
    BY <1>2, <2>1 DEF Moved, Templates
  <2>3. settings' = [settings EXCEPT !.template = t]
    BY <1>9, <2>1
  <2>4. /\ settings' \in SettingsRecord /\ settings'.active = settings.active
        /\ settings'.snap = settings.snap /\ settings'.page = settings.page
        /\ settings'.focus = settings.focus /\ settings'.busy = settings.busy
    BY <1>1, <2>2, <2>3 DEF SettingsRecord
  <2> QED  BY <1>1, <1>9, <2>4, SettingsMove
<1>10. \/ TurnPage(k) \/ RoutingKey(k) \/ ActiveKey(k)
       \/ ServiceKey(k) /\ Page \in {"core", "service"}
       \/ settings' = [settings EXCEPT !.template = Moved(@, k, Templates)] /\ Idles
       \/ settings' = settings /\ Idles
  BY DEF SettingsKey, Idle
<1> HIDE DEF Idles
<1> QED  BY <1>3, <1>4, <1>6, <1>7, <1>8, <1>9, <1>10

\* The end of a command, and a poll of the Service page.
LEMMA FinishStep ==
    ASSUME IInv, PollService \/ \E c \in doing : Finish(c)
    PROVE  IInv'
<1>1. /\ UNCHANGED <<scope, cfg, app, conns, rules, groups, sources, mutated, leaving>>
      /\ settings \in SettingsRecord /\ OnList(settings.active, Len(settings.snap))
      /\ doing \subseteq settings.busy /\ Held(cfg)
      /\ settings.focus = "content" => OwnsArrows(SubPages[settings.page])
  BY DEF PollService, Finish, IInv, SettingsTyped, StoreTyped, FocusOnScreen, Page
<1>2. CASE PollService
  <2>1. settings' = Resnapped(settings, cfg) /\ doing' = doing
    BY <1>2 DEF PollService
  <2> QED  BY <1>1, <2>1, ResnappedFacts, SettingsMove DEF Held
<1>3. ASSUME NEW c \in doing, Finish(c) PROVE IInv'
  <2>1. PICK idle : idle = [settings EXCEPT !.busy = @ \ {c}]
    OBVIOUS
  <2>2. doing' = doing \ {c} /\ (settings' = settings \/ settings' = idle \/ settings' = Resnapped(idle, cfg))
    BY <1>3, <2>1 DEF Finish
  <2>3. /\ idle \in SettingsRecord /\ idle.busy = settings.busy \ {c} /\ idle.active = settings.active
        /\ idle.snap = settings.snap /\ idle.page = settings.page /\ idle.focus = settings.focus
    BY <1>1, <2>1 DEF SettingsRecord
  <2>4. CASE settings' = settings
    BY <1>1, <2>2, <2>4, SettingsMove
  <2>5. CASE settings' = idle
    BY <1>1, <2>2, <2>3, <2>5, SettingsMove
  <2>6. CASE settings' = Resnapped(idle, cfg)
    <3>1. /\ settings' \in SettingsRecord /\ OnList(settings'.active, Len(settings'.snap))
          /\ settings'.busy = idle.busy /\ settings'.page = idle.page /\ settings'.focus = idle.focus
      BY <1>1, <2>3, <2>6, ResnappedFacts DEF Held
    <3> QED  BY <1>1, <2>2, <2>3, <3>1, SettingsMove
  <2> QED  BY <2>2, <2>4, <2>5, <2>6
<1> QED  BY <1>2, <1>3

\* Polls of mihomo, the end of the program, and the wish to leave.
LEMMA PollStep ==
    ASSUME IInv, PollConnections \/ PollRules \/ Leave \/ (Crash /\ UNCHANGED <<scope, leaving>>)
    PROVE  IInv'
<1>1. UNCHANGED <<scope, cfg, groups, sources, settings, mutated, doing>> /\ Len(cfg'.nodes) \in Nat
  <2>1. UNCHANGED <<scope, cfg, groups, sources, settings, mutated, doing>>
    BY DEF PollConnections, PollRules, Leave, Crash
  <2>2. cfg.nodes \in Seq(Node)
    BY HeldTyped DEF IInv, StoreTyped
  <2>3. Len(cfg.nodes) \in Nat
    BY <2>2
  <2> QED  BY <2>1, <2>3
<1>2. CASE PollConnections
  <2>1. UNCHANGED <<app, rules, leaving>>
    BY <1>2 DEF PollConnections
  <2>2. PICK n \in Rows : conns' = [conns EXCEPT !.items = n, !.at = IF @ >= n THEN 0 ELSE @]
    BY <1>2 DEF PollConnections
  <2>3. n \in Nat
    BY ScopeFacts DEF IInv, StoreTyped
  <2>4. ConnsTyped'
    <3>1. /\ conns \in [items : Rows \union {0}, filter : BOOLEAN, filtering : BOOLEAN, at : Nat]
          /\ conns.at \in Nat
      BY DEF IInv, ConnsTyped
    <3>2. PICK a : a = IF conns.at >= n THEN 0 ELSE conns.at
      OBVIOUS
    <3>3. a \in Nat /\ OnList(a, n)
      BY <2>3, <3>1, <3>2 DEF OnList
    <3>4. conns' = [conns EXCEPT !.items = n, !.at = a]
      BY <2>2, <3>2
    <3>5. /\ conns' \in [items : Rows \union {0}, filter : BOOLEAN, filtering : BOOLEAN, at : Nat]
          /\ conns'.at = a /\ conns'.items = n
      BY <3>1, <3>3, <3>4
    <3> QED  BY <1>1, <3>3, <3>5 DEF ConnsTyped, Rows
  <2>5. FocusOnScreen'
    <3>1. conns'.filtering = conns.filtering
      BY <2>2 DEF IInv, ConnsTyped
    <3> QED  BY <1>1, <2>1, <3>1 DEF IInv, FocusOnScreen, On, Form, Page
  <2> QED  BY <1>1, <2>1, <2>4, <2>5, Untouched DEF IInv
<1>3. CASE PollRules
  <2>1. UNCHANGED <<app, conns, leaving>>
    BY <1>3 DEF PollRules
  <2>2. PICK n \in Rows : rules' = [rules EXCEPT !.live = n,
             !.at = IF Visible(n, rules.filter) = 0 THEN 0 ELSE Lesser(@, Visible(n, rules.filter) - 1)]
    BY <1>3 DEF PollRules
  <2>3. n \in Nat
    BY ScopeFacts DEF IInv, StoreTyped
  <2>4. PICK a : a = IF Visible(n, rules.filter) = 0 THEN 0
                     ELSE Lesser(rules.at, Visible(n, rules.filter) - 1)
    OBVIOUS
  <2>5. a \in Nat /\ OnList(a, n)
    <3>1. rules.at \in Nat
      BY DEF IInv, RulesTyped
    <3>2. PICK v : v = Visible(n, rules.filter)
      OBVIOUS
    <3>3. v = n \/ (v = 1 /\ n >= 1)
      BY <2>3, <3>2, VisibleFacts
    <3> QED  BY <2>3, <2>4, <3>1, <3>2, <3>3 DEF OnList, Lesser
  <2>6. rules' = [rules EXCEPT !.live = n, !.at = a]
    BY <2>2, <2>4
  <2>7. RulesTyped'
    BY <1>1, <2>3, <2>5, <2>6 DEF IInv, RulesTyped
  <2>8. FocusOnScreen'
    <3>1. rules'.filtering = rules.filtering
      BY <2>6 DEF IInv, RulesTyped
    <3> QED  BY <1>1, <2>1, <3>1 DEF IInv, FocusOnScreen, On, Form, Page
  <2> QED  BY <1>1, <2>1, <2>7, <2>8, Untouched DEF IInv
<1>4. CASE Leave \/ (Crash /\ UNCHANGED <<scope, leaving>>)
  <2>1. /\ UNCHANGED <<conns, rules>>
        /\ app' = app \/ app' = [app EXCEPT !.running = FALSE]
        /\ leaving' \in BOOLEAN
    BY <1>4 DEF Leave, Crash, IInv, AppTyped
  <2>2. AppTyped' /\ app'.tab = app.tab
    BY <1>1, <2>1 DEF IInv, AppTyped
  <2>3. FocusOnScreen'
    BY <1>1, <2>1, <2>2 DEF IInv, FocusOnScreen, On, Form, Page
  <2> QED  BY <1>1, <2>1, <2>2, <2>3, Untouched DEF IInv
<1> QED  BY <1>2, <1>3, <1>4

-----------------------------------------------------------------------------
(* The Sources tab.                                                        *)

\* What `d' on a row of a local node does (the body of RowHit).
Hit ==
    (/\ Len(cfg'.nodes) < Len(cfg.nodes) /\ ~MayFail /\ "E" \notin Keys
     /\ \A i, j \in DOMAIN cfg.nodes : cfg.nodes[i].name = cfg.nodes[j].name => i = j)
    => \E i \in DOMAIN cfg.nodes :
         /\ cfg'.nodes = RemoveAt(cfg.nodes, i)
         /\ cfg.nodes[i] = Shown[sources.node + 1]
         /\ sources.group \in {"", cfg.nodes[i].group}

\* What a key of the Sources tab leaves behind.
Outcome ==
    /\ Held(cfg') /\ cfg'.rules = cfg.rules /\ Hit
    /\ SourcesFine' /\ Follows'
    /\ mutated' \in {mutated, mutated + 1}

\* A form closed, with lists as given.
ClosedWith(a, b, n, g, d) ==
    [Closed EXCEPT !.subs = a, !.groups = b, !.nodes = n, !.group = g, !.node = d]

\* What a key of the tab starts from.
LEMMA SourcesFacts ==
    ASSUME IInv
    PROVE  /\ sources \in SourcesRecord /\ Held(cfg)
           /\ sources.subs \in Seq(Source) /\ sources.groups \in Seq(Source)
           /\ sources.nodes \in Seq(Node) /\ sources.group \in Text
           /\ sources.sub \in Int /\ sources.node \in Int
           /\ Form \in [kind : Kinds, field : Nat, proto : 1 .. 6, node : {Form.node}]
           /\ Form.field < Fields /\ (Form.kind = "rename" => "E" \in Keys)
           /\ cfg.subs \in Seq(Source) /\ cfg.groups \in Seq(Source) /\ cfg.nodes \in Seq(Node)
           /\ Len(cfg.nodes) \in Nat /\ Len(cfg.subs) \in Nat /\ Len(sources.subs) \in Nat
<1>1. sources \in SourcesRecord /\ Held(cfg) /\ Form.field < Fields
      /\ (Form.kind = "rename" => "E" \in Keys)
  BY DEF IInv, StoreTyped, SourcesFine
<1>2. /\ sources.subs \in Seq(Source) /\ sources.groups \in Seq(Source)
      /\ sources.nodes \in Seq(Node) /\ sources.group \in Text
      /\ sources.sub \in Int /\ sources.node \in Int
      /\ Form \in [kind : Kinds, field : Nat, proto : 1 .. 6, node : {Form.node}]
  BY <1>1 DEF SourcesRecord, Form
<1>3. cfg.subs \in Seq(Source) /\ cfg.groups \in Seq(Source) /\ cfg.nodes \in Seq(Node)
  BY <1>1, HeldTyped
<1>4. Len(cfg.nodes) \in Nat /\ Len(cfg.subs) \in Nat /\ Len(sources.subs) \in Nat
  <2>1. (\A x \in Seq(Source) : Len(x) \in Nat) /\ (\A x \in Seq(Node) : Len(x) \in Nat)
    OBVIOUS
  <2>2. sources.subs \in Seq(Source)
    BY <1>2
  <2> QED  BY <1>3, <2>1, <2>2, Zenon
<1> QED  BY <1>1, <1>2, <1>3, <1>4

\* What may be typed, or stand for no group.
LEMMA TextFacts == "" \in Text /\ Name \subseteq Text /\ \A t \in Text : t # "" => t \in Name
BY DEF Text

\* Nothing is deleted from a list that is not shorter afterwards.
LEMMA HitKept ==
    ASSUME IInv, Len(cfg'.nodes) \in {Len(cfg.nodes), Len(cfg.nodes) + 1} \/ MayFail \/ "E" \in Keys
    PROVE  Hit
<1>1. Len(cfg.nodes) \in Nat
  BY SourcesFacts
<1>2. \A n \in Nat : ~(n < n) /\ ~(n + 1 < n)
  OBVIOUS
<1> QED  BY <1>1, <1>2 DEF Hit

\* A form that is closed leaves a tab that is as it should be.
LEMMA ClosedFine ==
    ASSUME IInv, UNCHANGED scope, NEW a \in Seq(Source), NEW b \in Seq(Source), NEW n \in Seq(Node),
           NEW g \in Text, NEW d \in Int, sources' = ClosedWith(a, b, n, g, d)
    PROVE  /\ SourcesFine'
           /\ sources'.subs = a /\ sources'.groups = b /\ sources'.nodes = n /\ sources'.node = d
           /\ sources'.sub = sources.sub
<1>1. sources \in SourcesRecord
  BY SourcesFacts
<1>2. sources' = [sources EXCEPT !.form = NoForm, !.subs = a, !.groups = b, !.nodes = n,
                                 !.group = g, !.node = d]
  BY DEF ClosedWith, Closed
<1>3. /\ sources'.subs = a /\ sources'.groups = b /\ sources'.nodes = n /\ sources'.node = d
      /\ sources'.sub = sources.sub /\ sources'.form = NoForm /\ sources'.group = g
      /\ sources'.page = sources.page /\ sources'.focus = sources.focus
      /\ DOMAIN sources' = {"page", "focus", "subs", "sub", "nodes", "groups", "node", "group", "form"}
  BY <1>1, <1>2 DEF SourcesRecord
<1>4. /\ sources.sub \in Int /\ sources.page \in {"subs", "locals"}
      /\ sources.focus \in {"sidebar", "content"}
  BY <1>1 DEF SourcesRecord
<1>5. sources' = [page |-> sources.page, focus |-> sources.focus, subs |-> a, sub |-> sources.sub,
                  nodes |-> n, groups |-> b, node |-> d, group |-> g, form |-> NoForm]
  BY <1>1, <1>2 DEF SourcesRecord
<1>6. NoForm \in [kind : Kinds, field : Nat, proto : 1 .. 6, node : {NoForm.node}]
  <2>1. "none" \in Kinds
    BY DEF Kinds
  <2>2. 5 \in 1 .. 6
    OBVIOUS
  <2> QED  BY <2>1, <2>2 DEF NoForm, Hysteria2
<1>7. sources' \in SourcesRecord'
  <2>1. PICK f : f = NoForm
    OBVIOUS
  <2>2. f \in [kind : Kinds, field : Nat, proto : 1 .. 6, node : {f.node}] /\ Form' = f
    BY <1>3, <1>6, <2>1 DEF Form
  <2>3. PICK R : R = [kind : Kinds, field : Nat, proto : 1 .. 6, node : {f.node}]
    OBVIOUS
  <2>4. sources' \in [page : {"subs", "locals"}, focus : {"sidebar", "content"}, subs : Seq(Source),
                      sub : Int, nodes : Seq(Node), groups : Seq(Source), node : Int,
                      group : Text, form : R]
    BY <1>4, <1>5, <2>1, <2>2, <2>3
  <2> QED  BY <2>2, <2>3, <2>4 DEF SourcesRecord
<1>8. Form'.field < Fields' /\ Form'.kind # "rename"
  <2>0. Form' = NoForm
    BY <1>3 DEF Form
  <2>1. Form'.kind = "none" /\ Form'.field = 0
    BY <2>0 DEF NoForm
  <2>2. Fields' = 1
    BY <2>1 DEF Fields
  <2>3. 0 < 1
    OBVIOUS
  <2>4. Form'.field < Fields'
    BY <2>1, <2>2, <2>3, Zenon
  <2> QED  BY <2>1, <2>4
<1> QED  BY <1>3, <1>7, <1>8 DEF SourcesFine

\* A refused form changes nothing.
LEMMA RefusedOut ==
    ASSUME IInv, Refused, UNCHANGED scope
    PROVE  Outcome
<1>1. sources' = ClosedWith(sources.subs, sources.groups, sources.nodes, sources.group, sources.node)
  BY SourcesFacts DEF Refused, ClosedWith, Closed, SourcesRecord
<1>2. /\ SourcesFine' /\ sources'.subs = sources.subs /\ sources'.groups = sources.groups
      /\ sources'.nodes = sources.nodes /\ sources'.node = sources.node /\ sources'.sub = sources.sub
  BY <1>1, SourcesFacts, ClosedFine
<1>3. Follows'
  BY <1>2 DEF Refused, IInv, Follows, MayFail, Keys
<1>4. Hit /\ Held(cfg')
  <2>1. cfg' = cfg
    BY DEF Refused
  <2> QED  BY <2>1, SourcesFacts, HitKept
<1> QED  BY <1>2, <1>3, <1>4 DEF Outcome, Refused, Quiet

\* Nothing happens.
LEMMA UntouchedOut ==
    ASSUME IInv, UNCHANGED <<sources, cfg, mutated>>, UNCHANGED scope
    PROVE  Outcome
<1>1. cfg' = cfg
  OBVIOUS
<1>2. Hit /\ Held(cfg') /\ Len(cfg'.nodes) \in Nat
  BY <1>1, SourcesFacts, HitKept
<1>3. SourcesFine' /\ Follows'
  BY <1>1, <1>2, Untouched
<1> QED  BY <1>1, <1>2, <1>3 DEF Outcome

\* An operation that could not be saved changes the store alone.
LEMMA UnsavedOut ==
    ASSUME IInv, NEW c, Held(c), c.rules = cfg.rules, Unsaved(c), UNCHANGED scope
    PROVE  Outcome
<1>1. sources' = ClosedWith(sources.subs, sources.groups, sources.nodes, sources.group, sources.node)
  BY SourcesFacts DEF Unsaved, ClosedWith, Closed, SourcesRecord
<1>2. SourcesFine'
  BY <1>1, SourcesFacts, ClosedFine
<1>3. Follows' /\ Hit
  BY HitKept DEF Unsaved, Follows, MayFail
<1> QED  BY <1>2, <1>3 DEF Outcome, Unsaved, Quiet

\* The form of a subscription.
LEMMA SubmitSubOut ==
    ASSUME IInv, NEW s \in Text, SubmitSub(s), UNCHANGED scope
    PROVE  Outcome
<1>1. PICK c : c = AddSubscription(cfg, s)
  OBVIOUS
<1>2. \/ Refused
      \/ s \in Name /\ Unsaved(c)
      \/ s \in Name /\ cfg' = c /\ sources' = [Closed EXCEPT !.subs = c.subs] /\ Emits
  BY <1>1, TextFacts DEF SubmitSub
<1>3. s \in Name => Held(c) /\ Framed(cfg, c) /\ c.groups = cfg.groups
  BY <1>1, SourcesFacts, SubsHeld
<1>4. CASE Refused
  BY <1>4, RefusedOut
<1>5. CASE s \in Name /\ Unsaved(c)
  BY <1>3, <1>5, UnsavedOut DEF Framed
<1>6. CASE s \in Name /\ cfg' = c /\ sources' = [Closed EXCEPT !.subs = c.subs] /\ Emits
  <2>1. sources' = ClosedWith(c.subs, sources.groups, sources.nodes, sources.group, sources.node)
    BY <1>6, SourcesFacts DEF ClosedWith, Closed, SourcesRecord
  <2>2. c.subs \in Seq(Source)
    BY <1>3, <1>6, HeldTyped
  <2>3. /\ SourcesFine' /\ sources'.subs = c.subs /\ sources'.groups = sources.groups
        /\ sources'.nodes = sources.nodes /\ sources'.node = sources.node /\ sources'.sub = sources.sub
    BY <2>1, <2>2, SourcesFacts, ClosedFine
  <2>4. Len(c.subs) = Len(cfg.subs) + 1 /\ Len(cfg.subs) \in Nat
    BY <1>1, SourcesFacts, SubsCounted
  <2>5. Follows'
    <3>1. \A x, m \in Nat : AtRow(x, m) => AtRow(x, m + 1)
      BY DEF AtRow
    <3>3. \A x, m : AtRow(x, m) => x \in Nat
      BY DEF AtRow
    <3>2. AtRow(sources.sub, Len(cfg.subs)) => AtRow(sources.sub, Len(c.subs))
      BY <2>4, <3>1, <3>3
    <3> QED  BY <1>3, <1>6, <2>3, <3>2 DEF IInv, Follows, MayFail, Keys, Framed
  <2>6. Hit
    BY <1>3, <1>6, HitKept DEF Framed
  <2> QED  BY <1>3, <1>6, <2>3, <2>5, <2>6 DEF Outcome, Emits, Framed
<1> QED  BY <1>2, <1>4, <1>5, <1>6

\* The form of a new group.
LEMMA SubmitGroupOut ==
    ASSUME IInv, NEW g \in Text, SubmitGroup(g), UNCHANGED scope
    PROVE  Outcome
<1>1. PICK c : c = AddLocalGroup(cfg, g)
  OBVIOUS
<1>2. \/ Refused
      \/ g \in Name /\ Unsaved(c)
      \/ /\ g \in Name /\ cfg' = c /\ Emits
         /\ sources' = [Closed EXCEPT !.groups = c.groups, !.group = g, !.node = 0]
  BY <1>1, TextFacts DEF SubmitGroup
<1>3. g \in Name => Held(c) /\ Framed(cfg, c) /\ c.subs = cfg.subs
  BY <1>1, SourcesFacts, GroupsHeld
<1>4. CASE Refused
  BY <1>4, RefusedOut
<1>5. CASE g \in Name /\ Unsaved(c)
  BY <1>3, <1>5, UnsavedOut DEF Framed
<1>6. CASE /\ g \in Name /\ cfg' = c /\ Emits
           /\ sources' = [Closed EXCEPT !.groups = c.groups, !.group = g, !.node = 0]
  <2>1. sources' = ClosedWith(sources.subs, c.groups, sources.nodes, g, 0)
    BY <1>6, SourcesFacts DEF ClosedWith, Closed, SourcesRecord
  <2>2. c.groups \in Seq(Source)
    BY <1>3, <1>6, HeldTyped
  <2>3. /\ SourcesFine' /\ sources'.subs = sources.subs /\ sources'.groups = c.groups
        /\ sources'.nodes = sources.nodes /\ sources'.node = 0 /\ sources'.sub = sources.sub
    <3>1. g \in Text /\ sources.subs \in Seq(Source) /\ sources.nodes \in Seq(Node)
      BY SourcesFacts
    <3>2. 0 \in Int
      OBVIOUS
    <3> QED  BY <2>1, <2>2, <3>1, <3>2, ClosedFine
  <2>4. Follows'
    <3>1. /\ cfg'.subs = cfg.subs /\ cfg'.groups = c.groups /\ cfg'.nodes = cfg.nodes
          /\ scope' = scope /\ 0 \in Nat
      BY <1>3, <1>6 DEF Framed
    <3> QED  BY <2>3, <3>1 DEF IInv, Follows, MayFail, Keys
  <2>5. Hit
    BY <1>3, <1>6, HitKept DEF Framed
  <2> QED  BY <1>3, <1>6, <2>3, <2>4, <2>5 DEF Outcome, Emits, Framed
<1> QED  BY <1>2, <1>4, <1>5, <1>6

\* The form of a rename.
LEMMA SubmitRenameOut ==
    ASSUME IInv, Form.kind = "rename", NEW h \in Text, SubmitRename(h), UNCHANGED scope
    PROVE  Outcome
<1>1. PICK c : c = IF h = sources.group THEN cfg ELSE RenameLocalGroup(cfg, sources.group, h)
  OBVIOUS
<1> DEFINE may == h \in Name /\ (h = sources.group \/ CanRenameLocalGroup(cfg, sources.group, h))
<1>2. \/ Refused
      \/ may /\ Unsaved(c)
      \/ may /\ cfg' = c /\ Emits /\ sources' = [Closed EXCEPT !.groups = c.groups, !.group = h]
  BY <1>1, TextFacts DEF SubmitRename
<1>3. may => /\ Held(c) /\ c.subs = cfg.subs /\ c.rules = cfg.rules /\ Len(c.nodes) = Len(cfg.nodes)
             /\ c.groups \in Seq(Source)
  <2>1. CASE h = sources.group
    BY <1>1, <2>1, SourcesFacts
  <2>2. ASSUME h # sources.group, may
        PROVE  /\ Held(c) /\ c.subs = cfg.subs /\ c.rules = cfg.rules /\ Len(c.nodes) = Len(cfg.nodes)
               /\ c.groups \in Seq(Source)
    <3>1. PICK g : g = sources.group
      OBVIOUS
    <3>2. /\ Held(cfg) /\ h \in Name /\ CanRenameLocalGroup(cfg, g, h)
          /\ c = RenameLocalGroup(cfg, g, h)
      BY <1>1, <2>2, <3>1, SourcesFacts
    <3>3. Held(c) /\ c.subs = cfg.subs /\ c.rules = cfg.rules /\ Len(c.nodes) = Len(cfg.nodes)
      BY <3>2, RenameHeld
    <3> QED  BY <3>3, HeldTyped
  <2> QED  BY <2>1, <2>2
<1>4. CASE Refused
  BY <1>4, RefusedOut
<1>5. CASE may /\ Unsaved(c)
  BY <1>3, <1>5, UnsavedOut
<1>6. CASE may /\ cfg' = c /\ Emits /\ sources' = [Closed EXCEPT !.groups = c.groups, !.group = h]
  <2>1. sources' = ClosedWith(sources.subs, c.groups, sources.nodes, h, sources.node)
    BY <1>6, SourcesFacts DEF ClosedWith, Closed, SourcesRecord
  <2>2. /\ SourcesFine' /\ sources'.subs = sources.subs /\ sources'.groups = c.groups
        /\ sources'.nodes = sources.nodes /\ sources'.sub = sources.sub
    <3>1. /\ h \in Text /\ sources.node \in Int /\ c.groups \in Seq(Source)
          /\ sources.subs \in Seq(Source) /\ sources.nodes \in Seq(Node)
      BY <1>3, <1>6, SourcesFacts
    <3> QED  BY <2>1, <3>1, ClosedFine, Zenon
  <2>3. "E" \in Keys
    BY SourcesFacts
  <2>4. Follows'
    BY <1>3, <1>6, <2>2, <2>3 DEF IInv, Follows, MayFail, Keys
  <2>5. Hit
    BY <2>3, HitKept
  <2> QED  BY <1>3, <1>6, <2>2, <2>4, <2>5 DEF Outcome, Emits
<1> HIDE DEF may
<1> QED  BY <1>2, <1>4, <1>5, <1>6

\* A form about a node leaves the store with this list of nodes.
LEMMA NodesOut ==
    ASSUME IInv, UNCHANGED scope, NEW list \in Seq(Node), NEW shown \in Seq(Node),
           Len(list) \in {Len(cfg.nodes), Len(cfg.nodes) + 1},
           ~MayFail /\ "E" \notin Keys => Shuffled(shown, list),
           cfg' = [cfg EXCEPT !.nodes = list], sources' = [Closed EXCEPT !.nodes = shown],
           mutated' \in {mutated, mutated + 1}
    PROVE  Outcome
<1>1. Held(cfg') /\ cfg'.subs = cfg.subs /\ cfg'.groups = cfg.groups
  BY SourcesFacts, OthersHeld
<1>2. cfg'.nodes = list /\ cfg'.rules = cfg.rules
  BY SourcesFacts DEF Held, Shaped
<1>3. sources' = ClosedWith(sources.subs, sources.groups, shown, sources.group, sources.node)
  BY SourcesFacts DEF ClosedWith, Closed, SourcesRecord
<1>4. /\ SourcesFine' /\ sources'.subs = sources.subs /\ sources'.groups = sources.groups
      /\ sources'.nodes = shown /\ sources'.node = sources.node /\ sources'.sub = sources.sub
  BY <1>3, SourcesFacts, ClosedFine
<1>5. Follows'
  BY <1>1, <1>2, <1>4 DEF IInv, Follows, MayFail, Keys
<1>6. Hit
  BY <1>2, HitKept
<1> QED  BY <1>1, <1>2, <1>4, <1>5, <1>6 DEF Outcome

\* The node a form makes.
LEMMA NodeMade ==
    ASSUME NEW n \in NodeName, NEW g \in Text
    PROVE  NewNode(n, Given(g), "") \in Node
<1>1. Given(g) \in Name
  BY NamesAreTexts, TextFacts DEF Given
<1> QED  BY <1>1 DEF NewNode, Node

\* The forms of a new node.
LEMMA SubmitNewNodeOut ==
    ASSUME IInv, NEW node \in Node, SubmitNewNode(node), UNCHANGED scope
    PROVE  Outcome
<1>1. CASE Refused
  BY <1>1, RefusedOut
<1>2. PICK list : list = Append(cfg.nodes, node)
  OBVIOUS
<1>3. list \in Seq(Node) /\ Len(list) = Len(cfg.nodes) + 1
  BY <1>2, SourcesFacts
<1>4. CASE /\ cfg' = [cfg EXCEPT !.nodes = list]
           /\ sources' = [Closed EXCEPT !.nodes = cfg'.nodes] /\ Emits
  <2>1. Shuffled(list, list)
    BY <1>3, ShuffledSelf
  <2>2. cfg'.nodes = list
    BY <1>4, SourcesFacts DEF Held, Shaped
  <2>3. sources' = [Closed EXCEPT !.nodes = list] /\ mutated' = mutated + 1
    BY <1>4, <2>2 DEF Emits
  <2> QED  BY <1>3, <1>4, <2>1, <2>3, NodesOut
<1> QED  BY <1>1, <1>2, <1>4 DEF SubmitNewNode

\* The form that edits a node.
LEMMA SubmitEditOut ==
    ASSUME IInv, NEW old, NEW node \in Node, SubmitEdit(old, node), UNCHANGED scope
    PROVE  Outcome
<1>1. CASE ~Named(cfg.nodes, old)
  BY <1>1, RefusedOut DEF SubmitEdit
<1>2. CASE Named(cfg.nodes, old)
  <2>1. PICK k : k = IndexOf(cfg.nodes, old)
    OBVIOUS
  <2>2. k \in 1 .. Len(cfg.nodes)
    <3>1. old \in NamesIn(cfg.nodes)
      BY <1>2 DEF Named, NamesIn
    <3> QED  BY <2>1, <3>1, SourcesFacts, IndexFound
  <2>3. PICK rest : rest = RemoveAt(cfg.nodes, k)
    OBVIOUS
  <2>4. PICK back : back = Append(rest, cfg.nodes[k])
    OBVIOUS
  <2>5. PICK list : list = Append(rest, node)
    OBVIOUS
  <2>6. \/ /\ cfg' = [cfg EXCEPT !.nodes = back] /\ sources' = Closed /\ UNCHANGED mutated
        \/ /\ cfg' = [cfg EXCEPT !.nodes = list]
           /\ sources' = [Closed EXCEPT !.nodes = cfg'.nodes] /\ mutated' = mutated + 1
    BY <1>2, <2>1, <2>3, <2>4, <2>5 DEF SubmitEdit, Minus, Quiet, Emits
  <2>7. CASE cfg' = [cfg EXCEPT !.nodes = back] /\ sources' = Closed /\ UNCHANGED mutated
    <3>1. back \in Seq(Node) /\ Len(back) = Len(cfg.nodes) /\ Shuffled(cfg.nodes, back)
      <4>1. cfg.nodes \in Seq(Node) /\ back = Append(RemoveAt(cfg.nodes, k), cfg.nodes[k])
        BY <2>3, <2>4, SourcesFacts
      <4> QED  BY <2>2, <4>1, ShuffledBack
    <3>2. ~MayFail /\ "E" \notin Keys => Shuffled(sources.nodes, back)
      BY <3>1, ShuffledTwice DEF IInv, Follows
    <3>3. sources' = [Closed EXCEPT !.nodes = sources.nodes]
      BY <2>7, SourcesFacts DEF Closed, SourcesRecord
    <3>4. sources.nodes \in Seq(Node)
      BY SourcesFacts
    <3> QED  BY <2>7, <3>1, <3>2, <3>3, <3>4, NodesOut
  <2>8. CASE /\ cfg' = [cfg EXCEPT !.nodes = list]
             /\ sources' = [Closed EXCEPT !.nodes = cfg'.nodes] /\ mutated' = mutated + 1
    <3>1. rest \in Seq(Node) /\ Len(rest) = Len(cfg.nodes) - 1
      BY <2>2, <2>3, SourcesFacts, RemoveAtFacts
    <3>2. list \in Seq(Node) /\ Len(list) = Len(cfg.nodes)
      BY <2>5, <3>1, SourcesFacts
    <3>3. Shuffled(list, list)
      BY <3>2, ShuffledSelf
    <3>4. cfg'.nodes = list
      BY <2>8, SourcesFacts DEF Held, Shaped
    <3>5. sources' = [Closed EXCEPT !.nodes = list]
      BY <2>8, <3>4
    <3> QED  BY <2>8, <3>2, <3>3, <3>5, NodesOut
  <2> QED  BY <2>6, <2>7, <2>8
<1> QED  BY <1>1, <1>2

\* Enter submits the form on screen.
LEMMA SubmitFormOut ==
    ASSUME IInv, Form.kind # "none", SubmitForm, UNCHANGED scope
    PROVE  Outcome
<1>1. scope.typed \union {""} \subseteq Text /\ scope.groups \union {""} \subseteq Text
      /\ sources.group \in Text
  BY ScopeFacts, SourcesFacts, TextFacts DEF IInv, StoreTyped
<1>2. ASSUME NEW s \in scope.typed \union {""}, SubmitSub(s) PROVE Outcome
  BY <1>1, <1>2, SubmitSubOut
<1>3. ASSUME NEW s \in scope.typed \union {""}, SubmitGroup(s) PROVE Outcome
  BY <1>1, <1>3, SubmitGroupOut
<1>4. ASSUME NEW s \in scope.typed \union {""}, Form.kind = "rename", SubmitRename(s) PROVE Outcome
  BY <1>1, <1>4, SubmitRenameOut
<1>5. ASSUME NEW n \in NodeName, NEW g \in Text, SubmitNewNode(NewNode(n, Given(g), "")) PROVE Outcome
  BY <1>5, NodeMade, SubmitNewNodeOut
<1>6. ASSUME NEW n \in NodeName, NEW g \in Text, NEW old, SubmitEdit(old, NewNode(n, Given(g), ""))
      PROVE  Outcome
  BY <1>6, NodeMade, SubmitEditOut
<1>7. CASE Refused
  BY <1>7, RefusedOut
<1>8. CASE UNCHANGED <<sources, cfg, mutated>>
  BY <1>8, UntouchedOut
<1>9. Form.kind \in Kinds
  BY SourcesFacts
<1>10. CASE Form.kind = "sub"
  BY <1>2, <1>10 DEF SubmitForm
<1>11. CASE Form.kind = "newgroup"
  BY <1>3, <1>11 DEF SubmitForm
<1>12. CASE Form.kind = "rename"
  BY <1>4, <1>12 DEF SubmitForm
<1>13. CASE Form.kind = "uri"
  BY <1>1, <1>5, <1>7, <1>13 DEF SubmitForm
<1>14. CASE Form.kind = "node"
  <2>1. CASE UNCHANGED <<sources, cfg, mutated>>
    BY <1>8, <2>1
  <2>2. ASSUME NEW n \in NodeName, NEW g \in scope.groups \union {""},
               IF Form.node = "" THEN SubmitNewNode(NewNode(n, Given(g), ""))
               ELSE SubmitEdit(Form.node, NewNode(n, Given(g), ""))
        PROVE  Outcome
    <3>1. g \in Text
      BY <1>1
    <3> QED  BY <1>5, <1>6, <2>2, <3>1
  <2> QED  BY <1>14, <2>1, <2>2 DEF SubmitForm
<1> QED  BY <1>9, <1>10, <1>11, <1>12, <1>13, <1>14 DEF Kinds

\* A form as it may stand on screen.
FieldsIn(f) == CASE f.kind = "sub"  -> 3
                 [] f.kind = "node" -> FieldCount[f.proto]
                 [] OTHER           -> 1
FormIn(f) ==
    /\ f \in [kind : Kinds, field : Nat, proto : 1 .. 6, node : {f.node}]
    /\ f.field < FieldsIn(f) /\ (f.kind = "rename" => "E" \in Keys)

\* Every form has a field, and that of a node has two.
LEMMA FieldsCounted ==
    ASSUME NEW f, f.proto \in 1 .. 6
    PROVE  FieldsIn(f) \in Nat /\ FieldsIn(f) > 0 /\ (f.kind = "node" => FieldsIn(f) > 1)
<1>1. \A p \in 1 .. 6 : FieldCount[p] \in Nat /\ FieldCount[p] > 1
  BY DEF FieldCount
<1>2. PICK m : m = FieldCount[f.proto]
  OBVIOUS
<1>3. m \in Nat /\ m > 1
  BY <1>1, <1>2
<1>4. CASE f.kind = "sub"
  <2>1. FieldsIn(f) = 3 /\ f.kind # "node"
    BY <1>4 DEF FieldsIn
  <2> QED  BY <2>1
<1>5. CASE f.kind = "node"
  <2>1. FieldsIn(f) = m
    BY <1>2, <1>5 DEF FieldsIn
  <2> QED  BY <1>3, <2>1
<1>6. CASE f.kind \notin {"sub", "node"}
  <2>1. FieldsIn(f) = 1 /\ f.kind # "node"
    BY <1>6 DEF FieldsIn
  <2> QED  BY <2>1
<1> QED  BY <1>4, <1>5, <1>6

\* The cursor of a form moves between its fields, and another protocol starts at the first.
LEMMA FormMoves ==
    ASSUME IInv
    PROVE  /\ Form.field + 1 < Fields => FormIn([Form EXCEPT !.field = @ + 1])
           /\ Form.field > 0 => FormIn([Form EXCEPT !.field = @ - 1])
           /\ \A k : FormIn(CycleProto(Form, k))
<1>1. PICK f : f = Form
  OBVIOUS
<1>2. /\ f \in [kind : Kinds, field : Nat, proto : 1 .. 6, node : {f.node}]
      /\ f.field < Fields /\ (f.kind = "rename" => "E" \in Keys)
  BY <1>1, SourcesFacts
<1>3. Fields = FieldsIn(f)
  BY <1>1 DEF Fields, FieldsIn
<1>4. f.field \in Nat /\ f.proto \in 1 .. 6 /\ f.kind \in Kinds
  BY <1>2
<1>5. PICK len : len = FieldsIn(f)
  OBVIOUS
<1>6. len \in Nat /\ len > 0
  BY <1>4, <1>5, FieldsCounted
<1>7. ASSUME NEW n \in Nat, n < len PROVE FormIn([f EXCEPT !.field = n])
  <2>1. PICK g : g = [f EXCEPT !.field = n]
    OBVIOUS
  <2>2. /\ g \in [kind : Kinds, field : Nat, proto : 1 .. 6, node : {g.node}]
        /\ g.kind = f.kind /\ g.proto = f.proto /\ g.field = n
    BY <1>2, <2>1
  <2>3. FieldsIn(g) = len
    BY <1>5, <2>2 DEF FieldsIn
  <2> QED  BY <1>2, <1>7, <2>1, <2>2, <2>3 DEF FormIn
<1>8. ASSUME f.field + 1 < len PROVE FormIn([f EXCEPT !.field = @ + 1])
  <2>1. f.field + 1 \in Nat
    BY <1>4
  <2> QED  BY <1>7, <1>8, <2>1
<1>9. ASSUME f.field > 0 PROVE FormIn([f EXCEPT !.field = @ - 1])
  <2>1. f.field - 1 \in Nat /\ f.field - 1 < len
    <3>1. f.field < len
      BY <1>2, <1>3, <1>5
    <3> QED  BY <1>4, <1>6, <1>9, <3>1
  <2> QED  BY <1>7, <2>1
<1>10. ASSUME NEW k PROVE FormIn(CycleProto(f, k))
  <2>1. PICK p : p = IF k = "right" THEN (f.proto % 6) + 1 ELSE ((f.proto + 6 - 2) % 6) + 1
    OBVIOUS
  <2>2. p \in 1 .. 6
    <3>1. (f.proto % 6) + 1 \in 1 .. 6 /\ ((f.proto + 6 - 2) % 6) + 1 \in 1 .. 6
      BY <1>4
    <3> QED  BY <2>1, <3>1
  <2>3. Len(FieldCount) = 6
    BY DEF FieldCount
  <2>4. PICK g : g = CycleProto(f, k)
    OBVIOUS
  <2>5. g = [f EXCEPT !.field = 0, !.proto = p]
    BY <2>1, <2>3, <2>4 DEF CycleProto
  <2>6. /\ g \in [kind : Kinds, field : Nat, proto : 1 .. 6, node : {g.node}]
        /\ g.kind = f.kind /\ g.proto = p /\ g.field = 0
    BY <1>2, <2>2, <2>5
  <2>7. FieldsIn(g) \in Nat /\ FieldsIn(g) > 0
    BY <2>2, <2>6, FieldsCounted
  <2>8. g.field < FieldsIn(g)
    BY <2>6, <2>7
  <2> QED  BY <1>2, <2>4, <2>6, <2>8 DEF FormIn
<1> QED  BY <1>1, <1>3, <1>5, <1>8, <1>9, <1>10

\* The form is another one, and the lists are as they were.
LEMMA FormOut ==
    ASSUME IInv, UNCHANGED <<scope, cfg, mutated>>, NEW f, FormIn(f),
           sources' = [sources EXCEPT !.form = f]
    PROVE  Outcome
<1>1. sources \in SourcesRecord /\ Held(cfg) /\ cfg' = cfg
  BY SourcesFacts
<1>2. PICK R : R = [kind : Kinds, field : Nat, proto : 1 .. 6, node : {f.node}]
  OBVIOUS
<1>3. /\ f \in R
      /\ f.field < FieldsIn(f) /\ (f.kind = "rename" => "E" \in Keys)
  BY <1>2 DEF FormIn
<1>4. /\ sources' \in [page : {"subs", "locals"}, focus : {"sidebar", "content"}, subs : Seq(Source),
                       sub : Int, nodes : Seq(Node), groups : Seq(Source), node : Int,
                       group : Text, form : R]
      /\ sources'.form = f
      /\ sources'.subs = sources.subs /\ sources'.groups = sources.groups
      /\ sources'.nodes = sources.nodes /\ sources'.node = sources.node /\ sources'.sub = sources.sub
  BY <1>1, <1>3 DEF SourcesRecord
<1>5. Form' = f
  BY <1>4 DEF Form
<1>6. Fields' = FieldsIn(f)
  BY <1>5 DEF Fields, FieldsIn
<1>7. sources' \in SourcesRecord'
  BY <1>2, <1>4, <1>5 DEF SourcesRecord
<1>8. SourcesFine'
  BY <1>3, <1>5, <1>6, <1>7 DEF SourcesFine, Keys
<1>9. Follows'
  BY <1>1, <1>4 DEF IInv, Follows, MayFail, Keys
<1>10. Hit
  BY <1>1, HitKept
<1> QED  BY <1>1, <1>8, <1>9, <1>10 DEF Outcome

\* Keys of an open form.
LEMMA FormKeyOut ==
    ASSUME IInv, NEW k, Form.kind # "none", FormKey(k), UNCHANGED scope
    PROVE  Outcome
<1>1. \/ Refused
      \/ SubmitForm
      \/ UNCHANGED <<sources, cfg, mutated>>
      \/ /\ Form.field + 1 < Fields
         /\ sources' = [sources EXCEPT !.form.field = @ + 1] /\ UNCHANGED <<cfg, mutated>>
      \/ /\ Form.field > 0
         /\ sources' = [sources EXCEPT !.form.field = @ - 1] /\ UNCHANGED <<cfg, mutated>>
      \/ sources' = [sources EXCEPT !.form = CycleProto(@, k)] /\ UNCHANGED <<cfg, mutated>>
  BY DEF FormKey
<1>2. CASE Refused
  BY <1>2, RefusedOut
<1>3. CASE SubmitForm
  BY <1>3, SubmitFormOut
<1>4. CASE UNCHANGED <<sources, cfg, mutated>>
  BY <1>4, UntouchedOut
<1>5. CASE /\ Form.field + 1 < Fields
           /\ sources' = [sources EXCEPT !.form.field = @ + 1] /\ UNCHANGED <<cfg, mutated>>
  <2>1. PICK f : f = [Form EXCEPT !.field = @ + 1]
    OBVIOUS
  <2>2. FormIn(f) /\ sources' = [sources EXCEPT !.form = f]
    BY <1>5, <2>1, FormMoves DEF Form
  <2> QED  BY <1>5, <2>2, FormOut
<1>6. CASE /\ Form.field > 0
           /\ sources' = [sources EXCEPT !.form.field = @ - 1] /\ UNCHANGED <<cfg, mutated>>
  <2>1. PICK f : f = [Form EXCEPT !.field = @ - 1]
    OBVIOUS
  <2>2. FormIn(f) /\ sources' = [sources EXCEPT !.form = f]
    BY <1>6, <2>1, FormMoves DEF Form
  <2> QED  BY <1>6, <2>2, FormOut
<1>7. CASE sources' = [sources EXCEPT !.form = CycleProto(@, k)] /\ UNCHANGED <<cfg, mutated>>
  <2>1. PICK f : f = CycleProto(Form, k)
    OBVIOUS
  <2>2. FormIn(f) /\ sources' = [sources EXCEPT !.form = f]
    BY <1>7, <2>1, FormMoves DEF Form
  <2> QED  BY <1>7, <2>2, FormOut
<1> QED  BY <1>1, <1>2, <1>3, <1>4, <1>5, <1>6, <1>7

\* A form is opened.
LEMMA OpensOut ==
    ASSUME IInv, UNCHANGED scope, NEW kind \in Kinds, NEW node, kind = "rename" => "E" \in Keys,
           Opens(kind, node)
    PROVE  Outcome
<1>1. PICK n : n = IF kind = "node" THEN 1 ELSE 0
  OBVIOUS
<1>2. n \in Nat /\ n < 2 /\ (kind # "node" => n < 1)
  BY <1>1
<1>3. PICK f : f = [NoForm EXCEPT !.kind = kind, !.node = node, !.field = n]
  OBVIOUS
<1>4. f = [kind |-> kind, field |-> n, proto |-> 5, node |-> node]
  BY <1>3 DEF NoForm, Hysteria2
<1>5. 5 \in 1 .. 6
  OBVIOUS
<1>6. /\ f \in [kind : Kinds, field : Nat, proto : 1 .. 6, node : {f.node}]
      /\ f.kind = kind /\ f.field = n /\ f.proto = 5
  BY <1>2, <1>4, <1>5
<1>7. n < FieldsIn(f)
  <2>1. PICK len : len = FieldsIn(f)
    OBVIOUS
  <2>2. len \in Nat /\ len > 0 /\ (kind = "node" => len > 1)
    BY <1>5, <1>6, <2>1, FieldsCounted
  <2>3. n < len
    BY <1>2, <2>2
  <2> QED  BY <2>1, <2>3
<1>8. FormIn(f)
  BY <1>6, <1>7 DEF FormIn
<1>9. sources' = [sources EXCEPT !.form = f] /\ UNCHANGED <<cfg, mutated>>
  BY <1>1, <1>3 DEF Opens, Quiet
<1> QED  BY <1>8, <1>9, FormOut

\* The tab with this page, these lists and cursors, and the form it has.
RowsWith(p, a, x, b, n, g, d) ==
    [sources EXCEPT !.page = p, !.subs = a, !.sub = x, !.groups = b, !.nodes = n,
                    !.group = g, !.node = d]

\* The lists and cursors are others, and the form is as it was.
LEMMA RowsFine ==
    ASSUME IInv, UNCHANGED scope, NEW a \in Seq(Source), NEW b \in Seq(Source), NEW n \in Seq(Node),
           NEW x \in Int, NEW d \in Int, NEW g \in Text, NEW p \in {"subs", "locals"},
           sources' = RowsWith(p, a, x, b, n, g, d)
    PROVE  /\ SourcesFine'
           /\ sources'.subs = a /\ sources'.groups = b /\ sources'.nodes = n
           /\ sources'.node = d /\ sources'.sub = x
<1>1. sources \in SourcesRecord
  BY SourcesFacts
<1>2. PICK R : R = [kind : Kinds, field : Nat, proto : 1 .. 6, node : {Form.node}]
  OBVIOUS
<1>3. PICK f : f = sources.form
  OBVIOUS
<1>4. f \in R /\ sources.focus \in {"sidebar", "content"}
  BY <1>1, <1>2, <1>3 DEF SourcesRecord
<1>5. sources' = [page |-> p, focus |-> sources.focus, subs |-> a, sub |-> x, nodes |-> n,
                  groups |-> b, node |-> d, group |-> g, form |-> f]
  BY <1>1, <1>3 DEF RowsWith, SourcesRecord
<1>6. /\ sources'.form = f /\ sources'.subs = a /\ sources'.groups = b
      /\ sources'.nodes = n /\ sources'.node = d /\ sources'.sub = x
  BY <1>1, <1>3 DEF RowsWith, SourcesRecord
<1>7. Form' = Form
  BY <1>3, <1>6 DEF Form
<1>8. Fields' = Fields
  BY <1>7 DEF Fields
<1>9. sources' \in SourcesRecord'
  <2>1. PICK S : S = Seq(Source)
    OBVIOUS
  <2>2. PICK N : N = Seq(Node)
    OBVIOUS
  <2>3. a \in S /\ b \in S /\ n \in N
    BY <2>1, <2>2
  <2>4. sources' \in [page : {"subs", "locals"}, focus : {"sidebar", "content"}, subs : S,
                      sub : Int, nodes : N, groups : S, node : Int, group : Text, form : R]
    BY <1>4, <1>5, <2>3
  <2> QED  BY <1>2, <1>7, <2>1, <2>2, <2>4 DEF SourcesRecord
<1>10. SourcesFine'
  BY <1>7, <1>8, <1>9 DEF IInv, SourcesFine, Keys
<1> QED  BY <1>6, <1>10

\* A key that leaves the form alone leaves the tab as it should be.
LEMMA RowsOut ==
    ASSUME IInv, UNCHANGED scope, NEW a \in Seq(Source), NEW b \in Seq(Source), NEW n \in Seq(Node),
           NEW x \in Int, NEW d \in Int, NEW g \in Text, NEW p \in {"subs", "locals"},
           sources' = RowsWith(p, a, x, b, n, g, d),
           Held(cfg'), cfg'.rules = cfg.rules, Hit, mutated' \in {mutated, mutated + 1},
           ~MayFail => /\ a = cfg'.subs /\ b = cfg'.groups /\ AtRow(x, Len(a))
                       /\ "E" \notin Keys => Shuffled(n, cfg'.nodes) /\ d \in Nat
    PROVE  Outcome
<1>1. /\ SourcesFine'
      /\ sources'.subs = a /\ sources'.groups = b /\ sources'.nodes = n
      /\ sources'.node = d /\ sources'.sub = x
  BY RowsFine
<1>2. Follows'
  BY <1>1 DEF Follows, MayFail, Keys
<1> QED  BY <1>1, <1>2 DEF Outcome

\* An operation that could not be saved leaves the rows as they were.
LEMMA StaleOut ==
    ASSUME IInv, UNCHANGED scope, MayFail, Held(cfg'), cfg'.rules = cfg.rules,
           UNCHANGED <<sources, mutated>>
    PROVE  Outcome
<1>1. SourcesFine'
  BY Untouched
<1>2. Follows' /\ Hit
  BY HitKept DEF Follows, MayFail
<1> QED  BY <1>1, <1>2 DEF Outcome

\* A cursor pulled back onto a list that has become shorter.
LEMMA PulledFacts ==
    ASSUME NEW at \in Int, NEW len \in Nat
    PROVE  /\ Pulled(at, len) \in Int
           /\ AtRow(at, len + 1) => AtRow(Pulled(at, len), len)
           /\ at \in Nat /\ (at > 0 => len > 0) => Pulled(at, len) \in Nat
BY DEF Pulled, AtRow

\* The cursor of the subscriptions moves.
LEMMA SubsMoveOut ==
    ASSUME IInv, UNCHANGED <<scope, cfg, mutated>>, NEW k,
           sources' = [sources EXCEPT !.sub = Moved(@, k, Len(sources.subs))]
    PROVE  Outcome
<1>1. PICK x : x = Moved(sources.sub, k, Len(sources.subs))
  OBVIOUS
<1>2. x \in Int /\ (AtRow(sources.sub, Len(sources.subs)) => AtRow(x, Len(sources.subs)))
  <2>1. sources.sub \in Int /\ Len(sources.subs) \in Nat
    BY SourcesFacts
  <2> QED  BY <1>1, <2>1, MovedFacts
<1>3. /\ sources' = RowsWith(sources.page, sources.subs, x, sources.groups, sources.nodes,
                              sources.group, sources.node)
      /\ sources.page \in {"subs", "locals"}
  BY <1>1, SourcesFacts DEF RowsWith, SourcesRecord
<1>4. cfg' = cfg /\ scope' = scope
  OBVIOUS
<1>5. Hit /\ Held(cfg') /\ cfg'.rules = cfg.rules /\ mutated' \in {mutated, mutated + 1}
  BY <1>4, HitKept, SourcesFacts
<1>6. ~MayFail => /\ sources.subs = cfg'.subs /\ sources.groups = cfg'.groups
                  /\ AtRow(x, Len(sources.subs))
                  /\ "E" \notin Keys => Shuffled(sources.nodes, cfg'.nodes) /\ sources.node \in Nat
  BY <1>2, <1>4 DEF IInv, Follows
<1>7. /\ sources.subs \in Seq(Source) /\ sources.groups \in Seq(Source) /\ sources.nodes \in Seq(Node)
      /\ sources.node \in Int /\ sources.group \in Text
  BY SourcesFacts
<1> QED  BY <1>2, <1>3, <1>4, <1>5, <1>6, <1>7, RowsOut

\* An operation on the subscription at the cursor.
LEMMA SubsAppliedOut ==
    ASSUME IInv, UNCHANGED scope, NEW s, s \in NamesIn(cfg.subs), NEW c, NEW x,
           \/ c = DeleteSubscription(cfg, s) /\ x = Pulled(sources.sub, Len(c.subs))
           \/ /\ \E on \in BOOLEAN : c = SetSubscriptionEnabled(cfg, s, on)
              /\ x = sources.sub,
           Applied(c, [sources EXCEPT !.subs = c.subs, !.sub = x])
    PROVE  Outcome
<1>1. s \in Name
  BY SourcesFacts, SourcesNamed
<1>2. Held(c) /\ Framed(cfg, c) /\ c.groups = cfg.groups
  <2>0. Held(cfg)
    BY SourcesFacts
  <2>1. CASE c = DeleteSubscription(cfg, s)
    BY <1>1, <2>0, <2>1, SubsHeld
  <2>2. CASE \E on \in BOOLEAN : c = SetSubscriptionEnabled(cfg, s, on)
    BY <1>1, <2>0, <2>2, SubsHeld
  <2> QED  BY <2>1, <2>2
<1>3. c.rules = cfg.rules /\ c.nodes = cfg.nodes /\ c.subs \in Seq(Source)
  BY <1>2, HeldTyped DEF Framed
<1>4. CASE MayFail /\ cfg' = c /\ UNCHANGED sources /\ Quiet
  BY <1>2, <1>3, <1>4, StaleOut DEF Quiet
<1>5. CASE cfg' = c /\ sources' = [sources EXCEPT !.subs = c.subs, !.sub = x] /\ Emits
  <2>1. Len(c.subs) \in Nat /\ sources.sub \in Int
    BY <1>3, SourcesFacts
  <2>2. x \in Int /\ (AtRow(sources.sub, Len(cfg.subs)) => AtRow(x, Len(c.subs)))
    <3>1. CASE c = DeleteSubscription(cfg, s) /\ x = Pulled(sources.sub, Len(c.subs))
      <4>1. Len(c.subs) = Len(cfg.subs) - 1 /\ Len(cfg.subs) \in Nat
        BY <3>1, SourcesFacts, SubsCounted
      <4>2. Len(cfg.subs) = Len(c.subs) + 1
        BY <2>1, <4>1
      <4> QED  BY <2>1, <3>1, <4>2, PulledFacts
    <3>2. CASE (\E on \in BOOLEAN : c = SetSubscriptionEnabled(cfg, s, on)) /\ x = sources.sub
      <4>1. Len(c.subs) = Len(cfg.subs)
        BY <3>2, SourcesFacts, SubsCounted
      <4> QED  BY <2>1, <3>2, <4>1
    <3> QED  BY <3>1, <3>2
  <2>3. /\ sources' = RowsWith(sources.page, c.subs, x, sources.groups, sources.nodes,
                                sources.group, sources.node)
        /\ sources.page \in {"subs", "locals"}
    BY <1>5, SourcesFacts DEF RowsWith, SourcesRecord
  <2>4. Hit
    BY <1>3, <1>5, HitKept
  <2>5. ~MayFail => /\ c.subs = cfg'.subs /\ sources.groups = cfg'.groups /\ AtRow(x, Len(c.subs))
                    /\ "E" \notin Keys => Shuffled(sources.nodes, cfg'.nodes) /\ sources.node \in Nat
    BY <1>2, <1>3, <1>5, <2>2 DEF IInv, Follows
  <2>6. /\ sources.groups \in Seq(Source) /\ sources.nodes \in Seq(Node)
        /\ sources.node \in Int /\ sources.group \in Text
    BY SourcesFacts
  <2>7. Held(cfg') /\ cfg'.rules = cfg.rules /\ mutated' \in {mutated, mutated + 1}
    BY <1>2, <1>3, <1>5 DEF Emits
  <2> QED  BY <1>3, <2>2, <2>3, <2>4, <2>5, <2>6, <2>7, RowsOut
<1> QED  BY <1>4, <1>5 DEF Applied

\* Keys of the page of subscriptions.
LEMMA SubsKeyOut ==
    ASSUME IInv, NEW k, SubsKey(k), UNCHANGED scope
    PROVE  Outcome
<1> DEFINE s == sources.subs[sources.sub + 1].name
           c == DeleteSubscription(cfg, s)
           e == SetSubscriptionEnabled(cfg, s, ~IsOn(cfg.subs, s))
<1>1. \/ Opens("sub", "")
      \/ Nothing
      \/ /\ s \in NamesIn(cfg.subs)
         /\ \/ Applied(c, [sources EXCEPT !.subs = c.subs, !.sub = Pulled(@, Len(c.subs))])
            \/ Applied(e, [sources EXCEPT !.subs = e.subs])
      \/ /\ sources' = [sources EXCEPT !.sub = Moved(@, k, Len(sources.subs))]
         /\ UNCHANGED <<cfg, mutated>>
  <2> HIDE DEF c, e, s
  <2> QED  BY DEF SubsKey, s, c, e
<1>2. PICK t : t = s
  OBVIOUS
<1>3. CASE t \in NamesIn(cfg.subs) /\ Applied(c, [sources EXCEPT !.subs = c.subs, !.sub = Pulled(@, Len(c.subs))])
  <2>1. PICK x : x = Pulled(sources.sub, Len(c.subs))
    OBVIOUS
  <2>2. PICK d : d = c
    OBVIOUS
  <2>3. /\ d = DeleteSubscription(cfg, t) /\ x = Pulled(sources.sub, Len(d.subs))
        /\ Applied(d, [sources EXCEPT !.subs = d.subs, !.sub = x])
    BY <1>2, <1>3, <2>1, <2>2
  <2> QED  BY <1>3, <2>3, SubsAppliedOut
<1>4. CASE t \in NamesIn(cfg.subs) /\ Applied(e, [sources EXCEPT !.subs = e.subs])
  <2>1. PICK d : d = e
    OBVIOUS
  <2>2. PICK on : on = ~IsOn(cfg.subs, t)
    OBVIOUS
  <2>3. on \in BOOLEAN /\ d = SetSubscriptionEnabled(cfg, t, on)
    BY <1>2, <2>1, <2>2
  <2>4. [sources EXCEPT !.subs = d.subs] = [sources EXCEPT !.subs = d.subs, !.sub = sources.sub]
    BY SourcesFacts DEF SourcesRecord
  <2>5. Applied(d, [sources EXCEPT !.subs = d.subs, !.sub = sources.sub])
    BY <1>4, <2>1, <2>4
  <2> QED  BY <1>4, <2>3, <2>5, SubsAppliedOut
<1>5. CASE Opens("sub", "")
  <2>1. "sub" \in Kinds /\ "sub" # "rename"
    BY DEF Kinds
  <2> QED  BY <1>5, <2>1, OpensOut
<1>6. CASE Nothing
  BY <1>6, UntouchedOut DEF Nothing
<1>7. CASE /\ sources' = [sources EXCEPT !.sub = Moved(@, k, Len(sources.subs))]
           /\ UNCHANGED <<cfg, mutated>>
  BY <1>7, SubsMoveOut
<1> HIDE DEF s, c, e
<1> QED  BY <1>1, <1>2, <1>3, <1>4, <1>5, <1>6, <1>7

\* The row under the cursor is a node of the group shown, and the one found by its
\* name when no two nodes have one.
LEMMA RowFound ==
    ASSUME IInv, ~MayFail, "E" \notin Keys, sources.node < Len(Shown),
           NEW name, name = Shown[sources.node + 1].name,
           \A i, j \in DOMAIN cfg.nodes : cfg.nodes[i].name = cfg.nodes[j].name => i = j,
           NEW k \in DOMAIN cfg.nodes, cfg.nodes[k].name = name
    PROVE  cfg.nodes[k] = Shown[sources.node + 1] /\ sources.group \in {"", cfg.nodes[k].group}
<1>1. PICK a : a = Shown
  OBVIOUS
<1>2. PICK g : g = sources.group
  OBVIOUS
<1>3. a \in Seq(Node) /\ Drawn(a, sources.nodes, g)
  <2>1. sources.nodes \in Seq(Node) /\ a = InGroup(sources.nodes, g)
    BY <1>1, <1>2, SourcesFacts DEF Shown
  <2> QED  BY <2>1, InGroupFacts
<1>4. sources.node \in Nat /\ Shuffled(sources.nodes, cfg.nodes)
  BY DEF IInv, Follows
<1>5. PICK i : i = sources.node + 1
  OBVIOUS
<1>6. i \in DOMAIN a
  <2>1. sources.node < Len(a)
    BY <1>1
  <2>2. Len(a) \in Nat /\ DOMAIN a = 1 .. Len(a)
    BY <1>3
  <2> QED  BY <1>4, <1>5, <2>1, <2>2
<1>7. PICK f \in [DOMAIN a -> DOMAIN sources.nodes] :
           \A j \in DOMAIN a : a[j] = sources.nodes[f[j]] /\ (g = "" \/ a[j].group = g)
  BY <1>3 DEF Drawn
<1>8. PICK e \in [DOMAIN sources.nodes -> DOMAIN cfg.nodes] :
           \A j \in DOMAIN sources.nodes : sources.nodes[j] = cfg.nodes[e[j]]
  BY <1>4 DEF Shuffled
<1>9. f[i] \in DOMAIN sources.nodes /\ a[i] = sources.nodes[f[i]] /\ (g = "" \/ a[i].group = g)
  BY <1>6, <1>7
<1>10. e[f[i]] \in DOMAIN cfg.nodes /\ a[i] = cfg.nodes[e[f[i]]]
  BY <1>8, <1>9
<1>11. a[i].name = name
  BY <1>1, <1>5
<1>12. k = e[f[i]]
  BY <1>10, <1>11
<1> QED  BY <1>1, <1>2, <1>5, <1>9, <1>10, <1>12

\* `d' on a row of a local node.
LEMMA DeleteRowOut ==
    ASSUME IInv, UNCHANGED scope, sources.node < Len(Shown),
           NEW name, name = Shown[sources.node + 1].name, DeleteRow(name)
    PROVE  Outcome
<1>1. CASE ~Named(cfg.nodes, name)
  BY <1>1, UntouchedOut DEF DeleteRow, Nothing
<1>2. CASE Named(cfg.nodes, name)
  <2>1. PICK k : k = IndexOf(cfg.nodes, name)
    OBVIOUS
  <2>2. k \in 1 .. Len(cfg.nodes) /\ cfg.nodes[k].name = name
    <3>1. name \in NamesIn(cfg.nodes)
      BY <1>2 DEF Named, NamesIn
    <3> QED  BY <2>1, <3>1, SourcesFacts, IndexFound
  <2>3. PICK list : list = RemoveAt(cfg.nodes, k)
    OBVIOUS
  <2>4. list \in Seq(Node)
    BY <2>2, <2>3, SourcesFacts, RemoveAtFacts
  <2>5. PICK c : c = [cfg EXCEPT !.nodes = list]
    OBVIOUS
  <2>6. Held(c) /\ c.subs = cfg.subs /\ c.groups = cfg.groups
    BY <2>4, <2>5, SourcesFacts, OthersHeld
  <2>7. c.nodes = list /\ c.rules = cfg.rules
    BY <2>5, SourcesFacts DEF Held, Shaped
  <2>8. PICK g : g = sources.group
    OBVIOUS
  <2>9. PICK len : len = Len(InGroup(list, g))
    OBVIOUS
  <2>10. PICK d : d = Pulled(sources.node, len)
    OBVIOUS
  <2>11. Applied(c, [sources EXCEPT !.nodes = list, !.node = d])
    <3>1. c = [cfg EXCEPT !.nodes = Minus(@, name)]
      BY <2>1, <2>3, <2>5 DEF Minus
    <3>2. Applied(c, [sources EXCEPT !.nodes = c.nodes,
                        !.node = Pulled(@, Len(InGroup(c.nodes, sources.group)))])
      BY <1>2, <3>1 DEF DeleteRow
    <3> QED  BY <2>7, <2>8, <2>9, <2>10, <3>2
  <2>12. CASE MayFail /\ cfg' = c /\ UNCHANGED sources /\ Quiet
    BY <2>6, <2>7, <2>12, StaleOut DEF Quiet
  <2>13. CASE cfg' = c /\ sources' = [sources EXCEPT !.nodes = list, !.node = d] /\ Emits
    <3>1. Hit
      <4>1. SUFFICES ASSUME ~MayFail, "E" \notin Keys,
                            \A i, j \in DOMAIN cfg.nodes : cfg.nodes[i].name = cfg.nodes[j].name => i = j
                     PROVE  \E i \in DOMAIN cfg.nodes :
                              /\ cfg'.nodes = RemoveAt(cfg.nodes, i)
                              /\ cfg.nodes[i] = Shown[sources.node + 1]
                              /\ sources.group \in {"", cfg.nodes[i].group}
        BY DEF Hit
      <4>2. k \in DOMAIN cfg.nodes
        BY <2>2, SourcesFacts
      <4>3. cfg.nodes[k] = Shown[sources.node + 1] /\ sources.group \in {"", cfg.nodes[k].group}
        BY <2>2, <4>1, <4>2, RowFound
      <4>4. cfg'.nodes = RemoveAt(cfg.nodes, k)
        BY <2>3, <2>7, <2>13
      <4> QED  BY <4>2, <4>3, <4>4
    <3>2. len \in Nat /\ sources.node \in Int
      <4>1. PICK a : a = InGroup(list, g)
        OBVIOUS
      <4>2. a \in Seq(Node)
        BY <2>4, <4>1, InGroupFacts
      <4> QED  BY <2>9, <4>1, <4>2, SourcesFacts
    <3>3. d \in Int
      BY <2>10, <3>2, PulledFacts
    <3>4. ASSUME ~MayFail, "E" \notin Keys PROVE Shuffled(list, list) /\ d \in Nat
      <4>1. Shuffled(list, list)
        BY <2>4, ShuffledSelf
      <4>2. sources.node \in Nat /\ Shuffled(sources.nodes, cfg.nodes)
        BY <3>4 DEF IInv, Follows
      <4>3. ASSUME sources.node > 0 PROVE len > 0
        <5>1. PICK shown : shown = InGroup(sources.nodes, g)
          OBVIOUS
        <5>2. shown \in Seq(Node)
          BY <5>1, SourcesFacts, InGroupFacts
        <5>3. shown = Shown
          BY <2>8, <5>1 DEF Shown
        <5>4. Len(shown) \in Nat /\ sources.node < Len(shown)
          BY <5>2, <5>3
        <5>5. Len(shown) >= 2
          BY <4>2, <4>3, <5>4
        <5>6. /\ sources.nodes \in Seq(Node) /\ cfg.nodes \in Seq(Node)
              /\ Len(InGroup(sources.nodes, g)) >= 2
          BY <5>1, <5>5, SourcesFacts
        <5>7. Len(InGroup(RemoveAt(cfg.nodes, k), g)) \in Nat \ {0}
          BY <2>2, <4>2, <5>6, StillShown
        <5>8. len \in Nat \ {0}
          BY <2>3, <2>9, <5>7
        <5> QED  BY <5>8
      <4> QED  BY <2>10, <3>2, <4>1, <4>2, <4>3, PulledFacts
    <3>5. ~MayFail => /\ sources.subs = cfg'.subs /\ sources.groups = cfg'.groups
                      /\ AtRow(sources.sub, Len(sources.subs))
                      /\ "E" \notin Keys => Shuffled(list, cfg'.nodes) /\ d \in Nat
      BY <2>6, <2>7, <2>13, <3>4 DEF IInv, Follows
    <3>6. /\ sources' = RowsWith(sources.page, sources.subs, sources.sub, sources.groups, list,
                                 sources.group, d)
          /\ sources.page \in {"subs", "locals"}
      BY <2>13, SourcesFacts DEF RowsWith, SourcesRecord
    <3>7. /\ sources.subs \in Seq(Source) /\ sources.groups \in Seq(Source)
          /\ sources.sub \in Int /\ sources.group \in Text
      BY SourcesFacts
    <3>8. Held(cfg') /\ cfg'.rules = cfg.rules /\ mutated' \in {mutated, mutated + 1}
      BY <2>6, <2>7, <2>13 DEF Emits
    <3> QED  BY <2>4, <3>1, <3>3, <3>5, <3>6, <3>7, <3>8, RowsOut
  <2> QED  BY <2>11, <2>12, <2>13 DEF Applied
<1> QED  BY <1>1, <1>2

\* A group is deleted, or switched on or off.
LEMMA GroupAppliedOut ==
    ASSUME IInv, UNCHANGED scope, NEW c, Held(c), Framed(cfg, c), c.subs = cfg.subs,
           NEW g \in Text, NEW d \in Int, d = 0 \/ d = sources.node,
           Applied(c, [sources EXCEPT !.groups = c.groups, !.node = d, !.group = g])
    PROVE  Outcome
<1>1. c.rules = cfg.rules /\ c.nodes = cfg.nodes /\ c.groups \in Seq(Source)
  BY HeldTyped DEF Framed
<1>2. CASE MayFail /\ cfg' = c /\ UNCHANGED sources /\ Quiet
  BY <1>1, <1>2, StaleOut DEF Quiet
<1>3. CASE cfg' = c /\ sources' = [sources EXCEPT !.groups = c.groups, !.node = d, !.group = g] /\ Emits
  <2>1. /\ sources' = RowsWith(sources.page, sources.subs, sources.sub, c.groups, sources.nodes, g, d)
        /\ sources.page \in {"subs", "locals"}
    BY <1>3, SourcesFacts DEF RowsWith, SourcesRecord
  <2>2. /\ sources.subs \in Seq(Source) /\ sources.nodes \in Seq(Node) /\ sources.sub \in Int
    BY SourcesFacts
  <2>3. Hit
    BY <1>1, <1>3, HitKept
  <2>4. Held(cfg') /\ cfg'.rules = cfg.rules /\ mutated' \in {mutated, mutated + 1}
    BY <1>1, <1>3 DEF Emits
  <2>5. ~MayFail => /\ sources.subs = cfg'.subs /\ c.groups = cfg'.groups
                    /\ AtRow(sources.sub, Len(sources.subs))
                    /\ "E" \notin Keys => Shuffled(sources.nodes, cfg'.nodes) /\ d \in Nat
    BY <1>1, <1>3 DEF IInv, Follows
  <2> QED  BY <1>1, <2>1, <2>2, <2>3, <2>4, <2>5, RowsOut
<1> QED  BY <1>2, <1>3 DEF Applied

\* `D' deletes the group on screen, and `T' switches it.
LEMMA GroupKeysOut ==
    ASSUME IInv, UNCHANGED scope, DeleteGroup \/ ToggleGroup
    PROVE  Outcome
<1>1. PICK g : g = sources.group
  OBVIOUS
<1>2. CASE Nothing
  BY <1>2, UntouchedOut DEF Nothing
<1>3. CASE DeleteGroup /\ ~Nothing
  <2>1. PICK c : c = DeleteLocalGroup(cfg, g, FALSE)
    OBVIOUS
  <2>2. PICK h : h = IF c.groups = <<>> THEN "" ELSE c.groups[1].name
    OBVIOUS
  <2>3. g # "" /\ CanDeleteLocalGroup(cfg, g, FALSE)
    BY <1>1, <1>3 DEF DeleteGroup
  <2>4. Applied(c, [sources EXCEPT !.groups = c.groups, !.node = 0, !.group = h])
    BY <1>1, <1>3, <2>1, <2>2, <2>3 DEF DeleteGroup
  <2>5. Held(cfg) /\ g \in Name
    BY <1>1, <2>3, SourcesFacts, TextFacts
  <2>6. Held(c) /\ Framed(cfg, c) /\ c.subs = cfg.subs
    BY <2>1, <2>3, <2>5, GroupsHeld
  <2>7. h \in Text
    <3>1. c.groups \in Seq(Source)
      BY <2>6, HeldTyped
    <3>2. c.groups # <<>> => 1 \in DOMAIN c.groups
      BY <3>1
    <3>3. c.groups # <<>> => c.groups[1].name \in Name
      BY <3>1, <3>2, NamesInside
    <3> QED  BY <2>2, <3>3, TextFacts
  <2>8. 0 \in Int
    OBVIOUS
  <2> QED  BY <2>4, <2>6, <2>7, <2>8, GroupAppliedOut
<1>4. CASE ToggleGroup /\ ~Nothing
  <2>1. PICK c : c = ToggleLocalGroupEnabled(cfg, g)
    OBVIOUS
  <2>2. g \in NamesIn(cfg.groups) /\ Applied(c, [sources EXCEPT !.groups = c.groups])
    BY <1>1, <1>4, <2>1 DEF ToggleGroup
  <2>3. Held(cfg) /\ g \in Name /\ g \in Text /\ sources.node \in Int
    BY <2>2, SourcesFacts, SourcesNamed, TextFacts
  <2>4. Held(c) /\ Framed(cfg, c) /\ c.subs = cfg.subs
    BY <2>1, <2>2, <2>3, GroupsHeld
  <2>5. [sources EXCEPT !.groups = c.groups]
          = [sources EXCEPT !.groups = c.groups, !.node = sources.node, !.group = g]
    BY <1>1, SourcesFacts DEF SourcesRecord
  <2>6. Applied(c, [sources EXCEPT !.groups = c.groups, !.node = sources.node, !.group = g])
    BY <2>2, <2>5
  <2> QED  BY <2>3, <2>4, <2>6, GroupAppliedOut
<1> QED  BY <1>2, <1>3, <1>4

\* The cursor of the local nodes moves.
LEMMA LocalsMoveOut ==
    ASSUME IInv, UNCHANGED <<scope, cfg, mutated>>, NEW k,
           sources' = [sources EXCEPT !.node = Moved(@, k, Len(Shown))]
    PROVE  Outcome
<1>1. PICK d : d = Moved(sources.node, k, Len(Shown))
  OBVIOUS
<1>2. d \in Int /\ (sources.node \in Nat => d \in Nat)
  <2>1. PICK a : a = InGroup(sources.nodes, sources.group)
    OBVIOUS
  <2>2. a \in Seq(Node) /\ sources.node \in Int
    BY <2>1, SourcesFacts, InGroupFacts
  <2>3. Len(a) \in Nat /\ d = Moved(sources.node, k, Len(a))
    BY <1>1, <2>1, <2>2 DEF Shown
  <2> QED  BY <2>2, <2>3, MovedFacts
<1>3. /\ sources' = RowsWith(sources.page, sources.subs, sources.sub, sources.groups, sources.nodes,
                             sources.group, d)
      /\ sources.page \in {"subs", "locals"}
  BY <1>1, SourcesFacts DEF RowsWith, SourcesRecord
<1>4. cfg' = cfg /\ scope' = scope
  OBVIOUS
<1>5. Hit /\ Held(cfg') /\ cfg'.rules = cfg.rules /\ mutated' \in {mutated, mutated + 1}
  BY <1>4, HitKept, SourcesFacts
<1>6. ~MayFail => /\ sources.subs = cfg'.subs /\ sources.groups = cfg'.groups
                  /\ AtRow(sources.sub, Len(sources.subs))
                  /\ "E" \notin Keys => Shuffled(sources.nodes, cfg'.nodes) /\ d \in Nat
  BY <1>2, <1>4 DEF IInv, Follows
<1>7. /\ sources.subs \in Seq(Source) /\ sources.groups \in Seq(Source) /\ sources.nodes \in Seq(Node)
      /\ sources.sub \in Int /\ sources.group \in Text
  BY SourcesFacts
<1> QED  BY <1>2, <1>3, <1>4, <1>5, <1>6, <1>7, RowsOut

\* Keys of the page of local nodes.
LEMMA LocalsKeyOut ==
    ASSUME IInv, NEW k, k \in Keys, LocalsKey(k), UNCHANGED scope
    PROVE  Outcome
<1>1. \/ Opens("node", "")
      \/ Opens("node", Shown[sources.node + 1].name)
      \/ Opens("uri", "")
      \/ Opens("newgroup", "")
      \/ k = "E" /\ Opens("rename", "")
      \/ sources.node < Len(Shown) /\ DeleteRow(Shown[sources.node + 1].name)
      \/ DeleteGroup
      \/ ToggleGroup
      \/ /\ sources' = [sources EXCEPT !.node = Moved(@, k, Len(Shown))]
         /\ UNCHANGED <<cfg, mutated>>
  BY DEF LocalsKey
<1>2. {"node", "uri", "newgroup", "rename"} \subseteq Kinds
  BY DEF Kinds
<1>3. CASE Opens("node", "") \/ Opens("uri", "") \/ Opens("newgroup", "")
  BY <1>2, <1>3, OpensOut
<1>4. CASE Opens("node", Shown[sources.node + 1].name)
  <2>1. PICK name : name = Shown[sources.node + 1].name
    OBVIOUS
  <2>2. Opens("node", name)
    BY <1>4, <2>1
  <2> QED  BY <1>2, <2>2, OpensOut
<1>5. CASE k = "E" /\ Opens("rename", "")
  BY <1>2, <1>5, OpensOut
<1>6. CASE sources.node < Len(Shown) /\ DeleteRow(Shown[sources.node + 1].name)
  <2>1. PICK name : name = Shown[sources.node + 1].name
    OBVIOUS
  <2>2. DeleteRow(name)
    BY <1>6, <2>1
  <2> QED  BY <1>6, <2>1, <2>2, DeleteRowOut
<1>7. CASE DeleteGroup \/ ToggleGroup
  BY <1>7, GroupKeysOut
<1>8. CASE /\ sources' = [sources EXCEPT !.node = Moved(@, k, Len(Shown))]
           /\ UNCHANGED <<cfg, mutated>>
  BY <1>8, LocalsMoveOut
<1> QED  BY <1>1, <1>3, <1>4, <1>5, <1>6, <1>7, <1>8

\* A key of the Sources tab that leaves the tab as it should be keeps the invariant.
LEMMA OutcomeStep ==
    ASSUME IInv, On("sources"), Elsewhere, UNCHANGED <<scope, leaving>>, mutated < MaxPending, Outcome
    PROVE  IInv' /\ Hit
<1>1. UNCHANGED <<scope, leaving, app, conns, rules, groups, settings, doing>>
  BY DEF Elsewhere
<1>2. Held(cfg') /\ cfg'.rules = cfg.rules /\ Hit /\ SourcesFine' /\ Follows'
  BY DEF Outcome
<1>3. StoreTyped'
  BY <1>1, <1>2 DEF IInv, StoreTyped
<1>4. AppTyped'
  <2>1. mutated' \in 0 .. MaxPending
    <3>1. mutated \in 0 .. MaxPending /\ MaxPending \in Nat
      BY MaxPendingOK DEF IInv, AppTyped
    <3>2. mutated' = mutated \/ mutated' = mutated + 1
      BY DEF Outcome
    <3> QED  BY <3>1, <3>2
  <2> QED  BY <1>1, <2>1 DEF IInv, AppTyped
<1>5. ConnsTyped' /\ RulesTyped' /\ GroupsTyped' /\ SettingsTyped'
  BY <1>1, <1>2, Untouched
<1>6. FocusOnScreen'
  BY <1>1 DEF IInv, FocusOnScreen, On, Form, Page
<1> QED  BY <1>2, <1>3, <1>4, <1>5, <1>6 DEF IInv

\* Keys of the Sources tab.
LEMMA SourcesKeyOut ==
    ASSUME IInv, NEW k, k \in Keys, SourcesKey(k), UNCHANGED scope
    PROVE  Outcome
<1>1. \/ SubsKey(k)
      \/ LocalsKey(k)
      \/ /\ \E p \in {"subs", "locals"} : sources' = [sources EXCEPT !.page = p]
         /\ UNCHANGED <<cfg, mutated>>
  BY DEF SourcesKey
<1>2. CASE SubsKey(k)
  BY <1>2, SubsKeyOut
<1>3. CASE LocalsKey(k)
  BY <1>3, LocalsKeyOut
<1>4. ASSUME NEW p \in {"subs", "locals"}, sources' = [sources EXCEPT !.page = p],
             UNCHANGED <<cfg, mutated>>
      PROVE  Outcome
  <2>1. sources' = RowsWith(p, sources.subs, sources.sub, sources.groups, sources.nodes,
                            sources.group, sources.node)
    BY <1>4, SourcesFacts DEF RowsWith, SourcesRecord
  <2>2. cfg' = cfg /\ mutated' = mutated
    BY <1>4
  <2>3. Hit /\ Held(cfg') /\ cfg'.rules = cfg.rules /\ mutated' \in {mutated, mutated + 1}
    BY <2>2, HitKept, SourcesFacts
  <2>4. ~MayFail => /\ sources.subs = cfg'.subs /\ sources.groups = cfg'.groups
                    /\ AtRow(sources.sub, Len(sources.subs))
                    /\ "E" \notin Keys => Shuffled(sources.nodes, cfg'.nodes) /\ sources.node \in Nat
    BY <2>2 DEF IInv, Follows
  <2>5. /\ sources.subs \in Seq(Source) /\ sources.groups \in Seq(Source) /\ sources.nodes \in Seq(Node)
        /\ sources.sub \in Int /\ sources.node \in Int /\ sources.group \in Text
    BY SourcesFacts
  <2> QED  BY <2>1, <2>3, <2>4, <2>5, RowsOut
<1> QED  BY <1>1, <1>2, <1>3, <1>4

-----------------------------------------------------------------------------
(* Every step.                                                             *)

\* Whom a key goes to has the screen, and another tab is not shown over a form.
LEMMA HandlerFacts ==
    ASSUME IInv, NEW k, NEW h, h = Handler(k)
    PROVE  /\ h \in {"connections", "conns filter"} => On("connections")
           /\ h \in {"rules", "rules filter"} => On("rules")
           /\ h = "sources" => On("sources")
           /\ h = "form" => On("sources") /\ Form.kind # "none"
           /\ h = "sidebar" => ~Typing
           /\ h \notin {"focus", "sidebar", "conns filter", "rules filter", "local rules", "form",
                        "connections", "rules", "groups", "sources", "settings", "logs"}
                => ~Typing \/ k = "ctrl+c"
<1>1. PICK t : t = Tabs[app.tab]
  OBVIOUS
<1>2. \A x : On(x) <=> t = x
  BY <1>1 DEF On
<1>3. /\ conns.filtering => On("connections")
      /\ rules.filtering => On("rules")
  BY DEF IInv, FocusOnScreen
<1>4. t \in {"dashboard", "groups", "sources", "rules", "connections", "logs", "settings"}
  <2>1. app.tab \in 1 .. 7
    BY DEF IInv, AppTyped
  <2>2. \A i \in 1 .. 7 : Tabs[i] \in {"dashboard", "groups", "sources", "rules", "connections",
                                       "logs", "settings"}
    BY DEF Tabs
  <2> QED  BY <1>1, <2>1, <2>2
<1>5. t = "dashboard" => ~TabTakes(k)
  BY <1>2 DEF TabTakes
<1>6. Typing <=> conns.filtering \/ rules.filtering \/ (On("sources") /\ Form.kind # "none")
  BY DEF Typing
<1>7. FormTakes(k) <=> On("sources") /\ Form.kind # "none" /\ k # "ctrl+c"
  BY DEF FormTakes
<1> DEFINE up == k \in Up \union Down
<1>8. h = IF ~Typing /\ k \in {"left", "right"} THEN "focus"
          ELSE IF ~Typing /\ app.focus = "sidebar" /\ up THEN "sidebar"
          ELSE IF On("connections") /\ conns.filtering THEN "conns filter"
          ELSE IF On("rules") /\ rules.filtering
               THEN IF rules.page = "local" THEN "local rules" ELSE "rules filter"
          ELSE IF FormTakes(k) THEN "form"
          ELSE IF TabTakes(k) THEN t
          ELSE "global"
  BY <1>1 DEF Handler
<1> HIDE DEF up
<1> QED  BY <1>2, <1>3, <1>4, <1>5, <1>6, <1>7, <1>8

\* Nothing happens.
LEMMA StutterStep ==
    ASSUME IInv, UNCHANGED vars
    PROVE  IInv' /\ Hit
<1>1. /\ scope' = scope /\ cfg' = cfg
      /\ UNCHANGED <<app, conns, rules, groups, sources, settings, mutated, doing, leaving>>
  BY DEF vars
<1>2. Len(cfg'.nodes) \in Nat
  BY <1>1, SourcesFacts
<1>3. Hit
  BY <1>1, HitKept
<1> QED  BY <1>1, <1>2, <1>3, Untouched DEF IInv

\* A key.
LEMMA PressStep ==
    ASSUME IInv, NEW k \in Keys, Press(k)
    PROVE  IInv' /\ Hit
<1>1. UNCHANGED <<scope, leaving>> /\ mutated < MaxPending
  BY DEF Press
<1>2. PICK h : h = Handler(k)
  OBVIOUS
<1>3. /\ h \in {"connections", "conns filter"} => On("connections")
      /\ h \in {"rules", "rules filter"} => On("rules")
      /\ h = "sources" => On("sources")
      /\ h = "form" => On("sources") /\ Form.kind # "none"
      /\ h = "sidebar" => ~Typing
      /\ h \notin {"focus", "sidebar", "conns filter", "rules filter", "local rules", "form",
                   "connections", "rules", "groups", "sources", "settings", "logs"}
           => ~Typing \/ k = "ctrl+c"
  BY <1>2, HandlerFacts
<1>4. CASE h = "focus"
  <2>1. ShiftFocus(k)
    BY <1>2, <1>4 DEF Press
  <2>2. cfg' = cfg
    BY <2>1 DEF ShiftFocus
  <2> QED  BY <1>1, <2>1, <2>2, FocusStep, HitKept
<1>5. CASE h = "sidebar"
  <2>1. CycleTab(k) /\ ~Typing
    BY <1>2, <1>3, <1>5 DEF Press
  <2>2. cfg' = cfg
    BY <2>1 DEF CycleTab
  <2> QED  BY <1>1, <2>1, <2>2, TabStep, HitKept
<1>6. CASE h \in {"connections", "conns filter"}
  <2>1. ConnsKey(k) \/ ConnsFilterKey(k)
    BY <1>2, <1>6 DEF Press
  <2>2. cfg' = cfg
    BY <2>1 DEF ConnsKey, ConnsFilterKey
  <2> QED  BY <1>1, <1>3, <1>6, <2>1, <2>2, ConnsStep, HitKept
<1>7. CASE h \in {"rules", "rules filter"}
  <2>1. RulesKey(k) \/ RulesFilterKey(k)
    BY <1>2, <1>7 DEF Press
  <2>2. IInv' /\ cfg'.nodes = cfg.nodes
    BY <1>1, <1>3, <1>7, <2>1, RulesStep
  <2> QED  BY <2>2, HitKept
<1>8. CASE h = "local rules"
  <2>1. LocalRulesKey(k)
    BY <1>2, <1>8 DEF Press
  <2>2. IInv' /\ cfg'.nodes = cfg.nodes
    BY <1>1, <2>1, LocalRulesStep
  <2> QED  BY <2>2, HitKept
<1>9. CASE h = "groups"
  <2>1. GroupsKey(k)
    BY <1>2, <1>9 DEF Press
  <2>2. cfg' = cfg
    BY <2>1 DEF GroupsKey
  <2> QED  BY <1>1, <2>1, <2>2, GroupsStep, HitKept
<1>10. CASE h = "settings"
  <2>1. SettingsKey(k)
    BY <1>2, <1>10 DEF Press
  <2>2. IInv' /\ cfg'.nodes = cfg.nodes
    BY <1>1, <2>1, SettingsStep
  <2> QED  BY <2>2, HitKept
<1>11. CASE h = "form"
  <2>1. FormKey(k)
    BY <1>2, <1>11 DEF Press
  <2>2. Elsewhere
    BY <2>1 DEF FormKey
  <2>3. Outcome
    BY <1>1, <1>3, <1>11, <2>1, FormKeyOut
  <2> QED  BY <1>1, <1>3, <1>11, <2>2, <2>3, OutcomeStep
<1>12. CASE h = "sources"
  <2>1. SourcesKey(k) \/ Crash
    BY <1>2, <1>12 DEF Press
  <2>2. CASE SourcesKey(k)
    <3>1. Elsewhere
      BY <2>2 DEF SourcesKey
    <3>2. Outcome
      BY <1>1, <2>2, SourcesKeyOut
    <3> QED  BY <1>1, <1>3, <1>12, <3>1, <3>2, OutcomeStep
  <2>3. CASE Crash
    <3>1. cfg' = cfg
      BY <2>3 DEF Crash
    <3> QED  BY <1>1, <2>3, <3>1, PollStep, HitKept
  <2> QED  BY <2>1, <2>2, <2>3
<1>13. CASE h = "logs"
  <2>1. UNCHANGED vars
    BY <1>2, <1>13 DEF Press
  <2> QED  BY <2>1, StutterStep
<1>14. CASE h \notin {"focus", "sidebar", "conns filter", "rules filter", "local rules", "form",
                      "connections", "rules", "groups", "sources", "settings", "logs"}
  <2>1. GlobalKey(k)
    BY <1>2, <1>14 DEF Press
  <2>2. cfg' = cfg
    BY <2>1 DEF GlobalKey
  <2> QED  BY <1>1, <1>3, <1>14, <2>1, <2>2, TabStep, HitKept
<1> QED  BY <1>4, <1>5, <1>6, <1>7, <1>8, <1>9, <1>10, <1>11, <1>12, <1>13, <1>14

-----------------------------------------------------------------------------
(* The invariant.                                                          *)

\* A configuration of its type is one that is held.
LEMMA ConfigHeld ==
    ASSUME NEW c \in Config
    PROVE  Held(c)
BY DEF Config, Held, Shaped, Filled

\* The program starts with every cursor at the first row.
LEMMA InitStep == Init => IInv
<1> SUFFICES ASSUME Init PROVE IInv
  OBVIOUS
<1>1. scope \in Scopes /\ cfg = scope.start
  BY DEF Init
<1>2. /\ Fetched \in Seq(NodeName) /\ Rows \subseteq Nat /\ Held(cfg)
  BY <1>1, ScopeFacts, ConfigHeld
<1>3. StoreTyped
  BY <1>1, <1>2 DEF StoreTyped
<1>4. /\ cfg.subs \in Seq(Source) /\ cfg.groups \in Seq(Source) /\ cfg.nodes \in Seq(Node)
      /\ cfg.rules \in Seq(Ref)
  BY <1>2, HeldTyped
<1>5. AppTyped
  <2>1. 1 \in 1 .. 7
    OBVIOUS
  <2>2. 0 \in 0 .. MaxPending
    BY MaxPendingOK
  <2> QED  BY <2>1, <2>2 DEF Init, AppTyped
<1>6. ConnsTyped
  BY DEF Init, ConnsTyped, OnList
<1>7. RulesTyped
  <2>1. OnList(0, 0) /\ \A len \in Nat : AtRow(0, len)
    BY DEF OnList, AtRow
  <2>2. Len(cfg.rules) \in Nat
    BY <1>4
  <2>3. rules = [live |-> 0, filter |-> FALSE, filtering |-> FALSE, at |-> 0,
                 page |-> "live", rows |-> cfg.rules, row |-> 0]
    BY DEF Init
  <2>4. rules \in [live : Nat, filter : BOOLEAN, filtering : BOOLEAN, at : Nat,
                   page : {"live", "local"}, rows : Seq(Ref), row : Nat]
    BY <1>4, <2>3
  <2> QED  BY <2>1, <2>2, <2>3, <2>4 DEF RulesTyped
<1>8. GroupsTyped
  <2>1. PICK rows : rows = GroupRows(cfg)
    OBVIOUS
  <2>2. rows \in Seq(Row)
    BY <1>2, <2>1, GroupRowsTyped DEF Held
  <2>3. groups = [rows |-> rows, at |-> 0, node |-> 0, pane |-> "groups"]
    BY <2>1 DEF Init
  <2>4. groups \in GroupsRecord /\ groups.rows = rows /\ groups.at = 0 /\ groups.node = 0
    BY <2>2, <2>3 DEF GroupsRecord
  <2>5. Len(rows) \in Nat
    BY <2>2
  <2>6. \A len \in Nat : OnList(0, len)
    BY DEF OnList
  <2>7. PICK n : n = NodeCount(rows, 0)
    OBVIOUS
  <2>8. n \in Nat
    <3>1. CASE 0 < Len(rows)
      <4>1. 0 + 1 \in DOMAIN rows
        BY <2>2, <2>5, <3>1
      <4>2. rows[0 + 1] \in Row
        BY <2>2, <4>1
      <4>3. Len(rows[0 + 1].nodes) \in Nat
        BY <4>2 DEF Row
      <4> QED  BY <2>7, <3>1, <4>3 DEF NodeCount
    <3>2. CASE ~(0 < Len(rows))
      BY <2>7, <3>2 DEF NodeCount
    <3> QED  BY <3>1, <3>2
  <2> QED  BY <2>4, <2>5, <2>6, <2>7, <2>8 DEF GroupsTyped
<1>9. PICK g : g = IF cfg.groups = <<>> THEN "" ELSE cfg.groups[1].name
  OBVIOUS
<1>10. sources = [page |-> "subs", focus |-> "sidebar", subs |-> cfg.subs, sub |-> 0,
                  nodes |-> cfg.nodes, groups |-> cfg.groups, node |-> 0, form |-> NoForm, group |-> g]
  BY <1>9 DEF Init
<1>11. SourcesFine
  <2>1. g \in Text
    <3>1. cfg.groups # <<>> => 1 \in DOMAIN cfg.groups
      BY <1>4
    <3>2. cfg.groups # <<>> => cfg.groups[1].name \in Name
      BY <1>4, <3>1, NamesInside
    <3> QED  BY <1>9, <3>2, TextFacts
  <2>2. Form = NoForm
    BY <1>10 DEF Form
  <2>3. NoForm \in [kind : Kinds, field : Nat, proto : 1 .. 6, node : {NoForm.node}]
    <3>1. "none" \in Kinds
      BY DEF Kinds
    <3>2. 5 \in 1 .. 6
      OBVIOUS
    <3> QED  BY <3>1, <3>2 DEF NoForm, Hysteria2
  <2>4. PICK R : R = [kind : Kinds, field : Nat, proto : 1 .. 6, node : {NoForm.node}]
    OBVIOUS
  <2>5. PICK f : f = NoForm
    OBVIOUS
  <2>6. sources \in [page : {"subs", "locals"}, focus : {"sidebar", "content"}, subs : Seq(Source),
                     sub : Int, nodes : Seq(Node), groups : Seq(Source), node : Int,
                     group : Text, form : R]
    <3>1. f \in R /\ 0 \in Int
      BY <2>3, <2>4, <2>5
    <3>2. sources = [page |-> "subs", focus |-> "sidebar", subs |-> cfg.subs, sub |-> 0,
                  nodes |-> cfg.nodes, groups |-> cfg.groups, node |-> 0, form |-> f, group |-> g]
      BY <1>10, <2>5
    <3> QED  BY <1>4, <2>1, <3>1, <3>2
  <2>7. sources \in SourcesRecord
    BY <2>2, <2>4, <2>6 DEF SourcesRecord
  <2>8. Form.kind = "none" /\ Form.field = 0
    BY <2>2 DEF NoForm
  <2>9. Fields = 1
    BY <2>8 DEF Fields
  <2>10. 0 < 1
    OBVIOUS
  <2>11. Form.field < Fields
    BY <2>8, <2>9, <2>10, Zenon
  <2> QED  BY <2>7, <2>8, <2>11 DEF SourcesFine
<1>12. SettingsTyped
  <2>1. PICK snap : snap = SnapItems(cfg)
    OBVIOUS
  <2>2. snap \in Seq(Name)
    BY <1>2, <2>1, SnapTyped DEF Held
  <2>3. Len(snap) \in Nat
    BY <2>2
  <2>4. \A len \in Nat : OnList(0, len)
    BY DEF OnList
  <2>5. settings = [page |-> 1, focus |-> "sidebar", routing |-> 0, active |-> 0, template |-> 0,
                    snap |-> snap, busy |-> {}]
    BY <2>1 DEF Init
  <2>6. settings \in SettingsRecord
    <3>1. 1 \in 1 .. 8 /\ 0 \in 0 .. 2 /\ 0 \in Nat
      OBVIOUS
    <3>2. {} \in SUBSET Cmds
      OBVIOUS
    <3> QED  BY <2>2, <2>5, <3>1, <3>2 DEF SettingsRecord
  <2>7. settings.active = 0 /\ settings.snap = snap /\ doing \subseteq settings.busy
    <3>1. settings.active = 0 /\ settings.snap = snap
      BY <2>5
    <3>2. doing = {}
      BY DEF Init
    <3> QED  BY <3>1, <3>2
  <2> QED  BY <2>3, <2>4, <2>6, <2>7 DEF SettingsTyped
<1>13. Follows
  <2>1. /\ sources.subs = cfg.subs /\ sources.groups = cfg.groups /\ sources.nodes = cfg.nodes
        /\ sources.sub = 0 /\ sources.node = 0
    BY <1>10
  <2>2. Shuffled(cfg.nodes, cfg.nodes)
    BY <1>4, ShuffledSelf
  <2>3. 0 \in Nat /\ \A len : AtRow(0, len)
    BY DEF AtRow
  <2> QED  BY <2>1, <2>2, <2>3 DEF Follows
<1>14. FocusOnScreen
  <2>1. Form.kind = "none"
    BY <1>10 DEF Form, NoForm
  <2> QED  BY <2>1 DEF Init, FocusOnScreen
<1> QED  BY <1>3, <1>5, <1>6, <1>7, <1>8, <1>11, <1>12, <1>13, <1>14 DEF IInv

\* Every step keeps the invariant, and what it removes is the row under the cursor.
LEMMA NextStep == IInv /\ [Next]_vars => IInv' /\ [Hit]_vars
<1> SUFFICES ASSUME IInv, [Next]_vars PROVE IInv' /\ Hit
  OBVIOUS
<1>1. CASE UNCHANGED vars
  BY <1>1, StutterStep
<1>2. ASSUME NEW k \in Keys, Press(k) PROVE IInv' /\ Hit
  BY <1>2, PressStep
<1>3. CASE Deliver
  <2>1. UNCHANGED <<scope, leaving>> /\ cfg' = cfg
    BY <1>3 DEF Deliver
  <2> QED  BY <1>3, <2>1, GroupsStep, HitKept
<1>4. CASE PollConnections \/ PollRules \/ Leave
  <2>1. cfg' = cfg
    BY <1>4 DEF PollConnections, PollRules, Leave
  <2> QED  BY <1>4, <2>1, PollStep, HitKept
<1>5. CASE PollService \/ \E c \in doing : Finish(c)
  <2>1. cfg' = cfg
    BY <1>5 DEF PollService, Finish
  <2> QED  BY <1>5, <2>1, FinishStep, HitKept
<1> QED  BY <1>1, <1>2, <1>3, <1>4, <1>5 DEF Next

\* The invariant holds throughout.
LEMMA Inductive == Spec => []IInv
BY InitStep, NextStep, PTL DEF Spec

\* Every tab has its type and every cursor is on its list, whatever is pressed, polled or
\* fails to be saved, but for the two cursors that TypeOK names.
THEOREM TypeCorrect == Spec => []TypeOK
<1>1. IInv => TypeOK
  <2> SUFFICES ASSUME IInv PROVE TypeOK
    OBVIOUS
  <2>1. scope \in Scopes /\ Held(cfg) /\ leaving \in BOOLEAN /\ mutated \in 0 .. MaxPending
    BY DEF IInv, StoreTyped, AppTyped
  <2>2. cfg \in Config
    BY <2>1, HeldTyped
  <2>3. app \in [tab : DOMAIN Tabs, focus : {"sidebar", "body"}, running : BOOLEAN]
    BY TabFacts DEF IInv, AppTyped
  <2>4. /\ conns \in [items : Rows \union {0}, filter : BOOLEAN, filtering : BOOLEAN, at : Nat]
        /\ OnList(conns.at, conns.items)
    BY DEF IInv, ConnsTyped
  <2>5. \A at : \A len \in Nat : AtRow(at, len) => OnList(at, len)
    BY DEF AtRow, OnList
  <2>6. OnList(rules.at, rules.live) /\ rules.page \in {"live", "local"}
        /\ OnList(rules.row, Len(rules.rows))
    <3>1. rules.rows \in Seq(Ref)
      BY DEF IInv, RulesTyped
    <3>2. Len(rules.rows) \in Nat
      BY <3>1
    <3> QED  BY <2>5, <3>2 DEF IInv, RulesTyped
  <2>7. OnList(groups.at, Len(groups.rows)) /\ OnList(groups.node, NodeCount(groups.rows, groups.at))
    BY DEF IInv, GroupsTyped
  <2>8. /\ MayFail \/ OnList(sources.sub, Len(sources.subs))
        /\ MayFail \/ "E" \in Keys \/ sources.node \in Nat
    BY <2>5, SourcesFacts DEF IInv, Follows
  <2>9. Form.proto \in DOMAIN FieldCount /\ Form.field < Fields
    <3>1. DOMAIN FieldCount = 1 .. 6
      BY DEF FieldCount
    <3> QED  BY <3>1, SourcesFacts
  <2>10. settings \in SettingsRecord /\ OnList(settings.active, Len(settings.snap))
         /\ doing \subseteq settings.busy
    BY DEF IInv, SettingsTyped
  <2>11. settings.page \in DOMAIN SubPages
    <3>1. DOMAIN SubPages = 1 .. 8
      BY DEF SubPages
    <3> QED  BY <2>10, <3>1 DEF SettingsRecord
  <2>12. settings.routing < Len(ModeOpts) /\ settings.template < Templates
    <3>1. Len(ModeOpts) = 3
      BY DEF ModeOpts
    <3>2. settings.routing \in 0 .. 2 /\ settings.template \in 0 .. 2
      BY <2>10 DEF SettingsRecord
    <3> QED  BY <3>1, <3>2 DEF Templates
  <2>13. settings.busy \union doing \subseteq {"routing", "active", "service", "core"}
    BY <2>10 DEF SettingsRecord, Cmds
  <2> QED  BY <2>1, <2>2, <2>3, <2>4, <2>6, <2>7, <2>8, <2>9, <2>10, <2>11, <2>12, <2>13 DEF TypeOK
<1> QED  BY <1>1, Inductive, PTL

\* What takes the keys is on screen, and when config.toml can be written the Sources and
\* Rules tabs list what the store holds.
THEOREM ScreenStaysAgreed == Spec => []ScreenAgrees
<1>1. IInv => ScreenAgrees
  <2> SUFFICES ASSUME IInv PROVE ScreenAgrees
    OBVIOUS
  <2>1. ASSUME Shuffled(sources.nodes, cfg.nodes) PROVE ToSet(sources.nodes) = ToSet(cfg.nodes)
    <3>1. PICK f \in [DOMAIN sources.nodes -> DOMAIN cfg.nodes] :
               /\ \A j \in DOMAIN cfg.nodes : \E i \in DOMAIN sources.nodes : f[i] = j
               /\ \A i \in DOMAIN sources.nodes : sources.nodes[i] = cfg.nodes[f[i]]
      BY <2>1 DEF Shuffled
    <3>2. ASSUME NEW x \in ToSet(sources.nodes) PROVE x \in ToSet(cfg.nodes)
      <4>1. PICK i \in DOMAIN sources.nodes : x = sources.nodes[i]
        BY DEF ToSet
      <4>2. f[i] \in DOMAIN cfg.nodes /\ x = cfg.nodes[f[i]]
        BY <3>1, <4>1
      <4> QED  BY <4>2 DEF ToSet
    <3>3. ASSUME NEW x \in ToSet(cfg.nodes) PROVE x \in ToSet(sources.nodes)
      <4>1. PICK j \in DOMAIN cfg.nodes : x = cfg.nodes[j]
        BY DEF ToSet
      <4>2. PICK i \in DOMAIN sources.nodes : f[i] = j
        BY <3>1
      <4>3. x = sources.nodes[i]
        BY <3>1, <4>1, <4>2
      <4> QED  BY <4>3 DEF ToSet
    <3> QED  BY <3>2, <3>3
  <2>2. rules.rows = cfg.rules
    BY DEF IInv, RulesTyped
  <2>3. PageShowsStore
    BY <2>1, <2>2 DEF IInv, Follows, PageShowsStore
  <2> QED  BY <2>3 DEF IInv, ScreenAgrees
<1> QED  BY <1>1, Inductive, PTL

\* `d' removes the node of the row under the cursor, and of the group on screen, for any
\* list, any keys before it, and any edit that was refused.
THEOREM RowsAreHit == Spec => RowHit
<1>1. Spec => [][Hit]_vars
  BY Inductive, NextStep, PTL DEF Spec
<1>2. [][Hit]_vars => RowHit
  BY PTL DEF RowHit, Hit
<1> QED  BY <1>1, <1>2, PTL

=============================================================================
