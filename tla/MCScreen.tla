------------------------------ MODULE MCScreen ------------------------------
(***************************************************************************)
(* Instances of Screen.  Each scope enables the keys of one part of the    *)
(* screen, and the keys that lead there and away.                          *)
(***************************************************************************)
EXTENDS Screen

MCAutoOf(s)    == s \o "-auto"
MCNodeOf(s, n) == s \o ":" \o n

Src(s) == [name |-> s, on |-> TRUE]
Stored(ss, gs, nodes, rs) ==
    Load([Defaults EXCEPT !.subs = ss, !.groups = gs, !.nodes = nodes, !.rules = rs])
Scope(keys, len, failing, typed, gs, start) ==
    [keys |-> keys \union {"esc", "ctrl+c"}, rows |-> len, failing |-> failing,
     typed |-> typed, groups |-> gs, fetched |-> <<"m">>, start |-> start]

\* The focus, the tabs and the pages.
Focus ==
    Scope({"tab", "shift+tab", "left", "right", "down", "/", "q"}, {0}, FALSE, {}, {}, Defaults)

\* The filters of Connections and Rules, and their cursors.
Filters ==
    Scope({"4", "5", "/", "x", "enter", "backspace", "up", "down", "pgdown", "pgup"},
          {0, 2}, FALSE, {}, {}, Defaults)

\* The pages of Settings; and again while subscriptions are disabled and enabled.
Pages ==
    Scope({"7", "right", "up", "down", "u"}, {0}, FALSE, {}, {},
          Stored(<<Src("a")>>, <<Src("g")>>, <<>>, <<>>))
Stale ==
    Scope({"3", "7", "right", "down", "enter", "e"}, {0}, FALSE, {}, {},
          Stored(<<Src("a")>>, <<Src("g")>>, <<>>, <<>>))

\* Subscriptions, beside the Groups tab or on a disk that may not work.
Subs(keys, failing) ==
    Scope({"3", "j", "a", "d", "e", "enter"} \union keys, {0}, failing, {"a", "b"}, {},
          Stored(<<Src("a")>>, <<Src("g")>>, <<>>, <<>>))

\* Local nodes and their groups; one node is there already.
Locals ==
    Scope({"3", "down", "j", "a", "e", "d", "D", "N", "enter"}, {0}, FALSE,
          {"h"}, {"g"}, Stored(<<>>, <<Src("g")>>, <<NewNode("m", "g", "")>>, <<>>))

\* Renames of a group beside its nodes.
Renames ==
    Scope({"2", "3", "down", "u", "d", "E", "T", "enter"}, {0}, FALSE, {"g", "h"}, {},
          Stored(<<>>, <<Src("g")>>, <<NewNode("m", "g", "")>>, <<>>))

\* A group renamed under the rows of its nodes, and its old name given again.
Renamed ==
    Scope({"3", "down", "j", "d", "e", "N", "E", "enter"}, {0}, FALSE, {"g", "h"}, {},
          Stored(<<>>, <<Src("g")>>, <<NewNode("m", "g", ""), NewNode("n", "g", "")>>, <<>>))

\* The fields and protocols of the node form.
Forms == Scope({"3", "down", "up", "right", "a"}, {0}, FALSE, {}, {}, Defaults)

\* Local rules.
RuleRows ==
    Scope({"4", "T", "d", "J", "K", "down"}, {0, 1}, FALSE, {}, {},
          Stored(<<>>, <<>>, <<>>, <<"DIRECT", "REJECT", Proxy>>))

MCScopes == {Focus, Filters, Pages, Stale, Subs({"2", "k"}, FALSE), Subs({}, TRUE),
             Locals, Renames, Renamed, Forms, RuleRows}

\* The filter on the page of local rules.
MCTrap == {Scope({"4", "T", "/"}, {0}, FALSE, {}, {}, Defaults)}
=============================================================================
