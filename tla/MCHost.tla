------------------------------- MODULE MCHost -------------------------------
(***************************************************************************)
(* Instances of Host: a CLI process beside one terminal UI.                *)
(***************************************************************************)
EXTENDS Host

All == Verbs \union {"update", "launch", "change", "start", "stop", "restart", "remove", "core"}
Some == {"init", "uninstall", "update", "launch", "change", "restart"}

Cast(m, casting, n, which) == [mode |-> m, ops |-> casting, max |-> n, apart |-> which]

MCScopes == {Cast("systemd", All, 2, "none"), Cast("pid", Some, 2, "none"),
             Cast("systemd", All, 2, "managers"), Cast("pid", All, 2, "managers"),
             Cast("systemd", All, 3, "all"), Cast("pid", All, 3, "all")}
MCLeft == {Cast("pid", {"init", "skip", "uninstall"}, 3, "all")}

\* One command after the other, each to its end.
LeftSpec == Init /\ [][System \/ \E t \in Thread : Steps(t) \/ \E op \in Ops : t \in Cli /\ RunCli(t, op)]_vars
=============================================================================
