------------------------------- MODULE Measure -------------------------------
(***************************************************************************)
(* The delay test of a group, `t' on the Groups tab: a command on a        *)
(* goroutine calls api.Client.MeasureGroup, which asks mihomo for          *)
(* "<group>-auto", then for the group, then for every member in parallel.  *)
(* When mihomo cannot be reached the command applies the configuration,    *)
(* which may start mihomo again, and measures once more.                   *)
(***************************************************************************)
EXTENDS Naturals, FiniteSets

CONSTANTS
    Tests,      \* delay tests that may run at once
    Member      \* proxies of a group

VARIABLES
    up,     \* mihomo's controller answers
    group,  \* how mihomo has the group: [auto, direct, known, members]
    calm,   \* nothing fails but for mihomo being down at first
    test    \* the tests: [at, healed, busy, chan, said]

NotRun  == [kind |-> "none", of |-> {}]
Failed  == [kind |-> "error", of |-> {}]
Results(ms) == [kind |-> "results", of |-> ms]
Idle    == [at |-> "idle", healed |-> FALSE, busy |-> {}, chan |-> {}, said |-> NotRun]

Groups  == [auto : BOOLEAN, direct : BOOLEAN, known : BOOLEAN, members : SUBSET Member]
NoGroup == [none |-> TRUE]      \* no group under the cursor

MeasureInit == calm \in BOOLEAN /\ test = [t \in Tests |-> Idle]

Moves(t, at)  == test' = [test EXCEPT ![t].at = at] /\ UNCHANGED up
Says(t, what) == test' = [test EXCEPT ![t] = [Idle EXCEPT !.said = what]] /\ UNCHANGED up
Errs(t)       == ~calm /\ Says(t, Failed)

Begin(t) ==
    /\ test[t].at = "idle" /\ group # NoGroup
    /\ test' = [test EXCEPT ![t] = [Idle EXCEPT !.at = "auto"]] /\ UNCHANGED up

\* Fault: an unreachable mihomo is an error like any other.
UnreachableFails(t) == Says(t, Failed)

\* IsUnreachable: heal, the first time.
Unreachable(t) == IF test[t].healed THEN Says(t, Failed) ELSE Moves(t, "apply")

\* GroupDelay: only a 404 leads on; 401, 504 and the deadline do not.
Ask(t, here, next) ==
    IF ~up THEN Unreachable(t)
    ELSE \/ here /\ Says(t, Results(group.members))
         \/ ~here /\ Moves(t, next)
         \/ Errs(t)

\* GetProxies; a group without members has an empty result.
List(t) ==
    IF ~up THEN Unreachable(t)
    ELSE \/ ~group.known /\ Says(t, Failed)
         \/ group.known /\ group.members = {} /\ Says(t, Results({}))
         \/ group.known /\ group.members # {} /\ UNCHANGED up
                /\ test' = [test EXCEPT ![t].at = "probe", ![t].busy = group.members]
         \/ Errs(t)

\* Fault: the channel holds one result, and nobody reads it yet.
RoomForOne(t) == test[t].chan = {}

\* The channel holds a result of every member.
Room(t) == Cardinality(test[t].chan) < Cardinality(group.members)

\* A member's goroutine has its answer, an error counting as a delay of 0.
Probe(t, m) ==
    /\ m \in test[t].busy /\ Room(t) /\ UNCHANGED up
    /\ test' = [test EXCEPT ![t].busy = @ \ {m}, ![t].chan = @ \union {m}]

\* Fault: the results are taken before all are there.
CollectEarly(t) == test[t].chan # {} /\ Says(t, Results(test[t].chan))

\* wg.Wait, close, and the results.
Collect(t) == test[t].busy = {} /\ Says(t, Results(test[t].chan))

\* Assemble, a hot reload, and a restart when that fails.
Apply(t) ==
    \/ up' = TRUE /\ test' = [test EXCEPT ![t].at = "auto", ![t].healed = TRUE]
    \/ Errs(t)

TestStep(t) ==
    \/ test[t].at = "auto"    /\ Ask(t, group.auto, "direct")
    \/ test[t].at = "direct"  /\ Ask(t, group.direct, "members")
    \/ test[t].at = "members" /\ List(t)
    \/ test[t].at = "probe"   /\ Collect(t)
    \/ test[t].at = "apply"   /\ Apply(t)

-----------------------------------------------------------------------------

MeasureTypeOK ==
    /\ group \in Groups \union {NoGroup} /\ calm \in BOOLEAN /\ up \in BOOLEAN
    /\ test \in [Tests -> [at : {"idle", "auto", "direct", "members", "probe", "apply"},
                           healed : BOOLEAN, busy : SUBSET Member, chan : SUBSET Member,
                           said : [kind : {"none", "error", "results"}, of : SUBSET Member]]]

\* Results speak of every member of the group and of nothing else, however
\* they were come by (MeasureGroup's three ways).
MembersAnswered ==
    \A t \in Tests : test[t].said.kind = "results" => test[t].said.of = group.members

\* A test of a group that mihomo has comes to results when nothing fails but
\* for mihomo being down when it is asked: "This rescues the common case where
\* mihomo died between the user adding a node and pressing `t`" (update.go).
Healed ==
    calm /\ group # NoGroup =>
        (group.known => \A t \in Tests : test[t].said.kind # "error")
=============================================================================
