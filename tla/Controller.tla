----------------------------- MODULE Controller -----------------------------
(***************************************************************************)
(* All that the terminal UI asks of mihomo's controller at once: its       *)
(* background loops (Streams) and its delay tests (Measure), over a mihomo *)
(* that goes down and comes back, until the program is left.               *)
(***************************************************************************)
EXTENDS Streams

CONSTANTS
    Tests, Member,  \* as in Measure
    Used            \* a behaviour has the loops and a group of one of these

VARIABLES group, calm, test     \* as in Measure

INSTANCE Measure

ASSUME UsedOK == \A u \in Used : u.loops \subseteq Loop /\ u.groups \subseteq Groups \union {NoGroup}

testVars == <<group, calm, test>>
vars     == <<prog, up, loopVars, testVars>>

Init == MeasureInit /\ \E u \in Used : StreamsInit(u.loops) /\ group \in u.groups

\* mihomo dies, or is started by somebody else.
MihomoDies  == Alive /\ ~calm /\ up' = FALSE /\ UNCHANGED <<prog, loopVars, testVars>>
MihomoComes == Alive /\ ~up /\ up' = TRUE /\ UNCHANGED <<prog, loopVars, testVars>>

\* Commands are started by keys, and go on when the program has quit.
Press(t)   == prog = "running" /\ Begin(t) /\ UNCHANGED <<prog, loopVars, group, calm>>
Command(t) == Alive /\ (TestStep(t) \/ \E m \in Member : test[t].at = "probe" /\ Probe(t, m))
              /\ UNCHANGED <<prog, loopVars, group, calm>>

Next ==
    \/ StreamsNext /\ UNCHANGED testVars
    \/ MihomoDies \/ MihomoComes
    \/ \E t \in Tests : Press(t) \/ Command(t)

Spec == Init /\ [][Next]_vars

\* Goroutines run, requests and pauses end, and Run's return leads to the
\* cancellation; nobody has to leave, mihomo need not come, nor main return.
FairSpec ==
    /\ Spec /\ WF_vars(Shutdown /\ UNCHANGED testVars) /\ WF_vars(ChildStep /\ UNCHANGED testVars)
    /\ \A s \in Slot : WF_vars(ReaderStep(s) /\ UNCHANGED testVars)
    /\ \A l \in Loop : WF_vars(LoopStep(l) /\ UNCHANGED testVars)
    /\ \A t \in Tests : WF_vars(Command(t))

TypeOK == StreamsTypeOK /\ MeasureTypeOK

\* A delay test ends: no goroutine of it waits for another for ever.
TestsFinish == \A t \in Tests : test[t].at # "idle" ~> (test[t].at = "idle" \/ ~Alive)

\* A delay test says what it should of every member, and of a mihomo revived.
TestsAnswer == MembersAnswered /\ Healed

\* Streams, polls and delay tests get on, and all of them end with the program.
AllGetOn == BackgroundEnds /\ StaysLive /\ TestsFinish
=============================================================================
