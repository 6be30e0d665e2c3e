--------------------------- MODULE ControllerProofs ---------------------------
(***************************************************************************)
(* What holds of the terminal UI's background for any streams, polls,      *)
(* channels' sizes, groups and members, and any number of readers and of   *)
(* delay tests: a goroutine that no loop reads from has been cancelled,    *)
(* and a delay test speaks of exactly the group's members.                 *)
(***************************************************************************)
EXTENDS Controller, TLAPS

Places    == {"top", "select", "send", "backoff", "done", "call", "wait", "scan", "delay", "check"}
ReaderRec == [at : {"dial", "read", "push", "ended", "stuck", "open"},
              out : 0 .. Capacity, err : BOOLEAN, cut : BOOLEAN]
Said      == [kind : {"none", "error", "results"}, of : SUBSET Member]
TestRec   == [at : {"idle", "auto", "direct", "members", "probe", "apply"},
              healed : BOOLEAN, busy : SUBSET Member, chan : SUBSET Member, said : Said]

-----------------------------------------------------------------------------
(* The readers.                                                            *)

\* A reader's step changes its own record, and never whether it is cancelled.
LEMMA ReaderSteps ==
    ASSUME StreamsOK, StreamsTypeOK, NEW s \in Slot, ReaderStep(s)
    PROVE  /\ \E r \in ReaderRec : r.cut = reader[s].cut /\ reader' = [reader EXCEPT ![s] = r]
           /\ reader[s].at # "ended"
           /\ UNCHANGED <<prog, up, pc, slot, child>>
<1> DEFINE R == reader[s]
<1>1. R \in ReaderRec /\ R.out \in Nat /\ Capacity \in Nat
  BY DEF StreamsTypeOK, ReaderRec, StreamsOK
<1>2. reader \in [Slot -> ReaderRec]
  BY DEF StreamsTypeOK, ReaderRec
<1>3. UNCHANGED <<prog, up, pc, slot, child>>
  BY DEF ReaderStep
<1>4. ASSUME NEW f \in BOOLEAN, Leave(s, f)
      PROVE  \E r \in ReaderRec : r.cut = R.cut /\ reader' = [reader EXCEPT ![s] = r]
  <2> DEFINE r == [R EXCEPT !.at = "ended", !.err = f]
  <2>1. r \in ReaderRec /\ r.cut = R.cut
    BY <1>1 DEF ReaderRec
  <2>2. reader' = [reader EXCEPT ![s] = r]
    BY <1>2, <1>4 DEF Leave
  <2> QED  BY <2>1, <2>2
<1>5. CASE Dial(s)
  <2>1. CASE reader' = [reader EXCEPT ![s].at = "read"]
    <3> DEFINE r == [R EXCEPT !.at = "read"]
    <3>1. r \in ReaderRec /\ r.cut = R.cut
      BY <1>1 DEF ReaderRec
    <3>2. reader' = [reader EXCEPT ![s] = r]
      BY <1>2, <2>1
    <3> QED  BY <1>3, <1>5, <3>1, <3>2 DEF Dial
  <2> QED  BY <1>3, <1>4, <1>5, <2>1 DEF Dial
<1>6. CASE Read(s)
  <2>1. CASE reader' = [reader EXCEPT ![s].at = "push"]
    <3> DEFINE r == [R EXCEPT !.at = "push"]
    <3>1. r \in ReaderRec /\ r.cut = R.cut
      BY <1>1 DEF ReaderRec
    <3>2. reader' = [reader EXCEPT ![s] = r]
      BY <1>2, <2>1
    <3> QED  BY <1>3, <1>6, <3>1, <3>2 DEF Read
  <2> QED  BY <1>3, <1>4, <1>6, <2>1 DEF Read
<1>7. CASE Push(s)
  <2>1. CASE R.out < Capacity /\ reader' = [reader EXCEPT ![s].at = "read", ![s].out = @ + 1]
    <3> DEFINE r == [R EXCEPT !.at = "read", !.out = @ + 1]
    <3>1. R.out + 1 \in 0 .. Capacity
      BY <1>1, <2>1
    <3>2. r \in ReaderRec /\ r.cut = R.cut
      BY <1>1, <3>1 DEF ReaderRec
    <3>3. reader' = [reader EXCEPT ![s] = r]
      BY <1>2, <2>1
    <3> QED  BY <1>3, <1>7, <3>2, <3>3 DEF Push
  <2> QED  BY <1>3, <1>4, <1>7, <2>1 DEF Push
<1> QED  BY <1>5, <1>6, <1>7 DEF ReaderStep

\* What a loop may do to the readers: nothing; take one of its samples; cancel
\* its own and let go of it; or take a new one that nobody has.
Keeps(l)  == UNCHANGED <<slot, reader>> /\ (l \in Streams => pc[l] \notin {"select", "send"}
                                                         /\ pc'[l] \notin {"select", "send"})
Passes(l) == l \in Streams /\ pc[l] = "send" /\ pc'[l] = "select" /\ UNCHANGED <<slot, reader>>
Takes(l)  == /\ l \in Streams /\ pc[l] = "select" /\ pc'[l] = "send" /\ UNCHANGED slot
             /\ reader[slot[l]].out > 0
             /\ reader' = [reader EXCEPT ![slot[l]].out = @ - 1]
Drops(l)  == /\ l \in Streams /\ pc[l] = "select" /\ pc'[l] \in {"backoff", "done"}
             /\ slot' = [slot EXCEPT ![l] = 0]
             /\ reader' = [reader EXCEPT ![slot[l]].cut = TRUE]
Opens(l)  == /\ l \in Streams /\ pc[l] = "top" /\ pc'[l] = "select"
             /\ \E s \in Unused : /\ slot' = [slot EXCEPT ![l] = s]
                                  /\ reader' = [reader EXCEPT ![s] = Fresh]

\* Every step of a loop is one of these, and moves that loop alone.
LEMMA LoopSteps ==
    ASSUME StreamsOK, StreamsTypeOK, NEW l \in Loop, LoopStep(l)
    PROVE  /\ Keeps(l) \/ Passes(l) \/ Takes(l) \/ Drops(l) \/ Opens(l)
           /\ \E to \in Places : pc' = [pc EXCEPT ![l] = to]
           /\ child' \in BOOLEAN /\ UNCHANGED <<prog, up>>
<1>1. pc \in [Loop -> Places] /\ child \in BOOLEAN
  BY DEF StreamsTypeOK, Places
<1>2. \A to : Goes(l, to) => pc' = [pc EXCEPT ![l] = to] /\ pc'[l] = to
  BY <1>1 DEF Goes
<1>3. \A k \in Streams : k \notin Polls /\ k # "logs" /\ k # "update"
  BY DEF StreamsOK
<1>4. \A k \in Polls : k # "logs" /\ k # "update"
  BY DEF StreamsOK
<1>5. UNCHANGED <<prog, up>>
  BY DEF LoopStep
<1>6. CASE Send(l)
  <2>1. CASE l \in Streams
    <3>1. AfterSend(l) = "select"
      BY <1>3, <2>1 DEF AfterSend
    <3> QED  BY <1>1, <1>2, <1>5, <1>6, <2>1, <3>1 DEF Send, Passes, Places
  <2>2. CASE l \notin Streams
    <3>1. AfterSend(l) \in Places
      BY <1>4, <2>2 DEF AfterSend, Places, Loop
    <3> QED  BY <1>1, <1>2, <1>5, <1>6, <2>2, <3>1 DEF Send, Keeps
  <2> QED  BY <2>1, <2>2
<1>7. CASE Pause(l)
  BY <1>1, <1>2, <1>5, <1>7 DEF Pause, Keeps, Places
<1>8. CASE Open(l)
  BY <1>1, <1>2, <1>5, <1>8 DEF Open, Keeps, Opens, Places
<1>9. CASE Select(l)
  <2>1. CASE Goes(l, "send") /\ reader[slot[l]].out > 0
    BY <1>1, <1>2, <1>5, <1>9, <2>1 DEF Select, Takes, Places, LetGo
  <2>2. CASE LetGo(l, "backoff") \/ LetGo(l, "done")
    BY <1>1, <1>2, <1>5, <1>9, <2>2 DEF Select, Drops, Places, LetGo
  <2> QED  BY <1>9, <2>1, <2>2 DEF Select
<1>10. CASE Poll(l)
  BY <1>1, <1>2, <1>3, <1>5, <1>10 DEF Poll, Keeps, Places
<1>11. CASE l = "logs" /\ (OpenLogs \/ Scan)
  BY <1>1, <1>2, <1>3, <1>5, <1>11 DEF OpenLogs, Scan, Keeps, Places
<1>12. CASE l = "update" /\ Update
  BY <1>1, <1>2, <1>3, <1>5, <1>12 DEF Update, Keeps, Places
<1> QED  BY <1>6, <1>7, <1>8, <1>9, <1>10, <1>11, <1>12 DEF LoopStep, Step

-----------------------------------------------------------------------------
(* Delay tests.                                                            *)

\* What a step of a test may do to it: go on, with nothing collected; wait for
\* the members; have another member's answer; or end, with what it says.
Goals(t, at) == /\ test[t].at \in {"auto", "direct", "members"} /\ at \in {"direct", "members", "apply"}
                /\ test' = [test EXCEPT ![t].at = at] /\ UNCHANGED up
Probes(t)    == /\ test[t].at = "members" /\ UNCHANGED up
                /\ test' = [test EXCEPT ![t].at = "probe", ![t].busy = group.members]
Answers(t)   == \E m \in Member :
                   /\ test[t].at = "probe" /\ m \in test[t].busy /\ UNCHANGED up
                   /\ test' = [test EXCEPT ![t].busy = @ \ {m}, ![t].chan = @ \union {m}]
Heals(t)     == /\ test[t].at = "apply" /\ up' = TRUE
                /\ test' = [test EXCEPT ![t].at = "auto", ![t].healed = TRUE]
Tells(t)     == \E what \in Said :
                   /\ test[t].at # "idle" /\ UNCHANGED up
                   /\ test' = [test EXCEPT ![t] = [Idle EXCEPT !.said = what]]
                   /\ \/ what = Failed /\ (calm /\ group.known => ~up /\ test[t].healed)
                      \/ what = Results(group.members)
                      \/ test[t].at = "probe" /\ test[t].busy = {} /\ what = Results(test[t].chan)

\* A test waits only for members that it has not collected; it has collected
\* something only while it waits; and of a mihomo revived by it, all is well.
Asking ==
    /\ \A t \in Tests : test[t].at # "idle" => group # NoGroup
    /\ \A t \in Tests : IF test[t].at = "probe"
                        THEN test[t].busy \union test[t].chan = group.members
                        ELSE test[t].chan = {}
    /\ \A t \in Tests : test[t].said.kind = "results" => test[t].said.of = group.members
    /\ calm => \A t \in Tests : test[t].healed => up
    /\ calm /\ group # NoGroup /\ group.known => \A t \in Tests : test[t].said.kind # "error"

\* Every step of a test is one of these.
LEMMA TestSteps ==
    ASSUME MeasureTypeOK, Asking, NEW t \in Tests, Command(t)
    PROVE  /\ \/ \E at \in {"direct", "members", "apply"} : Goals(t, at)
              \/ Probes(t) \/ Answers(t) \/ Heals(t) \/ Tells(t)
           /\ group # NoGroup
           /\ UNCHANGED <<prog, loopVars, group, calm>>
<1>1. UNCHANGED <<prog, loopVars, group, calm>>
  BY DEF Command
<1>2. test[t] \in TestRec /\ group \in Groups \union {NoGroup}
  BY DEF MeasureTypeOK, TestRec, Said
<1>3. test[t].at # "idle"
  BY DEF Command, TestStep
<1>4. group \in Groups /\ group # NoGroup
  BY <1>2, <1>3 DEF Asking
<1>5. Failed \in Said /\ Results(group.members) \in Said /\ Results({}) \in Said /\ Results(test[t].chan) \in Said
  BY <1>2, <1>4 DEF Failed, Results, Said, Groups, TestRec
<1>6. ASSUME Unreachable(t), ~up, test[t].at \in {"auto", "direct", "members"}
      PROVE  Goals(t, "apply") \/ Tells(t)
  <2>1. CASE test[t].healed
    BY <1>3, <1>5, <1>6, <2>1 DEF Unreachable, Says, Tells
  <2>2. CASE ~test[t].healed
    BY <1>6, <2>2 DEF Unreachable, Moves, Goals
  <2> QED  BY <2>1, <2>2
<1>7. ASSUME Errs(t)  PROVE Tells(t)
  BY <1>3, <1>5, <1>7 DEF Errs, Says, Tells
<1>8. ASSUME NEW here, NEW next \in {"direct", "members"}, Ask(t, here, next),
             test[t].at \in {"auto", "direct"}
      PROVE  Goals(t, "apply") \/ Goals(t, next) \/ Tells(t)
  <2>1. CASE ~up
    BY <1>6, <1>8, <2>1 DEF Ask
  <2>2. CASE Says(t, Results(group.members))
    BY <1>3, <1>5, <2>2 DEF Says, Tells
  <2>3. CASE Moves(t, next)
    BY <1>8, <2>3 DEF Moves, Goals
  <2> QED  BY <1>7, <1>8, <2>1, <2>2, <2>3 DEF Ask
<1>9. ASSUME List(t), test[t].at = "members"
      PROVE  Goals(t, "apply") \/ Probes(t) \/ Tells(t)
  <2>1. CASE ~up
    BY <1>6, <1>9, <2>1 DEF List
  <2>2. CASE ~group.known /\ Says(t, Failed)
    BY <1>3, <1>5, <2>2 DEF Says, Tells
  <2>3. CASE group.members = {} /\ Says(t, Results({}))
    BY <1>3, <1>5, <2>3 DEF Says, Tells
  <2>4. CASE UNCHANGED up /\ test' = [test EXCEPT ![t].at = "probe", ![t].busy = group.members]
    BY <1>9, <2>4 DEF Probes
  <2> QED  BY <1>7, <1>9, <2>1, <2>2, <2>3, <2>4 DEF List
<1>10. CASE test[t].at = "auto" /\ Ask(t, group.auto, "direct")
  BY <1>1, <1>4, <1>8, <1>10
<1>11. CASE test[t].at = "direct" /\ Ask(t, group.direct, "members")
  BY <1>1, <1>4, <1>8, <1>11
<1>12. CASE test[t].at = "members" /\ List(t)
  BY <1>1, <1>4, <1>9, <1>12
<1>13. CASE test[t].at = "probe" /\ Collect(t)
  BY <1>1, <1>3, <1>4, <1>5, <1>13 DEF Collect, Says, Tells
<1>14. CASE test[t].at = "apply" /\ Apply(t)
  BY <1>1, <1>4, <1>7, <1>14 DEF Apply, Heals
<1>15. CASE \E m \in Member : test[t].at = "probe" /\ Probe(t, m)
  BY <1>1, <1>4, <1>15 DEF Probe, Answers
<1> QED  BY <1>10, <1>11, <1>12, <1>13, <1>14, <1>15 DEF Command, TestStep

-----------------------------------------------------------------------------
(* Type correctness.                                                       *)

\* Readers, loops and tests are of their types, whatever step is taken.
LEMMA TypePreserved ==
    ASSUME StreamsOK, TypeOK, Asking, [Next]_vars
    PROVE  TypeOK'
<1>0. StreamsTypeOK /\ MeasureTypeOK
  BY DEF TypeOK
<1>1. ASSUME UNCHANGED <<prog, loopVars>>, up' \in BOOLEAN  PROVE StreamsTypeOK'
  BY <1>0, <1>1 DEF StreamsTypeOK, loopVars
<1>2. ASSUME UNCHANGED testVars, up' \in BOOLEAN  PROVE MeasureTypeOK'
  BY <1>0, <1>2 DEF MeasureTypeOK, testVars
<1>3. up \in BOOLEAN /\ reader \in [Slot -> ReaderRec] /\ test \in [Tests -> TestRec]
  BY <1>0 DEF StreamsTypeOK, MeasureTypeOK, ReaderRec, TestRec, Said
<1>4. ASSUME NEW s \in Slot, ReaderStep(s)  PROVE StreamsTypeOK' /\ UNCHANGED up
  <2>1. PICK r \in ReaderRec : reader' = [reader EXCEPT ![s] = r]
    BY <1>0, <1>4, ReaderSteps
  <2>2. reader' \in [Slot -> ReaderRec]
    BY <1>3, <2>1
  <2>3. UNCHANGED <<prog, up, pc, slot, child>>
    BY <1>0, <1>4, ReaderSteps
  <2> QED  BY <1>0, <2>2, <2>3 DEF StreamsTypeOK, ReaderRec
<1>5. ASSUME NEW l \in Loop, LoopStep(l)  PROVE StreamsTypeOK' /\ UNCHANGED up
  <2>1. PICK to \in Places : pc' = [pc EXCEPT ![l] = to]
    BY <1>0, <1>5, LoopSteps
  <2>2. child' \in BOOLEAN /\ UNCHANGED <<prog, up>>
    BY <1>0, <1>5, LoopSteps
  <2>3. pc' \in [Loop -> Places]
    BY <1>0, <2>1 DEF StreamsTypeOK, Places
  <2>4. slot \in [Streams -> 0 .. Readers] /\ Slot \subseteq 0 .. Readers /\ Slot = 1 .. Readers /\ 0 \in 0 .. Readers
    BY <1>0 DEF StreamsTypeOK, StreamsOK, Slot
  <2>5. slot' \in [Streams -> 0 .. Readers] /\ reader' \in [Slot -> ReaderRec]
    <3>1. CASE Keeps(l) \/ Passes(l)
      BY <1>3, <2>4, <3>1 DEF Keeps, Passes
    <3>2. CASE Takes(l)
      <4>1. slot[l] \in Slot => [reader[slot[l]] EXCEPT !.out = @ - 1] \in ReaderRec
        BY <1>3, <3>2 DEF Takes, ReaderRec, StreamsOK
      <4>2. slot[l] \in Slot =>
               reader' = [reader EXCEPT ![slot[l]] = [reader[slot[l]] EXCEPT !.out = @ - 1]]
        BY <1>3, <3>2 DEF Takes
      <4>3. slot[l] \notin Slot => reader' = reader
        BY <1>3, <3>2 DEF Takes
      <4>4. reader' \in [Slot -> ReaderRec]
        BY <1>3, <4>1, <4>2, <4>3
      <4> QED  BY <2>4, <3>2, <4>4 DEF Takes
    <3>3. CASE Drops(l)
      <4>1. slot[l] \in Slot => [reader[slot[l]] EXCEPT !.cut = TRUE] \in ReaderRec
        BY <1>3 DEF ReaderRec
      <4>2. slot[l] \in Slot =>
               reader' = [reader EXCEPT ![slot[l]] = [reader[slot[l]] EXCEPT !.cut = TRUE]]
        BY <1>3, <3>3 DEF Drops
      <4>3. slot[l] \notin Slot => reader' = reader
        BY <1>3, <3>3 DEF Drops
      <4>4. reader' \in [Slot -> ReaderRec]
        BY <1>3, <4>1, <4>2, <4>3
      <4> QED  BY <2>4, <3>3, <4>4 DEF Drops
    <3>4. CASE Opens(l)
      <4>1. Fresh \in ReaderRec
        BY DEF Fresh, ReaderRec, StreamsOK
      <4> QED  BY <1>3, <2>4, <3>4, <4>1 DEF Opens, Unused
    <3> QED  BY <1>0, <1>5, <3>1, <3>2, <3>3, <3>4, LoopSteps
  <2> QED  BY <1>0, <2>2, <2>3, <2>5 DEF StreamsTypeOK, Places, ReaderRec
<1>6. ASSUME NEW t \in Tests, NEW r \in TestRec, test' = [test EXCEPT ![t] = r],
             UNCHANGED <<group, calm>>, up' \in BOOLEAN
      PROVE  MeasureTypeOK'
  <2>1. test' \in [Tests -> TestRec]
    BY <1>3, <1>6
  <2> QED  BY <1>0, <1>6, <2>1 DEF MeasureTypeOK, TestRec, Said
<1>7. NotRun \in Said /\ Idle \in TestRec
  BY DEF NotRun, Idle, TestRec, Said
<1>8. ASSUME NEW t \in Tests, Press(t)  PROVE TypeOK'
  <2>1. [Idle EXCEPT !.at = "auto"] \in TestRec
    BY <1>7 DEF TestRec
  <2>2. MeasureTypeOK'
    BY <1>3, <1>6, <1>8, <2>1 DEF Press, Begin
  <2> QED  BY <1>1, <1>3, <1>8, <2>2 DEF Press, Begin, TypeOK
<1>9. ASSUME NEW t \in Tests, Command(t)  PROVE TypeOK'
  <2>0. test[t] \in TestRec
    BY <1>3
  <2>1. UNCHANGED <<prog, loopVars, group, calm>> /\ group \in Groups
    BY <1>0, <1>9, TestSteps DEF MeasureTypeOK
  <2>2. up' \in BOOLEAN
    BY <1>0, <1>3, <1>9, TestSteps DEF Goals, Probes, Answers, Heals, Tells
  <2>3. \E r \in TestRec : test' = [test EXCEPT ![t] = r]
    <3>1. ASSUME NEW at \in {"direct", "members", "apply"}, Goals(t, at)
          PROVE  \E r \in TestRec : test' = [test EXCEPT ![t] = r]
      <4>1. [test[t] EXCEPT !.at = at] \in TestRec
        BY <2>0 DEF TestRec
      <4>2. test' = [test EXCEPT ![t] = [test[t] EXCEPT !.at = at]]
        BY <1>3, <3>1 DEF Goals
      <4> QED  BY <4>1, <4>2
    <3>2. CASE Probes(t)
      <4>1. [test[t] EXCEPT !.at = "probe", !.busy = group.members] \in TestRec
        BY <2>0, <2>1 DEF TestRec, Groups
      <4>2. test' = [test EXCEPT ![t] = [test[t] EXCEPT !.at = "probe", !.busy = group.members]]
        BY <1>3, <3>2 DEF Probes
      <4> QED  BY <4>1, <4>2
    <3>3. CASE Answers(t)
      <4>1. PICK m \in Member :
               test' = [test EXCEPT ![t].busy = @ \ {m}, ![t].chan = @ \union {m}]
        BY <3>3 DEF Answers
      <4>2. [test[t] EXCEPT !.busy = @ \ {m}, !.chan = @ \union {m}] \in TestRec
        BY <2>0 DEF TestRec
      <4>3. test' = [test EXCEPT ![t] = [test[t] EXCEPT !.busy = @ \ {m}, !.chan = @ \union {m}]]
        BY <1>3, <4>1
      <4> QED  BY <4>2, <4>3
    <3>4. CASE Heals(t)
      <4>1. [test[t] EXCEPT !.at = "auto", !.healed = TRUE] \in TestRec
        BY <2>0 DEF TestRec
      <4>2. test' = [test EXCEPT ![t] = [test[t] EXCEPT !.at = "auto", !.healed = TRUE]]
        BY <1>3, <3>4 DEF Heals
      <4> QED  BY <4>1, <4>2
    <3>5. CASE Tells(t)
      <4>1. \A what \in Said : [Idle EXCEPT !.said = what] \in TestRec
        BY <1>7 DEF TestRec
      <4> QED  BY <3>5, <4>1 DEF Tells
    <3> QED  BY <1>0, <1>9, <3>1, <3>2, <3>3, <3>4, <3>5, TestSteps
  <2> QED  BY <1>1, <1>6, <2>1, <2>2, <2>3 DEF TypeOK
<1>10. CASE StreamsNext /\ UNCHANGED testVars
  <2>1. CASE (\E s \in Slot : ReaderStep(s)) \/ (\E l \in Loop : LoopStep(l))
    BY <1>2, <1>3, <1>4, <1>5, <1>10, <2>1 DEF TypeOK
  <2>2. CASE ChildStep \/ (Alive /\ LogsEnd /\ UNCHANGED <<prog, up>>) \/ Quit \/ Shutdown \/ Exit
    <3>1. StreamsTypeOK' /\ UNCHANGED up
      BY <1>0, <2>2 DEF ChildStep, Kill, LogsEnd, Quit, Shutdown, Exit, loopVars, StreamsTypeOK
    <3> QED  BY <1>2, <1>3, <1>10, <3>1 DEF TypeOK
  <2> QED  BY <1>10, <2>1, <2>2 DEF StreamsNext
<1>11. CASE MihomoDies \/ MihomoComes \/ UNCHANGED vars
  BY <1>1, <1>2, <1>3, <1>11 DEF MihomoDies, MihomoComes, vars, loopVars, testVars, TypeOK
<1> QED  BY <1>8, <1>9, <1>10, <1>11 DEF Next

\* The tests' invariant holds at first and is kept by every step.
LEMMA AskingInit == Init => Asking
<1> SUFFICES ASSUME Init PROVE Asking
  OBVIOUS
<1>1. test = [t \in Tests |-> Idle]
  BY DEF Init, MeasureInit
<1>2. Idle.at = "idle" /\ Idle.chan = {} /\ Idle.said.kind = "none" /\ Idle.healed = FALSE
  BY DEF Idle, NotRun
<1> QED  BY <1>1, <1>2 DEF Asking

\* No step of a stream, a poll, a test or mihomo disturbs Asking.
LEMMA AskingPreserved ==
    ASSUME TypeOK, Asking, [Next]_vars
    PROVE  Asking'
<1>1. test \in [Tests -> TestRec] /\ MeasureTypeOK /\ up \in BOOLEAN
  BY DEF TypeOK, MeasureTypeOK, TestRec, Said
<1>2. Idle.at = "idle" /\ Idle.chan = {} /\ Idle.said.kind = "none" /\ Idle.healed = FALSE
  BY DEF Idle, NotRun
<1>3. ASSUME UNCHANGED testVars, calm /\ up => up'  PROVE Asking'
  BY <1>3 DEF Asking, testVars
<1>3a. ASSUME NEW t \in Tests, UNCHANGED <<group, calm>>, group # NoGroup,
             \A u \in Tests : u # t => test'[u] = test[u],
             IF test'[t].at = "probe" THEN test'[t].busy \union test'[t].chan = group.members
                                      ELSE test'[t].chan = {},
             test'[t].said.kind = "results" => test'[t].said.of = group.members,
             calm => (test'[t].healed => up') /\ (up => up'),
             calm /\ group.known => test'[t].said.kind # "error"
      PROVE  Asking'
  <2>1. /\ \A u \in Tests : IF test'[u].at = "probe"
                              THEN test'[u].busy \union test'[u].chan = group'.members
                              ELSE test'[u].chan = {}
        /\ \A u \in Tests : test'[u].said.kind = "results" => test'[u].said.of = group'.members
    BY <1>3a DEF Asking
  <2>2. calm' => \A u \in Tests : test'[u].healed => up'
    BY <1>3a DEF Asking
  <2>3. calm' /\ group'.known => \A u \in Tests : test'[u].said.kind # "error"
    BY <1>3a DEF Asking
  <2> QED  BY <1>3a, <2>1, <2>2, <2>3 DEF Asking
<1>4. ASSUME NEW t \in Tests, Press(t)  PROVE Asking'
  <2> DEFINE new == [Idle EXCEPT !.at = "auto"]
  <2>1. test' = [test EXCEPT ![t] = new] /\ UNCHANGED <<up, group, calm>> /\ group # NoGroup
    BY <1>4 DEF Press, Begin
  <2>2. new.at = "auto" /\ new.chan = {} /\ new.said.kind = "none" /\ new.healed = FALSE
    BY DEF Idle, NotRun
  <2> HIDE DEF new
  <2> QED  BY <1>1, <2>1, <2>2 DEF Asking
<1>5. ASSUME NEW t \in Tests, Command(t)  PROVE Asking'
  <2>1. UNCHANGED <<group, calm>> /\ group # NoGroup
    BY <1>1, <1>5, TestSteps
  <2>2. test[t] \in TestRec
    BY <1>1
  <2>3. ASSUME NEW at \in {"direct", "members", "apply"}, Goals(t, at)  PROVE Asking'
    <3>1. test'[t].at = at /\ test'[t].chan = test[t].chan /\ test'[t].said = test[t].said
          /\ test'[t].healed = test[t].healed
      BY <1>1, <2>2, <2>3 DEF Goals, TestRec
    <3>2. \A u \in Tests : u # t => test'[u] = test[u]
      BY <1>1, <2>3 DEF Goals
    <3> QED  BY <1>3a, <2>1, <2>3, <3>1, <3>2 DEF Goals, Asking
  <2>4. CASE Probes(t)
    <3>1. test'[t].at = "probe" /\ test'[t].chan = test[t].chan /\ test'[t].said = test[t].said
          /\ test'[t].healed = test[t].healed /\ test'[t].busy = group.members
      BY <1>1, <2>2, <2>4 DEF Probes, TestRec
    <3>2. \A u \in Tests : u # t => test'[u] = test[u]
      BY <1>1, <2>4 DEF Probes
    <3>3. test[t].chan = {}
      BY <2>4 DEF Probes, Asking
    <3>4. test'[t].busy \union test'[t].chan = group.members
      BY <3>1, <3>3
    <3>5. /\ test[t].said.kind = "results" => test[t].said.of = group.members
          /\ calm => (test[t].healed => up)
          /\ calm /\ group.known => test[t].said.kind # "error"
      BY <2>1 DEF Asking
    <3>6. UNCHANGED up
      BY <2>4 DEF Probes
    <3> QED  BY <1>3a, <2>1, <3>1, <3>2, <3>4, <3>5, <3>6
  <2>5. CASE Answers(t)
    <3>1. PICK m \in Member :
             /\ test[t].at = "probe" /\ m \in test[t].busy /\ UNCHANGED up
             /\ test' = [test EXCEPT ![t].busy = @ \ {m}, ![t].chan = @ \union {m}]
      BY <2>5 DEF Answers
    <3>2. test'[t].at = "probe" /\ test'[t].said = test[t].said /\ test'[t].healed = test[t].healed
          /\ test'[t].busy = test[t].busy \ {m} /\ test'[t].chan = test[t].chan \union {m}
      BY <1>1, <2>2, <3>1 DEF TestRec
    <3>3. \A u \in Tests : u # t => test'[u] = test[u]
      BY <1>1, <3>1
    <3>4. test'[t].busy \union test'[t].chan = test[t].busy \union test[t].chan
      BY <3>1, <3>2
    <3>5. test[t].busy \union test[t].chan = group.members
      BY <3>1 DEF Asking
    <3>6. /\ test[t].said.kind = "results" => test[t].said.of = group.members
          /\ calm => (test[t].healed => up)
          /\ calm /\ group.known => test[t].said.kind # "error"
      BY <2>1 DEF Asking
    <3> QED  BY <1>3a, <2>1, <3>1, <3>2, <3>3, <3>4, <3>5, <3>6
  <2>6. CASE Heals(t)
    <3>1. test'[t].at = "auto" /\ test'[t].chan = test[t].chan /\ test'[t].said = test[t].said
          /\ test'[t].healed = TRUE /\ up' = TRUE
      BY <1>1, <2>2, <2>6 DEF Heals, TestRec
    <3>2. \A u \in Tests : u # t => test'[u] = test[u]
      BY <1>1, <2>6 DEF Heals
    <3>3. test[t].chan = {}
      BY <2>6 DEF Heals, Asking
    <3> QED  BY <2>1, <3>1, <3>2, <3>3 DEF Asking
  <2>7. CASE Tells(t)
    <3>1. PICK what \in Said :
             /\ UNCHANGED up
             /\ test' = [test EXCEPT ![t] = [Idle EXCEPT !.said = what]]
             /\ \/ what = Failed /\ (calm /\ group.known => ~up /\ test[t].healed)
                \/ what = Results(group.members)
                \/ test[t].at = "probe" /\ test[t].busy = {} /\ what = Results(test[t].chan)
      BY <2>7 DEF Tells
    <3> DEFINE new == [Idle EXCEPT !.said = what]
    <3>2. new.at = "idle" /\ new.chan = {} /\ new.said = what /\ new.healed = FALSE
      BY DEF Idle
    <3>3. test' = [test EXCEPT ![t] = new]
      BY <3>1
    <3> HIDE DEF new
    <3>4. test'[t] = new /\ \A u \in Tests : u # t => test'[u] = test[u]
      BY <1>1, <3>3
    <3>5. test[t].at = "probe" /\ test[t].busy = {} => test[t].chan = group.members
      <4>1. test[t].at = "probe" => test[t].busy \union test[t].chan = group.members
        BY DEF Asking
      <4> QED  BY <4>1
    <3>6. what.kind = "results" => what.of = group.members
      BY <3>1, <3>5 DEF Failed, Results
    <3>7. calm /\ group.known => what.kind # "error"
      BY <3>1 DEF Failed, Results, Asking
    <3> QED  BY <2>1, <3>1, <3>2, <3>4, <3>6, <3>7 DEF Asking
  <2> QED  BY <1>1, <1>5, <2>3, <2>4, <2>5, <2>6, <2>7, TestSteps
<1>6. CASE StreamsNext /\ UNCHANGED testVars
  <2>1. UNCHANGED up
    BY <1>6 DEF StreamsNext, ReaderStep, LoopStep, ChildStep, Quit, Shutdown, Exit
  <2> QED  BY <1>3, <1>6, <2>1
<1>7. CASE MihomoDies \/ MihomoComes \/ UNCHANGED vars
  BY <1>3, <1>7 DEF MihomoDies, MihomoComes, vars
<1> QED  BY <1>4, <1>5, <1>6, <1>7 DEF Next

\* The first state is of its type.
LEMMA TypeInit == ASSUME StreamsOK, UsedOK, Init PROVE TypeOK
<1>1. PICK u \in Used : StreamsInit(u.loops) /\ group \in u.groups
  BY DEF Init
<1>2. group \in Groups \union {NoGroup}
  BY <1>1 DEF UsedOK
<1>3. MeasureTypeOK
  BY <1>1, <1>2 DEF Init, MeasureInit, MeasureTypeOK, StreamsInit, Idle, NotRun
<1>4. StreamsTypeOK
  <2>1. Ended \in ReaderRec
    BY DEF Ended, ReaderRec, StreamsOK
  <2>2. reader \in [Slot -> ReaderRec]
    BY <1>1, <2>1 DEF StreamsInit
  <2>3. slot \in [Streams -> 0 .. Readers]
    BY <1>1 DEF StreamsInit, StreamsOK
  <2>4. pc \in [Loop -> Places]
    BY <1>1 DEF StreamsInit, Places
  <2> QED  BY <1>1, <2>2, <2>3, <2>4 DEF StreamsInit, StreamsTypeOK, ReaderRec, Places
<1> QED  BY <1>3, <1>4 DEF TypeOK

\* The types of all that runs in the background, for any number of streams,
\* polls, tests, readers and members.
THEOREM TypeCorrect == Spec => [](TypeOK /\ Asking)
<1> USE StreamsOK, UsedOK
<1>1. Init => TypeOK /\ Asking
  BY TypeInit, AskingInit
<1>2. TypeOK /\ Asking /\ [Next]_vars => (TypeOK /\ Asking)'
  BY TypePreserved, AskingPreserved
<1> QED  BY <1>1, <1>2, PTL DEF Spec

\* A delay test's results speak of all members of the group and of nothing
\* else, and a test of a mihomo that is only down comes to results
\* (MeasureGroup, update.go).
THEOREM TestsAreSound == Spec => []TestsAnswer
<1>1. Asking => TestsAnswer
  BY DEF Asking, TestsAnswer, MembersAnswered, Healed
<1> QED  BY <1>1, TypeCorrect, PTL

-----------------------------------------------------------------------------
(* The readers' owners.                                                    *)

\* A loop that has a reader is at one of two places, and has none elsewhere.
Owned ==
    /\ ReadersOwned
    /\ \A l \in Streams : pc[l] \notin {"select", "send"} => slot[l] = 0

\* At first no loop has a reader, and none runs.
LEMMA OwnedInit == ASSUME StreamsOK, Init PROVE Owned
<1>1. PICK u \in Used : StreamsInit(u.loops)
  BY DEF Init
<1>2. \A l \in Streams : l \in Loop /\ l \notin Polls /\ l # "update"
  BY DEF StreamsOK, Loop
<1>3. \A l \in Streams : slot[l] = 0 /\ pc[l] \in {"done", "top"}
  BY <1>1, <1>2 DEF StreamsInit
<1>4. \A s \in Slot : reader[s].at = "ended"
  BY <1>1 DEF StreamsInit, Ended
<1> QED  BY <1>3, <1>4 DEF Owned, ReadersOwned

\* A reader stays with the loop that opened it until it is cancelled.
LEMMA OwnedPreserved ==
    ASSUME StreamsOK, TypeOK, Owned, [Next]_vars
    PROVE  Owned'
<1>0. StreamsTypeOK /\ \A l \in Streams : l \in Loop
  BY DEF TypeOK, Loop
<1>1. /\ reader \in [Slot -> ReaderRec] /\ slot \in [Streams -> 0 .. Readers] /\ pc \in [Loop -> Places]
      /\ Slot = {s \in 0 .. Readers : s # 0} /\ 0 \notin Slot
  BY <1>0 DEF StreamsTypeOK, ReaderRec, Places, Slot, StreamsOK
<1>2. ASSUME UNCHANGED <<pc, slot, reader>>  PROVE Owned'
  BY <1>2 DEF Owned, ReadersOwned
<1>3. ASSUME NEW s \in Slot, ReaderStep(s)  PROVE Owned'
  <2>1. PICK r \in ReaderRec : r.cut = reader[s].cut /\ reader' = [reader EXCEPT ![s] = r]
    BY <1>0, <1>3, ReaderSteps
  <2>2. UNCHANGED <<pc, slot>> /\ reader[s].at # "ended"
    BY <1>0, <1>3, ReaderSteps
  <2>3. \A q \in Slot : reader'[q].cut = reader[q].cut /\ (q # s => reader'[q] = reader[q])
    BY <1>1, <2>1
  <2>4. \A l \in Streams : slot[l] # 0 => slot[l] \in Slot
    BY <1>1
  <2> QED  BY <2>2, <2>3, <2>4 DEF Owned, ReadersOwned
<1>4. ASSUME NEW l \in Loop, LoopStep(l)  PROVE Owned'
  <2>1. PICK to \in Places : pc' = [pc EXCEPT ![l] = to]
    BY <1>0, <1>4, LoopSteps
  <2>2. pc'[l] = to /\ \A k \in Loop : k # l => pc'[k] = pc[k]
    BY <1>1, <2>1
  <2>3. \A k \in Streams : slot[k] # 0 => slot[k] \in Slot
    BY <1>1
  <2>4. CASE Keeps(l)
    BY <1>0, <2>2, <2>4 DEF Keeps, Owned, ReadersOwned
  <2>5. CASE Passes(l)
    BY <1>0, <2>2, <2>5 DEF Passes, Owned, ReadersOwned
  <2>6. CASE Takes(l)
    <3>1. \A q \in Slot : reader'[q].cut = reader[q].cut /\ reader'[q].at = reader[q].at
      BY <1>1, <2>6 DEF Takes, ReaderRec
    <3> QED  BY <1>0, <2>2, <2>3, <2>6, <3>1 DEF Takes, Owned, ReadersOwned
  <2>7. CASE Drops(l)
    <3>1. slot[l] \in Slot /\ l \in Streams
      BY <2>3, <2>7 DEF Drops, Owned, ReadersOwned
    <3>2. reader'[slot[l]].cut /\ \A q \in Slot : q # slot[l] => reader'[q] = reader[q]
      BY <1>1, <2>7, <3>1 DEF Drops, ReaderRec
    <3>3. slot'[l] = 0 /\ \A k \in Streams : k # l => slot'[k] = slot[k] /\ slot[k] # slot[l]
      BY <1>1, <2>7, <3>1 DEF Drops, Owned, ReadersOwned
    <3>4. pc'[l] \in {"backoff", "done"}
      BY <2>7 DEF Drops
    <3> QED  BY <1>0, <2>2, <2>3, <3>1, <3>2, <3>3, <3>4 DEF Owned, ReadersOwned
  <2>8. CASE Opens(l)
    <3>1. PICK s \in Unused : /\ slot' = [slot EXCEPT ![l] = s]
                              /\ reader' = [reader EXCEPT ![s] = Fresh]
      BY <2>8 DEF Opens
    <3>2. s \in Slot /\ s # 0 /\ \A k \in Streams : slot[k] # s
      BY <1>1, <3>1 DEF Unused
    <3>3. ~reader'[s].cut /\ \A q \in Slot : q # s => reader'[q] = reader[q]
      BY <1>1, <3>1, <3>2 DEF Fresh
    <3>4. slot'[l] = s /\ slot[l] = 0 /\ \A k \in Streams : k # l => slot'[k] = slot[k]
      BY <1>1, <2>8, <3>1 DEF Opens, Owned
    <3>5. pc'[l] = "select" /\ l \in Streams
      BY <2>8 DEF Opens
    <3>6. \A i, j \in Streams : slot'[i] = slot'[j] /\ slot'[i] # 0 => i = j
      BY <3>2, <3>4 DEF Owned, ReadersOwned
    <3>7. \A k \in Streams : pc'[k] \in {"select", "send"} => slot'[k] # 0 /\ ~reader'[slot'[k]].cut
      <4> TAKE k \in Streams
      <4>1. CASE k = l
        BY <3>2, <3>3, <3>4, <4>1
      <4>2. CASE k # l
        BY <1>0, <2>2, <2>3, <3>2, <3>3, <3>4, <4>2 DEF Owned, ReadersOwned
      <4> QED  BY <4>1, <4>2
    <3>8. \A q \in Slot : reader'[q].at # "ended" /\ (\A k \in Streams : slot'[k] # q) => reader'[q].cut
      <4> SUFFICES ASSUME NEW q \in Slot, reader'[q].at # "ended", \A k \in Streams : slot'[k] # q
                   PROVE  reader'[q].cut
        OBVIOUS
      <4>1. q # s /\ \A k \in Streams : slot[k] # q
        BY <1>1, <3>4, <3>5
      <4> QED  BY <3>3, <4>1 DEF Owned, ReadersOwned
    <3>9. \A k \in Streams : pc'[k] \notin {"select", "send"} => slot'[k] = 0
      BY <1>0, <2>2, <3>4, <3>5 DEF Owned
    <3> QED  BY <3>6, <3>7, <3>8, <3>9 DEF Owned, ReadersOwned
  <2> QED  BY <1>0, <1>4, <2>4, <2>5, <2>6, <2>7, <2>8, LoopSteps
<1>5. CASE StreamsNext
  <2>1. CASE ChildStep \/ (Alive /\ LogsEnd /\ UNCHANGED <<prog, up>>) \/ Quit \/ Shutdown \/ Exit
    BY <1>2, <2>1 DEF ChildStep, Kill, LogsEnd, Quit, Shutdown, Exit, loopVars
  <2> QED  BY <1>3, <1>4, <1>5, <2>1 DEF StreamsNext
<1>6. CASE \E t \in Tests : Press(t) \/ Command(t)
  BY <1>2, <1>6 DEF Press, Command, loopVars
<1>7. CASE MihomoDies \/ MihomoComes \/ UNCHANGED vars
  BY <1>2, <1>7 DEF MihomoDies, MihomoComes, vars, loopVars
<1> QED  BY <1>5, <1>6, <1>7 DEF Next

\* No goroutine of a stream goes on unseen: a loop that waits has a reader of
\* its own, and a reader without a loop has been cancelled (run.go).
THEOREM ReadersHaveOwners == Spec => []ReadersOwned
<1> USE StreamsOK
<1>1. Init => Owned
  BY OwnedInit
<1>2. TypeOK /\ Owned /\ [Next]_vars => Owned'
  BY OwnedPreserved
<1>3. Owned => ReadersOwned
  BY DEF Owned
<1> QED  BY <1>1, <1>2, <1>3, TypeCorrect, PTL DEF Spec
=============================================================================
