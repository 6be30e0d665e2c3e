------------------------------- MODULE Streams -------------------------------
(***************************************************************************)
(* The background loops of the terminal UI (app/run.go): two streams from  *)
(* mihomo's controller, each read by a goroutine of the api package that   *)
(* feeds a channel; polls; the log stream, read from a tail or journalctl  *)
(* process; and the one check for updates.  They end when the program does.*)
(* What a sample says is left out.                                         *)
(***************************************************************************)
EXTENDS Naturals, FiniteSets

CONSTANTS
    Streams,    \* streamTraffic, streamConnections
    Polls,      \* pollProxies, pollVersion, pollRules, pollServiceStatus
    Readers,    \* readers there are room for in the model (bound)
    Capacity    \* samples a channel holds (16 or 8 in the code)

Loop == Streams \union Polls \union {"logs", "update"}

ASSUME StreamsOK ==
    /\ Streams \intersect Polls = {} /\ {"logs", "update"} \intersect (Streams \union Polls) = {}
    /\ Readers \in Nat \ {0} /\ Capacity \in Nat \ {0}

VARIABLES
    prog,   \* "running", "quit" (Run has returned), "shutdown" (cancelled), "exited"
    up,     \* mihomo's controller answers
    pc,     \* where each loop is
    slot,   \* the reader of each stream, 0 for none
    reader, \* readers: [at, out, err, cut]
    child   \* the tail or journalctl process runs

loopVars == <<pc, slot, reader, child>>

Slot   == 1 .. Readers
Fresh  == [at |-> "dial", out |-> 0, err |-> FALSE, cut |-> FALSE]
Ended  == [at |-> "ended", out |-> 0, err |-> FALSE, cut |-> TRUE]

Alive   == prog # "exited"
Stopped == prog \in {"shutdown", "exited"}      \* shutdownCtx is cancelled

Goes(l, to)  == pc' = [pc EXCEPT ![l] = to]
Cancelled(s) == reader[s].cut \/ Stopped

\* Loops outside `used' have ended before the first state.
StreamsInit(used) ==
    /\ prog = "running" /\ up \in BOOLEAN
    /\ pc = [l \in Loop |-> IF l \notin used THEN "done"
                            ELSE IF l \in Polls THEN "call"
                            ELSE IF l = "update" THEN "delay" ELSE "top"]
    /\ slot = [l \in Streams |-> 0] /\ reader = [s \in Slot |-> Ended] /\ child = FALSE

-----------------------------------------------------------------------------
(* The reader: Client.Traffic and Client.Connections.                      *)

\* Fault: errCh has no room, and who fails when nobody listens hangs.
LeaveUnread(s, fails) ==
    reader' = [reader EXCEPT ![s].at = IF fails /\ Cancelled(s) THEN "stuck" ELSE "ended",
                             ![s].err = fails]

\* Fault: a stream that ends without an error leaves its channels open.
LeaveOpen(s, fails) ==
    reader' = [reader EXCEPT ![s].at = IF fails THEN "ended" ELSE "open", ![s].err = fails]

\* The goroutine closes both channels, after the one error there can be has
\* been put into errCh, which has room for it.
Leave(s, fails) == reader' = [reader EXCEPT ![s].at = "ended", ![s].err = fails]

Dial(s) ==
    /\ reader[s].at = "dial"
    /\ \/ up /\ ~Cancelled(s) /\ reader' = [reader EXCEPT ![s].at = "read"]
       \/ (~up \/ Cancelled(s)) /\ Leave(s, TRUE)

\* A sample; or the end of the body, or an error.
Read(s) ==
    /\ reader[s].at = "read"
    /\ \/ up /\ ~Cancelled(s) /\ reader' = [reader EXCEPT ![s].at = "push"]
       \/ (~up \/ Cancelled(s)) /\ \E fails \in BOOLEAN : Leave(s, fails)

\* Fault: a sample is put into the channel whether it is full or not.
PushMore(s) ==
    /\ reader[s].at = "push"
    /\ reader' = [reader EXCEPT ![s].at = "read", ![s].out = @ + 1]

Push(s) ==
    /\ reader[s].at = "push"
    /\ \/ /\ reader[s].out < Capacity
          /\ reader' = [reader EXCEPT ![s].at = "read", ![s].out = @ + 1]
       \/ Cancelled(s) /\ Leave(s, FALSE)

ReaderStep(s) == Alive /\ (Dial(s) \/ Read(s) \/ Push(s)) /\ UNCHANGED <<prog, up, pc, slot, child>>

-----------------------------------------------------------------------------
(* The loops.  A Send is taken by the program, or does nothing once Run    *)
(* has returned.                                                           *)

AfterSend(l) == CASE l \in Streams -> "select"
                  [] l \in Polls   -> "wait"
                  [] l = "logs"    -> "scan"
                  [] l = "update"  -> "done"

Send(l) == pc[l] = "send" /\ Goes(l, AfterSend(l)) /\ UNCHANGED <<slot, reader, child>>

\* The pause before the next attempt, and a poll's wait for its ticker.
Pause(l) ==
    /\ pc[l] \in {"backoff", "wait"}
    /\ Goes(l, IF Stopped THEN "done" ELSE IF l \in Polls THEN "call" ELSE "top")
    /\ UNCHANGED <<slot, reader, child>>

\* A slot is free when its reader has ended and no loop reads from it.
Unused == {s \in Slot : reader[s].at = "ended" /\ \A l \in Streams : slot[l] # s}

Open(l) ==
    /\ l \in Streams /\ pc[l] = "top" /\ UNCHANGED child
    /\ IF Stopped THEN Goes(l, "done") /\ UNCHANGED <<slot, reader>>
       ELSE \E s \in Unused :
              /\ \A r \in Unused : s <= r
              /\ slot' = [slot EXCEPT ![l] = s] /\ reader' = [reader EXCEPT ![s] = Fresh]
              /\ Goes(l, "select")

\* Fault: the reader is not told.
LetGoRunning(l, to) ==
    UNCHANGED reader /\ slot' = [slot EXCEPT ![l] = 0] /\ Goes(l, to)

\* The loop cancels its reader and lets go of it.
LetGo(l, to) ==
    /\ reader' = [reader EXCEPT ![slot[l]].cut = TRUE]
    /\ slot' = [slot EXCEPT ![l] = 0] /\ Goes(l, to)

\* select: any ready case.  A closed errCh is ready, with samples left or not.
Select(l) ==
    /\ l \in Streams /\ pc[l] = "select" /\ UNCHANGED child
    /\ LET r == reader[slot[l]]
       IN  \/ r.out > 0 /\ Goes(l, "send") /\ UNCHANGED slot
                        /\ reader' = [reader EXCEPT ![slot[l]].out = @ - 1]
           \/ (r.err \/ r.at = "ended") /\ LetGo(l, "backoff")
           \/ Stopped /\ LetGo(l, "done")

\* A poll asks, with shutdownCtx and a timeout; pollVersion sends errors, too.
Poll(l) ==
    /\ l \in Polls /\ pc[l] = "call"
    /\ Goes(l, "wait") \/ Goes(l, "send")
    /\ UNCHANGED <<slot, reader, child>>

\* Manager.Logs starts a process under the loop's context, or cannot.
OpenLogs ==
    /\ pc["logs"] = "top" /\ UNCHANGED <<slot, reader>>
    /\ \/ Stopped /\ Goes("logs", "done") /\ UNCHANGED child
       \/ ~Stopped /\ Goes("logs", "scan") /\ child' = TRUE
       \/ Goes("logs", "backoff") /\ UNCHANGED child

\* A line; or the process has ended, and the reader is closed.
Scan ==
    /\ pc["logs"] = "scan" /\ UNCHANGED <<slot, reader, child>>
    /\ Goes("logs", IF child THEN "send" ELSE "backoff")

\* exec.CommandContext kills the process of a cancelled context.
Kill == Stopped /\ child /\ child' = FALSE /\ UNCHANGED <<pc, slot, reader>>

\* tail or journalctl ends by itself.
LogsEnd == child /\ child' = FALSE /\ UNCHANGED <<pc, slot, reader>>

\* pollUpdate; only its first pause knows of the shutdown.
Update ==
    /\ pc["update"] \in {"delay", "check"} /\ UNCHANGED <<slot, reader, child>>
    /\ IF pc["update"] = "delay"
       THEN Goes("update", IF Stopped THEN "done" ELSE "check")
       ELSE Goes("update", "send") \/ Goes("update", "done")

Step(l) == Send(l) \/ Pause(l) \/ Open(l) \/ Select(l) \/ Poll(l)
           \/ (l = "logs" /\ (OpenLogs \/ Scan)) \/ (l = "update" /\ Update)

LoopStep(l) == Alive /\ Step(l) /\ UNCHANGED <<prog, up>>
ChildStep   == Alive /\ Kill /\ UNCHANGED <<prog, up>>

\* prog.Run returns, shutdownCancel is called, and main returns when it likes.
Quit     == prog = "running" /\ prog' = "quit" /\ UNCHANGED <<up, loopVars>>
Shutdown == prog = "quit" /\ prog' = "shutdown" /\ UNCHANGED <<up, loopVars>>
Exit     == prog = "shutdown" /\ prog' = "exited" /\ UNCHANGED <<up, loopVars>>

StreamsNext ==
    \/ \E s \in Slot : ReaderStep(s)
    \/ \E l \in Loop : LoopStep(l)
    \/ ChildStep \/ Quit \/ Shutdown \/ Exit
    \/ Alive /\ LogsEnd /\ UNCHANGED <<prog, up>>

-----------------------------------------------------------------------------

StreamsTypeOK ==
    /\ prog \in {"running", "quit", "shutdown", "exited"} /\ up \in BOOLEAN /\ child \in BOOLEAN
    /\ pc \in [Loop -> {"top", "select", "send", "backoff", "done", "call", "wait", "scan",
                        "delay", "check"}]
    /\ slot \in [Streams -> 0 .. Readers]
    /\ reader \in [Slot -> [at : {"dial", "read", "push", "ended", "stuck", "open"},
                            out : 0 .. Capacity, err : BOOLEAN, cut : BOOLEAN]]

\* A channel has one reader and one loop: two streams never share a goroutine,
\* a loop that waits has a reader it has not cancelled, and a goroutine that
\* goes on without a loop has been cancelled (the ctx of each turn).
ReadersOwned ==
    /\ \A l, k \in Streams : slot[l] = slot[k] /\ slot[l] # 0 => l = k
    /\ \A l \in Streams : pc[l] \in {"select", "send"} => slot[l] # 0 /\ ~reader[slot[l]].cut
    /\ \A s \in Slot : reader[s].at # "ended" /\ (\A l \in Streams : slot[l] # s) => reader[s].cut

\* Everything in the background ends after the program has quit: every loop,
\* every goroutine of a stream, the log process (run.go: "Shutdown signal for
\* every background goroutine"), as far as the process lives to see it.
Silent == /\ \A l \in Loop : pc[l] = "done"
          /\ \A s \in Slot : reader[s].at = "ended"
          /\ ~child
BackgroundEnds == prog = "quit" ~> (Silent \/ prog = "exited")

\* While the program runs and mihomo answers, every stream goes on delivering
\* and every poll goes on asking, whatever became of earlier connections.
StaysLive ==
    <>[](up /\ prog = "running") =>
        /\ \A l \in Streams : []<>(pc[l] \in {"send", "done"})
        /\ \A l \in Polls : []<>(pc[l] \in {"call", "done"})
=============================================================================
