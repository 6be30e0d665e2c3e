------------------------------- MODULE Service -------------------------------
(***************************************************************************)
(* The mihomo process and the two managers that keep it: PIDManager, which *)
(* forks mihomo and remembers it in a file, and SystemdManager, which asks *)
(* systemd --user.  Several threads of vpnkit, of one process or of many,  *)
(* call them at once.                                                      *)
(*                                                                         *)
(* A thread carries the steps it has still to take, todo; an operation of a*)
(* manager is a sequence of steps, and one of the managers' own steps each *)
(* is an action here.  Host.tla adds the programs and their other steps.   *)
(***************************************************************************)
EXTENDS Naturals, Sequences, FiniteSets, SequencesExt

CONSTANTS
    Pid,        \* process ids, small numbers (bound)
    NoPid,      \* none of them
    Cli,        \* CLI processes, each a thread of its own
    MaxCrashes  \* exits of mihomo nobody asked for (bound)

Session == {"boot", "work", "tab"}  \* the goroutines of one terminal UI
Thread  == Cli \union Session
Home(t) == IF t \in Session THEN "tui" ELSE t   \* the process a thread is in

ASSUME ServiceOK ==
    /\ Pid \subseteq Nat /\ IsFiniteSet(Pid) /\ NoPid \notin Pid
    /\ Cli \subseteq STRING \ (Session \union {"tui", "init"}) /\ MaxCrashes \in Nat

VARIABLES
    proc,       \* what each process id is
    pidFile,    \* mihomo.pid: a process id; NoPid when missing or not a number
    unit,       \* mihomo.service: "absent", "stopped", "running" or "failed"
    main,       \* the MainPID of mihomo.service
    binary,     \* ~/.local/bin/mihomo: "none", "old" or "new"
    yaml,       \* config.yaml: the credentials and the content it was made from
    th,         \* threads
    lost,       \* auxiliary: children whose starter was killed before it had written
                \* their id; no later operation can know of them
    crashes     \* exits of mihomo nobody asked for (bound)

NoYaml == [key |-> 0, rev |-> 0]
Free   == [kind |-> "free", home |-> "init", ver |-> "none", cfg |-> NoYaml]

Mihomo == {p \in Pid : proc[p].kind = "mihomo"}

\* processAlive: /proc has an entry, and it has one for a zombie too.
Alive(p) == p # NoPid /\ proc[p].kind # "free"

\* PIDManager.Status and SystemdManager.Status.
Running(m) == IF m = "pid" THEN Alive(pidFile) ELSE unit = "running"

At(t, step)   == th[t].todo # <<>> /\ Head(th[t].todo) = step
Todo(t, todo) == [th EXCEPT ![t].todo = todo]
Next1(t)      == Todo(t, Tail(th[t].todo))

\* Cut a thread's steps down to those after the first s; all of them if none is s.
From(t, s) == LET todo == th[t].todo
              IN  IF s \in ToSet(todo)
                  THEN SubSeq(todo, CHOOSE i \in DOMAIN todo : todo[i] = s, Len(todo))
                  ELSE <<>>

\* A start that fails is only noted by RunBootstrap; others give up.
StartFails(t) == [th EXCEPT ![t].todo = From(t, "verify"),
                            ![t].failed = @ \/ From(t, "verify") = <<>>]

\* RunBootstrap returns an error; only an apply that was to follow it is left.
BootFails(t) == [th EXCEPT ![t].todo = From(t, "assemble"), ![t].failed = TRUE]

StopSteps(m)      == IF m = "pid" THEN <<"term", "wait">> ELSE <<"sysstop">>
StartSteps(m)     == IF m = "pid" THEN <<"probe", "spawn", "record">> ELSE <<"sysstart">>
RestartSteps(m)   == IF m = "pid" THEN StopSteps(m) \o StartSteps(m) ELSE <<"sysrestart">>
InstallSteps(m)   == IF m = "pid" THEN <<>> ELSE <<"sysinstall">>
UninstallSteps(m) == IF m = "pid" THEN StopSteps(m) ELSE <<"sysuninstall">>

\* A process that ends leaves an entry until its parent has waited for it;
\* PIDManager releases its child and never waits, and init always does.
Exited(p) == IF proc[p].home = "init" THEN Free ELSE [Free EXCEPT !.kind = "zombie", !.home = proc[p].home]

\* A new process gets an id that nobody names; ids are reused after ages only.
Named   == {pidFile} \union {th[t].pid : t \in Thread} \union lost
Unnamed == {p \in Pid \ Named : proc[p].kind = "free"}
FreshPid == CHOOSE p \in Unnamed : \A q \in Unnamed : p <= q

Born(home) == [kind |-> "mihomo", home |-> home, ver |-> binary, cfg |-> yaml]

-----------------------------------------------------------------------------
(* PIDManager.Stop.                                                        *)

\* readPID and the SIGTERM; mihomo ends on it at once or later or never.
Term(t) ==
    /\ At(t, "term")
    /\ IF Alive(pidFile)
       THEN /\ th' = [Next1(t) EXCEPT ![t].pid = pidFile]
            /\ proc' \in {proc} \union
                 IF proc[pidFile].kind = "mihomo" THEN {[proc EXCEPT ![pidFile] = Exited(pidFile)]} ELSE {}
            /\ UNCHANGED pidFile
       ELSE /\ th' = Todo(t, Tail(Tail(th[t].todo)))    \* ErrNotRunning
            /\ pidFile' = NoPid /\ UNCHANGED proc
    /\ UNCHANGED <<unit, main, binary, yaml, crashes>>

\* Fault: the wait has no deadline.
WaitForever(t) ==
    /\ At(t, "wait") /\ ~Alive(th[t].pid) /\ th' = Next1(t) /\ pidFile' = NoPid
    /\ UNCHANGED <<proc, unit, main, binary, yaml, crashes>>

\* The process has gone, or five seconds are over and it gets a SIGKILL; either
\* way the file goes, whatever process it names by then.
Wait(t) ==
    /\ At(t, "wait") /\ th' = Next1(t) /\ pidFile' = NoPid
    /\ IF Alive(th[t].pid) /\ proc[th[t].pid].kind # "zombie"
       THEN proc' = [proc EXCEPT ![th[t].pid] = Exited(th[t].pid)]
       ELSE UNCHANGED proc
    /\ UNCHANGED <<unit, main, binary, yaml, crashes>>

-----------------------------------------------------------------------------
(* PIDManager.Start.                                                       *)

\* Fault: a running mihomo does not matter.
ProbeNot(t) ==
    /\ At(t, "probe") /\ th' = Next1(t)
    /\ UNCHANGED <<proc, pidFile, unit, main, binary, yaml, crashes>>

\* Status says whether it is already running.
Probe(t) ==
    /\ At(t, "probe")
    /\ th' = IF Running("pid") THEN StartFails(t) ELSE Next1(t)
    /\ UNCHANGED <<proc, pidFile, unit, main, binary, yaml, crashes>>

Spawn(t) ==
    /\ At(t, "spawn")
    /\ IF binary = "none"
       THEN th' = StartFails(t) /\ UNCHANGED proc
       ELSE /\ Unnamed # {}
            /\ proc' = [proc EXCEPT ![FreshPid] = Born(Home(t))]
            /\ th' = [Next1(t) EXCEPT ![t].pid = FreshPid]
    /\ UNCHANGED <<pidFile, unit, main, binary, yaml, crashes>>

\* Fault: the child is left running when its id cannot be written.
RecordOrLeave(t) ==
    /\ At(t, "record")
    /\ \/ pidFile' = th[t].pid /\ th' = Next1(t)
       \/ pidFile' = NoPid /\ th' = StartFails(t)
    /\ UNCHANGED <<proc, unit, main, binary, yaml, crashes>>

\* WriteFile, which truncates; when it fails the child is killed.
Record(t) ==
    /\ At(t, "record")
    /\ \/ pidFile' = th[t].pid /\ th' = Next1(t) /\ UNCHANGED proc
       \/ /\ pidFile' = NoPid /\ th' = StartFails(t)
          /\ proc' = IF proc[th[t].pid].kind = "mihomo"
                     THEN [proc EXCEPT ![th[t].pid] = Exited(th[t].pid)] ELSE proc
    /\ UNCHANGED <<unit, main, binary, yaml, crashes>>

-----------------------------------------------------------------------------
(* SystemdManager: each call is one systemctl, which systemd serialises,   *)
(* and which may fail for reasons of its own, leaving all as it was.       *)

SysRun(procs) ==
    IF binary = "none" THEN proc' = procs /\ unit' = "failed" /\ main' = NoPid
    ELSE /\ Unnamed # {} /\ main' = FreshPid /\ unit' = "running"
         /\ proc' = [procs EXCEPT ![FreshPid] = Born("init")]

Stopped == IF main = NoPid THEN proc ELSE [proc EXCEPT ![main] = Free]

\* The unit is written, reloaded, enabled and started; a running one stays.
SysInstall(t) ==
    /\ At(t, "sysinstall")
    /\ \/ /\ th' = Next1(t)
          /\ IF unit = "running" THEN UNCHANGED <<proc, unit, main>> ELSE SysRun(proc)
       \/ /\ th' = BootFails(t)
          /\ unit' = (IF unit = "absent" THEN "stopped" ELSE unit) /\ UNCHANGED <<proc, main>>
    /\ UNCHANGED <<pidFile, binary, yaml, crashes>>

SysStart(t) ==
    /\ At(t, "sysstart")
    /\ \/ th' = StartFails(t) /\ UNCHANGED <<proc, unit, main>>
       \/ /\ unit # "absent" /\ th' = Next1(t)
          /\ IF unit = "running" THEN UNCHANGED <<proc, unit, main>> ELSE SysRun(proc)
    /\ UNCHANGED <<pidFile, binary, yaml, crashes>>

\* (Those who stop go on whether or not it fails.)
SysStop(t) ==
    /\ At(t, "sysstop")
    /\ \/ unit = "absent" /\ th' = Next1(t) /\ UNCHANGED <<proc, unit, main>>
       \/ /\ unit # "absent" /\ th' = Next1(t)
          /\ proc' = Stopped /\ unit' = "stopped" /\ main' = NoPid
       \/ /\ unit # "absent" /\ th' = [Next1(t) EXCEPT ![t].failed = TRUE]
          /\ UNCHANGED <<proc, unit, main>>
    /\ UNCHANGED <<pidFile, binary, yaml, crashes>>

SysRestart(t) ==
    /\ At(t, "sysrestart")
    /\ \/ th' = StartFails(t) /\ UNCHANGED <<proc, unit, main>>
       \/ unit # "absent" /\ th' = Next1(t) /\ SysRun(Stopped)
    /\ UNCHANGED <<pidFile, binary, yaml, crashes>>

\* disable --now, and the unit file goes.  (Here it does not fail.)
SysUninstall(t) ==
    /\ At(t, "sysuninstall") /\ th' = Next1(t)
    /\ proc' = Stopped /\ unit' = "absent" /\ main' = NoPid
    /\ UNCHANGED <<pidFile, binary, yaml, crashes>>

\* Restart=on-failure, until the start limit is reached.
Respawn ==
    /\ unit = "failed" /\ binary # "none" /\ SysRun(proc)
    /\ UNCHANGED <<pidFile, binary, yaml, th, crashes>>

-----------------------------------------------------------------------------
(* mihomo ends of itself: a config.yaml it refuses, a port in use, a crash.*)
Crash(p) ==
    /\ p \in Mihomo /\ crashes < MaxCrashes /\ crashes' = crashes + 1
    /\ proc' = [proc EXCEPT ![p] = Exited(p)]
    /\ IF p = main THEN unit' = "failed" /\ main' = NoPid ELSE UNCHANGED <<unit, main>>
    /\ UNCHANGED <<pidFile, binary, yaml, th>>

\* What is left of a process's children when it ends: zombies are reaped.
Orphaned(home) ==
    [p \in Pid |-> IF proc[p].home # home THEN proc[p]
                   ELSE IF proc[p].kind = "zombie" THEN Free
                   ELSE [proc[p] EXCEPT !.home = "init"]]

ManagerStep(t) ==
    \/ Term(t) \/ Wait(t) \/ Probe(t) \/ Spawn(t) \/ Record(t)
    \/ SysInstall(t) \/ SysStart(t) \/ SysStop(t) \/ SysRestart(t) \/ SysUninstall(t)
=============================================================================
