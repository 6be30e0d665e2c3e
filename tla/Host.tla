-------------------------------- MODULE Host --------------------------------
(***************************************************************************)
(* The programs that install, start, reload, upgrade and remove mihomo on  *)
(* one host: `vpnkit init', `update', `uninstall' and the mutating verbs,  *)
(* each a process; and the terminal UI, whose launch, changes and settings *)
(* pages run on goroutines of one process.  They call the managers of      *)
(* Service.tla and share config.toml, config.yaml and the mihomo binary.   *)
(*                                                                         *)
(* Credentials (secret and controller port) are a stamp, key; the content  *)
(* of the configuration is a stamp, rev.                                   *)
(***************************************************************************)
EXTENDS Service

CONSTANTS
    Scopes      \* what may happen in a behaviour; see HostOK

VARIABLES
    scope,      \* the instance of this behaviour
    store,      \* config.toml: key, rev, and the manager chosen, svc
    mem,        \* each process's copy of it
    lock,       \* the process that holds the flock on config.toml
    tui,        \* "off"; "launching", before the first screen; "on"
    used,       \* settings pages whose one operation is spent (see UsePage)
    stamp,      \* the last key or rev given out
    misled,     \* auxiliary: an uninstall has taken the wrong manager
    torn,       \* auxiliary: a program was killed in the middle, and none that writes
                \* config.yaml has come to its end since
    ops         \* operations begun (bound)

sysVars  == <<proc, pidFile, unit, main, crashes>>
hostVars == <<store, mem, lock, tui, used, stamp, misled, lost, torn>>
vars == <<scope, sysVars, binary, yaml, th, hostVars, ops>>

Mode == scope.mode                  \* the manager Detect picks on this host
Ops  == scope.ops                   \* operations in use
Apart == scope.apart                \* which operations wait for each other: "all" do, each to
                                    \* its end; those that call a manager; or "none"
Alone == Apart = "all"
Calls(op) == op \notin {"verb", "core", "skip"}           \* a manager, to start or to stop
Verbs == {"init", "force", "skip", "uninstall", "verb"}   \* those that take the flock
Process == Cli \union {"tui"}

\* A launch whose ensureConfigSecurity has changed config.yaml (configChanged).
Acts    == Ops \union (IF "launch" \in Ops THEN {"relaunch"} ELSE {})
\* Those that write config.yaml.
Writers == {"init", "force", "skip", "verb", "launch", "relaunch", "change"}

ASSUME HostOK == \A s \in Scopes :
    /\ "free" \notin Cli /\ s.mode \in {"pid", "systemd"} /\ s.max \in Nat /\ s.apart \in {"all", "managers", "none"}
    /\ s.ops \subseteq Verbs \union {"update", "launch", "change", "start", "stop",
                                     "restart", "remove", "core"}

NoStore == [key |-> 0, rev |-> 0, svc |-> ""]
Idle    == [op |-> "none", todo |-> <<>>, pid |-> NoPid, failed |-> FALSE]
Busy(t) == th[t].op # "none"

Init ==
    /\ scope \in Scopes
    /\ proc = [p \in Pid |-> Free] /\ pidFile = NoPid /\ main = NoPid /\ unit = "absent"
    /\ binary = "none" /\ yaml = NoYaml /\ store = NoStore
    /\ th = [t \in Thread |-> Idle] /\ mem = [h \in Process |-> NoStore]
    /\ lock = "free" /\ tui = "off" /\ used = {} /\ stamp = 0 /\ misled = FALSE /\ ops = 0 /\ crashes = 0
    /\ lost = {} /\ torn = FALSE

-----------------------------------------------------------------------------
(* Programs.                                                               *)

\* RunBootstrap.
Boot == <<"fetch", "skeleton">> \o InstallSteps(Mode) \o StartSteps(Mode) \o <<"verify">>

\* applyConfig after Pipeline.Assemble: a reload, and if it fails a restart.
Apply == <<"assemble", "reload">> \o RestartSteps(Mode)

Program(op) ==
    CASE op = "init"      -> <<"load", "reconcile", "detect">> \o Boot
      [] op = "force"     -> <<"backup", "stash", "load", "reconcile", "detect">> \o Boot
      [] op = "skip"      -> <<"backup", "stash", "load", "reconcile">>
      [] op = "uninstall" -> <<"load", "choose">>
      [] op = "verb"      -> <<"load", "save", "assemble", "nudge">>
      [] op = "update"    -> <<"load", "look">>
      [] op = "launch"    -> <<"load", "detect", "ports", "secure", "assemble">> \o Boot
      [] op = "change"    -> <<"save">> \o Apply
      [] op = "start"     -> StartSteps(Mode)
      [] op = "stop"      -> StopSteps(Mode)
      [] op = "restart"   -> RestartSteps(Mode)
      [] op = "remove"    -> UninstallSteps(Mode)
      [] op = "core"      -> <<"swap">>

Begin(t, op) ==
    /\ op \in Ops /\ ~Busy(t) /\ ops < scope.max /\ ops' = ops + 1
    /\ th' = [th EXCEPT ![t] = [Idle EXCEPT !.op = op, !.todo = Program(op)]]
    /\ \A u \in Thread : Busy(u) => Apart = "none" \/ (Apart = "managers" /\ ~(Calls(op) /\ Calls(th[u].op)))

\* Fault: uninstall does not wait for the flock.
RunCliUnlocked(t, op) ==
    /\ op \in Verbs \union {"update"} /\ Begin(t, op)
    /\ UNCHANGED <<scope, sysVars, binary, yaml, store, mem, tui, used, stamp, lock, misled, lost, torn>>

\* main: `init', `uninstall' and the mutations hold the flock; `update' does not.
RunCli(t, op) ==
    /\ op \in Verbs \union {"update"} /\ Begin(t, op)
    /\ IF op \in Verbs THEN lock = "free" /\ lock' = t ELSE UNCHANGED lock
    /\ UNCHANGED <<scope, sysVars, binary, yaml, store, mem, tui, used, stamp, misled, lost, torn>>

Launch ==
    /\ tui = "off" /\ tui' = "launching" /\ Begin("boot", "launch")
    /\ UNCHANGED <<scope, sysVars, binary, yaml, store, mem, lock, used, stamp, misled, lost, torn>>

\* A saved mutation; its applyConfig runs on a goroutine of its own.
ChangeInTui ==
    /\ tui = "on" /\ Begin("work", "change")
    /\ UNCHANGED <<scope, sysVars, binary, yaml, store, mem, lock, tui, used, stamp, misled, lost, torn>>

\* The Service and Core pages.  Their busy flag is never cleared (Screen.tla),
\* so each does one operation in a session.
UsePage(op) ==
    LET page == IF op = "core" THEN "core" ELSE "service"
    IN  /\ op \in {"start", "stop", "restart", "remove", "core"}
        /\ tui = "on" /\ page \notin used /\ used' = used \union {page}
        /\ Begin("tab", op)
        /\ UNCHANGED <<scope, sysVars, binary, yaml, store, mem, lock, tui, stamp, misled, lost, torn>>

-----------------------------------------------------------------------------
(* The steps of the programs that are no manager's.                        *)

Mine(t) == mem[Home(t)]
Remember(t, s) == mem' = [mem EXCEPT ![Home(t)] = s]
Step(t, s) == At(t, s) /\ th' = Next1(t)
GiveUp(t)  == th' = [th EXCEPT ![t].todo = <<>>, ![t].failed = TRUE]

\* store.Load: a missing config.toml is written with new credentials.
LoadStore(t) ==
    /\ Step(t, "load")
    /\ IF store = NoStore
       THEN store' = [NoStore EXCEPT !.key = stamp + 1] /\ stamp' = stamp + 1
       ELSE UNCHANGED <<store, stamp>>
    /\ Remember(t, store')
    /\ UNCHANGED <<sysVars, binary, yaml, lock, tui, used, misled, lost, torn>>

\* NewServiceManager.
DetectMode(t) ==
    /\ Step(t, "detect")
    /\ IF Mine(t).svc = "" THEN /\ Remember(t, [Mine(t) EXCEPT !.svc = Mode])
                                /\ store' = [Mine(t) EXCEPT !.svc = Mode]
       ELSE UNCHANGED <<mem, store>>
    /\ UNCHANGED <<sysVars, binary, yaml, lock, tui, used, stamp, misled, lost, torn>>

\* BuildSkeleton, and EnsureSecurityFields over an existing config.yaml.
BuildSkeleton(key) == [key |-> key, rev |-> 0]
Secured(key) == [yaml EXCEPT !.key = key]

\* init --force: both files are renamed out of the way, one after the other.
Backup(t) ==
    /\ Step(t, "backup") /\ store' = NoStore
    /\ UNCHANGED <<sysVars, binary, yaml, mem, lock, tui, used, stamp, misled, lost, torn>>

Stash(t) ==
    /\ Step(t, "stash") /\ yaml' = NoYaml
    /\ UNCHANGED <<sysVars, binary, hostVars>>

\* Fault: an existing config.yaml is kept as it is.
ReconcileMissing(t) ==
    /\ Step(t, "reconcile")
    /\ yaml' = IF yaml = NoYaml THEN BuildSkeleton(Mine(t).key) ELSE yaml
    /\ UNCHANGED <<sysVars, binary, hostVars>>

\* runInit: a skeleton, or EnsureSecurityFields.
Reconcile(t) ==
    /\ Step(t, "reconcile")
    /\ yaml' = IF yaml = NoYaml THEN BuildSkeleton(Mine(t).key) ELSE Secured(Mine(t).key)
    /\ UNCHANGED <<sysVars, binary, hostVars>>

\* Fault: the new ports are not saved.
PortsUnsaved(t) ==
    /\ At(t, "ports")
    /\ \/ th' = Next1(t) /\ UNCHANGED <<stamp, mem>>
       \/ /\ ~Running(Mode) /\ th' = Todo(t, <<"drop">> \o Tail(th[t].todo))
          /\ stamp' = stamp + 1 /\ Remember(t, [Mine(t) EXCEPT !.key = stamp + 1])
    /\ UNCHANGED <<sysVars, binary, yaml, store, lock, tui, used, misled, lost, torn>>

\* reconcilePorts, first half: unless mihomo is known to run, ports that are
\* taken are changed in config.toml.  A mihomo nobody knows of takes them, and any
\* other program may.  (Without a free port Run returns; so it may by Quit.)
Ports(t) ==
    /\ At(t, "ports")
    /\ \/ /\ Running(Mode) \/ \A p \in Mihomo : proc[p].cfg.key # Mine(t).key
          /\ th' = Next1(t) /\ UNCHANGED <<stamp, store, mem>>
       \/ /\ ~Running(Mode) /\ th' = Todo(t, <<"drop">> \o Tail(th[t].todo))
          /\ stamp' = stamp + 1 /\ store' = [Mine(t) EXCEPT !.key = stamp + 1] /\ Remember(t, store')
    /\ UNCHANGED <<sysVars, binary, yaml, lock, tui, used, misled, lost, torn>>

\* Second half: config.yaml goes; an error is ignored.
DropYaml(t) ==
    /\ Step(t, "drop") /\ yaml' \in {yaml, NoYaml}
    /\ UNCHANGED <<sysVars, binary, hostVars>>

\* Fault: a change is not applied.
SecureOnly(t) ==
    /\ At(t, "secure")
    /\ IF yaml = NoYaml \/ yaml.key = Mine(t).key
       THEN th' = Next1(t) /\ UNCHANGED yaml
       ELSE th' = [Next1(t) EXCEPT ![t].op = "relaunch"] /\ yaml' = Secured(Mine(t).key)
    /\ UNCHANGED <<sysVars, binary, hostVars>>

\* ensureConfigSecurity; a change is applied after the bootstrap.
Secure(t) ==
    /\ At(t, "secure")
    /\ IF yaml = NoYaml \/ yaml.key = Mine(t).key
       THEN th' = Next1(t) /\ UNCHANGED yaml
       ELSE /\ th' = [th EXCEPT ![t].op = "relaunch", ![t].todo = Tail(@) \o Apply]
            /\ yaml' = Secured(Mine(t).key)
    /\ UNCHANGED <<sysVars, binary, hostVars>>

\* Pipeline.Assemble; after the first one the screen comes up.
AssembleYaml(t) ==
    /\ Step(t, "assemble") /\ yaml' = [key |-> Mine(t).key, rev |-> Mine(t).rev]
    /\ tui' = IF tui = "launching" /\ t = "boot" THEN "on" ELSE tui
    /\ UNCHANGED <<sysVars, binary, store, mem, lock, used, stamp, misled, lost, torn>>

\* Install of a missing mihomo; without one RunBootstrap ends in an error.
Fetch(t) ==
    /\ At(t, "fetch")
    /\ \/ binary' = (IF binary = "none" THEN "old" ELSE binary) /\ th' = Next1(t)
       \/ binary = "none" /\ UNCHANGED binary /\ th' = BootFails(t)
    /\ UNCHANGED <<sysVars, yaml, hostVars>>

Skeleton(t) ==
    /\ Step(t, "skeleton")
    /\ yaml' = IF yaml = NoYaml THEN BuildSkeleton(Mine(t).key) ELSE yaml
    /\ UNCHANGED <<sysVars, binary, hostVars>>

\* The last step of RunBootstrap.
Verify(t) ==
    /\ At(t, "verify")
    /\ th' = [Next1(t) EXCEPT ![t].failed = ~Running(Mode)]
    /\ UNCHANGED <<sysVars, binary, yaml, hostVars>>

\* A mutation, saved: by a verb or by the session.
SaveChange(t) ==
    /\ Step(t, "save") /\ stamp' = stamp + 1
    /\ store' = [Mine(t) EXCEPT !.rev = stamp + 1] /\ Remember(t, store')
    /\ UNCHANGED <<sysVars, binary, yaml, lock, tui, used, misled, lost, torn>>

\* PUT /configs to whoever listens there with these credentials.
Reloads(key) == {p \in Mihomo : proc[p].cfg.key = key /\ yaml # NoYaml}
Reloaded(p)  == [proc EXCEPT ![p].cfg.rev = yaml.rev]

\* Fault: a failed reload is all.
ReloadOnly(t) ==
    /\ At(t, "reload") /\ th' = Todo(t, <<>>)
    /\ IF Reloads(Mine(t).key) = {} THEN UNCHANGED proc
       ELSE \E p \in Reloads(Mine(t).key) : proc' = Reloaded(p)
    /\ UNCHANGED <<pidFile, unit, main, crashes, binary, yaml, hostVars>>

\* applyConfig in a session; the restart is what follows a failed reload.
Reload(t) ==
    /\ At(t, "reload")
    /\ IF Reloads(Mine(t).key) = {}
       THEN th' = Next1(t) /\ UNCHANGED proc
       ELSE \E p \in Reloads(Mine(t).key) : proc' = Reloaded(p) /\ th' = Todo(t, <<>>)
    /\ UNCHANGED <<pidFile, unit, main, crashes, binary, yaml, hostVars>>

\* applyMutation in a verb: loadClient reads config.toml again, and a failed
\* reload is only a notice.
Nudge(t) ==
    /\ At(t, "nudge")
    /\ IF Reloads(store.key) = {}
       THEN GiveUp(t) /\ UNCHANGED proc
       ELSE \E p \in Reloads(store.key) : proc' = Reloaded(p) /\ th' = Next1(t)
    /\ UNCHANGED <<pidFile, unit, main, crashes, binary, yaml, hostVars>>

\* Fault: mihomo keeps running while its binary is replaced.
LookAway(t) ==
    /\ At(t, "look") /\ th' = Todo(t, <<"swap">>)
    /\ UNCHANGED <<sysVars, binary, yaml, hostVars>>

\* upgradeMihomo: a mihomo that runs is stopped, and started at the end.
Look(t) ==
    /\ At(t, "look")
    /\ th' = Todo(t, IF Running(Mode) THEN StopSteps(Mode) \o <<"swap">> \o StartSteps(Mode)
                                      ELSE <<"swap">>)
    /\ UNCHANGED <<sysVars, binary, yaml, hostVars>>

\* installer.Install renames over the binary; if it fails nothing more is done.
Swap(t) ==
    /\ At(t, "swap")
    /\ \/ binary' = "new" /\ th' = Next1(t)
       \/ UNCHANGED binary /\ GiveUp(t)
    /\ UNCHANGED <<sysVars, yaml, hostVars>>

\* Fault: the service is removed and not stopped.
ChooseNoStop(t) ==
    /\ At(t, "choose") /\ th' = Todo(t, <<"wipe", "forget", "strip">>)
    /\ UNCHANGED <<sysVars, binary, yaml, hostVars>>

\* runUninstall: the manager config.toml names, systemd when it names none.
Choose(t) ==
    LET m == IF Mine(t).svc = "" THEN "systemd" ELSE Mine(t).svc
    IN  /\ At(t, "choose")
        /\ th' = Todo(t, StopSteps(m) \o UninstallSteps(m) \o <<"wipe", "forget", "strip">>)
        /\ misled' = (misled \/ m # Mode)
        /\ UNCHANGED <<sysVars, binary, yaml, store, mem, lock, tui, used, stamp, lost, torn>>

\* Fault: mihomo's own directory stays.
WipeNot(t) == Step(t, "wipe") /\ UNCHANGED <<sysVars, binary, yaml, hostVars>>

\* The directories go one after the other: mihomo's, vpnkit's own, the one of
\* the PID file; and the binary unless --keep-mihomo.
Wipe(t) ==
    /\ Step(t, "wipe") /\ yaml' = NoYaml
    /\ UNCHANGED <<sysVars, binary, hostVars>>

Forget(t) ==
    /\ Step(t, "forget") /\ store' = NoStore
    /\ UNCHANGED <<sysVars, binary, yaml, mem, lock, tui, used, stamp, misled, lost, torn>>

Strip(t) ==
    /\ Step(t, "strip") /\ pidFile' = NoPid /\ binary' \in {binary, "none"}
    /\ UNCHANGED <<proc, unit, main, crashes, yaml, hostVars>>

ProgramStep(t) ==
    \/ LoadStore(t) \/ DetectMode(t) \/ Backup(t) \/ Stash(t) \/ Reconcile(t) \/ Ports(t) \/ DropYaml(t)
    \/ Secure(t) \/ AssembleYaml(t) \/ Fetch(t) \/ Skeleton(t) \/ Verify(t) \/ SaveChange(t) \/ Reload(t)
    \/ Nudge(t) \/ Look(t) \/ Swap(t) \/ Choose(t) \/ Wipe(t) \/ Forget(t) \/ Strip(t)

-----------------------------------------------------------------------------
(* Ends.                                                                   *)

Ended(t, op) == th[t].op = op /\ th[t].todo = <<>> /\ ~th[t].failed

\* A writer has come to its end.
Mended(t) == torn' = (torn /\ th[t].op \notin Writers)

\* A process ends, and with it its threads ts.
EndProcess(h, ts) ==
    /\ th' = [t \in Thread |-> IF t \in ts THEN Idle ELSE th[t]]
    /\ proc' = Orphaned(h)
    /\ mem' = [mem EXCEPT ![h] = NoStore]
    /\ lock' = IF lock = h THEN "free" ELSE lock
    /\ UNCHANGED <<scope, unit, main, crashes, binary, yaml, store, stamp, ops, misled>>

\* It is killed in the middle of whatever they do.  A child that is not yet
\* in the PID file is lost; the file may be truncated by then.
Killed(h, ts) ==
    LET cut == {t \in ts : At(t, "record")}
    IN  /\ EndProcess(h, ts)
        /\ lost' = lost \union {th[t].pid : t \in cut}
        /\ pidFile' \in {pidFile} \union {NoPid : t \in cut}
        /\ torn' = (torn \/ \E t \in ts : th[t].todo # <<>>)

\* A CLI process has done its work.
Exit(t) ==
    /\ Busy(t) /\ th[t].todo = <<>> /\ EndProcess(t, {t}) /\ Mended(t)
    /\ UNCHANGED <<pidFile, lost, tui, used>>

\* A goroutine has; the session stays.
Return(t) ==
    /\ Busy(t) /\ th[t].todo = <<>> /\ th' = [th EXCEPT ![t] = Idle] /\ Mended(t)
    /\ UNCHANGED <<scope, sysVars, binary, yaml, store, mem, lock, tui, used, stamp, misled, lost, ops>>

\* An interrupt or a kill of a CLI process.
Interrupt(t) ==
    /\ Busy(t) /\ th[t].todo # <<>> /\ Killed(t, {t})
    /\ UNCHANGED <<tui, used>>

\* `q', or a kill, at any time: the goroutines die with the process.
Quit ==
    /\ tui # "off" /\ tui' = "off" /\ used' = {} /\ Killed("tui", Session)

Steps(t) ==
    \/ /\ ManagerStep(t) /\ UNCHANGED hostVars /\ UNCHANGED <<scope, ops>>
    \/ /\ ProgramStep(t) /\ UNCHANGED <<scope, ops>>
    \/ t \in Cli /\ Exit(t)
    \/ t \in Session /\ Return(t)

System == /\ Respawn \/ \E p \in Pid : Crash(p)
          /\ UNCHANGED hostVars /\ UNCHANGED <<scope, ops>>

User ==
    \/ \E t \in Cli : (\E op \in Ops : RunCli(t, op)) \/ Interrupt(t)
    \/ Launch \/ ChangeInTui \/ Quit \/ \E op \in Ops : UsePage(op)

Next == (\E t \in Thread : Steps(t)) \/ System \/ User

Spec == Init /\ [][Next]_vars

\* The operating system runs every process and the Go scheduler every goroutine,
\* and an operation has finitely many steps: it is enough that some thread that
\* can go on does.  Nobody need start or interrupt anything, nor mihomo crash.
FairSpec == Spec /\ WF_vars(\E t \in Thread : Steps(t))

-----------------------------------------------------------------------------
Steps0 == {"term", "wait", "probe", "spawn", "record", "sysinstall", "sysstart", "sysstop",
           "sysrestart", "sysuninstall", "load", "detect", "backup", "stash", "reconcile", "ports",
           "drop", "secure", "assemble", "fetch", "skeleton", "verify", "save", "reload", "nudge",
           "look", "swap", "choose", "wipe", "forget", "strip"}
Content == [key : 0 .. stamp, rev : 0 .. stamp]
Stores  == [key : 0 .. stamp, rev : 0 .. stamp, svc : {"", "pid", "systemd"}]

(* Every variable has the type the code gives it; the flock is held by the *)
(* command that runs under it, and by nobody else.                         *)
TypeOK ==
    /\ proc \in [Pid -> [kind : {"free", "mihomo", "zombie"}, home : Process \union {"init"},
                         ver : {"none", "old", "new"}, cfg : Content]]
    /\ {pidFile, main} \subseteq Pid \union {NoPid}
    /\ unit \in {"absent", "stopped", "running", "failed"}
    /\ binary \in {"none", "old", "new"} /\ yaml \in Content /\ store \in Stores
    /\ mem \in [Process -> Stores] /\ lock \in Cli \union {"free"}
    /\ \A t \in Cli : th[t].op \in Verbs <=> lock = t
    /\ {misled, torn} \subseteq BOOLEAN /\ lost \subseteq Pid \union {NoPid}
    /\ tui \in {"off", "launching", "on"} /\ used \subseteq {"core", "service"}
    /\ \A t \in Thread : /\ th[t].op \in Acts \union {"none"} /\ th[t].todo \in Seq(Steps0)
                         /\ th[t].pid \in Pid \union {NoPid} /\ th[t].failed \in BOOLEAN

Quiet == \A t \in Thread : ~Busy(t)

(* There is never a mihomo that nothing will stop: unless two operations   *)
(* call the PID manager at once, or an `uninstall' has guessed the wrong   *)
(* manager, whatever fails or is killed and however mihomo ends, the PID   *)
(* file names every mihomo that runs when nothing is under way, but for    *)
(* the children of starts killed between cmd.Start and WriteFile; systemd  *)
(* knows its own at all times.                                             *)
SoleTracked ==
    IF Mode = "systemd" THEN Mihomo \subseteq {main}
    ELSE Apart # "none" /\ ~misled /\ Quiet => Mihomo \subseteq {pidFile} \union lost

(* After an upgrade reported as done no mihomo runs the old binary         *)
(* (upgradeMihomo stops it for the swap), unless systemd was about to start*)
(* a crashed one again and does so before the swap, or could not stop it,  *)
(* or one runs that the manager does not know: left by an uninstall or lost*)
(* by a start that was killed.                                             *)
UpgradeTakesEffect == \A t \in Thread :
    Apart # "none" /\ Ended(t, "update") /\ (IF Mode = "pid" THEN ~misled ELSE crashes = 0)
        => \A p \in Mihomo \ lost : proc[p].ver = "new"

(* After an uninstall that no other call of a manager overlaps no mihomo is*)
(* left running (runUninstall), whether or not the service could be        *)
(* stopped before it was removed; unless it or an earlier uninstall has    *)
(* guessed the wrong manager, and but for children lost before.            *)
UninstallLeavesNone == \A t \in Thread :
    Apart # "none" /\ ~misled /\ th[t].op = "uninstall" /\ th[t].todo = <<>> => Mihomo \subseteq lost

(* The same of every host: `Step 2: stop the systemd-user / PID service if *)
(* running' (cmd_uninstall.go:87).                                         *)
UninstallAlwaysLeavesNone == \A t \in Thread : Alone /\ Ended(t, "uninstall") => Mihomo \subseteq lost

(* After a change reported as applied, and after a launch that has found   *)
(* other credentials in config.yaml, mihomo runs with the credentials and  *)
(* the content of config.yaml, whichever of reload and restart it took and *)
(* whatever credentials mihomo was started with (applyConfig's comment);   *)
(* unless one runs beside it that an uninstall or a killed start has left. *)
AppliedRuns == \A t \in Thread :
    Alone /\ ~misled /\ lost = {} /\ (Ended(t, "change") \/ Ended(t, "relaunch"))
        => \A p \in Mihomo : proc[p].cfg = yaml

(* config.yaml and config.toml agree on the credentials when nothing is    *)
(* under way, also after the ports have changed; and if a program was      *)
(* killed in the middle, whatever was killed and whatever has followed,    *)
(* they do so again when a program that writes config.yaml has come to its *)
(* end (reconcilePorts, ensureConfigSecurity, runInit).                    *)
CredentialsAgree == Alone /\ Quiet /\ ~torn /\ yaml # NoYaml /\ store # NoStore => yaml.key = store.key

(* Every operation comes to an end, also when the mihomo it stops ignores  *)
(* SIGTERM or stays behind as a zombie of the session that started it.     *)
OperationsEnd == \A t \in Thread : Busy(t) ~> ~Busy(t)

(* An operation reported as done has done it: upgrades and uninstalls.     *)
DoneMeansDone == UpgradeTakesEffect /\ UninstallLeavesNone

(* config.yaml agrees with config.toml before a change and with the running*)
(* mihomo after it.                                                        *)
ConfigAgrees == AppliedRuns /\ CredentialsAgree
=============================================================================
