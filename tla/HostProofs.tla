----------------------------- MODULE HostProofs -----------------------------
(***************************************************************************)
(* Theorems about Host, for any processes, any operations in use, any      *)
(* number of them and of crashes.                                          *)
(*                                                                         *)
(* A thread is at the first of the steps it has still to take, and what    *)
(* holds of mihomo, its files and the configuration depends on where the   *)
(* threads are.  Linked says which step may follow which in a program, so  *)
(* that a step leads to a place about which the invariant says something.  *)
(***************************************************************************)
EXTENDS Host, Integers, FiniteSetTheorems, SequenceTheorems, WellFoundedInduction, TLAPS

\* The step a thread is at.
First(todo) == IF todo = <<>> THEN "end" ELSE Head(todo)
Now(t) == First(th[t].todo)

-----------------------------------------------------------------------------
(* The order of steps in each program.                                     *)

PidSteps == {"term", "wait", "probe", "spawn", "record"}
SysSteps == {"sysinstall", "sysstart", "sysrestart"}
EndSteps == {"sysstop", "sysuninstall"}

Starting(s, n) == (s = "probe" /\ n = "spawn") \/ (s = "spawn" /\ n = "record")
Restarting(s, n) == (s = "term" /\ n = "wait") \/ (s = "wait" /\ n = "probe") \/ Starting(s, n)

Booting(s, n) ==
    \/ s = "fetch" /\ n = "skeleton"
    \/ s = "skeleton" /\ n \in {"probe", "sysinstall"}
    \/ s = "sysinstall" /\ n = "sysstart"
    \/ s \in {"record", "sysstart"} /\ n = "verify"
    \/ Starting(s, n)

Applying(s, n) ==
    \/ s = "assemble" /\ n = "reload"
    \/ s = "reload" /\ n \in {"term", "sysrestart"}
    \/ Restarting(s, n)

\* Step n may follow step s in a program of op.
Linked(op, s, n) ==
    \/ /\ op \in {"init", "force"}
       /\ \/ s = "backup" /\ op = "force" /\ n = "stash"
          \/ s = "stash" /\ op = "force" /\ n = "load"
          \/ s = "load" /\ n = "reconcile"
          \/ s = "reconcile" /\ n = "detect"
          \/ s = "detect" /\ n = "fetch"
          \/ Booting(s, n)
          \/ s = "verify" /\ n = "end"
    \/ /\ op = "skip"
       /\ \/ s = "backup" /\ n = "stash"
          \/ s = "stash" /\ n = "load"
          \/ s = "load" /\ n = "reconcile"
          \/ s = "reconcile" /\ n = "end"
    \/ /\ op = "uninstall"
       /\ \/ s = "load" /\ n = "choose"
          \/ s = "choose" /\ n = "end"
          \/ s = "term" /\ n = "wait"
          \/ s = "wait" /\ n \in {"term", "wipe"}
          \/ s = "sysstop" /\ n = "sysuninstall"
          \/ s = "sysuninstall" /\ n = "wipe"
          \/ s = "wipe" /\ n = "forget"
          \/ s = "forget" /\ n = "strip"
          \/ s = "strip" /\ n = "end"
    \/ /\ op = "verb"
       /\ \/ s = "load" /\ n = "save"
          \/ s = "save" /\ n = "assemble"
          \/ s = "assemble" /\ n = "nudge"
          \/ s = "nudge" /\ n = "end"
    \/ /\ op = "update"
       /\ \/ s = "load" /\ n = "look"
          \/ s = "look" /\ n = "end"
          \/ s = "term" /\ n = "wait"
          \/ s \in {"wait", "sysstop"} /\ n = "swap"
          \/ s = "swap" /\ n \in {"probe", "sysstart", "end"}
          \/ Starting(s, n)
          \/ s \in {"record", "sysstart"} /\ n = "end"
    \/ /\ op = "launch"
       /\ \/ s = "load" /\ n = "detect"
          \/ s = "detect" /\ n = "ports"
          \/ s = "ports" /\ n = "secure"
          \/ s = "drop" /\ n = "secure"
          \/ s = "secure" /\ n = "assemble"
          \/ s = "assemble" /\ n = "fetch"
          \/ Booting(s, n)
          \/ s = "verify" /\ n = "end"
    \/ /\ op = "relaunch"
       /\ \/ s = "assemble" /\ n = "fetch"
          \/ Booting(s, n)
          \/ s = "verify" /\ n = "assemble"
          \/ Applying(s, n)
          \/ s \in {"record", "sysrestart"} /\ n = "end"
    \/ /\ op = "change"
       /\ \/ s = "save" /\ n = "assemble"
          \/ Applying(s, n)
          \/ s \in {"record", "sysrestart"} /\ n = "end"
    \/ /\ op \in {"start", "restart"}
       /\ Restarting(s, n) \/ (s \in {"record", "sysstart", "sysrestart"} /\ n = "end")
    \/ /\ op \in {"stop", "remove"}
       /\ (s = "term" /\ n = "wait") \/ (s \in {"wait", "sysstop", "sysuninstall"} /\ n = "end")
    \/ op = "core" /\ s = "swap" /\ n = "end"

\* The manager's steps are those of the host's manager, but for a misled uninstall.
Fits(op, s) ==
    /\ Mode = "systemd" => s \notin PidSteps
    /\ Mode = "pid" => s \notin SysSteps /\ (s \in EndSteps => op = "uninstall" /\ misled)

\* Each step is followed by one that may follow it, the last by n.
Leads(op, todo, n) == \A i \in DOMAIN todo :
    /\ Linked(op, todo[i], IF i = Len(todo) THEN n ELSE todo[i + 1])
    /\ Fits(op, todo[i])

Follows(op, todo) == Leads(op, todo, "end")

-----------------------------------------------------------------------------
(* The inductive invariant.                                                *)

Threads == [Thread -> [op : Acts \union {"none"}, todo : Seq(Steps0),
                       pid : Pid \union {NoPid}, failed : BOOLEAN]]

\* Programs are in order, and svc names the host's manager once it is known.
Shape ==
    /\ scope \in Scopes /\ th \in Threads /\ stamp \in Nat
    /\ \A t \in Thread : Follows(th[t].op, th[t].todo)
    /\ store.svc \in {"", Mode} /\ \A h \in Process : mem[h].svc \in {"", Mode}

\* Who may be busy at the same time.
Exclusive == Apart # "none" => \A t, u \in Thread :
    t # u /\ Busy(t) /\ Busy(u) => Apart = "managers" /\ ~(Calls(th[t].op) /\ Calls(th[u].op))

\* systemd has at most its MainPID, and none while the unit is not running.
Unit ==
    /\ Mode = "systemd" => Mihomo \subseteq {main} /\ (unit # "running" => main = NoPid)
    /\ Mode = "pid" => unit = "absent" /\ main = NoPid

\* Where an uninstall has come to, the unit has gone; systemd gives up a mihomo
\* it cannot start only after a crash.
Cleaning == {"wipe", "forget", "strip", "end"}

Installed == Mode = "systemd" /\ Apart # "none" =>
    /\ binary = "none" => unit = "absent"
    /\ crashes = 0 => unit # "failed"
    /\ \A t \in Thread :
         /\ Now(t) \in {"skeleton", "sysinstall"} => binary # "none"
         /\ th[t].op = "uninstall" /\ Now(t) \in Cleaning => unit = "absent"

\* Of one caller at a time the PID file names mihomo, but between fork and record;
\* the children of those killed just there are lost.
Known == Mode = "pid" /\ Apart # "none" /\ ~misled =>
    /\ Mihomo \subseteq {pidFile} \union lost \/ \E t \in Thread : Now(t) = "record"
    /\ \A t \in Thread :
         /\ Now(t) = "wait" => pidFile = th[t].pid
         /\ Now(t) = "spawn" => Mihomo \subseteq lost
         /\ Now(t) = "record" => Mihomo \subseteq {th[t].pid} \union lost
         /\ th[t].op = "uninstall" /\ Now(t) \in Cleaning => Mihomo \subseteq lost

\* Where mihomo answers to its manager.
Counted == IF Mode = "pid" THEN ~misled ELSE crashes = 0

\* An update swaps the binary while no mihomo runs, and starts none before.
Upgraded == Apart # "none" /\ Counted => \A t \in Thread : th[t].op = "update" /\ ~th[t].failed =>
    /\ Now(t) = "swap" => Mihomo \subseteq lost /\ unit # "running"
    /\ Now(t) \in {"probe", "spawn", "record", "sysstart", "end"}
           => binary = "new" /\ \A p \in Mihomo \ lost : proc[p].ver = "new"

\* What a thread that is alone has loaded is the store.
Loaded(t) == /\ th[t].op \in Writers /\ Now(t) \notin {"backup", "stash", "load"}
             /\ ~(th[t].op = "change" /\ Now(t) = "save")

Current == Alone => \A t \in Thread : Loaded(t) => Mine(t) = store /\ store # NoStore

\* The credentials agree once a writer has written, and from its end on; whoever
\* is killed in the middle leaves them to the next one who writes.
Agrees == yaml = NoYaml \/ (store # NoStore /\ yaml.key = store.key)

Unwritten == {"backup", "stash", "load", "reconcile", "save", "ports", "drop", "secure", "assemble"}
Wrote(t) == /\ th[t].op \in Writers /\ Now(t) \notin Unwritten
            /\ ~(th[t].op = "launch" /\ Now(t) = "detect")

Agreed == Alone =>
    /\ ~torn /\ (\A t \in Thread : th[t].op \notin Writers) => Agrees
    /\ \A t \in Thread : Wrote(t) => Agrees
    /\ \A t \in Thread : th[t].op = "uninstall" /\ Now(t) = "forget" => yaml = NoYaml

\* A change and a launch write what they will have mihomo run.
Appliers == {"change", "launch", "relaunch"}
Written == Alone => \A t \in Thread :
    th[t].op \in Appliers /\ Now(t) \notin Unwritten \union {"detect"}
        => yaml = [key |-> Mine(t).key, rev |-> Mine(t).rev]

\* Once it has restarted mihomo, mihomo runs what it wrote.
Ran == Alone /\ ~misled /\ lost = {} => \A t \in Thread :
    th[t].op \in {"change", "relaunch"} /\ (Now(t) = "record" \/ (Now(t) = "end" /\ ~th[t].failed))
        => \A p \in Mihomo : proc[p].cfg = yaml

-----------------------------------------------------------------------------
(* Lists of steps.                                                         *)

\* What is left after the first step follows, and is what may follow it.
LEMMA TailFollows ==
    ASSUME NEW S, NEW op, NEW todo \in Seq(S), NEW n, todo # <<>>, Leads(op, todo, n)
    PROVE  /\ Tail(todo) \in Seq(S) /\ Leads(op, Tail(todo), n)
           /\ Linked(op, Head(todo), IF Tail(todo) = <<>> THEN n ELSE Head(Tail(todo)))
           /\ Fits(op, Head(todo))
<1> DEFINE c == Tail(todo)
           p == Len(todo)
<1>1. p \in Nat /\ p >= 1 /\ c \in Seq(S) /\ Len(c) = p - 1
  BY EmptySeq
<1>2. DOMAIN todo = 1 .. p /\ Head(todo) = todo[1] /\ DOMAIN c = 1 .. p - 1 /\ (c # <<>> => Head(c) = c[1])
  OBVIOUS
<1>3. \A i \in 1 .. p - 1 : c[i] = todo[i + 1]
  OBVIOUS
<1>4. \A i \in 1 .. p : Linked(op, todo[i], IF i = p THEN n ELSE todo[i + 1]) /\ Fits(op, todo[i])
  BY <1>2 DEF Leads
<1>0. Len(<<>>) = 0
  OBVIOUS
<1>5. c = <<>> <=> p = 1
  <2>1. CASE c = <<>>
    <3>1. Len(c) = 0
      BY <1>0, <2>1
    <3> QED  BY <1>1, <2>1, <3>1
  <2>2. CASE c # <<>>
    <3>1. Len(c) # 0
      BY <1>1, <2>2, EmptySeq
    <3> QED  BY <1>1, <2>2, <3>1
  <2> QED  BY <2>1, <2>2
<1> HIDE DEF c, p
<1>6. \A i \in 1 .. p - 1 : Linked(op, c[i], IF i = p - 1 THEN n ELSE c[i + 1]) /\ Fits(op, c[i])
  <2> SUFFICES ASSUME NEW i \in 1 .. p - 1
               PROVE  Linked(op, c[i], IF i = p - 1 THEN n ELSE c[i + 1]) /\ Fits(op, c[i])
    OBVIOUS
  <2>1. i + 1 \in 1 .. p /\ (i + 1 = p <=> i = p - 1) /\ (i + 1) + 1 = i + 2
    BY <1>1
  <2>2. c[i] = todo[i + 1] /\ Linked(op, todo[i + 1], IF i + 1 = p THEN n ELSE todo[i + 2]) /\ Fits(op, todo[i + 1])
    BY <1>3, <1>4, <2>1
  <2>3. i # p - 1 => c[i + 1] = todo[i + 2]
    <3> SUFFICES ASSUME i # p - 1 PROVE c[i + 1] = todo[i + 2]
      OBVIOUS
    <3>1. i + 1 \in 1 .. p - 1
      BY <1>1
    <3> QED  BY <1>3, <2>1, <3>1
  <2> QED  BY <2>1, <2>2, <2>3
<1>7. Leads(op, c, n)
  BY <1>1, <1>2, <1>6 DEF Leads
<1>8. 1 \in 1 .. p /\ (p # 1 => 1 \in 1 .. p - 1)
  BY <1>1
<1>9. Linked(op, todo[1], IF c = <<>> THEN n ELSE Head(c)) /\ Fits(op, todo[1])
  BY <1>2, <1>3, <1>4, <1>5, <1>8
<1> QED  BY <1>1, <1>2, <1>7, <1>9 DEF c

\* A list that leads to the first step of another may be followed by it.
LEMMA Joined ==
    ASSUME NEW S, NEW op, NEW a \in Seq(S), NEW b \in Seq(S), NEW n, b # <<>>,
           Leads(op, a, Head(b)), Leads(op, b, n)
    PROVE  /\ a \o b \in Seq(S) /\ Leads(op, a \o b, n) /\ a \o b # <<>>
           /\ a # <<>> => Head(a \o b) = Head(a)
<1> DEFINE c == a \o b
           p == Len(a)
           q == Len(b)
<1>1. c \in Seq(S) /\ Len(c) = p + q /\ p \in Nat /\ q \in Nat /\ q >= 1
  BY EmptySeq
<1>2. DOMAIN c = 1 .. p + q /\ DOMAIN a = 1 .. p /\ DOMAIN b = 1 .. q /\ Head(b) = b[1]
  OBVIOUS
<1>3. \A i \in 1 .. p : c[i] = a[i]
  OBVIOUS
<1>4. \A i \in 1 .. q : c[p + i] = b[i]
  OBVIOUS
<1>5. /\ \A i \in 1 .. p : Linked(op, a[i], IF i = p THEN b[1] ELSE a[i + 1]) /\ Fits(op, a[i])
      /\ \A i \in 1 .. q : Linked(op, b[i], IF i = q THEN n ELSE b[i + 1]) /\ Fits(op, b[i])
  BY <1>2 DEF Leads
<1> HIDE DEF c, p, q
<1>6. \A i \in 1 .. p + q : Linked(op, c[i], IF i = p + q THEN n ELSE c[i + 1]) /\ Fits(op, c[i])
  <2> SUFFICES ASSUME NEW i \in 1 .. p + q
               PROVE  Linked(op, c[i], IF i = p + q THEN n ELSE c[i + 1]) /\ Fits(op, c[i])
    OBVIOUS
  <2>1. CASE i < p
    <3>1. i \in 1 .. p /\ i + 1 \in 1 .. p /\ i # p /\ i # p + q
      BY <1>1, <2>1
    <3>2. c[i] = a[i] /\ c[i + 1] = a[i + 1]
      BY <1>3, <3>1
    <3> QED  BY <1>5, <3>1, <3>2
  <2>2. CASE i = p
    <3>1. i \in 1 .. p /\ 1 \in 1 .. q /\ i # p + q
      BY <1>1, <2>2
    <3>2. c[i] = a[i] /\ c[p + 1] = b[1]
      BY <1>3, <1>4, <3>1
    <3> QED  BY <1>5, <2>2, <3>1, <3>2
  <2>3. CASE i > p
    <3>1. PICK j \in 1 .. q : i = p + j
      <4>1. i - p \in 1 .. q /\ i = p + (i - p)
        BY <1>1, <2>3
      <4> QED  BY <4>1
    <3>2. c[i] = b[j] /\ (i = p + q <=> j = q)
      BY <1>1, <1>4, <3>1
    <3>3. j # q => c[i + 1] = b[j + 1]
      <4> SUFFICES ASSUME j # q PROVE c[i + 1] = b[j + 1]
        OBVIOUS
      <4>1. j + 1 \in 1 .. q /\ i + 1 = p + (j + 1)
        BY <1>1, <3>1
      <4> QED  BY <1>4, <4>1
    <3>4. CASE j = q
      BY <1>5, <3>1, <3>2, <3>4
    <3>5. CASE j # q
      BY <1>5, <3>1, <3>2, <3>3, <3>5
    <3> QED  BY <3>4, <3>5
  <2> QED  BY <1>1, <2>1, <2>2, <2>3
<1>7. Leads(op, c, n)
  BY <1>1, <1>2, <1>6 DEF Leads
<1>8. c # <<>>
  BY <1>1, EmptySeq
<1>9. a # <<>> => Head(c) = Head(a)
  <2> SUFFICES ASSUME a # <<>> PROVE Head(c) = Head(a)
    OBVIOUS
  <2>1. p # 0 /\ Head(a) = a[1] /\ Head(c) = c[1]
    BY <1>1, <1>8, EmptySeq DEF p
  <2> QED  BY <1>1, <1>3, <2>1
<1> QED  BY <1>1, <1>7, <1>8, <1>9 DEF c

\* The manager of the host is one of two, and the processes are told apart.
LEMMA Modes == ASSUME scope \in Scopes PROVE Mode \in {"pid", "systemd"}
BY HostOK DEF Mode

\* A manager's operations, of a program that may take their steps.
LEMMA StopLeads ==
    ASSUME Mode \in {"pid", "systemd"}, NEW op, NEW n, op # "uninstall",
           op \in {"update", "relaunch", "change", "restart", "stop", "remove"},
           IF Mode = "pid" THEN Linked(op, "wait", n) ELSE Linked(op, "sysstop", n)
    PROVE  /\ StopSteps(Mode) \in Seq(Steps0) /\ Leads(op, StopSteps(Mode), n) /\ StopSteps(Mode) # <<>>
           /\ Head(StopSteps(Mode)) = IF Mode = "pid" THEN "term" ELSE "sysstop"
<1>1. Linked(op, "term", "wait")
  BY DEF Linked, Applying, Restarting
<1>2. CASE Mode = "pid"
  BY <1>1, <1>2 DEF StopSteps, Leads, Fits, Steps0, SysSteps, EndSteps
<1>3. CASE Mode = "systemd"
  BY <1>3 DEF StopSteps, Leads, Fits, Steps0, PidSteps
<1> QED  BY <1>2, <1>3

\* What a manager does to start, before a step that may follow.
LEMMA StartLeads ==
    ASSUME Mode \in {"pid", "systemd"}, NEW op, NEW n,
           Linked(op, "probe", "spawn"), Linked(op, "spawn", "record"),
           IF Mode = "pid" THEN Linked(op, "record", n) ELSE Linked(op, "sysstart", n)
    PROVE  /\ StartSteps(Mode) \in Seq(Steps0) /\ Leads(op, StartSteps(Mode), n) /\ StartSteps(Mode) # <<>>
           /\ Head(StartSteps(Mode)) = IF Mode = "pid" THEN "probe" ELSE "sysstart"
<1>2. CASE Mode = "pid"
  BY <1>2 DEF StartSteps, Leads, Fits, Steps0, SysSteps, EndSteps
<1>3. CASE Mode = "systemd"
  BY <1>3 DEF StartSteps, Leads, Fits, Steps0, PidSteps
<1> QED  BY <1>2, <1>3

\* What it does to restart, at the end of a program.
LEMMA RestartLeads ==
    ASSUME Mode \in {"pid", "systemd"}, NEW op, op \in {"relaunch", "change", "restart"}
    PROVE  /\ RestartSteps(Mode) \in Seq(Steps0) /\ Follows(op, RestartSteps(Mode)) /\ RestartSteps(Mode) # <<>>
           /\ Head(RestartSteps(Mode)) = IF Mode = "pid" THEN "term" ELSE "sysrestart"
<1>1. CASE Mode = "pid"
  <2>1. /\ Linked(op, "wait", "probe") /\ Linked(op, "probe", "spawn") /\ Linked(op, "spawn", "record")
        /\ Linked(op, "record", "end")
    BY DEF Linked, Applying, Restarting, Starting
  <2>2. /\ StopSteps(Mode) \in Seq(Steps0) /\ Leads(op, StopSteps(Mode), "probe") /\ StopSteps(Mode) # <<>>
        /\ Head(StopSteps(Mode)) = "term"
    BY <1>1, <2>1, StopLeads
  <2>3. /\ StartSteps(Mode) \in Seq(Steps0) /\ Leads(op, StartSteps(Mode), "end") /\ StartSteps(Mode) # <<>>
        /\ Head(StartSteps(Mode)) = "probe"
    BY <1>1, <2>1, StartLeads
  <2>4. RestartSteps(Mode) = StopSteps(Mode) \o StartSteps(Mode)
    BY <1>1 DEF RestartSteps
  <2> DEFINE a == StopSteps(Mode)
             b == StartSteps(Mode)
  <2>5. /\ a \in Seq(Steps0) /\ b \in Seq(Steps0) /\ b # <<>> /\ a # <<>> /\ Head(a) = "term"
        /\ Leads(op, a, Head(b)) /\ Leads(op, b, "end") /\ RestartSteps(Mode) = a \o b
    BY <2>2, <2>3, <2>4
  <2> HIDE DEF a, b
  <2>6. a \o b \in Seq(Steps0) /\ Leads(op, a \o b, "end") /\ a \o b # <<>> /\ Head(a \o b) = "term"
    BY <2>5, Joined
  <2> QED  BY <1>1, <2>5, <2>6 DEF Follows
<1>2. CASE Mode = "systemd"
  BY <1>2 DEF RestartSteps, Follows, Leads, Fits, Steps0, PidSteps, Linked, Applying
<1> QED  BY <1>1, <1>2

\* A change of the configuration, at the end of a program.
LEMMA ApplyLeads ==
    ASSUME Mode \in {"pid", "systemd"}, NEW op, op \in {"relaunch", "change"}
    PROVE  Apply \in Seq(Steps0) /\ Follows(op, Apply) /\ Apply # <<>> /\ Head(Apply) = "assemble"
<1> DEFINE s == <<"assemble", "reload">>
<1>1. /\ RestartSteps(Mode) \in Seq(Steps0) /\ Follows(op, RestartSteps(Mode)) /\ RestartSteps(Mode) # <<>>
      /\ Head(RestartSteps(Mode)) = IF Mode = "pid" THEN "term" ELSE "sysrestart"
  BY RestartLeads
<1>2. s \in Seq(Steps0) /\ s # <<>> /\ Head(s) = "assemble"
  BY DEF Steps0
<1>3. Leads(op, s, Head(RestartSteps(Mode)))
  BY <1>1 DEF Leads, Fits, Linked, Applying, PidSteps, SysSteps, EndSteps
<1>4. Apply = s \o RestartSteps(Mode)
  BY DEF Apply
<1> DEFINE b == RestartSteps(Mode)
<1>5. b \in Seq(Steps0) /\ b # <<>> /\ Leads(op, s, Head(b)) /\ Leads(op, b, "end")
  BY <1>1, <1>3 DEF Follows
<1> HIDE DEF b, s
<1>6. s \o b \in Seq(Steps0) /\ Leads(op, s \o b, "end") /\ s \o b # <<>> /\ Head(s \o b) = "assemble"
  BY <1>2, <1>5, Joined
<1> QED  BY <1>4, <1>6 DEF Follows, b

\* The first start, at the end of a program.
LEMMA BootLeads ==
    ASSUME Mode \in {"pid", "systemd"}, NEW op, op \in {"init", "force", "launch"}
    PROVE  Boot \in Seq(Steps0) /\ Follows(op, Boot) /\ Boot # <<>> /\ Head(Boot) = "fetch"
<1> DEFINE a == <<"fetch", "skeleton">>
           b == InstallSteps(Mode)
           c == StartSteps(Mode)
           d == <<"verify">>
<1>1. d \in Seq(Steps0) /\ Follows(op, d) /\ d # <<>> /\ Head(d) = "verify"
  BY DEF Steps0, Follows, Leads, Fits, Linked, PidSteps, SysSteps, EndSteps
<1>2. /\ Linked(op, "probe", "spawn") /\ Linked(op, "spawn", "record") /\ Linked(op, "record", "verify")
      /\ Linked(op, "sysstart", "verify")
  BY DEF Linked, Booting, Starting
<1>3. /\ c \in Seq(Steps0) /\ Leads(op, c, "verify") /\ c # <<>>
      /\ Head(c) = IF Mode = "pid" THEN "probe" ELSE "sysstart"
  BY <1>2, StartLeads
<1>4. a \in Seq(Steps0) /\ Leads(op, a, IF Mode = "pid" THEN "probe" ELSE "sysinstall") /\ a # <<>> /\ Head(a) = "fetch"
  BY DEF Steps0, Leads, Fits, Linked, Booting, PidSteps, SysSteps, EndSteps
<1>5. b = IF Mode = "pid" THEN <<>> ELSE <<"sysinstall">>
  BY DEF InstallSteps
<1>6. a \o b \in Seq(Steps0) /\ Leads(op, a \o b, Head(c)) /\ a \o b # <<>> /\ Head(a \o b) = "fetch"
  <2>1. CASE Mode = "pid"
    <3>1. a \o b = a
      BY <1>5, <2>1
    <3> QED  BY <1>3, <1>4, <2>1, <3>1
  <2>2. CASE Mode = "systemd"
    <3>1. b \in Seq(Steps0) /\ Leads(op, b, "sysstart") /\ b # <<>> /\ Head(b) = "sysinstall"
      BY <1>5, <2>2 DEF Steps0, Leads, Fits, Linked, Booting, PidSteps
    <3> HIDE DEF a, b
    <3> QED  BY <1>3, <1>4, <2>2, <3>1, Joined
  <2> QED  BY <2>1, <2>2
<1> DEFINE e == a \o b
<1>7. e \o c \in Seq(Steps0) /\ Leads(op, e \o c, "verify") /\ e \o c # <<>> /\ Head(e \o c) = "fetch"
  <2>1. e \in Seq(Steps0) /\ Leads(op, e, Head(c)) /\ e # <<>> /\ Head(e) = "fetch"
    BY <1>6
  <2> HIDE DEF e, c
  <2> QED  BY <1>3, <2>1, Joined
<1> DEFINE f == e \o c
<1>8. f \o d \in Seq(Steps0) /\ Leads(op, f \o d, "end") /\ f \o d # <<>> /\ Head(f \o d) = "fetch"
  <2>1. f \in Seq(Steps0) /\ Leads(op, f, Head(d)) /\ f # <<>> /\ Head(f) = "fetch"
    BY <1>1, <1>7
  <2>2. Leads(op, d, "end")
    BY <1>1 DEF Follows
  <2> HIDE DEF f, d
  <2> QED  BY <1>1, <2>1, <2>2, Joined
<1>9. Boot = f \o d
  BY DEF Boot
<1> QED  BY <1>8, <1>9 DEF Follows

\* The commands.
Commands == Verbs \union {"update", "launch", "change", "start", "stop", "restart", "remove", "core"}

\* Where a program begins.
FirstStep(op) ==
    CASE op \in {"init", "uninstall", "verb", "update", "launch"} -> "load"
      [] op \in {"force", "skip"} -> "backup"
      [] op = "change" -> "save"
      [] op = "core" -> "swap"
      [] op = "start" -> (IF Mode = "pid" THEN "probe" ELSE "sysstart")
      [] op = "stop" -> (IF Mode = "pid" THEN "term" ELSE "sysstop")
      [] op = "restart" -> (IF Mode = "pid" THEN "term" ELSE "sysrestart")
      [] op = "remove" -> (IF Mode = "pid" THEN "term" ELSE "sysuninstall")

\* Every program is in order, and begins where FirstStep says.
LEMMA ProgramLeads ==
    ASSUME Mode \in {"pid", "systemd"}, NEW op \in Commands
    PROVE  /\ Program(op) \in Seq(Steps0) /\ Follows(op, Program(op)) /\ Program(op) # <<>>
           /\ Head(Program(op)) = FirstStep(op)
<1>1. ASSUME NEW s, NEW b, s \in Seq(Steps0), s # <<>>, Head(s) = FirstStep(op), b \in Seq(Steps0), b # <<>>,
             Leads(op, s, Head(b)), Follows(op, b), Program(op) = s \o b
      PROVE  /\ Program(op) \in Seq(Steps0) /\ Follows(op, Program(op)) /\ Program(op) # <<>>
             /\ Head(Program(op)) = FirstStep(op)
  <2>1. Leads(op, b, "end")
    BY <1>1 DEF Follows
  <2>2. s \o b \in Seq(Steps0) /\ Leads(op, s \o b, "end") /\ s \o b # <<>> /\ Head(s \o b) = FirstStep(op)
    BY <1>1, <2>1, Joined
  <2> QED  BY <1>1, <2>2 DEF Follows
<1>2. CASE op \in {"init", "force", "launch"}
  <2>1. Boot \in Seq(Steps0) /\ Follows(op, Boot) /\ Boot # <<>> /\ Head(Boot) = "fetch"
    BY <1>2, BootLeads
  <2>2. CASE op = "init"
    <3> DEFINE s == <<"load", "reconcile", "detect">>
    <3>1. s \in Seq(Steps0) /\ s # <<>> /\ Head(s) = FirstStep(op) /\ Leads(op, s, Head(Boot))
      BY <2>1, <2>2 DEF Steps0, FirstStep, Leads, Linked, Fits, PidSteps, SysSteps, EndSteps
    <3>2. Program(op) = s \o Boot
      BY <2>2 DEF Program
    <3> HIDE DEF s
    <3> QED  BY <1>1, <2>1, <3>1, <3>2
  <2>3. CASE op = "force"
    <3> DEFINE s == <<"backup", "stash", "load", "reconcile", "detect">>
    <3>1. s \in Seq(Steps0) /\ s # <<>> /\ Head(s) = FirstStep(op) /\ Leads(op, s, Head(Boot))
      BY <2>1, <2>3 DEF Steps0, FirstStep, Leads, Linked, Fits, PidSteps, SysSteps, EndSteps
    <3>2. Program(op) = s \o Boot
      BY <2>3 DEF Program
    <3> HIDE DEF s
    <3> QED  BY <1>1, <2>1, <3>1, <3>2
  <2>4. CASE op = "launch"
    <3> DEFINE s == <<"load", "detect", "ports", "secure", "assemble">>
    <3>1. s \in Seq(Steps0) /\ s # <<>> /\ Head(s) = FirstStep(op) /\ Leads(op, s, Head(Boot))
      BY <2>1, <2>4 DEF Steps0, FirstStep, Leads, Linked, Fits, PidSteps, SysSteps, EndSteps
    <3>2. Program(op) = s \o Boot
      BY <2>4 DEF Program
    <3> HIDE DEF s
    <3> QED  BY <1>1, <2>1, <3>1, <3>2
  <2> QED  BY <1>2, <2>2, <2>3, <2>4
<1>3. CASE op = "change"
  <2>1. Apply \in Seq(Steps0) /\ Follows(op, Apply) /\ Apply # <<>> /\ Head(Apply) = "assemble"
    BY <1>3, ApplyLeads
  <2> DEFINE s == <<"save">>
  <2>2. s \in Seq(Steps0) /\ s # <<>> /\ Head(s) = FirstStep(op) /\ Leads(op, s, Head(Apply))
    BY <2>1, <1>3 DEF Steps0, FirstStep, Leads, Linked, Fits, PidSteps, SysSteps, EndSteps
  <2>3. Program(op) = s \o Apply
    BY <1>3 DEF Program
  <2> HIDE DEF s
  <2> QED  BY <1>1, <2>1, <2>2, <2>3
<1>4. CASE op \in {"skip", "uninstall", "verb", "update", "core"}
  <2>1. CASE op = "skip"
    <3>1. Program(op) = <<"backup", "stash", "load", "reconcile">> /\ FirstStep(op) = "backup"
      BY <2>1 DEF Program, FirstStep
    <3>2. Follows(op, <<"backup", "stash", "load", "reconcile">>)
      BY <2>1 DEF Follows, Leads, Linked, Fits, PidSteps, SysSteps, EndSteps
    <3> QED  BY <3>1, <3>2 DEF Steps0
  <2>2. CASE op = "uninstall"
    <3>1. Program(op) = <<"load", "choose">> /\ FirstStep(op) = "load"
      BY <2>2 DEF Program, FirstStep
    <3>2. Follows(op, <<"load", "choose">>)
      BY <2>2 DEF Follows, Leads, Linked, Fits, PidSteps, SysSteps, EndSteps
    <3> QED  BY <3>1, <3>2 DEF Steps0
  <2>3. CASE op = "verb"
    <3>1. Program(op) = <<"load", "save", "assemble", "nudge">> /\ FirstStep(op) = "load"
      BY <2>3 DEF Program, FirstStep
    <3>2. Follows(op, <<"load", "save", "assemble", "nudge">>)
      BY <2>3 DEF Follows, Leads, Linked, Fits, PidSteps, SysSteps, EndSteps
    <3> QED  BY <3>1, <3>2 DEF Steps0
  <2>4. CASE op = "update"
    <3>1. Program(op) = <<"load", "look">> /\ FirstStep(op) = "load"
      BY <2>4 DEF Program, FirstStep
    <3>2. Follows(op, <<"load", "look">>)
      BY <2>4 DEF Follows, Leads, Linked, Fits, PidSteps, SysSteps, EndSteps
    <3> QED  BY <3>1, <3>2 DEF Steps0
  <2>5. CASE op = "core"
    <3>1. Program(op) = <<"swap">> /\ FirstStep(op) = "swap"
      BY <2>5 DEF Program, FirstStep
    <3>2. Follows(op, <<"swap">>)
      BY <2>5 DEF Follows, Leads, Linked, Fits, PidSteps, SysSteps, EndSteps
    <3> QED  BY <3>1, <3>2 DEF Steps0
  <2> QED  BY <1>4, <2>1, <2>2, <2>3, <2>4, <2>5
<1>5. CASE op = "start"
  <2>1. /\ Linked(op, "probe", "spawn") /\ Linked(op, "spawn", "record")
        /\ Linked(op, "record", "end") /\ Linked(op, "sysstart", "end")
    BY <1>5 DEF Linked, Restarting, Starting
  <2> QED  BY <1>5, <2>1, StartLeads DEF Program, FirstStep, Follows
<1>6. CASE op = "stop"
  <2>1. Linked(op, "wait", "end") /\ Linked(op, "sysstop", "end")
    BY <1>6 DEF Linked
  <2> QED  BY <1>6, <2>1, StopLeads DEF Program, FirstStep, Follows
<1>7. CASE op = "restart"
  BY <1>7, RestartLeads DEF Program, FirstStep
<1>8. CASE op = "remove"
  <2>1. CASE Mode = "pid"
    <3>1. Linked(op, "wait", "end") /\ Linked(op, "sysstop", "end")
      BY <1>8 DEF Linked
    <3>2. Program(op) = StopSteps(Mode)
      BY <1>8, <2>1 DEF Program, UninstallSteps
    <3> QED  BY <1>8, <2>1, <3>1, <3>2, StopLeads DEF FirstStep, Follows
  <2>2. CASE Mode = "systemd"
    <3>1. Program(op) = <<"sysuninstall">> /\ FirstStep(op) = "sysuninstall"
      BY <1>8, <2>2 DEF Program, UninstallSteps, FirstStep
    <3>2. Follows(op, <<"sysuninstall">>)
      BY <1>8, <2>2 DEF Follows, Leads, Linked, Fits, PidSteps
    <3> QED  BY <3>1, <3>2 DEF Steps0
  <2> QED  BY <2>1, <2>2
<1> QED  BY <1>2, <1>3, <1>4, <1>5, <1>6, <1>7, <1>8 DEF Commands, Verbs

-----------------------------------------------------------------------------
(* What a step does to its thread.                                         *)

\* The other threads stay where they are.
Others(t) == \A u \in Thread : u # t => th'[u] = th[u]

\* Thread t goes on in its program, from one step to its next one ...
Turns(t, s, n) ==
    /\ th' \in Threads /\ Others(t) /\ Now(t) = s /\ s \in Steps0 /\ First(th'[t].todo) = n
    /\ th'[t].op = th[t].op \/ (s = "secure" /\ th[t].op = "launch" /\ th'[t].op = "relaunch")
    /\ Fits(th[t].op, s) /\ \E m : Linked(th[t].op, s, m)

Moves(t, s, n) == Turns(t, s, n) /\ Follows(th'[t].op, th'[t].todo)

\* ... that follows ...
Passes(t, s, n) ==
    Moves(t, s, n) /\ Linked(th[t].op, s, n) /\ th'[t].pid = th[t].pid /\ th'[t].failed = th[t].failed

\* ... or because a start has failed ...
Stumbles(t, s, n) ==
    /\ Moves(t, s, n) /\ th'[t].pid = th[t].pid
    /\ n \in {"verify", "end"} /\ (n = "end" => th'[t].failed)
    /\ n = "verify" => th[t].op \in {"init", "force", "launch", "relaunch"}

\* ... or whatever has failed ...
Misses(t, s, n) == Moves(t, s, n) /\ Linked(th[t].op, s, n) /\ th'[t].pid = th[t].pid /\ th'[t].failed

\* ... or because the bootstrap has.
Falls(t, s, n) ==
    /\ Moves(t, s, n) /\ th'[t].pid = th[t].pid /\ th'[t].failed
    /\ n \in {"assemble", "end"} /\ (n = "assemble" => th[t].op \in {"launch", "relaunch"})

\* Every list that follows keeps doing so.
LEMMA FollowsOn ==
    ASSUME scope' = scope, misled => misled'
    PROVE  \A op, todo : Follows(op, todo) => Follows(op, todo)'
BY DEF Follows, Leads, Fits, Mode

\* What remains of a list from one of its steps on.
LEMMA FromFollows ==
    ASSUME NEW t \in Thread, th \in Threads, Follows(th[t].op, th[t].todo), NEW s
    PROVE  /\ From(t, s) \in Seq(Steps0) /\ Follows(th[t].op, From(t, s))
           /\ From(t, s) # <<>> => Head(From(t, s)) = s /\ \E m : Linked(th[t].op, s, m)
<1> DEFINE todo == th[t].todo
           op == th[t].op
           k == CHOOSE i \in DOMAIN todo : todo[i] = s
           c == SubSeq(todo, k, Len(todo))
           p == Len(todo)
<1>1. todo \in Seq(Steps0) /\ p \in Nat /\ DOMAIN todo = 1 .. p
  BY DEF Threads
<1>2. CASE s \in ToSet(todo)
  <2>1. k \in 1 .. p /\ todo[k] = s
    BY <1>1, <1>2 DEF ToSet
  <2>2. From(t, s) = c
    BY <1>2 DEF From
  <2>3. \A i \in 1 .. p : Linked(op, todo[i], IF i = p THEN "end" ELSE todo[i + 1]) /\ Fits(op, todo[i])
    BY <1>1 DEF Follows, Leads
  <2> HIDE DEF k
  <2>4. c \in Seq(Steps0) /\ Len(c) = p - k + 1 /\ DOMAIN c = 1 .. p - k + 1
    <3> HIDE DEF todo
    <3> QED  BY <1>1, <2>1
  <2>5. \A i \in 1 .. p - k + 1 : c[i] = todo[k + i - 1]
    <3> HIDE DEF todo
    <3> QED  BY <1>1, <2>1
  <2> HIDE DEF c, todo, op, p
  <2>6. \A i \in 1 .. p - k + 1 : Linked(op, c[i], IF i = p - k + 1 THEN "end" ELSE c[i + 1]) /\ Fits(op, c[i])
    <3> SUFFICES ASSUME NEW i \in 1 .. p - k + 1
                 PROVE  Linked(op, c[i], IF i = p - k + 1 THEN "end" ELSE c[i + 1]) /\ Fits(op, c[i])
      OBVIOUS
    <3>1. PICK j \in 1 .. p : j = k + i - 1
      <4>1. k + i - 1 \in 1 .. p
        BY <1>1, <2>1
      <4> QED  BY <4>1
    <3>2. c[i] = todo[j] /\ (i = p - k + 1 <=> j = p)
      BY <1>1, <2>1, <2>5, <3>1
    <3>3. j # p => c[i + 1] = todo[j + 1]
      <4> SUFFICES ASSUME j # p PROVE c[i + 1] = todo[j + 1]
        OBVIOUS
      <4>1. i + 1 \in 1 .. p - k + 1 /\ k + (i + 1) - 1 = j + 1
        BY <1>1, <2>1, <3>1, <3>2
      <4> QED  BY <2>5, <4>1
    <3> QED  BY <2>3, <3>1, <3>2, <3>3
  <2>7. Follows(op, c)
    BY <2>4, <2>6 DEF Follows, Leads
  <2>8. c # <<>> /\ Head(c) = c[1] /\ c[1] = todo[k]
    <3>1. Len(c) # 0 /\ 1 \in 1 .. p - k + 1 /\ k + 1 - 1 = k
      BY <1>1, <2>1, <2>4
    <3>2. c # <<>>
      BY <2>4, <3>1, EmptySeq
    <3> QED  BY <2>4, <2>5, <3>1, <3>2
  <2> QED  BY <2>1, <2>2, <2>3, <2>4, <2>7, <2>8 DEF op
<1>3. CASE s \notin ToSet(todo)
  <2>1. From(t, s) = <<>>
    BY <1>3 DEF From
  <2> QED  BY <2>1 DEF Follows, Leads
<1> QED  BY <1>2, <1>3

\* The next step.
LEMMA NextPasses ==
    ASSUME NEW t \in Thread, th \in Threads, Follows(th[t].op, th[t].todo), NEW s, At(t, s), th' = Next1(t)
    PROVE  Passes(t, s, First(th'[t].todo)) /\ th'[t].todo = Tail(th[t].todo)
<1> DEFINE todo == th[t].todo
           op == th[t].op
<1>1. todo \in Seq(Steps0) /\ todo # <<>> /\ Head(todo) = s /\ op \in Acts \union {"none"}
  BY DEF At, Threads
<1>2. Leads(op, todo, "end")
  BY DEF Follows
<1>3. /\ Tail(todo) \in Seq(Steps0) /\ Leads(op, Tail(todo), "end")
      /\ Linked(op, Head(todo), IF Tail(todo) = <<>> THEN "end" ELSE Head(Tail(todo)))
      /\ Fits(op, Head(todo))
  <2> HIDE DEF todo, op
  <2> QED  BY <1>1, <1>2, TailFollows
<1>4. /\ th' \in Threads /\ Others(t) /\ th'[t] = [th[t] EXCEPT !.todo = Tail(todo)]
  BY <1>1, <1>3 DEF Next1, Todo, Others, Threads
<1>5. th'[t].todo = Tail(todo) /\ th'[t].op = op /\ th'[t].pid = th[t].pid /\ th'[t].failed = th[t].failed
  BY <1>4 DEF Threads
<1>6. s \in Steps0
  BY <1>1
<1> QED  BY <1>1, <1>3, <1>4, <1>5, <1>6 DEF Passes, Moves, Turns, Now, First, Follows

\* A start that fails.
LEMMA FailsStumbles ==
    ASSUME NEW t \in Thread, th \in Threads, Follows(th[t].op, th[t].todo), NEW s, At(t, s), th' = StartFails(t)
    PROVE  Stumbles(t, s, First(th'[t].todo))
<1> DEFINE todo == th[t].todo
           op == th[t].op
           c == From(t, "verify")
<1>1. todo \in Seq(Steps0) /\ todo # <<>> /\ Head(todo) = s /\ op \in Acts \union {"none"} /\ th[t].failed \in BOOLEAN
  BY DEF At, Threads
<1>2. Leads(op, todo, "end")
  BY DEF Follows
<1>3. Fits(op, s) /\ \E m : Linked(op, s, m)
  <2> HIDE DEF todo, op
  <2> QED  BY <1>1, <1>2, TailFollows
<1>4. /\ c \in Seq(Steps0) /\ Follows(op, c)
      /\ c # <<>> => Head(c) = "verify" /\ \E m : Linked(op, "verify", m)
  BY FromFollows
<1>5. (\E m : Linked(op, "verify", m)) => op \in {"init", "force", "launch", "relaunch"}
  BY DEF Linked, Booting, Applying, Restarting, Starting
<1> HIDE DEF c
<1> DEFINE f == th[t].failed \/ c = <<>>
           r == [th[t] EXCEPT !.todo = c, !.failed = f]
<1>6. th' = [th EXCEPT ![t] = r]
  BY DEF StartFails, c, Threads
<1>9. f \in BOOLEAN /\ (c = <<>> => f = TRUE)
  OBVIOUS
<1> HIDE DEF f
<1>10. /\ r \in [op : Acts \union {"none"}, todo : Seq(Steps0), pid : Pid \union {NoPid}, failed : BOOLEAN]
       /\ r.todo = c /\ r.op = op /\ r.pid = th[t].pid /\ r.failed = f
  BY <1>4, <1>9 DEF Threads
<1> HIDE DEF r
<1>7. /\ th' \in Threads /\ Others(t) /\ th'[t].todo = c /\ th'[t].op = op /\ th'[t].pid = th[t].pid
      /\ c = <<>> => th'[t].failed
  BY <1>6, <1>9, <1>10 DEF Others, Threads
<1>8. s \in Steps0
  BY <1>1
<1> QED  BY <1>1, <1>3, <1>4, <1>5, <1>7, <1>8 DEF Stumbles, Moves, Turns, Now, First

\* A bootstrap that fails.
LEMMA FailsFalls ==
    ASSUME NEW t \in Thread, th \in Threads, Follows(th[t].op, th[t].todo), NEW s, At(t, s),
           s \in {"fetch", "sysinstall"}, th' = BootFails(t)
    PROVE  Falls(t, s, First(th'[t].todo))
<1> DEFINE todo == th[t].todo
           op == th[t].op
           c == From(t, "assemble")
<1>1. todo \in Seq(Steps0) /\ todo # <<>> /\ Head(todo) = s /\ op \in Acts \union {"none"} /\ th[t].failed \in BOOLEAN
  BY DEF At, Threads
<1>2. Leads(op, todo, "end")
  BY DEF Follows
<1>3. Fits(op, s) /\ \E m : Linked(op, s, m)
  <2> HIDE DEF todo, op
  <2> QED  BY <1>1, <1>2, TailFollows
<1>4. /\ c \in Seq(Steps0) /\ Follows(op, c)
      /\ c # <<>> => Head(c) = "assemble" /\ \E m : Linked(op, "assemble", m)
  BY FromFollows
<1>5. op \in {"init", "force", "launch", "relaunch"} /\ ((\E m : Linked(op, "assemble", m)) => op \in {"launch", "relaunch"})
  BY <1>3 DEF Linked, Booting, Applying, Restarting, Starting
<1> HIDE DEF c
<1>6. /\ th' \in Threads /\ Others(t) /\ th'[t] = [th[t] EXCEPT !.todo = c, !.failed = TRUE]
  BY <1>1, <1>4 DEF BootFails, Others, Threads, c
<1>7. th'[t].todo = c /\ th'[t].op = op /\ th'[t].pid = th[t].pid /\ th'[t].failed
  BY <1>6 DEF Threads
<1> QED  BY <1>1, <1>3, <1>4, <1>5, <1>6, <1>7 DEF Falls, Moves, Turns, Now, First

\* A list of steps in the place of the rest.
LEMMA TodoMoves ==
    ASSUME NEW t \in Thread, th \in Threads, Follows(th[t].op, th[t].todo), NEW s, At(t, s),
           NEW x \in Seq(Steps0), Follows(th[t].op, x), th' = Todo(t, x)
    PROVE  /\ Moves(t, s, First(x)) /\ th'[t].todo = x
           /\ th'[t].pid = th[t].pid /\ th'[t].failed = th[t].failed
<1> DEFINE todo == th[t].todo
           op == th[t].op
<1>1. todo \in Seq(Steps0) /\ todo # <<>> /\ Head(todo) = s /\ op \in Acts \union {"none"}
  BY DEF At, Threads
<1>2. Leads(op, todo, "end")
  BY DEF Follows
<1>3. Fits(op, s) /\ \E m : Linked(op, s, m)
  <2> HIDE DEF todo, op
  <2> QED  BY <1>1, <1>2, TailFollows
<1>4. /\ th' \in Threads /\ Others(t) /\ th'[t] = [th[t] EXCEPT !.todo = x]
  BY <1>1 DEF Todo, Others, Threads
<1>5. th'[t].todo = x /\ th'[t].op = op /\ th'[t].pid = th[t].pid /\ th'[t].failed = th[t].failed
  BY <1>4 DEF Threads
<1>6. s \in Steps0
  BY <1>1
<1> QED  BY <1>1, <1>3, <1>4, <1>5, <1>6 DEF Moves, Turns, Now, First

\* The empty list follows.
LEMMA EmptyFollows == <<>> \in Seq(Steps0) /\ First(<<>>) = "end" /\ \A op : Follows(op, <<>>)
<1>1. DOMAIN <<>> = {}
  OBVIOUS
<1> QED  BY <1>1 DEF First, Follows, Leads

\* A thread that gives up.
LEMMA GiveUpMoves ==
    ASSUME NEW t \in Thread, th \in Threads, Follows(th[t].op, th[t].todo), NEW s, At(t, s), GiveUp(t)
    PROVE  Moves(t, s, "end") /\ th'[t].pid = th[t].pid /\ th'[t].failed
<1> DEFINE todo == th[t].todo
           op == th[t].op
<1>1. todo \in Seq(Steps0) /\ todo # <<>> /\ Head(todo) = s /\ op \in Acts \union {"none"}
  BY DEF At, Threads
<1>2. Leads(op, todo, "end")
  BY DEF Follows
<1>3. Fits(op, s) /\ \E m : Linked(op, s, m)
  <2> HIDE DEF todo, op
  <2> QED  BY <1>1, <1>2, TailFollows
<1>4. /\ th' \in Threads /\ Others(t) /\ th'[t] = [th[t] EXCEPT !.todo = <<>>, !.failed = TRUE]
  BY <1>1, EmptyFollows DEF GiveUp, Others, Threads
<1>5. th'[t].todo = <<>> /\ th'[t].op = op /\ th'[t].pid = th[t].pid /\ th'[t].failed
  BY <1>4 DEF Threads
<1>6. s \in Steps0
  BY <1>1
<1> QED  BY <1>1, <1>3, <1>4, <1>5, <1>6, EmptyFollows DEF Moves, Turns, Now, First

\* A thread that goes on with its number of a process set.
LEMMA PidPasses ==
    ASSUME NEW t \in Thread, th \in Threads, Follows(th[t].op, th[t].todo), NEW s, At(t, s),
           NEW p \in Pid \union {NoPid}, th' = [Next1(t) EXCEPT ![t].pid = p]
    PROVE  /\ Moves(t, s, First(th'[t].todo)) /\ Linked(th[t].op, s, First(th'[t].todo))
           /\ th'[t].pid = p /\ th'[t].failed = th[t].failed
<1> DEFINE todo == th[t].todo
           op == th[t].op
<1>1. todo \in Seq(Steps0) /\ todo # <<>> /\ Head(todo) = s /\ op \in Acts \union {"none"}
  BY DEF At, Threads
<1>2. Leads(op, todo, "end")
  BY DEF Follows
<1>3. /\ Tail(todo) \in Seq(Steps0) /\ Leads(op, Tail(todo), "end")
      /\ Linked(op, Head(todo), IF Tail(todo) = <<>> THEN "end" ELSE Head(Tail(todo)))
      /\ Fits(op, Head(todo))
  <2> HIDE DEF todo, op
  <2> QED  BY <1>1, <1>2, TailFollows
<1>4. /\ th' \in Threads /\ Others(t) /\ th'[t] = [th[t] EXCEPT !.todo = Tail(todo), !.pid = p]
  BY <1>1, <1>3 DEF Next1, Todo, Others, Threads
<1>5. th'[t].todo = Tail(todo) /\ th'[t].op = op /\ th'[t].pid = p /\ th'[t].failed = th[t].failed
  BY <1>4 DEF Threads
<1>6. s \in Steps0
  BY <1>1
<1> QED  BY <1>1, <1>3, <1>4, <1>5, <1>6 DEF Moves, Turns, Now, First, Follows

\* A thread that goes on after something has failed.
LEMMA NextMisses ==
    ASSUME NEW t \in Thread, th \in Threads, Follows(th[t].op, th[t].todo), NEW s, At(t, s),
           th' = [Next1(t) EXCEPT ![t].failed = TRUE]
    PROVE  Misses(t, s, First(th'[t].todo))
<1> DEFINE todo == th[t].todo
           op == th[t].op
<1>1. todo \in Seq(Steps0) /\ todo # <<>> /\ Head(todo) = s /\ op \in Acts \union {"none"}
  BY DEF At, Threads
<1>2. Leads(op, todo, "end")
  BY DEF Follows
<1>3. /\ Tail(todo) \in Seq(Steps0) /\ Leads(op, Tail(todo), "end")
      /\ Linked(op, Head(todo), IF Tail(todo) = <<>> THEN "end" ELSE Head(Tail(todo)))
      /\ Fits(op, Head(todo))
  <2> HIDE DEF todo, op
  <2> QED  BY <1>1, <1>2, TailFollows
<1>4. /\ th' \in Threads /\ Others(t) /\ th'[t] = [th[t] EXCEPT !.todo = Tail(todo), !.failed = TRUE]
  BY <1>1, <1>3 DEF Next1, Todo, Others, Threads
<1>5. th'[t].todo = Tail(todo) /\ th'[t].op = op /\ th'[t].pid = th[t].pid /\ th'[t].failed
  BY <1>4 DEF Threads
<1>6. s \in Steps0
  BY <1>1
<1> QED  BY <1>1, <1>3, <1>4, <1>5, <1>6 DEF Misses, Moves, Turns, Now, First, Follows

-----------------------------------------------------------------------------
(* What a step does to the processes.                                      *)

\* No mihomo is new, and those left are as they were.
Fewer == Mihomo' \subseteq Mihomo /\ \A p \in Mihomo' : proc'[p] = proc[p]

Procs == [Pid -> [kind : {"free", "mihomo", "zombie"}, home : Process \union {"init"},
                  ver : {"none", "old", "new"}, cfg : Content]]

\* A set of numbers that is not empty has a least one.
LEMMA LeastExists ==
    ASSUME NEW T, T \subseteq Nat, T # {}
    PROVE  \E x \in T : \A y \in T : x <= y
<1>1. PICK n \in T : n \in Nat
  OBVIOUS
<1> DEFINE S == 0 .. n
           upTo(x) == T \intersect 0 .. x
           F == {upTo(x) : x \in T \intersect S}
<1>2. IsFiniteSet(S)
  BY <1>1, FS_Interval
<1>3. IsWellFoundedOn(StrictSubsetOrdering(S), SUBSET S)
  BY <1>2, FS_StrictSubsetOrderingWellFounded, FS_FiniteSubsetsOfFinite
<1>4. F \subseteq SUBSET S /\ F # {}
  <2>1. upTo(n) \in F
    BY <1>1
  <2>2. \A x \in T \intersect S : upTo(x) \subseteq S
    BY <1>1
  <2> QED  BY <2>1, <2>2
<1>5. PICK A \in F : \A B \in F : ~(<<B, A>> \in StrictSubsetOrdering(S))
  <2> HIDE DEF F, S
  <2> QED  BY <1>3, <1>4, WFMin
<1>6. PICK x \in T \intersect S : A = upTo(x)
  BY <1>5
<1>7. \A y \in T : x <= y
  <2> SUFFICES ASSUME NEW y \in T, ~(x <= y) PROVE FALSE
    OBVIOUS
  <2>1. x \in Nat /\ y \in Nat /\ y < x /\ y \in S
    BY <1>1, <1>6
  <2>2. upTo(y) \in F /\ upTo(y) \subseteq A /\ x \in A /\ x \notin upTo(y)
    BY <1>6, <2>1
  <2>3. <<upTo(y), A>> \in StrictSubsetOrdering(S)
    <3> HIDE DEF F, upTo
    <3> QED  BY <1>4, <1>5, <2>2 DEF StrictSubsetOrdering
  <2> QED  BY <1>5, <2>2, <2>3
<1> QED  BY <1>6, <1>7

\* There is an id for a new process, and nobody names it.
LEMMA FreshExists ==
    ASSUME Unnamed # {}
    PROVE  FreshPid \in Unnamed /\ FreshPid \in Pid /\ FreshPid \notin Named
<1>1. Unnamed \subseteq Nat
  BY ServiceOK DEF Unnamed
<1>2. \E p \in Unnamed : \A q \in Unnamed : p <= q
  <2> HIDE DEF Unnamed
  <2> QED  BY <1>1, LeastExists
<1>3. FreshPid \in Unnamed
  BY <1>2 DEF FreshPid
<1> QED  BY <1>3 DEF Unnamed

\* A process that ends.
LEMMA ExitedEffect ==
    ASSUME proc \in Procs, stamp \in Nat, NEW p \in Pid, proc' = [proc EXCEPT ![p] = Exited(p)]
    PROVE  /\ proc' \in Procs /\ Fewer /\ p \notin Mihomo' /\ \A q \in Mihomo : q # p => q \in Mihomo'
<1>1. Free \in [kind : {"free", "mihomo", "zombie"}, home : Process \union {"init"},
                ver : {"none", "old", "new"}, cfg : Content] /\ Free.kind = "free"
  BY DEF Free, NoYaml, Content
<1>2. proc[p].home \in Process \union {"init"}
  BY DEF Procs
<1> DEFINE z == [Free EXCEPT !.kind = "zombie", !.home = proc[p].home]
<1>3. z \in [kind : {"free", "mihomo", "zombie"}, home : Process \union {"init"},
                ver : {"none", "old", "new"}, cfg : Content] /\ z.kind = "zombie"
  BY <1>1, <1>2 DEF Free, NoYaml, Content
<1>4. Exited(p) \in {Free, z}
  BY DEF Exited
<1> HIDE DEF z
<1>5. /\ Exited(p) \in [kind : {"free", "mihomo", "zombie"}, home : Process \union {"init"},
                ver : {"none", "old", "new"}, cfg : Content] /\ Exited(p).kind # "mihomo"
  BY <1>1, <1>3, <1>4
<1>6. proc' \in Procs /\ proc'[p].kind # "mihomo" /\ \A q \in Pid : q # p => proc'[q] = proc[q]
  BY <1>5 DEF Procs
<1> QED  BY <1>6 DEF Fewer, Mihomo

\* A process whose entry goes.
LEMMA FreedEffect ==
    ASSUME proc \in Procs, stamp \in Nat, main \in Pid \union {NoPid}, proc' = Stopped
    PROVE  proc' \in Procs /\ Fewer /\ main \notin Mihomo'
<1>1. CASE main = NoPid
  BY <1>1, ServiceOK DEF Stopped, Fewer, Mihomo
<1>2. CASE main # NoPid
  <2>1. proc' = [proc EXCEPT ![main] = Free] /\ main \in Pid
    BY <1>2 DEF Stopped
  <2>2. Free \in [kind : {"free", "mihomo", "zombie"}, home : Process \union {"init"},
                ver : {"none", "old", "new"}, cfg : Content] /\ Free.kind = "free"
    BY DEF Free, NoYaml, Content
  <2>3. proc' \in Procs /\ proc'[main].kind # "mihomo" /\ \A q \in Pid : q # main => proc'[q] = proc[q]
    BY <2>1, <2>2 DEF Procs
  <2> QED  BY <2>3 DEF Fewer, Mihomo
<1> QED  BY <1>1, <1>2

\* A process that starts.
LEMMA BornEffect ==
    ASSUME NEW procs \in Procs, stamp \in Nat, NEW p \in Pid, NEW h \in Process \union {"init"},
           binary \in {"none", "old", "new"}, yaml \in Content, proc' = [procs EXCEPT ![p] = Born(h)]
    PROVE  /\ proc' \in Procs /\ p \in Mihomo' /\ proc'[p].ver = binary /\ proc'[p].cfg = yaml
           /\ Mihomo' \subseteq {q \in Pid : procs[q].kind = "mihomo"} \union {p}
           /\ \A q \in Pid : q # p => proc'[q] = procs[q]
<1>1. Born(h) \in [kind : {"free", "mihomo", "zombie"}, home : Process \union {"init"},
                ver : {"none", "old", "new"}, cfg : Content]
      /\ Born(h).kind = "mihomo" /\ Born(h).ver = binary /\ Born(h).cfg = yaml
  BY DEF Born
<1>2. proc' \in Procs /\ proc'[p] = Born(h) /\ \A q \in Pid : q # p => proc'[q] = procs[q]
  BY <1>1 DEF Procs
<1> QED  BY <1>1, <1>2 DEF Mihomo

\* A mihomo that reads config.yaml again.
LEMMA ReloadedEffect ==
    ASSUME proc \in Procs, stamp \in Nat, yaml \in Content, NEW p \in Mihomo, proc' = Reloaded(p)
    PROVE  /\ proc' \in Procs /\ Mihomo' = Mihomo /\ proc'[p].cfg = [key |-> proc[p].cfg.key, rev |-> yaml.rev]
           /\ \A q \in Pid : q # p => proc'[q] = proc[q]
           /\ \A q \in Pid : proc'[q].ver = proc[q].ver
<1> DEFINE r == [proc[p] EXCEPT !.cfg = [key |-> proc[p].cfg.key, rev |-> yaml.rev]]
<1>1. p \in Pid /\ proc[p].kind = "mihomo" /\ proc[p].cfg \in Content
  BY DEF Mihomo, Procs
<1>2. proc' = [proc EXCEPT ![p] = r]
  <2>1. [proc[p].cfg EXCEPT !.rev = yaml.rev] = [key |-> proc[p].cfg.key, rev |-> yaml.rev]
    BY <1>1 DEF Content
  <2>2. Reloaded(p) = [proc EXCEPT ![p] = [proc[p] EXCEPT !.cfg = [proc[p].cfg EXCEPT !.rev = yaml.rev]]]
    BY DEF Reloaded
  <2> QED  BY <2>1, <2>2
<1>3. [key |-> proc[p].cfg.key, rev |-> yaml.rev] \in Content
  BY <1>1 DEF Content
<1>4. /\ r \in [kind : {"free", "mihomo", "zombie"}, home : Process \union {"init"},
                ver : {"none", "old", "new"}, cfg : Content]
      /\ r.kind = "mihomo" /\ r.ver = proc[p].ver /\ r.cfg = [key |-> proc[p].cfg.key, rev |-> yaml.rev]
  BY <1>1, <1>3 DEF Procs
<1> HIDE DEF r
<1>5. proc' \in Procs /\ proc'[p] = r /\ \A q \in Pid : q # p => proc'[q] = proc[q]
  BY <1>1, <1>2, <1>4 DEF Procs
<1> QED  BY <1>1, <1>4, <1>5 DEF Mihomo

\* A process whose parent ends.
LEMMA OrphanedEffect ==
    ASSUME proc \in Procs, stamp \in Nat, NEW h, proc' = Orphaned(h)
    PROVE  /\ proc' \in Procs /\ Mihomo' = Mihomo
           /\ \A q \in Mihomo : proc'[q].ver = proc[q].ver /\ proc'[q].cfg = proc[q].cfg
<1>1. Free \in [kind : {"free", "mihomo", "zombie"}, home : Process \union {"init"},
                ver : {"none", "old", "new"}, cfg : Content] /\ Free.kind = "free"
  BY DEF Free, NoYaml, Content
<1>2. ASSUME NEW q \in Pid
      PROVE  /\ proc'[q] \in [kind : {"free", "mihomo", "zombie"}, home : Process \union {"init"},
                              ver : {"none", "old", "new"}, cfg : Content]
             /\ proc'[q].kind = "mihomo" <=> proc[q].kind = "mihomo"
             /\ proc[q].kind = "mihomo" => proc'[q].ver = proc[q].ver /\ proc'[q].cfg = proc[q].cfg
  <2>1. proc'[q] = IF proc[q].home # h THEN proc[q]
                   ELSE IF proc[q].kind = "zombie" THEN Free ELSE [proc[q] EXCEPT !.home = "init"]
    BY DEF Orphaned
  <2>2. proc[q] \in [kind : {"free", "mihomo", "zombie"}, home : Process \union {"init"},
                     ver : {"none", "old", "new"}, cfg : Content]
    BY DEF Procs
  <2> QED  BY <1>1, <2>1, <2>2
<1>3. proc' = [q \in Pid |-> proc'[q]]
  BY DEF Orphaned
<1>4. proc' \in Procs
  <2> SUFFICES [q \in Pid |-> proc'[q]] \in Procs
    BY <1>3
  <2> QED  BY <1>2 DEF Procs
<1> QED  BY <1>2, <1>4 DEF Mihomo

-----------------------------------------------------------------------------
(* The steps of the managers.                                              *)

\* The types, and what keeps them.
Sane == TypeOK /\ Shape

\* What a step of a manager leaves alone, and that it leaves types alone.
ManagerFrame ==
    /\ UNCHANGED <<binary, yaml, crashes>> /\ proc' \in Procs
    /\ pidFile' \in Pid \union {NoPid} /\ main' \in Pid \union {NoPid}
    /\ unit' \in {"absent", "stopped", "running", "failed"}

\* What the lemmas about single steps take from the invariant.
LEMMA SaneFacts ==
    ASSUME Sane
    PROVE  /\ proc \in Procs /\ stamp \in Nat /\ pidFile \in Pid \union {NoPid} /\ main \in Pid \union {NoPid}
           /\ unit \in {"absent", "stopped", "running", "failed"} /\ binary \in {"none", "old", "new"}
           /\ yaml \in Content /\ store \in Stores /\ mem \in [Process -> Stores] /\ misled \in BOOLEAN
           /\ th \in Threads /\ Mode \in {"pid", "systemd"} /\ scope \in Scopes
           /\ \A t \in Thread : /\ Follows(th[t].op, th[t].todo) /\ th[t].pid \in Pid \union {NoPid}
                                /\ Home(t) \in Process /\ Mine(t) \in Stores /\ Mine(t).svc \in {"", Mode}
           /\ store.svc \in {"", Mode}
<1>1. \A t \in Thread : Home(t) \in Process
  BY DEF Thread, Home, Process
<1>2. Mode \in {"pid", "systemd"}
  BY Modes DEF Sane, Shape
<1>3. \A t \in Thread : th[t].pid \in Pid \union {NoPid}
  BY DEF Sane, TypeOK
<1> QED  BY <1>1, <1>2, <1>3 DEF Sane, TypeOK, Shape, Procs, Mine

\* SIGTERM: mihomo has gone at once or not; without one the wait is left out.
LEMMA TermEffect ==
    ASSUME Sane, NEW t \in Thread, Term(t)
    PROVE  /\ ManagerFrame /\ Fewer /\ UNCHANGED <<unit, main>> /\ th'[t].failed = th[t].failed
           /\ \/ /\ Alive(pidFile) /\ Moves(t, "term", "wait") /\ th'[t].pid = pidFile /\ pidFile' = pidFile
              \/ /\ ~Alive(pidFile) /\ pidFile' = NoPid /\ proc' = proc
                 /\ \E n : Moves(t, "term", n) /\ Linked(th[t].op, "wait", n)
<1>1. /\ proc \in Procs /\ stamp \in Nat /\ pidFile \in Pid \union {NoPid} /\ main \in Pid \union {NoPid}
      /\ unit \in {"absent", "stopped", "running", "failed"} /\ th \in Threads /\ Follows(th[t].op, th[t].todo)
  BY SaneFacts
<1>2. At(t, "term") /\ UNCHANGED <<unit, main, binary, yaml, crashes>>
  BY DEF Term
<1>3. CASE Alive(pidFile)
  <2>1. pidFile \in Pid /\ th' = [Next1(t) EXCEPT ![t].pid = pidFile] /\ pidFile' = pidFile
    BY <1>1, <1>3 DEF Alive, Term
  <2>2. /\ Moves(t, "term", First(th'[t].todo)) /\ Linked(th[t].op, "term", First(th'[t].todo))
        /\ th'[t].pid = pidFile /\ th'[t].failed = th[t].failed
    BY <1>1, <1>2, <2>1, PidPasses
  <2>3. First(th'[t].todo) = "wait"
    BY <2>2 DEF Linked, Booting, Applying, Restarting, Starting
  <2>4. proc' = proc \/ proc' = [proc EXCEPT ![pidFile] = Exited(pidFile)]
    BY <1>3 DEF Term
  <2>5. proc' \in Procs /\ Fewer
    <3>1. CASE proc' = proc
      BY <1>1, <3>1 DEF Fewer, Mihomo
    <3>2. CASE proc' = [proc EXCEPT ![pidFile] = Exited(pidFile)]
      BY <1>1, <2>1, <3>2, ExitedEffect
    <3> QED  BY <2>4, <3>1, <3>2
  <2> QED  BY <1>1, <1>2, <1>3, <2>1, <2>2, <2>3, <2>5 DEF ManagerFrame
<1>4. CASE ~Alive(pidFile)
  <2> DEFINE todo == th[t].todo
             op == th[t].op
             c == Tail(todo)
  <2>1. th' = Todo(t, Tail(c)) /\ pidFile' = NoPid /\ proc' = proc
    BY <1>4 DEF Term
  <2>2. todo \in Seq(Steps0) /\ todo # <<>> /\ Head(todo) = "term" /\ Leads(op, todo, "end")
    BY <1>1, <1>2 DEF At, Threads, Follows
  <2> HIDE DEF op, todo
  <2>3. c \in Seq(Steps0) /\ Leads(op, c, "end") /\ Linked(op, Head(todo), IF c = <<>> THEN "end" ELSE Head(c))
    BY <2>2, TailFollows
  <2> HIDE DEF c
  <2>4. c # <<>> /\ Head(c) = "wait"
    <3>1. Linked(op, "term", IF c = <<>> THEN "end" ELSE Head(c))
      BY <2>2, <2>3
    <3> QED  BY <3>1 DEF Linked, Booting, Applying, Restarting, Starting
  <2>5. /\ Tail(c) \in Seq(Steps0) /\ Leads(op, Tail(c), "end")
        /\ Linked(op, Head(c), IF Tail(c) = <<>> THEN "end" ELSE Head(Tail(c)))
    BY <2>3, <2>4, TailFollows
  <2>6. Moves(t, "term", First(Tail(c))) /\ th'[t].failed = th[t].failed
    BY <1>1, <1>2, <2>1, <2>5, TodoMoves DEF Follows, op
  <2>7. Linked(op, "wait", First(Tail(c)))
    BY <2>4, <2>5 DEF First
  <2>8. Fewer
    BY <2>1 DEF Fewer, Mihomo
  <2> QED  BY <1>1, <1>2, <1>4, <2>1, <2>6, <2>7, <2>8, ServiceOK DEF ManagerFrame, op
<1> QED  BY <1>3, <1>4

\* The wait ends with the process it is for, and with the PID file.
LEMMA WaitEffect ==
    ASSUME Sane, NEW t \in Thread, Wait(t)
    PROVE  /\ ManagerFrame /\ Fewer /\ UNCHANGED <<unit, main>> /\ pidFile' = NoPid
           /\ th[t].pid \notin Mihomo' /\ \E n : Passes(t, "wait", n)
<1>1. /\ proc \in Procs /\ stamp \in Nat /\ pidFile \in Pid \union {NoPid} /\ main \in Pid \union {NoPid}
      /\ unit \in {"absent", "stopped", "running", "failed"} /\ th \in Threads /\ Follows(th[t].op, th[t].todo)
      /\ th[t].pid \in Pid \union {NoPid}
  BY SaneFacts
<1>2. At(t, "wait") /\ th' = Next1(t) /\ pidFile' = NoPid /\ UNCHANGED <<unit, main, binary, yaml, crashes>>
  BY DEF Wait
<1>3. Passes(t, "wait", First(th'[t].todo))
  BY <1>1, <1>2, NextPasses
<1>4. CASE Alive(th[t].pid) /\ proc[th[t].pid].kind # "zombie"
  <2>1. th[t].pid \in Pid /\ proc' = [proc EXCEPT ![th[t].pid] = Exited(th[t].pid)]
    BY <1>1, <1>4 DEF Wait, Alive
  <2>2. proc' \in Procs /\ Fewer /\ th[t].pid \notin Mihomo'
    BY <1>1, <2>1, ExitedEffect
  <2> QED  BY <1>1, <1>2, <1>3, <2>2 DEF ManagerFrame
<1>5. CASE ~(Alive(th[t].pid) /\ proc[th[t].pid].kind # "zombie")
  <2>1. proc' = proc
    BY <1>5 DEF Wait
  <2>2. th[t].pid \notin Mihomo'
    BY <1>5, <2>1, ServiceOK DEF Mihomo, Alive
  <2>3. Fewer
    BY <2>1 DEF Fewer, Mihomo
  <2> QED  BY <1>1, <1>2, <1>3, <2>1, <2>2, <2>3 DEF ManagerFrame
<1> QED  BY <1>4, <1>5

\* A start goes on if the PID file names no process.
LEMMA ProbeEffect ==
    ASSUME Sane, NEW t \in Thread, Probe(t)
    PROVE  /\ ManagerFrame /\ UNCHANGED <<proc, pidFile, unit, main>>
           /\ \/ ~Alive(pidFile) /\ Passes(t, "probe", "spawn")
              \/ \E n : Stumbles(t, "probe", n)
<1>1. /\ proc \in Procs /\ pidFile \in Pid \union {NoPid} /\ main \in Pid \union {NoPid}
      /\ unit \in {"absent", "stopped", "running", "failed"} /\ th \in Threads /\ Follows(th[t].op, th[t].todo)
  BY SaneFacts
<1>2. At(t, "probe") /\ UNCHANGED <<proc, pidFile, unit, main, binary, yaml, crashes>>
  BY DEF Probe
<1>3. CASE Running("pid")
  <2>1. th' = StartFails(t)
    BY <1>3 DEF Probe
  <2>2. Stumbles(t, "probe", First(th'[t].todo))
    BY <1>1, <1>2, <2>1, FailsStumbles
  <2> QED  BY <1>1, <1>2, <2>2 DEF ManagerFrame
<1>4. CASE ~Running("pid")
  <2>1. th' = Next1(t)
    BY <1>4 DEF Probe
  <2>2. Passes(t, "probe", First(th'[t].todo))
    BY <1>1, <1>2, <2>1, NextPasses
  <2>3. First(th'[t].todo) = "spawn"
    BY <2>2 DEF Passes, Linked, Booting, Applying, Restarting, Starting
  <2>4. ~Alive(pidFile)
    BY <1>4 DEF Running
  <2> QED  BY <1>1, <1>2, <2>2, <2>3, <2>4 DEF ManagerFrame
<1> QED  BY <1>3, <1>4

\* A child is born that nobody names but the thread.
LEMMA SpawnEffect ==
    ASSUME Sane, NEW t \in Thread, Spawn(t)
    PROVE  /\ ManagerFrame /\ UNCHANGED <<pidFile, unit, main>>
           /\ \/ proc' = proc /\ \E n : Stumbles(t, "spawn", n)
              \/ /\ Moves(t, "spawn", "record") /\ th'[t].failed = th[t].failed /\ binary # "none"
                 /\ Mihomo' \subseteq Mihomo \union {th'[t].pid} /\ th'[t].pid \in Pid
                 /\ proc'[th'[t].pid].ver = binary /\ proc'[th'[t].pid].cfg = yaml
                 /\ \A q \in Pid : q # th'[t].pid => proc'[q] = proc[q]
<1>1. /\ proc \in Procs /\ stamp \in Nat /\ pidFile \in Pid \union {NoPid} /\ main \in Pid \union {NoPid}
      /\ unit \in {"absent", "stopped", "running", "failed"} /\ th \in Threads /\ Follows(th[t].op, th[t].todo)
      /\ binary \in {"none", "old", "new"} /\ yaml \in Content /\ Home(t) \in Process
  BY SaneFacts
<1>2. At(t, "spawn") /\ UNCHANGED <<pidFile, unit, main, binary, yaml, crashes>>
  BY DEF Spawn
<1>3. CASE binary = "none"
  <2>1. th' = StartFails(t) /\ proc' = proc
    BY <1>3 DEF Spawn
  <2>2. Stumbles(t, "spawn", First(th'[t].todo))
    BY <1>1, <1>2, <2>1, FailsStumbles
  <2> QED  BY <1>1, <1>2, <2>1, <2>2 DEF ManagerFrame
<1>4. CASE binary # "none"
  <2>1. Unnamed # {} /\ proc' = [proc EXCEPT ![FreshPid] = Born(Home(t))] /\ th' = [Next1(t) EXCEPT ![t].pid = FreshPid]
    BY <1>4 DEF Spawn
  <2>2. FreshPid \in Pid
    BY <2>1, FreshExists
  <2>3. /\ Moves(t, "spawn", First(th'[t].todo)) /\ Linked(th[t].op, "spawn", First(th'[t].todo))
        /\ th'[t].pid = FreshPid /\ th'[t].failed = th[t].failed
    BY <1>1, <1>2, <2>1, <2>2, PidPasses
  <2>4. First(th'[t].todo) = "record"
    BY <2>3 DEF Linked, Booting, Applying, Restarting, Starting
  <2>5. /\ proc' \in Procs /\ proc'[FreshPid].ver = binary /\ proc'[FreshPid].cfg = yaml
        /\ Mihomo' \subseteq Mihomo \union {FreshPid}
        /\ \A q \in Pid : q # FreshPid => proc'[q] = proc[q]
    BY <1>1, <2>1, <2>2, BornEffect DEF Mihomo
  <2> QED  BY <1>1, <1>2, <1>4, <2>2, <2>3, <2>4, <2>5 DEF ManagerFrame
<1> QED  BY <1>3, <1>4

\* The PID file names the child, or the child is killed.
LEMMA RecordEffect ==
    ASSUME Sane, NEW t \in Thread, Record(t)
    PROVE  /\ ManagerFrame /\ UNCHANGED <<unit, main>> /\ Fewer
           /\ \/ pidFile' = th[t].pid /\ proc' = proc /\ \E n : Passes(t, "record", n)
              \/ pidFile' = NoPid /\ th[t].pid \notin Mihomo' /\ \E n : Stumbles(t, "record", n)
<1>1. /\ proc \in Procs /\ stamp \in Nat /\ pidFile \in Pid \union {NoPid} /\ main \in Pid \union {NoPid}
      /\ unit \in {"absent", "stopped", "running", "failed"} /\ th \in Threads /\ Follows(th[t].op, th[t].todo)
      /\ th[t].pid \in Pid \union {NoPid}
  BY SaneFacts
<1>2. At(t, "record") /\ UNCHANGED <<unit, main, binary, yaml, crashes>>
  BY DEF Record
<1>3. CASE pidFile' = th[t].pid /\ th' = Next1(t) /\ UNCHANGED proc
  <2>1. Passes(t, "record", First(th'[t].todo))
    BY <1>1, <1>2, <1>3, NextPasses
  <2>2. Fewer
    BY <1>3 DEF Fewer, Mihomo
  <2> QED  BY <1>1, <1>2, <1>3, <2>1, <2>2 DEF ManagerFrame
<1>4. CASE /\ pidFile' = NoPid /\ th' = StartFails(t)
           /\ proc' = IF proc[th[t].pid].kind = "mihomo"
                      THEN [proc EXCEPT ![th[t].pid] = Exited(th[t].pid)] ELSE proc
  <2>1. Stumbles(t, "record", First(th'[t].todo))
    BY <1>1, <1>2, <1>4, FailsStumbles
  <2>2. proc' \in Procs /\ Fewer /\ th[t].pid \notin Mihomo'
    <3>1. CASE th[t].pid \in Pid /\ proc[th[t].pid].kind = "mihomo"
      <4>1. proc' = [proc EXCEPT ![th[t].pid] = Exited(th[t].pid)]
        BY <1>4, <3>1
      <4> QED  BY <1>1, <3>1, <4>1, ExitedEffect
    <3>2. CASE th[t].pid \in Pid /\ proc[th[t].pid].kind # "mihomo"
      BY <1>1, <1>4, <3>2 DEF Fewer, Mihomo
    <3>3. CASE th[t].pid = NoPid
      <4>1. proc' = proc
        BY <1>1, <1>4, <3>3, ServiceOK DEF Procs
      <4> QED  BY <1>1, <3>3, <4>1, ServiceOK DEF Fewer, Mihomo
    <3> QED  BY <1>1, <3>1, <3>2, <3>3
  <2> QED  BY <1>1, <1>2, <1>4, <2>1, <2>2 DEF ManagerFrame
<1> QED  BY <1>3, <1>4 DEF Record

\* systemd starts mihomo, beside what old leaves; without a binary it fails.
SysRan(old) ==
    \/ binary = "none" /\ unit' = "failed" /\ main' = NoPid /\ Fewer /\ Mihomo' \subseteq old
    \/ /\ binary # "none" /\ unit' = "running" /\ main' \in Pid /\ Mihomo' \subseteq old \union {main'}
       /\ proc'[main'].ver = binary /\ proc'[main'].cfg = yaml
       /\ \A p \in Mihomo' : p # main' => p \in Mihomo /\ proc'[p] = proc[p]

\* systemd's start of the unit, from any unit file and binary.
LEMMA SysRunEffect ==
    ASSUME Sane, SysRun(proc)
    PROVE  proc' \in Procs /\ main' \in Pid \union {NoPid} /\ unit' \in {"failed", "running"} /\ SysRan(Mihomo)
<1>1. /\ proc \in Procs /\ stamp \in Nat /\ binary \in {"none", "old", "new"} /\ yaml \in Content
  BY SaneFacts
<1>2. CASE binary = "none"
  <2>1. proc' = proc /\ unit' = "failed" /\ main' = NoPid
    BY <1>2 DEF SysRun
  <2> QED  BY <1>1, <1>2, <2>1 DEF SysRan, Fewer, Mihomo
<1>3. CASE binary # "none"
  <2>1. Unnamed # {} /\ main' = FreshPid /\ unit' = "running" /\ proc' = [proc EXCEPT ![FreshPid] = Born("init")]
    BY <1>3 DEF SysRun
  <2>2. FreshPid \in Pid
    BY <2>1, FreshExists
  <2>3. /\ proc' \in Procs /\ proc'[FreshPid].ver = binary /\ proc'[FreshPid].cfg = yaml
        /\ Mihomo' \subseteq Mihomo \union {FreshPid}
        /\ \A q \in Pid : q # FreshPid => proc'[q] = proc[q]
    BY <1>1, <2>1, <2>2, BornEffect DEF Mihomo
  <2>4. \A p \in Mihomo' : p # main' => p \in Mihomo /\ proc'[p] = proc[p]
    BY <2>1, <2>3 DEF Mihomo
  <2> QED  BY <1>3, <2>1, <2>2, <2>3, <2>4 DEF SysRan
<1> QED  BY <1>2, <1>3

\* The same after the old one has been stopped.
LEMMA SysRerunEffect ==
    ASSUME Sane, SysRun(Stopped)
    PROVE  proc' \in Procs /\ main' \in Pid \union {NoPid} /\ unit' \in {"failed", "running"} /\ SysRan(Mihomo \ {main})
<1> DEFINE procs == Stopped
           left == {q \in Pid : procs[q].kind = "mihomo"}
<1>1. /\ proc \in Procs /\ stamp \in Nat /\ binary \in {"none", "old", "new"} /\ yaml \in Content
      /\ main \in Pid \union {NoPid}
  BY SaneFacts
<1>2. /\ procs \in Procs /\ left \subseteq Mihomo \ {main} /\ \A p \in left : procs[p] = proc[p]
  <2>1. CASE main = NoPid
    BY <1>1, <2>1, ServiceOK DEF Stopped, Mihomo
  <2>2. CASE main # NoPid
    <3>1. procs = [proc EXCEPT ![main] = Free] /\ main \in Pid
      BY <1>1, <2>2 DEF Stopped
    <3>2. Free \in [kind : {"free", "mihomo", "zombie"}, home : Process \union {"init"},
                    ver : {"none", "old", "new"}, cfg : Content] /\ Free.kind = "free"
      BY <1>1 DEF Free, NoYaml, Content
    <3> HIDE DEF procs
    <3>3. procs \in Procs /\ procs[main].kind = "free" /\ \A q \in Pid : q # main => procs[q] = proc[q]
      BY <1>1, <3>1, <3>2 DEF Procs
    <3> QED  BY <3>3 DEF Mihomo
  <2> QED  BY <2>1, <2>2
<1>3. SysRun(procs)
  OBVIOUS
<1> HIDE DEF procs
<1>4. CASE binary = "none"
  <2>1. proc' = procs /\ unit' = "failed" /\ main' = NoPid
    BY <1>3, <1>4 DEF SysRun
  <2>2. Mihomo' = left
    BY <2>1 DEF Mihomo
  <2> QED  BY <1>1, <1>2, <1>4, <2>1, <2>2 DEF SysRan, Fewer
<1>5. CASE binary # "none"
  <2>1. Unnamed # {} /\ main' = FreshPid /\ unit' = "running" /\ proc' = [procs EXCEPT ![FreshPid] = Born("init")]
    BY <1>3, <1>5 DEF SysRun
  <2>2. FreshPid \in Pid
    BY <2>1, FreshExists
  <2>3. /\ proc' \in Procs /\ proc'[FreshPid].ver = binary /\ proc'[FreshPid].cfg = yaml
        /\ Mihomo' \subseteq left \union {FreshPid}
        /\ \A q \in Pid : q # FreshPid => proc'[q] = procs[q]
    BY <1>1, <1>2, <2>1, <2>2, BornEffect
  <2>4. \A p \in Mihomo' : p # main' => p \in left /\ p \in Pid /\ proc'[p] = procs[p]
    BY <2>1, <2>3 DEF Mihomo
  <2> HIDE DEF left
  <2>5. \A p \in Mihomo' : p # main' => p \in Mihomo /\ proc'[p] = proc[p]
    BY <1>2, <2>4
  <2> QED  BY <1>2, <1>5, <2>1, <2>2, <2>3, <2>5 DEF SysRan
<1> QED  BY <1>4, <1>5

\* Install starts a unit that does not run; if it fails the unit is there all the same.
LEMMA SysInstallEffect ==
    ASSUME Sane, NEW t \in Thread, SysInstall(t)
    PROVE  /\ ManagerFrame /\ UNCHANGED pidFile
           /\ \/ unit = "running" /\ UNCHANGED <<proc, unit, main>> /\ Passes(t, "sysinstall", "sysstart")
              \/ unit # "running" /\ SysRan(Mihomo) /\ Passes(t, "sysinstall", "sysstart")
              \/ /\ unit' = (IF unit = "absent" THEN "stopped" ELSE unit) /\ UNCHANGED <<proc, main>>
                 /\ \E n : Falls(t, "sysinstall", n)
<1>1. /\ proc \in Procs /\ stamp \in Nat /\ pidFile \in Pid \union {NoPid} /\ main \in Pid \union {NoPid}
      /\ unit \in {"absent", "stopped", "running", "failed"} /\ th \in Threads /\ Follows(th[t].op, th[t].todo)
      /\ binary \in {"none", "old", "new"} /\ yaml \in Content
  BY SaneFacts
<1>2. At(t, "sysinstall") /\ UNCHANGED <<pidFile, binary, yaml, crashes>>
  BY DEF SysInstall
<1>3. CASE th' = Next1(t) /\ IF unit = "running" THEN UNCHANGED <<proc, unit, main>> ELSE SysRun(proc)
  <2>1. Passes(t, "sysinstall", First(th'[t].todo))
    BY <1>1, <1>2, <1>3, NextPasses
  <2>2. First(th'[t].todo) = "sysstart"
    BY <2>1 DEF Passes, Linked, Booting, Applying, Restarting, Starting
  <2>3. CASE unit = "running"
    BY <1>1, <1>2, <1>3, <2>1, <2>2, <2>3 DEF ManagerFrame
  <2>4. CASE unit # "running"
    <3>1. proc' \in Procs /\ main' \in Pid \union {NoPid} /\ unit' \in {"failed", "running"} /\ SysRan(Mihomo)
      BY <1>3, <2>4, SysRunEffect
    <3> QED  BY <1>1, <1>2, <2>1, <2>2, <2>4, <3>1 DEF ManagerFrame
  <2> QED  BY <2>3, <2>4
<1>4. CASE /\ th' = BootFails(t)
           /\ unit' = (IF unit = "absent" THEN "stopped" ELSE unit) /\ UNCHANGED <<proc, main>>
  <2>1. Falls(t, "sysinstall", First(th'[t].todo))
    BY <1>1, <1>2, <1>4, FailsFalls
  <2> QED  BY <1>1, <1>2, <1>4, <2>1 DEF ManagerFrame
<1> QED  BY <1>3, <1>4 DEF SysInstall

\* Start may fail, and does without a unit; it leaves one that runs.
LEMMA SysStartEffect ==
    ASSUME Sane, NEW t \in Thread, SysStart(t)
    PROVE  /\ ManagerFrame /\ UNCHANGED pidFile
           /\ \/ UNCHANGED <<proc, unit, main>> /\ \E n : Stumbles(t, "sysstart", n)
              \/ unit = "running" /\ UNCHANGED <<proc, unit, main>> /\ \E n : Passes(t, "sysstart", n)
              \/ unit \in {"stopped", "failed"} /\ SysRan(Mihomo) /\ \E n : Passes(t, "sysstart", n)
<1>1. /\ proc \in Procs /\ stamp \in Nat /\ pidFile \in Pid \union {NoPid} /\ main \in Pid \union {NoPid}
      /\ unit \in {"absent", "stopped", "running", "failed"} /\ th \in Threads /\ Follows(th[t].op, th[t].todo)
      /\ binary \in {"none", "old", "new"} /\ yaml \in Content
  BY SaneFacts
<1>2. At(t, "sysstart") /\ UNCHANGED <<pidFile, binary, yaml, crashes>>
  BY DEF SysStart
<1>3. CASE th' = StartFails(t) /\ UNCHANGED <<proc, unit, main>>
  <2>1. Stumbles(t, "sysstart", First(th'[t].todo))
    BY <1>1, <1>2, <1>3, FailsStumbles
  <2> QED  BY <1>1, <1>2, <1>3, <2>1 DEF ManagerFrame
<1>4. CASE unit = "running" /\ th' = Next1(t) /\ UNCHANGED <<proc, unit, main>>
  <2>1. Passes(t, "sysstart", First(th'[t].todo))
    BY <1>1, <1>2, <1>4, NextPasses
  <2> QED  BY <1>1, <1>2, <1>4, <2>1 DEF ManagerFrame
<1>5. CASE unit \in {"stopped", "failed"} /\ th' = Next1(t) /\ SysRun(proc)
  <2>1. Passes(t, "sysstart", First(th'[t].todo))
    BY <1>1, <1>2, <1>5, NextPasses
  <2>2. proc' \in Procs /\ main' \in Pid \union {NoPid} /\ unit' \in {"failed", "running"} /\ SysRan(Mihomo)
    BY <1>5, SysRunEffect
  <2> QED  BY <1>1, <1>2, <1>5, <2>1, <2>2 DEF ManagerFrame
<1> QED  BY <1>1, <1>3, <1>4, <1>5 DEF SysStart

\* Stop leaves no mihomo of a unit that there is, unless it fails.
LEMMA SysStopEffect ==
    ASSUME Sane, NEW t \in Thread, SysStop(t)
    PROVE  /\ ManagerFrame /\ UNCHANGED pidFile /\ Fewer
           /\ \/ unit = "absent" /\ UNCHANGED <<proc, unit, main>> /\ \E n : Passes(t, "sysstop", n)
              \/ /\ unit # "absent" /\ unit' = "stopped" /\ main' = NoPid /\ main \notin Mihomo'
                 /\ \E n : Passes(t, "sysstop", n)
              \/ unit # "absent" /\ UNCHANGED <<proc, unit, main>> /\ \E n : Misses(t, "sysstop", n)
<1>1. /\ proc \in Procs /\ stamp \in Nat /\ pidFile \in Pid \union {NoPid} /\ main \in Pid \union {NoPid}
      /\ unit \in {"absent", "stopped", "running", "failed"} /\ th \in Threads /\ Follows(th[t].op, th[t].todo)
      /\ binary \in {"none", "old", "new"} /\ yaml \in Content
  BY SaneFacts
<1>2. At(t, "sysstop") /\ UNCHANGED <<pidFile, binary, yaml, crashes>>
  BY DEF SysStop
<1>3. ASSUME th' = Next1(t) PROVE Passes(t, "sysstop", First(th'[t].todo))
  BY <1>1, <1>2, <1>3, NextPasses
<1>4. CASE unit = "absent" /\ th' = Next1(t) /\ UNCHANGED <<proc, unit, main>>
  <2>1. Fewer
    BY <1>4 DEF Fewer, Mihomo
  <2> QED  BY <1>1, <1>2, <1>3, <1>4, <2>1 DEF ManagerFrame
<1>5. CASE unit # "absent" /\ th' = Next1(t) /\ proc' = Stopped /\ unit' = "stopped" /\ main' = NoPid
  <2>1. proc' \in Procs /\ Fewer /\ main \notin Mihomo'
    BY <1>1, <1>5, FreedEffect
  <2> QED  BY <1>1, <1>2, <1>3, <1>5, <2>1 DEF ManagerFrame
<1>6. CASE unit # "absent" /\ th' = [Next1(t) EXCEPT ![t].failed = TRUE] /\ UNCHANGED <<proc, unit, main>>
  <2>1. Misses(t, "sysstop", First(th'[t].todo))
    BY <1>1, <1>2, <1>6, NextMisses
  <2>2. Fewer
    BY <1>6 DEF Fewer, Mihomo
  <2> QED  BY <1>1, <1>2, <1>6, <2>1, <2>2 DEF ManagerFrame
<1> QED  BY <1>4, <1>5, <1>6 DEF SysStop

\* Restart starts a new mihomo in the place of the old, unless it fails.
LEMMA SysRestartEffect ==
    ASSUME Sane, NEW t \in Thread, SysRestart(t)
    PROVE  /\ ManagerFrame /\ UNCHANGED pidFile
           /\ \/ UNCHANGED <<proc, unit, main>> /\ \E n : Stumbles(t, "sysrestart", n)
              \/ unit # "absent" /\ SysRan(Mihomo \ {main}) /\ \E n : Passes(t, "sysrestart", n)
<1>1. /\ proc \in Procs /\ stamp \in Nat /\ pidFile \in Pid \union {NoPid} /\ main \in Pid \union {NoPid}
      /\ unit \in {"absent", "stopped", "running", "failed"} /\ th \in Threads /\ Follows(th[t].op, th[t].todo)
      /\ binary \in {"none", "old", "new"} /\ yaml \in Content
  BY SaneFacts
<1>2. At(t, "sysrestart") /\ UNCHANGED <<pidFile, binary, yaml, crashes>>
  BY DEF SysRestart
<1>3. CASE th' = StartFails(t) /\ UNCHANGED <<proc, unit, main>>
  <2>1. Stumbles(t, "sysrestart", First(th'[t].todo))
    BY <1>1, <1>2, <1>3, FailsStumbles
  <2> QED  BY <1>1, <1>2, <1>3, <2>1 DEF ManagerFrame
<1>4. CASE unit # "absent" /\ th' = Next1(t) /\ SysRun(Stopped)
  <2>1. Passes(t, "sysrestart", First(th'[t].todo))
    BY <1>1, <1>2, <1>4, NextPasses
  <2>2. /\ proc' \in Procs /\ main' \in Pid \union {NoPid} /\ unit' \in {"failed", "running"}
        /\ SysRan(Mihomo \ {main})
    BY <1>4, SysRerunEffect
  <2> QED  BY <1>1, <1>2, <1>4, <2>1, <2>2 DEF ManagerFrame
<1> QED  BY <1>3, <1>4 DEF SysRestart

\* Uninstall leaves no unit and no mihomo of it.
LEMMA SysUninstallEffect ==
    ASSUME Sane, NEW t \in Thread, SysUninstall(t)
    PROVE  /\ ManagerFrame /\ UNCHANGED pidFile /\ Fewer /\ \E n : Passes(t, "sysuninstall", n)
           /\ unit' = "absent" /\ main' = NoPid /\ main \notin Mihomo'
<1>1. /\ proc \in Procs /\ stamp \in Nat /\ pidFile \in Pid \union {NoPid} /\ main \in Pid \union {NoPid}
      /\ unit \in {"absent", "stopped", "running", "failed"} /\ th \in Threads /\ Follows(th[t].op, th[t].todo)
      /\ binary \in {"none", "old", "new"} /\ yaml \in Content
  BY SaneFacts
<1>2. /\ At(t, "sysuninstall") /\ th' = Next1(t) /\ UNCHANGED <<pidFile, binary, yaml, crashes>>
      /\ proc' = Stopped /\ unit' = "absent" /\ main' = NoPid
  BY DEF SysUninstall
<1>3. Passes(t, "sysuninstall", First(th'[t].todo))
  BY <1>1, <1>2, NextPasses
<1>4. proc' \in Procs /\ Fewer /\ main \notin Mihomo'
  BY <1>1, <1>2, FreedEffect
<1> QED  BY <1>1, <1>2, <1>3, <1>4 DEF ManagerFrame

\* systemd starts one that has failed.
LEMMA RespawnEffect ==
    ASSUME Sane, Respawn
    PROVE  /\ ManagerFrame /\ UNCHANGED <<pidFile, th>> /\ unit = "failed" /\ binary # "none" /\ SysRan(Mihomo)
<1>1. /\ pidFile \in Pid \union {NoPid} /\ UNCHANGED <<pidFile, binary, yaml, th, crashes>>
      /\ unit = "failed" /\ binary # "none" /\ SysRun(proc)
  BY SaneFacts DEF Respawn
<1>2. proc' \in Procs /\ main' \in Pid \union {NoPid} /\ unit' \in {"failed", "running"} /\ SysRan(Mihomo)
  BY <1>1, SysRunEffect
<1> QED  BY <1>1, <1>2 DEF ManagerFrame

\* mihomo ends of itself.
LEMMA CrashEffect ==
    ASSUME Sane, NEW p \in Pid, Crash(p)
    PROVE  /\ proc' \in Procs /\ UNCHANGED <<pidFile, binary, yaml, th>> /\ Fewer /\ p \in Mihomo /\ p \notin Mihomo'
           /\ crashes' = crashes + 1
           /\ IF p = main THEN unit' = "failed" /\ main' = NoPid ELSE UNCHANGED <<unit, main>>
<1>1. proc \in Procs /\ stamp \in Nat
  BY SaneFacts
<1>2. proc' = [proc EXCEPT ![p] = Exited(p)]
  BY DEF Crash
<1>3. proc' \in Procs /\ Fewer /\ p \notin Mihomo'
  BY <1>1, <1>2, ExitedEffect
<1> QED  BY <1>3 DEF Crash

-----------------------------------------------------------------------------
(* Types.                                                                  *)

\* Numbers given out stay given out.
LEMMA StampGrows ==
    ASSUME stamp \in Nat, stamp' \in Nat, stamp <= stamp'
    PROVE  Content \subseteq Content' /\ Stores \subseteq Stores' /\ Procs \subseteq Procs'
<1>1. 0 .. stamp \subseteq 0 .. stamp'
  OBVIOUS
<1>2. Content \subseteq Content' /\ Stores \subseteq Stores'
  BY <1>1 DEF Content, Stores
<1>3. Procs \subseteq Procs'
  BY <1>2 DEF Procs
<1> QED  BY <1>2, <1>3

\* A step of one thread that leaves the flock alone.
LEMMA KeepTypes ==
    ASSUME Sane, NEW t \in Thread, NEW s, NEW n, Turns(t, s, n), Follows(th[t].op, th[t].todo)',
           UNCHANGED <<scope, lock, lost, torn>>, misled => misled', misled' \in BOOLEAN,
           stamp' \in Nat, proc' \in Procs', pidFile' \in Pid \union {NoPid}, main' \in Pid \union {NoPid},
           unit' \in {"absent", "stopped", "running", "failed"}, binary' \in {"none", "old", "new"},
           yaml' \in Content', store' \in Stores', mem' \in [Process -> Stores'],
           tui' \in {"off", "launching", "on"}, used' \subseteq {"core", "service"},
           store'.svc \in {"", Mode}, \A h \in Process : mem'[h].svc \in {"", Mode}
    PROVE  Sane'
<1>1. th' \in Threads /\ th' \in Threads' /\ Mode' = Mode /\ Acts' = Acts
  BY DEF Turns, Threads, Mode, Acts, Ops
<1>2. \A u \in Thread : th'[u].op \in Verbs <=> th[u].op \in Verbs
  BY DEF Turns, Others, Verbs
<1>3. \A u \in Thread : Follows(th[u].op, th[u].todo)'
  <2> SUFFICES ASSUME NEW u \in Thread PROVE Follows(th[u].op, th[u].todo)'
    OBVIOUS
  <2>1. CASE u = t
    BY <2>1
  <2>2. CASE u # t
    <3>1. th'[u] = th[u]
      BY <2>2 DEF Turns, Others
    <3>2. Follows(th[u].op, th[u].todo)
      BY SaneFacts
    <3>3. \A op, todo : Follows(op, todo) => Follows(op, todo)'
      BY FollowsOn
    <3>4. \A op, todo : op = th[u].op /\ todo = th[u].todo => Follows(op, todo)'
      BY <3>2, <3>3
    <3> QED  BY <3>1, <3>4
  <2> QED  BY <2>1, <2>2
<1>4. TypeOK'
  <2>1. lock' \in Cli \union {"free"} /\ \A u \in Cli : th'[u].op \in Verbs <=> lock' = u
    <3>1. lock \in Cli \union {"free"} /\ \A u \in Cli : th[u].op \in Verbs <=> lock = u
      BY DEF Sane, TypeOK
    <3> QED  BY <1>2, <3>1 DEF Thread
  <2>2. \A u \in Thread : /\ th'[u].op \in Acts' \union {"none"} /\ th'[u].todo \in Seq(Steps0)
                          /\ th'[u].pid \in Pid \union {NoPid} /\ th'[u].failed \in BOOLEAN
    BY <1>1 DEF Threads
  <2>3. lost' \subseteq Pid \union {NoPid} /\ torn' \in BOOLEAN
    BY DEF Sane, TypeOK
  <2> QED  BY <2>1, <2>2, <2>3 DEF TypeOK, Procs
<1>5. Shape'
  BY <1>1, <1>3 DEF Shape, Sane
<1> QED  BY <1>4, <1>5 DEF Sane

\* One that goes on as its program says.
LEMMA MovesKeep ==
    ASSUME Sane, NEW t \in Thread, NEW s, NEW n, Moves(t, s, n),
           UNCHANGED <<scope, lock, lost, torn, misled>>,
           stamp' \in Nat, proc' \in Procs', pidFile' \in Pid \union {NoPid}, main' \in Pid \union {NoPid},
           unit' \in {"absent", "stopped", "running", "failed"}, binary' \in {"none", "old", "new"},
           yaml' \in Content', store' \in Stores', mem' \in [Process -> Stores'],
           tui' \in {"off", "launching", "on"}, used' \subseteq {"core", "service"},
           store'.svc \in {"", Mode}, \A h \in Process : mem'[h].svc \in {"", Mode}
    PROVE  Sane'
<1>1. Turns(t, s, n) /\ misled \in BOOLEAN
  BY DEF Moves, Sane, TypeOK
<1>2. Follows(th[t].op, th[t].todo)'
  <2>1. Follows(th'[t].op, th'[t].todo)
    BY DEF Moves
  <2>2. \A op, todo : Follows(op, todo) => Follows(op, todo)'
    BY FollowsOn
  <2>3. \A op, todo : op = th'[t].op /\ todo = th'[t].todo => Follows(op, todo)'
    BY <2>1, <2>2
  <2> QED  BY <2>3
<1> QED  BY <1>1, <1>2, KeepTypes

\* One of a manager.
LEMMA ManagerKeeps ==
    ASSUME Sane, NEW t \in Thread, NEW s, NEW n, Moves(t, s, n), ManagerFrame,
           UNCHANGED hostVars, UNCHANGED <<scope, ops>>
    PROVE  Sane'
<1>1. UNCHANGED <<scope, lock, lost, torn, misled, stamp, store, mem, tui, used, binary, yaml>>
  BY DEF hostVars, ManagerFrame
<1>2. /\ stamp \in Nat /\ binary \in {"none", "old", "new"} /\ yaml \in Content /\ store \in Stores
      /\ mem \in [Process -> Stores] /\ tui \in {"off", "launching", "on"} /\ used \subseteq {"core", "service"}
      /\ store.svc \in {"", Mode} /\ \A h \in Process : mem[h].svc \in {"", Mode}
  BY DEF Sane, TypeOK, Shape
<1>3. Content' = Content /\ Stores' = Stores /\ Procs' = Procs
  BY <1>1 DEF Content, Stores, Procs
<1> QED  BY <1>1, <1>2, <1>3, MovesKeep DEF ManagerFrame

\* Every step of a manager keeps the types.
LEMMA ManagerTypes ==
    ASSUME Sane, NEW t \in Thread, ManagerStep(t), UNCHANGED hostVars, UNCHANGED <<scope, ops>>
    PROVE  Sane'
<1>1. ManagerFrame /\ \E s, n : Moves(t, s, n)
  <2>1. CASE Term(t)
    BY <2>1, TermEffect
  <2>2. CASE Wait(t)
    BY <2>2, WaitEffect DEF Passes
  <2>3. CASE Probe(t)
    BY <2>3, ProbeEffect DEF Passes, Stumbles
  <2>4. CASE Spawn(t)
    BY <2>4, SpawnEffect DEF Stumbles
  <2>5. CASE Record(t)
    BY <2>5, RecordEffect DEF Passes, Stumbles
  <2>6. CASE SysInstall(t)
    BY <2>6, SysInstallEffect DEF Passes, Falls
  <2>7. CASE SysStart(t)
    BY <2>7, SysStartEffect DEF Passes, Stumbles
  <2>8. CASE SysStop(t)
    BY <2>8, SysStopEffect DEF Passes, Misses
  <2>9. CASE SysRestart(t)
    BY <2>9, SysRestartEffect DEF Passes, Stumbles
  <2>10. CASE SysUninstall(t)
    BY <2>10, SysUninstallEffect DEF Passes
  <2> QED  BY <2>1, <2>2, <2>3, <2>4, <2>5, <2>6, <2>7, <2>8, <2>9, <2>10 DEF ManagerStep
<1> QED  BY <1>1, ManagerKeeps

-----------------------------------------------------------------------------
(* The other steps of the programs.                                        *)

\* A step whose thread only goes on.
LEMMA StepPasses ==
    ASSUME Sane, NEW t \in Thread, NEW s, Step(t, s)
    PROVE  \E n : Passes(t, s, n)
BY SaneFacts, NextPasses DEF Step

\* What may follow the first assembly of a launch, up to the end of its bootstrap,
\* may follow it when a change is still to be applied.
Late == {"assemble", "fetch", "skeleton", "probe", "spawn", "record", "sysinstall", "sysstart", "verify"}

LEMMA Relaunched ==
    ASSUME NEW c \in Seq(Steps0), c # <<>>, Head(c) = "assemble", Leads("launch", c, "end")
    PROVE  Leads("relaunch", c, "assemble")
<1> DEFINE p == Len(c)
           Bad == {i \in 1 .. p : c[i] \notin Late}
<1>1. p \in Nat /\ p >= 1 /\ DOMAIN c = 1 .. p /\ c[1] = "assemble" /\ \A i \in 1 .. p : c[i] \in Steps0
  BY EmptySeq
<1>2. \A i \in 1 .. p : Linked("launch", c[i], IF i = p THEN "end" ELSE c[i + 1]) /\ Fits("launch", c[i])
  BY <1>1 DEF Leads
<1> HIDE DEF p
<1>3. \A s, n : Linked("launch", s, n) /\ s \in Late =>
        /\ n \in Late \union {"end"}
        /\ n = "end" => Linked("relaunch", s, "assemble")
        /\ n # "end" => Linked("relaunch", s, n)
  BY DEF Linked, Booting, Starting, Late
<1>4. Bad = {}
  <2> SUFFICES ASSUME Bad # {} PROVE FALSE
    OBVIOUS
  <2>1. Bad \subseteq Nat
    BY <1>1
  <2>2. PICK x \in Bad : \A y \in Bad : x <= y
    <3> HIDE DEF Bad
    <3> QED  BY <2>1, LeastExists
  <2>3. x \in 1 .. p /\ x # 1 /\ c[x] \notin Late /\ c[x] # "end"
    BY <1>1, <2>2 DEF Late, Steps0
  <2>4. PICK w \in 1 .. p : x = w + 1
    <3>1. x - 1 \in 1 .. p /\ x = (x - 1) + 1
      BY <1>1, <2>3
    <3> QED  BY <3>1
  <2>5. w \notin Bad /\ w # p
    BY <1>1, <2>2, <2>3, <2>4
  <2>6. c[w] \in Late /\ Linked("launch", c[w], c[x])
    BY <1>2, <2>4, <2>5
  <2> QED  BY <1>3, <2>3, <2>6
<1>5. ASSUME NEW i \in 1 .. p
      PROVE  Linked("relaunch", c[i], IF i = p THEN "assemble" ELSE c[i + 1]) /\ Fits("relaunch", c[i])
  <2>1. c[i] \in Late /\ Linked("launch", c[i], IF i = p THEN "end" ELSE c[i + 1])
    BY <1>2, <1>4
  <2>2. Fits("relaunch", c[i])
    BY <1>2, <2>1 DEF Fits, Late, EndSteps
  <2>3. CASE i = p
    BY <1>3, <2>1, <2>2, <2>3
  <2>4. CASE i # p
    <3>1. i + 1 \in 1 .. p
      BY <1>1, <2>4
    <3>2. c[i + 1] # "end"
      BY <1>1, <3>1 DEF Steps0
    <3> QED  BY <1>3, <2>1, <2>2, <2>4, <3>2
  <2> QED  BY <2>3, <2>4
<1> QED  BY <1>1, <1>5 DEF Leads, p

\* The security of an existing config.yaml is settled before the assembly; a change
\* is still to be applied then.
LEMMA SecureEffect ==
    ASSUME Sane, NEW t \in Thread, Secure(t)
    PROVE  /\ Passes(t, "secure", "assemble") /\ th[t].op = "launch" /\ UNCHANGED <<sysVars, binary, hostVars>>
           /\ \/ (yaml = NoYaml \/ yaml.key = Mine(t).key) /\ yaml' = yaml
              \/ yaml' = Secured(Mine(t).key)
<1>1. th \in Threads /\ Follows(th[t].op, th[t].todo) /\ Mode \in {"pid", "systemd"}
  BY SaneFacts
<1>2. At(t, "secure") /\ UNCHANGED <<sysVars, binary, hostVars>>
  BY DEF Secure
<1> DEFINE todo == th[t].todo
           op == th[t].op
           c == Tail(todo)
<1>3. todo \in Seq(Steps0) /\ todo # <<>> /\ Head(todo) = "secure" /\ Leads(op, todo, "end")
  BY <1>1, <1>2 DEF At, Threads, Follows
<1> HIDE DEF todo, op
<1>4. /\ c \in Seq(Steps0) /\ Leads(op, c, "end") /\ Linked(op, "secure", IF c = <<>> THEN "end" ELSE Head(c))
  BY <1>3, TailFollows
<1>8. Fits(op, "secure")
  BY <1>3, TailFollows
<1> HIDE DEF c
<1>5. op = "launch" /\ c # <<>> /\ Head(c) = "assemble"
  BY <1>4 DEF Linked, Booting, Applying, Restarting, Starting
<1>6. CASE th' = Next1(t) /\ (yaml = NoYaml \/ yaml.key = Mine(t).key) /\ yaml' = yaml
  <2>1. Passes(t, "secure", First(th'[t].todo)) /\ th'[t].todo = c
    BY <1>1, <1>2, <1>6, NextPasses DEF c, todo
  <2> QED  BY <1>2, <1>5, <1>6, <2>1 DEF First, op
<1>7. CASE th' = [th EXCEPT ![t].op = "relaunch", ![t].todo = c \o Apply] /\ yaml' = Secured(Mine(t).key)
  <2>1. Apply \in Seq(Steps0) /\ Follows("relaunch", Apply) /\ Apply # <<>> /\ Head(Apply) = "assemble"
    BY <1>1, ApplyLeads
  <2>2. Leads("relaunch", c, "assemble")
    BY <1>4, <1>5, Relaunched
  <2> DEFINE b == Apply
  <2>3. b \in Seq(Steps0) /\ b # <<>> /\ Leads("relaunch", c, Head(b)) /\ Leads("relaunch", b, "end")
    BY <2>1, <2>2 DEF Follows
  <2> HIDE DEF b
  <2>4. c \o b \in Seq(Steps0) /\ Leads("relaunch", c \o b, "end") /\ c \o b # <<>> /\ Head(c \o b) = Head(c)
    BY <1>4, <1>5, <2>3, Joined
  <2> DEFINE x == c \o b
  <2>5. /\ x \in Seq(Steps0) /\ Follows("relaunch", x) /\ First(x) = "assemble"
        /\ th' = [th EXCEPT ![t].op = "relaunch", ![t].todo = x]
    BY <1>5, <1>7, <2>4 DEF Follows, First, b
  <2> HIDE DEF x
  <2>6. "relaunch" \in Acts
    <3>1. th[t].op = "launch" /\ th[t].op \in Acts \union {"none"}
      BY <1>1, <1>5 DEF Threads, op
    <3> QED  BY <3>1 DEF Acts
  <2>7. th' \in Threads /\ Others(t) /\ th'[t] = [th[t] EXCEPT !.op = "relaunch", !.todo = x]
    BY <1>1, <2>5, <2>6 DEF Threads, Others
  <2>8. th'[t].op = "relaunch" /\ th'[t].todo = x /\ th'[t].pid = th[t].pid /\ th'[t].failed = th[t].failed
    BY <1>1, <2>7 DEF Threads
  <2>9. Linked(th[t].op, "secure", "assemble") /\ Fits(th[t].op, "secure") /\ Now(t) = "secure" /\ th[t].op = "launch"
    BY <1>2, <1>4, <1>5, <1>8 DEF op, Now, First, At
  <2> QED  BY <1>2, <1>7, <2>5, <2>7, <2>8, <2>9 DEF Passes, Moves, Turns, Steps0
<1> QED  BY <1>6, <1>7 DEF Secure, c, todo

\* Without a mihomo to be had a launch goes on with a change it owes, and others end.
LEMMA FetchEffect ==
    ASSUME Sane, NEW t \in Thread, Fetch(t)
    PROVE  /\ UNCHANGED <<sysVars, yaml, hostVars>>
           /\ \/ Passes(t, "fetch", "skeleton") /\ binary' # "none" /\ binary' \in {"old", binary}
              \/ binary' = binary /\ \E n : Falls(t, "fetch", n)
<1>1. /\ th \in Threads /\ Follows(th[t].op, th[t].todo)
  BY SaneFacts
<1>2. At(t, "fetch") /\ UNCHANGED <<sysVars, yaml, hostVars>>
  BY DEF Fetch
<1>3. CASE binary' = (IF binary = "none" THEN "old" ELSE binary) /\ th' = Next1(t)
  <2>1. Passes(t, "fetch", First(th'[t].todo))
    BY <1>1, <1>2, <1>3, NextPasses
  <2>2. First(th'[t].todo) = "skeleton"
    BY <2>1 DEF Passes, Linked, Booting, Applying, Restarting, Starting
  <2> QED  BY <1>2, <1>3, <2>1, <2>2
<1>4. CASE binary' = binary /\ th' = BootFails(t)
  BY <1>1, <1>2, <1>4, FailsFalls
<1> QED  BY <1>3, <1>4 DEF Fetch

\* The last step of a bootstrap.
LEMMA VerifyEffect ==
    ASSUME Sane, NEW t \in Thread, Verify(t)
    PROVE  /\ UNCHANGED <<sysVars, binary, yaml, hostVars>> /\ th[t].op \in {"init", "force", "launch", "relaunch"}
           /\ \E n \in {"assemble", "end"} : Moves(t, "verify", n) /\ (n = "assemble" <=> th[t].op = "relaunch")
<1>1. /\ th \in Threads /\ Follows(th[t].op, th[t].todo)
  BY SaneFacts
<1>2. At(t, "verify") /\ UNCHANGED <<sysVars, binary, yaml, hostVars>>
  BY DEF Verify
<1> DEFINE todo == th[t].todo
           op == th[t].op
           f == ~Running(Mode)
<1>3. todo \in Seq(Steps0) /\ todo # <<>> /\ Head(todo) = "verify" /\ Leads(op, todo, "end")
  BY <1>1, <1>2 DEF At, Threads, Follows
<1>4. /\ Tail(todo) \in Seq(Steps0) /\ Leads(op, Tail(todo), "end")
      /\ Linked(op, "verify", IF Tail(todo) = <<>> THEN "end" ELSE Head(Tail(todo)))
      /\ Fits(op, "verify")
  <2> HIDE DEF todo, op
  <2> QED  BY <1>3, TailFollows
<1>5. f \in BOOLEAN
  OBVIOUS
<1>6. th' = [Next1(t) EXCEPT ![t].failed = f]
  BY DEF Verify
<1> HIDE DEF f
<1>7. /\ th' \in Threads /\ Others(t) /\ th'[t] = [th[t] EXCEPT !.todo = Tail(todo), !.failed = f]
  BY <1>1, <1>4, <1>5, <1>6 DEF Next1, Todo, Others, Threads
<1>8. th'[t].todo = Tail(todo) /\ th'[t].op = op
  BY <1>1, <1>7 DEF Threads
<1>9. Moves(t, "verify", First(Tail(todo)))
  BY <1>3, <1>4, <1>7, <1>8 DEF Moves, Turns, Now, First, Follows, Steps0
<1>10. Linked(op, "verify", First(Tail(todo)))
  BY <1>4 DEF First
<1> HIDE DEF op, todo
<1>11. /\ First(Tail(todo)) \in {"assemble", "end"} /\ (First(Tail(todo)) = "assemble" <=> op = "relaunch")
       /\ op \in {"init", "force", "launch", "relaunch"}
  BY <1>10 DEF Linked, Booting, Applying, Restarting, Starting
<1> QED  BY <1>2, <1>9, <1>11 DEF op

\* A reload ends the change, or a restart follows.
LEMMA ReloadEffect ==
    ASSUME Sane, NEW t \in Thread, Reload(t)
    PROVE  /\ UNCHANGED <<pidFile, unit, main, crashes, binary, yaml, hostVars>> /\ th[t].op \in {"relaunch", "change"}
           /\ th'[t].failed = th[t].failed
           /\ \/ /\ Reloads(Mine(t).key) = {} /\ proc' = proc
                 /\ \E n \in {"term", "sysrestart"} : Passes(t, "reload", n)
              \/ /\ Moves(t, "reload", "end")
                 /\ \E p \in Reloads(Mine(t).key) : proc' = Reloaded(p)
<1>1. /\ th \in Threads /\ Follows(th[t].op, th[t].todo)
  BY SaneFacts
<1>2. At(t, "reload") /\ UNCHANGED <<pidFile, unit, main, crashes, binary, yaml, hostVars>>
  BY DEF Reload
<1>3. CASE Reloads(Mine(t).key) = {}
  <2>1. th' = Next1(t) /\ proc' = proc
    BY <1>3 DEF Reload
  <2>2. Passes(t, "reload", First(th'[t].todo))
    BY <1>1, <1>2, <2>1, NextPasses
  <2>3. First(th'[t].todo) \in {"term", "sysrestart"} /\ th[t].op \in {"relaunch", "change"}
    BY <2>2 DEF Passes, Linked, Booting, Applying, Restarting, Starting
  <2> QED  BY <1>2, <1>3, <2>1, <2>2, <2>3 DEF Passes
<1>4. CASE Reloads(Mine(t).key) # {}
  <2>1. PICK p \in Reloads(Mine(t).key) : proc' = Reloaded(p) /\ th' = Todo(t, <<>>)
    BY <1>4 DEF Reload
  <2>2. Moves(t, "reload", "end") /\ th'[t].failed = th[t].failed
    BY <1>1, <1>2, <2>1, EmptyFollows, TodoMoves
  <2>3. \E m : Linked(th[t].op, "reload", m)
    BY <2>2 DEF Moves, Turns
  <2>4. th[t].op \in {"relaunch", "change"}
    BY <2>3 DEF Linked, Booting, Applying, Restarting, Starting
  <2> QED  BY <1>2, <2>1, <2>2, <2>4
<1> QED  BY <1>3, <1>4

\* A verb's reload.
LEMMA NudgeEffect ==
    ASSUME Sane, NEW t \in Thread, Nudge(t)
    PROVE  /\ UNCHANGED <<pidFile, unit, main, crashes, binary, yaml, hostVars>> /\ th[t].op = "verb"
           /\ Moves(t, "nudge", "end") /\ (proc' = proc \/ \E p \in Mihomo : proc' = Reloaded(p))
<1>1. /\ th \in Threads /\ Follows(th[t].op, th[t].todo)
  BY SaneFacts
<1>2. At(t, "nudge") /\ UNCHANGED <<pidFile, unit, main, crashes, binary, yaml, hostVars>>
  BY DEF Nudge
<1>3. ASSUME NEW n, Moves(t, "nudge", n) PROVE th[t].op = "verb"
  BY <1>3 DEF Moves, Turns, Linked, Booting, Applying, Restarting, Starting
<1>4. CASE Reloads(store.key) = {}
  <2>1. GiveUp(t) /\ proc' = proc
    BY <1>4 DEF Nudge
  <2> QED  BY <1>1, <1>2, <1>3, <2>1, GiveUpMoves
<1>5. CASE Reloads(store.key) # {}
  <2>1. PICK p \in Reloads(store.key) : proc' = Reloaded(p) /\ th' = Next1(t)
    BY <1>5 DEF Nudge
  <2>2. Passes(t, "nudge", First(th'[t].todo))
    BY <1>1, <1>2, <2>1, NextPasses
  <2>3. First(th'[t].todo) = "end"
    BY <2>2 DEF Passes, Linked, Booting, Applying, Restarting, Starting
  <2>4. p \in Mihomo
    BY <2>1 DEF Reloads
  <2> QED  BY <1>2, <1>3, <2>1, <2>2, <2>3, <2>4 DEF Passes
<1> QED  BY <1>4, <1>5

\* Whether mihomo runs decides what is left of an update.
LEMMA LookEffect ==
    ASSUME Sane, NEW t \in Thread, Look(t)
    PROVE  /\ UNCHANGED <<sysVars, binary, yaml, hostVars>> /\ th[t].op = "update"
           /\ \/ Moves(t, "look", "swap") /\ ~Running(Mode)
              \/ \E n \in {"term", "sysstop"} : Moves(t, "look", n)
           /\ th'[t].pid = th[t].pid
<1>1. /\ th \in Threads /\ Follows(th[t].op, th[t].todo) /\ Mode \in {"pid", "systemd"}
  BY SaneFacts
<1>2. At(t, "look") /\ UNCHANGED <<sysVars, binary, yaml, hostVars>>
  BY DEF Look
<1>3. th[t].op = "update"
  <2>1. th[t].todo \in Seq(Steps0) /\ th[t].todo # <<>> /\ Head(th[t].todo) = "look" /\ Leads(th[t].op, th[t].todo, "end")
    BY <1>1, <1>2 DEF At, Threads, Follows
  <2>2. \E m : Linked(th[t].op, "look", m)
    BY <2>1, TailFollows
  <2> QED  BY <2>2 DEF Linked, Booting, Applying, Restarting, Starting
<1> DEFINE w == <<"swap">>
           a == StopSteps(Mode)
           b == StartSteps(Mode)
<1>4. /\ w \in Seq(Steps0) /\ w # <<>> /\ Head(w) = "swap" /\ First(w) = "swap"
  BY DEF Steps0, First
<1>5. CASE ~Running(Mode)
  <2>1. th' = Todo(t, w)
    BY <1>5 DEF Look
  <2>2. Follows(th[t].op, w)
    BY <1>3 DEF Follows, Leads, Linked, Fits, PidSteps, SysSteps, EndSteps
  <2> HIDE DEF w
  <2>3. Moves(t, "look", First(w)) /\ th'[t].pid = th[t].pid
    BY <1>1, <1>2, <1>4, <2>1, <2>2, TodoMoves
  <2> QED  BY <1>2, <1>3, <1>4, <1>5, <2>3
<1>6. CASE Running(Mode)
  <2>1. /\ Linked("update", "probe", "spawn") /\ Linked("update", "spawn", "record") /\ Linked("update", "record", "end")
        /\ Linked("update", "sysstart", "end") /\ Linked("update", "wait", "swap") /\ Linked("update", "sysstop", "swap")
    BY DEF Linked, Starting
  <2>2. /\ a \in Seq(Steps0) /\ Leads("update", a, Head(w)) /\ a # <<>> /\ Head(a) \in {"term", "sysstop"}
    BY <1>1, <1>4, <2>1, StopLeads
  <2>3. /\ b \in Seq(Steps0) /\ Leads("update", b, "end") /\ b # <<>>
        /\ Head(b) = IF Mode = "pid" THEN "probe" ELSE "sysstart"
    BY <1>1, <2>1, StartLeads
  <2>4. Leads("update", w, Head(b))
    BY <1>1, <2>3 DEF Leads, Linked, Fits, PidSteps, SysSteps, EndSteps
  <2> HIDE DEF a, b, w
  <2> DEFINE aw == a \o w
  <2>5. aw \in Seq(Steps0) /\ Leads("update", aw, Head(b)) /\ aw # <<>> /\ Head(aw) = Head(a)
    BY <1>4, <2>2, <2>4, Joined
  <2> HIDE DEF aw
  <2> DEFINE x == aw \o b
  <2>6. x \in Seq(Steps0) /\ Leads("update", x, "end") /\ x # <<>> /\ Head(x) = Head(aw)
    BY <2>3, <2>5, Joined
  <2>7. th' = Todo(t, x)
    BY <1>6 DEF Look, x, aw, a, b, w
  <2> HIDE DEF x
  <2>8. Follows(th[t].op, x) /\ First(x) \in {"term", "sysstop"}
    BY <1>3, <2>2, <2>5, <2>6 DEF Follows, First
  <2>9. Moves(t, "look", First(x)) /\ th'[t].pid = th[t].pid
    BY <1>1, <1>2, <2>6, <2>7, <2>8, TodoMoves
  <2> QED  BY <1>2, <1>3, <2>8, <2>9
<1> QED  BY <1>5, <1>6

\* A new binary, or the end.
LEMMA SwapEffect ==
    ASSUME Sane, NEW t \in Thread, Swap(t)
    PROVE  /\ UNCHANGED <<sysVars, yaml, hostVars>> /\ th[t].op \in {"update", "core"}
           /\ \/ binary' = "new" /\ \E n : Passes(t, "swap", n)
              \/ binary' = binary /\ Moves(t, "swap", "end") /\ th'[t].failed
           /\ th'[t].pid = th[t].pid
<1>1. /\ th \in Threads /\ Follows(th[t].op, th[t].todo)
  BY SaneFacts
<1>2. At(t, "swap") /\ UNCHANGED <<sysVars, yaml, hostVars>>
  BY DEF Swap
<1>3. ASSUME NEW n, Moves(t, "swap", n) PROVE th[t].op \in {"update", "core"}
  BY <1>3 DEF Moves, Turns, Linked, Booting, Applying, Restarting, Starting
<1>4. CASE binary' = "new" /\ th' = Next1(t)
  BY <1>1, <1>2, <1>3, <1>4, NextPasses DEF Passes
<1>5. CASE UNCHANGED binary /\ GiveUp(t)
  BY <1>1, <1>2, <1>3, <1>5, GiveUpMoves
<1> QED  BY <1>4, <1>5 DEF Swap

\* The elements of two sequences put together.
LEMMA Together ==
    ASSUME NEW S, NEW a \in Seq(S), NEW b \in Seq(S), NEW p \in Nat, NEW q \in Nat, Len(a) = p, Len(b) = q
    PROVE  /\ a \o b \in Seq(S) /\ Len(a \o b) = p + q
           /\ \A i \in 1 .. p + q : (a \o b)[i] = IF i <= p THEN a[i] ELSE b[i - p]
BY ConcatProperties

\* The steps of an uninstall, one after the other.
LEMMA EndSequence ==
    ASSUME NEW m
    PROVE  LET x == StopSteps(m) \o UninstallSteps(m) \o <<"wipe", "forget", "strip">>
           IN  /\ x \in Seq(Steps0) /\ x # <<>>
               /\ m = "pid" => /\ Len(x) = 7 /\ x[1] = "term" /\ x[2] = "wait" /\ x[3] = "term"
                               /\ x[4] = "wait" /\ x[5] = "wipe" /\ x[6] = "forget" /\ x[7] = "strip"
                               /\ x[6] = "forget" /\ x[7] = "strip"
               /\ m # "pid" => /\ Len(x) = 5 /\ x[1] = "sysstop" /\ x[2] = "sysuninstall" /\ x[3] = "wipe"
                               /\ x[4] = "forget" /\ x[5] = "strip"
<1> DEFINE w == <<"wipe", "forget", "strip">>
<1>1. w \in Seq(Steps0) /\ Len(w) = 3 /\ w[1] = "wipe" /\ w[2] = "forget" /\ w[3] = "strip"
  BY DEF Steps0
<1>0. 1 \in Nat /\ 2 \in Nat /\ 4 \in Nat /\ 1 + 1 = 2 /\ 2 + 1 = 3 /\ 2 + 2 = 4 /\ 4 + 1 = 5
  OBVIOUS
<1>2. CASE m = "pid"
  <2> DEFINE a == <<"term", "wait">>
             y == a \o a
             x == y \o w
  <2>1. a \in Seq(Steps0) /\ Len(a) = 2 /\ a[1] = "term" /\ a[2] = "wait"
    BY DEF Steps0
  <2>2. StopSteps(m) \o UninstallSteps(m) = y
    BY <1>2 DEF StopSteps, UninstallSteps
  <2> HIDE DEF a, w
  <2>3. y \in Seq(Steps0) /\ Len(y) = 2 + 2 /\ \A i \in 1 .. 2 + 2 : y[i] = IF i <= 2 THEN a[i] ELSE a[i - 2]
    <3> DEFINE p == 2
    <3>1. a \in Seq(Steps0) /\ Len(a) = p /\ p \in Nat
      BY <2>1
    <3> HIDE DEF p
    <3>2. a \o a \in Seq(Steps0) /\ Len(a \o a) = p + p /\ \A i \in 1 .. p + p : (a \o a)[i] = IF i <= p THEN a[i] ELSE a[i - p]
      BY <3>1, Together
    <3> QED  BY <3>2 DEF p
  <2> HIDE DEF y
  <2>4. y[1] = "term" /\ y[2] = "wait" /\ y[3] = "term" /\ y[4] = "wait" /\ Len(y) = 4
    BY <2>1, <2>3
  <2>5. x \in Seq(Steps0) /\ Len(x) = 4 + 3 /\ \A i \in 1 .. 4 + 3 : x[i] = IF i <= 4 THEN y[i] ELSE w[i - 4]
    <3> DEFINE p == 4
               q == 3
    <3>1. y \in Seq(Steps0) /\ w \in Seq(Steps0) /\ Len(y) = p /\ p \in Nat /\ Len(w) = q /\ q \in Nat
      BY <1>1, <2>3, <2>4
    <3> HIDE DEF p, q
    <3>2. /\ y \o w \in Seq(Steps0) /\ Len(y \o w) = p + q
          /\ \A i \in 1 .. p + q : (y \o w)[i] = IF i <= p THEN y[i] ELSE w[i - p]
      BY <3>1, ConcatProperties
    <3> QED  BY <3>2 DEF p, q
  <2>6. x # <<>>
    BY <2>5, EmptySeq
  <2> HIDE DEF x
  <2>7. x[1] = "term" /\ x[2] = "wait" /\ x[3] = "term" /\ x[4] = "wait" /\ x[5] = "wipe" /\ x[6] = "forget" /\ x[7] = "strip"
        /\ Len(x) = 7
    BY <1>1, <2>4, <2>5
  <2> QED  BY <1>2, <2>2, <2>5, <2>6, <2>7 DEF x, w
<1>3. CASE m # "pid"
  <2> DEFINE a == <<"sysstop">>
             b == <<"sysuninstall">>
             y == a \o b
             x == y \o w
  <2>1. /\ a \in Seq(Steps0) /\ b \in Seq(Steps0) /\ Len(a) = 1 /\ Len(b) = 1
        /\ a[1] = "sysstop" /\ b[1] = "sysuninstall"
    BY DEF Steps0
  <2>2. StopSteps(m) \o UninstallSteps(m) = y
    BY <1>3 DEF StopSteps, UninstallSteps
  <2> HIDE DEF a, b, w
  <2>3. y \in Seq(Steps0) /\ Len(y) = 1 + 1 /\ \A i \in 1 .. 1 + 1 : y[i] = IF i <= 1 THEN a[i] ELSE b[i - 1]
    BY <1>0, <2>1, Together
  <2> HIDE DEF y
  <2>4. y[1] = "sysstop" /\ y[2] = "sysuninstall" /\ Len(y) = 2
    BY <2>1, <2>3
  <2>5. x \in Seq(Steps0) /\ Len(x) = 2 + 3 /\ \A i \in 1 .. 2 + 3 : x[i] = IF i <= 2 THEN y[i] ELSE w[i - 2]
    <3> DEFINE p == 2
               q == 3
    <3>1. y \in Seq(Steps0) /\ w \in Seq(Steps0) /\ Len(y) = p /\ p \in Nat /\ Len(w) = q /\ q \in Nat
      BY <1>1, <2>3, <2>4
    <3> HIDE DEF p, q
    <3>2. /\ y \o w \in Seq(Steps0) /\ Len(y \o w) = p + q
          /\ \A i \in 1 .. p + q : (y \o w)[i] = IF i <= p THEN y[i] ELSE w[i - p]
      BY <3>1, ConcatProperties
    <3> QED  BY <3>2 DEF p, q
  <2>6. x # <<>>
    BY <2>5, EmptySeq
  <2> HIDE DEF x
  <2>7. x[1] = "sysstop" /\ x[2] = "sysuninstall" /\ x[3] = "wipe" /\ x[4] = "forget" /\ x[5] = "strip" /\ Len(x) = 5
    BY <1>1, <2>4, <2>5
  <2> QED  BY <1>3, <2>2, <2>5, <2>6, <2>7 DEF x, w
<1> QED  BY <1>2, <1>3

\* The manager an uninstall takes: its own or systemd's, and then it is misled.
LEMMA ChooseEffect ==
    ASSUME Sane, NEW t \in Thread, Choose(t), UNCHANGED scope
    PROVE  /\ UNCHANGED <<sysVars, binary, yaml, store, mem, lock, tui, used, stamp, lost, torn>> /\ th[t].op = "uninstall"
           /\ misled' \in BOOLEAN /\ (misled => misled') /\ (Mode = "systemd" => misled' = misled)
           /\ Follows(th[t].op, th[t].todo)' /\ th'[t].failed = th[t].failed
           /\ \E n \in {"term", "sysstop"} : /\ Turns(t, "choose", n)
                                             /\ misled' \/ n = IF Mode = "pid" THEN "term" ELSE "sysstop"
<1>1. /\ th \in Threads /\ Follows(th[t].op, th[t].todo) /\ Mode \in {"pid", "systemd"} /\ misled \in BOOLEAN
      /\ Mine(t).svc \in {"", Mode}
  BY SaneFacts
<1> DEFINE m == IF Mine(t).svc = "" THEN "systemd" ELSE Mine(t).svc
           x == StopSteps(m) \o UninstallSteps(m) \o <<"wipe", "forget", "strip">>
<1>2. /\ At(t, "choose") /\ UNCHANGED <<sysVars, binary, yaml, store, mem, lock, tui, used, stamp, lost, torn>>
      /\ th' = Todo(t, x) /\ misled' = (misled \/ m # Mode)
  BY DEF Choose
<1>3. m \in {"systemd", Mode}
  BY <1>1
<1> HIDE DEF m
<1>4. Fits(th[t].op, "choose") /\ th[t].op = "uninstall"
  <2>1. th[t].todo \in Seq(Steps0) /\ th[t].todo # <<>> /\ Head(th[t].todo) = "choose" /\ Leads(th[t].op, th[t].todo, "end")
    BY <1>1, <1>2 DEF At, Threads, Follows
  <2>2. Fits(th[t].op, "choose") /\ \E k : Linked(th[t].op, "choose", k)
    BY <2>1, TailFollows
  <2> QED  BY <2>2 DEF Linked, Booting, Applying, Restarting, Starting
<1>5. /\ x \in Seq(Steps0) /\ x # <<>>
      /\ m = "pid" => /\ Len(x) = 7 /\ x[1] = "term" /\ x[2] = "wait" /\ x[3] = "term"
                      /\ x[4] = "wait" /\ x[5] = "wipe" /\ x[6] = "forget" /\ x[7] = "strip"
      /\ m # "pid" => /\ Len(x) = 5 /\ x[1] = "sysstop" /\ x[2] = "sysuninstall" /\ x[3] = "wipe"
                               /\ x[4] = "forget" /\ x[5] = "strip"
  BY EndSequence
<1> HIDE DEF x
<1>6. First(x) = IF m = "pid" THEN "term" ELSE "sysstop"
  BY <1>5 DEF First
<1>16. PICK z \in Seq(Steps0) : z = x
  BY <1>5
<1>7. /\ th' \in Threads /\ Others(t) /\ th'[t] = [th[t] EXCEPT !.todo = x]
  BY <1>1, <1>2, <1>5 DEF Todo, Others, Threads
<1>8. th'[t].todo = x /\ th'[t].op = th[t].op /\ th'[t].failed = th[t].failed
  BY <1>1, <1>7 DEF Threads
<1>9. Turns(t, "choose", First(x))
  <2>1. \E k : Linked(th[t].op, "choose", k)
    BY <1>4 DEF Linked
  <2> QED  BY <1>2, <1>4, <1>7, <1>8, <2>1 DEF Turns, Now, First, At, Steps0
<1>10. /\ misled' \in BOOLEAN /\ (misled => misled') /\ (Mode = "systemd" => misled' = misled)
       /\ m # Mode => misled'
  BY <1>1, <1>2, <1>3
<1>11. Mode' = Mode
  BY DEF Mode
<1>12. Follows("uninstall", z)'
  <2>1. CASE m = "pid"
    <3>1. Mode' = "pid" /\ DOMAIN z = 1 .. 7 /\ Len(z) = 7
      BY <1>3, <1>5, <1>11, <1>16, <2>1
    <3>2. \A i \in 1 .. 7 : i = 1 \/ i = 2 \/ i = 3 \/ i = 4 \/ i = 5 \/ i = 6 \/ i = 7
      OBVIOUS
    <3>3. \A i \in 1 .. 7 : Linked("uninstall", z[i], IF i = 7 THEN "end" ELSE z[i + 1])
      BY <1>5, <1>16, <2>1, <3>2 DEF Linked
    <3>4. \A i \in 1 .. 7 : Fits("uninstall", z[i])'
      BY <1>5, <1>16, <2>1, <3>1, <3>2 DEF Fits, SysSteps, EndSteps
    <3> QED  BY <3>1, <3>3, <3>4 DEF Follows, Leads
  <2>2. CASE m # "pid"
    <3>1. (Mode' = "pid" => misled') /\ DOMAIN z = 1 .. 5 /\ Len(z) = 5
      BY <1>5, <1>10, <1>11, <1>16, <2>2
    <3>2. \A i \in 1 .. 5 : i = 1 \/ i = 2 \/ i = 3 \/ i = 4 \/ i = 5
      OBVIOUS
    <3>3. \A i \in 1 .. 5 : Linked("uninstall", z[i], IF i = 5 THEN "end" ELSE z[i + 1])
      BY <1>5, <1>16, <2>2, <3>2 DEF Linked
    <3>4. \A i \in 1 .. 5 : Fits("uninstall", z[i])'
      BY <1>5, <1>16, <2>2, <3>1, <3>2 DEF Fits, PidSteps, SysSteps, EndSteps
    <3> QED  BY <3>1, <3>3, <3>4 DEF Follows, Leads
  <2> QED  BY <2>1, <2>2
<1>13. misled' \/ First(x) = IF Mode = "pid" THEN "term" ELSE "sysstop"
  BY <1>6, <1>10
<1>14. First(x) \in {"term", "sysstop"}
  BY <1>6
<1>15. Follows(th[t].op, th[t].todo)'
  <2>1. \A op, todo : op = "uninstall" /\ todo = z => Follows(op, todo)'
    BY <1>12
  <2>2. th'[t].op = "uninstall" /\ th'[t].todo = z
    BY <1>4, <1>8, <1>16
  <2> QED  BY <2>1, <2>2
<1> QED  BY <1>2, <1>4, <1>8, <1>9, <1>10, <1>13, <1>14, <1>15

\* A step that leaves the store, the sessions and the flock alone.
LEMMA PlainKeeps ==
    ASSUME Sane, NEW t \in Thread, NEW s, NEW n, Moves(t, s, n), UNCHANGED hostVars, UNCHANGED scope,
           proc' \in Procs, pidFile' \in Pid \union {NoPid}, main' \in Pid \union {NoPid},
           unit' \in {"absent", "stopped", "running", "failed"}, binary' \in {"none", "old", "new"},
           yaml' \in Content
    PROVE  Sane'
<1>1. UNCHANGED <<scope, lock, lost, torn, misled, stamp, store, mem, tui, used>>
  BY DEF hostVars
<1>2. /\ stamp \in Nat /\ store \in Stores
      /\ mem \in [Process -> Stores] /\ tui \in {"off", "launching", "on"} /\ used \subseteq {"core", "service"}
      /\ store.svc \in {"", Mode} /\ \A h \in Process : mem[h].svc \in {"", Mode}
  BY DEF Sane, TypeOK, Shape
<1>3. Content' = Content /\ Stores' = Stores /\ Procs' = Procs
  BY <1>1 DEF Content, Stores, Procs
<1> QED  BY <1>1, <1>2, <1>3, MovesKeep

\* What a process remembers is a store again.
LEMMA RememberKeeps ==
    ASSUME Sane, NEW t \in Thread, NEW s, Remember(t, s), s \in Stores', s.svc \in {"", Mode},
           Stores \subseteq Stores'
    PROVE  /\ mem' \in [Process -> Stores'] /\ \A h \in Process : mem'[h].svc \in {"", Mode}
           /\ Mine(t)' = s /\ \A h \in Process : h # Home(t) => mem'[h] = mem[h]
<1>1. /\ mem \in [Process -> Stores] /\ Home(t) \in Process
  BY SaneFacts
<1>2. \A h \in Process : mem[h].svc \in {"", Mode}
  BY DEF Sane, Shape
<1>3. mem' = [mem EXCEPT ![Home(t)] = s]
  BY DEF Remember
<1> DEFINE Svcs == {"", Mode}
           Ok(r) == r.svc \in Svcs
<1>4. Ok(s) /\ \A h \in Process : Ok(mem[h])
  BY <1>2
<1>5. Mine(t)' = mem'[Home(t)]
  BY DEF Mine
<1> HIDE DEF Ok
<1>6. /\ mem' \in [Process -> Stores'] /\ \A h \in Process : Ok(mem'[h])
      /\ mem'[Home(t)] = s /\ \A h \in Process : h # Home(t) => mem'[h] = mem[h]
  BY <1>1, <1>3, <1>4
<1> QED  BY <1>5, <1>6 DEF Ok

\* A step that gives the store or the copies of it other values.
LEMMA StoreKeeps ==
    ASSUME Sane, NEW t \in Thread, NEW s, NEW n, Moves(t, s, n),
           UNCHANGED <<scope, sysVars, lock, misled, lost, torn>>,
           stamp' \in Nat, stamp <= stamp', binary' \in {"none", "old", "new"}, yaml' \in Content',
           store' \in Stores', store'.svc \in {"", Mode}, mem' \in [Process -> Stores'],
           \A h \in Process : mem'[h].svc \in {"", Mode},
           tui' \in {"off", "launching", "on"}, UNCHANGED used
    PROVE  Sane'
<1>1. UNCHANGED <<scope, proc, pidFile, unit, main, lock, misled, used, lost, torn>>
  BY DEF sysVars
<1>2. /\ stamp \in Nat /\ proc \in Procs /\ pidFile \in Pid \union {NoPid} /\ main \in Pid \union {NoPid}
      /\ unit \in {"absent", "stopped", "running", "failed"} /\ used \subseteq {"core", "service"}
  BY DEF Sane, TypeOK, Shape, Procs
<1>3. Procs \subseteq Procs'
  BY <1>2, StampGrows
<1> QED  BY <1>1, <1>2, <1>3, MovesKeep

\* Stores and configurations with one field new.
LEMMA StoreFields ==
    ASSUME stamp \in Nat, NEW s \in Stores
    PROVE  /\ [s EXCEPT !.svc = Mode].key = s.key /\ [s EXCEPT !.svc = Mode].rev = s.rev
           /\ Mode \in {"pid", "systemd"} => [s EXCEPT !.svc = Mode] \in Stores /\ [s EXCEPT !.svc = Mode].svc = Mode
           /\ stamp' = stamp + 1 =>
                /\ stamp' \in Nat /\ stamp <= stamp' /\ Stores \subseteq Stores' /\ Content \subseteq Content'
                /\ [s EXCEPT !.key = stamp + 1] \in Stores' /\ [s EXCEPT !.rev = stamp + 1] \in Stores'
           /\ [s EXCEPT !.key = stamp + 1].key = stamp + 1 /\ [s EXCEPT !.key = stamp + 1].rev = s.rev
           /\ [s EXCEPT !.rev = stamp + 1].key = s.key /\ [s EXCEPT !.rev = stamp + 1].rev = stamp + 1
           /\ [s EXCEPT !.key = stamp + 1].svc = s.svc /\ [s EXCEPT !.rev = stamp + 1].svc = s.svc
           /\ [key |-> s.key, rev |-> s.rev] \in Content /\ BuildSkeleton(s.key) \in Content
           /\ yaml \in Content => Secured(s.key) \in Content
<1>1. /\ [s EXCEPT !.svc = Mode].key = s.key /\ [s EXCEPT !.svc = Mode].rev = s.rev
      /\ Mode \in {"pid", "systemd"} => [s EXCEPT !.svc = Mode] \in Stores /\ [s EXCEPT !.svc = Mode].svc = Mode
  BY DEF Stores
<1>2. /\ [s EXCEPT !.key = stamp + 1].key = stamp + 1 /\ [s EXCEPT !.key = stamp + 1].rev = s.rev
      /\ [s EXCEPT !.rev = stamp + 1].key = s.key /\ [s EXCEPT !.rev = stamp + 1].rev = stamp + 1
      /\ [s EXCEPT !.key = stamp + 1].svc = s.svc /\ [s EXCEPT !.rev = stamp + 1].svc = s.svc
  BY DEF Stores
<1>3. /\ [key |-> s.key, rev |-> s.rev] \in Content /\ BuildSkeleton(s.key) \in Content
      /\ yaml \in Content => Secured(s.key) \in Content
  <2>0. 0 \in 0 .. stamp
    OBVIOUS
  <2>1. s.key \in 0 .. stamp /\ s.rev \in 0 .. stamp /\ 0 \in 0 .. stamp
    <3>1. s.key \in 0 .. stamp /\ s.rev \in 0 .. stamp
      BY DEF Stores
    <3> QED  BY <2>0, <3>1
  <2>2. yaml \in Content => Secured(s.key) \in Content
    BY <2>1 DEF Content, Secured
  <2>3. [key |-> s.key, rev |-> s.rev] \in Content
    BY <2>1 DEF Content
  <2>4. BuildSkeleton(s.key) \in Content
    BY <2>1 DEF Content, BuildSkeleton
  <2> QED  BY <2>2, <2>3, <2>4
<1>4. stamp' = stamp + 1 => stamp' \in Nat /\ stamp <= stamp' /\ Stores \subseteq Stores' /\ Content \subseteq Content'
  BY StampGrows
<1>5. stamp' = stamp + 1 => [s EXCEPT !.key = stamp + 1] \in Stores' /\ [s EXCEPT !.rev = stamp + 1] \in Stores'
  <2> SUFFICES ASSUME stamp' = stamp + 1
               PROVE  [s EXCEPT !.key = stamp + 1] \in Stores' /\ [s EXCEPT !.rev = stamp + 1] \in Stores'
    OBVIOUS
  <2>1. s \in Stores' /\ stamp + 1 \in 0 .. stamp'
    BY <1>4
  <2> QED  BY <2>1 DEF Stores
<1> QED  BY <1>1, <1>2, <1>3, <1>4, <1>5

\* The empty store.
LEMMA NoStoreFacts ==
    ASSUME stamp \in Nat
    PROVE  /\ NoStore \in Stores /\ NoYaml \in Content /\ NoStore.svc = ""
           /\ NoStore.key = 0 /\ NoStore.rev = 0 /\ NoYaml.key = 0 /\ NoYaml.rev = 0
           /\ stamp + 1 # 0
<1>1. stamp + 1 # 0
  OBVIOUS
<1> QED  BY <1>1 DEF NoStore, NoYaml, Stores, Content

\* What a step that writes config.toml or config.yaml leaves alone.
StoreFrame ==
    /\ UNCHANGED <<sysVars, lock, misled, lost, torn, used>>
    /\ stamp' \in Nat /\ stamp <= stamp' /\ binary' \in {"none", "old", "new"} /\ yaml' \in Content'
    /\ store' \in Stores' /\ store'.svc \in {"", Mode} /\ mem' \in [Process -> Stores']
    /\ (\A h \in Process : mem'[h].svc \in {"", Mode}) /\ tui' \in {"off", "launching", "on"}

\* Nothing of it written.
LEMMA SameStore ==
    ASSUME Sane
    PROVE  /\ UNCHANGED stamp => Content' = Content /\ Stores' = Stores /\ Stores \subseteq Stores'
                                 /\ stamp' \in Nat /\ stamp <= stamp'
           /\ \A h \in Process : mem[h].svc \in {"", Mode}
           /\ tui \in {"off", "launching", "on"}
<1>1. stamp \in Nat
  BY SaneFacts
<1>2. (\A h \in Process : mem[h].svc \in {"", Mode}) /\ tui \in {"off", "launching", "on"}
  BY DEF Sane, Shape, TypeOK
<1>3. UNCHANGED stamp => Content' = Content /\ Stores' = Stores /\ stamp' \in Nat /\ stamp <= stamp'
  BY <1>1 DEF Content, Stores
<1> QED  BY <1>2, <1>3

\* store.Load reads config.toml or writes it anew.
LEMMA LoadEffect ==
    ASSUME Sane, NEW t \in Thread, LoadStore(t)
    PROVE  /\ StoreFrame /\ UNCHANGED <<binary, yaml, tui>> /\ \E n : Passes(t, "load", n)
           /\ store' # NoStore /\ Mine(t)' = store' /\ (store # NoStore => store' = store)
<1>1. /\ stamp \in Nat /\ store \in Stores /\ yaml \in Content /\ binary \in {"none", "old", "new"}
      /\ store.svc \in {"", Mode}
  BY SaneFacts
<1>2. \E n : Passes(t, "load", n)
  BY StepPasses DEF LoadStore
<1>3. UNCHANGED <<sysVars, binary, yaml, lock, tui, used, misled, lost, torn>> /\ Remember(t, store')
  BY DEF LoadStore
<1>4. /\ stamp' \in Nat /\ stamp <= stamp' /\ Stores \subseteq Stores' /\ Content \subseteq Content'
      /\ store' \in Stores' /\ store'.svc \in {"", Mode} /\ store' # NoStore /\ (store # NoStore => store' = store)
  <2>1. CASE store = NoStore
    <3>1. store' = [NoStore EXCEPT !.key = stamp + 1] /\ stamp' = stamp + 1
      BY <2>1 DEF LoadStore
    <3>2. NoStore \in Stores /\ NoStore.svc = "" /\ NoStore.key = 0
      BY <1>1, NoStoreFacts
    <3>3. /\ stamp' \in Nat /\ stamp <= stamp' /\ Stores \subseteq Stores' /\ Content \subseteq Content'
          /\ store' \in Stores' /\ store'.key = stamp + 1 /\ store'.svc = NoStore.svc
      BY <1>1, <3>1, <3>2, StoreFields
    <3>4. stamp + 1 # 0
      BY <1>1, NoStoreFacts
    <3>5. store' # NoStore
      BY <3>2, <3>3, <3>4
    <3>6. store'.svc = ""
      BY <3>2, <3>3
    <3> QED  BY <2>1, <3>3, <3>5, <3>6
  <2>2. CASE store # NoStore
    <3>1. UNCHANGED <<store, stamp>>
      BY <2>2 DEF LoadStore
    <3> QED  BY <1>1, <2>2, <3>1, SameStore
  <2> QED  BY <2>1, <2>2
<1>5. /\ mem' \in [Process -> Stores'] /\ (\A h \in Process : mem'[h].svc \in {"", Mode}) /\ Mine(t)' = store'
  BY <1>3, <1>4, RememberKeeps
<1>6. tui \in {"off", "launching", "on"}
  BY SameStore
<1> QED  BY <1>1, <1>2, <1>3, <1>4, <1>5, <1>6 DEF StoreFrame

\* The manager chosen is the host's.
LEMMA DetectEffect ==
    ASSUME Sane, NEW t \in Thread, DetectMode(t)
    PROVE  /\ StoreFrame /\ UNCHANGED <<binary, yaml, tui, stamp>> /\ \E n : Passes(t, "detect", n)
           /\ \/ UNCHANGED <<mem, store>>
              \/ store' # NoStore /\ Mine(t)' = store' /\ store'.key = Mine(t).key /\ store'.rev = Mine(t).rev
<1>1. /\ stamp \in Nat /\ store \in Stores /\ yaml \in Content /\ binary \in {"none", "old", "new"}
      /\ store.svc \in {"", Mode} /\ mem \in [Process -> Stores] /\ Mine(t) \in Stores /\ Mode \in {"pid", "systemd"}
  BY SaneFacts
<1>2. \E n : Passes(t, "detect", n)
  BY StepPasses DEF DetectMode
<1>3. UNCHANGED <<sysVars, binary, yaml, lock, tui, used, misled, lost, torn, stamp>>
  BY DEF DetectMode
<1>4. /\ Content' = Content /\ Stores' = Stores /\ Stores \subseteq Stores' /\ stamp' \in Nat /\ stamp <= stamp'
      /\ (\A h \in Process : mem[h].svc \in {"", Mode}) /\ tui \in {"off", "launching", "on"}
  BY <1>3, SameStore
<1>5. CASE UNCHANGED <<mem, store>>
  BY <1>1, <1>2, <1>3, <1>4, <1>5 DEF StoreFrame
<1>6. CASE Remember(t, [Mine(t) EXCEPT !.svc = Mode]) /\ store' = [Mine(t) EXCEPT !.svc = Mode]
  <2> DEFINE r == [Mine(t) EXCEPT !.svc = Mode]
  <2>1. r \in Stores /\ r.svc = Mode /\ r.key = Mine(t).key /\ r.rev = Mine(t).rev
    BY <1>1, StoreFields
  <2> HIDE DEF r
  <2>2. store' = r /\ Remember(t, r) /\ r \in Stores' /\ r.svc \in {"", Mode}
    BY <1>4, <1>6, <2>1 DEF r
  <2>3. mem' \in [Process -> Stores'] /\ (\A h \in Process : mem'[h].svc \in {"", Mode}) /\ Mine(t)' = r
    BY <1>4, <2>2, RememberKeeps
  <2>4. r # NoStore
    <3>1. r.svc # NoStore.svc
      BY <1>1, <2>1, NoStoreFacts
    <3> QED  BY <3>1
  <2> QED  BY <1>1, <1>2, <1>3, <1>4, <2>1, <2>2, <2>3, <2>4 DEF StoreFrame
<1> QED  BY <1>5, <1>6 DEF DetectMode

\* Other ports are other credentials; config.yaml is to go then.
LEMMA PortsEffect ==
    ASSUME Sane, NEW t \in Thread, Ports(t)
    PROVE  /\ StoreFrame /\ UNCHANGED <<binary, yaml, tui>> /\ th[t].op = "launch"
           /\ th'[t].pid = th[t].pid /\ th'[t].op = th[t].op
           /\ \/ UNCHANGED <<mem, store>> /\ Passes(t, "ports", "secure")
              \/ store' # NoStore /\ Mine(t)' = store' /\ Moves(t, "ports", "drop")
<1>1. /\ stamp \in Nat /\ store \in Stores /\ yaml \in Content /\ binary \in {"none", "old", "new"}
      /\ store.svc \in {"", Mode} /\ mem \in [Process -> Stores] /\ Mine(t) \in Stores /\ Mine(t).svc \in {"", Mode}
      /\ th \in Threads /\ Follows(th[t].op, th[t].todo) /\ Mode \in {"pid", "systemd"}
  BY SaneFacts
<1>3. At(t, "ports") /\ UNCHANGED <<sysVars, binary, yaml, lock, tui, used, misled, lost, torn>>
  BY DEF Ports
<1>4. (\A h \in Process : mem[h].svc \in {"", Mode}) /\ tui \in {"off", "launching", "on"}
  BY SameStore
<1> DEFINE todo == th[t].todo
           op == th[t].op
           c == Tail(todo)
<1>7. todo \in Seq(Steps0) /\ todo # <<>> /\ Head(todo) = "ports" /\ Leads(op, todo, "end")
  BY <1>1, <1>3 DEF At, Threads, Follows
<1> HIDE DEF todo, op
<1>8. /\ c \in Seq(Steps0) /\ Leads(op, c, "end") /\ Linked(op, "ports", IF c = <<>> THEN "end" ELSE Head(c))
      /\ Fits(op, "ports")
  BY <1>7, TailFollows
<1> HIDE DEF c
<1>9. op = "launch" /\ c # <<>> /\ Head(c) = "secure"
  BY <1>8 DEF Linked, Booting, Applying, Restarting, Starting
<1>5. CASE UNCHANGED <<stamp, store, mem>> /\ th' = Next1(t)
  <2>1. Content' = Content /\ Stores' = Stores /\ stamp' \in Nat /\ stamp <= stamp'
    BY <1>5, SameStore
  <2>2. Passes(t, "ports", First(th'[t].todo)) /\ th'[t].todo = c
    BY <1>1, <1>3, <1>5, NextPasses DEF c, todo
  <2>3. First(c) = "secure"
    BY <1>9 DEF First
  <2>4. Passes(t, "ports", "secure") /\ th'[t].pid = th[t].pid /\ th'[t].op = th[t].op
    BY <2>2, <2>3 DEF Passes, Moves, Turns
  <2> QED  BY <1>1, <1>3, <1>4, <1>5, <1>9, <2>1, <2>4 DEF StoreFrame, op
<1>6. CASE /\ stamp' = stamp + 1 /\ th' = Todo(t, <<"drop">> \o c)
           /\ store' = [Mine(t) EXCEPT !.key = stamp + 1] /\ Remember(t, store')
  <2>1. /\ stamp' \in Nat /\ stamp <= stamp' /\ Stores \subseteq Stores' /\ Content \subseteq Content'
        /\ store' \in Stores' /\ store'.key = stamp + 1 /\ store'.svc = Mine(t).svc
    BY <1>1, <1>6, StoreFields
  <2>2. store'.svc \in {"", Mode}
    BY <1>1, <2>1
  <2>3. store' # NoStore /\ yaml' \in Content'
    <3>1. NoStore.key = 0 /\ stamp + 1 # 0
      BY <1>1, NoStoreFacts
    <3> QED  BY <1>1, <1>3, <2>1, <3>1
  <2>4. mem' \in [Process -> Stores'] /\ (\A h \in Process : mem'[h].svc \in {"", Mode}) /\ Mine(t)' = store'
    BY <1>6, <2>1, <2>2, RememberKeeps
  <2> DEFINE a == <<"drop">>
  <2>5. a \in Seq(Steps0) /\ a # <<>> /\ Head(a) = "drop" /\ Leads("launch", a, Head(c))
    <3>1. DOMAIN a = {1} /\ Len(a) = 1 /\ a[1] = "drop"
      OBVIOUS
    <3>2. Linked("launch", "drop", "secure") /\ Fits("launch", "drop")
      BY DEF Linked, Fits, PidSteps, SysSteps, EndSteps
    <3>3. a \in Seq(Steps0) /\ a # <<>> /\ Head(a) = "drop"
      BY DEF Steps0
    <3> HIDE DEF a
    <3>4. Leads("launch", a, "secure")
      BY <3>1, <3>2 DEF Leads
    <3> QED  BY <1>9, <3>3, <3>4
  <2> HIDE DEF a
  <2>6. a \o c \in Seq(Steps0) /\ Leads("launch", a \o c, "end") /\ a \o c # <<>> /\ Head(a \o c) = "drop"
    BY <1>8, <1>9, <2>5, Joined
  <2> DEFINE x == a \o c
  <2>7. x \in Seq(Steps0) /\ Follows(th[t].op, x) /\ First(x) = "drop" /\ th' = Todo(t, x)
    BY <1>6, <1>9, <2>6 DEF Follows, First, a, op
  <2> HIDE DEF x
  <2>8. Moves(t, "ports", "drop") /\ th'[t].pid = th[t].pid
    BY <1>1, <1>3, <2>7, TodoMoves
  <2>9. th'[t].op = th[t].op
    BY <2>8 DEF Moves, Turns
  <2> QED  BY <1>1, <1>3, <1>4, <1>6, <1>9, <2>1, <2>2, <2>3, <2>4, <2>8, <2>9 DEF StoreFrame, op
<1> QED  BY <1>5, <1>6 DEF Ports, c, todo

\* config.yaml goes with the old ports, or stays with an error.
LEMMA DropEffect ==
    ASSUME Sane, NEW t \in Thread, DropYaml(t)
    PROVE  /\ StoreFrame /\ UNCHANGED <<binary, hostVars>> /\ Passes(t, "drop", "secure") /\ th[t].op = "launch"
           /\ yaml' \in {yaml, NoYaml}
<1>1. /\ stamp \in Nat /\ store \in Stores /\ yaml \in Content /\ binary \in {"none", "old", "new"}
      /\ store.svc \in {"", Mode} /\ mem \in [Process -> Stores]
  BY SaneFacts
<1>2. Passes(t, "drop", "secure") /\ th[t].op = "launch"
  <2>1. PICK n : Passes(t, "drop", n)
    BY StepPasses DEF DropYaml
  <2>2. n = "secure" /\ th[t].op = "launch"
    BY <2>1 DEF Passes, Linked, Booting, Applying, Restarting, Starting
  <2> QED  BY <2>1, <2>2
<1>3. /\ UNCHANGED <<sysVars, binary, hostVars>> /\ UNCHANGED <<store, mem, lock, tui, used, stamp, misled, lost, torn>>
      /\ yaml' \in {yaml, NoYaml}
  BY DEF DropYaml, hostVars
<1>4. /\ Content' = Content /\ Stores' = Stores /\ stamp' \in Nat /\ stamp <= stamp'
      /\ (\A h \in Process : mem[h].svc \in {"", Mode}) /\ tui \in {"off", "launching", "on"}
  BY <1>3, SameStore
<1>5. yaml' \in Content
  BY <1>1, <1>3, NoStoreFacts
<1> QED  BY <1>1, <1>2, <1>3, <1>4, <1>5 DEF StoreFrame

\* A saved mutation is new content with the credentials there were.
LEMMA SaveEffect ==
    ASSUME Sane, NEW t \in Thread, SaveChange(t)
    PROVE  /\ StoreFrame /\ UNCHANGED <<binary, yaml, tui>> /\ Passes(t, "save", "assemble")
           /\ store' # NoStore /\ Mine(t)' = store' /\ store'.key = Mine(t).key
<1>1. /\ stamp \in Nat /\ yaml \in Content /\ binary \in {"none", "old", "new"}
      /\ Mine(t) \in Stores /\ Mine(t).svc \in {"", Mode}
  BY SaneFacts
<1>2. Passes(t, "save", "assemble")
  <2>1. PICK n : Passes(t, "save", n)
    BY StepPasses DEF SaveChange
  <2>2. n = "assemble"
    BY <2>1 DEF Passes, Linked, Booting, Applying, Restarting, Starting
  <2> QED  BY <2>1, <2>2
<1>3. /\ UNCHANGED <<sysVars, binary, yaml, lock, tui, used, misled, lost, torn>>
      /\ stamp' = stamp + 1 /\ store' = [Mine(t) EXCEPT !.rev = stamp + 1] /\ Remember(t, store')
  BY DEF SaveChange
<1>4. tui \in {"off", "launching", "on"}
  BY SameStore
<1>5. /\ stamp' \in Nat /\ stamp <= stamp' /\ Stores \subseteq Stores' /\ Content \subseteq Content'
      /\ store' \in Stores' /\ store'.rev = stamp + 1 /\ store'.svc = Mine(t).svc /\ store'.key = Mine(t).key
  BY <1>1, <1>3, StoreFields
<1>6. store'.svc \in {"", Mode}
  BY <1>1, <1>5
<1>7. store' # NoStore
  <2>1. NoStore.rev = 0 /\ stamp + 1 # 0
    BY <1>1, NoStoreFacts
  <2> QED  BY <1>5, <2>1
<1>8. mem' \in [Process -> Stores'] /\ (\A h \in Process : mem'[h].svc \in {"", Mode}) /\ Mine(t)' = store'
  BY <1>3, <1>5, <1>6, RememberKeeps
<1> QED  BY <1>1, <1>2, <1>3, <1>4, <1>5, <1>6, <1>7, <1>8 DEF StoreFrame

\* config.toml is renamed first, then config.yaml.
LEMMA BackupEffect ==
    ASSUME Sane, NEW t \in Thread, Backup(t)
    PROVE  /\ StoreFrame /\ UNCHANGED <<binary, yaml, tui, mem>> /\ Passes(t, "backup", "stash")
           /\ store' = NoStore
<1>1. /\ stamp \in Nat /\ binary \in {"none", "old", "new"} /\ mem \in [Process -> Stores] /\ yaml \in Content
  BY SaneFacts
<1>2. Passes(t, "backup", "stash")
  <2>1. PICK n : Passes(t, "backup", n)
    BY StepPasses DEF Backup
  <2>2. n = "stash"
    BY <2>1 DEF Passes, Linked, Booting, Applying, Restarting, Starting
  <2> QED  BY <2>1, <2>2
<1>3. UNCHANGED <<sysVars, binary, yaml, mem, lock, tui, used, stamp, misled, lost, torn>> /\ store' = NoStore
  BY DEF Backup
<1>4. /\ Content' = Content /\ Stores' = Stores /\ stamp' \in Nat /\ stamp <= stamp'
      /\ (\A h \in Process : mem[h].svc \in {"", Mode}) /\ tui \in {"off", "launching", "on"}
  BY <1>3, SameStore
<1>5. NoStore \in Stores /\ NoStore.svc = ""
  BY <1>1, NoStoreFacts
<1>6. store' \in Stores' /\ yaml' \in Content' /\ store'.svc \in {"", Mode}
  BY <1>1, <1>3, <1>4, <1>5
<1> QED  BY <1>1, <1>2, <1>3, <1>4, <1>6 DEF StoreFrame

\* Then config.yaml.
LEMMA StashEffect ==
    ASSUME Sane, NEW t \in Thread, Stash(t)
    PROVE  StoreFrame /\ UNCHANGED <<binary, hostVars>> /\ Passes(t, "stash", "load") /\ yaml' = NoYaml
<1>1. /\ stamp \in Nat /\ store \in Stores /\ binary \in {"none", "old", "new"}
      /\ store.svc \in {"", Mode} /\ mem \in [Process -> Stores]
  BY SaneFacts
<1>2. Passes(t, "stash", "load")
  <2>1. PICK n : Passes(t, "stash", n)
    BY StepPasses DEF Stash
  <2>2. n = "load"
    BY <2>1 DEF Passes, Linked, Booting, Applying, Restarting, Starting
  <2> QED  BY <2>1, <2>2
<1>3. /\ UNCHANGED <<sysVars, binary, hostVars>> /\ UNCHANGED <<store, mem, lock, tui, used, stamp, misled, lost, torn>>
      /\ yaml' = NoYaml
  BY DEF Stash, hostVars
<1>4. /\ Content' = Content /\ Stores' = Stores /\ stamp' \in Nat /\ stamp <= stamp'
      /\ (\A h \in Process : mem[h].svc \in {"", Mode}) /\ tui \in {"off", "launching", "on"}
  BY <1>3, SameStore
<1>5. yaml' \in Content
  BY <1>1, <1>3, NoStoreFacts
<1> QED  BY <1>1, <1>2, <1>3, <1>4, <1>5 DEF StoreFrame

\* The skeletons carry the credentials of the store, as do the files secured.
LEMMA ReconcileEffect ==
    ASSUME Sane, NEW t \in Thread, Reconcile(t)
    PROVE  /\ StoreFrame /\ UNCHANGED <<binary, hostVars>> /\ \E n : Passes(t, "reconcile", n)
           /\ yaml'.key = Mine(t).key
<1>1. /\ stamp \in Nat /\ store \in Stores /\ yaml \in Content /\ binary \in {"none", "old", "new"}
      /\ store.svc \in {"", Mode} /\ mem \in [Process -> Stores] /\ Mine(t) \in Stores
  BY SaneFacts
<1>2. \E n : Passes(t, "reconcile", n)
  BY StepPasses DEF Reconcile
<1>3. /\ UNCHANGED <<sysVars, binary, hostVars>> /\ UNCHANGED <<store, mem, lock, tui, used, stamp, misled, lost, torn>>
      /\ yaml' = IF yaml = NoYaml THEN BuildSkeleton(Mine(t).key) ELSE Secured(Mine(t).key)
  BY DEF Reconcile, hostVars
<1>4. /\ Content' = Content /\ Stores' = Stores /\ stamp' \in Nat /\ stamp <= stamp'
      /\ (\A h \in Process : mem[h].svc \in {"", Mode}) /\ tui \in {"off", "launching", "on"}
  BY <1>3, SameStore
<1>5. yaml' \in Content
  BY <1>1, <1>3, StoreFields
<1>6. yaml'.key = Mine(t).key
  BY <1>1, <1>3 DEF BuildSkeleton, Secured, Content
<1> QED  BY <1>1, <1>2, <1>3, <1>4, <1>5, <1>6 DEF StoreFrame

\* The skeleton config.yaml is written only where there is none.
LEMMA SkeletonEffect ==
    ASSUME Sane, NEW t \in Thread, Skeleton(t)
    PROVE  /\ StoreFrame /\ UNCHANGED <<binary, hostVars>>
           /\ \E n \in {"probe", "sysinstall"} : Passes(t, "skeleton", n)
           /\ IF yaml = NoYaml THEN yaml'.key = Mine(t).key ELSE yaml' = yaml
<1>1. /\ stamp \in Nat /\ store \in Stores /\ yaml \in Content /\ binary \in {"none", "old", "new"}
      /\ store.svc \in {"", Mode} /\ mem \in [Process -> Stores] /\ Mine(t) \in Stores
  BY SaneFacts
<1>2. \E n \in {"probe", "sysinstall"} : Passes(t, "skeleton", n)
  <2>1. PICK n : Passes(t, "skeleton", n)
    BY StepPasses DEF Skeleton
  <2>2. n \in {"probe", "sysinstall"}
    BY <2>1 DEF Passes, Linked, Booting, Applying, Restarting, Starting
  <2> QED  BY <2>1, <2>2
<1>3. /\ UNCHANGED <<sysVars, binary, hostVars>> /\ UNCHANGED <<store, mem, lock, tui, used, stamp, misled, lost, torn>>
      /\ yaml' = IF yaml = NoYaml THEN BuildSkeleton(Mine(t).key) ELSE yaml
  BY DEF Skeleton, hostVars
<1>4. /\ Content' = Content /\ Stores' = Stores /\ stamp' \in Nat /\ stamp <= stamp'
      /\ (\A h \in Process : mem[h].svc \in {"", Mode}) /\ tui \in {"off", "launching", "on"}
  BY <1>3, SameStore
<1>5. yaml' \in Content
  BY <1>1, <1>3, StoreFields
<1>6. yaml = NoYaml => yaml'.key = Mine(t).key
  BY <1>3 DEF BuildSkeleton
<1> QED  BY <1>1, <1>2, <1>3, <1>4, <1>5, <1>6 DEF StoreFrame

\* An assembly writes what the process has in memory.
LEMMA AssembleEffect ==
    ASSUME Sane, NEW t \in Thread, AssembleYaml(t)
    PROVE  /\ StoreFrame /\ UNCHANGED <<binary, store, mem>>
           /\ \E n \in {"reload", "nudge", "fetch"} : Passes(t, "assemble", n)
           /\ yaml' = [key |-> Mine(t).key, rev |-> Mine(t).rev]
<1>1. /\ stamp \in Nat /\ store \in Stores /\ yaml \in Content /\ binary \in {"none", "old", "new"}
      /\ store.svc \in {"", Mode} /\ mem \in [Process -> Stores] /\ Mine(t) \in Stores
  BY SaneFacts
<1>2. \E n \in {"reload", "nudge", "fetch"} : Passes(t, "assemble", n)
  <2>1. PICK n : Passes(t, "assemble", n)
    BY StepPasses DEF AssembleYaml
  <2>2. n \in {"reload", "nudge", "fetch"}
    BY <2>1 DEF Passes, Linked, Booting, Applying, Restarting, Starting
  <2> QED  BY <2>1, <2>2
<1>3. /\ UNCHANGED <<sysVars, binary, store, mem, lock, used, stamp, misled, lost, torn>>
      /\ yaml' = [key |-> Mine(t).key, rev |-> Mine(t).rev]
      /\ tui' = IF tui = "launching" /\ t = "boot" THEN "on" ELSE tui
  BY DEF AssembleYaml
<1>4. /\ Content' = Content /\ Stores' = Stores /\ stamp' \in Nat /\ stamp <= stamp'
      /\ (\A h \in Process : mem[h].svc \in {"", Mode}) /\ tui \in {"off", "launching", "on"}
  BY <1>3, SameStore
<1>5. yaml' \in Content
  BY <1>1, <1>3, StoreFields
<1>6. tui' \in {"off", "launching", "on"}
  BY <1>3, <1>4
<1> QED  BY <1>1, <1>2, <1>3, <1>4, <1>5, <1>6 DEF StoreFrame

\* An uninstall takes mihomo's directory first ...
LEMMA WipeEffect ==
    ASSUME Sane, NEW t \in Thread, Wipe(t)
    PROVE  /\ StoreFrame /\ UNCHANGED <<binary, hostVars>> /\ Passes(t, "wipe", "forget") /\ th[t].op = "uninstall"
           /\ yaml' = NoYaml
<1>1. /\ stamp \in Nat /\ store \in Stores /\ binary \in {"none", "old", "new"}
      /\ store.svc \in {"", Mode} /\ mem \in [Process -> Stores]
  BY SaneFacts
<1>2. Passes(t, "wipe", "forget") /\ th[t].op = "uninstall"
  <2>1. PICK n : Passes(t, "wipe", n)
    BY StepPasses DEF Wipe
  <2>2. n = "forget" /\ th[t].op = "uninstall"
    BY <2>1 DEF Passes, Linked, Booting, Applying, Restarting, Starting
  <2> QED  BY <2>1, <2>2
<1>3. /\ UNCHANGED <<sysVars, binary, hostVars>> /\ UNCHANGED <<store, mem, lock, tui, used, stamp, misled, lost, torn>>
      /\ yaml' = NoYaml
  BY DEF Wipe, hostVars
<1>4. /\ Content' = Content /\ Stores' = Stores /\ stamp' \in Nat /\ stamp <= stamp'
      /\ (\A h \in Process : mem[h].svc \in {"", Mode}) /\ tui \in {"off", "launching", "on"}
  BY <1>3, SameStore
<1>5. yaml' \in Content
  BY <1>1, <1>3, NoStoreFacts
<1> QED  BY <1>1, <1>2, <1>3, <1>4, <1>5 DEF StoreFrame

\* ... then vpnkit's own ...
LEMMA ForgetEffect ==
    ASSUME Sane, NEW t \in Thread, Forget(t)
    PROVE  /\ StoreFrame /\ UNCHANGED <<binary, yaml, tui, mem>> /\ Passes(t, "forget", "strip")
           /\ th[t].op = "uninstall" /\ store' = NoStore
<1>1. /\ stamp \in Nat /\ binary \in {"none", "old", "new"} /\ mem \in [Process -> Stores] /\ yaml \in Content
  BY SaneFacts
<1>2. Passes(t, "forget", "strip") /\ th[t].op = "uninstall"
  <2>1. PICK n : Passes(t, "forget", n)
    BY StepPasses DEF Forget
  <2>2. n = "strip" /\ th[t].op = "uninstall"
    BY <2>1 DEF Passes, Linked, Booting, Applying, Restarting, Starting
  <2> QED  BY <2>1, <2>2
<1>3. UNCHANGED <<sysVars, binary, yaml, mem, lock, tui, used, stamp, misled, lost, torn>> /\ store' = NoStore
  BY DEF Forget
<1>4. /\ Content' = Content /\ Stores' = Stores /\ stamp' \in Nat /\ stamp <= stamp'
      /\ (\A h \in Process : mem[h].svc \in {"", Mode}) /\ tui \in {"off", "launching", "on"}
  BY <1>3, SameStore
<1>5. NoStore \in Stores /\ NoStore.svc = ""
  BY <1>1, NoStoreFacts
<1>6. store' \in Stores' /\ yaml' \in Content' /\ store'.svc \in {"", Mode}
  BY <1>1, <1>3, <1>4, <1>5
<1> QED  BY <1>1, <1>2, <1>3, <1>4, <1>6 DEF StoreFrame

\* ... and the PID file and the binary last.
LEMMA StripEffect ==
    ASSUME Sane, NEW t \in Thread, Strip(t)
    PROVE  /\ UNCHANGED <<proc, unit, main, crashes, yaml, hostVars>>
           /\ Passes(t, "strip", "end") /\ th[t].op = "uninstall"
           /\ pidFile' = NoPid /\ binary' \in {binary, "none"}
<1>1. PICK n : Passes(t, "strip", n)
  BY StepPasses DEF Strip
<1>2. n = "end" /\ th[t].op = "uninstall"
  BY <1>1 DEF Passes, Linked, Booting, Applying, Restarting, Starting
<1> QED  BY <1>1, <1>2 DEF Strip

\* Every other step of a program keeps the types.
LEMMA ProgramTypes ==
    ASSUME Sane, NEW t \in Thread, ProgramStep(t), UNCHANGED <<scope, ops>>
    PROVE  Sane'
<1>1. /\ proc \in Procs /\ stamp \in Nat /\ pidFile \in Pid \union {NoPid} /\ main \in Pid \union {NoPid}
      /\ unit \in {"absent", "stopped", "running", "failed"} /\ binary \in {"none", "old", "new"}
      /\ yaml \in Content /\ Mine(t) \in Stores
  BY SaneFacts
<1>2. ASSUME StoreFrame, NEW s, NEW n, Passes(t, s, n) PROVE Sane'
  <2>1. Moves(t, s, n) /\ UNCHANGED used
    BY <1>2 DEF Passes, StoreFrame
  <2> QED  BY <1>2, <2>1, StoreKeeps DEF StoreFrame
<1>3. ASSUME UNCHANGED <<pidFile, unit, main>>, proc' \in Procs, UNCHANGED hostVars,
             binary' \in {"none", "old", "new"}, yaml' \in Content, NEW s, NEW n, Moves(t, s, n)
      PROVE  Sane'
  BY <1>1, <1>3, PlainKeeps
<1>4. CASE LoadStore(t)
  BY <1>2, <1>4, LoadEffect
<1>5. CASE DetectMode(t)
  BY <1>2, <1>5, DetectEffect
<1>6. CASE Backup(t)
  BY <1>2, <1>6, BackupEffect
<1>7. CASE Reconcile(t)
  BY <1>2, <1>7, ReconcileEffect
<1>8. CASE Ports(t)
  <2>1. StoreFrame /\ \E n : Moves(t, "ports", n)
    BY <1>8, PortsEffect DEF Passes
  <2>2. UNCHANGED used
    BY <2>1 DEF StoreFrame
  <2> QED  BY <2>1, <2>2, StoreKeeps DEF StoreFrame
<1>9. CASE Secure(t)
  <2>1. Moves(t, "secure", "assemble")
    BY <1>9, SecureEffect DEF Passes
  <2>2. UNCHANGED <<proc, pidFile, unit, main, binary>> /\ UNCHANGED hostVars
    BY <1>9 DEF Secure, sysVars
  <2>3. yaml' \in Content
    <3>1. Secured(Mine(t).key) \in Content
      BY <1>1, StoreFields
    <3> QED  BY <1>1, <1>9, <3>1 DEF Secure
  <2> QED  BY <1>1, <1>3, <2>1, <2>2, <2>3
<1>10. CASE AssembleYaml(t)
  BY <1>2, <1>10, AssembleEffect
<1>11. CASE Fetch(t)
  <2>1. UNCHANGED <<sysVars, yaml, hostVars>> /\ binary' \in {"none", "old", "new"} /\ \E n : Moves(t, "fetch", n)
    BY <1>1, <1>11, FetchEffect DEF Passes, Falls
  <2>2. UNCHANGED <<proc, pidFile, unit, main, yaml>> /\ UNCHANGED hostVars
    BY <2>1 DEF sysVars
  <2> QED  BY <1>1, <1>3, <2>1, <2>2
<1>12. CASE Skeleton(t)
  BY <1>2, <1>12, SkeletonEffect
<1>13. CASE Verify(t)
  <2>1. UNCHANGED <<sysVars, binary, yaml, hostVars>> /\ \E n : Moves(t, "verify", n)
    BY <1>13, VerifyEffect
  <2>2. UNCHANGED <<proc, pidFile, unit, main, yaml, binary>> /\ UNCHANGED hostVars
    BY <2>1 DEF sysVars
  <2> QED  BY <1>1, <1>3, <2>1, <2>2
<1>14. CASE SaveChange(t)
  BY <1>2, <1>14, SaveEffect
<1>15. CASE Reload(t)
  <2>1. /\ UNCHANGED <<pidFile, unit, main, crashes, binary, yaml, hostVars>> /\ \E n : Moves(t, "reload", n)
        /\ proc' = proc \/ \E p \in Reloads(Mine(t).key) : proc' = Reloaded(p)
    BY <1>15, ReloadEffect DEF Passes
  <2>2. proc' \in Procs
    <3>1. \A p \in Reloads(Mine(t).key) : p \in Mihomo
      BY DEF Reloads
    <3>2. proc' = proc \/ \E p \in Mihomo : proc' = Reloaded(p)
      BY <2>1, <3>1
    <3> QED  BY <1>1, <3>2, ReloadedEffect
  <2>3. UNCHANGED hostVars /\ UNCHANGED <<pidFile, unit, main, binary, yaml>>
    BY <2>1
  <2> QED  BY <1>1, <1>3, <2>1, <2>2, <2>3
<1>16. CASE Nudge(t)
  <2>1. /\ UNCHANGED <<pidFile, unit, main, crashes, binary, yaml, hostVars>> /\ \E n : Moves(t, "nudge", n)
        /\ proc' = proc \/ \E p \in Mihomo : proc' = Reloaded(p)
    BY <1>16, NudgeEffect
  <2>2. proc' \in Procs
    BY <1>1, <2>1, ReloadedEffect
  <2>3. UNCHANGED hostVars /\ UNCHANGED <<pidFile, unit, main, binary, yaml>>
    BY <2>1
  <2> QED  BY <1>1, <1>3, <2>1, <2>2, <2>3
<1>17. CASE Look(t)
  <2>1. UNCHANGED <<sysVars, binary, yaml, hostVars>> /\ \E n : Moves(t, "look", n)
    BY <1>17, LookEffect
  <2>2. UNCHANGED <<proc, pidFile, unit, main, yaml, binary>> /\ UNCHANGED hostVars
    BY <2>1 DEF sysVars
  <2> QED  BY <1>1, <1>3, <2>1, <2>2
<1>18. CASE Swap(t)
  <2>1. UNCHANGED <<sysVars, yaml, hostVars>> /\ binary' \in {"none", "old", "new"} /\ \E n : Moves(t, "swap", n)
    BY <1>1, <1>18, SwapEffect DEF Passes
  <2>2. UNCHANGED <<proc, pidFile, unit, main, yaml>> /\ UNCHANGED hostVars
    BY <2>1 DEF sysVars
  <2> QED  BY <1>1, <1>3, <2>1, <2>2
<1>19. CASE Choose(t)
  <2>1. /\ UNCHANGED <<sysVars, binary, yaml, store, mem, lock, tui, used, stamp, lost, torn>>
        /\ misled' \in BOOLEAN /\ (misled => misled') /\ Follows(th[t].op, th[t].todo)'
        /\ \E n : Turns(t, "choose", n)
    BY <1>19, ChooseEffect
  <2>2. UNCHANGED <<proc, pidFile, unit, main, yaml, binary, store, mem, lock, tui, used, stamp, lost, torn>>
    BY <2>1 DEF sysVars
  <2>3. Content' = Content /\ Stores' = Stores /\ Procs' = Procs
    BY <2>2 DEF Content, Stores, Procs
  <2>4. /\ store \in Stores /\ mem \in [Process -> Stores] /\ tui \in {"off", "launching", "on"}
        /\ used \subseteq {"core", "service"} /\ store.svc \in {"", Mode} /\ \A h \in Process : mem[h].svc \in {"", Mode}
    BY DEF Sane, TypeOK, Shape
  <2>5. UNCHANGED <<scope, lock, lost, torn>>
    BY <2>2
  <2> QED  BY <1>1, <2>1, <2>2, <2>3, <2>4, <2>5, KeepTypes
<1>20. CASE Wipe(t)
  BY <1>2, <1>20, WipeEffect
<1>21. CASE Strip(t)
  <2>1. /\ UNCHANGED <<proc, unit, main, yaml>> /\ UNCHANGED hostVars /\ Moves(t, "strip", "end")
        /\ pidFile' = NoPid /\ binary' \in {binary, "none"}
    BY <1>21, StripEffect DEF Passes
  <2> QED  BY <1>1, <2>1, PlainKeeps
<1>22. CASE Stash(t) \/ DropYaml(t) \/ Forget(t)
  BY <1>2, <1>22, StashEffect, DropEffect, ForgetEffect
<1> QED  BY <1>4, <1>5, <1>6, <1>7, <1>8, <1>9, <1>10, <1>11, <1>12, <1>13, <1>14, <1>15, <1>16, <1>17,
            <1>18, <1>19, <1>20, <1>21, <1>22 DEF ProgramStep

-----------------------------------------------------------------------------
(* Beginnings and ends.                                                    *)

\* Threads that begin and end.
LEMMA ThreadsKeep ==
    ASSUME Sane, th' \in Threads, \A u \in Thread : Follows(th'[u].op, th'[u].todo),
           UNCHANGED <<scope, misled, stamp, unit, main, binary, yaml, store>>, proc' \in Procs,
           pidFile' \in Pid \union {NoPid}, lost' \subseteq Pid \union {NoPid}, torn' \in BOOLEAN,
           mem' \in [Process -> Stores], \A h \in Process : mem'[h].svc \in {"", Mode},
           lock' \in Cli \union {"free"}, \A u \in Cli : th'[u].op \in Verbs <=> lock' = u,
           tui' \in {"off", "launching", "on"}, used' \subseteq {"core", "service"}
    PROVE  Sane'
<1>1. th' \in Threads' /\ Mode' = Mode /\ Acts' = Acts /\ Content' = Content /\ Stores' = Stores /\ Procs' = Procs
  BY DEF Threads, Mode, Acts, Ops, Content, Stores, Procs
<1>2. \A u \in Thread : Follows(th[u].op, th[u].todo)'
  <2>1. \A op, todo : Follows(op, todo) => Follows(op, todo)'
    BY FollowsOn
  <2> SUFFICES ASSUME NEW u \in Thread PROVE Follows(th[u].op, th[u].todo)'
    OBVIOUS
  <2>2. \A op, todo : op = th'[u].op /\ todo = th'[u].todo => Follows(op, todo)'
    BY <2>1
  <2> QED  BY <2>2
<1>3. /\ main \in Pid \union {NoPid} /\ misled \in BOOLEAN /\ stamp \in Nat
      /\ unit \in {"absent", "stopped", "running", "failed"} /\ binary \in {"none", "old", "new"}
      /\ yaml \in Content /\ store \in Stores /\ scope \in Scopes /\ store.svc \in {"", Mode}
  BY SaneFacts
<1>4. TypeOK'
  <2>1. \A u \in Thread : /\ th'[u].op \in Acts' \union {"none"} /\ th'[u].todo \in Seq(Steps0)
                          /\ th'[u].pid \in Pid \union {NoPid} /\ th'[u].failed \in BOOLEAN
    BY <1>1 DEF Threads
  <2> QED  BY <1>1, <1>3, <2>1 DEF TypeOK, Procs
<1>5. Shape'
  BY <1>1, <1>2, <1>3 DEF Shape
<1> QED  BY <1>4, <1>5 DEF Sane

\* A thread with nothing to do.
LEMMA IdleFacts ==
    /\ Idle \in [op : Acts \union {"none"}, todo : Seq(Steps0), pid : Pid \union {NoPid}, failed : BOOLEAN]
    /\ Idle.op = "none" /\ Idle.todo = <<>> /\ Idle.pid = NoPid /\ ~Idle.failed
BY EmptyFollows DEF Idle

\* What is known of the names of processes.
LEMMA Names ==
    ASSUME scope \in Scopes
    PROVE  /\ "tui" \notin Cli /\ "free" \notin Cli /\ Session \intersect Cli = {} /\ Thread = Cli \union Session
           /\ Process = Cli \union {"tui"} /\ Ops \subseteq Commands
BY ServiceOK, HostOK DEF Thread, Process, Session, Ops, Commands

\* An operation begins.
LEMMA BeginEffect ==
    ASSUME Sane, NEW t \in Thread, NEW op, Begin(t, op)
    PROVE  /\ op \in Commands /\ op \in Ops /\ ~Busy(t) /\ th' \in Threads /\ Others(t)
           /\ th'[t].op = op /\ th'[t].todo = Program(op) /\ th'[t].pid = NoPid /\ ~th'[t].failed
           /\ Follows(op, Program(op)) /\ First(th'[t].todo) = FirstStep(op) /\ Program(op) # <<>>
           /\ \A u \in Thread : Busy(u) => Apart = "none" \/ (Apart = "managers" /\ ~(Calls(op) /\ Calls(th[u].op)))
<1>1. th \in Threads /\ Mode \in {"pid", "systemd"} /\ scope \in Scopes
  BY SaneFacts
<1>2. op \in Ops /\ op \in Commands
  BY <1>1, Names DEF Begin
<1>3. /\ Program(op) \in Seq(Steps0) /\ Follows(op, Program(op)) /\ Program(op) # <<>>
      /\ Head(Program(op)) = FirstStep(op)
  BY <1>1, <1>2, ProgramLeads
<1> DEFINE x == Program(op)
           r == [Idle EXCEPT !.op = op, !.todo = x]
<1>4. th' = [th EXCEPT ![t] = r]
  BY DEF Begin
<1>5. x \in Seq(Steps0)
  BY <1>3
<1> HIDE DEF x
<1>6. /\ r \in [op : Acts \union {"none"}, todo : Seq(Steps0), pid : Pid \union {NoPid}, failed : BOOLEAN]
      /\ r.op = op /\ r.todo = x /\ r.pid = NoPid /\ ~r.failed
  BY <1>2, <1>5 DEF Idle, Acts
<1> HIDE DEF r
<1>7. th' \in Threads /\ th'[t] = r /\ Others(t)
  BY <1>1, <1>4, <1>6 DEF Threads, Others
<1>8. First(x) = FirstStep(op)
  BY <1>3 DEF First, x
<1> QED  BY <1>2, <1>3, <1>6, <1>7, <1>8 DEF Begin, x

\* Programs begin with the types kept, and with the flock if they take it.
LEMMA BeginTypes ==
    ASSUME Sane, NEW t \in Thread, NEW op, Begin(t, op),
           UNCHANGED <<scope, sysVars, binary, yaml, store, mem, stamp, misled, lost, torn>>,
           IF t \in Cli /\ op \in Verbs THEN lock = "free" /\ lock' = t ELSE UNCHANGED lock,
           t \in Cli => op \in Verbs \union {"update"},
           tui' \in {"off", "launching", "on"}, used' \subseteq {"core", "service"}
    PROVE  Sane'
<1>1. /\ op \in Commands /\ op \in Ops /\ ~Busy(t) /\ th' \in Threads /\ Others(t)
      /\ th'[t].op = op /\ th'[t].todo = Program(op) /\ Follows(op, Program(op))
  BY BeginEffect
<1>2. /\ proc \in Procs /\ mem \in [Process -> Stores] /\ scope \in Scopes
      /\ \A u \in Thread : Follows(th[u].op, th[u].todo)
  BY SaneFacts
<1>3. \A h \in Process : mem[h].svc \in {"", Mode}
  BY SameStore
<1>4. \A u \in Thread : Follows(th'[u].op, th'[u].todo)
  BY <1>1, <1>2 DEF Others
<1>5. lock \in Cli \union {"free"} /\ \A u \in Cli : th[u].op \in Verbs <=> lock = u
  BY DEF Sane, TypeOK
<1>6. lock' \in Cli \union {"free"} /\ \A u \in Cli : th'[u].op \in Verbs <=> lock' = u
  <2>1. CASE t \in Cli /\ op \in Verbs
    BY <1>1, <1>2, <1>5, <2>1, Names DEF Others
  <2>2. CASE t \in Cli /\ op = "update"
    <3>1. th[t].op \notin Verbs /\ op \notin Verbs
      BY <1>1, <2>2 DEF Busy, Verbs
    <3> QED  BY <1>1, <1>2, <1>5, <2>2, <3>1, Names DEF Others
  <2>3. CASE t \notin Cli
    BY <1>1, <1>2, <1>5, <2>3, Names DEF Others
  <2> QED  BY <2>1, <2>2, <2>3
<1>7. UNCHANGED <<scope, misled, lost, torn, stamp, pidFile, unit, main, binary, yaml, store, proc, mem>>
  BY DEF sysVars
<1>8. pidFile \in Pid \union {NoPid} /\ lost \subseteq Pid \union {NoPid} /\ torn \in BOOLEAN
  BY DEF Sane, TypeOK
<1> QED  BY <1>1, <1>2, <1>3, <1>4, <1>6, <1>7, <1>8, ThreadsKeep

\* A process ends, and its threads with it.
LEMMA EndEffect ==
    ASSUME Sane, NEW h, NEW ts, EndProcess(h, ts), (h \in Cli /\ ts = {h}) \/ (h = "tui" /\ ts = Session),
           pidFile' \in Pid \union {NoPid}, lost' \subseteq Pid \union {NoPid}, torn' \in BOOLEAN,
           tui' \in {"off", "launching", "on"}, used' \subseteq {"core", "service"}
    PROVE  /\ Sane' /\ Mihomo' = Mihomo
           /\ \A p \in Mihomo : proc'[p].ver = proc[p].ver /\ proc'[p].cfg = proc[p].cfg
           /\ \A u \in Thread : th'[u] = IF u \in ts THEN Idle ELSE th[u]
           /\ h \in Process /\ mem' = [mem EXCEPT ![h] = NoStore]
           /\ UNCHANGED <<scope, unit, main, crashes, binary, yaml, store, stamp, ops, misled>>
<1>1. /\ proc \in Procs /\ mem \in [Process -> Stores] /\ scope \in Scopes /\ th \in Threads /\ stamp \in Nat
      /\ \A u \in Thread : Follows(th[u].op, th[u].todo)
  BY SaneFacts
<1>2. \A g \in Process : mem[g].svc \in {"", Mode}
  BY SameStore
<1>3. \A u \in Thread : th'[u] = IF u \in ts THEN Idle ELSE th[u]
  BY DEF EndProcess
<1>4. th' \in Threads /\ \A u \in Thread : Follows(th'[u].op, th'[u].todo)
  <2>1. \A u \in Thread : th'[u] \in [op : Acts \union {"none"}, todo : Seq(Steps0), pid : Pid \union {NoPid}, failed : BOOLEAN]
    BY <1>1, <1>3, IdleFacts DEF Threads
  <2>2. th' = [u \in Thread |-> th'[u]]
    BY DEF EndProcess
  <2>3. \A u \in Thread : Follows(th'[u].op, th'[u].todo)
    BY <1>1, <1>3, IdleFacts, EmptyFollows
  <2>4. [u \in Thread |-> th'[u]] \in Threads
    BY <2>1 DEF Threads
  <2> QED  BY <2>2, <2>3, <2>4
<1>5. /\ proc' \in Procs /\ Mihomo' = Mihomo
      /\ \A p \in Mihomo : proc'[p].ver = proc[p].ver /\ proc'[p].cfg = proc[p].cfg
  BY <1>1, OrphanedEffect DEF EndProcess
<1>6. lock \in Cli \union {"free"} /\ \A u \in Cli : th[u].op \in Verbs <=> lock = u
  BY DEF Sane, TypeOK
<1>7. lock' \in Cli \union {"free"} /\ \A u \in Cli : th'[u].op \in Verbs <=> lock' = u
  <2>1. lock' = IF lock = h THEN "free" ELSE lock
    BY DEF EndProcess
  <2>2. "none" \notin Verbs
    BY DEF Verbs
  <2>3. CASE h \in Cli /\ ts = {h}
    BY <1>1, <1>3, <1>6, <2>1, <2>2, <2>3, Names, IdleFacts
  <2>4. CASE h = "tui" /\ ts = Session
    <3>1. lock # h
      BY <1>1, <1>6, <2>4, Names
    <3> QED  BY <1>1, <1>3, <1>6, <2>1, <2>4, <3>1, Names
  <2> QED  BY <2>3, <2>4
<1>8. h \in Process /\ mem' = [mem EXCEPT ![h] = NoStore]
  BY <1>1, Names DEF EndProcess
<1>9. mem' \in [Process -> Stores] /\ \A g \in Process : mem'[g].svc \in {"", Mode}
  <2>1. NoStore \in Stores /\ NoStore.svc \in {"", Mode}
    BY <1>1, NoStoreFacts
  <2> DEFINE Ok(r) == r.svc \in {"", Mode}
  <2>2. Ok(NoStore) /\ \A g \in Process : Ok(mem[g])
    BY <1>2, <2>1
  <2> HIDE DEF Ok
  <2>3. mem' \in [Process -> Stores] /\ \A g \in Process : Ok(mem'[g])
    BY <1>1, <1>8, <2>1, <2>2
  <2> QED  BY <2>3 DEF Ok
<1>10. UNCHANGED <<scope, unit, main, crashes, binary, yaml, store, stamp, ops, misled>>
  BY DEF EndProcess
<1>11. Sane'
  BY <1>4, <1>5, <1>7, <1>9, <1>10, ThreadsKeep
<1> QED  BY <1>3, <1>5, <1>8, <1>10, <1>11

\* It is killed: a child that is not recorded is lost, and the PID file may be empty.
LEMMA KilledEffect ==
    ASSUME Sane, NEW h, NEW ts, Killed(h, ts), (h \in Cli /\ ts = {h}) \/ (h = "tui" /\ ts = Session),
           tui' \in {"off", "launching", "on"}, used' \subseteq {"core", "service"}
    PROVE  /\ Sane' /\ Mihomo' = Mihomo /\ ts \subseteq Thread
           /\ \A p \in Mihomo : proc'[p].ver = proc[p].ver /\ proc'[p].cfg = proc[p].cfg
           /\ \A u \in Thread : th'[u] = IF u \in ts THEN Idle ELSE th[u]
           /\ h \in Process /\ mem' = [mem EXCEPT ![h] = NoStore]
           /\ UNCHANGED <<scope, unit, main, crashes, binary, yaml, store, stamp, ops, misled>>
           /\ lost \subseteq lost' /\ torn' = (torn \/ \E u \in ts : th[u].todo # <<>>)
           /\ \A u \in ts : Now(u) = "record" => th[u].pid \in lost'
           /\ (\A u \in ts : Now(u) # "record") => pidFile' = pidFile
           /\ pidFile' \in {pidFile, NoPid}
<1> DEFINE cut == {u \in ts : At(u, "record")}
<1>1. /\ EndProcess(h, ts) /\ lost' = lost \union {th[u].pid : u \in cut}
      /\ pidFile' \in {pidFile} \union {NoPid : u \in cut} /\ torn' = (torn \/ \E u \in ts : th[u].todo # <<>>)
  BY DEF Killed
<1>2. ts \subseteq Thread
  BY DEF Thread
<1>3. /\ \A u \in Thread : th[u].pid \in Pid \union {NoPid}
      /\ pidFile \in Pid \union {NoPid} /\ lost \subseteq Pid \union {NoPid} /\ torn \in BOOLEAN
  BY DEF Sane, TypeOK
<1>4. \A u \in ts : u \in cut <=> Now(u) = "record"
  BY DEF At, Now, First
<1>5. /\ pidFile' \in {pidFile, NoPid} /\ lost' \subseteq Pid \union {NoPid} /\ torn' \in BOOLEAN
  BY <1>1, <1>2, <1>3
<1>6. (\A u \in ts : Now(u) # "record") => pidFile' = pidFile
  BY <1>1, <1>4
<1>7. \A u \in ts : Now(u) = "record" => th[u].pid \in lost'
  BY <1>1, <1>4
<1>8. pidFile' \in Pid \union {NoPid}
  BY <1>3, <1>5
<1> HIDE DEF cut
<1> QED  BY <1>1, <1>2, <1>5, <1>6, <1>7, <1>8, EndEffect

\* A goroutine ends.
LEMMA ReturnEffect ==
    ASSUME Sane, NEW t \in Session, Return(t)
    PROVE  /\ Sane' /\ UNCHANGED <<scope, sysVars, binary, yaml, store, mem, lock, tui, used, stamp, misled, lost, ops>>
           /\ \A u \in Thread : th'[u] = IF u = t THEN Idle ELSE th[u]
<1>1. /\ proc \in Procs /\ mem \in [Process -> Stores] /\ scope \in Scopes /\ th \in Threads
      /\ \A u \in Thread : Follows(th[u].op, th[u].todo)
  BY SaneFacts
<1>2. \A g \in Process : mem[g].svc \in {"", Mode}
  BY SameStore
<1>3. /\ th' = [th EXCEPT ![t] = Idle] /\ torn' = (torn /\ th[t].op \notin Writers)
      /\ UNCHANGED <<scope, sysVars, binary, yaml, store, mem, lock, tui, used, stamp, misled, lost, ops>>
  BY DEF Return, Mended
<1>4. t \in Thread /\ t \notin Cli
  BY <1>1, Names
<1>5. th' \in Threads /\ \A u \in Thread : th'[u] = IF u = t THEN Idle ELSE th[u]
  BY <1>1, <1>3, <1>4, IdleFacts DEF Threads
<1>6. \A u \in Thread : Follows(th'[u].op, th'[u].todo)
  BY <1>1, <1>5, IdleFacts, EmptyFollows
<1>7. lock \in Cli \union {"free"} /\ \A u \in Cli : th[u].op \in Verbs <=> lock = u
  BY DEF Sane, TypeOK
<1>8. \A u \in Cli : th'[u].op \in Verbs <=> lock = u
  BY <1>1, <1>4, <1>5, <1>7, Names
<1>9. UNCHANGED <<scope, misled, lost, stamp, pidFile, unit, main, binary, yaml, store, proc, mem, lock, tui, used>>
  BY <1>3 DEF sysVars
<1>10. tui \in {"off", "launching", "on"} /\ used \subseteq {"core", "service"}
  BY DEF Sane, TypeOK
<1>12. /\ pidFile \in Pid \union {NoPid} /\ lost \subseteq Pid \union {NoPid} /\ torn' \in BOOLEAN
  BY <1>3 DEF Sane, TypeOK
<1>11. Sane'
  BY <1>1, <1>2, <1>5, <1>6, <1>7, <1>8, <1>9, <1>10, <1>12, ThreadsKeep
<1> QED  BY <1>3, <1>5, <1>11

\* Nor do systemd and mihomo itself disturb the types.
LEMMA SystemTypes ==
    ASSUME Sane, System
    PROVE  Sane'
<1>1. UNCHANGED hostVars /\ UNCHANGED <<scope, ops>>
  BY DEF System
<1>2. /\ proc' \in Procs /\ UNCHANGED <<pidFile, binary, yaml, th>> /\ main' \in Pid \union {NoPid}
      /\ unit' \in {"absent", "stopped", "running", "failed"}
  <2>1. CASE Respawn
    BY <2>1, RespawnEffect DEF ManagerFrame
  <2>2. ASSUME NEW p \in Pid, Crash(p)
        PROVE  /\ proc' \in Procs /\ UNCHANGED <<pidFile, binary, yaml, th>> /\ main' \in Pid \union {NoPid}
               /\ unit' \in {"absent", "stopped", "running", "failed"}
    BY <2>2, CrashEffect, SaneFacts
  <2> QED  BY <2>1, <2>2 DEF System
<1>3. UNCHANGED <<scope, misled, lost, torn, stamp, store, mem, lock, tui, used>>
  BY <1>1 DEF hostVars
<1>4. Mode' = Mode /\ Acts' = Acts /\ Content' = Content /\ Stores' = Stores /\ Procs' = Procs /\ Threads' = Threads
  BY <1>3, <1>1 DEF Threads, Mode, Acts, Ops, Content, Stores, Procs
<1>5. \A u \in Thread : Follows(th[u].op, th[u].todo)'
  <2>1. \A op, todo : Follows(op, todo) => Follows(op, todo)'
    BY <1>3, FollowsOn
  <2> SUFFICES ASSUME NEW u \in Thread PROVE Follows(th[u].op, th[u].todo)'
    OBVIOUS
  <2>2. Follows(th[u].op, th[u].todo)
    BY SaneFacts
  <2>3. \A op, todo : op = th[u].op /\ todo = th[u].todo => Follows(op, todo)'
    BY <2>1, <2>2
  <2> QED  BY <1>2, <2>3
<1>6. TypeOK'
  BY <1>2, <1>3, <1>4 DEF Sane, TypeOK, Procs
<1>7. Shape'
  BY <1>2, <1>3, <1>4, <1>5 DEF Sane, Shape
<1> QED  BY <1>6, <1>7 DEF Sane

\* Nor does what a user does.
LEMMA UserTypes ==
    ASSUME Sane, User
    PROVE  Sane'
<1>1. /\ tui \in {"off", "launching", "on"} /\ used \subseteq {"core", "service"} /\ scope \in Scopes
      /\ "boot" \in Thread /\ "work" \in Thread /\ "tab" \in Thread
      /\ "boot" \notin Cli /\ "work" \notin Cli /\ "tab" \notin Cli
  BY SaneFacts, Names DEF Sane, TypeOK, Session
<1>2. ASSUME NEW t \in Cli, NEW op, RunCli(t, op) PROVE Sane'
  <2>1. /\ t \in Thread /\ Begin(t, op) /\ op \in Verbs \union {"update"}
        /\ IF t \in Cli /\ op \in Verbs THEN lock = "free" /\ lock' = t ELSE UNCHANGED lock
        /\ UNCHANGED <<scope, sysVars, binary, yaml, store, mem, stamp, misled, lost, torn>> /\ UNCHANGED <<tui, used>>
    BY <1>2 DEF RunCli, Thread
  <2> QED  BY <1>1, <2>1, BeginTypes
<1>3. ASSUME NEW t \in Cli, Interrupt(t) PROVE Sane'
  <2>1. Killed(t, {t}) /\ UNCHANGED <<tui, used>>
    BY <1>3 DEF Interrupt
  <2> QED  BY <1>1, <2>1, KilledEffect
<1>4. CASE Launch
  <2>1. /\ Begin("boot", "launch") /\ UNCHANGED lock /\ tui' = "launching" /\ UNCHANGED used
        /\ UNCHANGED <<scope, sysVars, binary, yaml, store, mem, stamp, misled, lost, torn>>
    BY <1>4 DEF Launch
  <2> QED  BY <1>1, <2>1, BeginTypes
<1>5. CASE ChangeInTui
  <2>1. /\ Begin("work", "change") /\ UNCHANGED lock /\ UNCHANGED <<tui, used>>
        /\ UNCHANGED <<scope, sysVars, binary, yaml, store, mem, stamp, misled, lost, torn>>
    BY <1>5 DEF ChangeInTui
  <2> QED  BY <1>1, <2>1, BeginTypes
<1>6. CASE Quit
  <2>1. Killed("tui", Session) /\ tui' = "off" /\ used' = {}
    BY <1>6 DEF Quit
  <2> QED  BY <2>1, KilledEffect
<1>7. ASSUME NEW op, UsePage(op) PROVE Sane'
  <2>1. /\ Begin("tab", op) /\ UNCHANGED lock /\ UNCHANGED tui /\ used' \subseteq used \union {"core", "service"}
        /\ UNCHANGED <<scope, sysVars, binary, yaml, store, mem, stamp, misled, lost, torn>>
    BY <1>7 DEF UsePage
  <2> QED  BY <1>1, <2>1, BeginTypes
<1> QED  BY <1>2, <1>3, <1>4, <1>5, <1>6, <1>7 DEF User

\* The types are kept at every step.
LEMMA SaneInductive ==
    /\ Init => Sane
    /\ Sane /\ [Next]_vars => Sane'
<1>1. ASSUME Init PROVE Sane
  <2>1. /\ scope \in Scopes
        /\ proc = [p \in Pid |-> Free] /\ pidFile = NoPid /\ main = NoPid /\ unit = "absent"
        /\ binary = "none" /\ yaml = NoYaml /\ store = NoStore
        /\ th = [t \in Thread |-> Idle] /\ mem = [h \in Process |-> NoStore]
        /\ lock = "free" /\ tui = "off" /\ used = {} /\ stamp = 0 /\ misled = FALSE
        /\ lost = {} /\ torn = FALSE
    BY <1>1 DEF Init
  <2>2. stamp \in Nat
    BY <2>1
  <2>3. NoStore \in Stores /\ NoYaml \in Content /\ NoStore.svc = ""
    BY <2>2, NoStoreFacts
  <2>4. proc \in Procs
    <3>1. Free \in [kind : {"free", "mihomo", "zombie"}, home : Process \union {"init"},
                    ver : {"none", "old", "new"}, cfg : Content]
      BY <2>3 DEF Free
    <3> QED  BY <2>1, <3>1 DEF Procs
  <2>5. th \in Threads /\ \A t \in Thread : th[t].op = "none" /\ Follows(th[t].op, th[t].todo)
    BY <2>1, IdleFacts, EmptyFollows DEF Threads
  <2>6. mem \in [Process -> Stores] /\ \A h \in Process : mem[h] = NoStore
    BY <2>1, <2>3
  <2>7. \A t \in Cli : th[t].op \in Verbs <=> lock = t
    <3>1. "none" \notin Verbs
      BY DEF Verbs
    <3> QED  BY <2>1, <2>5, <3>1, Names
  <2>8. TypeOK
    BY <2>1, <2>3, <2>4, <2>5, <2>6, <2>7 DEF TypeOK, Procs, Threads
  <2>9. Shape
    BY <2>1, <2>2, <2>3, <2>5, <2>6 DEF Shape
  <2> QED  BY <2>8, <2>9 DEF Sane
<1>2. ASSUME Sane, [Next]_vars PROVE Sane'
  <2>1. CASE UNCHANGED vars
    <3>1. UNCHANGED <<scope, proc, pidFile, unit, main, crashes, binary, yaml, th, store, mem, lock, tui, used, stamp, misled, lost, torn>>
      BY <2>1 DEF vars, sysVars, hostVars
    <3>2. Content' = Content /\ Stores' = Stores /\ Threads' = Threads /\ Mode' = Mode /\ Acts' = Acts
      BY <3>1 DEF Content, Stores, Threads, Mode, Acts, Ops
    <3>3. \A t \in Thread : Follows(th[t].op, th[t].todo)'
      BY <1>2, <3>1, <3>2 DEF Sane, Shape, Follows, Leads, Fits
    <3>4. TypeOK'
      BY <1>2, <3>1, <3>2 DEF Sane, TypeOK
    <3>5. Shape'
      BY <1>2, <3>1, <3>2, <3>3 DEF Sane, Shape
    <3> QED  BY <3>4, <3>5 DEF Sane
  <2>2. ASSUME NEW t \in Thread, Steps(t) PROVE Sane'
    <3>1. CASE ManagerStep(t) /\ UNCHANGED hostVars /\ UNCHANGED <<scope, ops>>
      BY <1>2, <3>1, ManagerTypes
    <3>2. CASE ProgramStep(t) /\ UNCHANGED <<scope, ops>>
      BY <1>2, <3>2, ProgramTypes
    <3>3. CASE t \in Cli /\ Exit(t)
      <4>1. EndProcess(t, {t}) /\ UNCHANGED <<pidFile, lost, tui, used>> /\ torn' = (torn /\ th[t].op \notin Writers)
        BY <3>3 DEF Exit, Mended
      <4>2. /\ tui \in {"off", "launching", "on"} /\ used \subseteq {"core", "service"}
            /\ pidFile \in Pid \union {NoPid} /\ lost \subseteq Pid \union {NoPid} /\ torn' \in BOOLEAN
        BY <1>2, <4>1 DEF Sane, TypeOK
      <4> QED  BY <1>2, <3>3, <4>1, <4>2, EndEffect
    <3>4. CASE t \in Session /\ Return(t)
      BY <1>2, <3>4, ReturnEffect
    <3> QED  BY <2>2, <3>1, <3>2, <3>3, <3>4 DEF Steps
  <2>3. CASE System
    BY <1>2, <2>3, SystemTypes
  <2>4. CASE User
    BY <1>2, <2>4, UserTypes
  <2> QED  BY <1>2, <2>1, <2>2, <2>3, <2>4 DEF Next
<1> QED  BY <1>1, <1>2

\* Every variable has the type the code gives it, and the flock is held by the
\* command that runs under it, of any number of processes and operations.
THEOREM TypeCorrect == Spec => []TypeOK
<1>1. Sane => TypeOK
  BY DEF Sane
<1> QED  BY <1>1, SaneInductive, PTL DEF Spec

-----------------------------------------------------------------------------
(* Who calls a manager, and who may at the same time.                      *)

\* The steps that only programs that call a manager take.
Managing == PidSteps \union SysSteps \union EndSteps \union {"wipe", "forget", "strip", "look", "skeleton"}

\* A thread with steps left is busy, and may be at the one it is at.
LEMMA Held ==
    ASSUME Sane, NEW t \in Thread, Now(t) # "end"
    PROVE  /\ Busy(t) /\ th[t].todo # <<>> /\ Fits(th[t].op, Now(t)) /\ \E m : Linked(th[t].op, Now(t), m)
           /\ Now(t) \in Managing => Calls(th[t].op)
<1>1. th \in Threads /\ Follows(th[t].op, th[t].todo)
  BY SaneFacts
<1>2. th[t].todo \in Seq(Steps0) /\ th[t].todo # <<>> /\ Leads(th[t].op, th[t].todo, "end")
  BY <1>1 DEF Threads, Now, First, Follows
<1>3. Fits(th[t].op, Head(th[t].todo)) /\ \E m : Linked(th[t].op, Head(th[t].todo), m)
  BY <1>2, TailFollows
<1>4. Now(t) = Head(th[t].todo)
  BY <1>2 DEF Now, First
<1>5. \E m : Linked(th[t].op, Now(t), m)
  BY <1>3, <1>4
<1>6. th[t].op # "none" /\ (Now(t) \in Managing => Calls(th[t].op))
  BY <1>5 DEF Linked, Booting, Applying, Restarting, Starting, Managing, PidSteps, SysSteps, EndSteps, Calls
<1> QED  BY <1>2, <1>3, <1>4, <1>5, <1>6 DEF Busy

\* While one does, no other is at such a step, updates or uninstalls.
LEMMA OnlyCaller ==
    ASSUME Sane, Exclusive, Apart # "none", NEW t \in Thread, NEW u \in Thread, t # u,
           Busy(t), Calls(th[t].op)
    PROVE  Now(u) \notin Managing /\ th[u].op \notin {"uninstall", "update", "change"}
<1>1. ~Busy(u) \/ ~Calls(th[u].op)
  BY DEF Exclusive
<1>2. "end" \notin Managing
  BY DEF Managing, PidSteps, SysSteps, EndSteps
<1>3. Now(u) \notin Managing
  BY <1>1, <1>2, Held
<1>4. th[u].op \notin {"uninstall", "update", "change"}
  BY <1>1 DEF Busy, Calls
<1> QED  BY <1>3, <1>4

\* Where a step of a thread leads, and where the others stay.
LEMMA Goes ==
    ASSUME NEW t \in Thread, NEW s, NEW n, Turns(t, s, n)
    PROVE  /\ Now(t) = s /\ s # "end" /\ Now(t)' = n /\ (s # "secure" => th'[t].op = th[t].op)
           /\ \A u \in Thread : u # t => th'[u] = th[u] /\ Now(u)' = Now(u)
           /\ \A u \in Thread : th'[u].op = th[u].op \/ (th[u].op = "launch" /\ th'[u].op = "relaunch")
           /\ s # "secure" => \A u \in Thread : th'[u].op = th[u].op
<1>1. s # "end"
  BY DEF Turns, Steps0
<1> QED  BY <1>1 DEF Turns, Others, Now

-----------------------------------------------------------------------------
(* The processes are known.                                                *)

\* The parts that speak of mihomo and its files.
Base == Sane /\ Exclusive /\ Unit /\ Installed /\ Known

\* No operations but those there were.
LEMMA FewerBusy ==
    ASSUME Exclusive, UNCHANGED scope,
           \A u \in Thread : \/ th'[u].op = th[u].op \/ th'[u].op = "none"
                             \/ th[u].op = "launch" /\ th'[u].op = "relaunch"
    PROVE  Exclusive'
<1>1. Apart' = Apart
  BY DEF Apart
<1>2. \A u \in Thread : Busy(u)' => Busy(u) /\ (Calls(th[u].op)' <=> Calls(th[u].op))
  BY DEF Busy, Calls
<1> QED  BY <1>1, <1>2 DEF Exclusive

\* A mihomo that the manager knows, and no other.
LEMMA UnitFacts ==
    ASSUME Sane, Unit
    PROVE  /\ Mode = "systemd" => Mihomo \subseteq {main} /\ (unit # "running" => Mihomo = {})
           /\ Mode = "pid" => unit = "absent" /\ main = NoPid
           /\ NoPid \notin Mihomo
<1>1. NoPid \notin Mihomo
  BY ServiceOK DEF Mihomo
<1> QED  BY <1>1 DEF Unit

\* A step of the PID manager.
LEMMA PidKeeps ==
    ASSUME Base, NEW t \in Thread, NEW s \in PidSteps, NEW n, Moves(t, s, n),
           UNCHANGED <<scope, unit, main, misled, lost>>,
           Apart # "none" /\ ~misled =>
             /\ Mihomo' \subseteq {pidFile'} \union lost \/ n = "record"
             /\ n = "wait" => pidFile' = th'[t].pid
             /\ n = "spawn" => Mihomo' \subseteq lost
             /\ n = "record" => Mihomo' \subseteq {th'[t].pid} \union lost
             /\ th[t].op = "uninstall" /\ n \in Cleaning => Mihomo' \subseteq lost
    PROVE  Exclusive' /\ Unit' /\ Installed' /\ Known'
<1>1. /\ Now(t) = s /\ Now(t)' = n /\ th'[t].op = th[t].op /\ s # "end" /\ Fits(th[t].op, s)
      /\ \A u \in Thread : u # t => th'[u] = th[u] /\ Now(u)' = Now(u)
      /\ \A u \in Thread : th'[u].op = th[u].op
  BY Goes DEF Moves, Turns, PidSteps, SysSteps, EndSteps
<1>2. Mode' = Mode /\ Apart' = Apart /\ Mode = "pid"
  BY <1>1, SaneFacts DEF Mode, Apart, Fits, Base
<1>3. Exclusive'
  BY <1>1, FewerBusy DEF Base
<1>4. Unit' /\ Installed'
  BY <1>2 DEF Base, Unit, Installed
<1>5. Known'
  <2> SUFFICES ASSUME Apart # "none", ~misled PROVE Known'
    BY <1>2 DEF Known
  <2>1. Busy(t) /\ Calls(th[t].op)
    BY <1>1, Held DEF Base, Managing
  <2>2. ASSUME NEW u \in Thread, u # t
        PROVE  Now(u)' \notin {"wait", "spawn", "record"} /\ th'[u].op # "uninstall"
    <3>1. Now(u) \notin Managing /\ th[u].op # "uninstall"
      BY <2>1, <2>2, OnlyCaller DEF Base
    <3> QED  BY <1>1, <2>2, <3>1 DEF Managing, PidSteps
  <2>3. Mihomo' \subseteq {pidFile'} \union lost' \/ \E u \in Thread : Now(u)' = "record"
    BY <1>1
  <2>4. \A u \in Thread :
         /\ Now(u)' = "wait" => pidFile' = th'[u].pid
         /\ Now(u)' = "spawn" => Mihomo' \subseteq lost'
         /\ Now(u)' = "record" => Mihomo' \subseteq {th'[u].pid} \union lost'
         /\ th'[u].op = "uninstall" /\ Now(u)' \in Cleaning => Mihomo' \subseteq lost'
    <3> SUFFICES ASSUME NEW u \in Thread
                 PROVE  /\ Now(u)' = "wait" => pidFile' = th'[u].pid
                        /\ Now(u)' = "spawn" => Mihomo' \subseteq lost'
                        /\ Now(u)' = "record" => Mihomo' \subseteq {th'[u].pid} \union lost'
                        /\ th'[u].op = "uninstall" /\ Now(u)' \in Cleaning => Mihomo' \subseteq lost'
      OBVIOUS
    <3>1. CASE u = t
      BY <1>1, <3>1
    <3>2. CASE u # t
      BY <2>2, <3>2
    <3> QED  BY <3>1, <3>2
  <2> QED  BY <2>3, <2>4 DEF Known
<1> QED  BY <1>3, <1>4, <1>5

\* A step of systemd's.
LEMMA SysKeeps ==
    ASSUME Base, NEW t \in Thread, NEW s \in SysSteps \union EndSteps, NEW n, Moves(t, s, n),
           UNCHANGED <<scope, binary, misled, crashes>>,
           Mode = "systemd" => Mihomo' \subseteq {main'} /\ (unit' # "running" => main' = NoPid),
           Mode = "pid" => unit' = "absent" /\ main' = NoPid,
           Mode = "systemd" /\ Apart # "none" =>
             /\ binary = "none" => unit' = "absent"
             /\ crashes = 0 => unit' # "failed"
             /\ n \notin {"skeleton", "sysinstall"}
             /\ th[t].op = "uninstall" /\ n \in Cleaning => unit' = "absent"
    PROVE  Exclusive' /\ Unit' /\ Installed' /\ Known'
<1>1. /\ Now(t) = s /\ Now(t)' = n /\ th'[t].op = th[t].op /\ s # "end" /\ Fits(th[t].op, s)
      /\ \A u \in Thread : u # t => th'[u] = th[u] /\ Now(u)' = Now(u)
      /\ \A u \in Thread : th'[u].op = th[u].op
  BY Goes DEF Moves, Turns, PidSteps, SysSteps, EndSteps
<1>2. Mode' = Mode /\ Apart' = Apart /\ Mode \in {"pid", "systemd"}
  BY SaneFacts DEF Mode, Apart, Base
<1>3. Exclusive'
  BY <1>1, FewerBusy DEF Base
<1>4. Unit'
  BY <1>2 DEF Unit
<1>5. Known'
  <2>1. Mode = "pid" => misled
    BY <1>1 DEF Fits
  <2> QED  BY <1>2, <2>1 DEF Known
<1>6. Installed'
  <2> SUFFICES ASSUME Mode = "systemd", Apart # "none" PROVE Installed'
    BY <1>2 DEF Installed
  <2>1. Busy(t) /\ Calls(th[t].op)
    BY <1>1, Held DEF Base, Managing
  <2>2. ASSUME NEW u \in Thread, u # t
        PROVE  Now(u)' \notin {"skeleton", "sysinstall"} /\ th'[u].op # "uninstall"
    <3>1. Now(u) \notin Managing /\ th[u].op # "uninstall"
      BY <2>1, <2>2, OnlyCaller DEF Base
    <3> QED  BY <1>1, <2>2, <3>1 DEF Managing, SysSteps
  <2>3. \A u \in Thread :
         /\ Now(u)' \in {"skeleton", "sysinstall"} => binary' # "none"
         /\ th'[u].op = "uninstall" /\ Now(u)' \in Cleaning => unit' = "absent"
    <3> SUFFICES ASSUME NEW u \in Thread
                 PROVE  /\ Now(u)' \in {"skeleton", "sysinstall"} => binary' # "none"
                        /\ th'[u].op = "uninstall" /\ Now(u)' \in Cleaning => unit' = "absent"
      OBVIOUS
    <3>1. CASE u = t
      BY <1>1, <3>1
    <3>2. CASE u # t
      BY <2>2, <3>2
    <3> QED  BY <3>1, <3>2
  <2> QED  BY <2>3 DEF Installed
<1> QED  BY <1>3, <1>4, <1>5, <1>6

\* What is known before a step of the PID manager.
LEMMA KnownAt ==
    ASSUME Base, NEW t \in Thread, Now(t) \in PidSteps \union {"look", "reload"}, Calls(th[t].op),
           Mode = "pid", Apart # "none", ~misled
    PROVE  /\ Now(t) # "record" => Mihomo \subseteq {pidFile} \union lost
           /\ ~Alive(pidFile) /\ Now(t) # "record" => Mihomo \subseteq lost
           /\ Now(t) = "wait" => pidFile = th[t].pid
           /\ Now(t) = "spawn" => Mihomo \subseteq lost
           /\ Now(t) = "record" => Mihomo \subseteq {th[t].pid} \union lost
<1>1. Busy(t)
  BY Held DEF Base, PidSteps
<1>2. Now(t) # "record" => Mihomo \subseteq {pidFile} \union lost
  <2> SUFFICES ASSUME Now(t) # "record" PROVE Mihomo \subseteq {pidFile} \union lost
    OBVIOUS
  <2>1. \A u \in Thread : Now(u) # "record"
    BY <1>1, OnlyCaller DEF Base, Managing, PidSteps
  <2> QED  BY <2>1 DEF Base, Known
<1>3. pidFile \in Mihomo => Alive(pidFile)
  BY ServiceOK DEF Mihomo, Alive
<1> QED  BY <1>2, <1>3 DEF Base, Known

\* The steps of the PID manager.
LEMMA PidManagerKeeps ==
    ASSUME Base, NEW t \in Thread, UNCHANGED hostVars, UNCHANGED <<scope, ops>>,
           Term(t) \/ Wait(t) \/ Probe(t) \/ Spawn(t) \/ Record(t)
    PROVE  Exclusive' /\ Unit' /\ Installed' /\ Known'
<1>1. Sane /\ UNCHANGED <<misled, lost>>
  BY DEF hostVars, Base
<1>0. /\ "term" \in PidSteps /\ "wait" \in PidSteps /\ "probe" \in PidSteps /\ "spawn" \in PidSteps
      /\ "record" \in PidSteps
  BY DEF PidSteps
<1>2. ASSUME NEW s \in PidSteps, NEW n, Moves(t, s, n)
      PROVE  Now(t) = s /\ Calls(th[t].op) /\ Mode = "pid" /\ (Linked(th[t].op, s, n) => n # "wait" \/ s = "term")
  <2>1. Now(t) = s /\ s # "end" /\ Fits(th[t].op, s)
    BY <1>2, Goes DEF Moves, Turns
  <2>2. Mode = "pid"
    BY <1>1, <2>1, SaneFacts DEF Fits
  <2>3. Calls(th[t].op)
    BY <1>1, <2>1, Held DEF Managing
  <2>4. Linked(th[t].op, s, n) => n # "wait" \/ s = "term"
    BY DEF Linked, Booting, Applying, Restarting, Starting
  <2> QED  BY <2>1, <2>2, <2>3, <2>4
<1>3. CASE Term(t)
  <2>1. /\ Fewer /\ UNCHANGED <<unit, main>>
        /\ \/ /\ Alive(pidFile) /\ Moves(t, "term", "wait") /\ th'[t].pid = pidFile /\ pidFile' = pidFile
           \/ /\ ~Alive(pidFile) /\ pidFile' = NoPid /\ proc' = proc
              /\ \E n : Moves(t, "term", n) /\ Linked(th[t].op, "wait", n)
    BY <1>1, <1>3, TermEffect
  <2>2. CASE /\ Alive(pidFile) /\ Moves(t, "term", "wait") /\ th'[t].pid = pidFile /\ pidFile' = pidFile
    <3>1. Apart # "none" /\ ~misled => Mihomo' \subseteq {pidFile'} \union lost
      BY <1>0, <1>2, <2>1, <2>2, KnownAt DEF Fewer
    <3> QED  BY <1>0, <1>1, <2>1, <2>2, <3>1, PidKeeps DEF Cleaning
  <2>3. ASSUME NEW n, ~Alive(pidFile), pidFile' = NoPid, proc' = proc, Moves(t, "term", n), Linked(th[t].op, "wait", n)
        PROVE  Exclusive' /\ Unit' /\ Installed' /\ Known'
    <3>1. n \notin {"wait", "spawn", "record"}
      BY <2>3 DEF Linked, Booting, Applying, Restarting, Starting
    <3>2. Apart # "none" /\ ~misled => Mihomo' \subseteq lost
      BY <1>0, <1>2, <2>1, <2>3, KnownAt DEF Fewer
    <3> QED  BY <1>0, <1>1, <2>1, <2>3, <3>1, <3>2, PidKeeps
  <2> QED  BY <2>1, <2>2, <2>3
<1>4. CASE Wait(t)
  <2>1. PICK n : Fewer /\ UNCHANGED <<unit, main>> /\ pidFile' = NoPid /\ th[t].pid \notin Mihomo' /\ Passes(t, "wait", n)
    BY <1>1, <1>4, WaitEffect
  <2>2. Moves(t, "wait", n) /\ n \notin {"wait", "spawn", "record"}
    BY <2>1 DEF Passes, Linked, Booting, Applying, Restarting, Starting
  <2>3. Apart # "none" /\ ~misled => Mihomo' \subseteq lost
    BY <1>0, <1>2, <2>1, <2>2, KnownAt DEF Fewer
  <2> QED  BY <1>0, <1>1, <2>1, <2>2, <2>3, PidKeeps
<1>5. CASE Probe(t)
  <2>1. /\ UNCHANGED <<proc, pidFile, unit, main>>
        /\ \/ ~Alive(pidFile) /\ Passes(t, "probe", "spawn")
           \/ \E n : Stumbles(t, "probe", n)
    BY <1>1, <1>5, ProbeEffect
  <2>2. Mihomo' = Mihomo
    BY <2>1 DEF Mihomo
  <2>3. PICK n : Moves(t, "probe", n) /\ (n = "spawn" => ~Alive(pidFile)) /\ n \notin {"wait", "record"}
    BY <2>1 DEF Passes, Stumbles
  <2>4. th[t].op # "uninstall"
    BY <2>3 DEF Moves, Turns, Linked, Booting, Applying, Restarting, Starting
  <2>5. Apart # "none" /\ ~misled => Mihomo \subseteq {pidFile} \union lost /\ (n = "spawn" => Mihomo \subseteq lost)
    BY <1>0, <1>2, <2>3, KnownAt
  <2> QED  BY <1>0, <1>1, <2>1, <2>2, <2>3, <2>4, <2>5, PidKeeps
<1>6. CASE Spawn(t)
  <2>1. /\ UNCHANGED <<pidFile, unit, main>>
        /\ \/ proc' = proc /\ \E n : Stumbles(t, "spawn", n)
           \/ /\ Moves(t, "spawn", "record") /\ Mihomo' \subseteq Mihomo \union {th'[t].pid}
    BY <1>1, <1>6, SpawnEffect
  <2>2. PICK n : /\ Moves(t, "spawn", n) /\ n \in {"verify", "end", "record"}
                 /\ IF n = "record" THEN Mihomo' \subseteq Mihomo \union {th'[t].pid} ELSE proc' = proc
    BY <2>1 DEF Stumbles
  <2>3. th[t].op # "uninstall"
    BY <2>2 DEF Moves, Turns, Linked, Booting, Applying, Restarting, Starting
  <2>4. Apart # "none" /\ ~misled => Mihomo \subseteq lost
    BY <1>0, <1>2, <2>2, KnownAt
  <2>5. proc' = proc => Mihomo' = Mihomo
    BY DEF Mihomo
  <2>6. Apart # "none" /\ ~misled => IF n = "record" THEN Mihomo' \subseteq {th'[t].pid} \union lost ELSE Mihomo' \subseteq lost
    BY <2>2, <2>4, <2>5
  <2> QED  BY <1>0, <1>1, <2>1, <2>2, <2>3, <2>6, PidKeeps
<1>7. CASE Record(t)
  <2>1. /\ UNCHANGED <<unit, main>> /\ Fewer
        /\ \/ pidFile' = th[t].pid /\ proc' = proc /\ \E n : Passes(t, "record", n)
           \/ pidFile' = NoPid /\ th[t].pid \notin Mihomo' /\ \E n : Stumbles(t, "record", n)
    BY <1>1, <1>7, RecordEffect
  <2>2. PICK n : Moves(t, "record", n) /\ n \notin {"wait", "spawn", "record"}
    BY <2>1 DEF Passes, Stumbles, Linked, Booting, Applying, Restarting, Starting
  <2>3. th[t].op # "uninstall"
    BY <2>2 DEF Moves, Turns, Linked, Booting, Applying, Restarting, Starting
  <2>4. Apart # "none" /\ ~misled => Mihomo \subseteq {th[t].pid} \union lost
    BY <1>0, <1>2, <2>2, KnownAt
  <2>5. Apart # "none" /\ ~misled => Mihomo' \subseteq {pidFile'} \union lost
    BY <2>1, <2>4 DEF Fewer
  <2> QED  BY <1>0, <1>1, <2>1, <2>2, <2>3, <2>5, PidKeeps
<1> QED  BY <1>3, <1>4, <1>5, <1>6, <1>7

\* What systemd's start leaves of what there was.
LEMMA RanFacts ==
    ASSUME Base, NEW old, SysRan(old), old \subseteq Mihomo, Mode = "systemd",
           unit # "running" \/ old \subseteq Mihomo \ {main}
    PROVE  /\ Mihomo' \subseteq {main'} /\ (unit' # "running" => main' = NoPid)
           /\ binary # "none" => unit' = "running"
           /\ \A p \in Mihomo' : proc'[p].ver = binary /\ proc'[p].cfg = yaml
<1>1. old = {}
  BY UnitFacts DEF Base
<1>2. CASE binary = "none"
  BY <1>1, <1>2 DEF SysRan
<1>3. CASE binary # "none"
  BY <1>1, <1>3 DEF SysRan
<1> QED  BY <1>2, <1>3

\* The steps of systemd's manager.
LEMMA SysManagerKeeps ==
    ASSUME Base, NEW t \in Thread, UNCHANGED hostVars, UNCHANGED <<scope, ops>>,
           SysInstall(t) \/ SysStart(t) \/ SysStop(t) \/ SysRestart(t) \/ SysUninstall(t)
    PROVE  Exclusive' /\ Unit' /\ Installed' /\ Known'
<1>1. Sane /\ UNCHANGED misled /\ Unit /\ Mode \in {"pid", "systemd"}
  BY SaneFacts DEF hostVars, Base
<1>0. /\ {"sysinstall", "sysstart", "sysrestart", "sysstop", "sysuninstall"} \subseteq SysSteps \union EndSteps
      /\ {"sysinstall", "sysstart", "sysrestart"} \subseteq SysSteps
  BY DEF SysSteps, EndSteps
<1>2. ASSUME NEW s \in SysSteps \union EndSteps, NEW n, Moves(t, s, n)
      PROVE  /\ s \in SysSteps => Mode = "systemd" /\ th[t].op # "uninstall"
             /\ Now(t) = s
             /\ Mode = "systemd" /\ Apart # "none" =>
                  (s = "sysinstall" => binary # "none") /\ (binary = "none" => unit = "absent")
                  /\ (crashes = 0 => unit # "failed")
  <2>1. Now(t) = s /\ Fits(th[t].op, s)
    BY <1>2, Goes DEF Moves, Turns
  <2>2. s \in SysSteps => Mode = "systemd"
    BY <1>1, <2>1 DEF Fits
  <2>3. s \in SysSteps => th[t].op # "uninstall"
    BY <1>2 DEF Moves, Turns, Linked, Booting, Applying, Restarting, Starting, SysSteps
  <2> QED  BY <2>1, <2>2, <2>3 DEF Base, Installed
<1>3. /\ Mode = "systemd" => Mihomo \subseteq {main} /\ (unit # "running" => main = NoPid /\ Mihomo = {})
      /\ Mode = "pid" => unit = "absent" /\ main = NoPid
      /\ NoPid \notin Mihomo
  BY <1>1, UnitFacts DEF Unit
<1>4. UNCHANGED proc => Mihomo' = Mihomo
  BY DEF Mihomo
<1>5. CASE SysInstall(t)
  <2>1. /\ ManagerFrame
        /\ \/ unit = "running" /\ UNCHANGED <<proc, unit, main>> /\ Passes(t, "sysinstall", "sysstart")
           \/ unit # "running" /\ SysRan(Mihomo) /\ Passes(t, "sysinstall", "sysstart")
           \/ /\ unit' = (IF unit = "absent" THEN "stopped" ELSE unit) /\ UNCHANGED <<proc, main>>
              /\ \E n : Falls(t, "sysinstall", n)
    BY <1>1, <1>5, SysInstallEffect
  <2>2. PICK n : Moves(t, "sysinstall", n) /\ n \in {"sysstart", "assemble", "end"}
    BY <2>1 DEF Passes, Falls
  <2>3. /\ Mode = "systemd" /\ th[t].op # "uninstall" /\ (Apart # "none" => binary # "none")
        /\ Apart # "none" => (crashes = 0 => unit # "failed")
    BY <1>0, <1>2, <2>2
  <2>4. /\ Mihomo' \subseteq {main'} /\ (unit' # "running" => main' = NoPid)
        /\ Apart # "none" => (crashes = 0 => unit' # "failed")
    <3>1. CASE unit = "running" /\ UNCHANGED <<proc, unit, main>>
      BY <1>3, <1>4, <2>3, <3>1
    <3>2. CASE unit # "running" /\ SysRan(Mihomo)
      BY <2>3, <3>2, RanFacts
    <3>3. CASE unit' = (IF unit = "absent" THEN "stopped" ELSE unit) /\ UNCHANGED <<proc, main>>
      BY <1>3, <1>4, <2>3, <3>3
    <3> QED  BY <2>1, <3>1, <3>2, <3>3
  <2> QED  BY <1>0, <1>1, <2>1, <2>2, <2>3, <2>4, SysKeeps DEF ManagerFrame
<1>6. CASE SysStart(t)
  <2>1. /\ ManagerFrame
        /\ \/ UNCHANGED <<proc, unit, main>> /\ \E n : Stumbles(t, "sysstart", n)
           \/ unit = "running" /\ UNCHANGED <<proc, unit, main>> /\ \E n : Passes(t, "sysstart", n)
           \/ unit \in {"stopped", "failed"} /\ SysRan(Mihomo) /\ \E n : Passes(t, "sysstart", n)
    BY <1>1, <1>6, SysStartEffect
  <2>2. PICK n : Moves(t, "sysstart", n) /\ n \notin {"skeleton", "sysinstall"}
    BY <2>1 DEF Passes, Stumbles, Linked, Booting, Applying, Restarting, Starting
  <2>3. /\ Mode = "systemd" /\ th[t].op # "uninstall"
        /\ Apart # "none" => (binary = "none" => unit = "absent") /\ (crashes = 0 => unit # "failed")
    BY <1>0, <1>2, <2>2
  <2>4. Mihomo' \subseteq {main'} /\ (unit' # "running" => main' = NoPid) /\ (unit' = unit \/ (binary # "none" => unit' = "running"))
    <3>1. CASE UNCHANGED <<proc, unit, main>>
      BY <1>3, <1>4, <2>3, <3>1
    <3>2. CASE unit \in {"stopped", "failed"} /\ SysRan(Mihomo)
      BY <2>3, <3>2, RanFacts
    <3> QED  BY <2>1, <3>1, <3>2
  <2>5. Apart # "none" => (binary = "none" => unit' = "absent") /\ (crashes = 0 => unit' # "failed")
    <3>1. CASE unit' = unit
      BY <2>3, <3>1
    <3>2. CASE unit \in {"stopped", "failed"} /\ SysRan(Mihomo)
      <4>1. Apart # "none" => binary # "none"
        BY <2>3, <3>2
      <4>2. binary # "none" => unit' = "running"
        BY <2>3, <3>2, RanFacts
      <4> QED  BY <4>1, <4>2
    <3> QED  BY <2>1, <3>1, <3>2
  <2> QED  BY <1>0, <1>1, <2>1, <2>2, <2>3, <2>4, <2>5, SysKeeps DEF ManagerFrame
<1>7. CASE SysStop(t)
  <2>1. /\ ManagerFrame /\ Fewer
        /\ \/ UNCHANGED <<proc, unit, main>>
           \/ unit # "absent" /\ unit' = "stopped" /\ main' = NoPid /\ main \notin Mihomo'
    BY <1>1, <1>7, SysStopEffect
  <2>2. PICK n : Moves(t, "sysstop", n) /\ Linked(th[t].op, "sysstop", n)
    BY <1>1, <1>7, SysStopEffect DEF Passes, Misses
  <2>3. /\ Moves(t, "sysstop", n) /\ n \notin {"skeleton", "sysinstall"}
        /\ th[t].op = "uninstall" => n \notin Cleaning
    BY <2>2 DEF Linked, Booting, Applying, Restarting, Starting, Cleaning
  <2>4. Mode = "systemd" /\ Apart # "none" => (binary = "none" => unit = "absent") /\ (crashes = 0 => unit # "failed")
    BY <1>0, <1>2, <2>3
  <2>5. Mode = "systemd" => Mihomo' = {} \/ UNCHANGED <<proc, unit, main>>
    BY <1>3, <2>1 DEF Fewer
  <2>6. Mode = "systemd" => Mihomo' \subseteq {main'} /\ (unit' # "running" => main' = NoPid)
    BY <1>3, <1>4, <2>1, <2>5
  <2>7. Mode = "pid" => unit' = "absent" /\ main' = NoPid
    BY <1>3, <2>1
  <2>8. Mode = "systemd" /\ Apart # "none" => (binary = "none" => unit' = "absent") /\ (crashes = 0 => unit' # "failed")
    BY <2>1, <2>4
  <2> QED  BY <1>0, <1>1, <2>1, <2>3, <2>6, <2>7, <2>8, SysKeeps DEF ManagerFrame
<1>8. CASE SysRestart(t)
  <2>1. /\ ManagerFrame
        /\ \/ UNCHANGED <<proc, unit, main>> /\ \E n : Stumbles(t, "sysrestart", n)
           \/ unit # "absent" /\ SysRan(Mihomo \ {main}) /\ \E n : Passes(t, "sysrestart", n)
    BY <1>1, <1>8, SysRestartEffect
  <2>2. PICK n : Moves(t, "sysrestart", n) /\ n \notin {"skeleton", "sysinstall"}
    BY <2>1 DEF Passes, Stumbles, Linked, Booting, Applying, Restarting, Starting
  <2>3. /\ Mode = "systemd" /\ th[t].op # "uninstall"
        /\ Apart # "none" => (binary = "none" => unit = "absent") /\ (crashes = 0 => unit # "failed")
    BY <1>0, <1>2, <2>2
  <2>4. CASE UNCHANGED <<proc, unit, main>>
    <3>1. Mihomo' \subseteq {main'} /\ (unit' # "running" => main' = NoPid)
      BY <1>3, <1>4, <2>3, <2>4
    <3> QED  BY <1>0, <1>1, <2>1, <2>2, <2>3, <2>4, <3>1, SysKeeps DEF ManagerFrame
  <2>5. CASE unit # "absent" /\ SysRan(Mihomo \ {main})
    <3>1. Mihomo' \subseteq {main'} /\ (unit' # "running" => main' = NoPid) /\ (binary # "none" => unit' = "running")
      <4> DEFINE old == Mihomo \ {main}
      <4>1. old \subseteq Mihomo /\ old \subseteq Mihomo \ {main} /\ SysRan(old)
        BY <2>5
      <4> HIDE DEF old
      <4> QED  BY <2>3, <4>1, RanFacts
    <3>2. Apart # "none" => (binary = "none" => unit' = "absent") /\ (crashes = 0 => unit' # "failed")
      BY <2>3, <2>5, <3>1
    <3> QED  BY <1>0, <1>1, <2>1, <2>2, <2>3, <3>1, <3>2, SysKeeps DEF ManagerFrame
  <2> QED  BY <2>1, <2>4, <2>5
<1>9. CASE SysUninstall(t)
  <2>1. ManagerFrame /\ Fewer /\ unit' = "absent" /\ main' = NoPid /\ main \notin Mihomo'
    BY <1>1, <1>9, SysUninstallEffect
  <2>2. PICK n : Passes(t, "sysuninstall", n)
    BY <1>1, <1>9, SysUninstallEffect
  <2>3. Moves(t, "sysuninstall", n) /\ n \notin {"skeleton", "sysinstall"}
    BY <2>2 DEF Passes, Linked, Booting, Applying, Restarting, Starting
  <2>4. Mode = "systemd" => Mihomo' = {}
    BY <1>3, <2>1 DEF Fewer
  <2> QED  BY <1>0, <1>1, <2>1, <2>3, <2>4, SysKeeps DEF ManagerFrame
<1> QED  BY <1>5, <1>6, <1>7, <1>8, <1>9

\* A step that is no manager's: it starts and stops nothing and leads to no such step.
Aside(t, s, n) ==
    /\ Turns(t, s, n) /\ s \notin PidSteps \union SysSteps \union EndSteps \union {"strip"}
    /\ UNCHANGED <<scope, pidFile, unit, main, crashes, lost>> /\ Mihomo' = Mihomo
    /\ \A p \in Mihomo : proc'[p].ver = proc[p].ver
    /\ (misled => misled') /\ th'[t].pid = th[t].pid
    /\ binary' = binary \/ (s = "fetch" /\ binary' # "none") \/ (s = "swap" /\ binary' = "new")
    /\ n \notin {"wait", "spawn", "record"} /\ (n = "skeleton" => binary' # "none")
    /\ n = "sysinstall" => s = "skeleton"
    /\ th[t].op = "uninstall" /\ n \in Cleaning => s \in Cleaning

\* All but the managers' steps and an uninstall's last are such.
LEMMA AsideSteps ==
    ASSUME Sane, NEW t \in Thread, ProgramStep(t), ~Strip(t), UNCHANGED <<scope, ops>>
    PROVE  \E s, n : Aside(t, s, n)
<1>1. \A p \in Mihomo : p \in Pid
  BY DEF Mihomo
<1>2. ASSUME NEW s, NEW n, Passes(t, s, n), UNCHANGED <<sysVars, binary, misled, lost>>,
             s \in {"load", "detect", "backup", "stash", "reconcile", "drop", "secure", "assemble", "save", "skeleton",
                    "wipe", "forget"}
      PROVE  \E m : Aside(t, s, m)
  <2>1. Turns(t, s, n) /\ th'[t].pid = th[t].pid
    BY <1>2 DEF Passes, Moves
  <2>2. UNCHANGED <<scope, proc, pidFile, unit, main, crashes, binary, misled, lost>> /\ Mihomo' = Mihomo
    BY <1>2 DEF sysVars, Mihomo
  <2>3. /\ n \notin {"wait", "spawn", "record", "skeleton"} /\ (n = "sysinstall" => s = "skeleton")
        /\ th[t].op = "uninstall" /\ n \in Cleaning => s \in Cleaning
    BY <1>2 DEF Passes, Linked, Booting, Applying, Restarting, Starting, Cleaning
  <2>4. s \notin PidSteps \union SysSteps \union EndSteps \union {"strip"}
    BY <1>2 DEF PidSteps, SysSteps, EndSteps
  <2> QED  BY <2>1, <2>2, <2>3, <2>4 DEF Aside
<1>3. ASSUME StoreFrame, UNCHANGED binary PROVE UNCHANGED <<sysVars, binary, misled, lost>>
  BY <1>3 DEF StoreFrame
<1>4. CASE LoadStore(t)
  BY <1>2, <1>3, <1>4, LoadEffect
<1>5. CASE DetectMode(t)
  BY <1>2, <1>3, <1>5, DetectEffect
<1>6. CASE Backup(t)
  BY <1>2, <1>3, <1>6, BackupEffect
<1>7. CASE Reconcile(t)
  BY <1>2, <1>3, <1>7, ReconcileEffect
<1>8. CASE Ports(t)
  <2>1. /\ StoreFrame /\ UNCHANGED binary /\ th[t].op = "launch" /\ th'[t].pid = th[t].pid
        /\ Moves(t, "ports", "secure") \/ Moves(t, "ports", "drop")
    BY <1>8, PortsEffect DEF Passes
  <2>2. UNCHANGED <<scope, proc, pidFile, unit, main, crashes, binary, misled, lost>> /\ Mihomo' = Mihomo
    BY <2>1 DEF StoreFrame, sysVars, Mihomo
  <2>3. PICK n \in {"secure", "drop"} : Turns(t, "ports", n)
    BY <2>1 DEF Moves
  <2>4. "ports" \notin PidSteps \union SysSteps \union EndSteps \union {"strip"}
    BY DEF PidSteps, SysSteps, EndSteps
  <2> QED  BY <2>1, <2>2, <2>3, <2>4 DEF Aside
<1>9. CASE Secure(t)
  <2>1. Passes(t, "secure", "assemble")
    BY <1>9, SecureEffect
  <2>2. UNCHANGED <<sysVars, binary, misled, lost>>
    BY <1>9 DEF Secure, hostVars
  <2> QED  BY <1>2, <2>1, <2>2
<1>10. CASE AssembleYaml(t)
  BY <1>2, <1>3, <1>10, AssembleEffect
<1>11. CASE Skeleton(t)
  BY <1>2, <1>3, <1>11, SkeletonEffect
<1>12. CASE SaveChange(t)
  BY <1>2, <1>3, <1>12, SaveEffect
<1>13. ASSUME NEW s \in {"fetch", "verify", "reload", "nudge", "look", "swap", "choose"}
       PROVE  s \notin PidSteps \union SysSteps \union EndSteps \union {"strip"}
  BY DEF PidSteps, SysSteps, EndSteps
<1>14. CASE Fetch(t)
  <2>1. UNCHANGED <<sysVars, hostVars>>
    BY <1>14, FetchEffect
  <2>2. UNCHANGED <<scope, proc, pidFile, unit, main, crashes, misled, lost>> /\ Mihomo' = Mihomo
    BY <2>1 DEF sysVars, hostVars, Mihomo
  <2>3. \/ Passes(t, "fetch", "skeleton") /\ binary' # "none"
        \/ \E n : Moves(t, "fetch", n) /\ n \in {"assemble", "end"} /\ binary' = binary
    BY <1>14, FetchEffect DEF Falls
  <2>4. th'[t].pid = th[t].pid
    BY <1>14, FetchEffect DEF Passes, Falls
  <2>5. PICK n : /\ Turns(t, "fetch", n) /\ n \in {"skeleton", "assemble", "end"}
                 /\ n = "skeleton" => binary' # "none"
                 /\ binary' = binary \/ binary' # "none"
    BY <2>3 DEF Passes, Moves
  <2>6. th[t].op # "uninstall"
    BY <2>5 DEF Turns, Linked, Booting, Applying, Restarting, Starting
  <2> QED  BY <1>13, <2>2, <2>4, <2>5, <2>6 DEF Aside
<1>15. CASE Verify(t)
  <2>1. UNCHANGED <<sysVars, binary, hostVars>> /\ th[t].op # "uninstall"
    BY <1>15, VerifyEffect
  <2>2. UNCHANGED <<scope, proc, pidFile, unit, main, crashes, misled, lost, binary>> /\ Mihomo' = Mihomo
    BY <2>1 DEF sysVars, hostVars, Mihomo
  <2>3. PICK n \in {"assemble", "end"} : Turns(t, "verify", n)
    BY <1>15, VerifyEffect DEF Moves
  <2>4. th'[t].pid = th[t].pid
    <3>1. th' = [Next1(t) EXCEPT ![t].failed = ~Running(Mode)]
      BY <1>15 DEF Verify
    <3>2. th \in Threads
      BY SaneFacts
    <3> DEFINE f == ~Running(Mode)
    <3> HIDE DEF f
    <3>3. th' = [Next1(t) EXCEPT ![t].failed = f]
      BY <3>1 DEF f
    <3> QED  BY <3>2, <3>3 DEF Next1, Todo, Threads
  <2> QED  BY <1>13, <2>1, <2>2, <2>3, <2>4 DEF Aside
<1>16. CASE Reload(t)
  <2>1. /\ UNCHANGED <<pidFile, unit, main, crashes, binary, hostVars>> /\ th[t].op # "uninstall"
        /\ proc' = proc \/ \E p \in Mihomo : proc' = Reloaded(p)
    BY <1>16, ReloadEffect DEF Reloads
  <2>2. UNCHANGED <<scope, pidFile, unit, main, crashes, misled, lost, binary>>
    BY <2>1 DEF hostVars
  <2>3. Mihomo' = Mihomo /\ \A p \in Mihomo : proc'[p].ver = proc[p].ver
    <3>1. proc \in Procs /\ stamp \in Nat /\ yaml \in Content
      BY SaneFacts
    <3>2. CASE proc' = proc
      BY <3>2 DEF Mihomo
    <3>3. CASE \E p \in Mihomo : proc' = Reloaded(p)
      BY <1>1, <3>1, <3>3, ReloadedEffect
    <3> QED  BY <2>1, <3>2, <3>3
  <2>4. PICK n \in {"term", "sysrestart", "end"} : Turns(t, "reload", n)
    BY <1>16, ReloadEffect DEF Passes, Moves
  <2>5. th'[t].pid = th[t].pid
    <3>1. th' = Next1(t) \/ th' = Todo(t, <<>>)
      BY <1>16 DEF Reload
    <3>2. th \in Threads
      BY SaneFacts
    <3> QED  BY <3>1, <3>2 DEF Next1, Todo, Threads
  <2> QED  BY <1>13, <2>1, <2>2, <2>3, <2>4, <2>5 DEF Aside
<1>17. CASE Nudge(t)
  <2>1. /\ UNCHANGED <<pidFile, unit, main, crashes, binary, hostVars>> /\ th[t].op = "verb"
        /\ Turns(t, "nudge", "end") /\ (proc' = proc \/ \E p \in Mihomo : proc' = Reloaded(p))
    BY <1>17, NudgeEffect DEF Moves
  <2>2. UNCHANGED <<scope, pidFile, unit, main, crashes, misled, lost, binary>>
    BY <2>1 DEF hostVars
  <2>3. Mihomo' = Mihomo /\ \A p \in Mihomo : proc'[p].ver = proc[p].ver
    <3>1. proc \in Procs /\ stamp \in Nat /\ yaml \in Content
      BY SaneFacts
    <3>2. CASE proc' = proc
      BY <3>2 DEF Mihomo
    <3>3. CASE \E p \in Mihomo : proc' = Reloaded(p)
      BY <1>1, <3>1, <3>3, ReloadedEffect
    <3> QED  BY <2>1, <3>2, <3>3
  <2>5. th'[t].pid = th[t].pid
    <3>1. th' = Next1(t) \/ GiveUp(t)
      BY <1>17 DEF Nudge
    <3>2. th \in Threads
      BY SaneFacts
    <3> QED  BY <3>1, <3>2 DEF Next1, Todo, GiveUp, Threads
  <2> QED  BY <1>13, <2>1, <2>2, <2>3, <2>5 DEF Aside
<1>18. CASE Look(t)
  <2>1. UNCHANGED <<sysVars, binary, hostVars>> /\ th[t].op = "update" /\ th'[t].pid = th[t].pid
    BY <1>18, LookEffect
  <2>2. UNCHANGED <<scope, proc, pidFile, unit, main, crashes, misled, lost, binary>> /\ Mihomo' = Mihomo
    BY <2>1 DEF sysVars, hostVars, Mihomo
  <2>3. PICK n \in {"swap", "term", "sysstop"} : Turns(t, "look", n)
    BY <1>18, LookEffect DEF Moves
  <2> QED  BY <1>13, <2>1, <2>2, <2>3 DEF Aside
<1>19. CASE Swap(t)
  <2>1. UNCHANGED <<sysVars, hostVars>> /\ th[t].op \in {"update", "core"} /\ th'[t].pid = th[t].pid
    BY <1>19, SwapEffect
  <2>2. UNCHANGED <<scope, proc, pidFile, unit, main, crashes, misled, lost>> /\ Mihomo' = Mihomo
    BY <2>1 DEF sysVars, hostVars, Mihomo
  <2>3. PICK n : /\ Turns(t, "swap", n) /\ binary' \in {binary, "new"}
                 /\ n \notin {"wait", "spawn", "record", "skeleton", "sysinstall"}
    BY <1>19, SwapEffect DEF Passes, Moves, Linked, Booting, Applying, Restarting, Starting
  <2> QED  BY <1>13, <2>1, <2>2, <2>3 DEF Aside
<1>20. CASE Choose(t)
  <2>1. UNCHANGED <<sysVars, binary, lost>> /\ (misled => misled')
    BY <1>20, ChooseEffect
  <2>2. UNCHANGED <<scope, proc, pidFile, unit, main, crashes, binary, lost>> /\ Mihomo' = Mihomo
    BY <2>1 DEF sysVars, Mihomo
  <2>3. PICK n \in {"term", "sysstop"} : Turns(t, "choose", n)
    BY <1>20, ChooseEffect
  <2>4. th'[t].pid = th[t].pid
    <3>1. th \in Threads
      BY SaneFacts
    <3>2. \E x : th' = Todo(t, x)
      BY <1>20 DEF Choose
    <3> QED  BY <3>1, <3>2 DEF Todo, Threads
  <2> QED  BY <1>13, <2>1, <2>2, <2>3, <2>4 DEF Aside, Cleaning
<1>21. CASE Stash(t) \/ DropYaml(t) \/ Wipe(t)
  <2>1. CASE Stash(t)
    BY <1>2, <1>3, <2>1, StashEffect
  <2>2. CASE DropYaml(t)
    BY <1>2, <1>3, <2>2, DropEffect
  <2>3. CASE Wipe(t)
    BY <1>2, <1>3, <2>3, WipeEffect
  <2> QED  BY <1>21, <2>1, <2>2, <2>3
<1>22. CASE Forget(t)
  BY <1>2, <1>3, <1>22, ForgetEffect
<1> QED  BY <1>4, <1>5, <1>6, <1>7, <1>8, <1>9, <1>10, <1>11, <1>12, <1>14, <1>15, <1>16, <1>17, <1>18, <1>19,
            <1>20, <1>21, <1>22 DEF ProgramStep

\* They leave what is known.
LEMMA AsideKeeps ==
    ASSUME Base, NEW t \in Thread, NEW s, NEW n, Aside(t, s, n)
    PROVE  Exclusive' /\ Unit' /\ Installed' /\ Known'
<1>1. /\ Now(t) = s /\ Now(t)' = n /\ s # "end"
      /\ \A u \in Thread : u # t => th'[u] = th[u] /\ Now(u)' = Now(u)
      /\ \A u \in Thread : th'[u].op = th[u].op \/ (th[u].op = "launch" /\ th'[u].op = "relaunch")
  BY Goes DEF Aside
<1>2. Mode' = Mode /\ Apart' = Apart /\ Mode \in {"pid", "systemd"}
  BY SaneFacts DEF Mode, Apart, Base, Aside
<1>3. Exclusive'
  BY <1>1, FewerBusy DEF Base, Aside
<1>4. Unit'
  BY <1>2 DEF Unit, Base, Aside
<1>5. binary # "none" => binary' # "none"
  BY DEF Aside
<1>6. Known'
  <2> SUFFICES ASSUME Mode = "pid", Apart # "none", ~misled PROVE Known'
    BY <1>2 DEF Known, Aside
  <2>1. \A u \in Thread : Now(u)' \in {"wait", "spawn", "record"} => u # t /\ Now(u) = Now(u)' /\ th'[u] = th[u]
    BY <1>1 DEF Aside
  <2>2. \A u \in Thread : th'[u].op = "uninstall" /\ Now(u)' \in Cleaning => th[u].op = "uninstall" /\ Now(u) \in Cleaning
    BY <1>1 DEF Aside
  <2>3. \A u \in Thread : Now(u) = "record" => u # t /\ Now(u)' = "record"
    BY <1>1 DEF Aside, PidSteps
  <2>4. Mihomo' \subseteq {pidFile'} \union lost' \/ \E u \in Thread : Now(u)' = "record"
    BY <2>3 DEF Base, Known, Aside
  <2>5. \A u \in Thread :
         /\ Now(u)' = "wait" => pidFile' = th'[u].pid
         /\ Now(u)' = "spawn" => Mihomo' \subseteq lost'
         /\ Now(u)' = "record" => Mihomo' \subseteq {th'[u].pid} \union lost'
         /\ th'[u].op = "uninstall" /\ Now(u)' \in Cleaning => Mihomo' \subseteq lost'
    BY <2>1, <2>2 DEF Base, Known, Aside
  <2> QED  BY <2>4, <2>5 DEF Known
<1>7. Installed'
  <2> SUFFICES ASSUME Mode = "systemd", Apart # "none" PROVE Installed'
    BY <1>2 DEF Installed
  <2>1. \A u \in Thread : Now(u)' \in {"skeleton", "sysinstall"} => binary' # "none"
    <3> SUFFICES ASSUME NEW u \in Thread, Now(u)' \in {"skeleton", "sysinstall"} PROVE binary' # "none"
      OBVIOUS
    <3>1. CASE u # t
      BY <1>1, <1>5, <3>1 DEF Base, Installed
    <3>2. CASE u = t
      BY <1>1, <1>5, <3>2 DEF Base, Installed, Aside
    <3> QED  BY <3>1, <3>2
  <2>2. \A u \in Thread : th'[u].op = "uninstall" /\ Now(u)' \in Cleaning => unit' = "absent"
    BY <1>1 DEF Base, Installed, Aside
  <2>3. (binary' = "none" => unit' = "absent") /\ (crashes' = 0 => unit' # "failed")
    BY <1>5 DEF Base, Installed, Aside
  <2> QED  BY <2>1, <2>2, <2>3 DEF Installed
<1> QED  BY <1>3, <1>4, <1>6, <1>7

\* Nor does the last step of an uninstall: nothing it knows of runs then.
LEMMA StripKeeps ==
    ASSUME Base, NEW t \in Thread, Strip(t), UNCHANGED <<scope, ops>>
    PROVE  Exclusive' /\ Unit' /\ Installed' /\ Known'
<1>0. /\ UNCHANGED <<proc, unit, main, crashes, misled, lost>> /\ Turns(t, "strip", "end") /\ th[t].op = "uninstall"
      /\ pidFile' = NoPid /\ binary' \in {binary, "none"}
  BY StripEffect DEF Base, Passes, Moves, hostVars
<1>1. /\ Now(t) = "strip" /\ Now(t)' = "end" /\ th'[t].op = "uninstall"
      /\ \A u \in Thread : u # t => th'[u] = th[u] /\ Now(u)' = Now(u)
      /\ \A u \in Thread : th'[u].op = th[u].op
  BY <1>0, Goes
<1>2. Mode' = Mode /\ Apart' = Apart /\ Mihomo' = Mihomo
  BY <1>0 DEF Mode, Apart, Mihomo
<1>3. Exclusive'
  BY <1>1, FewerBusy DEF Base
<1>4. Unit'
  BY <1>0, <1>2 DEF Unit, Base
<1>5. ASSUME Apart # "none", NEW u \in Thread, u # t
      PROVE  Now(u)' \notin {"wait", "spawn", "record", "skeleton", "sysinstall"} /\ th'[u].op # "uninstall"
  <2>1. Busy(t) /\ Calls(th[t].op)
    BY <1>0 DEF Busy, Calls
  <2>2. Now(u) \notin Managing /\ th[u].op # "uninstall"
    BY <1>5, <2>1, OnlyCaller DEF Base
  <2> QED  BY <1>1, <1>5, <2>2 DEF Managing, PidSteps, SysSteps
<1>6. Known'
  <2> SUFFICES ASSUME Mode = "pid", Apart # "none", ~misled PROVE Known'
    BY <1>0, <1>2 DEF Known
  <2>1. Mihomo' \subseteq lost'
    BY <1>0, <1>1, <1>2 DEF Base, Known, Cleaning
  <2>2. \A u \in Thread : Now(u)' \notin {"wait", "record"}
    BY <1>1, <1>5
  <2> QED  BY <2>1, <2>2 DEF Known
<1>7. Installed'
  <2> SUFFICES ASSUME Mode = "systemd", Apart # "none" PROVE Installed'
    BY <1>2 DEF Installed
  <2>1. unit' = "absent"
    BY <1>0, <1>1 DEF Base, Installed, Cleaning
  <2>2. \A u \in Thread : Now(u)' \notin {"skeleton", "sysinstall"}
    BY <1>1, <1>5
  <2> QED  BY <2>1, <2>2 DEF Installed
<1> QED  BY <1>3, <1>4, <1>6, <1>7

\* Where a program begins, nothing has to be known, and no manager is called twice.
LEMMA FirstSteps ==
    ASSUME NEW op \in Commands, Mode \in {"pid", "systemd"}
    PROVE  /\ FirstStep(op) \notin {"wait", "spawn", "record", "skeleton", "sysinstall", "assemble", "reload", "end"}
           /\ op = "uninstall" => FirstStep(op) = "load"
           /\ op = "update" => FirstStep(op) = "load"
           /\ op = "change" => FirstStep(op) = "save"
           /\ op \in Writers \ {"change"} => FirstStep(op) \in {"load", "backup"}
BY DEF Commands, Verbs, FirstStep, Writers

\* Threads that begin, end or are killed leave what is known; the child of one that
\* has not recorded it is lost.
LEMMA TurnoverKeeps ==
    ASSUME Base, UNCHANGED <<scope, unit, main, crashes, binary, misled>>, Mihomo' = Mihomo, lost \subseteq lost',
           (\A u \in Thread : th'[u] = th[u] \/ Now(u) # "record") => pidFile' = pidFile,
           \A u \in Thread : \/ th'[u] = th[u]
                             \/ /\ Now(u)' \notin {"wait", "spawn", "record", "skeleton", "sysinstall"}
                                /\ th'[u].op = "uninstall" => Now(u)' \notin Cleaning
                                /\ Now(u) = "record" => th[u].pid \in lost'
    PROVE  Unit' /\ Installed' /\ Known'
<1>1. Mode' = Mode /\ Apart' = Apart
  BY DEF Mode, Apart
<1>2. \A u \in Thread : th'[u] = th[u] => Now(u)' = Now(u)
  BY DEF Now
<1>3. Unit'
  BY <1>1 DEF Unit, Base
<1>4. Installed'
  <2> SUFFICES ASSUME Mode = "systemd", Apart # "none" PROVE Installed'
    BY <1>1 DEF Installed
  <2>1. \A u \in Thread : Now(u)' \in {"skeleton", "sysinstall"} => binary' # "none"
    BY <1>2 DEF Base, Installed
  <2>2. \A u \in Thread : th'[u].op = "uninstall" /\ Now(u)' \in Cleaning => unit' = "absent"
    BY <1>2 DEF Base, Installed
  <2>3. (binary' = "none" => unit' = "absent") /\ (crashes' = 0 => unit' # "failed")
    BY DEF Base, Installed
  <2> QED  BY <2>1, <2>2, <2>3 DEF Installed
<1>5. Known'
  <2> SUFFICES ASSUME Mode = "pid", Apart # "none", ~misled PROVE Known'
    BY <1>1 DEF Known
  <2>1. CASE \A u \in Thread : th'[u] = th[u] \/ Now(u) # "record"
    <3>1. pidFile' = pidFile
      BY <2>1
    <3>2. Mihomo' \subseteq {pidFile'} \union lost' \/ \E u \in Thread : Now(u)' = "record"
      BY <1>2, <2>1, <3>1 DEF Base, Known
    <3>3. \A u \in Thread :
           /\ Now(u)' = "wait" => pidFile' = th'[u].pid
           /\ Now(u)' = "spawn" => Mihomo' \subseteq lost'
           /\ Now(u)' = "record" => Mihomo' \subseteq {th'[u].pid} \union lost'
           /\ th'[u].op = "uninstall" /\ Now(u)' \in Cleaning => Mihomo' \subseteq lost'
      BY <1>2, <3>1 DEF Base, Known
    <3> QED  BY <3>2, <3>3 DEF Known
  <2>2. ASSUME NEW u \in Thread, th'[u] # th[u], Now(u) = "record" PROVE Known'
    <3>1. Mihomo' \subseteq lost'
      BY <2>2 DEF Base, Known
    <3>2. Busy(u) /\ Calls(th[u].op)
      BY <2>2, Held DEF Base, Managing, PidSteps
    <3>3. \A v \in Thread : Now(v)' # "wait"
      <4> SUFFICES ASSUME NEW v \in Thread, v # u PROVE Now(v)' # "wait"
        BY <2>2
      <4>1. Now(v) \notin Managing
        BY <3>2, OnlyCaller DEF Base
      <4> QED  BY <1>2, <4>1 DEF Managing, PidSteps
    <3> QED  BY <3>1, <3>3 DEF Known
  <2> QED  BY <2>1, <2>2
<1> QED  BY <1>3, <1>4, <1>5

\* An operation begins beside those it may overlap.
LEMMA BeginKeeps ==
    ASSUME Base, NEW t \in Thread, NEW op, Begin(t, op),
           UNCHANGED <<scope, sysVars, binary, misled, lost>>
    PROVE  Exclusive' /\ Unit' /\ Installed' /\ Known'
<1>1. /\ op \in Commands /\ ~Busy(t) /\ th'[t].op = op /\ Now(t)' = FirstStep(op)
      /\ \A u \in Thread : u # t => th'[u] = th[u]
      /\ \A u \in Thread : Busy(u) => Apart = "none" \/ (Apart = "managers" /\ ~(Calls(op) /\ Calls(th[u].op)))
  BY BeginEffect DEF Base, Others, Now
<1>2. Mode \in {"pid", "systemd"} /\ Apart' = Apart
  BY SaneFacts DEF Base, Apart
<1>3. Now(t) = "end"
  BY <1>1, Held DEF Base
<1>4. Exclusive'
  <2> SUFFICES ASSUME Apart # "none", NEW u \in Thread, NEW v \in Thread, u # v, Busy(u)', Busy(v)'
               PROVE  Apart = "managers" /\ ~(Calls(th'[u].op) /\ Calls(th'[v].op))
    BY <1>2 DEF Exclusive, Calls
  <2>1. CASE u = t
    BY <1>1, <2>1 DEF Busy
  <2>2. CASE v = t
    BY <1>1, <2>2 DEF Busy
  <2>3. CASE u # t /\ v # t
    BY <1>1, <2>3 DEF Busy, Base, Exclusive
  <2> QED  BY <2>1, <2>2, <2>3
<1>5. UNCHANGED <<scope, pidFile, unit, main, crashes, binary, misled, lost>> /\ Mihomo' = Mihomo
  BY DEF sysVars, Mihomo
<1>6. \A u \in Thread : \/ th'[u] = th[u]
                        \/ /\ Now(u)' \notin {"wait", "spawn", "record", "skeleton", "sysinstall"}
                           /\ th'[u].op = "uninstall" => Now(u)' \notin Cleaning
                           /\ Now(u) # "record"
  BY <1>1, <1>2, <1>3, FirstSteps DEF Cleaning
<1> QED  BY <1>4, <1>5, <1>6, TurnoverKeeps

\* Threads end at no step, or are killed at any.
LEMMA EndKeeps ==
    ASSUME Base, NEW ts, UNCHANGED <<scope, unit, main, crashes, binary, misled>>, Mihomo' = Mihomo,
           \A u \in Thread : th'[u] = IF u \in ts THEN Idle ELSE th[u],
           ts \subseteq Thread, lost \subseteq lost', \A u \in ts : Now(u) = "record" => th[u].pid \in lost',
           (\A u \in ts : Now(u) # "record") => pidFile' = pidFile
    PROVE  Exclusive' /\ Unit' /\ Installed' /\ Known'
<1>1. \A u \in Thread : u \in ts => th'[u].op = "none" /\ Now(u)' = "end"
  BY IdleFacts DEF Now, First
<1>2. \A u \in Thread : th'[u].op = th[u].op \/ th'[u].op = "none"
  BY <1>1
<1>3. Exclusive'
  BY <1>2, FewerBusy DEF Base
<1>4. \A u \in Thread : \/ th'[u] = th[u]
                        \/ /\ Now(u)' \notin {"wait", "spawn", "record", "skeleton", "sysinstall"}
                           /\ th'[u].op = "uninstall" => Now(u)' \notin Cleaning
                           /\ Now(u) = "record" => th[u].pid \in lost'
  BY <1>1
<1>5. (\A u \in Thread : th'[u] = th[u] \/ Now(u) # "record") => pidFile' = pidFile
  <2> SUFFICES ASSUME NEW u \in ts, Now(u) = "record" PROVE th'[u] # th[u]
    OBVIOUS
  <2>1. Now(u)' = "end"
    BY <1>1
  <2> QED  BY <2>1 DEF Now
<1> QED  BY <1>3, <1>4, <1>5, TurnoverKeeps

\* systemd starts a mihomo again; mihomo ends of itself.
LEMMA SystemKeeps ==
    ASSUME Base, crashes \in Nat, System
    PROVE  Exclusive' /\ Unit' /\ Installed' /\ Known'
<1>1. UNCHANGED <<scope, misled, lost>>
  BY DEF System, hostVars
<1>2. Mode' = Mode /\ Apart' = Apart /\ Mode \in {"pid", "systemd"} /\ Sane /\ Unit
  BY <1>1, SaneFacts DEF Mode, Apart, Base
<1>3. CASE Respawn
  <2>1. UNCHANGED <<binary, yaml, crashes, pidFile, th>> /\ unit = "failed" /\ binary # "none" /\ SysRan(Mihomo)
    BY <1>2, <1>3, RespawnEffect DEF ManagerFrame
  <2>2. Mode = "systemd"
    BY <1>2, <2>1 DEF Unit
  <2>3. Mihomo' \subseteq {main'} /\ (unit' # "running" => main' = NoPid) /\ unit' = "running"
    BY <2>1, <2>2, RanFacts
  <2>4. Unit' /\ Known'
    BY <1>2, <2>2, <2>3 DEF Unit, Known
  <2>5. Installed'
    <3> SUFFICES ASSUME Apart # "none" PROVE Installed'
      BY <1>2 DEF Installed
    <3>1. \A u \in Thread : ~(th[u].op = "uninstall" /\ Now(u) \in Cleaning)
      BY <2>1, <2>2 DEF Base, Installed
    <3>2. \A u \in Thread : th'[u] = th[u] /\ Now(u)' = Now(u)
      BY <2>1 DEF Now
    <3> QED  BY <2>1, <2>3, <3>1, <3>2 DEF Installed
  <2>6. Exclusive'
    BY <1>1, <2>1, FewerBusy DEF Base
  <2> QED  BY <2>4, <2>5, <2>6
<1>4. ASSUME NEW p \in Pid, Crash(p) PROVE Exclusive' /\ Unit' /\ Installed' /\ Known'
  <2>1. /\ UNCHANGED <<pidFile, binary, yaml, th>> /\ Fewer /\ p \in Mihomo /\ p \notin Mihomo'
        /\ crashes' = crashes + 1
        /\ IF p = main THEN unit' = "failed" /\ main' = NoPid ELSE UNCHANGED <<unit, main>>
    BY <1>2, <1>4, CrashEffect
  <2>2. crashes' # 0 /\ p # NoPid
    BY <1>4, <2>1, ServiceOK
  <2>3. \A u \in Thread : th'[u] = th[u] /\ Now(u)' = Now(u)
    BY <2>1 DEF Now
  <2>4. Unit'
    BY <1>2, <2>1, <2>2 DEF Unit, Fewer
  <2>5. Exclusive'
    BY <1>1, <2>1, FewerBusy DEF Base
  <2>6. Known'
    <3> SUFFICES ASSUME Mode = "pid", Apart # "none", ~misled PROVE Known'
      BY <1>1, <1>2 DEF Known
    <3>1. Mihomo' \subseteq Mihomo
      BY <2>1 DEF Fewer
    <3>2. Mihomo' \subseteq {pidFile'} \union lost' \/ \E u \in Thread : Now(u)' = "record"
      BY <1>1, <2>1, <2>3, <3>1 DEF Base, Known
    <3>3. \A u \in Thread :
           /\ Now(u)' = "wait" => pidFile' = th'[u].pid
           /\ Now(u)' = "spawn" => Mihomo' \subseteq lost'
           /\ Now(u)' = "record" => Mihomo' \subseteq {th'[u].pid} \union lost'
           /\ th'[u].op = "uninstall" /\ Now(u)' \in Cleaning => Mihomo' \subseteq lost'
      BY <1>1, <2>1, <2>3, <3>1 DEF Base, Known
    <3> QED  BY <3>2, <3>3 DEF Known
  <2>7. Installed'
    <3> SUFFICES ASSUME Mode = "systemd", Apart # "none" PROVE Installed'
      BY <1>2 DEF Installed
    <3>1. unit = "absent" => unit' = "absent"
      BY <1>2, <2>1, <2>2 DEF Unit
    <3>2. \A u \in Thread : Now(u)' \in {"skeleton", "sysinstall"} => binary' # "none"
      BY <2>1, <2>3 DEF Base, Installed
    <3>3. \A u \in Thread : th'[u].op = "uninstall" /\ Now(u)' \in Cleaning => unit' = "absent"
      BY <2>3, <3>1 DEF Base, Installed
    <3>4. (binary' = "none" => unit' = "absent") /\ (crashes' = 0 => unit' # "failed")
      BY <2>1, <2>2, <3>1 DEF Base, Installed
    <3> QED  BY <3>2, <3>3, <3>4 DEF Installed
  <2> QED  BY <2>4, <2>5, <2>6, <2>7
<1> QED  BY <1>3, <1>4 DEF System

\* Crashes are counted.
LEMMA CrashesCounted ==
    ASSUME crashes \in Nat, [Next]_vars
    PROVE  crashes' \in Nat
<1>1. ASSUME NEW t \in Thread, ManagerStep(t) PROVE crashes' = crashes
  BY <1>1 DEF ManagerStep, Term, Wait, Probe, Spawn, Record, SysInstall, SysStart, SysStop, SysRestart, SysUninstall
<1>2. ASSUME NEW t \in Thread, ProgramStep(t) PROVE crashes' = crashes
  BY <1>2 DEF ProgramStep, LoadStore, DetectMode, Backup, Stash, Reconcile, Ports, DropYaml, Secure, AssembleYaml,
              Fetch, Skeleton, Verify, SaveChange, Reload, Nudge, Look, Swap, Choose, Wipe, Forget, Strip, sysVars
<1>3. ASSUME NEW t \in Thread, Exit(t) \/ Return(t) \/ Interrupt(t) PROVE crashes' = crashes
  BY <1>3 DEF Exit, Return, Interrupt, Killed, EndProcess, sysVars
<1>4. ASSUME System PROVE crashes' = crashes \/ crashes' = crashes + 1
  BY <1>4 DEF System, Respawn, Crash
<1>5. ASSUME User PROVE crashes' = crashes
  <2>1. ASSUME NEW t \in Cli, NEW op, RunCli(t, op) PROVE crashes' = crashes
    BY <2>1 DEF RunCli, sysVars
  <2>2. ASSUME NEW op, UsePage(op) PROVE crashes' = crashes
    BY <2>2 DEF UsePage, sysVars
  <2>3. ASSUME Launch \/ ChangeInTui \/ Quit PROVE crashes' = crashes
    BY <2>3 DEF Launch, ChangeInTui, Quit, Killed, EndProcess, sysVars
  <2>4. ASSUME NEW t \in Cli, Interrupt(t) PROVE crashes' = crashes
    BY <2>4 DEF Interrupt, Killed, EndProcess
  <2> QED  BY <1>5, <2>1, <2>2, <2>3, <2>4 DEF User
<1>6. ASSUME UNCHANGED vars PROVE crashes' = crashes
  BY <1>6 DEF vars, sysVars
<1>7. ASSUME NEW t \in Thread, Steps(t) PROVE crashes' = crashes
  BY <1>1, <1>2, <1>3, <1>7 DEF Steps
<1> QED  BY <1>4, <1>5, <1>6, <1>7 DEF Next

\* With the count of crashes, as Installed and Counted read it.
Grounded == Base /\ crashes \in Nat

\* What is known of the processes stays known.
LEMMA BaseInductive ==
    /\ Init => Grounded
    /\ Grounded /\ [Next]_vars => Grounded'
<1>1. ASSUME Init PROVE Base /\ crashes \in Nat
  <2>1. /\ proc = [p \in Pid |-> Free] /\ pidFile = NoPid /\ main = NoPid /\ unit = "absent" /\ crashes = 0
        /\ th = [t \in Thread |-> Idle]
    BY <1>1 DEF Init
  <2>2. Mihomo = {}
    BY <2>1 DEF Mihomo, Free
  <2>3. \A t \in Thread : th[t].op = "none" /\ Now(t) = "end"
    BY <2>1, IdleFacts DEF Now, First
  <2>4. Exclusive
    BY <2>3 DEF Exclusive, Busy
  <2>5. Unit /\ Installed /\ Known
    BY <2>1, <2>2, <2>3 DEF Unit, Installed, Known
  <2> QED  BY <1>1, <2>1, <2>4, <2>5, SaneInductive DEF Base
<1>2. ASSUME Base, crashes \in Nat, [Next]_vars PROVE Base' /\ crashes' \in Nat
  <2>1. Sane' /\ crashes' \in Nat
    BY <1>2, SaneInductive, CrashesCounted DEF Base
  <2>2. Exclusive' /\ Unit' /\ Installed' /\ Known'
    <3>1. CASE UNCHANGED vars
      <4>1. UNCHANGED <<scope, proc, pidFile, unit, main, crashes, binary, th, misled, lost>>
        BY <3>1 DEF vars, sysVars, hostVars
      <4>2. Mihomo' = Mihomo
        BY <4>1 DEF Mihomo
      <4>3. Exclusive'
        BY <1>2, <4>1, FewerBusy DEF Base
      <4> QED  BY <1>2, <4>1, <4>2, <4>3, TurnoverKeeps
    <3>2. ASSUME NEW t \in Thread, Steps(t) PROVE Exclusive' /\ Unit' /\ Installed' /\ Known'
      <4>1. CASE ManagerStep(t) /\ UNCHANGED hostVars /\ UNCHANGED <<scope, ops>>
        BY <1>2, <4>1, PidManagerKeeps, SysManagerKeeps DEF ManagerStep
      <4>2. CASE ProgramStep(t) /\ UNCHANGED <<scope, ops>>
        <5>1. CASE Strip(t)
          BY <1>2, <4>2, <5>1, StripKeeps
        <5>2. CASE ~Strip(t)
          <6>1. PICK s, n : Aside(t, s, n)
            BY <1>2, <4>2, <5>2, AsideSteps DEF Base
          <6> QED  BY <1>2, <6>1, AsideKeeps
        <5> QED  BY <5>1, <5>2
      <4>3. CASE t \in Cli /\ Exit(t)
        <5> DEFINE ts == {t}
        <5>1. /\ EndProcess(t, ts) /\ UNCHANGED <<pidFile, lost, tui, used>> /\ Now(t) = "end"
              /\ torn' = (torn /\ th[t].op \notin Writers) /\ t \in Cli
          BY <4>3 DEF Exit, Mended, Now, First
        <5>2. ts = {t} /\ ts \subseteq Thread
          OBVIOUS
        <5> HIDE DEF ts
        <5>3. /\ tui' \in {"off", "launching", "on"} /\ used' \subseteq {"core", "service"} /\ Sane
              /\ pidFile' \in Pid \union {NoPid} /\ lost' \subseteq Pid \union {NoPid} /\ torn' \in BOOLEAN
          BY <1>2, <5>1 DEF Base, Sane, TypeOK
        <5>4. /\ UNCHANGED <<scope, unit, main, crashes, binary, misled>> /\ Mihomo' = Mihomo
              /\ \A u \in Thread : th'[u] = IF u \in ts THEN Idle ELSE th[u]
          BY <5>1, <5>2, <5>3, EndEffect
        <5>5. \A u \in ts : Now(u) # "record"
          BY <5>1, <5>2
        <5> QED  BY <1>2, <5>1, <5>2, <5>4, <5>5, EndKeeps
      <4>4. CASE t \in Session /\ Return(t)
        <5> DEFINE ts == {t}
        <5>1. /\ UNCHANGED <<scope, sysVars, binary, misled, lost>> /\ Now(t) = "end"
              /\ \A u \in Thread : th'[u] = IF u \in ts THEN Idle ELSE th[u]
          BY <1>2, <4>4, ReturnEffect DEF Base, Return, Now, First
        <5>2. UNCHANGED <<scope, pidFile, unit, main, crashes, binary, misled>> /\ Mihomo' = Mihomo
          BY <5>1 DEF sysVars, Mihomo
        <5>3. ts \subseteq Thread /\ \A u \in ts : Now(u) # "record"
          BY <5>1
        <5> HIDE DEF ts
        <5> QED  BY <1>2, <5>1, <5>2, <5>3, EndKeeps
      <4> QED  BY <3>2, <4>1, <4>2, <4>3, <4>4 DEF Steps
    <3>3. CASE System
      BY <1>2, <3>3, SystemKeeps
    <3>4. CASE User
      <4>1. ASSUME NEW t \in Thread, NEW op, Begin(t, op), UNCHANGED <<scope, sysVars, binary, misled, lost>>
            PROVE  Exclusive' /\ Unit' /\ Installed' /\ Known'
        BY <1>2, <4>1, BeginKeeps
      <4>2. \A t \in Cli : t \in Thread
        BY DEF Thread
      <4>3. "boot" \in Thread /\ "work" \in Thread /\ "tab" \in Thread
        BY DEF Thread, Session
      <4>4. ASSUME NEW t \in Cli, NEW op, RunCli(t, op) PROVE Exclusive' /\ Unit' /\ Installed' /\ Known'
        BY <4>1, <4>2, <4>4 DEF RunCli
      <4>5. ASSUME NEW op, UsePage(op) PROVE Exclusive' /\ Unit' /\ Installed' /\ Known'
        BY <4>1, <4>3, <4>5 DEF UsePage
      <4>6. CASE Launch
        BY <4>1, <4>3, <4>6 DEF Launch
      <4>7. CASE ChangeInTui
        BY <4>1, <4>3, <4>7 DEF ChangeInTui
      <4>8. ASSUME NEW h, NEW ts, Killed(h, ts), (h \in Cli /\ ts = {h}) \/ (h = "tui" /\ ts = Session),
                   tui' \in {"off", "launching", "on"}, used' \subseteq {"core", "service"}
            PROVE  Exclusive' /\ Unit' /\ Installed' /\ Known'
        <5>1. /\ UNCHANGED <<scope, unit, main, crashes, binary, misled>> /\ Mihomo' = Mihomo
              /\ \A u \in Thread : th'[u] = IF u \in ts THEN Idle ELSE th[u]
              /\ ts \subseteq Thread /\ lost \subseteq lost' /\ \A u \in ts : Now(u) = "record" => th[u].pid \in lost'
              /\ (\A u \in ts : Now(u) # "record") => pidFile' = pidFile
          BY <1>2, <4>8, KilledEffect DEF Base
        <5> QED  BY <1>2, <5>1, EndKeeps
      <4>9. ASSUME NEW t \in Cli, Interrupt(t) PROVE Exclusive' /\ Unit' /\ Installed' /\ Known'
        <5>1. Killed(t, {t}) /\ UNCHANGED <<tui, used>>
          BY <4>9 DEF Interrupt
        <5>2. tui' \in {"off", "launching", "on"} /\ used' \subseteq {"core", "service"}
          BY <1>2, <5>1 DEF Base, Sane, TypeOK
        <5> QED  BY <4>8, <4>9, <5>1, <5>2
      <4>10. CASE Quit
        <5>1. Killed("tui", Session) /\ tui' \in {"off", "launching", "on"} /\ used' \subseteq {"core", "service"}
          BY <4>10 DEF Quit
        <5> QED  BY <4>8, <4>10, <5>1
      <4> QED  BY <3>4, <4>4, <4>5, <4>6, <4>7, <4>9, <4>10 DEF User
    <3> QED  BY <1>2, <3>1, <3>2, <3>3, <3>4 DEF Next
  <2> QED  BY <2>1, <2>2 DEF Base
<1> QED  BY <1>1, <1>2 DEF Grounded

\* There is never a mihomo that nothing will stop: of the programs that call the PID
\* manager one at a time, wherever they are killed and however mihomo ends, the PID file
\* names every mihomo that runs when nothing is under way, but for the children of starts
\* that were killed before they had written it; systemd knows its own at all times.
THEOREM NothingIsLost == Spec => []SoleTracked
<1>1. Grounded => SoleTracked
  <2> SUFFICES ASSUME Base PROVE SoleTracked
    BY DEF Grounded
  <2>1. CASE Mode = "systemd"
    BY <2>1, UnitFacts DEF Base, SoleTracked
  <2>2. CASE Mode # "systemd"
    <3>1. Mode = "pid"
      BY <2>2, SaneFacts DEF Base
    <3>2. ASSUME Quiet, NEW t \in Thread PROVE Now(t) # "record"
      BY <3>2, Held DEF Base, Quiet
    <3> QED  BY <3>1, <3>2 DEF Base, Known, SoleTracked
  <2> QED  BY <2>1, <2>2
<1> QED  BY <1>1, BaseInductive, PTL DEF Spec

-----------------------------------------------------------------------------
(* Upgrades take effect.                                                   *)

\* A step of the one that calls a manager: only its own update is concerned.
LEMMA CallerUpgrades ==
    ASSUME Base, NEW t \in Thread, NEW s, NEW n, Turns(t, s, n), Calls(th[t].op),
           UNCHANGED <<scope, crashes>>, misled => misled', misled \in BOOLEAN,
           th[t].op = "update" /\ ~th'[t].failed /\ Apart # "none" /\ Counted =>
             /\ n = "swap" => Mihomo' \subseteq lost' /\ unit' # "running"
             /\ n \in {"probe", "spawn", "record", "sysstart", "end"}
                  => binary' = "new" /\ \A p \in Mihomo' \ lost' : proc'[p].ver = "new"
    PROVE  Upgraded'
<1>1. /\ Now(t) = s /\ Now(t)' = n /\ s # "end"
      /\ \A u \in Thread : th'[u].op = th[u].op \/ (th[u].op = "launch" /\ th'[u].op = "relaunch")
      /\ Mode' = Mode /\ Apart' = Apart /\ (Counted' => Counted)
  BY Goes DEF Mode, Apart, Counted
<1>2. Busy(t)
  BY <1>1, Held DEF Base
<1> SUFFICES ASSUME Apart # "none", Counted, NEW u \in Thread, th[u].op = "update", ~th'[u].failed
             PROVE  /\ Now(u)' = "swap" => Mihomo' \subseteq lost' /\ unit' # "running"
                    /\ Now(u)' \in {"probe", "spawn", "record", "sysstart", "end"}
                         => binary' = "new" /\ \A p \in Mihomo' \ lost' : proc'[p].ver = "new"
  BY <1>1 DEF Upgraded
<1>3. u = t
  BY <1>2, OnlyCaller DEF Base
<1> QED  BY <1>1, <1>3

\* The steps of the PID manager.
LEMMA PidUpgrades ==
    ASSUME Base, Upgraded, NEW t \in Thread, UNCHANGED hostVars, UNCHANGED <<scope, ops>>,
           Term(t) \/ Wait(t) \/ Probe(t) \/ Spawn(t) \/ Record(t)
    PROVE  Upgraded'
<1>1. Sane /\ UNCHANGED <<misled, lost>> /\ misled \in BOOLEAN
  BY SaneFacts DEF hostVars, Base
<1>2. ASSUME NEW s \in PidSteps, NEW n, Moves(t, s, n)
      PROVE  /\ Now(t) = s /\ Calls(th[t].op) /\ Mode = "pid" /\ Turns(t, s, n) /\ Unit
             /\ unit = "absent"
             /\ th[t].op = "update" /\ s \in {"term", "wait"} => n \in {"wait", "swap"} \/ ~Linked(th[t].op, s, n)
  <2>1. Now(t) = s /\ s # "end" /\ Fits(th[t].op, s) /\ Turns(t, s, n)
    BY <1>2, Goes DEF Moves, Turns
  <2>2. Mode = "pid"
    BY <1>1, <2>1, SaneFacts DEF Fits
  <2>3. Calls(th[t].op)
    BY <1>1, <2>1, Held DEF Managing
  <2>4. th[t].op = "update" /\ s \in {"term", "wait"} => n \in {"wait", "swap"} \/ ~Linked(th[t].op, s, n)
    BY DEF Linked, Booting, Applying, Restarting, Starting
  <2> QED  BY <2>1, <2>2, <2>3, <2>4 DEF Base, Unit
<1>3. ASSUME th[t].op = "update", ~th[t].failed, Apart # "none", Counted
      PROVE  Now(t) \in {"probe", "spawn", "record"} => binary = "new" /\ \A p \in Mihomo \ lost : proc[p].ver = "new"
  BY <1>3 DEF Upgraded
<1>4. Mode = "pid" /\ Counted => ~misled
  BY DEF Counted
<1>0. /\ "term" \in PidSteps /\ "wait" \in PidSteps /\ "probe" \in PidSteps /\ "spawn" \in PidSteps
      /\ "record" \in PidSteps
  BY DEF PidSteps
<1>5. CASE Term(t)
  <2>1. /\ Fewer /\ UNCHANGED <<unit, main>> /\ UNCHANGED crashes
        /\ \/ /\ Alive(pidFile) /\ Moves(t, "term", "wait")
           \/ /\ ~Alive(pidFile) /\ \E n : Moves(t, "term", n) /\ Linked(th[t].op, "wait", n)
    BY <1>1, <1>5, TermEffect DEF ManagerFrame
  <2>2. CASE Alive(pidFile) /\ Moves(t, "term", "wait")
    BY <1>0, <1>1, <1>2, <2>1, <2>2, CallerUpgrades
  <2>3. ASSUME NEW n, ~Alive(pidFile), Moves(t, "term", n), Linked(th[t].op, "wait", n)
        PROVE  Upgraded'
    <3>1. th[t].op = "update" => n = "swap"
      BY <2>3 DEF Linked, Booting, Applying, Restarting, Starting
    <3>2. Apart # "none" /\ Counted => Mihomo' \subseteq lost'
      BY <1>0, <1>1, <1>2, <1>4, <2>1, <2>3, KnownAt DEF Fewer
    <3> QED  BY <1>0, <1>1, <1>2, <2>1, <2>3, <3>1, <3>2, CallerUpgrades
  <2> QED  BY <2>1, <2>2, <2>3
<1>6. CASE Wait(t)
  <2>1. PICK n : Fewer /\ UNCHANGED <<unit, main, crashes>> /\ th[t].pid \notin Mihomo' /\ Passes(t, "wait", n)
    BY <1>1, <1>6, WaitEffect DEF ManagerFrame
  <2>2. Moves(t, "wait", n)
    BY <2>1 DEF Passes
  <2>3. th[t].op = "update" => n = "swap"
    BY <2>1 DEF Passes, Linked, Booting, Applying, Restarting, Starting
  <2>4. Apart # "none" /\ Counted => Mihomo' \subseteq lost'
    BY <1>0, <1>1, <1>2, <1>4, <2>1, <2>2, KnownAt DEF Fewer
  <2> QED  BY <1>0, <1>1, <1>2, <2>1, <2>2, <2>3, <2>4, CallerUpgrades
<1>7. CASE Probe(t)
  <2>1. /\ UNCHANGED <<proc, crashes, binary>>
        /\ \/ Passes(t, "probe", "spawn")
           \/ \E n : Stumbles(t, "probe", n)
    BY <1>1, <1>7, ProbeEffect DEF ManagerFrame
  <2>2. PICK n : /\ Moves(t, "probe", n) /\ n \in {"spawn", "verify", "end"}
                 /\ n = "verify" \/ (~th'[t].failed => ~th[t].failed /\ n # "end")
    BY <2>1 DEF Passes, Stumbles
  <2>3. Mihomo' = Mihomo
    BY <2>1 DEF Mihomo
  <2>4. th[t].op = "update" /\ ~th'[t].failed /\ n # "verify" /\ Apart # "none" /\ Counted
          => binary' = "new" /\ \A p \in Mihomo' \ lost' : proc'[p].ver = "new"
    BY <1>0, <1>1, <1>2, <1>3, <2>1, <2>2, <2>3
  <2> QED  BY <1>0, <1>1, <1>2, <2>1, <2>2, <2>4, CallerUpgrades
<1>8. CASE Spawn(t)
  <2>1. /\ UNCHANGED <<crashes, binary>>
        /\ \/ \E n : Stumbles(t, "spawn", n)
           \/ /\ Moves(t, "spawn", "record") /\ th'[t].failed = th[t].failed /\ Mihomo' \subseteq Mihomo \union {th'[t].pid}
              /\ proc'[th'[t].pid].ver = binary /\ \A q \in Pid : q # th'[t].pid => proc'[q] = proc[q]
    BY <1>1, <1>8, SpawnEffect DEF ManagerFrame
  <2>2. CASE \E n : Stumbles(t, "spawn", n)
    <3>1. PICK n : Moves(t, "spawn", n) /\ n \in {"verify", "end"} /\ (n = "end" => th'[t].failed)
      BY <2>2 DEF Stumbles
    <3> QED  BY <1>0, <1>1, <1>2, <2>1, <3>1, CallerUpgrades
  <2>3. CASE /\ Moves(t, "spawn", "record") /\ th'[t].failed = th[t].failed /\ Mihomo' \subseteq Mihomo \union {th'[t].pid}
             /\ proc'[th'[t].pid].ver = binary /\ \A q \in Pid : q # th'[t].pid => proc'[q] = proc[q]
    <3>1. th[t].op = "update" /\ ~th'[t].failed /\ Apart # "none" /\ Counted => binary' = "new" /\ \A p \in Mihomo' \ lost' : proc'[p].ver = "new"
      <4> SUFFICES ASSUME th[t].op = "update", ~th'[t].failed, Apart # "none", Counted
                   PROVE  binary' = "new" /\ \A p \in Mihomo' \ lost' : proc'[p].ver = "new"
        OBVIOUS
      <4>1. binary = "new" /\ \A p \in Mihomo \ lost : proc[p].ver = "new"
        BY <1>0, <1>2, <1>3, <2>3
      <4>2. Mihomo \subseteq Pid
        BY DEF Mihomo
      <4> QED  BY <1>1, <2>1, <2>3, <4>1, <4>2
    <3> QED  BY <1>0, <1>1, <1>2, <2>1, <2>3, <3>1, CallerUpgrades
  <2> QED  BY <2>1, <2>2, <2>3
<1>9. CASE Record(t)
  <2>1. /\ Fewer /\ UNCHANGED <<crashes, binary>>
        /\ (\E n : Passes(t, "record", n)) \/ (\E n : Stumbles(t, "record", n))
    BY <1>1, <1>9, RecordEffect DEF ManagerFrame
  <2>2. PICK n : /\ Moves(t, "record", n) /\ n # "swap"
                 /\ th[t].op = "update" /\ ~th'[t].failed => ~th[t].failed
    BY <2>1 DEF Passes, Stumbles, Linked, Booting, Applying, Restarting, Starting
  <2>3. th[t].op = "update" /\ ~th'[t].failed /\ Apart # "none" /\ Counted
          => binary' = "new" /\ \A p \in Mihomo' \ lost' : proc'[p].ver = "new"
    BY <1>0, <1>1, <1>2, <1>3, <2>1, <2>2 DEF Fewer
  <2> QED  BY <1>0, <1>1, <1>2, <2>1, <2>2, <2>3, CallerUpgrades
<1> QED  BY <1>5, <1>6, <1>7, <1>8, <1>9

\* The steps of systemd's.
LEMMA SysUpgrades ==
    ASSUME Base, Upgraded, NEW t \in Thread, UNCHANGED hostVars, UNCHANGED <<scope, ops>>,
           SysInstall(t) \/ SysStart(t) \/ SysStop(t) \/ SysRestart(t) \/ SysUninstall(t)
    PROVE  Upgraded'
<1>1. Sane /\ UNCHANGED <<misled, lost>> /\ misled \in BOOLEAN /\ Unit /\ Mode \in {"pid", "systemd"}
  BY SaneFacts DEF hostVars, Base
<1>0. /\ {"sysinstall", "sysstart", "sysrestart", "sysstop", "sysuninstall"} \subseteq SysSteps \union EndSteps
      /\ {"sysinstall", "sysstart", "sysrestart"} \subseteq SysSteps
  BY DEF SysSteps, EndSteps
<1>2. ASSUME NEW s \in SysSteps \union EndSteps, NEW n, Moves(t, s, n)
      PROVE  /\ Now(t) = s /\ Calls(th[t].op) /\ Turns(t, s, n)
             /\ th[t].op = "update" => Mode = "systemd" /\ s \in {"sysstart", "sysstop"}
  <2>1. Now(t) = s /\ s # "end" /\ Fits(th[t].op, s) /\ Turns(t, s, n)
    BY <1>2, Goes DEF Moves, Turns
  <2>2. Calls(th[t].op)
    BY <1>1, <2>1, Held DEF Managing
  <2>3. th[t].op = "update" => Mode = "systemd"
    BY <1>1, <2>1 DEF Fits
  <2>4. th[t].op = "update" => s \in {"sysstart", "sysstop"}
    BY <2>1 DEF Turns, Linked, Booting, Applying, Restarting, Starting, SysSteps, EndSteps
  <2> QED  BY <2>1, <2>2, <2>3, <2>4
<1>3. Mode = "systemd" => Mihomo \subseteq {main} /\ (unit # "running" => main = NoPid /\ Mihomo = {})
  BY <1>1, UnitFacts DEF Unit
<1>4. UNCHANGED proc => Mihomo' = Mihomo
  BY DEF Mihomo
<1>5. CASE SysInstall(t) \/ SysRestart(t) \/ SysUninstall(t)
  <2>1. PICK s, n : s \in {"sysinstall", "sysrestart", "sysuninstall"} /\ Moves(t, s, n) /\ UNCHANGED crashes
    <3>1. CASE SysInstall(t)
      BY <1>1, <3>1, SysInstallEffect DEF Passes, Falls, ManagerFrame
    <3>2. CASE SysRestart(t)
      BY <1>1, <3>2, SysRestartEffect DEF Passes, Stumbles, ManagerFrame
    <3>3. CASE SysUninstall(t)
      BY <1>1, <3>3, SysUninstallEffect DEF Passes, ManagerFrame
    <3> QED  BY <1>5, <3>1, <3>2, <3>3
  <2>2. th[t].op # "update"
    BY <1>0, <1>2, <2>1
  <2> QED  BY <1>0, <1>1, <1>2, <2>1, <2>2, CallerUpgrades
<1>6. CASE SysStart(t)
  <2>1. /\ UNCHANGED <<crashes, binary>>
        /\ \/ UNCHANGED <<proc, unit, main>> /\ \E n : Stumbles(t, "sysstart", n)
           \/ unit = "running" /\ UNCHANGED <<proc, unit, main>> /\ \E n : Passes(t, "sysstart", n)
           \/ unit \in {"stopped", "failed"} /\ SysRan(Mihomo) /\ \E n : Passes(t, "sysstart", n)
    BY <1>1, <1>6, SysStartEffect DEF ManagerFrame
  <2>2. PICK n : /\ Moves(t, "sysstart", n) /\ n # "swap"
                 /\ th[t].op = "update" /\ ~th'[t].failed => ~th[t].failed
    BY <2>1 DEF Passes, Stumbles, Linked, Booting, Applying, Restarting, Starting
  <2>3. th[t].op = "update" /\ ~th'[t].failed /\ Apart # "none" /\ Counted
          => binary' = "new" /\ \A p \in Mihomo' \ lost' : proc'[p].ver = "new"
    <3> SUFFICES ASSUME th[t].op = "update", ~th'[t].failed, Apart # "none", Counted
                 PROVE  binary' = "new" /\ \A p \in Mihomo' \ lost' : proc'[p].ver = "new"
      OBVIOUS
    <3>1. binary = "new" /\ \A p \in Mihomo \ lost : proc[p].ver = "new"
      BY <1>0, <1>2, <2>2 DEF Upgraded
    <3>2. CASE UNCHANGED proc
      BY <1>1, <1>4, <2>1, <3>1, <3>2
    <3>3. CASE unit \in {"stopped", "failed"} /\ SysRan(Mihomo)
      <4>1. \A p \in Mihomo' : proc'[p].ver = binary
        BY <1>0, <1>2, <2>2, <3>3, RanFacts
      <4> QED  BY <2>1, <3>1, <4>1
    <3> QED  BY <2>1, <3>2, <3>3
  <2> QED  BY <1>0, <1>1, <1>2, <2>1, <2>2, <2>3, CallerUpgrades
<1>7. CASE SysStop(t)
  <2>1. PICK n : /\ Moves(t, "sysstop", n) /\ UNCHANGED crashes /\ Linked(th[t].op, "sysstop", n)
                 /\ \/ th'[t].failed
                    \/ unit = "absent" /\ UNCHANGED <<proc, unit, main>>
                    \/ unit' = "stopped" /\ main \notin Mihomo' /\ Fewer
    BY <1>1, <1>7, SysStopEffect DEF Passes, Misses, ManagerFrame
  <2>2. th[t].op = "update" => n = "swap"
    BY <2>1 DEF Linked, Booting, Applying, Restarting, Starting
  <2>3. Mode = "systemd" /\ ~th'[t].failed => Mihomo' = {} /\ unit' # "running"
    BY <1>3, <1>4, <2>1 DEF Fewer
  <2> QED  BY <1>0, <1>1, <1>2, <2>1, <2>2, <2>3, CallerUpgrades
<1> QED  BY <1>5, <1>6, <1>7

\* The steps that are no manager's: an update looks, stops and swaps.
LEMMA AsideUpgrades ==
    ASSUME Base, Upgraded, NEW t \in Thread, NEW s, NEW n, Aside(t, s, n), ProgramStep(t), UNCHANGED <<scope, ops>>,
           ~Strip(t)
    PROVE  Upgraded'
<1>1. /\ Now(t) = s /\ Now(t)' = n /\ s # "end"
      /\ \A u \in Thread : th'[u].op = th[u].op \/ (th[u].op = "launch" /\ th'[u].op = "relaunch")
      /\ \A u \in Thread : u # t => th'[u] = th[u] /\ Now(u)' = Now(u)
      /\ Mode' = Mode /\ Apart' = Apart /\ (Counted' => Counted) /\ Mode \in {"pid", "systemd"}
      /\ misled \in BOOLEAN
  BY Goes, SaneFacts DEF Mode, Apart, Counted, Aside, Base
<1>2. Busy(t) /\ Sane /\ Unit
  BY <1>1, Held DEF Base
<1>3. /\ Mihomo' = Mihomo /\ \A p \in Mihomo : proc'[p].ver = proc[p].ver
      /\ UNCHANGED <<scope, unit, crashes, lost>> /\ (misled => misled') /\ Turns(t, s, n)
  BY DEF Aside
<1>4. CASE th[t].op # "update"
  <2> SUFFICES ASSUME Apart # "none", Counted, NEW u \in Thread, th[u].op = "update", ~th'[u].failed
               PROVE  /\ Now(u)' = "swap" => Mihomo' \subseteq lost' /\ unit' # "running"
                      /\ Now(u)' \in {"probe", "spawn", "record", "sysstart", "end"}
                           => binary' = "new" /\ \A p \in Mihomo' \ lost' : proc'[p].ver = "new"
    BY <1>1 DEF Upgraded
  <2>1. u # t /\ Now(u)' = Now(u) /\ th'[u] = th[u]
    BY <1>1, <1>4
  <2>2. ~Calls(th[t].op)
    BY <1>2, <2>1 DEF Base, Exclusive, Busy, Calls
  <2>3. s # "fetch"
    BY <1>3, <2>2 DEF Turns, Linked, Booting, Applying, Restarting, Starting, Calls
  <2>4. binary' = binary \/ binary' = "new"
    BY <2>3 DEF Aside
  <2>5. /\ Now(u) = "swap" => Mihomo \subseteq lost /\ unit # "running"
        /\ Now(u) \in {"probe", "spawn", "record", "sysstart", "end"}
             => binary = "new" /\ \A p \in Mihomo \ lost : proc[p].ver = "new"
    BY <2>1 DEF Upgraded
  <2> QED  BY <1>3, <2>1, <2>4, <2>5
<1>5. CASE th[t].op = "update"
  <2>1. Calls(th[t].op)
    BY <1>5 DEF Calls
  <2>2. s \in {"load", "look", "swap"}
    BY <1>3, <1>5 DEF Turns, Linked, Booting, Applying, Restarting, Starting, Aside, PidSteps, SysSteps, EndSteps
  <2>3. CASE s = "load"
    <3>1. LoadStore(t)
      <4>1. Head(th[t].todo) = "load"
        BY <1>1, <2>3 DEF Now, First
      <4> QED  BY <4>1 DEF ProgramStep, DetectMode, Backup, Stash, Reconcile, Ports, DropYaml, Secure, AssembleYaml, Fetch, Skeleton,
                   Verify, SaveChange, Reload, Nudge, Look, Swap, Choose, Wipe, Forget, Strip, Step, At
    <3>2. PICK m : Passes(t, "load", m)
      BY <1>2, <3>1, LoadEffect
    <3>3. m = "look" /\ m = n
      BY <1>1, <1>5, <3>2, Goes DEF Passes, Moves, Linked, Booting, Applying, Restarting, Starting
    <3> QED  BY <1>1, <1>3, <2>1, <3>3, CallerUpgrades
  <2>4. CASE s = "look"
    <3>1. Look(t)
      <4>1. Head(th[t].todo) = "look"
        BY <1>1, <2>4 DEF Now, First
      <4> QED  BY <4>1 DEF ProgramStep, LoadStore, DetectMode, Backup, Stash, Reconcile, Ports, DropYaml, Secure, AssembleYaml, Fetch,
                   Skeleton, Verify, SaveChange, Reload, Nudge, Swap, Choose, Wipe, Forget, Strip, Step, At
    <3>3. \/ Moves(t, "look", "swap") /\ ~Running(Mode)
          \/ \E m \in {"term", "sysstop"} : Moves(t, "look", m)
      BY <1>2, <3>1, LookEffect
    <3>4. n \in {"swap", "term", "sysstop"} /\ (n = "swap" => ~Running(Mode))
      BY <1>1, <3>3, Goes DEF Moves
    <3>5. n = "swap" /\ Apart # "none" /\ Counted => Mihomo \subseteq lost /\ unit # "running"
      <4> SUFFICES ASSUME n = "swap", Apart # "none", Counted PROVE Mihomo \subseteq lost /\ unit # "running"
        OBVIOUS
      <4>1. CASE Mode = "pid"
        <5>1. ~Alive(pidFile) /\ ~misled
          BY <3>4, <4>1 DEF Running, Counted
        <5>2. Mihomo \subseteq lost
          BY <1>1, <2>1, <2>4, <4>1, <5>1, KnownAt
        <5> QED  BY <1>2, <4>1, <5>2 DEF Unit
      <4>2. CASE Mode = "systemd"
        <5>1. unit # "running"
          BY <3>4, <4>2 DEF Running
        <5> QED  BY <1>2, <4>2, <5>1, UnitFacts
      <4> QED  BY <1>1, <4>1, <4>2
    <3> QED  BY <1>1, <1>3, <2>1, <3>4, <3>5, CallerUpgrades
  <2>5. CASE s = "swap"
    <3>1. Swap(t)
      <4>1. Head(th[t].todo) = "swap"
        BY <1>1, <2>5 DEF Now, First
      <4> QED  BY <4>1 DEF ProgramStep, LoadStore, DetectMode, Backup, Stash, Reconcile, Ports, DropYaml, Secure, AssembleYaml, Fetch,
                   Skeleton, Verify, SaveChange, Reload, Nudge, Look, Choose, Wipe, Forget, Strip, Step, At
    <3>2. \/ binary' = "new" /\ \E m : Passes(t, "swap", m)
          \/ binary' = binary /\ Moves(t, "swap", "end") /\ th'[t].failed
      BY <1>2, <3>1, SwapEffect
    <3>3. n # "swap" /\ (th'[t].failed \/ (binary' = "new" /\ ~th[t].failed))
      BY <1>1, <3>2, Goes DEF Passes, Moves, Linked, Booting, Applying, Restarting, Starting
    <3>4. Apart # "none" /\ Counted /\ ~th[t].failed => Mihomo \subseteq lost
      BY <1>1, <1>5, <2>5 DEF Upgraded
    <3> QED  BY <1>1, <1>3, <2>1, <3>3, <3>4, CallerUpgrades
  <2> QED  BY <2>2, <2>3, <2>4, <2>5
<1> QED  BY <1>4, <1>5

\* Threads begin and end, and the system takes its steps.
LEMMA TurnoverUpgrades ==
    ASSUME Base, Upgraded, UNCHANGED <<scope, unit, crashes, misled>>, binary' = binary, Mihomo' = Mihomo,
           lost \subseteq lost',
           \A p \in Mihomo : proc'[p].ver = proc[p].ver,
           \A u \in Thread : th'[u] = th[u] \/ th'[u].op # "update" \/ Now(u)' = "load"
    PROVE  Upgraded'
<1>1. Mode' = Mode /\ Apart' = Apart /\ Counted' = Counted
  BY DEF Mode, Apart, Counted
<1> SUFFICES ASSUME Apart # "none", Counted, NEW u \in Thread, th'[u].op = "update", ~th'[u].failed
             PROVE  /\ Now(u)' = "swap" => Mihomo' \subseteq lost' /\ unit' # "running"
                    /\ Now(u)' \in {"probe", "spawn", "record", "sysstart", "end"}
                         => binary' = "new" /\ \A p \in Mihomo' \ lost' : proc'[p].ver = "new"
  BY <1>1 DEF Upgraded
<1>2. th'[u] = th[u] => Now(u)' = Now(u)
  BY DEF Now
<1>3. CASE th'[u] = th[u]
  <2>1. /\ Now(u) = "swap" => Mihomo \subseteq lost /\ unit # "running"
        /\ Now(u) \in {"probe", "spawn", "record", "sysstart", "end"}
             => binary = "new" /\ \A p \in Mihomo \ lost : proc[p].ver = "new"
    BY <1>3 DEF Upgraded
  <2> QED  BY <1>2, <1>3, <2>1
<1>4. CASE Now(u)' = "load"
  BY <1>4
<1> QED  BY <1>3, <1>4

\* systemd starts no mihomo again unless one has crashed.
LEMMA SystemUpgrades ==
    ASSUME Base, Upgraded, crashes \in Nat, System
    PROVE  Upgraded'
<1>1. /\ UNCHANGED <<scope, misled, lost>> /\ Mode' = Mode /\ Apart' = Apart /\ Mode \in {"pid", "systemd"} /\ Sane /\ Unit
  BY SaneFacts DEF System, hostVars, Mode, Apart, Base
<1>2. CASE Respawn
  <2>1. unit = "failed" /\ UNCHANGED crashes
    BY <1>1, <1>2, RespawnEffect DEF ManagerFrame
  <2>2. ~(Apart # "none" /\ Counted)
    BY <1>1, <2>1 DEF Base, Unit, Installed, Counted
  <2>3. Counted' = Counted
    BY <1>1, <2>1 DEF Counted
  <2> QED  BY <1>1, <2>2, <2>3 DEF Upgraded
<1>3. ASSUME NEW p \in Pid, Crash(p) PROVE Upgraded'
  <2>1. /\ UNCHANGED <<pidFile, binary, yaml, th>> /\ Fewer /\ p \in Mihomo /\ crashes' = crashes + 1
        /\ IF p = main THEN unit' = "failed" /\ main' = NoPid ELSE UNCHANGED <<unit, main>>
    BY <1>1, <1>3, CrashEffect
  <2>2. crashes' # 0 /\ p # NoPid
    BY <1>3, <2>1, ServiceOK
  <2>3. Counted' => Counted /\ Mode = "pid"
    BY <1>1, <2>2 DEF Counted
  <2>4. Mode = "pid" => unit' # "running"
    BY <1>1, <2>1, <2>2 DEF Unit
  <2> SUFFICES ASSUME Apart # "none", Counted, Mode = "pid", NEW u \in Thread, th'[u].op = "update", ~th'[u].failed
               PROVE  /\ Now(u)' = "swap" => Mihomo' \subseteq lost' /\ unit' # "running"
                      /\ Now(u)' \in {"probe", "spawn", "record", "sysstart", "end"}
                           => binary' = "new" /\ \A q \in Mihomo' \ lost' : proc'[q].ver = "new"
    BY <1>1, <2>3 DEF Upgraded
  <2>5. th'[u] = th[u] /\ Now(u)' = Now(u)
    BY <2>1 DEF Now
  <2>6. /\ Now(u) = "swap" => Mihomo \subseteq lost /\ unit # "running"
        /\ Now(u) \in {"probe", "spawn", "record", "sysstart", "end"}
             => binary = "new" /\ \A q \in Mihomo \ lost : proc[q].ver = "new"
    BY <2>5 DEF Upgraded
  <2> QED  BY <1>1, <2>1, <2>4, <2>5, <2>6 DEF Fewer
<1> QED  BY <1>2, <1>3 DEF System

\* An upgrade goes on as it must.
LEMMA UpgradedInductive ==
    /\ Init => Upgraded
    /\ Grounded /\ Upgraded /\ [Next]_vars => Upgraded'
<1>1. ASSUME Init PROVE Upgraded
  <2>1. \A t \in Thread : th[t].op = "none"
    BY <1>1, IdleFacts DEF Init
  <2> QED  BY <2>1 DEF Upgraded
<1>2. ASSUME Grounded, Upgraded, [Next]_vars PROVE Upgraded'
  <2>0. Base /\ Sane /\ crashes \in Nat
    BY <1>2 DEF Grounded, Base
  <2>1. CASE UNCHANGED vars
    <3>1. UNCHANGED <<scope, proc, unit, crashes, binary, th, misled, lost>>
      BY <2>1 DEF vars, sysVars, hostVars
    <3>2. Mihomo' = Mihomo /\ \A p \in Mihomo : proc'[p].ver = proc[p].ver
      BY <3>1 DEF Mihomo
    <3> QED  BY <1>2, <2>0, <3>1, <3>2, TurnoverUpgrades
  <2>2. ASSUME NEW t \in Thread, Steps(t) PROVE Upgraded'
    <3>1. CASE ManagerStep(t) /\ UNCHANGED hostVars /\ UNCHANGED <<scope, ops>>
      BY <1>2, <2>0, <3>1, PidUpgrades, SysUpgrades DEF ManagerStep
    <3>2. CASE ProgramStep(t) /\ UNCHANGED <<scope, ops>>
      <4>1. CASE Strip(t)
        <5>1. UNCHANGED <<proc, unit, main, crashes, hostVars>> /\ Turns(t, "strip", "end") /\ th[t].op = "uninstall"
          BY <2>0, <3>2, <4>1, StripEffect DEF Passes, Moves
        <5>2. Calls(th[t].op) /\ misled \in BOOLEAN /\ UNCHANGED misled
          BY <2>0, <5>1, SaneFacts DEF Calls, hostVars
        <5>3. th[t].op # "update"
          BY <5>1
        <5> QED  BY <2>0, <3>2, <5>1, <5>2, <5>3, CallerUpgrades
      <4>2. CASE ~Strip(t)
        <5>1. PICK s, n : Aside(t, s, n)
          BY <2>0, <3>2, <4>2, AsideSteps
        <5> QED  BY <1>2, <2>0, <3>2, <4>2, <5>1, AsideUpgrades
      <4> QED  BY <4>1, <4>2
    <3>3. CASE t \in Cli /\ Exit(t)
      <4> DEFINE ts == {t}
      <4>1. EndProcess(t, ts) /\ UNCHANGED <<pidFile, lost, tui, used>> /\ Mended(t) /\ t \in Cli /\ ts = {t}
        BY <3>3 DEF Exit
      <4> HIDE DEF ts
      <4>2. /\ tui' \in {"off", "launching", "on"} /\ used' \subseteq {"core", "service"} /\ torn' \in BOOLEAN
            /\ pidFile' \in Pid \union {NoPid} /\ lost' \subseteq Pid \union {NoPid}
        BY <2>0, <4>1 DEF Sane, TypeOK, Mended
      <4>3. /\ UNCHANGED <<scope, unit, crashes, binary, misled>> /\ Mihomo' = Mihomo
            /\ \A p \in Mihomo : proc'[p].ver = proc[p].ver
            /\ \A u \in Thread : th'[u] = IF u \in ts THEN Idle ELSE th[u]
        BY <2>0, <4>1, <4>2, EndEffect
      <4>4. \A u \in Thread : th'[u] = th[u] \/ th'[u].op # "update" \/ Now(u)' = "load"
        BY <4>3, IdleFacts
      <4> QED  BY <1>2, <2>0, <4>1, <4>3, <4>4, TurnoverUpgrades
    <3>4. CASE t \in Session /\ Return(t)
      <4>1. /\ UNCHANGED <<scope, sysVars, binary, misled, lost>>
            /\ \A u \in Thread : th'[u] = IF u = t THEN Idle ELSE th[u]
        BY <2>0, <3>4, ReturnEffect
      <4>2. UNCHANGED <<scope, unit, crashes, binary, misled>> /\ Mihomo' = Mihomo
            /\ \A p \in Mihomo : proc'[p].ver = proc[p].ver
        BY <4>1 DEF sysVars, Mihomo
      <4>3. \A u \in Thread : th'[u] = th[u] \/ th'[u].op # "update" \/ Now(u)' = "load"
        BY <4>1, IdleFacts
      <4> QED  BY <1>2, <2>0, <4>1, <4>2, <4>3, TurnoverUpgrades
    <3> QED  BY <2>2, <3>1, <3>2, <3>3, <3>4 DEF Steps
  <2>3. CASE System
    BY <1>2, <2>0, <2>3, SystemUpgrades
  <2>4. CASE User
    <3>1. ASSUME NEW t \in Thread, NEW op, Begin(t, op), UNCHANGED <<scope, sysVars, binary, misled, lost>>
          PROVE  Upgraded'
      <4>1. UNCHANGED <<scope, unit, crashes, misled, binary>> /\ Mihomo' = Mihomo
            /\ \A p \in Mihomo : proc'[p].ver = proc[p].ver
        BY <3>1 DEF sysVars, Mihomo
      <4>2. /\ op \in Commands /\ th'[t].op = op /\ Now(t)' = FirstStep(op)
            /\ \A u \in Thread : u # t => th'[u] = th[u]
        BY <2>0, <3>1, BeginEffect DEF Others, Now
      <4>3. Mode \in {"pid", "systemd"}
        BY <2>0, SaneFacts
      <4>4. \A u \in Thread : th'[u] = th[u] \/ th'[u].op # "update" \/ Now(u)' = "load"
        BY <4>2, <4>3, FirstSteps
      <4> QED  BY <1>2, <2>0, <3>1, <4>1, <4>4, TurnoverUpgrades
    <3>2. \A t \in Cli : t \in Thread
      BY DEF Thread
    <3>3. "boot" \in Thread /\ "work" \in Thread /\ "tab" \in Thread
      BY DEF Thread, Session
    <3>4. ASSUME NEW t \in Cli, NEW op, RunCli(t, op) PROVE Upgraded'
      BY <3>1, <3>2, <3>4 DEF RunCli
    <3>5. ASSUME NEW op, UsePage(op) PROVE Upgraded'
      BY <3>1, <3>3, <3>5 DEF UsePage
    <3>6. CASE Launch
      BY <3>1, <3>3, <3>6 DEF Launch
    <3>7. CASE ChangeInTui
      BY <3>1, <3>3, <3>7 DEF ChangeInTui
    <3>8. ASSUME NEW h, NEW ts, Killed(h, ts),
                 tui' \in {"off", "launching", "on"}, used' \subseteq {"core", "service"},
                 (h \in Cli /\ ts = {h}) \/ (h = "tui" /\ ts = Session)
          PROVE  Upgraded'
      <4>1. /\ UNCHANGED <<scope, unit, crashes, binary, misled>> /\ Mihomo' = Mihomo /\ lost \subseteq lost'
            /\ \A p \in Mihomo : proc'[p].ver = proc[p].ver
            /\ \A u \in Thread : th'[u] = IF u \in ts THEN Idle ELSE th[u]
        BY <2>0, <3>8, KilledEffect
      <4>2. \A u \in Thread : th'[u] = th[u] \/ th'[u].op # "update" \/ Now(u)' = "load"
        BY <4>1, IdleFacts
      <4> QED  BY <1>2, <2>0, <4>1, <4>2, TurnoverUpgrades
    <3>9. ASSUME NEW t \in Cli, Interrupt(t) PROVE Upgraded'
      <4>1. Killed(t, {t}) /\ UNCHANGED <<tui, used>>
        BY <3>9 DEF Interrupt
      <4>2. tui' \in {"off", "launching", "on"} /\ used' \subseteq {"core", "service"}
        BY <2>0, <4>1 DEF Sane, TypeOK
      <4> QED  BY <3>8, <4>1, <4>2
    <3>10. CASE Quit
      <4>1. Killed("tui", Session) /\ tui' \in {"off", "launching", "on"} /\ used' \subseteq {"core", "service"}
        BY <3>10 DEF Quit
      <4> QED  BY <3>8, <4>1
    <3> QED  BY <2>4, <3>4, <3>5, <3>6, <3>7, <3>9, <3>10 DEF User
  <2> QED  BY <1>2, <2>1, <2>2, <2>3, <2>4 DEF Next
<1> QED  BY <1>1, <1>2

\* After an upgrade reported as done no mihomo runs the old binary, and after an uninstall
\* none runs, whatever else was under way that calls no manager and whatever was killed
\* before, with the exceptions the properties name: a mihomo that has crashed under
\* systemd, a misled uninstall, and the children of starts killed before they had written
\* the id.
THEOREM DoneStaysDone == Spec => []DoneMeansDone
<1>1. Grounded /\ Upgraded => DoneMeansDone
  <2> SUFFICES ASSUME Base, Upgraded PROVE DoneMeansDone
    BY DEF Grounded
  <2>1. \A t \in Thread : \A op : Ended(t, op) => th[t].op = op /\ Now(t) = "end" /\ ~th[t].failed
    BY DEF Ended, Now, First
  <2>2. UpgradeTakesEffect
    BY <2>1 DEF Upgraded, UpgradeTakesEffect, Counted
  <2>3. UninstallLeavesNone
    <3> SUFFICES ASSUME NEW t \in Thread, Apart # "none", ~misled, th[t].op = "uninstall", Now(t) = "end"
                 PROVE  Mihomo \subseteq lost
      <4>1. \A u \in Thread : th[u].todo = <<>> => Now(u) = "end"
        BY DEF Now, First
      <4> QED  BY <4>1 DEF UninstallLeavesNone
    <3>1. CASE Mode = "pid"
      BY <3>1 DEF Base, Known, Cleaning
    <3>2. CASE Mode = "systemd"
      <4>1. unit = "absent"
        BY <3>2 DEF Base, Installed, Cleaning
      <4> QED  BY <3>2, <4>1, UnitFacts DEF Base
    <3> QED  BY <3>1, <3>2, SaneFacts DEF Base
  <2> QED  BY <2>2, <2>3 DEF DoneMeansDone
<1> QED  BY <1>1, BaseInductive, UpgradedInductive, PTL DEF Spec

-----------------------------------------------------------------------------
(* The configuration agrees.                                               *)

\* The parts that speak of config.toml and config.yaml.
Config == Current /\ Agreed /\ Written /\ Ran

\* A step of a thread that is alone: what has to hold where it leads.
LEMMA AloneKeeps ==
    ASSUME Base, NEW t \in Thread, NEW s, NEW n, Turns(t, s, n), UNCHANGED <<scope, torn>>, lost \subseteq lost',
           misled => misled', misled' \in BOOLEAN,
           Alone /\ Loaded(t)' => Mine(t)' = store' /\ store' # NoStore,
           Alone /\ (IF th'[t].op \in Writers THEN Wrote(t)' ELSE ~torn) => Agrees',
           Alone /\ th'[t].op = "uninstall" /\ n = "forget" => yaml' = NoYaml,
           Alone /\ th'[t].op \in Appliers /\ n \notin Unwritten \union {"detect"}
             => yaml' = [key |-> Mine(t)'.key, rev |-> Mine(t)'.rev],
           Alone /\ ~misled' /\ lost = {} /\ th'[t].op \in {"change", "relaunch"}
             /\ (n = "record" \/ (n = "end" /\ ~th'[t].failed))
             => \A p \in Mihomo' : proc'[p].cfg = yaml'
    PROVE  Config'
<1>1. /\ Now(t) = s /\ Now(t)' = n /\ s # "end" /\ \A u \in Thread : u # t => th'[u] = th[u]
      /\ Alone' = Alone
  BY Goes DEF Alone, Apart
<1>2. Busy(t)
  BY <1>1, Held DEF Base
<1>3. ASSUME Alone, NEW u \in Thread, u # t PROVE th'[u].op = "none"
  BY <1>1, <1>2, <1>3 DEF Base, Exclusive, Alone, Busy
<1>4. "none" \notin Writers /\ "none" \notin Appliers
  BY DEF Writers, Appliers
<1>5. Current'
  <2> SUFFICES ASSUME Alone, NEW u \in Thread, Loaded(u)' PROVE Mine(u)' = store' /\ store' # NoStore
    BY <1>1 DEF Current
  <2>1. u = t
    BY <1>3, <1>4 DEF Loaded
  <2> QED  BY <2>1
<1>6. Agreed'
  <2> SUFFICES ASSUME Alone PROVE Agreed'
    BY <1>1 DEF Agreed
  <2>1. ~torn' /\ (\A u \in Thread : th'[u].op \notin Writers) => Agrees'
    OBVIOUS
  <2>2. ASSUME NEW u \in Thread, Wrote(u)' PROVE Agrees'
    <3>1. u = t /\ th'[t].op \in Writers
      BY <1>3, <1>4, <2>2 DEF Wrote
    <3> QED  BY <2>2, <3>1
  <2>3. ASSUME NEW u \in Thread, th'[u].op = "uninstall", Now(u)' = "forget" PROVE yaml' = NoYaml
    <3>1. u = t
      BY <1>3, <2>3
    <3> QED  BY <1>1, <2>3, <3>1
  <2> QED  BY <2>1, <2>2, <2>3 DEF Agreed
<1>7. Written'
  <2> SUFFICES ASSUME Alone, NEW u \in Thread, th'[u].op \in Appliers, Now(u)' \notin Unwritten \union {"detect"}
               PROVE  yaml' = [key |-> Mine(u)'.key, rev |-> Mine(u)'.rev]
    BY <1>1 DEF Written
  <2>1. u = t
    BY <1>3, <1>4
  <2> QED  BY <1>1, <2>1
<1>8. Ran'
  <2> SUFFICES ASSUME Alone, ~misled', lost' = {}, NEW u \in Thread, th'[u].op \in {"change", "relaunch"},
                      Now(u)' = "record" \/ (Now(u)' = "end" /\ ~th'[u].failed)
               PROVE  \A p \in Mihomo' : proc'[p].cfg = yaml'
    BY <1>1 DEF Ran
  <2>1. u = t /\ lost = {}
    BY <1>3
  <2> QED  BY <1>1, <2>1
<1> QED  BY <1>5, <1>6, <1>7, <1>8 DEF Config

\* Of an operation that is alone, what it has loaded and what is on disk.
LEMMA AloneFacts ==
    ASSUME Base, Config, NEW t \in Thread, Now(t) # "end", Alone
    PROVE  /\ Loaded(t) => Mine(t) = store /\ store # NoStore
           /\ (IF th[t].op \in Writers THEN Wrote(t) ELSE ~torn) => Agrees
           /\ th[t].op = "uninstall" /\ Now(t) = "forget" => yaml = NoYaml
           /\ th[t].op \in Appliers /\ Now(t) \notin Unwritten \union {"detect"}
                => yaml = [key |-> Mine(t).key, rev |-> Mine(t).rev]
<1>1. Busy(t)
  BY Held DEF Base
<1>2. \A u \in Thread : u # t => th[u].op = "none"
  BY <1>1 DEF Base, Exclusive, Alone, Busy
<1>3. "none" \notin Writers
  BY DEF Writers
<1>4. (IF th[t].op \in Writers THEN Wrote(t) ELSE ~torn) => Agrees
  BY <1>2, <1>3 DEF Config, Agreed
<1>5. Loaded(t) => Mine(t) = store /\ store # NoStore
  BY DEF Config, Current
<1>6. /\ th[t].op = "uninstall" /\ Now(t) = "forget" => yaml = NoYaml
      /\ th[t].op \in Appliers /\ Now(t) \notin Unwritten \union {"detect"}
           => yaml = [key |-> Mine(t).key, rev |-> Mine(t).rev]
  BY DEF Config, Agreed, Written
<1> QED  BY <1>4, <1>5, <1>6

\* A step that leaves the files alone: only what mihomo runs with is concerned.
LEMMA PlainConfig ==
    ASSUME Base, Config, NEW t \in Thread, NEW s, NEW n, Turns(t, s, n), UNCHANGED <<scope, torn>>, lost \subseteq lost',
           misled => misled', misled' \in BOOLEAN, UNCHANGED <<store, mem, yaml>>,
           s \notin {"backup", "stash", "load", "save", "secure", "wipe"},
           s \in Unwritten \union {"detect"} => n \in Unwritten \/ (s = "detect" /\ th[t].op \notin Appliers),
           n = "forget" => s = "wipe",
           Alone /\ ~misled /\ lost = {} /\ th[t].op \in {"change", "relaunch"}
             /\ (n = "record" \/ (n = "end" /\ ~th'[t].failed))
             => \A p \in Mihomo' : proc'[p].cfg = yaml
    PROVE  Config'
<1>1. Now(t) = s /\ Now(t)' = n /\ s # "end" /\ Mine(t)' = Mine(t) /\ th'[t].op = th[t].op
  BY Goes DEF Mine
<1>2. Loaded(t)' => Loaded(t)
  BY <1>1 DEF Loaded
<1>3. Wrote(t)' => Wrote(t)
  BY <1>1 DEF Wrote, Appliers, Unwritten
<1>4. Alone => Agrees' = Agrees
  BY DEF Agrees
<1>5. Alone /\ Loaded(t)' => Mine(t)' = store' /\ store' # NoStore
  BY <1>1, <1>2, AloneFacts
<1>6. Alone /\ (IF th'[t].op \in Writers THEN Wrote(t)' ELSE ~torn) => Agrees'
  BY <1>1, <1>3, <1>4, AloneFacts
<1>7. Alone /\ th'[t].op \in Appliers /\ n \notin Unwritten \union {"detect"}
        => yaml' = [key |-> Mine(t)'.key, rev |-> Mine(t)'.rev]
  BY <1>1, AloneFacts
<1> QED  BY <1>1, <1>5, <1>6, <1>7, AloneKeeps

\* The steps of the PID manager: a change leads to a mihomo that has read config.yaml.
LEMMA PidConfig ==
    ASSUME Base, Config, NEW t \in Thread, UNCHANGED hostVars, UNCHANGED <<scope, ops>>,
           Term(t) \/ Wait(t) \/ Probe(t) \/ Spawn(t) \/ Record(t)
    PROVE  Config'
<1>1. Sane /\ UNCHANGED <<misled, lost, torn, store, mem>> /\ misled \in BOOLEAN
  BY SaneFacts DEF hostVars, Base
<1>0. /\ "term" \in PidSteps /\ "wait" \in PidSteps /\ "probe" \in PidSteps /\ "spawn" \in PidSteps
      /\ "record" \in PidSteps
  BY DEF PidSteps
<1>2. ASSUME NEW s \in PidSteps, NEW n, Moves(t, s, n), UNCHANGED yaml, n # "forget",
             Alone /\ ~misled /\ lost = {} /\ th[t].op \in {"change", "relaunch"}
               /\ (n = "record" \/ (n = "end" /\ ~th'[t].failed))
               => \A p \in Mihomo' : proc'[p].cfg = yaml
      PROVE  Config'
  <2>1. Turns(t, s, n) /\ s \notin {"backup", "stash", "load", "save", "secure", "wipe", "detect"} \union Unwritten
    BY <1>2 DEF Moves, PidSteps, Unwritten
  <2> QED  BY <1>1, <1>2, <2>1, PlainConfig
<1>3. ASSUME NEW s \in PidSteps, NEW n, Moves(t, s, n)
      PROVE  Now(t) = s /\ Calls(th[t].op) /\ Mode = "pid"
  <2>1. Now(t) = s /\ s # "end" /\ Fits(th[t].op, s)
    BY <1>3, Goes DEF Moves, Turns
  <2>2. Mode = "pid"
    BY <1>1, <2>1, SaneFacts DEF Fits
  <2>3. Calls(th[t].op)
    BY <1>1, <2>1, Held DEF Managing
  <2> QED  BY <2>1, <2>2, <2>3
<1>4. CASE Term(t)
  <2>1. PICK n : Moves(t, "term", n) /\ UNCHANGED yaml /\ (n = "wait" \/ Linked(th[t].op, "wait", n))
    BY <1>1, <1>4, TermEffect DEF ManagerFrame
  <2>2. n # "forget" /\ (th[t].op \in {"change", "relaunch"} => n \notin {"record", "end"})
    BY <2>1 DEF Linked, Booting, Applying, Restarting, Starting
  <2> QED  BY <1>0, <1>2, <2>1, <2>2
<1>5. CASE Wait(t)
  <2>1. PICK n : Passes(t, "wait", n) /\ UNCHANGED yaml
    BY <1>1, <1>5, WaitEffect DEF ManagerFrame
  <2>2. Moves(t, "wait", n) /\ n # "forget" /\ (th[t].op \in {"change", "relaunch"} => n \notin {"record", "end"})
    BY <2>1 DEF Passes, Linked, Booting, Applying, Restarting, Starting
  <2> QED  BY <1>0, <1>2, <2>1, <2>2
<1>6. CASE Probe(t)
  <2>1. PICK n : Moves(t, "probe", n) /\ n \in {"spawn", "verify", "end"} /\ (n = "end" => th'[t].failed) /\ UNCHANGED yaml
    BY <1>1, <1>6, ProbeEffect DEF ManagerFrame, Passes, Stumbles
  <2> QED  BY <1>0, <1>2, <2>1
<1>7. CASE Spawn(t)
  <2>1. /\ UNCHANGED yaml
        /\ \/ \E n : Stumbles(t, "spawn", n)
           \/ /\ Moves(t, "spawn", "record") /\ Mihomo' \subseteq Mihomo \union {th'[t].pid}
              /\ proc'[th'[t].pid].cfg = yaml
    BY <1>1, <1>7, SpawnEffect DEF ManagerFrame
  <2>2. CASE \E n : Stumbles(t, "spawn", n)
    <3>1. PICK n : Moves(t, "spawn", n) /\ n \in {"verify", "end"} /\ (n = "end" => th'[t].failed)
      BY <2>2 DEF Stumbles
    <3> QED  BY <1>0, <1>2, <2>1, <3>1
  <2>3. CASE /\ Moves(t, "spawn", "record") /\ Mihomo' \subseteq Mihomo \union {th'[t].pid}
             /\ proc'[th'[t].pid].cfg = yaml
    <3>1. Alone /\ ~misled => Mihomo \subseteq lost
      BY <1>0, <1>3, <2>3, KnownAt DEF Alone
    <3> QED  BY <1>0, <1>2, <2>1, <2>3, <3>1
  <2> QED  BY <2>1, <2>2, <2>3
<1>8. CASE Record(t)
  <2>1. /\ Fewer /\ UNCHANGED yaml
        /\ (\E n : Passes(t, "record", n)) \/ (\E n : Stumbles(t, "record", n))
    BY <1>1, <1>8, RecordEffect DEF ManagerFrame
  <2>2. PICK n : Moves(t, "record", n) /\ n # "forget"
    BY <2>1 DEF Passes, Stumbles, Linked, Booting, Applying, Restarting, Starting
  <2>3. Alone /\ ~misled /\ lost = {} /\ th[t].op \in {"change", "relaunch"} => \A p \in Mihomo : proc[p].cfg = yaml
    BY <1>0, <1>3, <2>2 DEF Config, Ran
  <2> QED  BY <1>0, <1>2, <2>1, <2>2, <2>3 DEF Fewer
<1> QED  BY <1>4, <1>5, <1>6, <1>7, <1>8

\* The steps of systemd's.
LEMMA SysConfig ==
    ASSUME Base, Config, NEW t \in Thread, UNCHANGED hostVars, UNCHANGED <<scope, ops>>,
           SysInstall(t) \/ SysStart(t) \/ SysStop(t) \/ SysRestart(t) \/ SysUninstall(t)
    PROVE  Config'
<1>1. Sane /\ UNCHANGED <<misled, lost, torn, store, mem>> /\ misled \in BOOLEAN
  BY SaneFacts DEF hostVars, Base
<1>0. /\ {"sysinstall", "sysstart", "sysrestart", "sysstop", "sysuninstall"} \subseteq SysSteps \union EndSteps
  BY DEF SysSteps, EndSteps
<1>2. ASSUME NEW s \in SysSteps \union EndSteps, NEW n, Moves(t, s, n), UNCHANGED yaml, n # "forget",
             Alone /\ ~misled /\ lost = {} /\ th[t].op \in {"change", "relaunch"}
               /\ (n = "record" \/ (n = "end" /\ ~th'[t].failed))
               => \A p \in Mihomo' : proc'[p].cfg = yaml
      PROVE  Config'
  <2>1. Turns(t, s, n) /\ s \notin {"backup", "stash", "load", "save", "secure", "wipe", "detect"} \union Unwritten
    BY <1>2 DEF Moves, SysSteps, EndSteps, Unwritten
  <2> QED  BY <1>1, <1>2, <2>1, PlainConfig
<1>3. CASE SysInstall(t) \/ SysStart(t) \/ SysStop(t) \/ SysUninstall(t)
  <2>1. PICK s, n : /\ s \in {"sysinstall", "sysstart", "sysstop", "sysuninstall"} /\ Moves(t, s, n) /\ UNCHANGED yaml
                    /\ Linked(th[t].op, s, n) \/ (n \in {"verify", "assemble", "end"} /\ (n = "end" => th'[t].failed))
    <3>1. CASE SysInstall(t)
      BY <1>1, <3>1, SysInstallEffect DEF Passes, Falls, ManagerFrame
    <3>2. CASE SysStart(t)
      BY <1>1, <3>2, SysStartEffect DEF Passes, Stumbles, ManagerFrame
    <3>3. CASE SysStop(t)
      BY <1>1, <3>3, SysStopEffect DEF Passes, Misses, ManagerFrame
    <3>4. CASE SysUninstall(t)
      BY <1>1, <3>4, SysUninstallEffect DEF Passes, ManagerFrame
    <3> QED  BY <1>3, <3>1, <3>2, <3>3, <3>4
  <2>2. n # "forget" /\ (th[t].op \in {"change", "relaunch"} => n # "record" /\ (n = "end" => th'[t].failed))
    BY <2>1 DEF Linked, Booting, Applying, Restarting, Starting
  <2> QED  BY <1>0, <1>2, <2>1, <2>2
<1>4. CASE SysRestart(t)
  <2>1. /\ UNCHANGED yaml
        /\ \/ \E n : Stumbles(t, "sysrestart", n)
           \/ SysRan(Mihomo \ {main}) /\ \E n : Passes(t, "sysrestart", n)
    BY <1>1, <1>4, SysRestartEffect DEF ManagerFrame
  <2>2. CASE \E n : Stumbles(t, "sysrestart", n)
    <3>1. PICK n : Moves(t, "sysrestart", n) /\ n \in {"verify", "end"} /\ (n = "end" => th'[t].failed)
      BY <2>2 DEF Stumbles
    <3> QED  BY <1>0, <1>2, <2>1, <3>1
  <2>3. CASE SysRan(Mihomo \ {main}) /\ \E n : Passes(t, "sysrestart", n)
    <3>1. PICK n : Moves(t, "sysrestart", n) /\ n # "forget"
      BY <2>3 DEF Passes, Linked, Booting, Applying, Restarting, Starting
    <3>2. Mode = "systemd"
      <4>1. Fits(th[t].op, "sysrestart")
        BY <3>1 DEF Moves, Turns
      <4> QED  BY <1>1, <4>1, SaneFacts DEF Fits, SysSteps
    <3>3. \A p \in Mihomo' : proc'[p].cfg = yaml
      <4> DEFINE old == Mihomo \ {main}
      <4>1. old \subseteq Mihomo /\ old \subseteq Mihomo \ {main} /\ SysRan(old)
        BY <2>3
      <4> HIDE DEF old
      <4> QED  BY <3>2, <4>1, RanFacts
    <3> QED  BY <1>0, <1>2, <2>1, <3>1, <3>3
  <2> QED  BY <2>1, <2>2, <2>3
<1> QED  BY <1>3, <1>4

\* A reload of the one mihomo there is gives it what config.yaml holds.
LEMMA ReloadConfig ==
    ASSUME Base, Config, NEW t \in Thread, Reload(t), UNCHANGED <<scope, ops>>
    PROVE  Config'
<1>1. /\ UNCHANGED <<binary, yaml, hostVars>> /\ th[t].op \in {"relaunch", "change"}
      /\ \/ \E n \in {"term", "sysrestart"} : Passes(t, "reload", n)
         \/ Moves(t, "reload", "end") /\ \E p \in Reloads(Mine(t).key) : proc' = Reloaded(p)
  BY ReloadEffect DEF Base
<1>2. UNCHANGED <<misled, lost, torn, store, mem>> /\ misled \in BOOLEAN
  BY <1>1, SaneFacts DEF hostVars, Base
<1>0. "reload" \notin Unwritten
  BY DEF Unwritten
<1>3. ASSUME NEW n, Turns(t, "reload", n), n \in {"term", "sysrestart"} PROVE Config'
  BY <1>0, <1>1, <1>2, <1>3, PlainConfig
<1>4. ASSUME Turns(t, "reload", "end"), NEW p \in Reloads(Mine(t).key), proc' = Reloaded(p)
      PROVE  Config'
  <2>1. proc \in Procs /\ stamp \in Nat /\ yaml \in Content /\ p \in Mihomo /\ proc[p].cfg.key = Mine(t).key
        /\ Mode \in {"pid", "systemd"} /\ Sane /\ Unit
    BY <1>4, SaneFacts DEF Reloads, Base
  <2>2. Mihomo' = Mihomo /\ proc'[p].cfg = [key |-> Mine(t).key, rev |-> yaml.rev]
    BY <1>4, <2>1, ReloadedEffect
  <2>3. Now(t) = "reload" /\ Calls(th[t].op) /\ th[t].op \in Appliers
    BY <1>1, <1>4, Goes DEF Calls, Appliers
  <2>4. Alone /\ ~misled /\ lost = {} => Mihomo \subseteq {p}
    <3> SUFFICES ASSUME Alone, ~misled, lost = {} PROVE Mihomo \subseteq {p}
      OBVIOUS
    <3>1. CASE Mode = "pid"
      <4>1. Mihomo \subseteq {pidFile}
        BY <2>3, <3>1, KnownAt DEF Alone
      <4> QED  BY <2>1, <4>1
    <3>2. CASE Mode = "systemd"
      BY <2>1, <3>2, UnitFacts
    <3> QED  BY <2>1, <3>1, <3>2
  <2>5. Alone => yaml = [key |-> Mine(t).key, rev |-> Mine(t).rev]
    BY <1>0, <2>3 DEF Config, Written
  <2>6. Alone /\ ~misled /\ lost = {} => \A q \in Mihomo' : proc'[q].cfg = yaml
    <3> SUFFICES ASSUME Alone, ~misled, lost = {}, NEW q \in Mihomo' PROVE proc'[q].cfg = yaml
      OBVIOUS
    <3>1. q = p
      BY <2>2, <2>4
    <3>2. [key |-> Mine(t).key, rev |-> Mine(t).rev].rev = Mine(t).rev
      OBVIOUS
    <3>3. yaml.rev = Mine(t).rev
      BY <2>5, <3>2
    <3> QED  BY <2>2, <2>5, <3>1, <3>3
  <2> QED  BY <1>0, <1>1, <1>2, <1>4, <2>6, PlainConfig
<1> QED  BY <1>1, <1>3, <1>4 DEF Passes, Moves

\* The steps that write the files.
LEMMA FilesConfig ==
    ASSUME Base, Config, NEW t \in Thread, ProgramStep(t), UNCHANGED <<scope, ops>>
    PROVE  Config'
<1>1. Sane /\ misled \in BOOLEAN /\ Home(t) \in Process /\ stamp \in Nat
  BY SaneFacts DEF Base
<1>2. ASSUME NEW s, NEW n, Turns(t, s, n), UNCHANGED <<store, mem, yaml, torn, lost>>,
             s \in {"detect", "ports", "fetch", "verify", "nudge", "look", "swap", "choose", "strip"},
             s \in {"detect", "ports"} => Linked(th[t].op, s, n),
             n # "forget" /\ (th[t].op = "relaunch" => n # "record" /\ (n = "end" => th'[t].failed)),
             misled => misled', misled' \in BOOLEAN
      PROVE  Config'
  <2>1. th[t].op # "change"
    BY <1>2 DEF Turns, Linked, Booting, Applying, Restarting, Starting
  <2>2. s \in Unwritten \union {"detect"} => n \in Unwritten \/ (s = "detect" /\ th[t].op \notin Appliers)
    BY <1>2 DEF Unwritten, Appliers, Linked, Booting, Applying, Restarting, Starting
  <2>3. s \notin {"backup", "stash", "load", "save", "secure", "wipe"}
    BY <1>2
  <2> QED  BY <1>2, <2>1, <2>2, <2>3, PlainConfig
<1>3. ASSUME NEW s, NEW n, Moves(t, s, n), s # "secure"
      PROVE  Turns(t, s, n) /\ Now(t) = s /\ s # "end" /\ Now(t)' = n /\ th'[t].op = th[t].op
  BY <1>3, Goes DEF Moves
<1>4. ASSUME NEW s, NEW n, Passes(t, s, n), UNCHANGED <<misled, torn, lost, store, mem>>,
             s \in {"reconcile", "skeleton", "stash", "drop"},
             \/ s = "reconcile" /\ yaml'.key = Mine(t).key
             \/ s = "skeleton" /\ (IF yaml = NoYaml THEN yaml' = BuildSkeleton(Mine(t).key) ELSE yaml' = yaml)
             \/ s = "stash" /\ yaml' = NoYaml
             \/ s = "drop"
      PROVE  Config'
  <2>1. Turns(t, s, n) /\ Now(t) = s /\ s # "end" /\ Now(t)' = n /\ th'[t].op = th[t].op /\ Mine(t)' = Mine(t)
    BY <1>3, <1>4 DEF Passes, Mine
  <2>2. /\ s = "reconcile" => n \in {"detect", "end"} /\ th[t].op \in Writers \ Appliers
        /\ s = "skeleton" => n \in {"probe", "sysinstall"} /\ th[t].op \in Writers
        /\ s = "stash" => n = "load" /\ th[t].op \in Writers
        /\ s = "drop" => n = "secure" /\ th[t].op \in Writers
    BY <1>4 DEF Passes, Linked, Booting, Applying, Restarting, Starting, Writers, Appliers
  <2>3. Loaded(t)' => Loaded(t)
    <3>1. CASE s = "stash"
      BY <2>1, <2>2, <3>1 DEF Loaded
    <3>2. CASE s # "stash"
      BY <1>4, <2>1, <3>2 DEF Loaded
    <3> QED  BY <3>1, <3>2
  <2>4. Alone /\ Loaded(t)' => Mine(t)' = store' /\ store' # NoStore
    BY <1>4, <2>1, <2>3, AloneFacts
  <2>5. Alone /\ (IF th'[t].op \in Writers THEN Wrote(t)' ELSE ~torn) => Agrees'
    <3> SUFFICES ASSUME Alone, IF th'[t].op \in Writers THEN Wrote(t)' ELSE ~torn PROVE Agrees'
      OBVIOUS
    <3>1. CASE s = "reconcile" \/ s = "skeleton"
      <4>1. Mine(t) = store /\ store # NoStore
        BY <2>1, <2>2, <3>1, AloneFacts DEF Loaded
      <4>2. s = "skeleton" => Wrote(t)
        BY <2>1, <2>2 DEF Wrote, Unwritten
      <4>3. s = "skeleton" => Agrees
        BY <2>1, <2>2, <4>2, AloneFacts
      <4>4. BuildSkeleton(Mine(t).key).key = Mine(t).key
        BY DEF BuildSkeleton
      <4> QED  BY <1>4, <3>1, <4>1, <4>3, <4>4 DEF Agrees
    <3>2. CASE s = "stash"
      BY <1>4, <3>2 DEF Agrees
    <3>3. CASE s = "drop"
      BY <2>1, <2>2, <3>3 DEF Wrote, Unwritten
    <3> QED  BY <1>4, <3>1, <3>2, <3>3
  <2>6. Alone /\ th'[t].op \in Appliers /\ n \notin Unwritten \union {"detect"}
          => yaml' = [key |-> Mine(t)'.key, rev |-> Mine(t)'.rev]
    <3> SUFFICES ASSUME Alone, th'[t].op \in Appliers, n \notin Unwritten \union {"detect"}
                 PROVE  yaml' = [key |-> Mine(t)'.key, rev |-> Mine(t)'.rev]
      OBVIOUS
    <3>1. s = "skeleton"
      BY <1>4, <2>1, <2>2 DEF Unwritten
    <3>2. yaml = [key |-> Mine(t).key, rev |-> Mine(t).rev]
      BY <2>1, <3>1, AloneFacts DEF Unwritten
    <3>3. yaml = NoYaml => Mine(t).key = 0
      <4>1. [key |-> Mine(t).key, rev |-> Mine(t).rev].key = Mine(t).key /\ NoYaml.key = 0
        BY DEF NoYaml
      <4> QED  BY <3>2, <4>1
    <3>4. yaml' = yaml
      BY <1>4, <3>1, <3>3 DEF BuildSkeleton, NoYaml
    <3> QED  BY <2>1, <3>2, <3>4
  <2>7. n # "forget" /\ n # "record" /\ (n = "end" => th'[t].op \notin Appliers)
    BY <1>4, <2>1, <2>2
  <2> QED  BY <1>1, <1>4, <2>1, <2>4, <2>5, <2>6, <2>7, AloneKeeps DEF Appliers
<1>5. CASE LoadStore(t)
  <2>1. PICK n : Passes(t, "load", n)
    BY <1>1, <1>5, LoadEffect
  <2>2. /\ store' # NoStore /\ Mine(t)' = store' /\ (store # NoStore => store' = store)
        /\ UNCHANGED <<yaml, misled, torn, lost>>
    BY <1>1, <1>5, LoadEffect DEF StoreFrame
  <2>3. Turns(t, "load", n) /\ Now(t) = "load" /\ Now(t)' = n /\ th'[t].op = th[t].op
    BY <1>3, <2>1 DEF Passes
  <2>4. n \in {"reconcile", "save", "detect", "choose", "look"} /\ (n = "detect" => th[t].op = "launch")
    BY <2>1 DEF Passes, Linked, Booting, Applying, Restarting, Starting
  <2>5. ~Wrote(t)'
    BY <2>3, <2>4, <2>1 DEF Wrote, Unwritten, Passes, Linked, Booting, Applying, Restarting, Starting, Writers
  <2>6. Alone /\ th[t].op \notin Writers /\ ~torn => Agrees
    BY <2>3, AloneFacts
  <2>7. Agrees => Agrees'
    BY <2>2 DEF Agrees
  <2>8. th[t].op \in Appliers => n \in Unwritten \union {"detect"}
    BY <2>1 DEF Passes, Unwritten, Appliers, Linked, Booting, Applying, Restarting, Starting
  <2> QED  BY <1>1, <2>2, <2>3, <2>4, <2>5, <2>6, <2>7, <2>8, AloneKeeps
<1>6. CASE DetectMode(t)
  <2>1. PICK n : Passes(t, "detect", n)
    BY <1>1, <1>6, DetectEffect
  <2>2. /\ UNCHANGED <<yaml, misled, torn, lost>>
        /\ \/ UNCHANGED <<mem, store>>
           \/ store' # NoStore /\ Mine(t)' = store' /\ store'.key = Mine(t).key
    BY <1>1, <1>6, DetectEffect DEF StoreFrame
  <2>3. Turns(t, "detect", n) /\ Now(t) = "detect" /\ Now(t)' = n /\ th'[t].op = th[t].op
    BY <1>3, <2>1 DEF Passes
  <2>4. /\ n \in {"fetch", "ports"} /\ th[t].op \in {"init", "force", "launch"}
        /\ th[t].op = "launch" <=> n = "ports"
    BY <2>1 DEF Passes, Linked, Booting, Applying, Restarting, Starting
  <2>5. CASE UNCHANGED <<mem, store>>
    BY <1>1, <1>2, <2>1, <2>2, <2>3, <2>4, <2>5 DEF Passes
  <2>6. CASE store' # NoStore /\ Mine(t)' = store' /\ store'.key = Mine(t).key
    <3>1. Alone => Mine(t) = store /\ store # NoStore
      BY <2>3, <2>4, AloneFacts DEF Loaded, Writers
    <3>2. Alone /\ Wrote(t)' => Agrees'
      <4>1. Wrote(t)' => Wrote(t) /\ th[t].op \in Writers
        BY <2>3, <2>4 DEF Wrote, Unwritten
      <4>2. Alone /\ Wrote(t)' => Agrees
        BY <2>3, <4>1, AloneFacts
      <4> QED  BY <2>2, <2>6, <3>1, <4>2 DEF Agrees
    <3>3. th[t].op \in Writers /\ (th[t].op \in Appliers => n \in Unwritten)
      BY <2>4 DEF Writers, Appliers, Unwritten
    <3> QED  BY <1>1, <2>2, <2>3, <2>4, <2>6, <3>2, <3>3, AloneKeeps
  <2> QED  BY <2>2, <2>5, <2>6
<1>7. CASE Ports(t)
  <2>1. /\ UNCHANGED <<yaml, misled, torn, lost>> /\ th[t].op = "launch"
        /\ \/ UNCHANGED <<mem, store>> /\ Passes(t, "ports", "secure")
           \/ store' # NoStore /\ Mine(t)' = store' /\ Moves(t, "ports", "drop")
    BY <1>1, <1>7, PortsEffect DEF StoreFrame
  <2>2. CASE UNCHANGED <<mem, store>> /\ Passes(t, "ports", "secure")
    BY <1>1, <1>2, <1>3, <2>1, <2>2 DEF Passes
  <2>3. CASE store' # NoStore /\ Mine(t)' = store' /\ Moves(t, "ports", "drop")
    <3>1. Turns(t, "ports", "drop") /\ Now(t)' = "drop" /\ th'[t].op = "launch"
      BY <1>3, <2>1, <2>3
    <3>2. ~Wrote(t)' /\ "drop" \in Unwritten /\ "launch" \in Writers
      BY <3>1 DEF Wrote, Unwritten, Writers
    <3> QED  BY <1>1, <2>1, <2>3, <3>1, <3>2, AloneKeeps
  <2> QED  BY <2>1, <2>2, <2>3
<1>8. CASE SaveChange(t)
  <2>1. /\ Passes(t, "save", "assemble") /\ UNCHANGED <<yaml, misled, torn, lost>>
        /\ store' # NoStore /\ Mine(t)' = store'
    BY <1>1, <1>8, SaveEffect DEF StoreFrame
  <2>2. Turns(t, "save", "assemble") /\ Now(t)' = "assemble" /\ th'[t].op \in {"verb", "change"}
    BY <1>3, <2>1 DEF Passes, Linked, Booting, Applying, Restarting, Starting
  <2>3. ~Wrote(t)' /\ "assemble" \in Unwritten /\ th'[t].op \in Writers
    BY <2>2 DEF Wrote, Unwritten, Writers
  <2> QED  BY <1>1, <2>1, <2>2, <2>3, AloneKeeps
<1>9. CASE Backup(t)
  <2>1. Passes(t, "backup", "stash") /\ UNCHANGED <<misled, torn, lost>>
    BY <1>1, <1>9, BackupEffect DEF StoreFrame
  <2>2. Turns(t, "backup", "stash") /\ Now(t)' = "stash" /\ th'[t].op \in {"force", "skip"}
    BY <1>3, <2>1 DEF Passes, Linked, Booting, Applying, Restarting, Starting
  <2>3. ~Wrote(t)' /\ ~Loaded(t)' /\ "stash" \in Unwritten /\ th'[t].op \in Writers
    BY <2>2 DEF Wrote, Loaded, Unwritten, Writers
  <2> QED  BY <1>1, <2>1, <2>2, <2>3, AloneKeeps
<1>10. CASE Stash(t)
  <2>1. Passes(t, "stash", "load") /\ yaml' = NoYaml /\ UNCHANGED <<misled, torn, lost, store, mem>>
    BY <1>1, <1>10, StashEffect DEF hostVars
  <2> QED  BY <1>4, <2>1
<1>11. CASE Reconcile(t)
  <2>1. PICK n : Passes(t, "reconcile", n)
    BY <1>1, <1>11, ReconcileEffect
  <2>2. UNCHANGED <<misled, torn, lost, store, mem>> /\ yaml'.key = Mine(t).key
    BY <1>1, <1>11, ReconcileEffect DEF hostVars
  <2> QED  BY <1>4, <2>1, <2>2
<1>12. CASE DropYaml(t)
  <2>1. Passes(t, "drop", "secure") /\ UNCHANGED <<misled, torn, lost, store, mem>>
    BY <1>1, <1>12, DropEffect DEF hostVars
  <2> QED  BY <1>4, <2>1
<1>13. CASE Skeleton(t)
  <2>1. PICK n : Passes(t, "skeleton", n)
    BY <1>1, <1>13, SkeletonEffect
  <2>2. /\ UNCHANGED <<misled, torn, lost, store, mem>>
        /\ IF yaml = NoYaml THEN yaml' = BuildSkeleton(Mine(t).key) ELSE yaml' = yaml
    BY <1>13 DEF Skeleton, hostVars
  <2> QED  BY <1>4, <2>1, <2>2
<1>14. CASE Secure(t)
  <2>1. Passes(t, "secure", "assemble") /\ th[t].op = "launch" /\ UNCHANGED hostVars
    BY <1>1, <1>14, SecureEffect
  <2>2. /\ Turns(t, "secure", "assemble") /\ Now(t) = "secure" /\ Now(t)' = "assemble" /\ Mine(t)' = Mine(t)
        /\ th'[t].op \in {"launch", "relaunch"} /\ UNCHANGED <<misled, torn, lost, store, mem>>
    BY <2>1, Goes DEF Passes, Moves, hostVars, Mine
  <2>3. Alone => Mine(t) = store /\ store # NoStore
    BY <2>1, <2>2, AloneFacts DEF Loaded, Writers
  <2>4. ~Wrote(t)' /\ "assemble" \in Unwritten /\ th'[t].op \in Writers
    BY <2>2 DEF Wrote, Unwritten, Writers
  <2> QED  BY <1>1, <2>2, <2>3, <2>4, AloneKeeps
<1>15. CASE AssembleYaml(t)
  <2>1. PICK n \in {"reload", "nudge", "fetch"} : Passes(t, "assemble", n)
    BY <1>1, <1>15, AssembleEffect
  <2>2. UNCHANGED <<store, mem, misled, torn, lost>> /\ yaml' = [key |-> Mine(t).key, rev |-> Mine(t).rev]
    BY <1>1, <1>15, AssembleEffect DEF StoreFrame
  <2>3. /\ Turns(t, "assemble", n) /\ Now(t) = "assemble" /\ th[t].op \in Writers /\ th'[t].op = th[t].op
        /\ Mine(t)' = Mine(t)
    BY <1>3, <2>1, <2>2 DEF Passes, Linked, Booting, Applying, Restarting, Starting, Writers, Mine
  <2>4. Alone => Mine(t) = store /\ store # NoStore
    BY <2>3, AloneFacts DEF Loaded
  <2>5. Alone => Agrees'
    BY <2>2, <2>4 DEF Agrees
  <2> QED  BY <1>1, <2>2, <2>3, <2>4, <2>5, AloneKeeps
<1>16. CASE Fetch(t)
  <2>1. UNCHANGED <<yaml, hostVars>> /\ \E n : Turns(t, "fetch", n) /\ n \in {"skeleton", "assemble", "end"} /\ (n = "end" => th'[t].failed)
    BY <1>1, <1>16, FetchEffect DEF Passes, Falls, Moves
  <2> QED  BY <1>1, <1>2, <2>1 DEF hostVars
<1>17. CASE Verify(t)
  <2>1. /\ UNCHANGED <<yaml, hostVars>>
        /\ \E n : Turns(t, "verify", n) /\ n \in {"assemble", "end"} /\ (th[t].op = "relaunch" => n = "assemble")
    BY <1>1, <1>17, VerifyEffect DEF Moves
  <2> QED  BY <1>1, <1>2, <2>1 DEF hostVars
<1>18. CASE Nudge(t)
  <2>1. UNCHANGED <<yaml, hostVars>> /\ Turns(t, "nudge", "end") /\ th[t].op = "verb"
    BY <1>1, <1>18, NudgeEffect DEF Moves
  <2> QED  BY <1>1, <1>2, <2>1 DEF hostVars
<1>19. CASE Look(t)
  <2>1. /\ UNCHANGED <<yaml, hostVars>> /\ th[t].op = "update"
        /\ \E n : Turns(t, "look", n) /\ n \in {"swap", "term", "sysstop"}
    BY <1>1, <1>19, LookEffect DEF Moves
  <2> QED  BY <1>1, <1>2, <2>1 DEF hostVars
<1>20. CASE Swap(t)
  <2>1. UNCHANGED <<yaml, hostVars>> /\ th[t].op \in {"update", "core"} /\ \E n : Turns(t, "swap", n) /\ n # "forget"
    BY <1>1, <1>20, SwapEffect DEF Passes, Moves, Linked, Booting, Applying, Restarting, Starting
  <2> QED  BY <1>1, <1>2, <2>1 DEF hostVars
<1>21. CASE Choose(t)
  <2>1. /\ UNCHANGED <<yaml, store, mem, torn, lost>> /\ misled' \in BOOLEAN /\ (misled => misled')
        /\ th[t].op = "uninstall" /\ \E n : Turns(t, "choose", n) /\ n \in {"term", "sysstop"}
    BY <1>1, <1>21, ChooseEffect
  <2> QED  BY <1>2, <2>1
<1>22. CASE Wipe(t)
  <2>1. Passes(t, "wipe", "forget") /\ yaml' = NoYaml /\ UNCHANGED <<misled, torn, lost>> /\ th[t].op = "uninstall"
    BY <1>1, <1>22, WipeEffect DEF hostVars
  <2>2. Turns(t, "wipe", "forget") /\ th'[t].op = "uninstall"
    BY <1>3, <2>1 DEF Passes
  <2>3. ~Loaded(t)' /\ Agrees' /\ "uninstall" \notin Appliers
    BY <2>1, <2>2 DEF Loaded, Agrees, Writers, Appliers
  <2> QED  BY <1>1, <2>1, <2>2, <2>3, AloneKeeps
<1>23. CASE Forget(t)
  <2>1. Passes(t, "forget", "strip") /\ UNCHANGED <<misled, torn, lost, yaml>> /\ th[t].op = "uninstall"
    BY <1>1, <1>23, ForgetEffect DEF StoreFrame
  <2>2. Turns(t, "forget", "strip") /\ th'[t].op = "uninstall" /\ Now(t) = "forget"
    BY <1>3, <2>1 DEF Passes
  <2>3. Alone => Agrees'
    BY <2>1, <2>2, AloneFacts DEF Agrees
  <2>4. ~Loaded(t)' /\ "uninstall" \notin Appliers
    BY <2>2 DEF Loaded, Writers, Appliers
  <2> QED  BY <1>1, <2>1, <2>2, <2>3, <2>4, AloneKeeps
<1>24. CASE Strip(t)
  <2>1. UNCHANGED <<yaml, hostVars>> /\ Turns(t, "strip", "end") /\ th[t].op = "uninstall"
    BY <1>1, <1>24, StripEffect DEF Passes, Moves
  <2> QED  BY <1>1, <1>2, <2>1 DEF hostVars
<1> QED  BY <1>5, <1>6, <1>7, <1>8, <1>9, <1>10, <1>11, <1>12, <1>13, <1>14, <1>15, <1>16, <1>17, <1>18, <1>19,
            <1>20, <1>21, <1>22, <1>23, <1>24, ReloadConfig DEF ProgramStep

\* Threads begin with nothing loaded and nothing written, and end after they have written
\* or else torn says so.
LEMMA TurnoverConfig ==
    ASSUME Config, UNCHANGED <<scope, store, yaml>>, lost \subseteq lost',
           misled => misled', misled \in BOOLEAN, misled' \in BOOLEAN,
           \A p \in Mihomo' : (p \in Mihomo /\ proc'[p].cfg = proc[p].cfg) \/ proc'[p].cfg = yaml,
           Alone /\ ~torn' /\ (\A u \in Thread : th'[u].op \notin Writers) => Agrees,
           \A u \in Thread :
             \/ th'[u] = th[u] /\ Mine(u)' = Mine(u)
             \/ th'[u].op \notin Writers /\ (th'[u].op # "uninstall" \/ Now(u)' # "forget")
             \/ th'[u].op # "change" /\ Now(u)' \in {"backup", "load"}
             \/ th'[u].op = "change" /\ Now(u)' = "save"
    PROVE  Config'
<1>1. Alone' = Alone /\ Agrees' = Agrees
  BY DEF Alone, Apart, Agrees
<1>2. \A u \in Thread : th'[u] = th[u] => Now(u)' = Now(u)
  BY DEF Now
<1>3. {"change", "launch", "relaunch"} \subseteq Writers
  BY DEF Writers
<1>4. Current'
  <2> SUFFICES ASSUME Alone, NEW u \in Thread, Loaded(u)' PROVE Mine(u)' = store' /\ store' # NoStore
    BY <1>1 DEF Current
  <2>1. th'[u] = th[u] /\ Mine(u)' = Mine(u) /\ Loaded(u)
    BY <1>2 DEF Loaded
  <2> QED  BY <2>1 DEF Config, Current
<1>5. Agreed'
  <2> SUFFICES ASSUME Alone PROVE Agreed'
    BY <1>1 DEF Agreed
  <2>1. ASSUME NEW u \in Thread, Wrote(u)' PROVE Agrees'
    <3>1. th'[u] = th[u] /\ Wrote(u)
      BY <1>2, <2>1 DEF Wrote, Unwritten
    <3> QED  BY <1>1, <3>1 DEF Config, Agreed
  <2>2. ASSUME NEW u \in Thread, th'[u].op = "uninstall", Now(u)' = "forget" PROVE yaml' = NoYaml
    <3>1. th'[u] = th[u] /\ Now(u)' = Now(u)
      BY <1>2, <2>2
    <3> QED  BY <2>2, <3>1 DEF Config, Agreed
  <2>3. ~torn' /\ (\A u \in Thread : th'[u].op \notin Writers) => Agrees'
    BY <1>1
  <2> QED  BY <2>1, <2>2, <2>3 DEF Agreed
<1>6. Written'
  <2> SUFFICES ASSUME Alone, NEW u \in Thread, th'[u].op \in Appliers, Now(u)' \notin Unwritten \union {"detect"}
               PROVE  yaml' = [key |-> Mine(u)'.key, rev |-> Mine(u)'.rev]
    BY <1>1 DEF Written
  <2>1. th'[u] = th[u] /\ Mine(u)' = Mine(u) /\ Now(u)' = Now(u)
    BY <1>2, <1>3 DEF Appliers, Unwritten
  <2> QED  BY <2>1 DEF Config, Written
<1>7. Ran'
  <2> SUFFICES ASSUME Alone, ~misled', lost' = {}, NEW u \in Thread, th'[u].op \in {"change", "relaunch"},
                      Now(u)' = "record" \/ (Now(u)' = "end" /\ ~th'[u].failed)
               PROVE  \A p \in Mihomo' : proc'[p].cfg = yaml'
    BY <1>1 DEF Ran
  <2>1. th'[u] = th[u] /\ Now(u)' = Now(u)
    BY <1>2, <1>3
  <2>2. \A p \in Mihomo : proc[p].cfg = yaml
    BY <2>1 DEF Config, Ran
  <2> QED  BY <2>2
<1> QED  BY <1>4, <1>5, <1>6, <1>7 DEF Config

\* Threads come to their end, each with the memory of its process, or are killed: then
\* torn says so, until a writer has come to its end.
LEMMA StopConfig ==
    ASSUME Base, Config, NEW ts, ts \subseteq Thread,
           \A u \in Thread : th'[u] = IF u \in ts THEN Idle ELSE th[u],
           \A u \in Thread : u \notin ts => Mine(u)' = Mine(u),
           UNCHANGED <<scope, store, yaml, misled>>, lost \subseteq lost', Mihomo' = Mihomo,
           \A p \in Mihomo : proc'[p].cfg = proc[p].cfg,
           ~torn' => (\A u \in ts : th[u].todo = <<>>) /\ (~torn \/ \E u \in ts : th[u].op \in Writers)
    PROVE  Config'
<1>1. misled \in BOOLEAN
  BY SaneFacts DEF Base
<1>2. \A u \in Thread : u \in ts => th'[u].op = "none"
  BY IdleFacts
<1>3. "none" \notin Writers /\ "end" \notin Unwritten
  BY DEF Writers, Unwritten
<1>4. Alone /\ ~torn' /\ (\A u \in Thread : th'[u].op \notin Writers) => Agrees
  <2> SUFFICES ASSUME Alone, ~torn', \A u \in Thread : th'[u].op \notin Writers PROVE Agrees
    OBVIOUS
  <2>1. ASSUME NEW u \in ts, th[u].op \in Writers PROVE Agrees
    <3>1. Now(u) = "end"
      BY DEF Now, First
    <3>2. Wrote(u)
      BY <1>3, <2>1, <3>1 DEF Wrote
    <3> QED  BY <3>2 DEF Config, Agreed
  <2>2. CASE \A u \in ts : th[u].op \notin Writers
    <3>1. \A u \in Thread : th[u].op \notin Writers
      BY <2>2
    <3> QED  BY <2>2, <3>1 DEF Config, Agreed
  <2> QED  BY <2>1, <2>2
<1>5. \A u \in Thread : \/ th'[u] = th[u] /\ Mine(u)' = Mine(u)
                        \/ th'[u].op \notin Writers /\ (th'[u].op # "uninstall" \/ Now(u)' # "forget")
  BY <1>2, <1>3
<1> QED  BY <1>1, <1>4, <1>5, TurnoverConfig

\* systemd starts mihomo with the config.yaml there is.
LEMMA SystemConfig ==
    ASSUME Base, Config, System
    PROVE  Config'
<1>1. UNCHANGED <<scope, store, mem, misled, lost, torn>> /\ misled \in BOOLEAN /\ Sane /\ Unit
  BY SaneFacts DEF System, hostVars, Base
<1>2. UNCHANGED <<th, yaml>> /\ \A p \in Mihomo' : (p \in Mihomo /\ proc'[p].cfg = proc[p].cfg) \/ proc'[p].cfg = yaml
  <2>1. CASE Respawn
    <3>1. UNCHANGED <<th, yaml>> /\ unit = "failed" /\ SysRan(Mihomo)
      BY <1>1, <2>1, RespawnEffect DEF ManagerFrame
    <3>2. Mode = "systemd"
      BY <1>1, <3>1, SaneFacts DEF Unit
    <3> QED  BY <3>1, <3>2, RanFacts
  <2>2. ASSUME NEW p \in Pid, Crash(p)
        PROVE  /\ UNCHANGED <<th, yaml>>
               /\ \A q \in Mihomo' : (q \in Mihomo /\ proc'[q].cfg = proc[q].cfg) \/ proc'[q].cfg = yaml
    BY <1>1, <2>2, CrashEffect DEF Fewer
  <2> QED  BY <2>1, <2>2 DEF System
<1>3. \A u \in Thread : th'[u] = th[u] /\ Mine(u)' = Mine(u)
  BY <1>1, <1>2 DEF Mine
<1>4. Alone /\ ~torn' /\ (\A u \in Thread : th'[u].op \notin Writers) => Agrees
  BY <1>1, <1>3 DEF Config, Agreed
<1> QED  BY <1>1, <1>2, <1>3, <1>4, TurnoverConfig

\* An operation that is alone keeps the configuration in agreement, and one that is
\* killed leaves it to the next writer.
LEMMA ConfigInductive ==
    /\ Init => Config
    /\ Grounded /\ Config /\ [Next]_vars => Config'
<1>1. ASSUME Init PROVE Config
  <2>1. /\ \A t \in Thread : th[t].op = "none"
        /\ store = NoStore /\ yaml = NoYaml
    BY <1>1, IdleFacts DEF Init
  <2>2. "none" \notin Writers
    BY DEF Writers
  <2> QED  BY <2>1, <2>2 DEF Config, Current, Agreed, Written, Ran, Loaded, Wrote, Agrees, Appliers
<1>2. ASSUME Grounded, Config, [Next]_vars PROVE Config'
  <2>0. Base /\ Sane /\ misled \in BOOLEAN
    BY <1>2, SaneFacts DEF Grounded, Base
  <2>1. CASE UNCHANGED vars
    <3>1. UNCHANGED <<scope, proc, yaml, store, mem, th, misled, lost, torn>>
      BY <2>1 DEF vars, sysVars, hostVars
    <3>2. \A p \in Mihomo' : p \in Mihomo /\ proc'[p].cfg = proc[p].cfg
      BY <3>1 DEF Mihomo
    <3>3. \A u \in Thread : th'[u] = th[u] /\ Mine(u)' = Mine(u)
      BY <3>1 DEF Mine
    <3>4. Alone /\ ~torn' /\ (\A u \in Thread : th'[u].op \notin Writers) => Agrees
      BY <1>2, <3>1 DEF Config, Agreed
    <3> QED  BY <1>2, <2>0, <3>1, <3>2, <3>3, <3>4, TurnoverConfig
  <2>2. ASSUME NEW t \in Thread, Steps(t) PROVE Config'
    <3>1. CASE ManagerStep(t) /\ UNCHANGED hostVars /\ UNCHANGED <<scope, ops>>
      BY <1>2, <2>0, <3>1, PidConfig, SysConfig DEF ManagerStep
    <3>2. CASE ProgramStep(t) /\ UNCHANGED <<scope, ops>>
      BY <1>2, <2>0, <3>2, FilesConfig
    <3>3. CASE t \in Cli /\ Exit(t)
      <4> DEFINE ts == {t}
      <4>1. /\ EndProcess(t, ts) /\ UNCHANGED <<pidFile, lost, tui, used>> /\ Mended(t) /\ t \in Cli /\ ts = {t}
            /\ th[t].todo = <<>>
        BY <3>3 DEF Exit
      <4> HIDE DEF ts
      <4>2. /\ tui' \in {"off", "launching", "on"} /\ used' \subseteq {"core", "service"} /\ torn' \in BOOLEAN
            /\ pidFile' \in Pid \union {NoPid} /\ lost' \subseteq Pid \union {NoPid}
        BY <2>0, <4>1 DEF Sane, TypeOK, Mended
      <4>3. /\ UNCHANGED <<scope, yaml, store, misled>> /\ Mihomo' = Mihomo
            /\ \A p \in Mihomo : proc'[p].cfg = proc[p].cfg
            /\ \A u \in Thread : th'[u] = IF u \in ts THEN Idle ELSE th[u]
            /\ t \in Process /\ mem' = [mem EXCEPT ![t] = NoStore]
        BY <2>0, <4>1, <4>2, EndEffect
      <4>4. \A u \in Thread : u \notin ts => Mine(u)' = Mine(u)
        <5>1. \A u \in Thread : u \notin ts => Home(u) # t /\ Home(u) \in Process
          BY <2>0, <4>1, SaneFacts, Names DEF Home
        <5>2. mem \in [Process -> Stores]
          BY <2>0, SaneFacts
        <5> QED  BY <4>3, <5>1, <5>2 DEF Mine
      <4>5. ~torn' => (\A u \in ts : th[u].todo = <<>>) /\ (~torn \/ \E u \in ts : th[u].op \in Writers)
        BY <2>0, <4>1 DEF Mended, Sane, TypeOK
      <4> QED  BY <1>2, <2>0, <4>1, <4>3, <4>4, <4>5, StopConfig
    <3>4. CASE t \in Session /\ Return(t)
      <4> DEFINE ts == {t}
      <4>1. /\ UNCHANGED <<scope, sysVars, yaml, store, mem, misled, lost>>
            /\ \A u \in Thread : th'[u] = IF u \in ts THEN Idle ELSE th[u]
        BY <2>0, <3>4, ReturnEffect
      <4>2. Mended(t) /\ th[t].todo = <<>> /\ ts = {t} /\ ts \subseteq Thread
        BY <3>4 DEF Return
      <4> HIDE DEF ts
      <4>3. /\ UNCHANGED <<scope, yaml, store, misled>> /\ Mihomo' = Mihomo
            /\ \A p \in Mihomo : proc'[p].cfg = proc[p].cfg
        BY <4>1 DEF sysVars, Mihomo
      <4>4. \A u \in Thread : Mine(u)' = Mine(u)
        BY <4>1 DEF Mine
      <4>5. ~torn' => (\A u \in ts : th[u].todo = <<>>) /\ (~torn \/ \E u \in ts : th[u].op \in Writers)
        BY <2>0, <4>2 DEF Mended, Sane, TypeOK
      <4> QED  BY <1>2, <2>0, <4>1, <4>2, <4>3, <4>4, <4>5, StopConfig
    <3> QED  BY <2>2, <3>1, <3>2, <3>3, <3>4 DEF Steps
  <2>3. CASE System
    BY <1>2, <2>0, <2>3, SystemConfig
  <2>4. CASE User
    <3>1. ASSUME NEW t \in Thread, NEW op, Begin(t, op),
                 UNCHANGED <<scope, sysVars, yaml, store, mem, misled, lost, torn>>
          PROVE  Config'
      <4>1. \A p \in Mihomo' : p \in Mihomo /\ proc'[p].cfg = proc[p].cfg
        BY <3>1 DEF sysVars, Mihomo
      <4>2. /\ op \in Commands /\ ~Busy(t) /\ th'[t].op = op /\ Now(t)' = FirstStep(op)
            /\ \A u \in Thread : u # t => th'[u] = th[u]
        BY <2>0, <3>1, BeginEffect DEF Others, Now
      <4>3. Mode \in {"pid", "systemd"} /\ th[t].op = "none" /\ "none" \notin Writers
        BY <2>0, <4>2, SaneFacts DEF Busy, Writers
      <4>4. \/ th'[t].op \notin Writers /\ (th'[t].op # "uninstall" \/ Now(t)' # "forget")
            \/ th'[t].op # "change" /\ Now(t)' \in {"backup", "load"}
            \/ th'[t].op = "change" /\ Now(t)' = "save"
        BY <4>2, <4>3, FirstSteps
      <4>5. \A u \in Thread : u # t => th'[u] = th[u] /\ Mine(u)' = Mine(u)
        BY <3>1, <4>2 DEF Mine
      <4>6. Alone /\ ~torn' /\ (\A u \in Thread : th'[u].op \notin Writers) => Agrees
        BY <1>2, <3>1, <4>3, <4>5 DEF Config, Agreed
      <4> QED  BY <1>2, <2>0, <3>1, <4>1, <4>4, <4>5, <4>6, TurnoverConfig
    <3>2. \A t \in Cli : t \in Thread
      BY DEF Thread
    <3>3. "boot" \in Thread /\ "work" \in Thread /\ "tab" \in Thread
      BY DEF Thread, Session
    <3>4. ASSUME NEW t \in Cli, NEW op, RunCli(t, op) PROVE Config'
      BY <3>1, <3>2, <3>4 DEF RunCli
    <3>5. ASSUME NEW op, UsePage(op) PROVE Config'
      BY <3>1, <3>3, <3>5 DEF UsePage
    <3>6. CASE Launch
      BY <3>1, <3>3, <3>6 DEF Launch
    <3>7. CASE ChangeInTui
      BY <3>1, <3>3, <3>7 DEF ChangeInTui
    <3>8. ASSUME NEW h, NEW ts, Killed(h, ts),
                 tui' \in {"off", "launching", "on"}, used' \subseteq {"core", "service"},
                 (h \in Cli /\ ts = {h}) \/ (h = "tui" /\ ts = Session)
          PROVE  Config'
      <4>1. /\ UNCHANGED <<scope, yaml, store, misled>> /\ Mihomo' = Mihomo /\ lost \subseteq lost' /\ ts \subseteq Thread
            /\ \A p \in Mihomo : proc'[p].cfg = proc[p].cfg
            /\ \A u \in Thread : th'[u] = IF u \in ts THEN Idle ELSE th[u]
            /\ h \in Process /\ mem' = [mem EXCEPT ![h] = NoStore]
            /\ torn' = (torn \/ \E u \in ts : th[u].todo # <<>>)
        BY <2>0, <3>8, KilledEffect
      <4>2. \A u \in Thread : u \notin ts => Mine(u)' = Mine(u)
        <5>1. \A u \in Thread : u \notin ts => Home(u) # h /\ Home(u) \in Process
          <6>1. scope \in Scopes /\ \A u \in Thread : Home(u) \in Process
            BY <2>0, SaneFacts
          <6>2. CASE h \in Cli /\ ts = {h}
            BY <6>1, <6>2, Names DEF Home
          <6>3. CASE h = "tui" /\ ts = Session
            BY <6>1, <6>3, Names DEF Home
          <6> QED  BY <3>8, <6>1, <6>2, <6>3
        <5>2. mem \in [Process -> Stores]
          BY <2>0, SaneFacts
        <5> QED  BY <4>1, <5>1, <5>2 DEF Mine
      <4>3. torn \in BOOLEAN
        BY <2>0 DEF Sane, TypeOK
      <4>4. ~torn' => (\A u \in ts : th[u].todo = <<>>) /\ (~torn \/ \E u \in ts : th[u].op \in Writers)
        BY <4>1, <4>3
      <4> QED  BY <1>2, <2>0, <4>1, <4>2, <4>4, StopConfig
    <3>9. ASSUME NEW t \in Cli, Interrupt(t) PROVE Config'
      <4>1. Killed(t, {t}) /\ UNCHANGED <<tui, used>>
        BY <3>9 DEF Interrupt
      <4>2. tui' \in {"off", "launching", "on"} /\ used' \subseteq {"core", "service"}
        BY <2>0, <4>1 DEF Sane, TypeOK
      <4> QED  BY <3>8, <4>1, <4>2
    <3>10. CASE Quit
      <4>1. Killed("tui", Session) /\ tui' \in {"off", "launching", "on"} /\ used' \subseteq {"core", "service"}
        BY <3>10 DEF Quit
      <4> QED  BY <3>8, <4>1
    <3> QED  BY <2>4, <3>4, <3>5, <3>6, <3>7, <3>9, <3>10 DEF User
  <2> QED  BY <1>2, <2>1, <2>2, <2>3, <2>4 DEF Next
<1> QED  BY <1>1, <1>2

\* Where operations wait for each other, config.yaml has the credentials of config.toml
\* whenever nothing is under way, also after a launch has changed the ports, and after a
\* program killed at any step once a program that writes config.yaml has come to its end;
\* and after a change reported as applied, or a launch that has found other credentials in
\* config.yaml, every mihomo runs with the credentials and the content of config.yaml,
\* unless there is one that a misled uninstall or a killed start has left.
THEOREM ConfigStaysAgreed == Spec => []ConfigAgrees
<1>1. Config => ConfigAgrees
  <2> SUFFICES ASSUME Config PROVE ConfigAgrees
    OBVIOUS
  <2>1. \A t \in Thread : \A op : Ended(t, op) => th[t].op = op /\ Now(t) = "end" /\ ~th[t].failed
    BY DEF Ended, Now, First
  <2>2. AppliedRuns
    BY <2>1 DEF Config, Ran, AppliedRuns
  <2>3. CredentialsAgree
    <3>1. "none" \notin Writers
      BY DEF Writers
    <3> QED  BY <3>1 DEF Config, Agreed, Agrees, CredentialsAgree, Quiet, Busy
  <2> QED  BY <2>2, <2>3 DEF ConfigAgrees
<1> QED  BY <1>1, BaseInductive, ConfigInductive, PTL DEF Spec
=============================================================================
