------------------------------ MODULE StoreLock ------------------------------
(***************************************************************************)
(* vpnkit processes that overlap, and the flock on config.toml.lock.       *)
(*                                                                         *)
(* A mutating verb takes the lock, loads config.toml into memory, changes  *)
(* and saves the copy, reassembles config.yaml, loads config.toml once     *)
(* more (applyMutation) and releases the lock.  Each load saves too when   *)
(* it finds something to repair.  A read verb, a mutating verb written     *)
(* with a leading --json, and a terminal-UI session do the same without    *)
(* the lock; the session keeps its copy for as long as it runs.            *)
(*                                                                         *)
(* config.toml is abstracted to the set of mutations whose effect it holds *)
(* and whether Load would repair it.  Save replaces the file atomically    *)
(* (tmp + rename), so a read or a write of the file is one step.           *)
(***************************************************************************)
EXTENDS Naturals

CONSTANTS
    Lockers,        \* mutating verbs under withStoreLock
    Uninstallers,   \* `vpnkit uninstall', also under withStoreLock
    Bypassers,      \* `active --json X' and its like: lockIfMutating runs them bare
    Readers,        \* list, status, show forms
    Sessions,       \* terminal-UI sessions
    Inode,          \* lock files that may ever be created (bound)
    FirstFiles,     \* config.toml at the start: a subset of {Absent, Sound}
    NoFile,         \* no lock file
    NoOwner,        \* the owner of a free lock
    MaxEdits,       \* mutations one session makes (bound)
    MaxStale        \* mutations that leave config.toml to be repaired (bound)

Unlocked == Bypassers \union Readers \union Sessions
Locked   == Lockers \union Uninstallers
Process  == Locked \union Unlocked

ASSUME ProcessesApart ==
    /\ Lockers \intersect Uninstallers = {} /\ Locked \intersect Unlocked = {}
    /\ Bypassers \intersect Readers = {} /\ Sessions \intersect (Bypassers \union Readers) = {}
    /\ NoOwner \notin Process
ASSUME NoFileApart == NoFile \notin Inode
ASSUME BoundsNatural == MaxEdits \in Nat \ {0} /\ MaxStale \in Nat

Update == Process \X (1 .. MaxEdits)    \* <<p, k>> is the k-th mutation of p
File   == [made : SUBSET Update, stale : BOOLEAN]
Absent == [made |-> {}, stale |-> TRUE]     \* Load writes the defaults
Sound  == [made |-> {}, stale |-> FALSE]    \* nothing for Load to repair
ASSUME FirstFilesOK == FirstFiles \subseteq {Absent, Sound}

VARIABLES
    file,       \* config.toml
    path,       \* the lock file that config.toml.lock names now
    used,       \* the lock files created so far
    fd,         \* the lock file each process has open
    owner,      \* owner[i] holds the flock on lock file i
    pc, mem,    \* each process's place and copy of the configuration
    edits,      \* mutations each process made
    committed,  \* saved mutations no uninstall removed (history)
    stales      \* mutations so far that left something to repair (bound)

vars == <<file, path, used, fd, owner, pc, mem, edits, committed, stales>>
lockVars == <<path, used, fd, owner>>

Critical == {"load", "repair", "ready", "saved", "reload", "exit"}
PCs == Critical \union {"start", "opened", "done", "dead"}

Init ==
    /\ file \in FirstFiles
    /\ path = NoFile /\ used = {}
    /\ fd = [p \in Process |-> NoFile] /\ owner = [i \in Inode |-> NoOwner]
    /\ pc = [p \in Process |-> "start"] /\ mem = [p \in Process |-> Absent]
    /\ edits = [p \in Process |-> 0]
    /\ committed = {} /\ stales = 0

Go(p, from, to) == pc[p] = from /\ pc' = [pc EXCEPT ![p] = to]

Holds(p) == fd[p] # NoFile /\ owner[fd[p]] = p
\* Fault: the lock outlives its holder.
UnlockNever(p) == owner

Unlock(p) == IF Holds(p) THEN [owner EXCEPT ![fd[p]] = NoOwner] ELSE owner

-----------------------------------------------------------------------------
(* AcquireLock: OpenFile(O_CREATE), then a blocking flock.                 *)

\* Fault: OpenFile without O_CREATE, its error ignored.
OpenExisting(p) ==
    /\ p \in Locked /\ Go(p, "start", "opened")
    /\ fd' = [fd EXCEPT ![p] = path]
    /\ UNCHANGED <<file, path, used, owner, mem, edits, committed, stales>>

Open(p) ==
    /\ p \in Locked /\ Go(p, "start", "opened")
    /\ IF path # NoFile THEN UNCHANGED <<path, used>>
       ELSE \E i \in Inode \ used : path' = i /\ used' = used \union {i}
    /\ fd' = [fd EXCEPT ![p] = path']
    /\ UNCHANGED <<file, owner, mem, edits, committed, stales>>

\* Fault: does not wait for the holder.
FlockAtOnce(p) ==
    /\ Go(p, "opened", "load")
    /\ owner' = [owner EXCEPT ![fd[p]] = p]
    /\ UNCHANGED <<file, path, used, fd, mem, edits, committed, stales>>

Flock(p) ==
    /\ Go(p, "opened", "load")
    /\ owner[fd[p]] = NoOwner /\ owner' = [owner EXCEPT ![fd[p]] = p]
    /\ UNCHANGED <<file, path, used, fd, mem, edits, committed, stales>>

Enter(p) ==
    /\ p \in Unlocked /\ Go(p, "start", "load")
    /\ UNCHANGED <<file, lockVars, mem, edits, committed, stales>>

(* store.Load reads the file; if there is something to repair, it saves    *)
(* its repaired copy.                                                      *)
Read(p) ==
    /\ Go(p, "load", IF file.stale THEN "repair" ELSE "ready")
    /\ mem' = [mem EXCEPT ![p] = [file EXCEPT !.stale = FALSE]]
    /\ UNCHANGED <<file, lockVars, edits, committed, stales>>

Repair(p) ==
    /\ Go(p, "repair", "ready")
    /\ file' = mem[p]
    /\ UNCHANGED <<lockVars, mem, edits, committed, stales>>

\* The verb's own change, saved.
Mutate(p) ==
    /\ p \in Lockers \union Bypassers \union Sessions
    /\ edits[p] < MaxEdits
    /\ Go(p, "ready", IF p \in Sessions THEN "ready" ELSE "saved")
    /\ \E stale \in BOOLEAN :
         /\ stale => stales < MaxStale
         /\ stales' = IF stale THEN stales + 1 ELSE stales
         /\ file' = [made |-> mem[p].made \union {<<p, edits[p] + 1>>}, stale |-> stale]
    /\ mem' = [mem EXCEPT ![p] = file'] /\ edits' = [edits EXCEPT ![p] = @ + 1]
    /\ committed' = committed \union {<<p, edits[p] + 1>>}
    /\ UNCHANGED lockVars

\* applyMutation, after Assemble: loadClient.
Reread(p) ==
    /\ Go(p, "saved", IF file.stale THEN "reload" ELSE "exit")
    /\ mem' = [mem EXCEPT ![p] = [file EXCEPT !.stale = FALSE]]
    /\ UNCHANGED <<file, lockVars, edits, committed, stales>>

Rerepair(p) ==
    /\ Go(p, "reload", "exit")
    /\ file' = mem[p]
    /\ UNCHANGED <<lockVars, mem, edits, committed, stales>>

\* runUninstall removes the configuration directory, lock file included.
Wipe(p) ==
    /\ p \in Uninstallers /\ Go(p, "ready", "exit")
    /\ file' = Absent /\ path' = NoFile /\ committed' = {}
    /\ UNCHANGED <<used, fd, owner, mem, edits, stales>>

\* The end of a verb, or its early end: a read that is over, a refusal.
Finish(p) ==
    /\ Go(p, "exit", "done") \/ Go(p, "ready", "done")
    /\ owner' = Unlock(p) /\ fd' = [fd EXCEPT ![p] = NoFile]
    /\ UNCHANGED <<file, path, used, mem, edits, committed, stales>>

\* A process that dies loses its file descriptors and with them the lock.
Crash(p) ==
    /\ pc[p] \notin {"start", "done", "dead"} /\ pc' = [pc EXCEPT ![p] = "dead"]
    /\ owner' = Unlock(p) /\ fd' = [fd EXCEPT ![p] = NoFile]
    /\ UNCHANGED <<file, path, used, mem, edits, committed, stales>>

Progress(p) == Open(p) \/ Flock(p) \/ Enter(p) \/ Read(p) \/ Repair(p) \/ Mutate(p)
                \/ Reread(p) \/ Rerepair(p) \/ Wipe(p) \/ Finish(p)
Over == \A p \in Process : pc[p] \in {"done", "dead"}

Next == \/ \E p \in Process : Progress(p) \/ Crash(p)
        \/ Over /\ UNCHANGED vars

Spec == Init /\ [][Next]_vars

(* The operating system runs every process that can run; nothing promises  *)
(* that a process crashes.  A blocked flock is granted to some waiter when *)
(* it is free, and each process takes it once.                             *)
FairSpec == Spec /\ \A p \in Process : WF_vars(Progress(p))

-----------------------------------------------------------------------------
(* Every variable has its type, and a verb past AcquireLock's open has the *)
(* lock file open.                                                         *)
TypeOK ==
    /\ file \in File
    /\ used \subseteq Inode /\ path \in used \union {NoFile}
    /\ fd \in [Process -> Inode \union {NoFile}]
    /\ owner \in [Inode -> Process \union {NoOwner}]
    /\ pc \in [Process -> PCs] /\ mem \in [Process -> File]
    /\ edits \in [Process -> 0 .. MaxEdits]
    /\ committed \in SUBSET Update /\ stales \in 0 .. MaxStale
    /\ \A p \in Locked : pc[p] \in {"opened"} \union Critical => fd[p] \in used

(* No two verbs that take the lock are between its acquisition and its     *)
(* release at once (Lock's comment, store/lock.go).                        *)
MutualExclusion == \A p, q \in Locked :
    pc[p] \in Critical /\ pc[q] \in Critical => p = q

(* A mutation that was saved is still in config.toml: no read-modify-write *)
(* of another process undid it (Lock's comment, store/lock.go).            *)
NoLostUpdate == committed \subseteq file.made

(* A verb that waits for the lock gets its turn, crashes of holders        *)
(* included, for the lock dies with its holder.                            *)
VerbsEnd == \A p \in Locked : pc[p] = "opened" ~> pc[p] \in {"done", "dead"}

Atomic == INSTANCE AtomicStore WITH made <- file.made, MayWipe <- Uninstallers # {}
(* Verbs that all take the lock implement the one-cell store.              *)
ImplementsAtomicStore == Atomic!Spec
=============================================================================
