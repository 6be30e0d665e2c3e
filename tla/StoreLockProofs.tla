--------------------------- MODULE StoreLockProofs ---------------------------
(***************************************************************************)
(* What the flock on config.toml.lock guarantees, for any number of        *)
(* processes: that verbs exclude each other as long as nobody uninstalls,  *)
(* that verbs and harmless reads lose no mutation, and that verbs alone    *)
(* implement the one-cell store of AtomicStore.tla.                        *)
(***************************************************************************)
EXTENDS StoreLock, TLAPS

USE ProcessesApart, NoFileApart, BoundsNatural, FirstFilesOK
    DEF ProcessesApart, NoFileApart, BoundsNatural, FirstFilesOK, Locked, Unlocked, Process

\* Type correctness: store.Config, the lock file and the bounds (StoreLock.tla).
THEOREM TypeCorrect == Spec => []TypeOK
<1>1. ASSUME Init PROVE TypeOK
  <2>1. Absent \in File /\ Sound \in File
    BY DEF File, Absent, Sound
  <2>2. file \in File /\ mem \in [Process -> File]
    BY <1>1, <2>1 DEF Init
  <2>3. pc \in [Process -> PCs] /\ \A p \in Locked : pc[p] \notin {"opened"} \union Critical
    BY <1>1 DEF Init, PCs, Critical
  <2>4. edits \in [Process -> 0 .. MaxEdits] /\ stales \in 0 .. MaxStale
    BY <1>1 DEF Init
  <2> QED
    BY <1>1, <2>2, <2>3, <2>4 DEF Init, TypeOK
<1>2. TypeOK /\ [Next]_vars => TypeOK'
  <2> SUFFICES ASSUME TypeOK, [Next]_vars PROVE TypeOK'
    OBVIOUS
  <2> USE DEF TypeOK, Go
  <2>1. ASSUME NEW p \in Process, Open(p) PROVE TypeOK'
    <3>1. path' \in used' /\ used' \subseteq Inode /\ used \subseteq used'
      BY <2>1 DEF Open
    <3> QED
      BY <2>1, <3>1 DEF Open, PCs, Critical
  <2>2. ASSUME NEW p \in Process, Flock(p) PROVE TypeOK'
    BY <2>2 DEF Flock, PCs, Critical
  <2>3. ASSUME NEW p \in Process, Enter(p) PROVE TypeOK'
    BY <2>3 DEF Enter, PCs, Critical, lockVars
  <2>4. ASSUME NEW p \in Process, Read(p) PROVE TypeOK'
    BY <2>4 DEF Read, PCs, Critical, lockVars, File
  <2>5. ASSUME NEW p \in Process, Repair(p) PROVE TypeOK'
    BY <2>5 DEF Repair, PCs, Critical, lockVars
  <2>6. ASSUME NEW p \in Process, Mutate(p) PROVE TypeOK'
    <3>1. file' \in File /\ edits[p] + 1 \in 0 .. MaxEdits
          /\ <<p, edits[p] + 1>> \in Update /\ stales' \in 0 .. MaxStale
      BY <2>6 DEF Mutate, File, Update
    <3> QED
      BY <2>6, <3>1 DEF Mutate, PCs, Critical, lockVars
  <2>7. ASSUME NEW p \in Process, Reread(p) PROVE TypeOK'
    BY <2>7 DEF Reread, PCs, Critical, lockVars, File
  <2>8. ASSUME NEW p \in Process, Rerepair(p) PROVE TypeOK'
    BY <2>8 DEF Rerepair, PCs, Critical, lockVars
  <2>9. ASSUME NEW p \in Process, Wipe(p) PROVE TypeOK'
    BY <2>9 DEF Wipe, PCs, Critical, File, Absent
  <2>10. ASSUME NEW p \in Process, Finish(p) PROVE TypeOK'
    BY <2>10 DEF Finish, PCs, Critical, Unlock
  <2>11. ASSUME NEW p \in Process, Crash(p) PROVE TypeOK'
    BY <2>11 DEF Crash, PCs, Critical, Unlock
  <2>12. CASE UNCHANGED vars
    BY <2>12 DEF vars
  <2> QED
    BY <2>1, <2>2, <2>3, <2>4, <2>5, <2>6, <2>7, <2>8, <2>9, <2>10, <2>11, <2>12
       DEF Next, Progress
<1> QED
  BY <1>1, <1>2, PTL DEF Spec

-----------------------------------------------------------------------------
(* Mutual exclusion.  Without an uninstall every open file is the one the  *)
(* path names, and a verb in its critical section owns that file's lock.   *)

LockInv ==
    /\ \A p \in Process : fd[p] \in {NoFile, path} /\ (pc[p] = "opened" => p \in Locked)
    /\ \A p \in Locked : pc[p] \in Critical => owner[path] = p

\* Every step keeps LockInv, nobody uninstalling.
LEMMA LockInvInductive ==
    ASSUME Uninstallers = {}, TypeOK, LockInv, [Next]_vars
    PROVE  LockInv'
<1> USE DEF TypeOK, LockInv, Go
<1>1. ASSUME NEW p \in Process, Open(p) PROVE LockInv'
  <2>1. path' # NoFile /\ (path # NoFile => path' = path)
    BY <1>1 DEF Open
  <2>2. \A q \in Locked : pc[q] \in Critical => path \in used
    OBVIOUS
  <2> QED
    BY <1>1, <2>1, <2>2 DEF Open, Critical
<1>2. ASSUME NEW p \in Process, Flock(p) PROVE LockInv'
  <2>1. pc[p] = "opened" /\ p \in Locked
    BY <1>2 DEF Flock
  <2>2. fd[p] = path /\ path \in Inode
    BY <2>1
  <2>3. owner[path] = NoOwner /\ owner' = [owner EXCEPT ![path] = p]
    BY <1>2, <2>2 DEF Flock
  <2>4. \A q \in Locked : pc[q] \notin Critical
    BY <2>3
  <2> QED
    BY <1>2, <2>1, <2>2, <2>3, <2>4 DEF Flock, Critical
<1>3. ASSUME NEW p \in Process, Enter(p) PROVE LockInv'
  BY <1>3 DEF Enter, Critical, lockVars
<1>4. ASSUME NEW p \in Process, Read(p) PROVE LockInv'
  BY <1>4 DEF Read, Critical, lockVars
<1>5. ASSUME NEW p \in Process, Repair(p) PROVE LockInv'
  BY <1>5 DEF Repair, Critical, lockVars
<1>6. ASSUME NEW p \in Process, Mutate(p) PROVE LockInv'
  BY <1>6 DEF Mutate, Critical, lockVars
<1>7. ASSUME NEW p \in Process, Reread(p) PROVE LockInv'
  BY <1>7 DEF Reread, Critical, lockVars
<1>8. ASSUME NEW p \in Process, Rerepair(p) PROVE LockInv'
  BY <1>8 DEF Rerepair, Critical, lockVars
<1>9. ASSUME NEW p \in Process, Wipe(p) PROVE LockInv'
  BY <1>9 DEF Wipe
<1>10. ASSUME NEW p \in Process, Finish(p) \/ Crash(p) PROVE LockInv'
  <2>1. pc'[p] \notin Critical /\ \A q \in Process \ {p} : pc'[q] = pc[q]
    BY <1>10 DEF Finish, Crash, Critical
  <2>2. \A q \in Locked \ {p} : pc[q] \in Critical => owner'[path] = q
    BY <1>10 DEF Finish, Crash, Unlock, Holds
  <2> QED
    BY <1>10, <2>1, <2>2 DEF Finish, Crash
<1>11. CASE UNCHANGED vars
  BY <1>11 DEF vars
<1> QED
  BY <1>1, <1>2, <1>3, <1>4, <1>5, <1>6, <1>7, <1>8, <1>9, <1>10, <1>11 DEF Next, Progress

\* Two verbs that take the lock are never between its acquisition and its
\* release at once, crashes included, as long as nobody runs `uninstall'.
THEOREM VerbsExclude == ASSUME Uninstallers = {} PROVE Spec => []MutualExclusion
<1>1. Init => LockInv
  BY DEF Init, LockInv, Critical
<1>2. TypeOK /\ LockInv /\ [Next]_vars => LockInv'
  BY LockInvInductive
<1>3. LockInv => MutualExclusion
  BY DEF LockInv, MutualExclusion
<1> QED
  BY <1>1, <1>2, <1>3, TypeCorrect, PTL DEF Spec

-----------------------------------------------------------------------------
(* No lost update.  Reads are harmless when no load finds anything to      *)
(* repair; under the lock, the copy a verb may still save is the file.     *)

HarmlessReads ==
    /\ Uninstallers = {} /\ Bypassers = {} /\ Sessions = {}
    /\ Readers # {} => FirstFiles \subseteq {Sound} /\ MaxStale = 0

CopyInv ==
    /\ \A p \in Lockers : pc[p] \in {"repair", "ready", "reload"} => mem[p].made = file.made
    /\ \A p \in Readers : pc[p] \notin {"repair", "saved", "reload"}
    /\ Readers # {} => ~file.stale /\ \A p \in Process : pc[p] \notin {"repair", "reload"}
    /\ committed \subseteq file.made

\* Every step keeps CopyInv, of harmless readers.
LEMMA CopyInvInductive ==
    ASSUME HarmlessReads, TypeOK, LockInv, CopyInv, [Next]_vars
    PROVE  CopyInv' /\ file.made \subseteq file'.made
                    /\ [Atomic!Mutate]_(file.made)
<1> USE DEF TypeOK, CopyInv, HarmlessReads, Go
<1>a. \A p, q \in Lockers : pc[p] \in Critical /\ pc[q] \in Critical => p = q
  BY DEF LockInv
<1>1. ASSUME NEW p \in Process, Open(p) \/ Flock(p) \/ Enter(p) \/ Finish(p) \/ Crash(p)
      PROVE  CopyInv' /\ file' = file
  BY <1>1 DEF Open, Flock, Enter, Finish, Crash, lockVars
<1>2. ASSUME NEW p \in Process, Read(p) \/ Reread(p) PROVE CopyInv' /\ file' = file
  BY <1>2 DEF Read, Reread, lockVars, File
<1>3. ASSUME NEW p \in Process, Repair(p) \/ Rerepair(p) PROVE CopyInv' /\ file'.made = file.made
  <2>1. p \in Lockers /\ file' = mem[p] /\ mem[p].made = file.made
    BY <1>3 DEF Repair, Rerepair
  <2>2. \A q \in Lockers : pc'[q] \in {"repair", "ready", "reload"} => mem'[q].made = file'.made
    BY <1>3, <1>a, <2>1 DEF Repair, Rerepair, Critical
  <2>3. Readers = {}
    BY <1>3 DEF Repair, Rerepair
  <2> QED
    BY <1>3, <2>1, <2>2, <2>3 DEF Repair, Rerepair, File
<1>4. ASSUME NEW p \in Process, Mutate(p)
      PROVE  CopyInv' /\ \E u \in Update : file'.made = file.made \union {u}
  <2>1. p \in Lockers /\ mem[p].made = file.made /\ pc[p] = "ready" /\ pc'[p] = "saved"
    BY <1>4 DEF Mutate
  <2>2. <<p, edits[p] + 1>> \in Update
    BY <1>4, <2>1 DEF Mutate, Update
  <2>3. file'.made = file.made \union {<<p, edits[p] + 1>>}
    BY <1>4, <2>1 DEF Mutate
  <2>4. Readers # {} => ~file'.stale /\ \A q \in Process : pc'[q] \notin {"repair", "reload"}
    BY <1>4 DEF Mutate
  <2>5. \A q \in Lockers : pc'[q] \in {"repair", "ready", "reload"} => q # p /\ pc[q] \in Critical
    BY <1>4, <2>1 DEF Mutate, Critical
  <2>6. \A q \in Readers : pc'[q] \notin {"repair", "saved", "reload"}
    BY <1>4, <2>1 DEF Mutate
  <2>7. committed' \subseteq file'.made
    BY <1>4, <2>3 DEF Mutate
  <2> QED
    BY <1>a, <2>1, <2>2, <2>3, <2>4, <2>5, <2>6, <2>7 DEF Critical
<1>5. ASSUME NEW p \in Process, Wipe(p) PROVE FALSE
  BY <1>5 DEF Wipe
<1>6. CASE UNCHANGED vars
  BY <1>6 DEF vars
<1> QED
  BY <1>1, <1>2, <1>3, <1>4, <1>5, <1>6 DEF Next, Progress, Atomic!Mutate

\* At first nobody holds a copy.
LEMMA CopyInvInitially == ASSUME HarmlessReads, Init PROVE CopyInv
BY DEF HarmlessReads, Init, CopyInv, Sound, Absent

\* No mutation that was saved disappears, among verbs that take the lock and
\* reads whose load repairs nothing (NoLostUpdate; Lock's comment in lock.go).
THEOREM NothingLost == ASSUME HarmlessReads PROVE Spec => []NoLostUpdate
<1>1. Init => LockInv /\ CopyInv
  BY CopyInvInitially DEF Init, LockInv, Critical
<1>2. TypeOK /\ LockInv /\ CopyInv /\ [Next]_vars => LockInv' /\ CopyInv'
  BY LockInvInductive, CopyInvInductive DEF HarmlessReads
<1>3. CopyInv => NoLostUpdate
  BY DEF CopyInv, NoLostUpdate
<1> QED
  BY <1>1, <1>2, <1>3, TypeCorrect, PTL DEF Spec

\* Under the same assumption every behaviour of the processes is one of the
\* one-cell store: each save is one atomic mutation, everything else a stutter.
THEOREM VerbsImplementStore == ASSUME HarmlessReads PROVE Spec => ImplementsAtomicStore
<1>1. Init => LockInv /\ CopyInv /\ Atomic!Init
  BY CopyInvInitially DEF Init, LockInv, Critical, Atomic!Init, Sound, Absent
<1>2. TypeOK /\ LockInv /\ CopyInv /\ [Next]_vars =>
        LockInv' /\ CopyInv' /\ [Atomic!Next]_(file.made)
  BY LockInvInductive, CopyInvInductive DEF HarmlessReads, Atomic!Next
<1> QED
  BY <1>1, <1>2, TypeCorrect, PTL DEF Spec, ImplementsAtomicStore, Atomic!Spec
=============================================================================
