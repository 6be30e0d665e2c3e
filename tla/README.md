# vpnkit in TLA+

vpnkit is a command line and terminal UI around the mihomo proxy core.  It keeps
subscriptions, hand-entered nodes and rules in `~/.config/vpnkit/config.toml`
(the *store*), fetches subscriptions into a cache, assembles mihomo's
`config.yaml` from both, and installs, starts, reloads, upgrades and removes
mihomo.

This directory models what decides where traffic goes and whether mihomo runs:
the store and every operation on it, the assembler, the processes that share the
store, the service managers and the programs that call them, the goroutines of
one terminal-UI session, and the screen that drives them.

## Inventory

| Component | State | Operations | Hard behaviour | Correct when |
|---|---|---|---|---|
| `internal/store` | `Config` in memory and `config.toml` | `Load` (repairs and saves), `Save` | a load that writes; several processes | no saved change disappears; loaded state is consistent |
| `store/lock.go` | flock on `config.toml.lock` | `AcquireLock`, `Release` | crashes, unlink of the lock file, paths that skip it | verbs exclude each other and all get their turn |
| `internal/app/pipeline.go`, `sub_cache.go` | `subResults`, the node and rule managers, the store, `sub-cache/` | add, delete, enable, rename, set active, refresh, `SaveLocal`, `Assemble` | memory changed before the save; work after the unlock; kills, failing I/O | nothing stale is named; a result belongs to its subscription; what was saved is applied |
| `internal/assembler` | none (pure) | `Assemble` | stale active source and target, empty sources, name clashes | mihomo can load the document |
| `localnodes.Manager` | nodes under its own mutex | `Load`, `Add`, `Remove`, `Get`, `All` | shared by UI and assembler goroutines | names distinct, edits atomic for the user |
| `cmd/vpnkit` verbs | one process, one store copy | subs, local-groups, local-nodes, local-rules, active, target, mode, init, update, uninstall | concurrency with other processes; early exits | as for the store |
| `internal/service` | PID file, or the systemd unit | start, stop, restart, install, uninstall, status | two operations at once, zombies, respawns | one mihomo, and none lost |
| `app/bootstrap_sync.go`, `cmd_init.go`, `config/` | installation, `config.yaml`'s credentials | bootstrap, init, reconcile | failure or interruption between steps | a next run completes; the next client is let in |
| `cmd_update.go`, `installer` | the mihomo binary | look, stop, swap, start | a failure in between; a mihomo started beside it | the new binary runs |
| `app/run.go`, `api` streams and polls | channels, goroutines, a log process | connect, read, reconnect, poll, quit | lost connections, full channels, quitting anywhere | samples go on; everything ends |
| `api/measure.go` | one command's probes | delay test with a repair of mihomo | three ways to an answer, parallel probes | every member is answered for |
| `app/update.go`, `internal/tabs` | focus, cursors, forms, filters, busy flags | one key or message at a time | a message that finds another page; lists that lag | a key hits what it shows; every change is applied; Ctrl-C quits |
| parsers, views, helpers | none | text, HTTP, drawing | | |

Components interact through shared state (the store under `Pipeline.mu`, the
managers under their own mutexes, the files on disk, the PID file), through
bubbletea messages (`PipelineMutatedMsg`, `RefreshDoneMsg`, polls) that start or
end commands on goroutines, and, between processes, only through the files, the
flock and mihomo's controller.

`PROJECT.json` lists every component with its status and every hazard with the
line where it bites and the properties that cover it.

## Modules

| Module | Models | Composes or refines |
|---|---|---|
| `Store` | the routing part of `store.Config`, `Load`'s repairs, every operation as an operator from configuration to configuration, its refusal beside it (`Can...`) | |
| `Assembler` | `assembler.Assemble` from input to document, and what mihomo requires of one | `Store` |
| `AssemblerRun` | one call of `Assemble` on an arbitrary input, so that its promises are invariants | `Assembler` |
| `Pipeline` | config.toml, cache and config.yaml over a life of CLI verbs and sessions, with kills and failing writes | `Assembler`, `Store` |
| `StoreLock` | overlapping processes and the flock | refines `AtomicStore` |
| `AtomicStore` | abstract: config.toml as one cell | |
| `LocalEdit` | the goroutines of one session that change and assemble local nodes | |
| `Refresh` | `RefreshSubscription` step by step beside deletions, additions, other refreshes, failing writes, kills and relaunches | refines `Feed` |
| `Feed` | abstract: which results may be kept for a subscription | |
| `Service` | the PID manager and the systemd manager, step by step | |
| `Host` | the programs that call them: launch, apply, settings pages, init, update, uninstall, verbs | `Service` |
| `Screen` | `Model.Update`, focus, and every tab that keeps a cursor, form, filter or busy flag | `Store` |
| `Streams` | the background loops, their readers and channels, the log process, the way out | |
| `Measure` | `MeasureGroup` and the repair it may run | |
| `Controller` | both over one mihomo that goes and comes | `Streams`, `Measure` |
| `StoreLockProofs`, `AssemblerProofs`, `PipelineProofs`, `RefreshProofs`, `LocalEditProofs`, `ControllerProofs`, `HostProofs`, `ScreenProofs` | theorems | |
| `MC...` | instances for TLC | |

The state machines overlap in what they describe and differ in grain: `Pipeline`
makes a whole change (mutate, then save) one step and keeps all data;
`StoreLock` splits load, save, reload and lock, and keeps of the data only which
mutations the file holds; `LocalEdit` and `Refresh` split the steps between
goroutines and keep only nodes, or only results; `Host` keeps of all content one
number, and every step of a program; `Screen` makes a key one step and keeps
what is on screen.

Definitions whose comment starts with `Fault:` are deliberately wrong variants
of the definition that follows them; no specification uses them.  Each was put
in the place of the right one to confirm that a property notices.

Most instances are a set of *scopes*: records of what may happen in a behaviour
(the verbs enabled, what may fail, how many actions).  `Init` chooses one and no
step changes it, so that one run covers families of verbs whose product would be
too large.

### Correspondence

* **Configuration.** `[subs, groups, nodes, rules, active, target, mode]` for
  `Subscriptions`, `LocalNodeGroups`, `LocalNodes`, `LocalRules` (targets only),
  `ActiveSource`, `GlobalTarget`, `Mode`.  Names are texts; `AutoOf` and
  `NodeOf` stand for the concatenations `<s>-auto` and `<s>:<n>`, and
  `NamesAreTexts` states what name validation guarantees about them.
* **`Load`** is the composition of the repairs in the order of `store.go`.
* **Processes** (`Pipeline`). `StartCli` and `StartTui` load; `Change(c)` is
  "mutate memory, then save": a verb that cannot save exits, a session goes on.
  `phase = "owed"` is a change saved and not yet assembled.  `CliExit` includes
  the second load of `applyMutation`.  `Die` is a refusal, an interrupt or a
  crash between two steps.
* **`StoreLock`** gives each process a place: open, flock, load, repair, ready,
  saved, reload, exit.  The lock file is an inode, so that unlinking is visible.
* **`LocalEdit`**. The UI goroutine's `Get`, `Remove`, `Add`, rollback,
  `SaveLocal` and `Save` are separate steps, each one mutex section; a worker's
  resync and its reads of the manager, group by group, are steps too.
* **`Refresh`**. A worker goes through *look* (is the subscription there, under
  the mutex), *fetch* (without it), *put* (again under it: the name is looked
  up once more, and the result kept in memory), *save* (config.toml), *file* (the
  cache, unlocked), and `Answer` (the message).  A deletion is *drop* (memory
  and file) and *save*.  A result is its URL and the time of its fetch.
  `ClearCache` is the key `c` of the Cache page: it empties the directory (up to
  a file that cannot be removed) and leaves the results in memory.
* **`Service`, `Host`**. A thread has a list of steps still to do, `todo`; a
  program is such a list (`Program`), the managers' operations are sublists
  (`StartSteps`, ...), and a step may put others in front or give up.  The threads are the CLI
  processes and, in one terminal-UI process, the launch, a change's `applyConfig` and a
  settings page.  A dead child of a living process that nobody waited for is a
  *zombie*, which `processAlive` takes for alive.  `misled` is no variable of the
  program: it records that an `uninstall` has guessed a manager other than the
  host's, for the properties to say what such a host may still expect.  `lost` and `torn` are
  none either: the children whose starter was killed between `cmd.Start` and the write of the
  PID file, of which no later operation can know; and whether a program was killed in the
  middle and none that writes config.yaml has ended since.  A CLI process may be killed
  between any two steps (`Interrupt`), and so may the session with all its goroutines
  (`Quit`), in every scope; the PID file may be truncated and not yet written then.
  `key` stands for secret and controller port, `rev` for the content of the configuration.
  `reconcilePorts` is two steps, `Ports`, which any program that holds a port may cause to
  save others, and `DropYaml`; a launch that finds other credentials in config.yaml
  (`configChanged`) turns into a `relaunch`, which applies them after its bootstrap.  Each
  directory that `uninstall` removes and each file that `init --force` renames is a step.
  A systemctl call may fail for reasons of its own.
* **`Screen`**. `Handler(k)` is the order in which `Update` looks for the owner
  of a key; `Press(k)` is that owner's whole reaction.  Lists shown are copies,
  refreshed when the code refreshes them.
* **`Streams`, `Measure`**. A loop is a place; a reader is a place, the samples
  in its channel, whether its error channel holds one, and whether its context
  is cancelled.  `Collect` is `wg.Wait` and what follows it.

## Runs

| Run | Question | Instance |
|---|---|---|
| `MCAssembler` | is every document loadable? | every input with up to two subscriptions and one group, up to two nodes each, stale names included |
| `MCPipelineVerbs` | do CLI verbs keep store, cache and config.yaml consistent? | `SourceVerbs`: two names, an empty and a full feed, new install and rc.2 store; `NodeVerbs`: two nodes, groups renamed |
| `MCPipelineSessions` | do sessions and verbs in turn leave something loadable and nothing stale? | `FailingIO`: saves and cache I/O may fail; `OneName`: one name for both kinds, nearly all verbs |
| `MCStoreLockVerbs` | do locked verbs act atomically? | three verbs, crashes, one repair |
| `MCStoreLockAll` | does everyone who waits get a turn, with the lock file unlinked under them? | a verb, an uninstall, a reader, a session, two inodes |
| `MCLocalEdit` | is each change saved and applied as asked? | `Waiting`: two groups, three edits; `Hurried`: one group, two workers, failing writes |
| `MCHost` | do all programs keep track of the one mihomo and do what they report? | a CLI process beside a session of three threads; PID and systemd; two operations that overlap, or three one after the other; kills and quits at any step |
| `MCRefresh` | do results stay with their subscriptions, refreshes end, and get applied? | one name with two URLs or two names; hung servers, failing saves and cache files, kills |
| `MCScreen` | do keys go where the screen says, and does it catch up with the store? | eleven scopes, each a part of the screen |
| `MCController` | do streams, polls and delay tests go on, answer, and end? | both streams, or a stream beside two delay tests, or a poll beside the log, or the update check |

Two runs each show a statement of the repository that the code does not keep;
`PROJECT.json` "findings" quotes it:

| Run | What happens |
|---|---|
| `MCHostLeft` | `init --force --skip-bootstrap` leaves a config.toml that names no manager; `uninstall` then stops systemd's mihomo, removes the PID file of the one that runs, and says it has stopped it; each command runs to its end and nothing is killed |
| `MCScreenTrap` | `T` then `/` on the Rules tab opens a filter that no key closes, and Ctrl-C goes to it |

Several properties are conjunctions, so that a run asks one question of each
kind.  The run's mutant breaks one conjunct; the module also keeps the fault
that breaks the other:

| Property | Conjuncts | Fault that breaks each |
|---|---|---|
| `SourcesSound` | `ActiveIsEnabled` (no rename), `NamespaceDisjoint`, `CacheOwned` | `ClearActiveNot`, `CanRunSubsAddAnyGroup`, `DeleteSubOnly` |
| `NodesSound` | `NodesGrouped`, `NodesDistinct`, `NamesLoad` | `DeleteLocalGroupOnly`, `CanEditNodeAnyName`, `CanCliAddNodeAlways` |
| `ReferencesResolve` | `DialersResolve`, `RulesResolve` | `DialerBare`, `RewriteTargetNot` |
| `EditsSound` | `RefusedEditRestores`, `DocLoads` | `RollbackNot`, `TopOfAny` |
| `DoneMeansDone` | `UpgradeTakesEffect`, `UninstallLeavesNone` | `LookAway`, `ChooseNoStop` |
| `ConfigAgrees` | `AppliedRuns`, `CredentialsAgree` | `ReloadOnly` or `SecureOnly`; `PortsUnsaved`, `ReconcileMissing` or `WipeNot` |
| `TestsAnswer` | `MembersAnswered`, `Healed` | `CollectEarly`, `UnreachableFails` |
| `AllGetOn` | `BackgroundEnds`, `StaysLive`, `TestsFinish` | `LeaveUnread`, `LeaveOpen`, `RoomForOne` |

### Where the properties stop holding

A property of a passing run is a statement about the scopes of its instance.
Variations, each found violated by TLC, show what lies beyond:

| Take | change | and TLC reports |
|---|---|---|
| `MCStoreLockVerbs` | `Spec`, `Readers = {r}` | `NoLostUpdate`: a read verb's load repairs the file and undoes a verb's update (`store.go:290`; main.go:122 calls these verbs safe to run beside others) |
| `MCStoreLockVerbs` | `Spec`, `Bypassers = {b}` | `NoLostUpdate`: `active --json X` runs unlocked (`cmd_common.go:76`) |
| `MCStoreLockVerbs` | `Spec`, `Sessions = {b}` | `NoLostUpdate`: a session saves the copy it loaded at start (`run.go:24`) |
| `MCStoreLockAll` | `INVARIANT MutualExclusion` | uninstall unlinks the lock file; who creates it anew enters beside who holds the old one (`cmd_uninstall.go:127`) |
| `MCPipelineVerbs` | `ActiveIsEnabled` or `TargetNotGone` with renames | the active source and the target name the old group (`pipeline.go:721`) |
| `OneName` | `NamespaceDisjoint` with sessions | a session's `AddSubscription`/`AddLocalGroup` look only among their own kind (`pipeline.go:317`); `local-nodes add --group` likewise (`cmd_local_nodes.go:117`), which also makes a group called `DIRECT` |
| `OneName` | `NodesGrouped` with sessions | the node form's group is free text (`local_form.go:379`) |
| `NodeVerbs` | verb `"mv-node"` | `NodesDistinct`: `mv` does not look into the destination (`cmd_local_nodes.go:183`) |
| `NodeVerbs` | source name `"a-auto"` | `NamesLoad`: it is also the url-test group of `a` (`names.go:60`) |
| `Hurried` | `SavedAsIntended` without `Patient` | `Assemble`'s resync erases a node that is added and not yet saved (`pipeline.go:181`; the comment at 644 calls the manager authoritative) |
| `Hurried` | `DocLoads` without `Patient` | config.yaml is assembled from several reads of the manager (`pipeline.go:216`) |
| `Hurried` | `AppliedAtLast` without `Patient` | of two assemblies the older is written last (`update.go:418`) |
| `Waiting` | `starts |-> MCTwins` | `RefusedEditRestores`: the rollback is refused as well, its error dropped (`sources.go:614`) |
| `MCRefresh` | `ImplementsFeed` or `CacheOwned` for a user who deletes during a refresh | the name, deleted and added with another URL, keeps the old URL's nodes (`pipeline.go:114`); a cache file is written after its subscription has gone (`pipeline.go:143`) |
| `MCRefresh` | `CacheOwned`, two names, a deletion during the other's refresh | that refresh saves config.toml between the deletion and the removal of the cache file; a kill leaves the file |
| `MCRefresh` | `AppliedAtLast` for a wandering user | the answer finds the add form or the page of local nodes, which drop it: cached, not applied (`update.go:406`) |
| `MCHost` | `SoleTracked` in PID mode for `Apart = "none"` | two starts between probe and record: the first child is in no PID file (`pid.go:43`) |
| `MCHost` | `SoleTracked` in PID mode without `lost` | a start killed between `cmd.Start` and the write of the PID file leaves a mihomo that no file names (`pid.go:59-69`); nothing overlaps |
| `MCHost` | `AppliedRuns` without `lost = {}` | such a mihomo runs on beside the one the next launch or change starts, with the old configuration |
| `MCHost` | `CredentialsAgree` without `~torn` | a launch killed between `reconcilePorts`' save and its removal of config.yaml leaves the two files apart, until the next launch or `init` ends (`run.go:389`) |
| `MCHost` | `UpgradeTakesEffect` or `AppliedRuns` in PID mode without `~misled`, five operations | an `uninstall` that has guessed systemd leaves a mihomo and no PID file; an update or a change after it starts another and reports success, while the old one runs on (`cmd_uninstall.go:89`) |
| `MCHost` | `UpgradeTakesEffect` in systemd mode after a crash | a respawn between look and swap runs the old binary on |

### What else the models show

No property is about the following, because it would only restate the line.

* *Assembler.* A global target of another source is the selector's first member
  also after the active source has changed (`proxy_groups.go:74`).  With no
  active source set, `Assemble` takes the first *fetched* source (`assembler.go:159`;
  40-41 says the first enabled one).  `validateTarget` accepts a source without
  nodes (`cmd_target.go:63`).
* *Refresh.* Clearing the cache changes nothing a running session shows or emits:
  its results stay in memory until it ends, and the next process starts without them.
* *Host.* `init`, `init --force` and `uninstall` of a store that names no manager
  leave a PID-mode mihomo running.  `init --force` leaves a running mihomo on
  the old configuration (`cmd_init.go:34-40`).  `RunBootstrap`'s last check is
  satisfied by a zombie.  Whoever fails to stop the unit goes on all the same.  `update` stops mihomo before the download, and returns
  without starting it when that fails (`cmd_update.go:144-153`).  `applyConfig`
  starts a mihomo that the user has stopped.  A verb that began before a
  session's first save writes back a store that names no manager.  `update`
  takes no flock, though the help lists it among the verbs that do
  (`main.go:130-140`).  The service manager is built before `reconcilePorts`
  changes the ports (`run.go:35`, 387).
* *Screen.* `d` on a page of local nodes removes the first node of the name,
  whatever its group (`sources.go:725`).  The Rules tab saves local rules and
  never has them assembled (`rules.go:298`).  The Service and Core pages stay
  busy for good, whether their operation ends or not.  Arrow keys on the page
  of local rules also move the cursor of the live rules.  After a rename of a
  group, the page of local nodes shows none of its nodes until it is left.  An
  edit that moves a node to another group may leave the cursor off the list.
  The cursors of Connections and Rules are clamped to the whole list, not to the
  filtered one.  Deletions that cannot be saved may put the cursor of the
  subscriptions or of the local nodes at -1, after which `d` or `e` ends the program
  (`Screen!Panics`, `Crash`).  So may a deletion after the rename of a group, when
  more rows go at once than the one deleted.
* *Controller.* `main` returns right after the cancellation, so a `tail` or
  `journalctl` may outlive the program (`run.go:311`).  The log process is never
  waited for.  The update check is not cancelled with the rest.  A client keeps
  the secret of the launch.  An answer of `/traffic` is read whatever its status:
  a refused client reconnects every two seconds.

### Bounds

Two source names suffice for a stale name, a fallback to another source and a
collision; a third would only be another "other".  `local` is present for the
group `Load` creates.  Two nodes give duplicates within and across groups.  A
feed is empty or has one node and a rule whose target it does not define.
`MaxStale = 1`: one save that leaves something to repair is enough for a repair
to race an update.  Three edits in `LocalEdit` give an edit, a second one over
its assembly, and one that shows the loss; two workers are enough to be out of
order.  `Inode` bounds the number of lock files ever created: one without an
uninstall, two with.

`Refresh`: `max` bounds presses, changes and kills (four to six: delete, add, two
refreshes, leave, kill), `clock` the fetches; two workers overlap on one name or
two.  `Host`: two operations when all overlap or those that call a manager do not,
three when each runs to its end: one leaves something behind (a killed start, a mihomo with the
old ports, files that disagree), a second meets it, and a third shows whether the second has
mended it.  `Some` leaves out of the overlaps in PID mode the operations whose steps others have.
Without liveness, three operations of which those that call a manager wait for each other, and
four or five of selected ones, were found to hold as well.  mihomo crashes at most as often
as `MaxCrashes` says, with one process identifier more than can live at once.
`Streams`: `Readers` and
`Capacity` bound readers and channels; a channel at its limit behaves alike with 1 and with 16.
`Measure`: two members, so that one probe is slower than another.  `Screen`: lists of up to
three rows, `MaxPending` messages under way; keys are enabled by
scope because a form's field, a filter and a list have nothing to do with each other
unless the keys that lead from one to the other are there, and those are.

### Fairness

* `StoreLock`: weak fairness of each process's next step.  The operating system
  schedules every runnable process; a flock held by a dead process is free.
* `LocalEdit`, `Refresh`: weak fairness of what the UI goroutine has begun and of each
  worker.  A fetch from a hung server ends by its time-out.
* `Host`: weak fairness of *some* thread's next step: an operation has finitely many
  steps, and a thread that waits has a timeout.
* `Screen`: weak fairness of the delivery of messages, of commands' ends, and, of a
  user who has decided to leave, of Esc and of Ctrl-C.
* `Controller`: weak fairness of every goroutine, of requests' ends (each has a
  timeout or a context), and of the cancellation after `prog.Run` has returned.

Crashes, kills and users have none; mihomo need not come back, and `main` need
not return.

## Proofs

* `StoreLockProofs`, for any sets of processes and any bounds:
  * `TypeCorrect`: `TypeOK`, strengthened by "a verb past its open has a lock
    file open", is inductive on its own.
  * `VerbsExclude`: mutual exclusion, assuming nobody uninstalls.  It is not
    inductive: two verbs might have opened different files.  `LockInv` adds that
    every open file is the one `config.toml.lock` names, and that a verb between
    acquisition and release owns it.
  * `NothingLost` and `VerbsImplementStore`, assuming `HarmlessReads`: no
    uninstall, no bypass, no session, and readers only when no load repairs.
    `CopyInv` adds that the copy a verb may still save holds what the file
    holds.  The refinement maps `made` to the file's mutations; only `Mutate` is
    not a stutter.  The first three variations above show that none of these
    assumptions can be dropped.
* `AssemblerProofs`, for any input of any size: everything the run checks.
  * `TopAlwaysLoads` and `GroupsAlwaysLoad`.  `emitPair` and `emitProxies` define
    every name a populated source has (`PopulatedIsDefined`), and every reference is
    to a populated source or a reserved policy.
  * `TopStaysActive`: moving the target to the front adds nothing that is not the
    active source's (`TargetFirstMembers`).
  * `ReferencesAlwaysResolve`: a text that is some node's name is qualified by the
    *last* source that has it, which exists because a non-empty set of positions has a
    greatest one (`GreatestExists`); a rule is rewritten to a node, a sibling or
    the subscription itself, all of which are in the document.
  * `NamesStayUnique`: the texts `<s>:<n>`, `<s>-auto` and `<s>` can be taken apart.

  They rest on `NamesAreTexts`, what name validation guarantees.
* `PipelineProofs`, for any names, verbs, front ends, initial files, feeds and lists of any
  length: everything its runs check.  `AssemblerProofs` says of each operation on a
  configuration which sources and nodes it leaves, which of the sources enabled, and
  that it keeps `Live` (the active source is enabled) and `Aimed` (a target that is a
  source's is one's that is there).  `Kept` puts these together for the verbs an
  instance has, and `IInv` says it of both copies, the file and the process's: it is
  inductive because a failed save leaves one of them as it was and the other as the
  operation left it.  `Produced` adds what is in memory, in the cache and in
  config.yaml: results are ones a feed can give, and the document is what `Assemble`
  makes of *some* kept configuration and such results, which is all that can be said
  of it when writes fail, and enough for it to load.
  * `TypeCorrect`, `ResultsAreOwned` and `DocumentsLoad`, without assumptions.
  * `EmittedStaysFromDisk` and `DocumentsStaySound`, without assumptions on the
    instance: as long as writes succeed, `Agreed` holds (what is in memory is in the
    cache), so reading back gives what was emitted.
  * `ActiveStaysEnabled`, from files where it holds, without renames.
  * `RoutingStaysSound`: these and `TargetNotGone`, from files where both hold, if no source
    is called like another's url-test group (`AutosApart`; name validation does
    not forbid it).
  * `NamespaceStaysDisjoint`, for verbs alone, none of which adds a node, if no source is
    called `local`, the group `Load` adds, or for instances without subscriptions.
  * `CacheIsOwned`, while writes succeed: `IInv` adds that a process's copy is the file.
  * `SourcesStaySound` and `NodesStaySound` put these together for the instances of
    `MCPipelineVerbs`.  The second also needs that no verb moves a node, that the
    file's nodes are grouped (or for `Load` to group) and distinct at first,
    `AutosApart`, and feeds whose nodes have distinct names; the variations above show
    why.
* `HostProofs`, for any processes, any operations in use, any number of them and of crashes,
  in both modes: everything of `MCHost` but liveness.  A thread is a list of steps, so
  the first thing to know is which step may follow which: `Linked` is that relation,
  program by program, and `Shape` says that every list respects it, through every
  step that puts others in front or gives up.
  * `TypeCorrect`, with `Shape`.
  * `NothingIsLost` (`SoleTracked`), over kills and quits at any step.  `Exclusive`: who
    may be busy at the same time.  `Known`: between its kill and its wait, its probe and its
    spawn, its spawn and its record, the one caller of the PID manager knows the process it
    is at, and an uninstall that has come to its wipe has left none; all others that run are
    children of starts killed before their record (`lost`).  A process killed anywhere
    else leaves the PID file naming what it was at.  `Unit`: systemd has at most its MainPID.
  * `DoneStaysDone`.  `Upgraded`: an update has no mihomo running where it swaps the
    binary, and from there on all that run are new.  In systemd mode it needs
    `Installed`: without a crash the unit cannot have failed while it is looked at,
    and there is no unit without a binary.
  * `ConfigStaysAgreed`, with ports changed by any launch that finds no mihomo running, and
    kills at any step.  `Current`: what a thread that is alone has loaded is the
    store.  `Agreed`: the credentials of the two files agree, but for a program that is about
    to write or drop config.yaml, and from a kill in the middle until a writer has; each
    writer makes them agree at one of its steps and keeps them so to its end.  `Written` and
    `Ran` follow a change, and a launch that has found other credentials, from there over
    reload or restart.
* `RefreshProofs`, for any names, URLs and goroutines, and any number of actions:
  * `TypeCorrect`.
  * `ResultsStayOwned`: a name has a result in memory only while it is a
    subscription.  `Put`'s second look-up and `Emitted` keep it so.
  * `CacheIsOwned`: of a careful user (no deletion during a refresh, no name
    refreshed twice at once, files that are written and removed), over failed
    saves, kills and relaunches, a cache file is of the URL its name has in config.toml.
    Not inductive: what a worker is about to write must be owned, too, and
    config.toml lags behind memory by one save.  `Own` says what a worker holds
    at each step, and that memory and config.toml agree on a name with a file
    unless the name is being dropped.
  * `RefreshFeeds`: the session implements `Feed`.  `Feeding` (everything kept is of
    a URL its name was ever given) covers the users who never change a name's URL,
    `Own` the careful ones.  `Put` and `Assemble` are `Get`, `Relaunch` is
    `Restart`; the steps of a worker before and after `Put` are stutters.
* `LocalEditProofs`, for any names, groups, workers and lists:
  * `TypeCorrect` and `NamesAreDistinct`, together and with "an edit under way has
    its nodes", without which the rollback might append anything.  `Dropped` and
    `Appended` say what the manager's two operations do to a list.
  * `EditsAreSound` and `ChangesAreSaved`, of a user who waits.  `Undisturbed`:
    whenever a worker is at work the user is idle and the manager is the store's list.
    `Changing` and `Made`: at every point of a change the manager holds the
    store's nodes with exactly the part made so far, which is where the
    rollback's effect and the saved list are read off.  `Building`: what a worker has
    read agrees with the manager, group by group, from which the document's
    references close when it is published.

* `ControllerProofs`, for any streams, polls, tests, readers, channels and members:
  * `TypeCorrect`, with `Asking`: a delay test that has begun asks about a group.
  * `TestsAreSound`: results of a delay test speak of exactly the group's members, and a test of
    a mihomo that is only down comes to results.  What is in the channel and who is still
    busy make up the members at every point of the probes.
  * `ReadersHaveOwners`: streams share no reader, and a reader without a loop has been cancelled.
* `ScreenProofs`, for any keys, lists of any length, names typed, polls and failures:
  everything of `MCScreen` but liveness.  `IInv` is a type for each tab's record and, in
  `Follows`, which lists are the store's: exactly, for subscriptions, groups and rules; up to the
  order, for nodes, since an edit that is refused puts the node back at the end of the manager's
  list and leaves the screen as it was (`Shuffled`: there is a bijection).  A rename
  changes the groups of the nodes in the store alone, so nothing is said of nodes where a
  group can be renamed.
  * `TypeCorrect`.  The nodes shown of a group are some of the list's, each at most once
    (`Drawn`).  One deletion therefore takes at most one row away, and the cursor, sent to
    the last row when it is off the list, does not come to -1.  The attempt to prove this
    without conditions led to the deletion after a rename described above.
  * `ScreenStaysAgreed`.
  * `RowsAreHit`, as a step of `IInv`: the row under the cursor is a row of the store, and
    the only one of its name, so that the first of that name is that row.

What several modules rest on is in `AssemblerProofs` and `LocalEditProofs`: that a non-empty set
of positions has a least and a greatest element, which is where every "first" and "last" of the
code gets its meaning; that a finite set of them can be counted off in order (`OrderExists`), which
is what a loop that filters does; and what removing an element leaves.

Checked by TLC only: liveness (`VerbsEnd`, `AppliedAtLast` of both modules, `RefreshEnds`,
`OperationsEnd`, `ScreenCatchesUp`, `LeaverQuits`, `AllGetOn`), which is out of the
prover's reach.

## Not modelled

Text: URIs, feeds and protocol formats, character checks of names, version
comparison, the texts of form fields, argument parsing.  These have no state and no
order; a unit test reaches them.  Drawing: views, flashes, the viewport window.
Single requests to mihomo that change nothing here.  Downloads beyond "it succeeds
or fails" (installer, geo data, rulesets), and the replacement of vpnkit's own binary.
Port numbers beyond "taken or free".  In `Host`,
writes of config.toml and config.yaml succeed (`Pipeline` lets them fail), an
assembly of a launch does not fail, and neither does `systemctl disable --now`; an apply
whose launch's bootstrap has failed is held to nothing (`AppliedRuns`).
`localnodes.Manager.Update`, which nothing calls.

## Plan

1. *Done*: all modules above and their proofs, for every safety
   property the passing runs check.
2. Theorems: idempotence of `Load`.
3. `local-rules move`.
