# A formal model of `ty-context`

`ty-context` keeps a repository's Context documents (`project_context/`) and the startup instructions of
coding agents in order: it installs them, registers and moves them, synchronises, upgrades, validates and
exports them. The program is `src/packages/ty-context/src`. Its hard part is that it rewrites several files of
a repository that people edit at the same time, that it may die between any two system calls, and that two
of its commands may be given at once. This directory models that part in TLA+, checks it with TLC and proves its
safety properties, for every value of the constants, with TLAPS.

Paths below are relative to `src/packages/ty-context/src/lib`, `cm/` stands for `context-mutation/`.

## 1. The system

| Component | State | Operations | What makes it correct |
|---|---|---|---|
| Maintenance lock (`maintenance-lock.ts`) | lock file, claim links, pid in the record | acquire, reclaim from a dead owner, verify, release | one command works at a time; a live owner's lock stays; an interrupted reclaim never lets two in |
| Mutation: file states (`cm/mutation-file-state.ts`, `mutation-cas.ts`) | a planned file, its temporary, their inodes, link counts, ctimes | capture, stage, compare, publish, retract, clean up | a file that differs from both recorded sides is never written or removed |
| Mutation: commit and recovery (`cm/mutation-commit.ts`, `mutation-recovery.ts`, `mutation-directories.ts`, `mutation-live-validation.ts`) | the journal's state, applied prefix, recorded identities | execute, `complete`, `rollback`, `status` | files change in order; the transaction ends all at one side; it can be ended after a crash |
| Mutation: journal storage (`cm/mutation-journal.ts`, `-storage.ts`, `-io.ts`, `-validation*.ts`) | a chain of snapshot files and a temporary | begin, publish the next, remove, read | acts as one register that never goes back, though each operation is many system calls |
| Interlock (`cm/mutation-interlock.ts`, `mutation-command-support.ts`) | what was read before the lock was held | read, lock, compare | a command under the lock works on what it read before |
| Create, register, move (`context-create/`, `context-register/`, `context-move/`) | a plan made from a Catalog | plan, stage, apply | a plan is applied to the files it was made from, or refused; the Catalog stays valid |
| Catalog (`context-catalog/`, `context-manifest*.ts`) | manifest, documents, links | load, validate, default selection | what is registered is what is discovered; what is read by default is what was asked for |
| Upgrade (`upgrade.ts`, `migrations.ts`, `retirement-*.ts`) | schema version, assets of schema 4, pending file, session record | plan, preflight, run, resume | an interrupted upgrade goes on; nothing else runs meanwhile; no edited file is retired |
| Sync, init, schema guard, configuration (`sync-engine.ts`, `init.ts`, `schema-guard.ts`, `config.ts`, `package-json-config.ts`) | managed block in `AGENTS.md`, `config.yaml`, the recorded folder | init, sync, guard | human text survives, a second sync changes nothing, one installation |
| Maintenance write (`maintenance-write.ts`) | one file and its temporary | compare-and-swap write | no edit before the last comparison is overwritten |
| Source pack export (`source-pack-*.ts`, `context-export.ts`) | `latest`, its manifest, earlier rounds | plan, write, prune, report | only files it owns are replaced or removed; a plan fits its limit |
| Package source (`package-source.ts`) | packaged assets | sync, check | check passes exactly after sync |
| Path safety, patches of manifest and Markdown | none | resolve, rewrite spans | never outside the repository; every byte outside the span is kept |
| Validators, inspect, list, doctor, CLI, release tools | none | report | they change nothing |

How they interact: every command that writes, `create` excepted, writes inside `withMaintenanceLock`. `register --apply` and
`move --apply` make a plan *before* they hold the lock, after asking (without the lock) that no journal exists;
under the lock `executeContextMutationPlan` compares the files again, begins the journal and carries out the plan,
publishing a journal snapshot between any two changes of files. `complete` and `rollback` read the journal
without the lock and compare it, bytes and inode, under the lock. `upgrade` uses the same file states and
temporaries with a pending file of its own, which makes the schema guard refuse everyone else. `sync`, `init` and
`upgrade` refuse while a journal exists. People and other programs edit the files with no lock at all.

What is hard to test: the points at which a command dies (between each system call and the journal record of it);
recoveries that are interrupted and followed by the opposite recovery; edits between the last comparison and the
call, or between two reads of one plan; contenders for a stale lock whose view of it is old; pids in use again; readers of the journal that hold no
lock; an upgrade that is given again, while other commands are given; packs and installations that were written by
another command of the same tool. `PROJECT.json` lists each at its line under `hazards`.

## 2. The modules

| Module | What it is |
|---|---|
| `MaintenanceLock` | the lock: one action per file system call of acquire, reclaim and release, several processes, death at any point |
| `MaintenanceLockProofs` | its inductive invariant and the theorems |
| `MutationFiles` | operators: how a file on disk compares with the sides and temporaries a journal records (`mutationChangeDisposition` and its helpers) |
| `MutationDisk` | the planned files and their temporaries on disk, and the system calls on them |
| `MutationDiskProofs` | lemmas about those calls and about the comparisons of `MutationFiles`, for the two modules above them |
| `MutationTransaction` | a register or move from its plan to the removal of the journal: commit, `complete`, `rollback`, crashes, edits by others |
| `MutationTransactionProofs` | its inductive invariants and the theorems |
| `Retirement` | the upgrade of schema 4 over the same `MutationDisk`: plan, pending file, resumption, binding, guard |
| `RetirementProofs` | its inductive invariants and the theorems |
| `AtomicMutation` | what the transaction promises (`Spec`): files change side one at a time, an end only at either end; and what the upgrade does (`ForwardSpec`): none goes back |
| `MutationJournal` | the journal on disk, publication and removal step by step, readers without the lock, the interlock |
| `MutationJournalProofs` | its inductive invariants and the theorems |
| `JournalRegister` | what the journal storage promises: one register that begins, advances by one, and goes away |
| `ContextCatalog` | operators: registration, errors of a Catalog, default selection, migration of the manifest |
| `ContextAuthoring` | create, register and move over a Catalog that others change between any two reads of a plan |
| `ContextAuthoringProofs` | lemmas about the operators of `ContextCatalog`, the inductive invariants and the theorems |
| `ManagedBlock` | operators: the managed block in `AGENTS.md` as a sequence of tokens |
| `Installation` | init, init with a folder, and sync, at once, with upgrades, transactions and edits in between |
| `InstallationProofs` | lemmas about the operators of `ManagedBlock`, the inductive invariants and the theorems |
| `SourcePackPlan` | operators: what a pack takes, how it is bundled, which artifacts there are |
| `SourcePack` | exports and reports at once: ownership of `latest`, replacement, pruning of earlier rounds |
| `SourcePackProofs` | its inductive invariants and the theorems |
| `MC*` | the instances for TLC |

The modules stack: `MutationTransaction` takes the lock (`MaintenanceLock`: one command runs) and the journal
(`MutationJournal`: a snapshot is published in one step and what is read is current) for granted, and so do
`Retirement`, `Installation` and `SourcePack` the lock. `ContextAuthoring` takes for granted that a transaction is all or
nothing (`ImplementsAtomicMutation`), and asks what the plans are worth. It publishes in one step with the last comparison; every other
module that replaces or removes a file that people edit compares it in one step and renames or unlinks it in the next.

### MaintenanceLock

A process stands for the `lock_id` it draws and for the inode of the lock file it creates. `lockFile` is the inode
at `maintenance.lock`, `claim[x]` the inode at `maintenance.lock.reclaim-<lock_id of x>`, and link counts follow
from them; `ctime` counts link changes because `sameLockIdentity` compares it. `pc` walks through
`withMaintenanceLock`: `create`, `write`, then `verify`, `critical`, `release`, `unlink own`; or, when the file
exists, `read` (the snapshot of the owner), `probe` (`process.kill(pid, 0)`), `claim` (the `link` call), `check`
(`assertClaimedLockTransition`), `unlink stale`, `create`, `write`, `drop claim`. The failing branches have
actions of their own (`undo`, `abandon claim`). A snapshot (lstat, readFile, lstat) is one step, because it is
refused unless both lstats agree. `PidOf` maps processes to pids, so that a new process may run under a dead
one's pid; two running ones never share a pid.

### MutationFiles, MutationDisk and MutationTransaction

A file on disk is its inode, its data (old, new, something else), its link count and its ctime; `clock[f]` hands out fresh
inode numbers and ctimes. Disjoint files do not influence each other, so each has a clock of its own. `target[f]` and
`temporary[f]` are the two names the code uses. The journal is a record with `state`, `applied` (the length of the
applied prefix: the code records paths in commit order), and for each file its temporary and its published
identities. `command` is the one running command (the lock lets in no more) with its operation, program counter
and file. Every system call on a target or a temporary and every publication of a snapshot is a step. The
last comparison before a rename, unlink or link and that call are two steps (`SecondCompare`, `PublishChange`), so
that edits fall between them. `Crash` stops a command at a point of `CrashPoints`; `complete` and `rollback`
start over from the journal and the disk. The actions under *edits by others* replace, overwrite or
remove a planned file, change another Catalog file (`drift`) or use the new directory (`stray`).

### MutationJournal

`dir` maps names of the journal directory to inodes; link counts follow from it. Commands are `apply` and `recover`. A read without the lock is a step per system call: the listing, an `lstat` for each name in any
order, the check of links, then for each snapshot its content with the second `lstat`. The two lstats of a
snapshot frame its content, and a stamp is never used again, so content and second lstat are one step. The listing is
one step: one `getdents` call returns such a small directory. A read under the lock is
one step: nobody else changes the directory then. `Fail` is a death, or a system call that throws; both
leave the same files, except that a failing link removes the temporary (`LinkFails`). Bytes are the
transaction and the sequence, because transaction ids are digests of the plan: the same registration given again has
the same id, and its first snapshots have the same bytes.

### Retirement

The upgrade plans its files (an old asset to delete, `config.yaml`, `AGENTS.md` last), writes a backup and a pending
file, brings each file to its new side through the same temporaries as a transaction, validates the result, retires the
session's record and marker, and removes the pending file. `memory` is the journal it works with and `pending` the one on disk;
`save` is one step, a rename, and the first publication and the removal of the pending file are several, with two
links in between. The session's record goes in two steps as well, the last comparison and the unlink of what is there by then
(`CompareRecord`, `RemoveRecord`); `late` is history and tells that an old session wrote the record in between. `Start(stopped)` is `upgrade`, with or without `--sessions-stopped`, new or resumed; `blocker` stands
for what the preflight may find (customized assets are modelled, hooks, Makefile and references are this one flag). People edit
the files, an old session writes its record, the Context changes (`drift`), an old transaction is open. `OrdinaryCommandAllowed` is
`assertSupportedSchema`, evaluated in every state.

### ContextCatalog and ContextAuthoring

A manifest is its areas, contexts and default files as the parser yields them; a document is the text somebody wrote, the Context
files it links to, and the identity of its file. Each read in `planContextRegistration`, `planContextMove` and
`createContextScaffold` is a step: load, read the Markdown, capture the source, capture the manifest, stage, capture the referring
documents. The plan is then published and validated under the lock, or refused; recoveries take it to either side. `create`
works without the lock, from `link` to `unlink` as in the code. A step of `People` edits or deletes a document, the manifest, or
makes some other file mention a path (the literal scan of a move). `changed` and `missed` are history: they
tell which plans a person, another command or another command's recovery interfered with.

### ManagedBlock and Installation

A text is a sequence of markers (of the present and the earlier name), instructions, blanks and lines that people wrote;
`Search` and `Merge` are `findManagedBlock` and `mergeManagedBlock`. `Installation` walks `init`, `init --harness-folder`
and `sync` from the guard before the lock to the last write. `sources` are the four places that name the folder, in
the order of their precedence. A `writeMaintenanceText` of a file that is there is two steps: the last comparison with what was captured
(`CompareAgents`, `ComparePackage`), and the rename over what is there by then (`ReplaceAgents`, `ReplacePackage`). A file that is not there is linked,
which fails if one has come. `late` is history: people edited `AGENTS.md` between the two.

### SourcePackPlan and SourcePack

A file of a project is what the exporter tells apart: code or not, its size, tags and areas. `SourcePackPlan` takes it
from the options to the artifacts; `SourcePack` writes them under the lock, file by file after one capture of them all, then
the obsolete ones away, then old rounds. Each file is compared with its capture once more (`Compare`) and then replaced or unlinked, whatever it is
by then; `compared` is the file a command is between these steps with, and `late` is history: that file was edited there. A manifest is the hashes it lists. Reports (`--full`, `--code`) write one file anywhere below the export
directory, under the lock as well.

## 3. The runs

| Run | Bounds | Question |
|---|---|---|
| `move_crash` | a move of 4 files (create, two updates, delete) with its directory, 3 crashes at any point, 7 recoveries, 3 of them `rollback` | do files and journal stay in step; is the journal readable; does the whole implement `AtomicMutation`; when do `complete` and `rollback` work; is it settled in the end |
| `move_edits` | a move of 3 files, 2 edits, 1 crash, 2 recoveries | is a file that somebody else left ever touched |
| `lock_four` | 4 processes, two of them under one pid | mutual exclusion; who removes a live lock; what is left behind |
| `journal` | 2 equal applies, 1 recovery, 3 snapshots, 2 faults | is the journal a register that never goes back; is it readable; does a recovery work on the journal it read; does an unlocked read return a journal of its time |
| `upgrade_resumes` | 3 files, 2 crashes at any point, no edits | is a half-done migration hidden from ordinary commands; does an upgrade go on; is it completed in the end |
| `upgrade_edits` | 3 files, 1 crash, 2 edits or records of an old session | what happens to edited files and customized assets; is the binding last |
| `authoring` | 2 commands out of a register, two moves (one to a name that differs from an existing one in case only) and two creates of names that differ in case only; 9 paths, 2 manifests, 1 crash, 2 recoveries, 1 edit | is the Catalog valid; is anything lost; does the default selection follow |
| `init_sync` | 2 commands, 2 folders, 5 configurations, 7 texts of `AGENTS.md`, 1 crash, 1 edit | one installation; people's lines; the guard |
| `source_pack` | 2 commands out of 28 requests, 2 projects of up to 7 files, 2 earlier rounds, 1 crash, 1 edit | is `latest` one pack; does a plan fit; whose files are touched |
| three runs that expect a violation | minimal | the findings below |

Why the bounds are enough. A move treats its files by kind and by position only, so one file of each kind, and two
of the kind that can be between others, show each transition and each pair of neighbours; a registration, one updated file,
takes the same steps for that file. A second crash is what
takes a recovery by surprise, a third one what surprises the opposite recovery. A lock conflict needs a dead
owner, a live one, a late contender and somebody whom it lets in: four processes. A snapshot chain of three files
takes two interrupted publications, which is the shortest that shows the order of removals. An upgrade has three kinds of files, and
`AGENTS.md` is the last in every plan. A lost update needs two commands, or one and a person. The
exact constants are in the `.cfg` files and in the `MC` modules; processes that nothing tells apart are symmetric.

What the properties say:

* `MutualExclusion`, `LiveLockRemovedByOwner`, `LeftLockCanBeReclaimed`: the lock. The last one says which lock files stay
  that nobody can reclaim: those of a command that died while it acquired the lock.
* `JournalTracksDisk`: whatever was interrupted, the applied prefix of the journal and the files differ by at most the
  step in flight, which is what the recovery's live vector check relies on.
* `TheirFilesSurvive`: no step of a command changes or removes an inode somebody else left, unless it came
  after the last comparison. The code admits that *publication window*: there is no compare-and-swap rename.
  `CreationNeverOverwrites`: a creation (`link`) has no such window.
* `JournalRemovalSettles`: the journal goes away only when the files are at one side and no temporary is left.
* `CompleteSettles`, `RollbackSettles`: without edits by others, a recovery command is not
  refused. Each holds outside the windows below.
* `SettledInTheEnd`, `MigrationCompletes`: an interrupted transaction or upgrade is settled at last, if people
  go on, unless a command died in a window.
* `ImplementsAtomicMutation`, `ImplementsJournalRegister`: the refinements. A transaction may be taken back, so it implements `Spec` of
  `AtomicMutation`; an upgrade has no rollback and implements `ForwardSpec`, in which no file returns to its old side.
* `ChainSurvives`, `ReadsAreCurrent`, `RecoversWhatItRead`: the journal on disk. `MutationTransaction`'s `TypeOK` says besides
  that each journal a command writes passes the validation with which the next command reads it.
* `OrdinaryCommandsSeeWholeMigration`: whenever the schema guard lets an ordinary command in, the migration is whole or not begun.
  `UpgradeSettles`, `CustomizedAssetsStay`, `BindingGoesLast`: the rest of the upgrade's promises. A record that an old session wrote after the
  plan stays, unless it was written in the window before the unlink.
* `CommandsKeepCatalogValid`, `AllowedMovesStage`, `UndisturbedPlansSettle`: valid plans lead to valid Catalogs and are neither refused
  by the staged nor by the live validation. `NoManifestUpdateLost`, `CapturedTextsSurvive`: what another command, or a
  person before the last comparison, wrote meanwhile is kept. An edit in the publication window, which these leave out, is lost, as
  `TheirFilesSurvive` of `MutationTransaction` says. `SelectionFollows`, `MigrationKeepsSelection`: what is read by default changes only as asked.
* `TheirTextKept`: a sync keeps each line that is not its own, in place, and leaves ill-formed markers alone, unless the edit fell into the
  publication window; what it writes it would not change if repeated. `OneInstallation`: commands find the one configuration there is. `GuardedWrites`: the
  guard counts at the time of the write, not only at the start.
* `TheirExportsSurvive`, `LatestIsOnePack`, `PlanFits`: the export. The first excepts the manifest and the publication window.

Fairness. `SettledInTheEnd` assumes that a running command takes its next step (`WF` of `Step`): a command waits for
nothing, it only calls the file system. It also assumes that a person gives `complete` again while the transaction is open
(`WF` of `Complete`); crashes are bounded, so there is a last one. `MigrationCompletes` assumes the same of `upgrade
--sessions-stopped` (`WF` of `Start(TRUE)`), and that people settle what the upgrade reports (`WF` of `Settle`). No other
property assumes fairness. Deadlock is not checked anywhere: all commands come to an end, and a bounded number is given.

`TypeOK` of a module is its type invariant. Every property of a passing run is falsified by a plausible bug; the
operators marked `mutant` are those bugs, and no specification uses them.

### Windows

Between a system call and the record of it the journal cannot tell what the command did from what somebody else did, and the
code then refuses instead of guessing. The models name the points, and the properties except them only when a command died there:

* `MutationTransaction.Windows`: a temporary whose identity is not recorded yet (`record staged`, `record temporary`), a created
  file with two links (`unlink temporary`), a file that is published and not recorded (`confirm`), a recorded tombstone whose file is
  still there (`tombstone`).
  `complete` goes on after `confirm` and `tombstone` unless `rollback` was given as well; `RollbackSettles` says nothing once a command
  died in any of them, nor while a creation is unpublished (finding 1).
  A person has to remove the temporary or the extra link.
* `Retirement.Windows`: a temporary without its record, and the two links of the pending file and of the session record (`unlink record`,
  `remove record`).
* The last comparison and the rename or unlink after it (`mutation-cas.ts:229-248`, the *publication window*): an edit there is lost. It is `InWindow` in
  `MutationTransaction` and `Retirement`, and for single files the history `late` in `Retirement` (the session's record), `Installation`
  (`AGENTS.md`) and `SourcePack` (artifacts and earlier rounds); the properties about people's files except it. `ContextAuthoring` publishes in
  one step, so its properties are about edits outside the window.
* `create` looks for a file whose name differs from its own in case only when it loads the Catalog, and later only at its own path, and
  holds no lock: another create, or a move, to such a name in between leaves two files of one key. `CommandsKeepCatalogValid` excepts
  the names of a create and of another create or a move of one key (`Raced`), and no others.
* A contender for the lock that read a dead owner may link the present owner's lock file to its claim; the release then fails after
  the work is done, and the lock file is left for the next command to reclaim.
* A pack that dies after it wrote its manifest, the first artifact, makes the next export report a conflict. Reports overwrite any file
  that is named as their output. A scaffold, or any other Catalog file, that appears during an open transaction is in the way
  of both recoveries until it is removed.
* `init` records the folder and installs in two locked sections; an init for another folder in between wins, and both succeed.

### Findings

Three runs refute something the repository says of itself; `PROJECT.json` has the quotes.

1. `rollback_prepared_move`: a move that stopped before it published a created file cannot be rolled back:
   `captureDesiredEndpoint` does not accept that the file is absent. Nothing is lost: the command refuses.
2. `complete_linked_creation`: a crash between `link` and `unlink` of a created file, then `complete`: the file is
   recorded with two links, which the content assertion refuses before the temporary is removed. Nothing is lost.
3. `move_loses_edit`: a move reads the text of all documents, and captures the state of those that link to the moved one only
   later, without comparing the two. An edit in between is overwritten. `CapturedTextsSurvive` says that everything else is kept.

## 4. The proofs

Each theorem holds for every value of the constants that the assumptions of its module allow: any number of processes, files,
requests, crashes, recoveries and edits. TLC evaluates those assumptions in the runs, and the runs check on small instances
what the theorems state. Hardly any of the properties is inductive as it stands; what each proof adds, and why, is this.

**The lock** (`MaintenanceLockProofs`: `TypeCorrect`, `LockInvariant`, `MutuallyExclusive`, `LiveLockKept`,
`LeftLockIsReclaimable`), from `ProcAssumption` (finitely many processes, `None` is not one) and `PidAssumption`. `LockInv` adds to
mutual exclusion: a live process that is past its creation owns the file at the lock's path (`OwnerHasLockFile`); a lock file
belongs to a process that has started (`LockFileHasStarted`); whoever is about to unlink a stale lock knows whose it is
(`StaleIsKnown`), and that owner is dead (`StaleLockIsDead`); and two live claimers never claim from the same owner
(`ClaimIsExclusive`), because the claim's name is made of the stale owner's `lock_id` and `link` fails when it exists. A dead process
never comes back, so a check of the owner stays true between `check` and `unlink stale`, and two processes at `critical` would both
own the one lock file. `LeftInv` accounts for every claim besides: it is the last link to a lock that was reclaimed, or a process stands, or
fell, where it would have dropped it.

**The journal on disk** (`MutationJournalProofs`), from `CommandAssumption`, `LimitAssumption` and `NoJournalAssumption` (the
absence of a journal is none of the values that stand for one). `JournalIsRegister` is the refinement of `JournalRegister`,
`JournalReadable` says `ChainSurvives`. That the snapshots form a chain holds because of what the command under the lock has done so
far: `JournalInv` says, for each step of a publication or a removal, what the directory holds (`PhaseOK`), besides the shape of the
directory itself (`DirectoryOK`) and who may be at such a step (`LockOK`). Lemmas about a directory with or without one more name
(`WithTemporary`, `WithSnapshot`, `WithoutOldest` and the like) carry the argument, and `JournalStep` shows at once that the
invariant is kept and that a step of the files is a step of the register or none. `RecoversOnlyWhatItRead` needs more,
because equal bytes do come back: `IdentityInv` bounds the stamps of all inodes that were ever at a snapshot's name (`Linked`), hence
of all that a command can have read (`Known`), and says that the inode of an overtaken command is `Spent`. `ReadsTellTheJournal`
(`ReadsAreCurrent`) rests on `ReadingInv`: whatever a reader has seen of a snapshot was the journal at some moment of the read,
unless it has a name of a later sequence still to read; a name goes only after a later one came, so a listing without names saw no journal.

**A transaction** (`MutationTransactionProofs`), from `KindAssumption` and `BoundsAssumption`.

* `TypeCorrect`, from `ShapeInv`: which journals there can be (each passes the validation with which the next command reads
  it), which states of it go with which point of a command, and where a temporary is the command's own.
* `OthersFilesSurvive`, `CreationsNeverOverwrite`: `TheirsInv` says that what somebody left at a planned path has other bytes than
  either side, or an inode that neither the journal nor the command has ever recorded. A comparison that accepts the file has therefore not
  accepted theirs, and outside `InWindow` nothing comes between it and the call.
* `JournalIsOneOff`, `TransactionIsAtomic`: `PositionInv` says that, without edits, there is a `k` such that exactly the first
  `k` files are new, and ties `k` to the journal's `applied`, `state` and the command's point. The files change side one at a time
  because `k` changes by one; the recovery goes the way of the journal because `k` and `applied` differ by at most one.
* `RemovalSettles`: `CleanupInv` adds which temporaries the cleanup has removed, up to each of its points.
* `CompletionSettles`, `RollbacksSettle`: that a recovery is never refused needs the exact state of each file, and of its temporary, beside
  what the journal has recorded of both, at every point where a command can die. `SettleInv` gives it, while nobody edits: a file that no command is at
  `Rests`, on one of its sides with a temporary the journal accounts for; the loop leaves files `Done` (as it confirmed them) on one side of the
  one it is at and resting on the other (`Beside`), and `AtWork` says what that one is, from point to point. After a death at
  `confirm` or with a tombstone a file rests published and unrecorded, or held by its tombstone, and `complete` goes on from there too; after the
  other windows it does not, and `SettleInv` says nothing. Every comparison of the next command is then shown to
  succeed: the live vector check (by `PositionInv`), each file's disposition, the capture of each endpoint, the final files, the cleanup
  (by `CleanupInv`) and the directories. The one refusal that remains is that of a `rollback` at a creation that is not published.
  `RollbacksSettle` assumes `AcceptedFileSet`: a registration updates one file and makes no directory, a move creates one, updates some and deletes
  one, which is what `validateMoveFileSet` lets through, and what `TypeOK` says of the journals.

**The upgrade** (`RetirementProofs`), from its `KindAssumption` and `BoundsAssumption`, over the same lemmas about the disk
(`MutationDiskProofs`): `TypeCorrect`, `TheirFilesAreKept`, `CustomizedAssetsAreKept`, `BindingIsRetiredLast`,
`GuardSeesWholeMigration`, `UpgradeIsAtomic`, the last one a refinement of `ForwardSpec`: `PrefixOnDisk(k)` says which files are new, and that the
configuration file is there, and no step makes `k` smaller. `LateInv` says for `BindingIsRetiredLast` that the record about to be unlinked is the
one compared, or one written since. The other invariants have the same names and roles. They differ where the code does: there
is no recorded state of the old side but the capture in the plan, so `TheirsAt` compares ctimes with it; the pending file and the journal in memory
agree from the first publication on (`StoreOK`); and `CommandPosition` says at which points the binding is gone.

`UpgradesSettle` has an invariant of its own, `ResumeInv`: while nobody edits and no upgrade died in a window, the upgrade is
`Resumable`. A file of the pending journal `Waits` (plain, or with a complete temporary that is not recorded yet, or with a recorded one) or is
`Settled` (at its new side by means of its temporary, or as it was confirmed); the one that the loop is at is as `Handled` says of the point; those
passed are confirmed (`PassedAreConfirmed`). The journal's plan, that no save of its progress changes, is the one of the backup (`PlanKept`), and
the binding is the plan's or what its retirement has left (`BindingKept`). Hence the next upgrade accepts the pending file,
records each complete temporary, finds each file at one of its two sides and never at another, and goes on to its end.

**Init and sync** (`InstallationProofs`), from `RootAssumption`, `ProcAssumption` and `TextsAssumption` (what `AGENTS.md` may say, to begin
with or edited, is any sequence of tokens).

* `ThereIsOneInstallation`, `GuardBeforeWrites`, from `InstallInvariant`. Until people edit the settings (`edits = 0`), a command
  under the lock is where the guard still holds (`LockOK`), and what it looked up before it writes is still so (`CaptureOK`); hence the
  only `config.yaml` is in the folder that commands find.
* `TheirTextIsKept`: `TextsInv` says that a command which is about to write has merged the block into what it captured, a text whose markers
  are well-formed, and that what it is about to replace is what it captured, or people edited it since the last comparison (`CommandOK`). The rest is about `Merge` alone, for every text (`MergeFacts`):
  what it returns is the block between two texts without markers, whether it found a block or appended one (`MergedText`), so the
  block is found there again (`BlockBetween`); and appending trims and adds nothing but blank lines at the end (`TrimFacts`,
  `BlanksAtTheEnd`). `Theirs` gives each line of people its rank among them, which says that they stay in order without a recursive
  function over the text.

**Exports** (`SourcePackProofs`), from the assumptions on names, rounds and requests (the fixed names are names, a task's
artifact has a name of its own, and the rounds to begin with list what exports wrote), and on numbers: a pack's options are integers where
`parseInteger` reads them (`PackRequestAssumption`), a profile's budget is positive (`ProfilesAssumption`), and a project is a finite
set of files with sizes and tags (`ProjectsAssumption`).

* `TheirExportsAreKept`, `PacksLeaveOnePack`: `PackInv` says that manifests, and what a command captured, are of exports; `LatestInv` that
  half way through a pack the disk is the new pack where it is written and as captured elsewhere. `DueInv` says that a file past its last
  comparison is as captured while nobody edits it: the command has the lock, and other commands stay away. Of a plan they need only that its
  artifacts are names without repetition.
* `PlansFit`: `PlansInv` says that a command before its plan has options which `parseArgs` accepted, and that a plan fits. The bundles are a fold
  over the files in the order of `Before`. In place of an induction over the files: if the bundles of some subset did not fit, those
  of a least one would not (`LeastSubset`, as strict inclusion of finite sets is well-founded); without the file that comes last they
  fit, and `Add` keeps them so (`AddStaysWithin`). The same argument gives that the fold exists (`FoldExists`), that there is one
  (`FoldUnique`), that the size of a bundle does not depend on the order in which it is summed (`CharactersAdd`), and that some file comes
  last (`SomethingIsLast`), as `Before` is a strict order on the integers it compares.

**Create, register and move** (`ContextAuthoringProofs`), from `RequestsAssumption` (what the commands' normalisation lets through),
`InitialAssumption` (the Catalog to begin with has no error), `PeopleAssumption`, `PathAssumption` and `NoneAssumption`.

* `TypeCorrect`, from `ShapeInv`: what a command knows at each point (`PlanOK`), among it that the plan's documents and manifest are those that
  the captured ones give, and that no captured file is doubly linked.
* `ManifestUpdatesAreKept`: `ManifestInv` says that the manifest with the identity that the transaction gave it is that of the
  transaction's side. A plan is applied only to the identity it captured, and its new manifest is a function of that one.
* `CapturedTextsAreKept`: `TextsInv` says that what a move has read is what is there or in `missed`, until it captured it.
* `MigratedSelectionIsKept`: about `ContextCatalog` alone, for every manifest.
* `CatalogStaysValid`: `CatalogInv` says, while nobody edits, that the Catalog is sound; that the plan of a staged command
  leads to a sound one as long as the manifest has the identity it captured; that a `create` which has loaded the Catalog meets only the
  names it may race with; and that both sides of an open transaction are sound with the documents there are. It is preserved because
  every transaction gives the manifest another identity, so a plan that another one overtook is refused, and because a `create` between
  staging and publication adds a document, which can make a collision but no other error (`MoreFiles`).
* `UndisturbedPlansAreSettled`: `NotedInv` says that the validation would accept a staged plan which nobody disturbed since, its documents
  laid over those that are there, and that a plan nobody disturbed at all knows the identity of the Catalog there is, or, once it is
  written, of the one it replaced. None of this depends on inodes and times (`SameCatalog`).
* `AllowedMovesAreStaged`: a manifest without an error has none after `ReplacePath`, with the files moved too (`ReplacedIsSound`); each
  document is found where it is moved to, with its links redirected (`StagedDocuments`), and keeps its owner (`OwnerFollows`).
* `SelectionIsFollowed`: the traversal from a set of paths is the least set closed under the children of its entries
  (`TraverseIsClosed`, `TraverseIsLeast`), so it commutes with the redirection of a path, and an entry that is appended for an undeclared path adds
  only what it leads to. That `global.md` is never moved comes from the staged load, a part of `ShapeInv`.

### Only model-checked

* Liveness under fairness: `SettledInTheEnd`, `MigrationCompletes`. Every other property of a passing run is a theorem.
* The findings, whose runs are counterexamples.

## 5. Not modelled

* Wording and layout: of documents, instructions, artifacts and reports, the redaction of secrets, and that a patch keeps every byte
  outside its span (patches are modelled by what they do to the parsed manifest and to the set of links).
* Loss of unsynced data in a power failure: a crash is the death of a process. Windows retries of an I/O call.
* Several nested planned directories; one stands for them. Journals of schema v2. The grammar of journals and configurations.
* That a document whose front matter states another role or `read_policy` than the request is refused (`validators.ts:110-143`): documents have no
  front matter. What `writeMaintenanceText` reads back after it replaced a file, in `Installation` and `SourcePack`: a difference there is an error
  message for a file that is written.
* Byte budgets of the default footprint: they are warnings. Spelling of paths beyond upper and lower case.
* What the preflight of an upgrade finds in hooks, Makefile and references: one blocker. Symbolic links.
* `Package source`, the read-only reports, the command line and the release tools, for the reasons in `PROJECT.json`.

## 6. Plan

In this order:

1. A drift or a stray file that is taken away lets the recovery finish, as a property of `MutationTransaction`.
2. That the longest transaction stays below the last sequence of the journal.
3. Path safety with symbolic links, and span patches, as operators over bounded inputs; `PackageSource`.
