------------------------------ MODULE Retirement ------------------------------
(***************************************************************************)
(* `ty-context upgrade` of a schema-4 workspace (retirement-runner.ts).    *)
(* The plan deletes the exact old package assets, rewrites the config file *)
(* and publishes AGENTS.md last; a pending file carries it over crashes    *)
(* and keeps every other command out (schema-guard.ts) until all files are *)
(* at their new side and the old binding of the worktree is retired.       *)
(*                                                                         *)
(* The upgrade holds the maintenance lock, so it is one process.  A save   *)
(* of the pending file renames a temporary of a random name over it and is *)
(* one step; its first publication and its removal have two links in       *)
(* between and are several.  The backup is published in the step before    *)
(* the pending file, under the random id of the run: a crash in the middle *)
(* of it leaves a file that nothing reads.                                 *)
(***************************************************************************)
EXTENDS MutationDisk, Sequences, FiniteSets

CONSTANTS
  Kind,         \* Kind[f]: what the f-th file is, in commit order
  CrashPoints,  \* the points of an upgrade, by pc, where a crash is considered
  MaxCrashes,   \* bound on crashes
  MaxEdits      \* bound on edits by others

ASSUME KindAssumption ==
  /\ Kind \in Seq({"asset", "config", "startup"})
  /\ Cardinality({f \in DOMAIN Kind : Kind[f] = "config"}) = 1
ASSUME BoundsAssumption == MaxCrashes \in Nat /\ MaxEdits \in Nat

N == Len(Kind)
File == 1..N
ConfigFile == CHOOSE f \in File : Kind[f] = "config"

VARIABLES
  pending,     \* tmp/ty-context/upgrade-schema-5.json: its links and its journal
  backup,      \* the journal as it was prepared, in upgrade-backups
  binding,     \* the old active record of this worktree and the git marker
  blocker,     \* the plan finds something that only a person can settle
  transaction, \* a Context transaction of the old tool is unfinished
  drift,       \* the Context changed: another default body selection
  command,     \* the running upgrade
  memory,      \* the journal it works with
  phase,       \* history: what became of the migration
  last,        \* history: how the last upgrade ended
  theirs,      \* history: the inode somebody left at f after the plan read it
               \* and before its last compare, or 0
  late,        \* history: an old session wrote the record after its last compare
  died,        \* history: the windows in which an upgrade died
  crashes, edits

faults == <<died, crashes>>
disk == <<target, temporary, clock>>
others == <<blocker, transaction, drift, theirs, late, edits>>
vars == <<disk, pending, backup, binding, others, command, memory, phase,
          last, faults>>

After(f) == IF Kind[f] = "asset" THEN Absent ELSE PlannedNew

\* mutant: a file that is missing is not created.
ChangedExisting(before) ==
  {f \in File : Exists(before[f]) /\ before[f].data # After(f).data}
\* createJournal keeps the files whose bytes change.
Changed(before) == {f \in File : before[f].data # After(f).data}

NoJournal == [files |-> {}]
NoPending == [links |-> 0, journal |-> NoJournal]

CreateJournal ==
  [files     |-> Changed(target),
   before    |-> target,
   temporary |-> [f \in File |-> NoTemporary],
   published |-> [f \in File |-> Unrecorded],
   record    |-> binding.record,
   marker    |-> binding.marker]

\* mutant: the progress counts as part of the plan.
WholePlan(journal) == journal
ImmutablePlan(journal) ==
  [journal EXCEPT !.temporary = [f \in File |-> NoTemporary],
                  !.published = [f \in File |-> Unrecorded]]

Change(f) ==
  [planned   |-> [before |-> memory.before[f], after |-> After(f)],
   temporary |-> memory.temporary[f],
   published |-> [before |-> Unrecorded, after |-> memory.published[f]]]

Disposition(f) ==
  MutationChangeDisposition(Change(f), target[f], temporary[f])

Idle == [pc |-> "idle", f |-> 0]
At(pc) == command.pc = pc
Goto(pc, f) == command' = [pc |-> pc, f |-> f]

\* The first file from f on that the journal has; then the validation.
EnterFrom(f) ==
  LET left == {g \in memory'.files : g >= f}
  IN  IF left = {} THEN Goto("validate", 0)
      ELSE Goto("reconcile", CHOOSE g \in left : \A h \in left : g <= h)

Ended(result) ==
  /\ command' = Idle
  /\ memory' = NoJournal
  /\ last' = result

Fail(reason) ==
  /\ Ended(reason)
  /\ UNCHANGED <<disk, pending, backup, binding, phase>>

Save(journal) ==
  /\ memory' = journal
  /\ pending' = [pending EXCEPT !.journal = journal]

Continues == UNCHANGED <<others, faults, last, phase>>
KeepsJournal == UNCHANGED <<memory, pending, backup, binding>>
-----------------------------------------------------------------------------
\* The version in the raw configuration; "0" for one that no command knows.
RawSchemaVersion ==
  CASE ~Exists(target[ConfigFile])     -> "undefined"
    [] target[ConfigFile].data = "old" -> "4"
    [] target[ConfigFile].data = "new" -> "5"
    [] OTHER -> "0"

PendingExists == pending.links > 0

\* mutant: the guard asks for the version alone.
CurrentVersionSupported == RawSchemaVersion \in {"5", "undefined"}
\* What assertSupportedSchema demands of every command but upgrade.
OrdinaryCommandAllowed == ~PendingExists /\ RawSchemaVersion \in {"5", "undefined"}

\* An asset that is not the exact one of the package is not deleted.
CustomizedAsset == \E f \in File : Kind[f] = "asset" /\ target[f].data = "foreign"

\* The old active record cannot be read, or is not the one of this worktree.
UnsupportedRecord == binding.record \in {"linked", "changed"}

\* mutant: a customized asset is deleted like an exact one.
AnyCustomizationAccepted == blocker \/ UnsupportedRecord
\* What makes planSchema5Retirement report a blocker.
PlanBlocked == blocker \/ UnsupportedRecord \/ CustomizedAsset

Init ==
  /\ \E absent \in SUBSET {f \in File : Kind[f] = "startup"} :
       target = [f \in File |-> IF f \in absent THEN Absent
                 ELSE [ino |-> 1, data |-> "old", nlink |-> 1, ctime |-> 1]]
  /\ temporary = [f \in File |-> Absent]
  /\ clock = [f \in File |-> 1]
  /\ pending = NoPending /\ backup = NoJournal
  /\ binding \in [record : {"absent", "recorded"}, marker : {"none", "ours"}]
  /\ blocker \in BOOLEAN /\ transaction \in BOOLEAN
  /\ drift = FALSE
  /\ command = Idle /\ memory = NoJournal
  /\ phase = "planned" /\ last = "ok"
  /\ theirs = [f \in File |-> 0] /\ late = FALSE
  /\ died = {} /\ crashes = 0 /\ edits = 0

Refuse(reason) ==
  /\ last' = reason
  /\ UNCHANGED <<disk, pending, backup, binding, others, command, memory,
                 phase, faults>>

\* readRetirementJournal: an unlinked, readable file bound to its backup.
JournalReadable ==
  /\ pending.links = 1
  /\ backup # NoJournal
  /\ ImmutablePlan(pending.journal) = backup

\* assertLegacyContextTransactionSettled.
LegacyTransactionSettled == ~transaction

\* runUpgradeReport and the start of runSchema5Retirement, under the lock.
Start(sessions_stopped) ==
  /\ command = Idle
  /\ CASE RawSchemaVersion = "5" /\ ~PendingExists -> Refuse("synced")
       [] ~LegacyTransactionSettled -> Refuse("unfinished Context transaction")
       [] PendingExists /\ ~JournalReadable -> Refuse("unreadable journal")
       [] PendingExists /\ JournalReadable /\ sessions_stopped
          /\ LegacyTransactionSettled ->
            /\ memory' = pending.journal
            /\ EnterFrom(1)
            /\ UNCHANGED <<disk, pending, backup, binding, others, phase,
                           last, faults>>
       [] ~PendingExists /\ RawSchemaVersion # "5" /\ LegacyTransactionSettled
          /\ (RawSchemaVersion # "4" \/ PlanBlocked) -> Refuse("blocked")
       [] ~PendingExists /\ RawSchemaVersion = "4" /\ LegacyTransactionSettled
          /\ ~PlanBlocked /\ sessions_stopped ->
            /\ memory' = CreateJournal
            /\ Goto("backup", 0)
            /\ theirs' = [f \in File |-> 0]
            /\ UNCHANGED <<disk, pending, backup, binding, blocker,
                           transaction, drift, late, edits, phase, last, faults>>
       [] OTHER -> Refuse("sessions not stopped")

WriteBackup ==
  /\ At("backup")
  /\ backup' = memory
  /\ Goto("pending", 0)
  /\ Continues /\ UNCHANGED <<disk, memory, pending, binding>>

\* The first publication: link, then unlink of the temporary's name.
LinkPending ==
  /\ At("pending")
  /\ pending' = [links |-> 2, journal |-> memory]
  /\ phase' = "open"
  /\ Goto("unlink pending temporary", 0)
  /\ UNCHANGED <<disk, memory, backup, binding, others, faults, last>>

UnlinkPendingTemporary ==
  /\ At("unlink pending temporary")
  /\ pending' = [pending EXCEPT !.links = 1]
  /\ memory' = memory
  /\ EnterFrom(1)
  /\ Continues /\ UNCHANGED <<disk, backup, binding>>
-----------------------------------------------------------------------------
(***************************************************************************)
(* The loop over the files.                                                *)
(***************************************************************************)
\* mutant: a linked tombstone is not recognised.
StagedFileOnly(f) ==
  IF /\ Exists(After(f)) /\ temporary[f].data = After(f).data
     /\ temporary[f].nlink = 1
     /\ target[f].data = memory.before[f].data
  THEN "after" ELSE "none"

\* The side of a temporary that a crash left unrecorded.
UnrecordedSide(f) ==
  LET before == memory.before[f]
  IN  CASE /\ Exists(After(f)) /\ temporary[f].data = After(f).data
           /\ temporary[f].nlink = 1
           /\ target[f].data = before.data                     -> "after"
        [] /\ ~Exists(After(f))
           /\ target[f].data = before.data /\ temporary[f].data = before.data
           /\ target[f].ino = before.ino
           /\ temporary[f].ino = target[f].ino
           /\ temporary[f].nlink = 2 /\ target[f].nlink = 2    -> "before"
        [] OTHER                                               -> "none"

ReconcileUnrecordedTemporary ==
  LET f == command.f
      side == UnrecordedSide(f)
  IN  /\ At("reconcile")
      /\ UNCHANGED <<others, faults>>
      /\ IF memory.temporary[f] = NoTemporary /\ Exists(temporary[f])
         THEN \/ /\ side # "none"
                 /\ Save([memory EXCEPT !.temporary[f] =
                           [side |-> side, state |-> temporary[f]]])
                 /\ Goto("compare", f)
                 /\ UNCHANGED <<disk, backup, binding, last, phase>>
              \/ side = "none" /\ Fail("upgrade_temporary_conflict")
         ELSE /\ Goto("compare", f)
              /\ KeepsJournal /\ UNCHANGED <<disk, last, phase>>

CompareFile ==
  LET f == command.f IN
  /\ At("compare")
  /\ UNCHANGED <<others, faults>>
  /\ CASE Disposition(f) = "after" /\ memory.published[f] = Unrecorded ->
            /\ Goto("confirm", f)
            /\ KeepsJournal /\ UNCHANGED <<disk, last, phase>>
       [] Disposition(f) = "after" /\ memory.published[f] # Unrecorded ->
            /\ memory' = memory /\ EnterFrom(f + 1)
            /\ UNCHANGED <<disk, pending, backup, binding, last, phase>>
       [] Disposition(f) = "before" ->
            /\ Goto(IF memory.temporary[f] # NoTemporary THEN "publish"
                    ELSE IF Exists(After(f)) THEN "stage" ELSE "tombstone", f)
            /\ KeepsJournal /\ UNCHANGED <<disk, last, phase>>
       [] OTHER -> Fail("upgrade_conflict")

\* stageMutationTemporary creates the file and then writes it.
OpenTemporary ==
  LET f == command.f IN
  /\ At("stage")
  /\ CreateTemporary(f, "foreign")
  /\ Goto("write", f)
  /\ Continues /\ KeepsJournal

WriteTemporary ==
  LET f == command.f IN
  /\ At("write")
  /\ temporary' = [temporary EXCEPT ![f].data = After(f).data,
                                    ![f].ctime = clock[f] + 1]
  /\ Tick(f)
  /\ Goto("record", f)
  /\ Continues /\ KeepsJournal /\ UNCHANGED target

StageDeletionTombstone ==
  LET f == command.f IN
  /\ At("tombstone")
  /\ UNCHANGED <<others, faults>>
  /\ IF Disposition(f) = "before" /\ target[f].nlink = 1
     THEN /\ LinkBoth(f, target[f])
          /\ Goto("record", f)
          /\ KeepsJournal /\ UNCHANGED <<last, phase>>
     ELSE Fail("recovery_conflict")

RecordTemporary ==
  LET f == command.f
      side == IF Exists(After(f)) THEN "after" ELSE "before"
  IN  /\ At("record")
      /\ UNCHANGED <<others, faults>>
      /\ IF side = "before" => /\ target[f] = temporary[f]
                               /\ SamePayload(target[f], memory.before[f])
         THEN /\ Save([memory EXCEPT !.temporary[f] =
                        [side |-> side, state |-> temporary[f]]])
              /\ Goto("publish", f)
              /\ UNCHANGED <<disk, backup, binding, last, phase>>
         ELSE Fail("deletion_tombstone_readback_mismatch")

ReadyToPublish(f) ==
  IF Exists(After(f))
  THEN TemporaryReady(Change(f), temporary[f], "after") /\ target[f].nlink <= 1
  ELSE DeletionTombstoneReady(Change(f), target[f], temporary[f], "before")

\* mutant: a file is published over whatever is there.
ReadyWithoutCompare ==
  LET f == command.f IN
  /\ At("publish") /\ Goto("commit", f)
  /\ Continues /\ KeepsJournal /\ UNCHANGED disk

\* applyMutationChangeForward up to its second compare.
SecondCompare ==
  LET f == command.f IN
  /\ At("publish")
  /\ UNCHANGED <<others, faults>>
  /\ CASE Disposition(f) = "after" ->
            /\ Goto("confirm", f)
            /\ KeepsJournal /\ UNCHANGED <<disk, last, phase>>
       [] Disposition(f) = "before" /\ ReadyToPublish(f) ->
            /\ Goto("commit", f)
            /\ KeepsJournal /\ UNCHANGED <<disk, last, phase>>
       [] OTHER -> Fail("recovery_conflict")

PublishFile ==
  LET f == command.f IN
  /\ At("commit")
  /\ UNCHANGED <<others, faults>>
  /\ CASE ~Exists(After(f)) /\ Exists(target[f]) ->
            /\ UnlinkTarget(f) /\ Goto("confirm", f)
            /\ KeepsJournal /\ UNCHANGED <<last, phase>>
       [] Exists(After(f)) /\ Exists(memory.before[f]) ->
            /\ RenameTemporary(f) /\ Goto("confirm", f)
            /\ KeepsJournal /\ UNCHANGED <<last, phase>>
       [] Exists(After(f)) /\ ~Exists(memory.before[f])
          /\ ~Exists(target[f]) ->
            /\ LinkBoth(f, temporary[f]) /\ Goto("unlink temporary", f)
            /\ KeepsJournal /\ UNCHANGED <<last, phase>>
       [] OTHER -> Fail("destination_collision")

UnlinkPublishedTemporary ==
  LET f == command.f IN
  /\ At("unlink temporary")
  /\ UnlinkTemporary(f)
  /\ Goto("confirm", f)
  /\ Continues /\ KeepsJournal

\* captureDesiredEndpoint and the save of published_after.
RecordEndpoint ==
  LET f == command.f IN
  /\ At("confirm")
  /\ UNCHANGED <<others, faults>>
  /\ IF DesiredEndpointReached(Change(f), target[f], temporary[f], "after")
     THEN /\ Save([memory EXCEPT !.published[f] = target[f]])
          /\ EnterFrom(f + 1)
          /\ UNCHANGED <<disk, backup, binding, last, phase>>
     ELSE Fail("post_commit_mismatch")
-----------------------------------------------------------------------------
\* validate-context and the comparison of the default body selection.
ValidateContext ==
  /\ At("validate")
  /\ UNCHANGED <<others, faults>>
  /\ IF drift THEN Fail("upgrade_default_set_changed")
     ELSE Goto("final", 0) /\ KeepsJournal /\ UNCHANGED <<disk, last, phase>>

CheckFinalFiles ==
  /\ At("final")
  /\ UNCHANGED <<others, faults>>
  /\ IF \A f \in memory.files : Disposition(f) = "after"
     THEN Goto("binding", 0) /\ KeepsJournal /\ UNCHANGED <<disk, last, phase>>
     ELSE Fail("upgrade_final_file_changed")

\* mutant: the record is removed whatever it says by now.
AnyRecordRetired == binding.record # "linked"
BindingAsExpected ==
  /\ binding.marker \in {"none", memory.marker}
  /\ binding.record \in {"absent", memory.record}
  /\ binding.record # "linked"

\* retireOwnBinding; removeMaintenanceFile links its tombstone.
RetireBinding ==
  /\ At("binding")
  /\ UNCHANGED <<others, faults>>
  /\ CASE ~BindingAsExpected -> Fail("retirement_blocked")
       [] BindingAsExpected /\ binding.record = "absent" ->
            /\ Goto("marker", 0)
            /\ KeepsJournal /\ UNCHANGED <<disk, last, phase>>
       [] OTHER ->
            /\ binding' = [binding EXCEPT !.record = "linked"]
            /\ Goto("unlink record", 0)
            /\ UNCHANGED <<disk, memory, pending, backup, last, phase>>

\* The second compare of removeMaintenanceFile.
CompareRecord ==
  /\ At("unlink record")
  /\ UNCHANGED <<others, faults>>
  /\ IF binding.record = "linked"
     THEN Goto("remove record", 0) /\ KeepsJournal /\ UNCHANGED <<disk, last, phase>>
     ELSE Fail("deletion_tombstone_identity_changed")

\* The unlink of what is there by now.  A record that a session replaced in
\* between is gone with it; one that it wrote into is still at the tombstone,
\* which does not pass the readback.
RemoveRecord ==
  /\ At("remove record")
  /\ binding' = [binding EXCEPT !.record = "absent"]
  /\ \/ Goto("marker", 0) /\ UNCHANGED <<memory, last>>
     \/ binding.record # "linked" /\ Ended("post_commit_identity_mismatch")
  /\ UNCHANGED <<disk, pending, backup, others, phase, faults>>

UnsetMarker ==
  /\ At("marker")
  /\ binding' = [binding EXCEPT !.marker = "none"]
  /\ Goto("cleanup", 1)
  /\ Continues /\ UNCHANGED <<disk, memory, pending, backup>>

\* mutant: the loop runs one file too far.
PastLastFile(f) == f > N
LastFile(f) == f = N

CleanupTemporary ==
  LET f == command.f IN
  /\ At("cleanup")
  /\ UNCHANGED <<others, faults>>
  /\ IF /\ f \in memory.files /\ Exists(temporary[f])
        /\ ~RemovableTemporary(Change(f), target[f], temporary[f])
     THEN Fail("temporary_identity_changed")
     ELSE /\ IF f \in memory.files /\ Exists(temporary[f])
             THEN UnlinkTemporary(f) ELSE UNCHANGED disk
          /\ IF LastFile(f) THEN Goto("remove pending", 0)
             ELSE Goto("cleanup", f + 1)
          /\ KeepsJournal /\ UNCHANGED <<last, phase>>

LinkPendingTombstone ==
  /\ At("remove pending")
  /\ pending' = [pending EXCEPT !.links = 2]
  /\ Goto("unlink pending", 0)
  /\ Continues /\ UNCHANGED <<disk, memory, backup, binding>>

UnlinkPending ==
  /\ At("unlink pending")
  /\ pending' = NoPending
  /\ phase' = "completed"
  /\ Ended("ok")
  /\ UNCHANGED <<disk, backup, binding, others, faults>>

Step ==
  \/ WriteBackup \/ LinkPending \/ UnlinkPendingTemporary
  \/ ReconcileUnrecordedTemporary \/ CompareFile \/ OpenTemporary
  \/ WriteTemporary \/ StageDeletionTombstone \/ RecordTemporary
  \/ SecondCompare \/ PublishFile \/ UnlinkPublishedTemporary
  \/ RecordEndpoint \/ ValidateContext \/ CheckFinalFiles \/ RetireBinding
  \/ CompareRecord \/ RemoveRecord \/ UnsetMarker \/ CleanupTemporary
  \/ LinkPendingTombstone \/ UnlinkPending

\* A temporary is partly written; the pending file or the record of the binding
\* has two links.
Windows ==
  {"write", "unlink pending temporary", "unlink record", "remove record",
   "unlink pending"}

Crash ==
  /\ command.pc \in CrashPoints /\ crashes < MaxCrashes
  /\ died' = died \cup ({command.pc} \cap Windows)
  /\ crashes' = crashes + 1
  /\ Ended("crashed")
  /\ UNCHANGED <<disk, pending, backup, binding, others, phase>>
-----------------------------------------------------------------------------
(***************************************************************************)
(* What people and old host sessions do meanwhile.                         *)
(***************************************************************************)
\* The old tool finishes its transaction; a person settles a blocker.
SettleTransaction == /\ transaction /\ transaction' = FALSE
                     /\ UNCHANGED <<blocker, drift, theirs, late, edits>>
SettleBlocker == /\ blocker /\ blocker' = FALSE
                 /\ UNCHANGED <<transaction, drift, theirs, late, edits>>
Settle == /\ command = Idle
          /\ SettleTransaction \/ SettleBlocker
          /\ UNCHANGED <<disk, pending, backup, binding, command, memory,
                         phase, last, faults>>

Edit == /\ edits < MaxEdits
        /\ edits' = edits + 1
        /\ UNCHANGED <<pending, backup, command, memory, phase, last, faults,
                       blocker, transaction>>

\* f has been compared for the last time and is about to be replaced.
InWindow(f) == At("commit") /\ command.f = f /\ Exists(memory.before[f])
Leaves(f, ino) == theirs' = [theirs EXCEPT ![f] = IF InWindow(f) THEN 0 ELSE ino]

EditFile(f) ==
  /\ Edit
  /\ \/ \E data \in {"foreign", target[f].data} \ {"absent"} :
          PutFile(f, data) /\ Leaves(f, clock[f] + 1)
     \/ Exists(target[f]) /\ WriteInto(f) /\ Leaves(f, target[f].ino)
     \/ Exists(target[f]) /\ UnlinkTarget(f) /\ Leaves(f, 0)
  /\ UNCHANGED <<binding, drift, late>>

\* An old session that was not stopped writes its active record.
WriteRecord ==
  /\ Edit
  /\ binding' = [binding EXCEPT !.record = "changed"]
  /\ late' = At("remove record")
  /\ UNCHANGED <<disk, drift, theirs>>

ChangeContext ==
  /\ Edit
  /\ drift' = ~drift
  /\ UNCHANGED <<disk, binding, theirs, late>>

Others == Settle \/ (\E f \in File : EditFile(f)) \/ WriteRecord \/ ChangeContext

Next == (\E stopped \in BOOLEAN : Start(stopped)) \/ Step \/ Crash \/ Others

Spec == Init /\ [][Next]_vars

\* A started upgrade goes on, and people settle what they are told to and give
\* `upgrade --sessions-stopped` again ("resume through the same explicit
\* command", README.md:163).
PersistentSpec ==
  Spec /\ WF_vars(Step) /\ WF_vars(Settle) /\ WF_vars(Start(TRUE))
-----------------------------------------------------------------------------
Pc == {"idle", "backup", "pending", "unlink pending temporary", "reconcile",
       "compare", "stage", "write", "tombstone", "record", "publish",
       "commit", "unlink temporary", "confirm", "validate", "final", "binding",
       "unlink record", "remove record", "marker", "cleanup", "remove pending",
       "unlink pending"}

Journal ==
  [files     : SUBSET File,
   before    : [File -> FileState],
   temporary : [File -> [side : Side, state : FileState] \cup {NoTemporary}],
   published : [File -> FileState \cup {Unrecorded}],
   record    : {"absent", "recorded", "changed"},
   marker    : {"none", "ours"}] \cup {NoJournal}

\* Every variable keeps its type.
TypeOK ==
  /\ target \in [File -> FileState]
  /\ temporary \in [File -> FileState]
  /\ clock \in [File -> Nat] /\ theirs \in [File -> Nat]
  /\ pending \in [links : 0..2, journal : Journal]
  /\ {backup, memory} \subseteq Journal
  /\ binding \in [record : {"absent", "recorded", "linked", "changed"},
                  marker : {"none", "ours"}]
  /\ {blocker, transaction, drift, late} \subseteq BOOLEAN
  /\ command \in [pc : Pc, f : 0..N]
  /\ phase \in {"planned", "open", "completed"}
  /\ {crashes, edits} \subseteq Nat

Undisturbed == edits = 0

Migrated == \A f \in File : target[f].data = After(f).data

\* "Interrupted upgrades resume through the same explicit command; ordinary
\* sync refuses unfinished publication" (README.md:163): while nobody edits the
\* files, an ordinary command that the guard lets in finds the whole migration
\* done, the binding and the temporaries included, wherever upgrades crashed.
OrdinaryCommandsSeeWholeMigration ==
  Undisturbed /\ OrdinaryCommandAllowed =>
    /\ Migrated
    /\ \A f \in File : ~Exists(temporary[f])
    /\ binding = [record |-> "absent", marker |-> "none"]

\* No upgrade replaces or deletes what somebody left at a planned path after
\* the plan read it (`upgrade_conflict`: "preserve the changed file",
\* retirement-runner.ts:110-113), except in the window after the second compare.
TheirFilesSurvive ==
  [][\A f \in File :
       theirs[f] # 0 /\ edits' = edits /\ theirs'[f] = theirs[f]
       => /\ target'[f].ino = target[f].ino
          /\ target'[f].data = target[f].data]_vars

\* A customized executable asset is never deleted: it blocks the plan, and one
\* customized later is in conflict (retirement-assets.ts:73-79).
CustomizedAssetsStay ==
  [][\A f \in File :
       Kind[f] = "asset" /\ target[f].data = "foreign" /\ edits' = edits
       /\ ~InWindow(f)
       => target'[f] = target[f]]_vars

\* A record that an old session wrote after the plan is not removed, but in the
\* window between the last compare of removeMaintenanceFile and its unlink
\* (mutation-cas.ts:229-241); and while nobody edits the files the binding is
\* retired only when every file is at its new side (retirement-runner.ts:157-163,
\* retirement-binding.ts:66-77).
BindingGoesLast ==
  [][binding' # binding /\ edits' = edits =>
       /\ binding.record = "changed" /\ ~(late /\ At("remove record"))
            => binding'.record = "changed"
       /\ Undisturbed => Migrated]_vars

\* An upgrade that nobody's edit stands in the way of ends well or crashes, if no
\* upgrade before it died in a window.
UpgradeSettles ==
  Undisturbed /\ died = {} =>
    last \in {"ok", "synced", "crashed", "sessions not stopped", "blocked",
              "unfinished Context transaction"}

\* "Interrupted upgrades resume through the same explicit command" (README.md:163):
\* an open migration is completed if people give it again, but for the windows.
MigrationCompletes == phase = "open" ~> phase = "completed" \/ died # {}

FilesApplied == Cardinality({f \in File : target[f].data = After(f).data})

Atomic == INSTANCE AtomicMutation WITH applied <- FilesApplied, outcome <- phase

\* While nobody edits the files, the upgrade is an AtomicMutation that is never
\* taken back: files reach their new side one at a time while the pending file
\* is there, none returns to its old one, and all of them have reached it when
\* the pending file goes (runSchema5Retirement, retirement-runner.ts:107-144,
\* applies every change forward, and there is no rollback of an upgrade).
ImplementsAtomicMutation == Atomic!ForwardSpec
=============================================================================
