------------------------- MODULE MutationTransaction -------------------------
(***************************************************************************)
(* One Context mutation (`context register` or `context move`, --apply)    *)
(* from its plan to the removal of its journal: mutation-commit.ts carries *)
(* it out, mutation-recovery.ts completes it or rolls it back after a      *)
(* crash or a refusal.  Every file system call that changes the target or  *)
(* the temporary of a file, and every publication of a journal snapshot,   *)
(* is a step; the command may die between any two of them, and people may  *)
(* edit the files at any time.                                             *)
(*                                                                         *)
(* The maintenance lock (module MaintenanceLock) lets one command run at a *)
(* time, so `command` is a single process.  The journal is one variable    *)
(* that changes atomically.                                                *)
(***************************************************************************)
EXTENDS MutationDisk, Sequences, FiniteSets

CONSTANTS
  Kind,            \* Kind[f]: what the plan does to the f-th file, in commit order
  MakesDirectory,  \* the plan creates the directory of the first file
  CrashPoints,     \* the points of a command, by pc, where a crash is considered
  RecoveryOps,     \* the recovery commands people give
  MaxCrashes,      \* bound on crashes of a command
  MaxRecoveries,   \* bound on `complete` and `rollback` commands
  MaxRollbacks,    \* bound: only the first so many of them are rollbacks
  MaxEdits         \* bound on edits by others

ASSUME KindAssumption ==
  /\ Kind \in Seq({"create", "update", "delete"})
  /\ Kind # <<>>
ASSUME BoundsAssumption ==
  /\ MakesDirectory \in BOOLEAN
  /\ RecoveryOps \subseteq {"complete", "rollback"}
  /\ {MaxCrashes, MaxRecoveries, MaxRollbacks, MaxEdits} \subseteq Nat

N == Len(Kind)
File == 1..N

VARIABLES
  directory,   \* the planned directory exists
  stray,       \* somebody else's file is in that directory
  drift,       \* another file of the Context Catalog differs from the plan's view
  journal,     \* the latest journal snapshot, or NoJournal
  command,     \* the running command
  phase,       \* history: what became of the transaction
  last,        \* history: how the last command ended
  died,        \* history: the windows in which a command died, "rollback" if
               \* one was given
  theirs,      \* history: theirs[f] is the inode somebody else left at f, or 0
               \* when there is none or it came after the last compare
  crashes, recoveries, edits

disk == <<target, temporary, clock, directory>>
environment == <<stray, drift, theirs, edits>>
vars == <<disk, environment, journal, command, phase, last, died,
          crashes, recoveries>>

Original(f) == IF Kind[f] = "create" THEN Absent
               ELSE [ino |-> 1, data |-> "old", nlink |-> 1, ctime |-> 1]

\* The immutable part of the journal's entry for f.
Planned(f) ==
  [before |-> Original(f),
   after  |-> IF Kind[f] = "delete" THEN Absent ELSE PlannedNew]

NoJournal == [state |-> "none"]
JournalState == {"planning", "prepared", "committing", "validating"}

InitialJournal ==
  [state     |-> "planning",
   applied   |-> 0,
   temporary |-> [f \in File |-> NoTemporary],
   published |-> [f \in File |-> [before |-> Unrecorded, after |-> Unrecorded]]]

Idle == [op |-> "none", pc |-> "idle", f |-> 0]

Change(f) == [planned   |-> Planned(f),
              temporary |-> journal.temporary[f],
              published |-> journal.published[f]]

Disposition(f) ==
  MutationChangeDisposition(Change(f), target[f], temporary[f])

\* mutant: rollback goes the way of complete.
AfterSide == "after"
DesiredSide == IF command.op = "rollback" THEN "before" ELSE "after"
ExpectedSide == OppositeSide(DesiredSide)
Desires(f) == Exists(Planned(f)[DesiredSide])

WriteTemporary(f, side) == CreateTemporary(f, Planned(f)[side].data)

(***************************************************************************)
(* Control of the running command.                                         *)
(***************************************************************************)
At(pc) == command.pc = pc
Goto(pc, f) == command' = [command EXCEPT !.pc = pc, !.f = f]
Ended(result) == /\ command' = Idle
                 /\ last' = [op |-> command.op, result |-> result]

\* A thrown error leaves the journal and the disk as they are.
Fail(reason) ==
  /\ Ended(reason)
  /\ UNCHANGED <<disk, journal, phase, died, crashes, recoveries>>

Continues == UNCHANGED <<phase, last, died, crashes, recoveries>>

\* Where the loop over the files starts on f.  executeContextMutationPlan has
\* staged the files that will exist; only a deletion still needs a temporary.
EnterFile(f) ==
  Goto(IF command.op = "execute" /\ Kind[f] # "delete" THEN "publish"
       ELSE "prepare", f)

LeaveFile(f) ==
  IF command.op = "rollback"
  THEN IF f = 1 THEN Goto("check", 0) ELSE EnterFile(f - 1)
  ELSE IF f = N THEN Goto("validating", 0) ELSE EnterFile(f + 1)
-----------------------------------------------------------------------------
Init ==
  /\ target = [f \in File |-> Original(f)]
  /\ temporary = [f \in File |-> Absent]
  /\ clock = [f \in File |-> 1]
  /\ directory = ~MakesDirectory
  /\ stray = FALSE /\ drift = FALSE
  /\ journal = NoJournal
  /\ command = Idle
  /\ phase = "planned"
  /\ last = [op |-> "none", result |-> "ok"]
  /\ died = {}
  /\ theirs = [f \in File |-> 0]
  /\ crashes = 0 /\ recoveries = 0 /\ edits = 0

StillAsPlanned == \A f \in File : target[f] = Original(f)

\* executeContextMutationPlanLocked up to the first journal snapshot.
Execute ==
  /\ command = Idle /\ phase = "planned"
  /\ UNCHANGED <<disk, environment, died, crashes, recoveries>>
  /\ IF directory = MakesDirectory \/ ~StillAsPlanned
     THEN /\ phase' = "refused"
          /\ last' = [op |-> "execute", result |-> "cas_conflict"]
          /\ UNCHANGED <<journal, command>>
     ELSE /\ phase' = "open"
          /\ journal' = InitialJournal
          /\ command' = [op |-> "execute", pc |-> "mkdir", f |-> 0]
          /\ UNCHANGED last

PrepareDirectories ==
  /\ At("mkdir")
  /\ directory' = TRUE
  /\ CASE command.op = "execute"  -> Goto("stage", 1)
       [] command.op = "complete" -> EnterFile(1)
  /\ Continues
  /\ UNCHANGED <<target, temporary, clock, environment, journal>>

StageTemporary ==
  LET f == command.f IN
  /\ At("stage") /\ f <= N
  /\ IF Desires(f)
     THEN WriteTemporary(f, "after") /\ Goto("record staged", f)
     ELSE Goto("stage", f + 1) /\ UNCHANGED <<target, temporary, clock>>
  /\ Continues
  /\ UNCHANGED <<directory, environment, journal>>

RecordStaged ==
  LET f == command.f IN
  /\ At("record staged")
  /\ journal' = [journal EXCEPT
       !.temporary[f] = [side |-> "after", state |-> temporary[f]]]
  /\ Goto("stage", f + 1)
  /\ Continues
  /\ UNCHANGED <<disk, environment>>

MarkPrepared ==
  /\ At("stage") /\ command.f = N + 1
  /\ journal' = [journal EXCEPT !.state = "prepared"]
  /\ Goto("recheck", 0)
  /\ Continues
  /\ UNCHANGED <<disk, environment>>

\* The second assertMutationChangesCurrent and the step to committing.
BeginCommit ==
  /\ At("recheck")
  /\ UNCHANGED environment
  /\ \/ /\ StillAsPlanned
        /\ journal' = [journal EXCEPT !.state = "committing"]
        /\ EnterFile(1)
        /\ Continues
        /\ UNCHANGED disk
     \/ ~StillAsPlanned /\ Fail("cas_conflict")
-----------------------------------------------------------------------------
(***************************************************************************)
(* The loop over the files, shared by execute, complete and rollback.      *)
(***************************************************************************)
\* mutants: a file that is in the prefix already is added again; a file that
\* is back stays in the prefix.
AppliedAgain(f) == journal.applied + 1
StillApplied(f) == journal.applied

\* markApplied and markRolledBack: the new length of applied_paths.
MarkApplied(f) == IF journal.applied >= f THEN journal.applied ELSE f
MarkRolledBack(f) == IF journal.applied < f THEN journal.applied ELSE f - 1

\* The published endpoint goes to the journal with the new applied prefix.
RecordEndpoint ==
  LET f == command.f
  IN  /\ \/ At("confirm")
         \/ At("prepare") /\ Disposition(f) = DesiredSide
         \/ At("publish") /\ Disposition(f) = DesiredSide
      /\ UNCHANGED environment
      /\ IF DesiredEndpointReached(Change(f), target[f], temporary[f],
                                   DesiredSide)
         THEN /\ journal' = [journal EXCEPT
                   !.published[f][DesiredSide] = target[f],
                   !.applied = IF command.op = "rollback"
                               THEN MarkRolledBack(f) ELSE MarkApplied(f)]
              /\ LeaveFile(f)
              /\ Continues
              /\ UNCHANGED disk
         ELSE Fail("post_commit_mismatch")

KeepTemporary ==
  LET f == command.f IN
  /\ At("prepare") /\ Disposition(f) # DesiredSide
  /\ Exists(temporary[f])
  /\ ReusableTemporary(Change(f), temporary[f], DesiredSide)
  /\ Goto("publish", f)
  /\ Continues
  /\ UNCHANGED <<disk, environment, journal>>

DropTemporary ==
  LET f == command.f IN
  /\ At("prepare") /\ Disposition(f) # DesiredSide
  /\ Exists(temporary[f])
  /\ ~ReusableTemporary(Change(f), temporary[f], DesiredSide)
  /\ UNCHANGED environment
  /\ IF RemovableTemporary(Change(f), target[f], temporary[f])
     THEN /\ UnlinkTemporary(f)
          /\ Goto("restage", f)
          /\ Continues
          /\ UNCHANGED <<directory, journal>>
     ELSE Fail("temporary_identity_changed")

\* stageMutationTemporary, for a side whose file exists.
StageReplacement ==
  LET f == command.f IN
  /\ \/ At("restage")
     \/ At("prepare") /\ Disposition(f) # DesiredSide /\ ~Exists(temporary[f])
  /\ Desires(f)
  /\ WriteTemporary(f, DesiredSide)
  /\ Goto("record temporary", f)
  /\ Continues
  /\ UNCHANGED <<directory, environment, journal>>

\* stageDeletionTombstone: a second link keeps the file that will be unlinked.
StageDeletionTombstone ==
  LET f == command.f IN
  /\ \/ At("restage")
     \/ At("prepare") /\ Disposition(f) # DesiredSide /\ ~Exists(temporary[f])
  /\ ~Desires(f)
  /\ UNCHANGED environment
  /\ IF Disposition(f) = ExpectedSide /\ target[f].nlink = 1
     THEN /\ LinkBoth(f, target[f])
          /\ Goto("record temporary", f)
          /\ Continues
          /\ UNCHANGED <<directory, journal>>
     ELSE Fail("recovery_conflict")

RecordTemporary ==
  LET f == command.f
      side == IF Desires(f) THEN DesiredSide ELSE ExpectedSide
  IN  /\ At("record temporary")
      /\ UNCHANGED environment
      /\ IF \/ Desires(f)
            \/ /\ target[f] = temporary[f] /\ temporary[f].nlink = 2
               /\ SamePayload(target[f], Planned(f)[side])
         THEN /\ journal' = [journal EXCEPT
                   !.temporary[f] = [side |-> side, state |-> temporary[f]]]
              /\ Goto("publish", f)
              /\ Continues
              /\ UNCHANGED disk
         ELSE Fail("deletion_tombstone_readback_mismatch")

ReadyToPublish(f) ==
  IF Desires(f)
  THEN /\ TemporaryReady(Change(f), temporary[f], DesiredSide)
       /\ target[f].nlink <= 1
  ELSE DeletionTombstoneReady(Change(f), target[f], temporary[f], ExpectedSide)

\* applyMutationState up to its second compare.
SecondCompare ==
  LET f == command.f IN
  /\ At("publish") /\ Disposition(f) # DesiredSide
  /\ UNCHANGED environment
  /\ \/ /\ Disposition(f) = ExpectedSide /\ ReadyToPublish(f)
        /\ Goto("commit", f)
        /\ Continues
        /\ UNCHANGED <<disk, journal>>
     \/ /\ ~(Disposition(f) = ExpectedSide /\ ReadyToPublish(f))
        /\ Fail("recovery_conflict")

\* mutant: a file is put in its place by rename, always.
AnyIsReplaced(f) == TRUE
\* The opposite side exists, so the temporary is renamed over it.
Replaces(f) == Exists(Planned(f)[ExpectedSide])

\* The rename or unlink hits whatever is at the path by now: the "narrow
\* window" of the comment.  A link refuses an occupied path.
PublishChange ==
  LET f == command.f IN
  /\ At("commit")
  /\ UNCHANGED environment
  /\ CASE ~Desires(f) /\ Exists(target[f]) ->
            /\ UnlinkTarget(f) /\ Goto("confirm", f)
            /\ Continues /\ UNCHANGED <<directory, journal>>
       [] Desires(f) /\ Replaces(f) ->
            /\ RenameTemporary(f) /\ Goto("confirm", f)
            /\ Continues /\ UNCHANGED <<directory, journal>>
       [] Desires(f) /\ ~Replaces(f) /\ ~Exists(target[f]) ->
            /\ LinkBoth(f, temporary[f]) /\ Goto("unlink temporary", f)
            /\ Continues /\ UNCHANGED <<directory, journal>>
       [] OTHER -> Fail("destination_collision")

UnlinkPublishedTemporary ==
  LET f == command.f IN
  /\ At("unlink temporary")
  /\ UnlinkTemporary(f)
  /\ Goto("confirm", f)
  /\ Continues
  /\ UNCHANGED <<directory, environment, journal>>
-----------------------------------------------------------------------------
MarkValidating ==
  /\ At("validating")
  /\ journal' = [journal EXCEPT !.state = "validating"]
  /\ Goto("check", 0)
  /\ Continues
  /\ UNCHANGED <<disk, environment>>

\* assertMutationChangesContentState: the recorded endpoints, single links.
ContentState(side) ==
  \A f \in File : /\ target[f] = journal.published[f][side]
                  /\ target[f].nlink <= 1

AfterCleanup == IF command.op = "rollback" THEN "rmdir" ELSE "finish"

\* mutant: the temporaries stay.
SkipCleanup == Goto(AfterCleanup, 0)
BeginCleanup == Goto("cleanup", 1)

\* The content is asserted, then the catalog is loaded and compared.
CheckResult ==
  /\ At("check")
  /\ UNCHANGED environment
  /\ CASE ~ContentState(DesiredSide) -> Fail("content_state_conflict")
       [] ContentState(DesiredSide) /\ drift -> Fail("catalog_mismatch")
       [] OTHER -> /\ BeginCleanup
                   /\ Continues
                   /\ UNCHANGED <<disk, journal>>

CleanupTemporary ==
  LET f == command.f IN
  /\ At("cleanup")
  /\ UNCHANGED environment
  /\ IF /\ Exists(temporary[f])
        /\ ~RemovableTemporary(Change(f), target[f], temporary[f])
     THEN Fail("temporary_identity_changed")
     ELSE /\ IF Exists(temporary[f])
             THEN UnlinkTemporary(f)
             ELSE UNCHANGED <<target, temporary, clock>>
          /\ IF f = N THEN Goto(AfterCleanup, 0) ELSE Goto("cleanup", f + 1)
          /\ Continues
          /\ UNCHANGED <<directory, journal>>

DirectoryInUse == stray \/ Exists(target[1]) \/ Exists(temporary[1])

RollbackDirectories ==
  /\ At("rmdir")
  /\ UNCHANGED environment
  /\ IF MakesDirectory /\ directory /\ DirectoryInUse
     THEN Fail("directory_recovery_not_empty")
     ELSE /\ directory' = ~MakesDirectory
          /\ Goto("finish", 0)
          /\ Continues
          /\ UNCHANGED <<target, temporary, clock, journal>>

RemoveJournal ==
  /\ At("finish")
  /\ journal' = NoJournal
  /\ phase' = IF command.op = "rollback" THEN "rolled back" ELSE "completed"
  /\ Ended("ok")
  /\ UNCHANGED <<disk, environment, died, crashes, recoveries>>
-----------------------------------------------------------------------------
(***************************************************************************)
(* `context transaction complete` and `rollback`.                          *)
(***************************************************************************)
Applied(k) == /\ \A f \in 1..k : Disposition(f) = "after"
              /\ \A f \in (k + 1)..N : Disposition(f) = "before"

\* mutant: a file that is published and not journaled is not expected.
LiveVectorAsRecorded ==
  IF journal.state = "validating" THEN Applied(N) ELSE Applied(journal.applied)

\* assertRecoveryLiveVector.
LiveVectorAllowed ==
  \E k \in 0..N :
    /\ Applied(k)
    /\ CASE journal.state = "validating"              -> k = N
         [] journal.state \in {"planning", "prepared"} -> k = 0
         [] journal.state = "committing" ->
              k \in {journal.applied - 1, journal.applied, journal.applied + 1}

RefusalOfVector ==
  IF \E f \in File : Disposition(f) = "unrecorded"
  THEN "temporary_identity_unrecorded"
  ELSE "recovery_conflict"

Recover(op) ==
  /\ op \in RecoveryOps
  /\ command = Idle /\ journal # NoJournal
  /\ recoveries < IF op = "rollback" THEN MaxRollbacks ELSE MaxRecoveries
  /\ recoveries' = recoveries + 1
  /\ died' = died \cup ({op} \cap {"rollback"})
  /\ UNCHANGED <<disk, environment, phase, crashes>>
  /\ IF LiveVectorAllowed
     THEN /\ journal' = [journal EXCEPT !.state = "committing"]
          /\ command' = IF op = "complete"
                        THEN [op |-> op, pc |-> "mkdir", f |-> 0]
                        ELSE [op |-> op, pc |-> "prepare", f |-> N]
          /\ UNCHANGED last
     ELSE /\ last' = [op |-> op, result |-> RefusalOfVector]
          /\ UNCHANGED <<journal, command>>

Complete == Recover("complete")
Rollback == Recover("rollback")

Step ==
  \/ PrepareDirectories \/ StageTemporary \/ RecordStaged \/ MarkPrepared
  \/ BeginCommit \/ RecordEndpoint \/ KeepTemporary \/ DropTemporary
  \/ StageReplacement \/ StageDeletionTombstone \/ RecordTemporary
  \/ SecondCompare \/ PublishChange \/ UnlinkPublishedTemporary
  \/ MarkValidating \/ CheckResult \/ CleanupTemporary
  \/ RollbackDirectories \/ RemoveJournal

\* A file system call was made that the journal does not know of, or does not
\* tell from another: a temporary that is not recorded, a created file with two
\* links, a published update, a file that is linked to its tombstone.
Windows == {"record staged", "record temporary", "unlink temporary", "confirm",
            "tombstone"}
Window == IF command.pc \in {"publish", "commit"} /\ ~Desires(command.f)
          THEN "tombstone" ELSE command.pc

\* The process dies, or an injected fault or an I/O error ends it.
Crash ==
  /\ command.pc \in CrashPoints /\ crashes < MaxCrashes
  /\ crashes' = crashes + 1
  /\ died' = died \cup ({Window} \cap Windows)
  /\ Ended("crashed")
  /\ UNCHANGED <<disk, environment, journal, phase, recoveries>>
-----------------------------------------------------------------------------
(***************************************************************************)
(* Edits by others.  Temporaries are left alone: their names are private.  *)
(***************************************************************************)
Edit == /\ edits < MaxEdits /\ phase \in {"planned", "open"}
        /\ edits' = edits + 1
        /\ UNCHANGED <<journal, command, phase, last, died, crashes, recoveries>>

\* f has been compared for the last time and is about to be renamed over or
\* unlinked.
InWindow(f) == /\ At("commit") /\ command.f = f
               /\ Exists(Planned(f)[ExpectedSide])

Leaves(f, ino) == theirs' = [theirs EXCEPT ![f] = IF InWindow(f) THEN 0 ELSE ino]

\* Somebody puts an inode of their own at f: a new file, or an editor's
\* write-and-rename with new bytes or with the very same bytes.
ReplaceFile(f) ==
  /\ Edit
  /\ f = 1 => directory
  /\ \E data \in {"foreign", target[f].data} \ {"absent"} : PutFile(f, data)
  /\ Leaves(f, clock[f] + 1)
  /\ UNCHANGED <<directory, stray, drift>>

\* Somebody writes into the file that is at f.
OverwriteFile(f) ==
  /\ Edit
  /\ Exists(target[f])
  /\ WriteInto(f)
  /\ Leaves(f, target[f].ino)
  /\ UNCHANGED <<directory, stray, drift>>

RemoveFile(f) ==
  /\ Edit
  /\ Exists(target[f])
  /\ UnlinkTarget(f)
  /\ Leaves(f, 0)
  /\ UNCHANGED <<directory, stray, drift>>

\* Another Catalog file changes, or is restored.
ChangeCatalog ==
  /\ Edit
  /\ drift' = ~drift
  /\ UNCHANGED <<disk, stray, theirs>>

\* Somebody's own file appears in the new directory, or goes away.
UseDirectory ==
  /\ Edit
  /\ MakesDirectory
  /\ stray' = ~stray
  /\ directory' = (directory \/ stray')
  /\ UNCHANGED <<target, temporary, clock, drift, theirs>>

Others == \/ \E f \in File : ReplaceFile(f) \/ OverwriteFile(f) \/ RemoveFile(f)
          \/ ChangeCatalog \/ UseDirectory

Next == Execute \/ Step \/ Complete \/ Rollback \/ Crash \/ Others

Spec == Init /\ [][Next]_vars

\* A command that has started goes on: nothing in it waits for anything.
FairSpec == Spec /\ WF_vars(Step)
-----------------------------------------------------------------------------
(***************************************************************************)
(* Properties.                                                             *)
(***************************************************************************)
Pc == {"idle", "mkdir", "stage", "record staged", "recheck", "prepare",
       "restage", "record temporary", "publish", "commit", "unlink temporary",
       "confirm", "validating", "check", "cleanup", "rmdir", "finish"}

Journal ==
  [state     : JournalState,
   applied   : 0..N,
   temporary : [File -> [side : Side, state : FileState] \cup {NoTemporary}],
   published : [File -> [Side -> FileState \cup {Unrecorded}]]]

(***************************************************************************)
(* validateContextMutationJournal: every reader and every publication of a *)
(* snapshot refuses a journal without this shape, whose transaction could  *)
(* then neither be completed nor rolled back.                              *)
(***************************************************************************)
AcceptedSides(f) ==
  LET sides == Planned(f)
  IN  /\ sides.before.data # sides.after.data
      /\ Exists(sides.before) => sides.before.ino # 0 /\ sides.before.nlink = 1
      /\ sides.after.ino = 0

\* A temporary with two links stands for a file that is to be unlinked.
AcceptedTemporary(f) ==
  LET recorded == journal.temporary[f]
  IN  recorded = NoTemporary
        \/ /\ Exists(recorded.state)
           /\ SamePayload(recorded.state, Planned(f)[recorded.side])
           /\ recorded.state.nlink \in {1, 2}
           /\ recorded.state.nlink = 2 =>
                ~Exists(Planned(f)[OppositeSide(recorded.side)])

AcceptedEndpoints(f) ==
  \A side \in Side :
    LET endpoint == journal.published[f][side]
    IN  endpoint = Unrecorded \/ SamePayload(endpoint, Planned(f)[side])

AcceptedProgress ==
  /\ journal.state = "validating" => journal.applied = N
  /\ \A f \in 1..journal.applied : journal.published[f]["after"] # Unrecorded
  /\ journal.state \in {"planning", "prepared"} =>
       /\ journal.applied = 0
       /\ \A f \in File, side \in Side : journal.published[f][side] = Unrecorded

\* validateMoveFileSet and the file set of a registration.
AcceptedFileSet ==
  \/ Kind = <<"update">> /\ ~MakesDirectory
  \/ /\ N >= 3 /\ Kind[1] = "create" /\ Kind[N] = "delete"
     /\ \A f \in 2..(N - 1) : Kind[f] = "update"

AcceptedJournal ==
  /\ AcceptedFileSet
  /\ AcceptedProgress
  /\ \A f \in File :
       AcceptedSides(f) /\ AcceptedTemporary(f) /\ AcceptedEndpoints(f)

\* Every variable keeps its type, and a journal the program writes is one that
\* the program reads again (mutation-journal-validation.ts:26-103).
TypeOK ==
  /\ target \in [File -> FileState]
  /\ temporary \in [File -> FileState]
  /\ clock \in [File -> Nat]
  /\ theirs \in [File -> Nat]
  /\ {directory, stray, drift} \subseteq BOOLEAN
  /\ journal \in Journal \cup {NoJournal}
  /\ journal # NoJournal => AcceptedJournal
  /\ command \in [op : {"none", "execute", "complete", "rollback"},
                  pc : Pc, f : 0..(N + 1)]
  /\ phase \in {"planned", "open", "completed", "rolled back", "refused"}
  /\ {crashes, recoveries, edits} \subseteq Nat

AfterData(f) == Planned(f).after.data
BeforeData(f) == Planned(f).before.data

PrefixOnDisk(k) ==
  /\ \A f \in 1..k : target[f].data = AfterData(f)
  /\ \A f \in (k + 1)..N : target[f].data = BeforeData(f)

Undisturbed == edits = 0

\* While nobody edits the files, the files at their new side are a prefix of
\* the commit order, and the journal is never more than one file off:
\* nothing is published before "committing" and everything by "validating".
\* assertRecoveryLiveVector (mutation-recovery.ts:224-255) relies on it.
JournalTracksDisk ==
  Undisturbed /\ journal # NoJournal =>
    \E k \in 0..N :
      /\ PrefixOnDisk(k)
      /\ journal.state \in {"planning", "prepared"} => k = 0
      /\ journal.state = "validating" => k = N
      /\ k \in {journal.applied - 1, journal.applied, journal.applied + 1}

\* A command never replaces, changes or unlinks a file that somebody else left
\* at a planned path: execute, complete and rollback stop instead
\* (commands/context-transaction.ts:111).  Not so in the window after the
\* second compare of applyMutationState (mutation-cas.ts:229-231).
TheirFilesSurvive ==
  [][\A f \in File :
       /\ theirs[f] # 0
       /\ edits' = edits
       => /\ target'[f].ino = target[f].ino
          /\ target'[f].data = target[f].data]_vars

\* A file that appears at the path of a planned creation survives even there:
\* the temporary is linked, never renamed, onto it (mutation-cas.ts:248-257).
CreationNeverOverwrites ==
  [][\A f \in File :
       /\ At("commit") /\ command.f = f
       /\ Desires(f) /\ ~Exists(Planned(f)[ExpectedSide])
       /\ Exists(target[f])
       /\ edits' = edits
       => target'[f] = target[f]]_vars

\* The journal goes away only when the transaction is settled: no temporary is
\* left, and while nobody edits the files all of them are at the side of the
\* command that removes it, a rolled back directory included
\* (mutation-commit.ts:171-185, mutation-recovery.ts:194-198).
JournalRemovalSettles ==
  [][journal # NoJournal /\ journal' = NoJournal =>
       /\ \A f \in File : ~Exists(temporary[f])
       /\ Undisturbed =>
            /\ PrefixOnDisk(IF command.op = "rollback" THEN 0 ELSE N)
            /\ command.op = "rollback" => directory = ~MakesDirectory]_vars

\* Nobody's file is in the way, and the command ran to its end.
Settles(op) ==
  Undisturbed /\ last.op = op => last.result \in {"ok", "crashed"}

\* A window in which complete cannot go on: nothing in the journal tells the
\* temporary on disk from somebody else's, or the created file has two links.
LostForComplete ==
  \/ died \cap {"record staged", "record temporary", "unlink temporary"} # {}
  \/ "rollback" \in died /\ died \cap {"confirm", "tombstone"} # {}

\* "A new register/move transaction is refused until this journal is completed
\* or rolled back" (commands/context-transaction.ts:109-110): a `complete`
\* that nobody's edit stands in the way of is not refused, wherever the commands
\* before it died but in a window and whatever rollback had begun to undo.
CompleteSettles == LostForComplete \/ Settles("complete")

\* A creation whose publication the journal does not have.
UnpublishedCreation ==
  journal # NoJournal
    /\ \E f \in File : Kind[f] = "create" /\ journal.published[f].after = Unrecorded

\* The same of `rollback`, once the journal has every creation.
RollbackSettles ==
  command = Idle /\ died \subseteq {"rollback"} /\ ~UnpublishedCreation
    => Settles("rollback")

\* While nobody edits anything, a transaction that is open is settled if people
\* give `complete` again after every crash and every rollback that failed.
SettledInTheEnd ==
  phase = "open" ~> phase \in {"completed", "rolled back"} \/ LostForComplete

\* What the commands' help says of complete, without the windows.
CompleteAlwaysSettles == Settles("complete")

\* And of rollback.
RollbackAlwaysSettles == Settles("rollback")

\* Nobody gives up: `complete` is given as often as it takes.
PersistentSpec == FairSpec /\ WF_vars(Complete)

FilesApplied ==
  Cardinality({f \in File : target[f].data = AfterData(f)})

Atomic == INSTANCE AtomicMutation WITH applied <- FilesApplied, outcome <- phase

\* While nobody edits the files, the transaction does what AtomicMutation
\* promises, whatever crashes.
ImplementsAtomicMutation == Atomic!Spec
=============================================================================
