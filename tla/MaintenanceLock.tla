---------------------------- MODULE MaintenanceLock ----------------------------
(***************************************************************************)
(* The lock file that lets one maintenance command at a time work on a     *)
(* repository (maintenance-lock.ts): created with open(..., "wx"), removed *)
(* by its owner, and reclaimed from an owner that is dead by a command     *)
(* that first links the stale file to a claim named after the stale        *)
(* owner's lock_id.                                                        *)
(*                                                                         *)
(* A process runs one command.  It stands for the lock_id it draws and for *)
(* the inode of the lock file it creates: `lockFile` is the process whose  *)
(* inode is at maintenance.lock, and claim[x] the process whose inode is   *)
(* linked at maintenance.lock.reclaim-<lock_id of x>.  Pids are shared:    *)
(* PidOf gives the one the process runs under, and a process may start     *)
(* under the pid of a dead one.                                            *)
(*                                                                         *)
(* A snapshot (lstat, readFile, lstat) is one step that fails when the     *)
(* file is missing or unwritten, or when the two lstats differ.            *)
(***************************************************************************)
EXTENDS Naturals, FiniteSets

CONSTANTS
  Proc,   \* the processes that run a maintenance command
  Pid,    \* the process ids of the system
  PidOf,  \* the pid of each process
  None    \* no process

ASSUME ProcAssumption == IsFiniteSet(Proc) /\ None \notin Proc
ASSUME PidAssumption == PidOf \in [Proc -> Pid]

VARIABLES
  lockFile,   \* the inode at maintenance.lock, or None
  written,    \* the inodes that hold their owner's record
  claim,      \* claim[x]: the inode linked at the claim of x, or None
  ctime,      \* ctime[x]: the link changes of inode x so far
  live,       \* the running processes
  pc,         \* pc[p]: where p is in withMaintenanceLock
  stale,      \* stale[p]: the owner that p wants to take the lock from, or None
  snapshot,   \* snapshot[p]: links and ctime of its lock when p verified it
  result      \* history: how withMaintenanceLock ended in p

file == <<lockFile, written, claim, ctime>>
vars == <<file, live, pc, stale, snapshot, result>>

Pc == {"new", "create", "write", "read", "probe", "claim", "check",
       "unlink stale", "drop claim", "undo", "abandon claim",
       "verify", "critical", "release", "unlink own", "ended"}

Unverified == [links |-> 0, ctime |-> 0]

Links(x) == Cardinality({y \in Proc : claim[y] = x})
            + (IF lockFile = x THEN 1 ELSE 0)

\* mutant: the ctime is forgotten.
LinksOnly(x) == [links |-> Links(x)]
Identity(x) == [links |-> Links(x), ctime |-> ctime[x]]

\* processIsLive: process.kill(pid, 0) knows the pid and nothing else.
ProcessIsLive(x) == \E q \in live : PidOf[q] = PidOf[x]

Readable == lockFile # None /\ lockFile \in written

At(p, l) == p \in live /\ pc[p] = l
Goto(p, l) == pc' = [pc EXCEPT ![p] = l]

\* withMaintenanceLock returns or throws.
End(p, r) == /\ Goto(p, "ended")
             /\ result' = [result EXCEPT ![p] = r]

Touch(x) == ctime' = [ctime EXCEPT ![x] = @ + 1]

UnlinkLockFile ==
  /\ lockFile' = None
  /\ IF lockFile = None THEN UNCHANGED ctime ELSE Touch(lockFile)

UnlinkClaim(x) ==
  /\ claim' = [claim EXCEPT ![x] = None]
  /\ IF claim[x] = None THEN UNCHANGED ctime ELSE Touch(claim[x])
-----------------------------------------------------------------------------
Init ==
  /\ lockFile = None
  /\ written = {}
  /\ claim = [x \in Proc |-> None]
  /\ ctime = [x \in Proc |-> 0]
  /\ live = {}
  /\ pc = [p \in Proc |-> "new"]
  /\ stale = [p \in Proc |-> None]
  /\ snapshot = [p \in Proc |-> Unverified]
  /\ result = [p \in Proc |-> "none"]

\* No two running processes share a pid.  assertSafeRepositoryFilePath refuses
\* a lock file with a second link before anything is tried.
Start(p) ==
  /\ pc[p] = "new" /\ p \notin live
  /\ \A q \in live : PidOf[q] # PidOf[p]
  /\ live' = live \cup {p}
  /\ IF lockFile # None /\ Links(lockFile) > 1
     THEN End(p, "hardlinked")
     ELSE Goto(p, "create") /\ UNCHANGED result
  /\ UNCHANGED <<file, stale, snapshot>>

\* open(lockFile, "wx"), by a first attempt or by the holder of a claim.
Create(p) ==
  /\ At(p, "create")
  /\ UNCHANGED <<written, claim, live, stale, snapshot, result>>
  /\ \/ /\ lockFile = None
        /\ lockFile' = p
        /\ Touch(p)
        /\ Goto(p, "write")
     \/ /\ lockFile # None
        /\ Goto(p, IF stale[p] = None THEN "read" ELSE "abandon claim")
        /\ UNCHANGED <<lockFile, ctime>>

Write(p) ==
  /\ At(p, "write")
  /\ written' = written \cup {p}
  /\ Goto(p, IF stale[p] = None THEN "verify" ELSE "drop claim")
  /\ UNCHANGED <<lockFile, claim, ctime, live, stale, snapshot, result>>

\* The record cannot be written: whatever is at the path is unlinked.
WriteFails(p) ==
  /\ At(p, "write")
  /\ UnlinkLockFile
  /\ IF stale[p] = None
     THEN End(p, "write failed")
     ELSE Goto(p, "abandon claim") /\ UNCHANGED result
  /\ UNCHANGED <<written, claim, live, stale, snapshot>>

ReadStale(p) ==
  /\ At(p, "read")
  /\ Readable /\ Links(lockFile) = 1
  /\ stale' = [stale EXCEPT ![p] = lockFile]
  /\ Goto(p, "probe")
  /\ UNCHANGED <<file, live, snapshot, result>>

\* Missing, unwritten, changed between the two lstats, or an I/O error; or a
\* second link.
ReadStaleFails(p) ==
  /\ At(p, "read")
  /\ \/ End(p, "unreadable")
     \/ Readable /\ Links(lockFile) > 1 /\ End(p, "hardlinked")
  /\ UNCHANGED <<file, live, stale, snapshot>>

ProbeOwner(p) ==
  /\ At(p, "probe")
  /\ IF ProcessIsLive(stale[p])
     THEN End(p, "live owner")
     ELSE Goto(p, "claim") /\ UNCHANGED result
  /\ UNCHANGED <<file, live, stale, snapshot>>

\* link(lockFile, claim): the lock file may be somebody else's by now.
LinkClaim(p) ==
  /\ At(p, "claim")
  /\ lockFile # None /\ claim[stale[p]] = None
  /\ claim' = [claim EXCEPT ![stale[p]] = lockFile]
  /\ Touch(lockFile)
  /\ Goto(p, "check")
  /\ UNCHANGED <<lockFile, written, live, stale, snapshot, result>>

LinkClaimFails(p) ==
  /\ At(p, "claim")
  /\ lockFile = None \/ claim[stale[p]] # None
  /\ End(p, IF claim[stale[p]] # None THEN "reclaim interrupted" ELSE "error")
  /\ UNCHANGED <<file, live, stale, snapshot>>

\* mutant: whatever the claim caught is taken for the stale lock.
AnyLockClaimed(x) == Readable
\* The lock file and the claim are one inode, the one that was read, with these
\* two links.
SameLockClaimed(x) == Readable /\ lockFile = x /\ claim[x] = x /\ Links(x) = 2

CheckClaim(p) ==
  /\ At(p, "check")
  /\ Goto(p, IF SameLockClaimed(stale[p]) /\ ~ProcessIsLive(stale[p])
             THEN "unlink stale" ELSE "abandon claim")
  /\ UNCHANGED <<file, live, stale, snapshot, result>>

\* A file changed between the two lstats of a snapshot, or an I/O error.
CheckClaimFails(p) ==
  /\ At(p, "check")
  /\ Goto(p, "abandon claim")
  /\ UNCHANGED <<file, live, stale, snapshot, result>>

UnlinkStale(p) ==
  /\ At(p, "unlink stale")
  /\ UnlinkLockFile
  /\ Goto(p, "create")
  /\ UNCHANGED <<written, claim, live, stale, snapshot, result>>

\* mutant: the claim is forgotten.
AbandonWithoutUnlink(p) ==
  /\ At(p, "abandon claim")
  /\ End(p, "reclaim failed")
  /\ UNCHANGED <<file, live, stale, snapshot>>

\* An error after the claim was linked: the claim goes, if it can be unlinked.
AbandonClaim(p) ==
  /\ At(p, "abandon claim")
  /\ \/ UnlinkClaim(stale[p]) /\ End(p, "reclaim failed")
     \/ UNCHANGED <<claim, ctime>> /\ End(p, "claim left")
  /\ UNCHANGED <<lockFile, written, live, stale, snapshot>>

DropClaim(p) ==
  /\ At(p, "drop claim")
  /\ UnlinkClaim(stale[p])
  /\ Goto(p, "verify")
  /\ UNCHANGED <<lockFile, written, live, stale, snapshot, result>>

DropClaimFails(p) ==
  /\ At(p, "drop claim")
  /\ Goto(p, "undo")
  /\ UNCHANGED <<file, live, stale, snapshot, result>>

\* removeOwnedAcquisition, its own errors ignored.
RemoveOwnedAcquisition(p) ==
  /\ At(p, "undo")
  /\ \/ lockFile = p /\ UnlinkLockFile
     \/ UNCHANGED <<lockFile, ctime>>
  /\ End(p, "reclaim failed")
  /\ UNCHANGED <<written, claim, live, stale, snapshot>>

\* The snapshot that release will demand again.
Verify(p) ==
  /\ At(p, "verify")
  /\ lockFile = p
  /\ snapshot' = [snapshot EXCEPT ![p] = Identity(p)]
  /\ Goto(p, "critical")
  /\ UNCHANGED <<file, live, stale, result>>

\* The same of this snapshot, taken outside the try block: the lock file stays.
VerifyFails(p) ==
  /\ At(p, "verify")
  /\ End(p, "acquire lost")
  /\ UNCHANGED <<file, live, stale, snapshot>>

\* The action returns or throws.
FinishAction(p) ==
  /\ At(p, "critical")
  /\ Goto(p, "release")
  /\ UNCHANGED <<file, live, stale, snapshot, result>>

CheckOwnership(p) ==
  /\ At(p, "release")
  /\ IF lockFile = p /\ Identity(p) = snapshot[p]
     THEN Goto(p, "unlink own") /\ UNCHANGED result
     ELSE End(p, "ownership lost")
  /\ UNCHANGED <<file, live, stale, snapshot>>

UnlinkOwn(p) ==
  /\ At(p, "unlink own")
  /\ UnlinkLockFile
  /\ End(p, "released")
  /\ UNCHANGED <<written, claim, live, stale, snapshot>>

\* A process exits after its command, or is killed during it.
Die(p) ==
  /\ p \in live
  /\ live' = live \ {p}
  /\ UNCHANGED <<file, pc, stale, snapshot, result>>

Step(p) ==
  \/ Create(p) \/ Write(p) \/ WriteFails(p)
  \/ ReadStale(p) \/ ReadStaleFails(p) \/ ProbeOwner(p)
  \/ LinkClaim(p) \/ LinkClaimFails(p) \/ CheckClaim(p) \/ CheckClaimFails(p)
  \/ UnlinkStale(p) \/ AbandonClaim(p) \/ DropClaim(p) \/ DropClaimFails(p)
  \/ RemoveOwnedAcquisition(p) \/ Verify(p) \/ VerifyFails(p)
  \/ FinishAction(p) \/ CheckOwnership(p) \/ UnlinkOwn(p)

Next == \E p \in Proc : Start(p) \/ Step(p) \/ Die(p)

Spec == Init /\ [][Next]_vars
-----------------------------------------------------------------------------
(***************************************************************************)
(* Properties.                                                             *)
(***************************************************************************)
Result == {"none", "hardlinked", "write failed", "unreadable", "live owner",
           "reclaim interrupted", "error", "reclaim failed", "claim left",
           "acquire lost", "ownership lost", "released"}

\* Every variable keeps its type.
TypeOK ==
  /\ lockFile \in Proc \cup {None}
  /\ written \subseteq Proc
  /\ claim \in [Proc -> Proc \cup {None}]
  /\ ctime \in [Proc -> Nat]
  /\ live \subseteq Proc
  /\ pc \in [Proc -> Pc]
  /\ stale \in [Proc -> Proc \cup {None}]
  /\ snapshot \in [Proc -> [links : Nat, ctime : Nat]]
  /\ result \in [Proc -> Result]

\* p runs its action or has just finished it, and has not given the lock back.
Holds(p) == p \in live /\ pc[p] \in {"critical", "release", "unlink own"}

\* Two commands are never at work at once, however many of them find the lock
\* stale, and whatever pids the dead leave to the living ("the extracted
\* maintenance lock excludes concurrent maintenance",
\* tests/ty-context/minimal-context.test.mjs:94).
MutualExclusion == \A p, q \in Proc : Holds(p) /\ Holds(q) => p = q

\* The lock file of a running process is removed by that process alone:
\* not by the unlink of a reclaim (maintenance-lock.ts:107), of a failed write
\* (144), of an undone acquisition (277) or of a release (164) of another.
LiveLockRemovedByOwner ==
  [][\A x \in Proc :
       lockFile = x /\ x \in live /\ lockFile' # x => pc'[x] # pc[x]]_vars

\* A process that can leave a lock behind that nobody may reclaim: it died
\* between two steps of taking the lock, or could not unlink a claim.
Interrupted(p) ==
  \/ p \notin live /\ pc[p] \in {"write", "check", "unlink stale", "abandon claim"}
  \/ result[p] = "claim left"

\* Manual recovery is only ever asked for after such an interruption: in the
\* end, any other lock that is left can be read and claimed.
LeftLockCanBeReclaimed ==
  live = {} /\ lockFile # None /\ (\A p \in Proc : ~Interrupted(p)) =>
    /\ Readable
    /\ Links(lockFile) = 1
    /\ claim[lockFile] = None
=============================================================================
