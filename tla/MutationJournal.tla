---------------------------- MODULE MutationJournal ----------------------------
(***************************************************************************)
(* The journal of a Context mutation on disk (mutation-journal-storage.ts, *)
(* mutation-journal.ts) and the commands that use it.  A journal is a      *)
(* chain of snapshot files journal-<sequence>.json; a new one is written   *)
(* to a temporary, linked to its name, unlinked from the temporary's name, *)
(* and only then are the superseded ones unlinked.                         *)
(*                                                                         *)
(* Two kinds of command use it.  "apply" (register, move) asks, without    *)
(* the lock, that there is no journal, makes its plan, takes the lock and  *)
(* begins one.  "recover" (complete, rollback) reads the journal without   *)
(* the lock, takes the lock and goes on only if it finds the very same     *)
(* file; `status` is such a read alone.  A command under the lock is alone *)
(* with the journal's files, except for readers: its reads are one step,   *)
(* the reads of the others are not.  Anyone may die at any point; the lock *)
(* of a dead command is reclaimed (module MaintenanceLock).                *)
(*                                                                         *)
(* An inode is the transaction and the sequence of its journal, which      *)
(* stand for its bytes, and a stamp that no other inode has.  Its link     *)
(* count changes at most once while it is at a name, so that inode and     *)
(* link count stand for all that lstat tells.                              *)
(***************************************************************************)
EXTENDS Naturals, FiniteSets, Sequences

CONSTANTS
  Proc,         \* the commands
  Op,           \* Op[p]: "apply" or "recover"
  Plan,         \* Plan[p]: the transaction of an "apply", a digest of its plan
  Txn,          \* the transactions
  NoJournal,    \* there is no journal
  Nobody,       \* no command
  MaxSequence,  \* MAX_JOURNAL_SEQUENCE
  MaxFaults    \* bound on deaths of commands and failures of their calls

ASSUME CommandAssumption ==
  /\ Op \in [Proc -> {"apply", "recover"}]
  /\ Plan \in [Proc -> Txn]
  /\ Nobody \notin Proc
ASSUME LimitAssumption == MaxSequence \in Nat /\ MaxFaults \in Nat

VARIABLES
  dir,        \* dir[n]: the inode at the name n of the journal directory
  stamp,      \* the number of inodes so far
  holder,     \* the command that holds the maintenance lock, or Nobody
  pc,         \* pc[p]: where command p is
  listed,     \* listed[p]: names that p has listed and not examined
  inventory,  \* inventory[p]: what lstat told of the names p has examined
  chain,      \* chain[p]: the snapshots that p has read, oldest first
  expected,   \* expected[p]: the snapshot that p's journal is bound to
  since,      \* history: since[p]: the journals there were while p read
  overtaken,  \* history: commands whose journal changed while they waited
  faults

disk == <<dir, stamp>>
reading == <<listed, inventory, chain>>
history == <<since, overtaken>>
vars == <<disk, holder, pc, reading, expected, history, faults>>

Ino == [txn : Txn, seq : 0..MaxSequence, stamp : Nat]
Status == [ino : Ino, links : {1, 2}]

ASSUME NoJournalAssumption ==
  /\ NoJournal \notin [txn : Txn, seq : 0..MaxSequence]
  /\ NoJournal \notin [ino : Ino, links : Nat]

Snapshot(s) == [kind |-> "snapshot", seq |-> s, uuid |-> 0]
Temporary(s, u) == [kind |-> "temporary", seq |-> s, uuid |-> u]

\* Names of either kind in a directory, or in what was seen of one.
Snapshots(d) == {n \in DOMAIN d : n.kind = "snapshot"}
Temporaries(d) == {n \in DOMAIN d : n.kind = "temporary"}
Oldest(names) == CHOOSE n \in names : \A m \in names : n.seq <= m.seq
Newest(names) == CHOOSE n \in names : \A m \in names : n.seq >= m.seq

Links(ino) == Cardinality({n \in DOMAIN dir : dir[n] = ino})
Lstat(n) == [ino |-> dir[n], links |-> Links(dir[n])]
Present == [n \in DOMAIN dir |-> Lstat(n)]

With(d, n, v) == [m \in DOMAIN d \cup {n} |-> IF m = n THEN v ELSE d[m]]
Without(d, n) == [m \in DOMAIN d \ {n} |-> d[m]]

\* The journal that a reader undisturbed would find.
JournalIn(d) == IF Snapshots(d) = {} THEN NoJournal
                ELSE LET i == d[Newest(Snapshots(d))]
                     IN [txn |-> i.txn, seq |-> i.seq]
Journal == JournalIn(dir)
-----------------------------------------------------------------------------
(***************************************************************************)
(* Reading.  A temporary and its snapshot own each other when they are the *)
(* two links of one inode; every other second link or temporary asks for   *)
(* manual recovery.                                                        *)
(***************************************************************************)
Owned(inv, t, n) == /\ t.seq = n.seq
                    /\ inv[t] = inv[n]
                    /\ inv[n].links = 2

SafeLinks(inv) ==
  /\ \A n \in Snapshots(inv) :
       \/ inv[n].links = 1
       \/ Cardinality({t \in Temporaries(inv) : Owned(inv, t, n)}) = 1
  /\ \A t \in Temporaries(inv) :
       Cardinality({n \in Snapshots(inv) : Owned(inv, t, n)}) = 1

\* The sequence in the file is the one in its name, and its predecessor is
\* the file before: the hash of the predecessor's bytes stands in it.
Follows(previous, n, ino) ==
  /\ ino.seq = n.seq
  /\ previous # <<>> =>
       LET last == previous[Len(previous)].ino
       IN ino.txn = last.txn /\ ino.seq = last.seq + 1

Unread(p) == {n \in Snapshots(inventory[p]) :
                \A i \in DOMAIN chain[p] : chain[p][i].ino.seq # n.seq}

\* A read of a directory that nobody changes finds a chain.
Readable ==
  /\ SafeLinks(Present)
  /\ \A n \in Snapshots(dir) :
       \/ n = Oldest(Snapshots(dir))
       \/ LET m == Snapshot(n.seq - 1)
          IN m \in DOMAIN dir /\ Follows(<<Lstat(m)>>, n, dir[n])

\* mutant: the first snapshot of the chain.
FirstOf(snapshots) == IF snapshots = <<>> THEN NoJournal ELSE snapshots[1]
LatestOf(snapshots) ==
  IF snapshots = <<>> THEN NoJournal ELSE snapshots[Len(snapshots)]

\* mutant: the bytes alone.
SameBytes(a, b) == a.ino.txn = b.ino.txn /\ a.ino.seq = b.ino.seq
SameJournalIdentity(a, b) == a = b
-----------------------------------------------------------------------------
Goto(p, l) == pc' = [pc EXCEPT ![p] = l]
At(p, l) == pc[p] = l
Locked(p, l) == At(p, l) /\ holder = p

\* The read is over.
Forget(p) == /\ listed' = [listed EXCEPT ![p] = {}]
             /\ inventory' = [inventory EXCEPT ![p] = <<>>]
             /\ chain' = [chain EXCEPT ![p] = <<>>]

\* Command p returns or throws, before it has the lock or with it.
End(p) == /\ Goto(p, "ended")
          /\ Forget(p)
          /\ expected' = [expected EXCEPT ![p] = NoJournal]
          /\ since' = [since EXCEPT ![p] = {}]
          /\ overtaken' = overtaken \ {p}
Release(p) == End(p) /\ holder' = Nobody

\* The histories after a change of the directory.
Recorded ==
  /\ since' = [q \in Proc |-> IF pc[q] \in {"stat", "read"}
                              THEN since[q] \cup {Journal'} ELSE since[q]]
  /\ overtaken' = IF Journal' = Journal THEN overtaken
                  ELSE overtaken \cup {q \in Proc : At(q, "wait")}

Init ==
  /\ dir = <<>> /\ stamp = 0
  /\ holder = Nobody
  /\ pc = [p \in Proc |-> "start"]
  /\ listed = [p \in Proc |-> {}]
  /\ inventory = [p \in Proc |-> <<>>]
  /\ chain = [p \in Proc |-> <<>>]
  /\ expected = [p \in Proc |-> NoJournal]
  /\ since = [p \in Proc |-> {}]
  /\ overtaken = {}
  /\ faults = 0

\* readdir: one system call for a directory of this size.
List(p) ==
  /\ At(p, "start")
  /\ listed' = [listed EXCEPT ![p] = DOMAIN dir]
  /\ since' = [since EXCEPT ![p] = {Journal}]
  /\ Goto(p, "stat")
  /\ UNCHANGED <<disk, holder, inventory, chain, expected, overtaken, faults>>

\* lstat of one listed name, which may be gone.
Examine(p) ==
  /\ At(p, "stat")
  /\ \E n \in listed[p] :
       \/ /\ n \in DOMAIN dir
          /\ listed' = [listed EXCEPT ![p] = @ \ {n}]
          /\ inventory' = [inventory EXCEPT ![p] = With(@, n, Lstat(n))]
          /\ UNCHANGED <<pc, chain, expected, history>>
       \/ n \notin DOMAIN dir /\ End(p)
  /\ UNCHANGED <<disk, holder, faults>>

CheckLinks(p) ==
  /\ At(p, "stat") /\ listed[p] = {}
  /\ IF SafeLinks(inventory[p])
     THEN Goto(p, "read") /\ UNCHANGED <<reading, expected, history>>
     ELSE End(p)
  /\ UNCHANGED <<disk, holder, faults>>

\* readFile and the second lstat.  The inode is the one the first lstat saw,
\* so the bytes in between are its bytes.
ReadSnapshot(p) ==
  /\ At(p, "read")
  /\ \E n \in Unread(p) :
       /\ \A m \in Unread(p) : n.seq <= m.seq
       /\ IF /\ n \in DOMAIN dir
             /\ SameJournalIdentity(Lstat(n), inventory[p][n])
             /\ Follows(chain[p], n, dir[n])
          THEN /\ chain' = [chain EXCEPT ![p] = Append(@, Lstat(n))]
               /\ UNCHANGED <<pc, listed, inventory, expected, history>>
          ELSE End(p)
  /\ UNCHANGED <<disk, holder, faults>>

\* apply wants no journal, recover wants one.
Wanted(p) == \/ Op[p] = "apply" /\ LatestOf(chain[p]) = NoJournal
             \/ Op[p] = "recover" /\ LatestOf(chain[p]) # NoJournal

UseJournal(p) ==
  /\ At(p, "read") /\ Unread(p) = {}
  /\ IF Wanted(p)
     THEN /\ Goto(p, "wait")
          /\ expected' = [expected EXCEPT ![p] = LatestOf(chain[p])]
          /\ Forget(p)
          /\ since' = [since EXCEPT ![p] = {}]
          /\ UNCHANGED overtaken
     ELSE End(p)
  /\ UNCHANGED <<disk, holder, faults>>
-----------------------------------------------------------------------------
(***************************************************************************)
(* Under the lock.                                                         *)
(***************************************************************************)
Acquire(p) ==
  /\ At(p, "wait")
  /\ IF holder = Nobody
     THEN /\ holder' = p
          /\ Goto(p, IF Op[p] = "apply" THEN "publish" ELSE "match")
          /\ UNCHANGED <<reading, expected, history>>
     ELSE End(p) /\ UNCHANGED holder
  /\ UNCHANGED <<disk, faults>>

Latest == IF Snapshots(dir) = {} THEN NoJournal
          ELSE Lstat(Newest(Snapshots(dir)))

\* requiredMatchingJournal.
Match(p) ==
  /\ Locked(p, "match")
  /\ IF /\ Readable /\ Latest # NoJournal
        /\ SameJournalIdentity(Latest, expected[p])
     THEN Goto(p, "publish") /\ UNCHANGED <<holder, reading, expected, history>>
     ELSE Release(p)
  /\ UNCHANGED <<disk, faults>>

\* The command's own checks refuse: the planned files, the live vector, the
\* Catalog.
Refuse(p) ==
  /\ Locked(p, "publish") \/ Locked(p, "work")
  /\ Release(p)
  /\ UNCHANGED <<disk, faults>>

NextSequence(p) == IF expected[p] = NoJournal THEN 0
                   ELSE expected[p].ino.seq + 1

\* mutant: one sequence too many.
PublishableOnceMore(p) == /\ Readable /\ Latest = expected[p]
                          /\ NextSequence(p) <= MaxSequence + 1
\* The journal under the lock is the one the command is bound to, and there
\* may be a next one.
Publishable(p) == /\ Readable /\ Latest = expected[p]
                  /\ NextSequence(p) <= MaxSequence

Unlink(n) == dir' = Without(dir, n) /\ UNCHANGED stamp

Confirm(p) ==
  /\ Locked(p, "publish")
  /\ IF Publishable(p)
     THEN /\ Temporaries(dir) = {}
          /\ Goto(p, "write")
          /\ UNCHANGED <<holder, reading, expected, history>>
     ELSE Release(p)
  /\ UNCHANGED <<disk, faults>>

\* A temporary that a dead command left linked is unlinked first.
CleanTemporary(p) ==
  /\ Locked(p, "publish") /\ Publishable(p)
  /\ \E t \in Temporaries(dir) : Unlink(t)
  /\ expected' = [expected EXCEPT ![p].links = 1]
  /\ Recorded
  /\ UNCHANGED <<holder, pc, reading, faults>>

\* The transaction of a journal is fixed when it is begun.
TxnOf(p) == IF expected[p] = NoJournal THEN Plan[p] ELSE expected[p].ino.txn

Place(n, ino) == dir' = With(dir, n, ino)

WriteTemporary(p) ==
  /\ Locked(p, "write")
  /\ LET s == NextSequence(p)
     IN Place(Temporary(s, stamp + 1),
              [txn |-> TxnOf(p), seq |-> s, stamp |-> stamp + 1])
  /\ stamp' = stamp + 1
  /\ Goto(p, "link")
  /\ Recorded
  /\ UNCHANGED <<holder, reading, expected, faults>>

OwnTemporary == CHOOSE t \in Temporaries(dir) : t.uuid = stamp

LinkTemporary(p) ==
  /\ Locked(p, "link")
  /\ Place(Snapshot(NextSequence(p)), dir[OwnTemporary])
  /\ Goto(p, "unlink temporary")
  /\ Recorded
  /\ UNCHANGED <<stamp, holder, reading, expected, faults>>

UnlinkTemporary(p) ==
  /\ Locked(p, "unlink temporary")
  /\ Unlink(OwnTemporary)
  /\ Goto(p, "supersede")
  /\ Recorded
  /\ UNCHANGED <<holder, reading, expected, faults>>

\* mutant: nothing is removed.
NoneSuperseded(p) == {}
\* mutant: the newest of the superseded ones goes first.
NewestFirst(p) ==
  LET old == {n \in Snapshots(dir) : n.seq < NextSequence(p)}
  IN IF old = {} THEN {} ELSE {Newest(old)}
\* The first of the snapshots before the one just published, if any.
Superseded(p) ==
  LET old == {n \in Snapshots(dir) : n.seq < NextSequence(p)}
  IN IF old = {} THEN {} ELSE {Oldest(old)}

RemoveSuperseded(p) ==
  /\ Locked(p, "supersede")
  /\ \E n \in Superseded(p) : Unlink(n)
  /\ Recorded
  /\ UNCHANGED <<holder, pc, reading, expected, faults>>

\* The published snapshot is read back and is the command's journal from now on.
ReadBack(p) ==
  /\ Locked(p, "supersede") /\ Superseded(p) = {}
  /\ expected' = [expected EXCEPT ![p] = Latest]
  /\ Goto(p, "work")
  /\ UNCHANGED <<disk, holder, reading, history, faults>>

\* The command's work calls for another snapshot, or is done.
Work(p) ==
  /\ Locked(p, "work")
  /\ Goto(p, "publish") \/ Goto(p, "remove")
  /\ UNCHANGED <<disk, holder, reading, expected, history, faults>>

\* removeJournalSnapshotChain, the newest first.  The journal was read back by
\* the same command and is still what it is bound to.
RemoveSnapshot(p) ==
  /\ Locked(p, "remove") /\ Snapshots(dir) # {}
  /\ Unlink(Newest(Snapshots(dir)))
  /\ Recorded
  /\ UNCHANGED <<holder, pc, reading, expected, faults>>

Finish(p) ==
  /\ Locked(p, "remove") /\ Snapshots(dir) = {}
  /\ Release(p)
  /\ UNCHANGED <<disk, faults>>

\* p dies, or a call of it fails.  A temporary whose writing fails stays.
Fail(p) ==
  /\ pc[p] \notin {"start", "ended"}
  /\ faults < MaxFaults /\ faults' = faults + 1
  /\ End(p)
  /\ holder' = IF holder = p THEN Nobody ELSE holder
  /\ UNCHANGED disk

\* When the link fails, p removes its temporary.
LinkFails(p) ==
  /\ Locked(p, "link")
  /\ faults < MaxFaults /\ faults' = faults + 1
  /\ Unlink(OwnTemporary)
  /\ Release(p)

\* A person deletes a temporary that the commands refuse to touch.
ManualRecovery ==
  /\ holder = Nobody
  /\ \E t \in Temporaries(dir) : Links(dir[t]) = 1 /\ Unlink(t)
  /\ Recorded
  /\ UNCHANGED <<holder, pc, reading, expected, faults>>

Step(p) ==
  \/ List(p) \/ Examine(p) \/ CheckLinks(p) \/ ReadSnapshot(p) \/ UseJournal(p)
  \/ Acquire(p) \/ Match(p) \/ Refuse(p) \/ Confirm(p) \/ CleanTemporary(p)
  \/ WriteTemporary(p) \/ LinkTemporary(p) \/ UnlinkTemporary(p)
  \/ RemoveSuperseded(p) \/ ReadBack(p) \/ Work(p) \/ RemoveSnapshot(p)
  \/ Finish(p)

Next == (\E p \in Proc : Step(p) \/ Fail(p) \/ LinkFails(p)) \/ ManualRecovery

Spec == Init /\ [][Next]_vars
-----------------------------------------------------------------------------
Pc == {"start", "stat", "read", "wait", "match", "publish", "write", "link",
       "unlink temporary", "supersede", "work", "remove", "ended"}

\* Every variable has its type.
TypeOK ==
  /\ \A n \in DOMAIN dir :
       /\ n \in [kind : {"snapshot", "temporary"}, seq : 0..MaxSequence,
                 uuid : 0..stamp]
       /\ dir[n] \in Ino /\ dir[n].seq = n.seq /\ dir[n].stamp <= stamp
  /\ holder \in Proc \cup {Nobody}
  /\ pc \in [Proc -> Pc]
  /\ \A p \in Proc : \A n \in DOMAIN inventory[p] : inventory[p][n] \in Status
  /\ \A p \in Proc : expected[p] \in Status \cup {NoJournal}
  /\ overtaken \subseteq Proc
  /\ faults \in 0..MaxFaults

Register == INSTANCE JournalRegister WITH value <- Journal

\* Whatever is interrupted or fails, and wherever, the journal on disk only
\* begins, advances by one or goes away: the order of link, unlink and removal
\* never lets an older snapshot come back (mutation-journal-storage.ts:107,
\* 219-260).
ImplementsJournalRegister == Register!Spec

\* A journal is readable after every crash: only a temporary that was not
\* linked yet calls for manual recovery, never a chain with a gap.
ChainSurvives ==
  (\A t \in Temporaries(dir) : Links(dir[t]) = 2) => Readable

\* A read without the lock that is not refused returns a journal that was the
\* journal at some moment of the read, "none" included, though its readdir,
\* lstats and readFiles interleave with publications and removals.
ReadsAreCurrent ==
  \A p \in Proc :
    (At(p, "read") /\ Unread(p) = {}) =>
      LET latest == LatestOf(chain[p])
      IN (IF latest = NoJournal THEN NoJournal
          ELSE [txn |-> latest.ino.txn, seq |-> latest.ino.seq]) \in since[p]

\* complete and rollback work only on the journal they read before they had
\* the lock: nobody published or removed a snapshot in between, not even one
\* with the same bytes (mutation-recovery.ts:202-214).
RecoversWhatItRead ==
  \A p \in Proc :
    (Op[p] = "recover" /\ holder = p /\ ~ At(p, "match")) => p \notin overtaken
=============================================================================
