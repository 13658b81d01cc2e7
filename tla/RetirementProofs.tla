--------------------------- MODULE RetirementProofs ---------------------------
(***************************************************************************)
(* The upgrade of a schema-4 workspace, for any plan: any files in any     *)
(* commit order, any number of crashes, resumptions and edits.             *)
(***************************************************************************)
EXTENDS Retirement, MutationDiskProofs, Integers, FiniteSetTheorems

LoopPc == {"reconcile", "compare", "stage", "write", "tombstone", "record",
           "publish", "commit", "unlink temporary", "confirm"}

\* The points where the pending file is not there yet.
EarlyPc == {"backup", "pending"}
\* The points behind the last file.
EndPc == {"validate", "final", "binding", "unlink record", "remove record", "marker",
          "cleanup", "remove pending", "unlink pending"}
\* Among them those where the record has its tombstone.
RecordPc == {"unlink record", "remove record"}

\* A journal's entry for f.
Entry(journal, f) ==
  [planned   |-> [before |-> journal.before[f], after |-> After(f)],
   temporary |-> journal.temporary[f],
   published |-> [before |-> Unrecorded, after |-> journal.published[f]]]

FullJournal ==
  [files     : SUBSET File,
   before    : [File -> FileState],
   temporary : [File -> [side : Side, state : FileState] \cup {NoTemporary}],
   published : [File -> FileState \cup {Unrecorded}],
   record    : {"absent", "recorded", "changed"},
   marker    : {"none", "ours"}]

\* The temporary of a file that is written is its new side; that of a file that
\* is deleted is a second name of the old one.
OwnSide(f, prepared) ==
  prepared # NoTemporary =>
    IF Exists(After(f)) THEN prepared.side = "after" /\ prepared.state.nlink = 1
    ELSE prepared.side = "before" /\ prepared.state.nlink = 2

EntryOK(journal, f) ==
  /\ journal.before[f] \in OnDisk
  /\ f \in journal.files => journal.before[f].data # After(f).data
  /\ Kind[f] = "asset" => journal.before[f].data # "foreign"
  /\ ChangeOK(Entry(journal, f))
  /\ OwnSide(f, journal.temporary[f])

\* A journal of this worktree whose plan had no blocker.
JournalOK(journal) ==
  /\ journal \in FullJournal
  /\ journal.record # "changed"
  /\ \A f \in File : EntryOK(journal, f)

\* The command works with the journal in the pending file, once that is there.
StoreOK ==
  /\ backup \in Journal
  /\ pending \in [links : 0..2, journal : Journal]
  /\ IF pending.links = 0 THEN pending.journal = NoJournal
     ELSE JournalOK(pending.journal)
  /\ phase \in {"planned", "open", "completed"}
  /\ phase = "open" <=> pending.links # 0
  /\ IF command.pc = "idle" THEN memory = NoJournal ELSE JournalOK(memory)
  /\ command.pc \in EarlyPc => pending.links = 0
  /\ command.pc \in LoopPc \cup EndPc \cup {"unlink pending temporary"} =>
       pending.links # 0 /\ memory = pending.journal

CommandOK ==
  /\ command \in [pc : Pc, f : 0..N]
  /\ command.pc = "idle" => command = Idle
  /\ command.pc \in LoopPc => command.f \in memory.files
  /\ command.pc = "cleanup" => command.f \in File

\* A temporary that is about to be recorded or published.
Prepared(f) == /\ temporary[f].data = After(f).data
               /\ temporary[f].nlink = 1

\* Only files of a journal that is there have temporaries.
TemporariesOfJournal ==
  \A f \in File :
    pending.links = 0 \/ f \notin pending.journal.files => temporary[f] = Absent

\* What the temporary of the file that is handled is like, and what is cleaned up.
HandledOK ==
  /\ command.pc = "stage" => /\ Exists(After(command.f))
                             /\ temporary[command.f] = Absent
  /\ command.pc = "write" => /\ Exists(After(command.f))
                             /\ Exists(temporary[command.f])
                             /\ temporary[command.f].nlink = 1
  /\ command.pc = "tombstone" => /\ ~Exists(After(command.f))
                                 /\ temporary[command.f] = Absent
  /\ command.pc = "record" => Exists(temporary[command.f])
  /\ command.pc \in {"record", "commit"} /\ Exists(After(command.f)) => Prepared(command.f)
  /\ command.pc = "unlink temporary" => Exists(After(command.f))
  /\ command.pc = "cleanup" => \A g \in 1..(command.f - 1) : temporary[g] = Absent
  /\ command.pc \in {"remove pending", "unlink pending"} =>
       \A g \in File : temporary[g] = Absent

HistoryOK ==
  /\ theirs \in [File -> Nat]
  /\ binding \in [record : {"absent", "recorded", "linked", "changed"},
                  marker : {"none", "ours"}]
  /\ blocker \in BOOLEAN /\ transaction \in BOOLEAN /\ drift \in BOOLEAN
  /\ late \in BOOLEAN
  /\ crashes \in Nat /\ edits \in Nat

ShapeInv ==
  /\ DiskOK(File) /\ StoreOK /\ CommandOK
  /\ TemporariesOfJournal /\ HandledOK /\ HistoryOK

\* The journal that is worked with, or that the next upgrade will work with.
Active == IF memory # NoJournal THEN memory ELSE pending.journal

\* The inodes at f that the migration knows.
Known(f) ==
  {0, temporary[f].ino} \cup IF Active = NoJournal THEN {} ELSE Inodes(Entry(Active, f))

\* What somebody left at f is not taken for anything of the migration: it has an
\* inode that no record names, or it was written into after the plan read it.
TheirsAt(f) ==
  /\ \A i \in Known(f) : i <= clock[f]
  /\ target[f].ctime <= clock[f]
  /\ Active # NoJournal => Active.before[f].ctime <= clock[f]
  /\ theirs[f] # 0 =>
       /\ Exists(target[f]) /\ target[f].ino = theirs[f]
       /\ \/ target[f].ino \notin Known(f)
          \/ /\ target[f].data = "foreign"
             /\ Active # NoJournal => target[f].ctime > Active.before[f].ctime

TheirsInv ==
  /\ \A f \in File : TheirsAt(f)
  /\ \A f \in File : InWindow(f) => theirs[f] = 0

\* The first k files are at their new side, and no other; the config file is
\* there at either side.
PrefixOnDisk(k) ==
  /\ \A f \in File : f <= k <=> target[f].data = After(f).data
  /\ Exists(target[ConfigFile])

JournalPosition(k) ==
  /\ phase = "planned" => k = 0
  /\ phase = "completed" => k = N /\ binding = [record |-> "absent", marker |-> "none"]
  /\ Active # NoJournal => Active.files = File

CommandPosition(k) ==
  /\ command.pc \in EarlyPc => k = 0
  /\ command.pc \in LoopPc => k >= command.f - 1
  /\ command.pc = "commit" => k = command.f - 1
  /\ command.pc \in {"unlink temporary", "confirm"} => k >= command.f
  /\ command.pc \in EndPc => k = N
  /\ command.pc \in {"marker", "cleanup", "remove pending", "unlink pending"} =>
       binding.record = "absent"
  /\ command.pc \in {"cleanup", "remove pending", "unlink pending"} =>
       binding.marker = "none"

Position(k) == PrefixOnDisk(k) /\ JournalPosition(k) /\ CommandPosition(k)

PositionInv == Undisturbed => \E k \in 0..N : Position(k)
-----------------------------------------------------------------------------
(***************************************************************************)
(* Facts about the plan.                                                   *)
(***************************************************************************)
\* A set of naturals that is not empty has a least element: the choice that
\* EnterFrom makes is possible.
LEMMA LeastElement ==
  ASSUME NEW S \in SUBSET Nat, S # {}
  PROVE  \E m \in S : \A n \in S : m <= n
<1> DEFINE Below(m) == S \cap 0..m
           T == {Below(m) : m \in S}
           R == StrictSubsetOrdering(Nat)
<1>1. IsWellFoundedOn(R, FiniteSubsetsOf(Nat))
  BY FS_StrictSubsetOrderingWellFounded
<1>2. ASSUME NEW m \in S PROVE IsFiniteSet(Below(m))
  <2>1. IsFiniteSet(0..m)
    BY FS_Interval
  <2> QED
    BY <2>1, FS_Subset
<1>3. T \subseteq FiniteSubsetsOf(Nat) /\ T # {}
  BY <1>2 DEF FiniteSubsetsOf
<1>4. \E x \in T : \A y \in T : ~(<<y, x>> \in R)
  <2> HIDE DEF T, R
  <2> QED
    BY <1>1, <1>3, WFMin
<1>5. PICK m \in S : \A n \in S : ~(<<Below(n), Below(m)>> \in R)
  BY <1>4
<1>6. ASSUME NEW n \in S, n < m PROVE FALSE
  <2>1. Below(n) \subseteq Below(m) /\ m \in Below(m) /\ m \notin Below(n)
    BY <1>6
  <2>2. <<Below(n), Below(m)>> \in R
    BY <2>1 DEF StrictSubsetOrdering
  <2> QED
    BY <1>5, <2>2
<1> QED
  BY <1>6

LEMMA KindFacts ==
  /\ N \in Nat \ {0} /\ File = 1..N
  /\ \A f \in File : Kind[f] \in {"asset", "config", "startup"}
  /\ ConfigFile \in File /\ Kind[ConfigFile] = "config"
<1>1. /\ N \in Nat /\ File = 1..N /\ DOMAIN Kind = 1..N
      /\ \A f \in File : Kind[f] \in {"asset", "config", "startup"}
  BY KindAssumption DEF N, File
<1>2. \E f \in File : Kind[f] = "config"
  <2> DEFINE configs == {f \in DOMAIN Kind : Kind[f] = "config"}
  <2>1. Cardinality(configs) # Cardinality({})
    BY FS_EmptySet, KindAssumption
  <2>2. configs # {}
    <3> HIDE DEF configs
    <3> QED
      BY <2>1
  <2> QED
    BY <1>1, <2>2
<1>3. ConfigFile \in File /\ Kind[ConfigFile] = "config"
  BY <1>2 DEF ConfigFile
<1> QED
  BY <1>1, <1>3

LEMMA FileFacts ==
  /\ 0 \in 0..N /\ N \in File /\ 1 \in File /\ 1 \in 0..2 /\ 2 \in 0..2
  /\ \A f \in File : /\ f \in Nat /\ f \in 0..N /\ f >= 1 /\ f <= N
                     /\ f # N => f + 1 \in File
BY KindFacts

LEMMA AfterFacts ==
  ASSUME NEW f \in File
  PROVE  /\ After(f) \in FileState /\ After(f).ino = 0
         /\ After(f).data \in {"absent", "new"}
         /\ Exists(After(f)) <=> Kind[f] # "asset"
         /\ Exists(After(f)) <=> After(f).data = "new"
         /\ ~Exists(After(f)) <=> After(f) = Absent
BY DEF After, Absent, PlannedNew, Exists, FileState, Data

LEMMA PcNames ==
  /\ "idle" \in Pc /\ "backup" \in Pc /\ "pending" \in Pc
  /\ "unlink pending temporary" \in Pc /\ "reconcile" \in Pc /\ "compare" \in Pc
  /\ "stage" \in Pc /\ "write" \in Pc /\ "tombstone" \in Pc /\ "record" \in Pc
  /\ "publish" \in Pc /\ "commit" \in Pc /\ "unlink temporary" \in Pc
  /\ "confirm" \in Pc /\ "validate" \in Pc /\ "final" \in Pc /\ "binding" \in Pc
  /\ "unlink record" \in Pc /\ "remove record" \in Pc /\ "marker" \in Pc
  /\ "cleanup" \in Pc /\ "remove pending" \in Pc /\ "unlink pending" \in Pc
  /\ Pc = {"idle", "unlink pending temporary"} \cup EarlyPc \cup LoopPc \cup EndPc
BY DEF Pc, EarlyPc, LoopPc, EndPc

LEMMA IdleFields ==
  Idle.pc = "idle" /\ Idle.f = 0 /\ Idle \in [pc : Pc, f : 0..N]
BY KindFacts DEF Idle, Pc

LEMMA GotoFacts ==
  ASSUME NEW pc, NEW f, Goto(pc, f)
  PROVE  /\ command'.pc = pc /\ command'.f = f
         /\ pc \in Pc /\ f \in 0..N => command' \in [pc : Pc, f : 0..N]
BY DEF Goto

\* Where the loop goes on: at the next file of the journal, or behind the last.
LEMMA EnterFromFacts ==
  ASSUME memory'.files \subseteq File, NEW f \in Nat, EnterFrom(f)
  PROVE  /\ command' \in [pc : Pc, f : 0..N]
         /\ \/ /\ command'.pc = "validate"
               /\ \A g \in memory'.files : g < f
            \/ /\ command'.pc = "reconcile"
               /\ command'.f \in memory'.files /\ command'.f >= f
               /\ \A g \in memory'.files : g >= f => command'.f <= g
<1> DEFINE left == {g \in memory'.files : g >= f}
<1>1. CASE left = {}
  <2>1. Goto("validate", 0)
    BY <1>1 DEF EnterFrom
  <2>2. \A g \in memory'.files : g < f
    BY <1>1, FileFacts
  <2> QED
    BY <2>1, <2>2, GotoFacts, PcNames, FileFacts
<1>2. CASE left # {}
  <2>1. left \in SUBSET Nat
    BY KindFacts
  <2>2. \E m \in left : \A n \in left : m <= n
    BY <1>2, <2>1, LeastElement
  <2> DEFINE next == CHOOSE m \in left : \A n \in left : m <= n
  <2>3. next \in left /\ \A n \in left : next <= n
    BY <2>2
  <2>4. Goto("reconcile", next)
    BY <1>2 DEF EnterFrom
  <2>5. next \in 0..N
    BY <2>3, FileFacts
  <2> HIDE DEF next
  <2> QED
    BY <2>3, <2>4, <2>5, GotoFacts, PcNames
<1> QED
  BY <1>1, <1>2

LEMMA JournalFacts ==
  /\ NoJournal \notin FullJournal
  /\ Journal = FullJournal \cup {NoJournal}
  /\ \A journal : JournalOK(journal) => journal # NoJournal /\ journal \in Journal
<1>1. NoJournal \notin FullJournal
  BY DEF NoJournal, FullJournal
<1>2. Journal = FullJournal \cup {NoJournal}
  BY DEF Journal, FullJournal
<1> QED
  BY <1>1, <1>2 DEF JournalOK

LEMMA NoPendingFields ==
  /\ NoPending.links = 0 /\ NoPending.journal = NoJournal
  /\ NoPending \in [links : 0..2, journal : Journal]
BY JournalFacts DEF NoPending

LEMMA EntryFacts ==
  /\ \A f : Change(f) = Entry(memory, f)
  /\ \A journal, f :
       /\ Entry(journal, f).planned["before"] = journal.before[f]
       /\ Entry(journal, f).planned["after"] = After(f)
       /\ Entry(journal, f).temporary = journal.temporary[f]
       /\ Entry(journal, f).published["before"] = Unrecorded
       /\ Entry(journal, f).published["after"] = journal.published[f]
BY DEF Change, Entry
-----------------------------------------------------------------------------
(***************************************************************************)
(* The shape of a state, action by action.                                 *)
(***************************************************************************)
\* What the command has at a file of the loop.
LEMMA LoopFacts ==
  ASSUME ShapeInv, command.pc \in LoopPc
  PROVE  /\ command.f \in File /\ command.f \in memory.files
         /\ memory.files \subseteq File
         /\ JournalOK(memory) /\ memory # NoJournal /\ memory \in Journal
         /\ EntryOK(memory, command.f)
         /\ memory = pending.journal /\ pending.links # 0 /\ phase = "open"
         /\ backup \in Journal /\ pending \in [links : 0..2, journal : Journal]
<1>1. command.f \in memory.files
  BY DEF ShapeInv, CommandOK
<1>2. command.pc # "idle"
  BY DEF LoopPc
<1>3. JournalOK(memory) /\ memory = pending.journal /\ pending.links # 0 /\ phase = "open"
  BY <1>2 DEF ShapeInv, StoreOK
<1>4. /\ backup \in Journal /\ pending \in [links : 0..2, journal : Journal]
  BY <1>3 DEF ShapeInv, StoreOK
<1>5. memory.files \subseteq File
  BY <1>3 DEF JournalOK, FullJournal
<1>6. memory # NoJournal /\ memory \in Journal
  BY <1>3, JournalFacts
<1> QED
  BY <1>1, <1>3, <1>4, <1>5, <1>6 DEF JournalOK

LEMMA LateFacts ==
  ASSUME ShapeInv, command.pc \in EndPc \cup {"unlink pending temporary"}
  PROVE  /\ memory.files \subseteq File
         /\ JournalOK(memory) /\ memory # NoJournal /\ memory \in Journal
         /\ memory = pending.journal /\ pending.links # 0 /\ phase = "open"
         /\ backup \in Journal /\ pending \in [links : 0..2, journal : Journal]
<1>2. command.pc # "idle"
  BY DEF EndPc
<1>3. JournalOK(memory) /\ memory = pending.journal /\ pending.links # 0 /\ phase = "open"
  BY <1>2 DEF ShapeInv, StoreOK
<1>4. /\ backup \in Journal /\ pending \in [links : 0..2, journal : Journal]
  BY <1>3 DEF ShapeInv, StoreOK
<1>5. memory.files \subseteq File
  BY <1>3 DEF JournalOK, FullJournal
<1>6. memory # NoJournal /\ memory \in Journal
  BY <1>3, JournalFacts
<1> QED
  BY <1>3, <1>4, <1>5, <1>6

\* A step of the command that keeps the journals.
LEMMA StoreKept ==
  ASSUME ShapeInv, UNCHANGED <<memory, pending, backup, phase>>,
         command.pc \in LoopPc \cup EndPc \cup {"unlink pending temporary"},
         command'.pc \in LoopPc \cup EndPc
  PROVE  StoreOK'
<1>1. /\ command.pc # "idle" /\ command'.pc # "idle" /\ command'.pc \notin EarlyPc
  BY DEF LoopPc, EndPc, EarlyPc
<1>2. /\ JournalOK(memory) /\ pending.links # 0 /\ memory = pending.journal
  BY <1>1 DEF ShapeInv, StoreOK
<1>3. JournalOK(memory)' /\ JournalOK(pending.journal)'
  BY <1>2
<1> QED
  BY <1>1, <1>2, <1>3 DEF ShapeInv, StoreOK

\* A step that saves a snapshot.
LEMMA StoreSaved ==
  ASSUME ShapeInv, NEW journal, JournalOK(journal), Save(journal),
         UNCHANGED <<backup, phase>>, command.pc \in LoopPc,
         command'.pc \in LoopPc \cup EndPc
  PROVE  /\ StoreOK' /\ pending'.links = pending.links
         /\ pending'.journal = journal /\ memory' = journal
<1>1. /\ command'.pc # "idle" /\ command'.pc \notin EarlyPc
  BY DEF LoopPc, EndPc, EarlyPc
<1>2. /\ memory' = journal /\ pending' = [pending EXCEPT !.journal = journal]
      /\ backup' = backup /\ phase' = phase
  BY DEF Save
<1>3. pending' \in [links : 0..2, journal : Journal]
  BY <1>2, LoopFacts, JournalFacts
<1>4. pending'.links = pending.links /\ pending'.journal = journal
  BY <1>2, LoopFacts
<1>5. JournalOK(memory)' /\ JournalOK(pending.journal)'
  BY <1>2, <1>4
<1> QED
  BY <1>1, <1>2, <1>3, <1>4, <1>5, LoopFacts DEF ShapeInv, StoreOK

\* The command ends: it fails, or it dies.
LEMMA EndsShape ==
  ASSUME ShapeInv, command' = Idle, memory' = NoJournal,
         UNCHANGED <<disk, pending, backup, phase>>, HistoryOK'
  PROVE  ShapeInv'
<1>1. command'.pc = "idle"
  BY IdleFields
<1>2. DiskOK(File)'
  BY DiskKept DEF ShapeInv, disk
<1>3. StoreOK'
  <2>1. pending.links # 0 => JournalOK(pending.journal)'
    BY DEF ShapeInv, StoreOK
  <2> QED
    BY <1>1, <2>1 DEF ShapeInv, StoreOK, LoopPc, EndPc, EarlyPc
<1>4. CommandOK'
  BY <1>1, IdleFields DEF CommandOK, LoopPc
<1>5. TemporariesOfJournal' /\ HandledOK'
  BY <1>1 DEF ShapeInv, TemporariesOfJournal, HandledOK, disk
<1> QED
  BY <1>2, <1>3, <1>4, <1>5 DEF ShapeInv

LEMMA HistoryKept ==
  ASSUME ShapeInv, UNCHANGED <<others, faults, binding>>
  PROVE  HistoryOK'
BY DEF ShapeInv, HistoryOK, others, faults

LEMMA FailShape ==
  ASSUME ShapeInv, NEW reason, Fail(reason), UNCHANGED <<others, faults>>
  PROVE  ShapeInv'
BY EndsShape, HistoryKept DEF Fail, Ended

\* The points where HandledOK says nothing.
Unhandled == {"reconcile", "compare", "publish", "confirm", "validate", "final",
              "binding", "unlink record", "remove record", "marker"}

LEMMA UnhandledOK ==
  ASSUME command'.pc \in Unhandled
  PROVE  HandledOK'
BY DEF HandledOK, Unhandled

\* A step of the loop that calls something at f and saves nothing, but to a point
\* of which HandledOK has something to say.
LEMMA LoopGoesOn ==
  ASSUME ShapeInv, command.pc \in LoopPc, NEW f \in File, f = command.f,
         DiskOK(File)', UNCHANGED temporary \/ OnlyAt(File, f),
         KeepsJournal, UNCHANGED <<others, faults, phase>>,
         NEW pc \in LoopPc, Goto(pc, f), HandledOK'
  PROVE  ShapeInv'
<1>1. command'.pc = pc /\ command'.f = f /\ command' \in [pc : Pc, f : 0..N]
  BY GotoFacts, PcNames, FileFacts
<1>2. StoreOK'
  BY <1>1, StoreKept DEF KeepsJournal
<1>3. CommandOK'
  BY <1>1, LoopFacts DEF CommandOK, KeepsJournal, LoopPc
<1>4. TemporariesOfJournal'
  BY LoopFacts DEF ShapeInv, TemporariesOfJournal, KeepsJournal, OnlyAt
<1> QED
  BY <1>2, <1>3, <1>4, HistoryKept DEF ShapeInv, KeepsJournal

\* A step that saves a snapshot and leaves the disk alone.
LEMMA LoopSaves ==
  ASSUME ShapeInv, command.pc \in LoopPc, NEW journal, JournalOK(journal),
         journal.files = memory.files, Save(journal),
         UNCHANGED <<disk, backup, others, faults, phase, binding>>,
         command' \in [pc : Pc, f : 0..N],
         \/ command'.pc \in LoopPc /\ command'.f \in memory.files
         \/ command'.pc = "validate",
         HandledOK'
  PROVE  ShapeInv'
<1>1. command'.pc \in LoopPc \cup EndPc
  BY DEF EndPc
<1>2. /\ StoreOK' /\ pending'.links = pending.links
      /\ pending'.journal = journal /\ memory' = journal
  BY <1>1, StoreSaved
<1>3. CommandOK'
  BY <1>2 DEF CommandOK, LoopPc
<1>4. TemporariesOfJournal'
  BY <1>2, LoopFacts DEF ShapeInv, TemporariesOfJournal, disk
<1>5. DiskOK(File)'
  BY DiskKept DEF ShapeInv, disk
<1> QED
  BY <1>2, <1>3, <1>4, <1>5, HistoryKept DEF ShapeInv

\* The next file, or the validation.
LEMMA LoopMovesOn ==
  ASSUME ShapeInv, command.pc \in LoopPc, NEW f \in Nat, EnterFrom(f),
         memory' = memory, UNCHANGED <<disk, pending, backup, others, faults, phase, binding>>
  PROVE  ShapeInv'
<1>1. /\ command' \in [pc : Pc, f : 0..N]
      /\ \/ command'.pc = "validate"
         \/ command'.pc = "reconcile" /\ command'.f \in memory.files
  BY EnterFromFacts, LoopFacts
<1>2. command'.pc \in LoopPc \cup EndPc /\ command'.pc \in Unhandled
  BY <1>1 DEF LoopPc, EndPc, Unhandled
<1>3. StoreOK'
  BY <1>2, StoreKept
<1>4. CommandOK'
  BY <1>1 DEF CommandOK, LoopPc
<1>5. TemporariesOfJournal' /\ HandledOK'
  BY <1>2, UnhandledOK DEF ShapeInv, TemporariesOfJournal, disk
<1>6. DiskOK(File)'
  BY DiskKept DEF ShapeInv, disk
<1> QED
  BY <1>3, <1>4, <1>5, <1>6, HistoryKept DEF ShapeInv

\* A step behind the loop.
LEMMA EndGoesOn ==
  ASSUME ShapeInv, command.pc \in EndPc, NEW pc \in EndPc, NEW f \in 0..N,
         Goto(pc, f), UNCHANGED <<memory, pending, backup, phase>>, DiskOK(File)',
         TemporariesOfJournal', HandledOK', HistoryOK', pc = "cleanup" => f \in File
  PROVE  ShapeInv'
<1>1. command'.pc = pc /\ command'.f = f /\ command' \in [pc : Pc, f : 0..N]
  BY GotoFacts, PcNames
<1>2. StoreOK'
  BY <1>1, StoreKept
<1>3. CommandOK'
  BY <1>1 DEF CommandOK, LoopPc, EndPc
<1> QED
  BY <1>2, <1>3 DEF ShapeInv
-----------------------------------------------------------------------------
LEMMA TemporarySaved ==
  ASSUME NEW j, JournalOK(j), NEW f \in File, NEW side \in Side,
         NEW state \in OnDisk, Exists(state),
         OwnSide(f, [side |-> side, state |-> state]),
         state.data = Entry(j, f).planned[side].data
  PROVE  LET k == [j EXCEPT !.temporary[f] = [side |-> side, state |-> state]]
         IN  JournalOK(k) /\ k.files = j.files
<1> DEFINE prepared == [side |-> side, state |-> state]
           k == [j EXCEPT !.temporary[f] = prepared]
<1>1. prepared \in [side : Side, state : FileState]
  BY DEF OnDisk
<1>2. /\ prepared.side = side /\ prepared.state = state /\ prepared # NoTemporary
  BY SideFacts DEF NoTemporary
<1>3. j \in FullJournal
  BY DEF JournalOK
<1>4. /\ k \in FullJournal /\ k.files = j.files /\ k.before = j.before
      /\ k.published = j.published /\ k.record = j.record
      /\ k.temporary = [j.temporary EXCEPT ![f] = prepared]
  <2> HIDE DEF prepared
  <2> QED
    BY <1>1, <1>3 DEF FullJournal
<1>5. k.temporary[f] = prepared /\ \A g \in File \ {f} : k.temporary[g] = j.temporary[g]
  BY <1>3, <1>4 DEF FullJournal
<1> HIDE DEF k, prepared
<1>6. ASSUME NEW g \in File, g # f PROVE EntryOK(k, g)
  <2>1. Entry(k, g) = Entry(j, g)
    BY <1>4, <1>5, <1>6 DEF Entry
  <2>2. EntryOK(j, g)
    BY DEF JournalOK
  <2> QED
    BY <2>1, <2>2, <1>4, <1>5, <1>6 DEF EntryOK
<1>7. EntryOK(k, f)
  <2>1. EntryOK(j, f)
    BY DEF JournalOK
  <2>2. /\ Entry(k, f).planned = Entry(j, f).planned
        /\ Entry(k, f).published = Entry(j, f).published
        /\ Entry(k, f).temporary = prepared
    BY <1>4, <1>5 DEF Entry
  <2>3. OwnSide(f, prepared)
    BY DEF prepared
  <2>4. /\ prepared.state.nlink \in {1, 2}
        /\ prepared.state.nlink = 2 => prepared.side = "before" /\ ~Exists(After(f))
    BY <1>2, <2>3 DEF OwnSide
  <2>5. ChangeOK(Entry(k, f))
    BY <1>2, <2>1, <2>2, <2>4, EntryFacts, SideFacts DEF EntryOK, ChangeOK, SamePayload
  <2> QED
    BY <2>1, <2>3, <2>5, <1>4, <1>5 DEF EntryOK
<1>8. JournalOK(k)
  BY <1>4, <1>6, <1>7 DEF JournalOK
<1> QED
  BY <1>8, <1>4 DEF k, prepared

LEMMA PublishedSaved ==
  ASSUME NEW j, JournalOK(j), NEW f \in File, NEW state \in OnDisk,
         state.data = After(f).data
  PROVE  LET k == [j EXCEPT !.published[f] = state]
         IN  JournalOK(k) /\ k.files = j.files
<1> DEFINE k == [j EXCEPT !.published[f] = state]
<1>1. state \in FileState
  BY DEF OnDisk
<1>3. j \in FullJournal
  BY DEF JournalOK
<1>4. /\ k \in FullJournal /\ k.files = j.files /\ k.before = j.before
      /\ k.temporary = j.temporary /\ k.record = j.record
      /\ k.published = [j.published EXCEPT ![f] = state]
  BY <1>1, <1>3 DEF FullJournal
<1>5. k.published[f] = state /\ \A g \in File \ {f} : k.published[g] = j.published[g]
  BY <1>3, <1>4 DEF FullJournal
<1> HIDE DEF k
<1>6. ASSUME NEW g \in File, g # f PROVE EntryOK(k, g)
  <2>1. Entry(k, g) = Entry(j, g)
    BY <1>4, <1>5, <1>6 DEF Entry
  <2>2. EntryOK(j, g)
    BY DEF JournalOK
  <2> QED
    BY <2>1, <2>2, <1>4, <1>5, <1>6 DEF EntryOK
<1>7. EntryOK(k, f)
  <2>1. EntryOK(j, f)
    BY DEF JournalOK
  <2>2. /\ Entry(k, f).planned = Entry(j, f).planned
        /\ Entry(k, f).temporary = Entry(j, f).temporary
        /\ Entry(k, f).published["before"] = Entry(j, f).published["before"]
        /\ Entry(k, f).published["after"] = state
    BY <1>4, <1>5 DEF Entry
  <2>5. ChangeOK(Entry(k, f))
    BY <2>1, <2>2, EntryFacts, SideFacts DEF EntryOK, ChangeOK, SamePayload
  <2> QED
    BY <2>1, <2>5, <1>4, <1>5 DEF EntryOK
<1>8. JournalOK(k)
  BY <1>4, <1>6, <1>7 DEF JournalOK
<1> QED
  BY <1>8, <1>4 DEF k

\* The file that is handled, as it is read.
LEMMA ReadFacts ==
  ASSUME ShapeInv, command.pc \in LoopPc, NEW f \in File, f = command.f
  PROVE  /\ target[f] \in OnDisk /\ temporary[f] \in OnDisk /\ PairOK(f)
         /\ ChangeOK(Change(f)) /\ EntryOK(memory, f)
         /\ Change(f).planned["before"].data = memory.before[f].data
         /\ Change(f).planned["after"].data = After(f).data
         /\ memory.before[f].data # After(f).data
BY LoopFacts, PairAt, EntryFacts DEF ShapeInv, EntryOK

\* A file that is taken to be at a side has its bytes.
LEMMA AtSide ==
  ASSUME ShapeInv, command.pc \in LoopPc, NEW f \in File, f = command.f
  PROVE  /\ Disposition(f) = "before" => target[f].data = memory.before[f].data
         /\ Disposition(f) = "after" => target[f].data = After(f).data
         /\ DesiredEndpointReached(Change(f), target[f], temporary[f], "after")
              => target[f].data = After(f).data
<1>1. \A s \in Side : MutationChangeDisposition(Change(f), target[f], temporary[f]) = s
                        => SamePayload(target[f], Change(f).planned[s])
  BY ReadFacts, DispositionSound
<1>2. DesiredEndpointReached(Change(f), target[f], temporary[f], "after")
        => target[f].data = Change(f).planned["after"].data
  BY DEF DesiredEndpointReached, SamePayload
<1> QED
  BY <1>1, <1>2, ReadFacts, SideFacts DEF Disposition, SamePayload

LEMMA CurrentFile ==
  ASSUME ShapeInv, command.pc \in LoopPc
  PROVE  \E f \in File : f = command.f
BY LoopFacts

LEMMA LoopNames ==
  /\ "reconcile" \in LoopPc /\ "compare" \in LoopPc /\ "stage" \in LoopPc
  /\ "write" \in LoopPc /\ "tombstone" \in LoopPc /\ "record" \in LoopPc
  /\ "publish" \in LoopPc /\ "commit" \in LoopPc /\ "unlink temporary" \in LoopPc
  /\ "confirm" \in LoopPc
BY DEF LoopPc

LEMMA EndNames ==
  /\ "validate" \in EndPc /\ "final" \in EndPc /\ "binding" \in EndPc
  /\ "unlink record" \in EndPc /\ "remove record" \in EndPc /\ "marker" \in EndPc
  /\ "cleanup" \in EndPc /\ "remove pending" \in EndPc /\ "unlink pending" \in EndPc
BY DEF EndPc

\* A step of the loop that goes to a point that HandledOK leaves open.
LEMMA LoopGoesOnUnhandled ==
  ASSUME ShapeInv, command.pc \in LoopPc, NEW f \in File, f = command.f,
         UNCHANGED disk, KeepsJournal, UNCHANGED <<others, faults, phase>>,
         NEW pc \in LoopPc \cap Unhandled, Goto(pc, f)
  PROVE  ShapeInv'
<1>1. command'.pc \in Unhandled
  BY GotoFacts
<1>2. DiskOK(File)' /\ UNCHANGED temporary
  BY DiskKept DEF ShapeInv, disk
<1> QED
  BY <1>1, <1>2, UnhandledOK, LoopGoesOn

LEMMA UnrecordedSideFacts ==
  ASSUME NEW f \in File, UnrecordedSide(f) # "none"
  PROVE  /\ UnrecordedSide(f) \in Side
         /\ OwnSide(f, [side |-> UnrecordedSide(f), state |-> temporary[f]])
         /\ temporary[f].data = Entry(memory, f).planned[UnrecordedSide(f)].data
<1>1. CASE /\ UnrecordedSide(f) = "after" /\ Exists(After(f))
           /\ temporary[f].data = After(f).data /\ temporary[f].nlink = 1
  BY <1>1, EntryFacts, SideFacts DEF OwnSide
<1>2. CASE /\ UnrecordedSide(f) = "before" /\ ~Exists(After(f))
           /\ temporary[f].data = memory.before[f].data /\ temporary[f].nlink = 2
  BY <1>2, EntryFacts, SideFacts DEF OwnSide
<1> QED
  BY <1>1, <1>2 DEF UnrecordedSide

LEMMA ReconcileShape ==
  ASSUME ShapeInv, ReconcileUnrecordedTemporary
  PROVE  ShapeInv'
<1>1. command.pc = "reconcile" /\ UNCHANGED <<others, faults>>
  BY DEF ReconcileUnrecordedTemporary, At
<1>2. command.pc \in LoopPc
  BY <1>1, LoopNames
<1>3. PICK f \in File : f = command.f
  BY <1>2, CurrentFile
<1> DEFINE side == UnrecordedSide(f)
           j == [memory EXCEPT !.temporary[f] = [side |-> side, state |-> temporary[f]]]
<1>4. CASE /\ side # "none" /\ Exists(temporary[f]) /\ Save(j)
           /\ Goto("compare", f) /\ UNCHANGED <<disk, backup, binding, last, phase>>
  <2>1. /\ side \in Side /\ OwnSide(f, [side |-> side, state |-> temporary[f]])
        /\ temporary[f].data = Entry(memory, f).planned[side].data
    BY <1>4, UnrecordedSideFacts
  <2>2. JournalOK(j) /\ j.files = memory.files
    <3> HIDE DEF side
    <3> QED
      BY <1>2, <1>3, <1>4, <2>1, LoopFacts, ReadFacts, TemporarySaved
  <2>3. command' \in [pc : Pc, f : 0..N] /\ command'.pc = "compare" /\ command'.f = f
    BY <1>4, GotoFacts, PcNames, FileFacts
  <2>4. HandledOK'
    BY <2>3, UnhandledOK DEF Unhandled
  <2> HIDE DEF j, side
  <2> QED
    BY <1>1, <1>2, <1>3, <1>4, <2>2, <2>3, <2>4, LoopSaves, LoopFacts, LoopNames
<1>5. CASE Fail("upgrade_temporary_conflict")
  BY <1>1, <1>5, FailShape
<1>6. CASE Goto("compare", f) /\ KeepsJournal /\ UNCHANGED <<disk, last, phase>>
  BY <1>1, <1>2, <1>3, <1>6, LoopNames, LoopGoesOnUnhandled DEF Unhandled
<1> QED
  <2> HIDE DEF j, side
  <2>1. \/ /\ UnrecordedSide(f) # "none" /\ Exists(temporary[f])
           /\ Save([memory EXCEPT !.temporary[f] =
                     [side |-> UnrecordedSide(f), state |-> temporary[f]]])
           /\ Goto("compare", f) /\ UNCHANGED <<disk, backup, binding, last, phase>>
        \/ Fail("upgrade_temporary_conflict")
        \/ Goto("compare", f) /\ KeepsJournal /\ UNCHANGED <<disk, last, phase>>
    BY <1>3 DEF ReconcileUnrecordedTemporary
  <2> QED
    BY <2>1, <1>4, <1>5, <1>6 DEF j, side

LEMMA CompareFileShape ==
  ASSUME ShapeInv, CompareFile
  PROVE  ShapeInv'
<1>1. command.pc = "compare" /\ UNCHANGED <<others, faults>>
  BY DEF CompareFile, At
<1>2. command.pc \in LoopPc
  BY <1>1, LoopNames
<1>3. PICK f \in File : f = command.f
  BY <1>2, CurrentFile
<1>4. CASE Goto("confirm", f) /\ KeepsJournal /\ UNCHANGED <<disk, last, phase>>
  BY <1>1, <1>2, <1>3, <1>4, LoopNames, LoopGoesOnUnhandled DEF Unhandled
<1>5. CASE /\ memory' = memory /\ EnterFrom(f + 1)
           /\ UNCHANGED <<disk, pending, backup, binding, last, phase>>
  BY <1>1, <1>2, <1>5, FileFacts, LoopMovesOn
<1>6. CASE /\ Disposition(f) = "before"
           /\ Goto(IF memory.temporary[f] # NoTemporary THEN "publish"
                   ELSE IF Exists(After(f)) THEN "stage" ELSE "tombstone", f)
           /\ KeepsJournal /\ UNCHANGED <<disk, last, phase>>
  <2>1. CASE memory.temporary[f] # NoTemporary
    BY <1>1, <1>2, <1>3, <1>6, <2>1, LoopNames, LoopGoesOnUnhandled DEF Unhandled
  <2>2. CASE memory.temporary[f] = NoTemporary
    <3>1. temporary[f] = Absent
      <4>1. ~HasUnrecordedTemporary(Change(f), temporary[f])
        BY <1>6 DEF Disposition, MutationChangeDisposition
      <4>2. ~Exists(temporary[f])
        BY <2>2, <4>1, EntryFacts DEF HasUnrecordedTemporary
      <4> QED
        BY <1>2, <1>3, <4>2, AbsentOnDisk, ReadFacts
    <3>2. PICK pc \in {"stage", "tombstone"} :
            Goto(pc, f) /\ (IF Exists(After(f)) THEN pc = "stage" ELSE pc = "tombstone")
      BY <1>6, <2>2
    <3>3. command'.pc = pc /\ command'.f = f
      BY <3>2, GotoFacts
    <3>4. HandledOK'
      BY <1>6, <3>1, <3>2, <3>3 DEF HandledOK, disk, After
    <3>5. DiskOK(File)' /\ UNCHANGED temporary /\ pc \in LoopPc
      BY <1>6, DiskKept, LoopNames DEF ShapeInv, disk
    <3> QED
      BY <1>1, <1>2, <1>3, <1>6, <3>2, <3>4, <3>5, LoopGoesOn
  <2> QED
    BY <2>1, <2>2
<1>7. CASE Fail("upgrade_conflict")
  BY <1>1, <1>7, FailShape
<1> QED
  BY <1>3, <1>4, <1>5, <1>6, <1>7 DEF CompareFile

LEMMA OpenTemporaryShape ==
  ASSUME ShapeInv, OpenTemporary
  PROVE  ShapeInv'
<1>1. /\ command.pc = "stage" /\ Continues /\ KeepsJournal
  BY DEF OpenTemporary, At
<1>2. command.pc \in LoopPc
  BY <1>1, LoopNames
<1>3. PICK f \in File : f = command.f
  BY <1>2, CurrentFile
<1>4. CreateTemporary(f, "foreign") /\ Goto("write", f)
  BY <1>3 DEF OpenTemporary
<1>5. temporary[f] = Absent /\ Exists(After(f))
  BY <1>1, <1>3 DEF ShapeInv, HandledOK
<1>6. /\ DiskOK(File)' /\ OnlyAt(File, f) /\ temporary'[f] = Fresh(f, "foreign")
  BY <1>4, <1>5, CreateTemporaryEffect DEF ShapeInv
<1>7. command'.pc = "write" /\ command'.f = f
  BY <1>4, GotoFacts
<1>8. Exists(temporary'[f]) /\ temporary'[f].nlink = 1
  BY <1>6, FreshOnDisk DEF ShapeInv
<1>9. HandledOK'
  BY <1>5, <1>7, <1>8 DEF HandledOK, Exists, After
<1> QED
  BY <1>1, <1>2, <1>3, <1>4, <1>6, <1>9, LoopNames, LoopGoesOn DEF Continues

LEMMA WriteTemporaryEffect ==
  ASSUME ShapeInv, WriteTemporary, NEW f \in File, f = command.f
  PROVE  /\ DiskOK(File)' /\ OnlyAt(File, f)
         /\ target'[f] = target[f]
         /\ temporary'[f].ino = temporary[f].ino
         /\ temporary'[f].data = After(f).data /\ temporary'[f].nlink = 1
<1> DEFINE written == [temporary[f] EXCEPT !.data = After(f).data,
                                           !.ctime = clock[f] + 1]
<1>1. /\ temporary[f] \in OnDisk /\ target[f] \in OnDisk /\ clock[f] \in Nat /\ PairOK(f)
  BY PairAt DEF ShapeInv
<1>2. Exists(temporary[f]) /\ temporary[f].nlink = 1 /\ After(f).data = "new"
  BY AfterFacts DEF WriteTemporary, At, ShapeInv, HandledOK
<1>3. /\ temporary[f] \in FileState /\ temporary[f].ino > 0 /\ temporary[f].ino \in Nat
  BY <1>1, <1>2 DEF OnDisk, FileState, Exists, Absent
<1>4. clock[f] + 1 \in Nat
  BY <1>1
<1>5. /\ written \in FileState /\ written.ino = temporary[f].ino
      /\ written.data = "new" /\ written.nlink = 1
  BY <1>2, <1>3, <1>4 DEF FileState, Data
<1>6. PairBecomes(f, target[f], written)
  <2>1. temporary' = [temporary EXCEPT ![f] = written]
    BY DEF WriteTemporary
  <2> QED
    BY <2>1, SameAt DEF WriteTemporary, PairBecomes, ShapeInv
<1> HIDE DEF written
<1>7. PairCanBe(f, target[f], written)
  <2>1. ~Linked(f)
    BY <1>1, <1>2 DEF PairOK, Linked
  <2>2. written \in OnDisk
    BY <1>3, <1>5 DEF OnDisk
  <2>3. /\ written.ino <= clock[f] + 1 /\ target[f].ino <= clock[f] + 1
    BY <1>1, <1>3, <1>5 DEF PairOK, OnDisk, FileState
  <2>4. ~(Exists(target[f]) /\ target[f].ino = written.ino) /\ target[f].nlink # 2
    BY <1>1, <1>2, <1>5, <2>1 DEF Linked, PairOK
  <2> QED
    BY <1>1, <1>5, <2>2, <2>3, <2>4 DEF PairCanBe
<1> QED
  BY <1>2, <1>5, <1>6, <1>7, PairStep DEF ShapeInv

LEMMA WriteTemporaryShape ==
  ASSUME ShapeInv, WriteTemporary
  PROVE  ShapeInv'
<1>1. /\ command.pc = "write" /\ Continues /\ KeepsJournal
  BY DEF WriteTemporary, At
<1>2. command.pc \in LoopPc
  BY <1>1, LoopNames
<1>3. PICK f \in File : f = command.f
  BY <1>2, CurrentFile
<1>4. Goto("record", f)
  BY <1>3 DEF WriteTemporary
<1>5. Exists(After(f))
  BY <1>1, <1>3 DEF ShapeInv, HandledOK
<1>6. /\ DiskOK(File)' /\ OnlyAt(File, f)
      /\ temporary'[f].data = After(f).data /\ temporary'[f].nlink = 1
  BY <1>3, WriteTemporaryEffect
<1>7. command'.pc = "record" /\ command'.f = f
  BY <1>4, GotoFacts
<1>8. Exists(temporary'[f])
  BY <1>5, <1>6, AfterFacts DEF Exists
<1>9. HandledOK'
  BY <1>6, <1>7, <1>8 DEF HandledOK, Exists, After, Prepared
<1> QED
  BY <1>1, <1>2, <1>3, <1>4, <1>6, <1>9, LoopNames, LoopGoesOn DEF Continues

\* A tombstone is the second name of a file that is still as it was planned.
LEMMA TombstoneEffect ==
  ASSUME ShapeInv, command.pc = "tombstone", NEW f \in File, f = command.f,
         Disposition(f) = "before", LinkBoth(f, target[f])
  PROVE  /\ DiskOK(File)' /\ OnlyAt(File, f)
         /\ ~Exists(After(f)) /\ Exists(target[f])
         /\ target'[f] = Relinked(f, target[f], 2) /\ temporary'[f] = target'[f]
         /\ target'[f].ino = target[f].ino /\ target'[f].data = target[f].data
         /\ Exists(temporary'[f])
<1>2. command.pc \in LoopPc
  BY LoopNames
<1>3. ~Exists(After(f))
  BY DEF ShapeInv, HandledOK
<1>4. /\ target[f].data = memory.before[f].data
      /\ memory.before[f].data # After(f).data
      /\ target[f] \in OnDisk /\ PairOK(f)
  BY <1>2, AtSide, ReadFacts
<1>5. Exists(target[f])
  BY <1>3, <1>4, AfterFacts DEF Exists
<1>6. target[f].ino <= clock[f]
  BY <1>4 DEF PairOK
<1>7. /\ DiskOK(File)' /\ OnlyAt(File, f)
      /\ target'[f] = Relinked(f, target[f], 2)
      /\ temporary'[f] = Relinked(f, target[f], 2)
      /\ target'[f].ino = target[f].ino /\ target'[f].data = target[f].data
  BY <1>4, <1>5, <1>6, LinkBothEffect DEF ShapeInv
<1> QED
  BY <1>3, <1>5, <1>7 DEF Exists

LEMMA StageDeletionTombstoneShape ==
  ASSUME ShapeInv, StageDeletionTombstone
  PROVE  ShapeInv'
<1>1. /\ command.pc = "tombstone" /\ UNCHANGED <<others, faults>>
  BY DEF StageDeletionTombstone, At
<1>2. command.pc \in LoopPc
  BY <1>1, LoopNames
<1>3. PICK f \in File : f = command.f
  BY <1>2, CurrentFile
<1>4. CASE /\ Disposition(f) = "before" /\ LinkBoth(f, target[f])
           /\ Goto("record", f) /\ KeepsJournal /\ UNCHANGED <<last, phase>>
  <2>1. /\ DiskOK(File)' /\ OnlyAt(File, f) /\ ~Exists(After(f)) /\ Exists(temporary'[f])
    BY <1>1, <1>3, <1>4, TombstoneEffect
  <2>2. command'.pc = "record" /\ command'.f = f
    BY <1>4, GotoFacts
  <2>3. HandledOK'
    BY <2>1, <2>2 DEF HandledOK, Exists, After
  <2> QED
    BY <1>1, <1>2, <1>3, <1>4, <2>1, <2>3, LoopNames, LoopGoesOn
<1>5. CASE Fail("recovery_conflict")
  BY <1>1, <1>5, FailShape
<1> QED
  BY <1>3, <1>4, <1>5 DEF StageDeletionTombstone

LEMMA RecordTemporaryShape ==
  ASSUME ShapeInv, RecordTemporary
  PROVE  ShapeInv'
<1>1. command.pc = "record" /\ UNCHANGED <<others, faults>>
  BY DEF RecordTemporary, At
<1>2. command.pc \in LoopPc
  BY <1>1, LoopNames
<1>3. PICK f \in File : f = command.f
  BY <1>2, CurrentFile
<1> DEFINE side == IF Exists(After(f)) THEN "after" ELSE "before"
           j == [memory EXCEPT !.temporary[f] = [side |-> side, state |-> temporary[f]]]
<1>4. CASE /\ side = "before" => /\ target[f] = temporary[f]
                                 /\ SamePayload(target[f], memory.before[f])
           /\ Save(j) /\ Goto("publish", f)
           /\ UNCHANGED <<disk, backup, binding, last, phase>>
  <2>0. /\ Exists(temporary[f])
        /\ Exists(After(f)) => temporary[f].data = After(f).data /\ temporary[f].nlink = 1
    BY <1>1, <1>3 DEF ShapeInv, HandledOK, Prepared
  <2>1. side \in Side
    BY SideFacts
  <2>2. OwnSide(f, [side |-> side, state |-> temporary[f]])
    <3>1. ~Exists(After(f)) => temporary[f].nlink = 2
      BY <1>2, <1>3, <1>4, <2>0, ReadFacts DEF PairOK, Linked
    <3> QED
      BY <2>0, <3>1 DEF OwnSide
  <2>3. temporary[f].data = Entry(memory, f).planned[side].data
    BY <1>4, <2>0, EntryFacts DEF SamePayload
  <2>4. JournalOK(j) /\ j.files = memory.files
    <3> HIDE DEF side
    <3> QED
      BY <1>2, <1>3, <2>0, <2>1, <2>2, <2>3, LoopFacts, ReadFacts, TemporarySaved
  <2>5. command' \in [pc : Pc, f : 0..N] /\ command'.pc = "publish" /\ command'.f = f
    BY <1>4, GotoFacts, PcNames, FileFacts
  <2>6. HandledOK'
    BY <2>5, UnhandledOK DEF Unhandled
  <2> HIDE DEF j, side
  <2> QED
    BY <1>1, <1>2, <1>3, <1>4, <2>4, <2>5, <2>6, LoopSaves, LoopFacts, LoopNames
<1>5. CASE Fail("deletion_tombstone_readback_mismatch")
  BY <1>1, <1>5, FailShape
<1> QED
  BY <1>3, <1>4, <1>5 DEF RecordTemporary

LEMMA SecondCompareShape ==
  ASSUME ShapeInv, SecondCompare
  PROVE  ShapeInv'
<1>1. command.pc = "publish" /\ UNCHANGED <<others, faults>>
  BY DEF SecondCompare, At
<1>2. command.pc \in LoopPc
  BY <1>1, LoopNames
<1>3. PICK f \in File : f = command.f
  BY <1>2, CurrentFile
<1>4. CASE Goto("confirm", f) /\ KeepsJournal /\ UNCHANGED <<disk, last, phase>>
  BY <1>1, <1>2, <1>3, <1>4, LoopNames, LoopGoesOnUnhandled DEF Unhandled
<1>5. CASE /\ ReadyToPublish(f) /\ Goto("commit", f)
           /\ KeepsJournal /\ UNCHANGED <<disk, last, phase>>
  <2>1. command'.pc = "commit" /\ command'.f = f
    BY <1>5, GotoFacts
  <2>2. ASSUME Exists(After(f)) PROVE Prepared(f)
    <3>1. /\ Change(f).temporary.side = "after"
          /\ \/ temporary[f] = Change(f).temporary.state /\ temporary[f].nlink = 1
             \/ IsOwnedDeletionRemainder(temporary[f], Change(f).temporary.state)
      BY <1>5, <2>2 DEF ReadyToPublish, TemporaryReady
    <3>2. Change(f).temporary # NoTemporary
      BY <3>1 DEF NoTemporary
    <3>3. Change(f).temporary.state.data = After(f).data
      BY <1>2, <1>3, <3>1, <3>2, ReadFacts, EntryFacts DEF ChangeOK, SamePayload
    <3> QED
      BY <3>1, <3>3 DEF Prepared, IsOwnedDeletionRemainder, SameFileObject
  <2>3. HandledOK'
    BY <1>5, <2>1, <2>2 DEF HandledOK, Prepared, disk, After, Exists
  <2>4. DiskOK(File)' /\ UNCHANGED temporary
    BY <1>5, DiskKept DEF ShapeInv, disk
  <2> QED
    BY <1>1, <1>2, <1>3, <1>5, <2>3, <2>4, LoopNames, LoopGoesOn
<1>6. CASE Fail("recovery_conflict")
  BY <1>1, <1>6, FailShape
<1> QED
  BY <1>3, <1>4, <1>5, <1>6 DEF SecondCompare

\* A publication puts the planned bytes at f, over what was compared or where
\* nothing is.
LEMMA PublishFileEffect ==
  ASSUME ShapeInv, PublishFile, NEW f \in File, f = command.f
  PROVE  \/ /\ DiskOK(File)' /\ OnlyAt(File, f)
            /\ target'[f].data = After(f).data
            /\ temporary'[f].ino \in {0, temporary[f].ino}
            /\ target'[f].ctime = clock[f] + 1 \/ target'[f] = Absent
            /\ InWindow(f) \/ ~Exists(target[f])
            /\ \/ Goto("confirm", f)
               \/ Exists(After(f)) /\ Goto("unlink temporary", f)
            /\ KeepsJournal /\ UNCHANGED <<last, phase>>
         \/ Fail("destination_collision")
<1>1. command.pc = "commit"
  BY DEF PublishFile, At
<1>2. command.pc \in LoopPc
  BY <1>1, LoopNames
<1>3. /\ target[f] \in OnDisk /\ temporary[f] \in OnDisk /\ PairOK(f)
      /\ memory.before[f].data # After(f).data
  BY <1>2, ReadFacts
<1>4. ASSUME Exists(After(f))
      PROVE  /\ Exists(temporary[f]) /\ temporary[f].data = After(f).data
             /\ temporary[f].ino <= clock[f]
  BY <1>1, <1>3, <1>4, AfterFacts DEF ShapeInv, HandledOK, Prepared, Exists, PairOK
<1>5. CASE /\ ~Exists(After(f)) /\ Exists(target[f])
           /\ UnlinkTarget(f) /\ Goto("confirm", f)
           /\ KeepsJournal /\ UNCHANGED <<last, phase>>
  <2>1. /\ DiskOK(File)' /\ OnlyAt(File, f) /\ target'[f] = Absent
        /\ temporary'[f].ino = temporary[f].ino
    BY <1>5, UnlinkTargetEffect DEF ShapeInv
  <2>2. Exists(memory.before[f])
    BY <1>3, <1>5, AfterFacts DEF Exists
  <2>3. InWindow(f)
    BY <1>1, <2>2 DEF InWindow, At
  <2>4. target'[f].data = After(f).data
    BY <1>5, <2>1, AfterFacts
  <2> QED
    BY <1>5, <2>1, <2>3, <2>4
<1>6. CASE /\ Exists(After(f)) /\ Exists(memory.before[f])
           /\ RenameTemporary(f) /\ Goto("confirm", f)
           /\ KeepsJournal /\ UNCHANGED <<last, phase>>
  <2>1. /\ DiskOK(File)' /\ OnlyAt(File, f)
        /\ target'[f] = Relinked(f, temporary[f], 1)
        /\ target'[f].data = temporary[f].data
        /\ temporary'[f] = Absent
    BY <1>4, <1>6, RenameTemporaryEffect DEF ShapeInv
  <2>2. target'[f].ctime = clock[f] + 1
    BY <1>3, <2>1 DEF Relinked, OnDisk, FileState
  <2>3. InWindow(f)
    BY <1>1, <1>6 DEF InWindow, At
  <2>4. temporary'[f].ino = 0
    BY <2>1 DEF Absent
  <2> QED
    BY <1>4, <1>6, <2>1, <2>2, <2>3, <2>4
<1>7. CASE /\ Exists(After(f)) /\ ~Exists(target[f])
           /\ LinkBoth(f, temporary[f]) /\ Goto("unlink temporary", f)
           /\ KeepsJournal /\ UNCHANGED <<last, phase>>
  <2>1. /\ DiskOK(File)' /\ OnlyAt(File, f)
        /\ target'[f] = Relinked(f, temporary[f], 2)
        /\ temporary'[f] = Relinked(f, temporary[f], 2)
        /\ target'[f].ino = temporary[f].ino /\ target'[f].data = temporary[f].data
    BY <1>3, <1>4, <1>7, LinkBothEffect DEF ShapeInv
  <2>2. target'[f].ctime = clock[f] + 1
    BY <1>3, <2>1 DEF Relinked, OnDisk, FileState
  <2> QED
    BY <1>4, <1>7, <2>1, <2>2
<1> QED
  BY <1>5, <1>6, <1>7 DEF PublishFile

LEMMA PublishFileShape ==
  ASSUME ShapeInv, PublishFile
  PROVE  ShapeInv'
<1>1. command.pc = "commit" /\ UNCHANGED <<others, faults>>
  BY DEF PublishFile, At
<1>2. command.pc \in LoopPc
  BY <1>1, LoopNames
<1>3. PICK f \in File : f = command.f
  BY <1>2, CurrentFile
<1>4. CASE /\ DiskOK(File)' /\ OnlyAt(File, f) /\ Goto("confirm", f)
           /\ KeepsJournal /\ UNCHANGED <<last, phase>>
  <2>1. HandledOK'
    BY <1>4, GotoFacts, UnhandledOK DEF Unhandled
  <2> QED
    BY <1>1, <1>2, <1>3, <1>4, <2>1, LoopNames, LoopGoesOn
<1>5. CASE /\ DiskOK(File)' /\ OnlyAt(File, f)
           /\ Exists(After(f)) /\ Goto("unlink temporary", f)
           /\ KeepsJournal /\ UNCHANGED <<last, phase>>
  <2>0. command'.pc = "unlink temporary" /\ command'.f = f
    BY <1>5, GotoFacts
  <2>1. HandledOK'
    BY <1>5, <2>0 DEF HandledOK, After, Exists
  <2> QED
    BY <1>1, <1>2, <1>3, <1>5, <2>1, LoopNames, LoopGoesOn
<1>6. CASE Fail("destination_collision")
  BY <1>1, <1>6, FailShape
<1> QED
  BY <1>3, <1>4, <1>5, <1>6, PublishFileEffect

LEMMA UnlinkPublishedTemporaryShape ==
  ASSUME ShapeInv, UnlinkPublishedTemporary
  PROVE  ShapeInv'
<1>1. command.pc = "unlink temporary" /\ Continues /\ KeepsJournal
  BY DEF UnlinkPublishedTemporary, At
<1>2. command.pc \in LoopPc
  BY <1>1, LoopNames
<1>3. PICK f \in File : f = command.f
  BY <1>2, CurrentFile
<1>4. UnlinkTemporary(f) /\ Goto("confirm", f)
  BY <1>3 DEF UnlinkPublishedTemporary
<1>5. DiskOK(File)' /\ OnlyAt(File, f)
  BY <1>4, UnlinkTemporaryEffect DEF ShapeInv
<1>6. HandledOK'
  BY <1>4, GotoFacts, UnhandledOK DEF Unhandled
<1> QED
  BY <1>1, <1>2, <1>3, <1>4, <1>5, <1>6, LoopNames, LoopGoesOn DEF Continues

LEMMA RecordEndpointShape ==
  ASSUME ShapeInv, RecordEndpoint
  PROVE  ShapeInv'
<1>1. command.pc = "confirm" /\ UNCHANGED <<others, faults>>
  BY DEF RecordEndpoint, At
<1>2. command.pc \in LoopPc
  BY <1>1, LoopNames
<1>3. PICK f \in File : f = command.f
  BY <1>2, CurrentFile
<1> DEFINE j == [memory EXCEPT !.published[f] = target[f]]
<1>4. CASE /\ DesiredEndpointReached(Change(f), target[f], temporary[f], "after")
           /\ Save(j) /\ EnterFrom(f + 1)
           /\ UNCHANGED <<disk, backup, binding, last, phase>>
  <2>1. target[f].data = After(f).data /\ target[f] \in OnDisk
    BY <1>2, <1>3, <1>4, AtSide, ReadFacts
  <2>2. JournalOK(j) /\ j.files = memory.files
    BY <1>2, <1>3, <2>1, LoopFacts, PublishedSaved
  <2> HIDE DEF j
  <2>3. memory' = j
    BY <1>4 DEF Save
  <2>4. /\ command' \in [pc : Pc, f : 0..N]
        /\ \/ command'.pc = "validate"
           \/ command'.pc = "reconcile" /\ command'.f \in memory.files
    <3>1. memory'.files \subseteq File /\ f + 1 \in Nat
      BY <1>2, <2>2, <2>3, LoopFacts, FileFacts
    <3> QED
      BY <1>4, <2>2, <2>3, <3>1, EnterFromFacts
  <2>5. HandledOK'
    BY <2>4, UnhandledOK DEF Unhandled
  <2> QED
    BY <1>1, <1>2, <1>4, <2>2, <2>4, <2>5, LoopSaves, LoopNames
<1>5. CASE Fail("post_commit_mismatch")
  BY <1>1, <1>5, FailShape
<1> QED
  BY <1>3, <1>4, <1>5 DEF RecordEndpoint
-----------------------------------------------------------------------------
\* A step behind the loop that leaves the disk and the binding alone.
LEMMA EndKeeps ==
  ASSUME ShapeInv, command.pc \in EndPc, NEW pc \in EndPc \cap Unhandled, Goto(pc, 0),
         UNCHANGED <<disk, memory, pending, backup, phase>>, HistoryOK'
  PROVE  ShapeInv'
<1>1. DiskOK(File)' /\ TemporariesOfJournal'
  BY DiskKept DEF ShapeInv, disk, TemporariesOfJournal
<1>2. HandledOK'
  BY GotoFacts, UnhandledOK
<1>3. pc # "cleanup" /\ 0 \in 0..N
  BY FileFacts DEF Unhandled
<1> QED
  BY <1>1, <1>2, <1>3, EndGoesOn

LEMMA ValidateContextShape ==
  ASSUME ShapeInv, ValidateContext
  PROVE  ShapeInv'
<1>1. command.pc \in EndPc /\ UNCHANGED <<others, faults>>
  BY EndNames DEF ValidateContext, At
<1>2. CASE Fail("upgrade_default_set_changed")
  BY <1>1, <1>2, FailShape
<1>3. CASE Goto("final", 0) /\ KeepsJournal /\ UNCHANGED <<disk, last, phase>>
  BY <1>1, <1>3, EndKeeps, EndNames, HistoryKept DEF KeepsJournal, Unhandled
<1> QED
  BY <1>2, <1>3 DEF ValidateContext

LEMMA CheckFinalFilesShape ==
  ASSUME ShapeInv, CheckFinalFiles
  PROVE  ShapeInv'
<1>1. command.pc \in EndPc /\ UNCHANGED <<others, faults>>
  BY EndNames DEF CheckFinalFiles, At
<1>2. CASE Fail("upgrade_final_file_changed")
  BY <1>1, <1>2, FailShape
<1>3. CASE Goto("binding", 0) /\ KeepsJournal /\ UNCHANGED <<disk, last, phase>>
  BY <1>1, <1>3, EndKeeps, EndNames, HistoryKept DEF KeepsJournal, Unhandled
<1> QED
  BY <1>2, <1>3 DEF CheckFinalFiles

LEMMA RetireBindingShape ==
  ASSUME ShapeInv, RetireBinding
  PROVE  ShapeInv'
<1>1. command.pc \in EndPc /\ UNCHANGED <<others, faults>>
  BY EndNames DEF RetireBinding, At
<1>2. CASE Fail("retirement_blocked")
  BY <1>1, <1>2, FailShape
<1>3. CASE Goto("marker", 0) /\ KeepsJournal /\ UNCHANGED <<disk, last, phase>>
  BY <1>1, <1>3, EndKeeps, EndNames, HistoryKept DEF KeepsJournal, Unhandled
<1>4. CASE /\ binding' = [binding EXCEPT !.record = "linked"]
           /\ Goto("unlink record", 0)
           /\ UNCHANGED <<disk, memory, pending, backup, last, phase>>
  <2>1. HistoryOK'
    BY <1>1, <1>4 DEF ShapeInv, HistoryOK, others, faults
  <2> QED
    BY <1>1, <1>4, <2>1, EndKeeps, EndNames DEF Unhandled
<1> QED
  BY <1>2, <1>3, <1>4 DEF RetireBinding

LEMMA CompareRecordShape ==
  ASSUME ShapeInv, CompareRecord
  PROVE  ShapeInv'
<1>1. command.pc \in EndPc /\ UNCHANGED <<others, faults>>
  BY EndNames DEF CompareRecord, At
<1>2. CASE Fail("deletion_tombstone_identity_changed")
  BY <1>1, <1>2, FailShape
<1>3. CASE Goto("remove record", 0) /\ KeepsJournal /\ UNCHANGED <<disk, last, phase>>
  BY <1>1, <1>3, EndKeeps, EndNames, HistoryKept DEF KeepsJournal, Unhandled
<1> QED
  BY <1>2, <1>3 DEF CompareRecord

LEMMA RemoveRecordShape ==
  ASSUME ShapeInv, RemoveRecord
  PROVE  ShapeInv'
<1>1. /\ command.pc \in EndPc /\ UNCHANGED <<others, faults>>
      /\ UNCHANGED <<disk, pending, backup, phase>>
      /\ binding' = [binding EXCEPT !.record = "absent"]
  BY EndNames DEF RemoveRecord, At
<1>2. HistoryOK'
  BY <1>1 DEF ShapeInv, HistoryOK, others, faults
<1>3. CASE Goto("marker", 0) /\ UNCHANGED <<memory, last>>
  BY <1>1, <1>2, <1>3, EndKeeps, EndNames DEF Unhandled
<1>4. CASE Ended("post_commit_identity_mismatch")
  BY <1>1, <1>2, <1>4, EndsShape DEF Ended
<1> QED
  BY <1>3, <1>4 DEF RemoveRecord

LEMMA UnsetMarkerShape ==
  ASSUME ShapeInv, UnsetMarker
  PROVE  ShapeInv'
<1>1. command.pc \in EndPc /\ UNCHANGED <<others, faults>> /\ UNCHANGED <<disk, memory, pending, backup, phase>>
  BY EndNames DEF UnsetMarker, At, Continues
<1>2. HistoryOK'
  BY <1>1 DEF UnsetMarker, ShapeInv, HistoryOK, others, faults
<1>3. DiskOK(File)' /\ TemporariesOfJournal'
  BY <1>1, DiskKept DEF ShapeInv, disk, TemporariesOfJournal
<1>4. Goto("cleanup", 1)
  BY DEF UnsetMarker
<1>5. HandledOK'
  <2>1. command'.pc = "cleanup" /\ command'.f = 1
    BY <1>4, GotoFacts
  <2>2. 1..(1 - 1) = {}
    OBVIOUS
  <2> QED
    BY <2>1, <2>2 DEF HandledOK
<1> QED
  BY <1>1, <1>2, <1>3, <1>4, <1>5, EndGoesOn, EndNames, FileFacts

\* What the cleanup does to the file it is at.
LEMMA CleanupEffect ==
  ASSUME ShapeInv, CleanupTemporary
  PROVE  \/ Fail("temporary_identity_changed")
         \/ \E f \in File :
              /\ f = command.f /\ f \in Nat
              /\ \/ /\ f \in memory.files /\ UnlinkTemporary(f)
                    /\ RemovableTemporary(Change(f), target[f], temporary[f])
                    /\ DiskOK(File)' /\ OnlyAt(File, f)
                    /\ target'[f].ino = target[f].ino
                    /\ target'[f].data = target[f].data
                 \/ UNCHANGED disk
              /\ temporary'[f] = Absent
              /\ IF f = N THEN Goto("remove pending", 0) ELSE Goto("cleanup", f + 1)
              /\ KeepsJournal /\ UNCHANGED <<last, phase>>
<1>1. command.pc = "cleanup"
  BY DEF CleanupTemporary, At
<1>2. PICK f \in File : f = command.f
  BY <1>1 DEF ShapeInv, CommandOK
<1>3. command.pc \in EndPc /\ f \in Nat
  BY <1>1, EndNames, FileFacts
<1>4. temporary[f] \in OnDisk
  BY PairAt DEF ShapeInv
<1>5. CASE f \in memory.files /\ Exists(temporary[f])
  BY <1>2, <1>3, <1>5, UnlinkTemporaryEffect DEF CleanupTemporary, LastFile, ShapeInv
<1>6. CASE ~(f \in memory.files /\ Exists(temporary[f]))
  <2>1. temporary[f] = Absent
    BY <1>3, <1>4, <1>6, LateFacts, AbsentOnDisk DEF ShapeInv, TemporariesOfJournal
  <2>2. UNCHANGED disk
    BY <1>2, <1>6 DEF CleanupTemporary
  <2> QED
    BY <1>2, <1>3, <1>6, <2>1, <2>2 DEF CleanupTemporary, LastFile, disk
<1> QED
  BY <1>5, <1>6

LEMMA CleanupTemporaryShape ==
  ASSUME ShapeInv, CleanupTemporary
  PROVE  ShapeInv'
<1>1. command.pc = "cleanup" /\ UNCHANGED <<others, faults>>
  BY DEF CleanupTemporary, At
<1>2. command.pc \in EndPc
  BY <1>1, EndNames
<1>3. CASE Fail("temporary_identity_changed")
  BY <1>1, <1>3, FailShape
<1>4. ASSUME NEW f \in File, f = command.f, f \in Nat,
             \/ OnlyAt(File, f) /\ DiskOK(File)'
             \/ UNCHANGED disk,
             temporary'[f] = Absent,
             IF f = N THEN Goto("remove pending", 0) ELSE Goto("cleanup", f + 1),
             KeepsJournal, UNCHANGED <<last, phase>>
      PROVE  ShapeInv'
  <2>1. DiskOK(File)'
    BY <1>4, DiskKept DEF ShapeInv, disk
  <2>2. \A g \in File : temporary[g] = Absent => temporary'[g] = Absent
    BY <1>4 DEF OnlyAt, disk
  <2>3. TemporariesOfJournal'
    BY <1>4, <2>2 DEF ShapeInv, TemporariesOfJournal, KeepsJournal
  <2>4. \A g \in 1..f : temporary'[g] = Absent
    <3>1. \A g \in 1..(f - 1) : temporary[g] = Absent
      BY <1>1, <1>4 DEF ShapeInv, HandledOK
    <3>2. \A g \in 1..f : g \in File /\ (g = f \/ g \in 1..(f - 1))
      BY FileFacts, KindFacts
    <3> QED
      BY <1>4, <2>2, <3>1, <3>2
  <2>5. HistoryOK' /\ UNCHANGED <<memory, pending, backup, phase>>
    BY <1>1, <1>4, HistoryKept DEF KeepsJournal
  <2>6. CASE f = N
    <3>1. Goto("remove pending", 0)
      BY <1>4, <2>6
    <3>2. HandledOK'
      <4>1. command'.pc = "remove pending"
        BY <3>1, GotoFacts
      <4>2. \A g \in File : temporary'[g] = Absent
        BY <2>4, <2>6, KindFacts
      <4> QED
        BY <4>1, <4>2 DEF HandledOK
    <3> QED
      BY <1>2, <2>1, <2>3, <2>5, <3>1, <3>2, EndGoesOn, EndNames, FileFacts
  <2>7. CASE f # N
    <3>1. Goto("cleanup", f + 1)
      BY <1>4, <2>7
    <3>2. HandledOK'
      <4>1. command'.pc = "cleanup" /\ command'.f = f + 1
        BY <3>1, GotoFacts
      <4>2. (f + 1) - 1 = f
        <5>1. f \in Int
          BY FileFacts
        <5> QED
          BY <5>1
      <4> QED
        BY <2>4, <4>1, <4>2 DEF HandledOK
    <3>3. f + 1 \in File /\ f + 1 \in 0..N
      BY <2>7, FileFacts
    <3> QED
      BY <1>2, <2>1, <2>3, <2>5, <3>1, <3>2, <3>3, EndGoesOn, EndNames
  <2> QED
    BY <2>6, <2>7
<1> QED
  BY <1>3, <1>4, CleanupEffect

\* The pending file is there, and the command works with its journal.
LEMMA OpenStore ==
  ASSUME pending' \in [links : 0..2, journal : Journal], pending'.links # 0,
         pending'.journal = memory', JournalOK(memory)', JournalOK(pending.journal)',
         backup' \in Journal, phase' = "open",
         command'.pc # "idle", command'.pc \notin EarlyPc
  PROVE  StoreOK'
BY DEF StoreOK

LEMMA LinkPendingTombstoneShape ==
  ASSUME ShapeInv, LinkPendingTombstone
  PROVE  ShapeInv'
<1>1. /\ command.pc = "remove pending" /\ command.pc \in EndPc
      /\ pending' = [pending EXCEPT !.links = 2] /\ Goto("unlink pending", 0)
      /\ UNCHANGED <<disk, memory, backup, binding, others, faults, phase>>
  BY EndNames DEF LinkPendingTombstone, At, Continues
<1>2. /\ command'.pc = "unlink pending" /\ command' \in [pc : Pc, f : 0..N]
  BY <1>1, GotoFacts, PcNames, FileFacts
<1>3. /\ pending' \in [links : 0..2, journal : Journal]
      /\ pending'.links = 2 /\ pending'.journal = memory
  BY <1>1, LateFacts, FileFacts
<1>4. StoreOK'
  <2>1. /\ JournalOK(memory)' /\ JournalOK(pending.journal)'
        /\ backup' \in Journal /\ phase' = "open" /\ memory' = memory
    BY <1>1, <1>3, LateFacts
  <2>2. command'.pc # "idle" /\ command'.pc \notin EarlyPc
    BY <1>2 DEF EarlyPc
  <2> QED
    BY <1>3, <2>1, <2>2, OpenStore
<1>5. CommandOK'
  BY <1>2 DEF CommandOK, LoopPc
<1>6. \A f \in File : temporary'[f] = Absent
  BY <1>1 DEF ShapeInv, HandledOK, disk
<1>7. TemporariesOfJournal' /\ HandledOK'
  BY <1>2, <1>6 DEF TemporariesOfJournal, HandledOK
<1>8. DiskOK(File)' /\ HistoryOK'
  BY <1>1, DiskKept, HistoryKept DEF ShapeInv, disk
<1> QED
  BY <1>4, <1>5, <1>7, <1>8 DEF ShapeInv

LEMMA UnlinkPendingShape ==
  ASSUME ShapeInv, UnlinkPending
  PROVE  ShapeInv'
<1>1. /\ command.pc = "unlink pending" /\ command.pc \in EndPc
      /\ pending' = NoPending /\ phase' = "completed"
      /\ command' = Idle /\ memory' = NoJournal
      /\ UNCHANGED <<disk, backup, binding, others, faults>>
  BY EndNames DEF UnlinkPending, At, Ended
<1>2. command'.pc = "idle"
  BY <1>1, IdleFields
<1>3. /\ pending' \in [links : 0..2, journal : Journal]
      /\ pending'.links = 0 /\ pending'.journal = NoJournal
  BY <1>1, NoPendingFields
<1>4. StoreOK'
  <2>1. backup' \in Journal
    BY <1>1, LateFacts
  <2> QED
    BY <1>1, <1>2, <1>3, <2>1 DEF StoreOK, EarlyPc, LoopPc, EndPc
<1>5. CommandOK'
  BY <1>1, <1>2, IdleFields DEF CommandOK, LoopPc
<1>6. \A f \in File : temporary'[f] = Absent
  BY <1>1 DEF ShapeInv, HandledOK, disk
<1>7. TemporariesOfJournal' /\ HandledOK'
  BY <1>2, <1>6 DEF TemporariesOfJournal, HandledOK
<1>8. DiskOK(File)' /\ HistoryOK'
  BY <1>1, DiskKept, HistoryKept DEF ShapeInv, disk
<1> QED
  BY <1>4, <1>5, <1>7, <1>8 DEF ShapeInv

LEMMA CrashShape ==
  ASSUME ShapeInv, Crash
  PROVE  ShapeInv'
<1>1. HistoryOK'
  BY DEF Crash, ShapeInv, HistoryOK, others
<1> QED
  BY <1>1, EndsShape DEF Crash, Ended

\* What the command has before the pending file is there.
LEMMA EarlyFacts ==
  ASSUME ShapeInv, command.pc \in EarlyPc
  PROVE  /\ JournalOK(memory) /\ memory # NoJournal /\ memory \in Journal
         /\ pending.links = 0 /\ pending.journal = NoJournal /\ backup \in Journal
         /\ pending \in [links : 0..2, journal : Journal]
         /\ phase \in {"planned", "completed"}
         /\ \A f \in File : temporary[f] = Absent
<1>1. command.pc # "idle"
  BY DEF EarlyPc
<1>2. /\ JournalOK(memory) /\ pending.links = 0 /\ pending.journal = NoJournal
      /\ pending \in [links : 0..2, journal : Journal]
      /\ backup \in Journal /\ phase \in {"planned", "completed"}
  BY <1>1 DEF ShapeInv, StoreOK
<1> QED
  BY <1>2, JournalFacts DEF ShapeInv, TemporariesOfJournal

LEMMA WriteBackupShape ==
  ASSUME ShapeInv, WriteBackup
  PROVE  ShapeInv'
<1>1. /\ command.pc \in EarlyPc /\ backup' = memory /\ Goto("pending", 0)
      /\ UNCHANGED <<disk, memory, pending, binding, others, faults, phase>>
  BY DEF WriteBackup, At, Continues, EarlyPc
<1>2. command'.pc = "pending" /\ command' \in [pc : Pc, f : 0..N]
  BY <1>1, GotoFacts, PcNames, FileFacts
<1>3. StoreOK'
  <2>1. JournalOK(memory)'
    BY <1>1, EarlyFacts
  <2> QED
    BY <1>1, <1>2, <2>1, EarlyFacts, NoPendingFields DEF ShapeInv, StoreOK, LoopPc, EndPc
<1>4. CommandOK'
  BY <1>2 DEF CommandOK, LoopPc
<1>5. TemporariesOfJournal' /\ HandledOK'
  BY <1>1, <1>2 DEF ShapeInv, TemporariesOfJournal, HandledOK, disk
<1>6. DiskOK(File)' /\ HistoryOK'
  BY <1>1, DiskKept, HistoryKept DEF ShapeInv, disk
<1> QED
  BY <1>3, <1>4, <1>5, <1>6 DEF ShapeInv

LEMMA LinkPendingShape ==
  ASSUME ShapeInv, LinkPending
  PROVE  ShapeInv'
<1>1. /\ command.pc \in EarlyPc /\ pending' = [links |-> 2, journal |-> memory]
      /\ Goto("unlink pending temporary", 0) /\ phase' = "open"
      /\ UNCHANGED <<disk, memory, backup, binding, others, faults>>
  BY DEF LinkPending, At, EarlyPc
<1>2. /\ command'.pc = "unlink pending temporary" /\ command' \in [pc : Pc, f : 0..N]
  BY <1>1, GotoFacts, PcNames, FileFacts
<1>3. /\ pending' \in [links : 0..2, journal : Journal]
      /\ pending'.links = 2 /\ pending'.journal = memory
  BY <1>1, EarlyFacts, FileFacts
<1>4. StoreOK'
  <2>1. /\ JournalOK(memory)' /\ JournalOK(pending.journal)'
        /\ backup' \in Journal /\ phase' = "open" /\ memory' = memory
    BY <1>1, <1>3, EarlyFacts
  <2>2. command'.pc # "idle" /\ command'.pc \notin EarlyPc
    BY <1>2 DEF EarlyPc
  <2> QED
    BY <1>3, <2>1, <2>2, OpenStore
<1>5. CommandOK'
  BY <1>2 DEF CommandOK, LoopPc
<1>6. TemporariesOfJournal' /\ HandledOK'
  BY <1>1, <1>2, EarlyFacts DEF TemporariesOfJournal, HandledOK, disk
<1>7. DiskOK(File)' /\ HistoryOK'
  BY <1>1, DiskKept, HistoryKept DEF ShapeInv, disk
<1> QED
  BY <1>4, <1>5, <1>6, <1>7 DEF ShapeInv

\* The loop begins: at a new pending file, or at one that was left.
LEMMA LoopBegins ==
  ASSUME ShapeInv, JournalOK(pending.journal), pending.links # 0,
         memory' = pending.journal, pending'.journal = pending.journal,
         pending'.links # 0, pending' \in [links : 0..2, journal : Journal],
         EnterFrom(1), UNCHANGED <<disk, backup, phase>>, HistoryOK'
  PROVE  ShapeInv'
<1>1. memory'.files \subseteq File
  BY DEF JournalOK, FullJournal
<1>2. /\ command' \in [pc : Pc, f : 0..N]
      /\ \/ command'.pc = "validate"
         \/ command'.pc = "reconcile" /\ command'.f \in memory'.files
  BY <1>1, EnterFromFacts
<1>3. StoreOK'
  <2>1. JournalOK(memory)' /\ JournalOK(pending.journal)'
    OBVIOUS
  <2> QED
    BY <1>2, <2>1 DEF ShapeInv, StoreOK, EarlyPc
<1>4. CommandOK'
  BY <1>2 DEF CommandOK, LoopPc
<1>5. TemporariesOfJournal' /\ HandledOK'
  BY <1>2, UnhandledOK DEF ShapeInv, TemporariesOfJournal, disk, Unhandled
<1>6. DiskOK(File)'
  BY DiskKept DEF ShapeInv, disk
<1> QED
  BY <1>3, <1>4, <1>5, <1>6 DEF ShapeInv

LEMMA UnlinkPendingTemporaryShape ==
  ASSUME ShapeInv, UnlinkPendingTemporary
  PROVE  ShapeInv'
<1>1. /\ command.pc \in EndPc \cup {"unlink pending temporary"}
      /\ pending' = [pending EXCEPT !.links = 1] /\ memory' = memory /\ EnterFrom(1)
      /\ UNCHANGED <<disk, backup, binding, others, faults, phase>>
  BY DEF UnlinkPendingTemporary, At, Continues
<1>2. pending' \in [links : 0..2, journal : Journal]
  BY <1>1, LateFacts, FileFacts
<1>3. pending'.links = 1 /\ pending'.journal = pending.journal
  BY <1>1, LateFacts
<1>4. HistoryOK'
  BY <1>1, HistoryKept
<1>5. /\ memory = pending.journal /\ pending.links # 0
      /\ JournalOK(pending.journal)
  BY <1>1, LateFacts
<1>6. pending'.links # 0
  BY <1>3
<1>7. memory' = pending.journal
  BY <1>1, <1>5
<1> QED
  BY <1>1, <1>2, <1>3, <1>4, <1>5, <1>6, <1>7, LoopBegins

\* The journal of a plan without a blocker.
LEMMA CreateJournalOK ==
  ASSUME ShapeInv, ~PlanBlocked
  PROVE  /\ JournalOK(CreateJournal)
         /\ CreateJournal.files = Changed(target) /\ CreateJournal.before = target
         /\ \A f \in File : /\ CreateJournal.temporary[f] = NoTemporary
                            /\ CreateJournal.published[f] = Unrecorded
         /\ CreateJournal.record = binding.record /\ CreateJournal.marker = binding.marker
<1> DEFINE j == CreateJournal
<1>1. /\ j.files = Changed(target) /\ j.before = target
      /\ j.record = binding.record /\ j.marker = binding.marker
      /\ j.temporary = [f \in File |-> NoTemporary]
      /\ j.published = [f \in File |-> Unrecorded]
  BY DEF CreateJournal
<1>2. \A f \in File : target[f] \in OnDisk /\ target[f] \in FileState
  BY PairAt DEF ShapeInv, OnDisk
<1>3. binding.record \in {"absent", "recorded"} /\ binding.marker \in {"none", "ours"}
  BY DEF PlanBlocked, UnsupportedRecord, ShapeInv, HistoryOK
<1>4. j \in FullJournal
  <2>1. target \in [File -> FileState]
    BY <1>2 DEF ShapeInv, DiskOK
  <2>2. [f \in File |-> NoTemporary] \in [File -> [side : Side, state : FileState] \cup {NoTemporary}]
    OBVIOUS
  <2>3. [f \in File |-> Unrecorded] \in [File -> FileState \cup {Unrecorded}]
    OBVIOUS
  <2>4. Changed(target) \subseteq File
    BY DEF Changed
  <2> QED
    BY <1>3, <2>1, <2>2, <2>3, <2>4 DEF CreateJournal, FullJournal
<1>5. ASSUME NEW f \in File PROVE EntryOK(j, f)
  <2>1. /\ j.before[f] = target[f] /\ j.temporary[f] = NoTemporary
        /\ j.published[f] = Unrecorded
    BY <1>1
  <2>2. f \in j.files => target[f].data # After(f).data
    BY <1>1 DEF Changed
  <2>3. Kind[f] = "asset" => target[f].data # "foreign"
    BY DEF PlanBlocked, CustomizedAsset
  <2>4. target[f].data # "unrecorded"
    BY <1>2 DEF OnDisk, Absent
  <2>5. ChangeOK(Entry(j, f))
    BY <2>1, <2>4, EntryFacts, AfterFacts, SideFacts DEF ChangeOK
  <2> QED
    BY <1>2, <2>1, <2>2, <2>3, <2>5 DEF EntryOK, OwnSide
<1>6. JournalOK(j)
  BY <1>1, <1>3, <1>4, <1>5 DEF JournalOK
<1> QED
  BY <1>1, <1>6

\* What a start does: nothing, a new journal or a resumption.
LEMMA StartCases ==
  ASSUME NEW stopped \in BOOLEAN, Start(stopped)
  PROVE  /\ command = Idle
         /\ \/ \E reason : Refuse(reason)
            \/ /\ PendingExists /\ JournalReadable
               /\ memory' = pending.journal /\ EnterFrom(1)
               /\ UNCHANGED <<disk, pending, backup, binding, others, phase,
                              last, faults>>
            \/ /\ ~PendingExists /\ RawSchemaVersion = "4" /\ ~PlanBlocked
               /\ memory' = CreateJournal /\ Goto("backup", 0)
               /\ theirs' = [f \in File |-> 0]
               /\ UNCHANGED <<disk, pending, backup, binding, blocker,
                              transaction, drift, late, edits, phase, last, faults>>
BY DEF Start

LEMMA PendingFacts ==
  ASSUME ShapeInv
  PROVE  PendingExists <=> pending.links # 0
<1>1. pending.links \in 0..2
  BY DEF ShapeInv, StoreOK
<1> QED
  BY <1>1 DEF PendingExists

LEMMA RefuseShape ==
  ASSUME ShapeInv, NEW reason, Refuse(reason)
  PROVE  ShapeInv'
<1>1. DiskOK(File)' /\ HistoryOK'
  BY DiskKept, HistoryKept DEF Refuse, ShapeInv, disk
<1>2. StoreOK'
  <2>1. pending.links # 0 => JournalOK(pending.journal)'
    BY DEF ShapeInv, StoreOK, Refuse
  <2>2. command.pc # "idle" => JournalOK(memory)'
    BY DEF ShapeInv, StoreOK, Refuse
  <2> QED
    BY <2>1, <2>2 DEF ShapeInv, StoreOK, Refuse
<1>3. CommandOK' /\ TemporariesOfJournal' /\ HandledOK'
  BY DEF ShapeInv, CommandOK, TemporariesOfJournal, HandledOK, Prepared, Refuse, disk,
         After, Exists
<1> QED
  BY <1>1, <1>2, <1>3 DEF ShapeInv

LEMMA StartShape ==
  ASSUME ShapeInv, NEW stopped \in BOOLEAN, Start(stopped)
  PROVE  ShapeInv'
<1>0. command.pc = "idle"
  BY StartCases, IdleFields
<1>1. ASSUME NEW reason, Refuse(reason) PROVE ShapeInv'
  BY <1>1, RefuseShape
<1>2. CASE /\ PendingExists /\ memory' = pending.journal /\ EnterFrom(1)
           /\ UNCHANGED <<disk, pending, backup, binding, others, phase,
                          last, faults>>
  <2>1. /\ pending.links # 0 /\ JournalOK(pending.journal)
        /\ pending \in [links : 0..2, journal : Journal]
    BY <1>2, PendingFacts DEF ShapeInv, StoreOK
  <2>2. HistoryOK'
    BY <1>2, HistoryKept
  <2> QED
    BY <1>2, <2>1, <2>2, LoopBegins
<1>3. CASE /\ ~PendingExists /\ ~PlanBlocked
           /\ memory' = CreateJournal /\ Goto("backup", 0)
           /\ theirs' = [f \in File |-> 0]
           /\ UNCHANGED <<disk, pending, backup, binding, blocker,
                          transaction, drift, late, edits, phase, last, faults>>
  <2>1. command'.pc = "backup" /\ command' \in [pc : Pc, f : 0..N]
    BY <1>3, GotoFacts, PcNames, FileFacts
  <2>2. pending.links = 0
    BY <1>3, PendingFacts
  <2>3. StoreOK'
    <3>1. JournalOK(memory)'
      BY <1>3, CreateJournalOK
    <3> QED
      BY <1>3, <2>1, <2>2, <3>1 DEF ShapeInv, StoreOK, LoopPc, EndPc
  <2>4. CommandOK'
    BY <2>1 DEF CommandOK, LoopPc
  <2>5. TemporariesOfJournal' /\ HandledOK'
    BY <1>3, <2>1 DEF ShapeInv, TemporariesOfJournal, HandledOK, disk
  <2>6. DiskOK(File)' /\ HistoryOK'
    BY <1>3, DiskKept DEF ShapeInv, disk, HistoryOK, faults
  <2> QED
    BY <2>3, <2>4, <2>5, <2>6 DEF ShapeInv
<1> QED
  BY <1>1, <1>2, <1>3, StartCases
-----------------------------------------------------------------------------
\* What an edit does to the file and to its temporary.
LEMMA EditFileEffect ==
  ASSUME ShapeInv, NEW f \in File, EditFile(f)
  PROVE  /\ DiskOK(File)' /\ OnlyAt(File, f)
         /\ temporary'[f].ino = temporary[f].ino
         /\ Exists(temporary[f]) => Exists(temporary'[f])
         /\ temporary[f] = Absent \/ temporary[f].nlink = 1
              => temporary'[f] = temporary[f]
         /\ \/ target'[f].ino = clock[f] + 1 /\ Leaves(f, clock[f] + 1)
            \/ /\ Exists(target[f]) /\ target'[f].ino = target[f].ino
               /\ target'[f].data = "foreign" /\ Leaves(f, target[f].ino)
               /\ target'[f].ctime = clock[f] + 1
            \/ target'[f] = Absent /\ Leaves(f, 0)
         /\ target'[f].ctime \in {0, clock[f] + 1}
<1>1. /\ target[f] \in OnDisk /\ temporary[f] \in OnDisk /\ PairOK(f) /\ clock[f] \in Nat
  BY PairAt DEF ShapeInv
<1>2. Linked(f) => /\ temporary[f] # Absent /\ temporary[f].nlink = 2
                   /\ Exists(temporary[f])
  BY <1>1 DEF PairOK, Linked, Absent, Exists
<1>3. Linked(f) => /\ Relinked(f, temporary[f], 1).data = temporary[f].data
                   /\ Relinked(f, temporary[f], 1).ino = temporary[f].ino
  BY <1>1, <1>2, RelinkedOnDisk DEF ShapeInv
<1>4. ASSUME NEW data \in {"foreign", target[f].data} \ {"absent"},
             PutFile(f, data), Leaves(f, clock[f] + 1)
      PROVE  /\ DiskOK(File)' /\ OnlyAt(File, f)
             /\ temporary'[f].ino = temporary[f].ino
             /\ temporary'[f].data = temporary[f].data
             /\ ~Linked(f) => temporary'[f] = temporary[f]
             /\ target'[f].ino = clock[f] + 1 /\ target'[f].ctime = clock[f] + 1
  <2>1. data \in {"old", "new", "foreign"}
    BY <1>1, <1>4 DEF OnDisk, Absent
  <2>2. /\ DiskOK(File)' /\ OnlyAt(File, f) /\ target'[f] = Fresh(f, data)
        /\ temporary'[f].ino = temporary[f].ino
        /\ temporary'[f].data = temporary[f].data
        /\ ~Linked(f) => temporary'[f] = temporary[f]
    BY <1>4, <2>1, PutFileEffect DEF ShapeInv
  <2> QED
    BY <2>2 DEF Fresh
<1>5. ASSUME Exists(target[f]), WriteInto(f)
      PROVE  /\ DiskOK(File)' /\ OnlyAt(File, f)
             /\ temporary'[f].ino = temporary[f].ino
             /\ Exists(temporary[f]) => Exists(temporary'[f])
             /\ ~Linked(f) => temporary'[f] = temporary[f]
             /\ target'[f].ino = target[f].ino /\ target'[f].data = "foreign"
             /\ target'[f].ctime = clock[f] + 1
  <2>1. /\ DiskOK(File)' /\ OnlyAt(File, f)
        /\ target'[f].ino = target[f].ino /\ target'[f].data = "foreign"
        /\ IF Linked(f) THEN temporary'[f] = target'[f]
           ELSE temporary'[f] = temporary[f]
    BY <1>5, WriteIntoEffect DEF ShapeInv
  <2>2. target'[f].ctime = clock[f] + 1
    BY <1>1, <1>5 DEF WriteInto, ShapeInv, DiskOK, OnDisk, FileState
  <2>3. Linked(f) => temporary'[f].ino = temporary[f].ino /\ Exists(temporary'[f])
    BY <2>1 DEF Linked, Exists
  <2> QED
    BY <2>1, <2>2, <2>3
<1>6. ASSUME UnlinkTarget(f)
      PROVE  /\ DiskOK(File)' /\ OnlyAt(File, f)
             /\ temporary'[f].ino = temporary[f].ino
             /\ temporary'[f].data = temporary[f].data
             /\ ~Linked(f) => temporary'[f] = temporary[f]
             /\ target'[f] = Absent /\ target'[f].ctime = 0
  BY <1>6, UnlinkTargetEffect DEF ShapeInv, Absent
<1>7. CASE \E data \in {"foreign", target[f].data} \ {"absent"} :
             PutFile(f, data) /\ Leaves(f, clock[f] + 1)
  <2>1. /\ DiskOK(File)' /\ OnlyAt(File, f)
        /\ temporary'[f].ino = temporary[f].ino
        /\ temporary'[f].data = temporary[f].data
        /\ ~Linked(f) => temporary'[f] = temporary[f]
        /\ target'[f].ino = clock[f] + 1 /\ Leaves(f, clock[f] + 1)
        /\ target'[f].ctime = clock[f] + 1
    BY <1>4, <1>7
  <2> QED
    BY <1>2, <2>1 DEF Exists
<1>8. CASE Exists(target[f]) /\ WriteInto(f) /\ Leaves(f, target[f].ino)
  BY <1>2, <1>5, <1>8
<1>9. CASE UnlinkTarget(f) /\ Leaves(f, 0)
  BY <1>2, <1>6, <1>9 DEF Exists
<1> QED
  BY <1>7, <1>8, <1>9 DEF EditFile

LEMMA EditFileShape ==
  ASSUME ShapeInv, NEW f \in File, EditFile(f)
  PROVE  ShapeInv'
<1>1. /\ DiskOK(File)' /\ OnlyAt(File, f)
      /\ Exists(temporary[f]) => Exists(temporary'[f])
      /\ temporary[f] = Absent \/ temporary[f].nlink = 1
           => temporary'[f] = temporary[f]
  BY EditFileEffect
<1>2. /\ UNCHANGED <<pending, backup, command, memory, phase, last, faults,
                     blocker, transaction, binding, drift, late>>
      /\ edits' = edits + 1
  BY DEF EditFile, Edit
<1>3. theirs' \in [File -> Nat]
  <2>1. target[f].ino \in Nat /\ clock[f] + 1 \in Nat
    BY PairAt DEF ShapeInv, OnDisk, FileState
  <2>2. PICK ino \in Nat : Leaves(f, ino)
    BY <2>1 DEF EditFile
  <2> QED
    BY <2>2 DEF Leaves, ShapeInv, HistoryOK
<1>4. HistoryOK'
  <2>1. edits' \in Nat
    BY <1>2 DEF ShapeInv, HistoryOK
  <2> QED
    BY <1>2, <1>3, <2>1 DEF ShapeInv, HistoryOK, faults
<1>5. StoreOK'
  <2>1. pending.links # 0 => JournalOK(pending.journal)'
    BY <1>2 DEF ShapeInv, StoreOK
  <2>2. command.pc # "idle" => JournalOK(memory)'
    BY <1>2 DEF ShapeInv, StoreOK
  <2> QED
    BY <1>2, <2>1, <2>2 DEF ShapeInv, StoreOK
<1>6. CommandOK'
  BY <1>2 DEF ShapeInv, CommandOK
<1>7. \A g \in File : /\ Exists(temporary[g]) => Exists(temporary'[g])
                      /\ temporary[g] = Absent \/ temporary[g].nlink = 1
                           => temporary'[g] = temporary[g]
  BY <1>1 DEF OnlyAt
<1>8. TemporariesOfJournal'
  BY <1>2, <1>7 DEF ShapeInv, TemporariesOfJournal
<1>9. HandledOK'
  <2>1. command.pc \in LoopPc => command.f \in File
    BY LoopFacts
  <2>2. command.pc = "cleanup" => 1..(command.f - 1) \subseteq File
    <3>1. command.pc = "cleanup" => command.f \in File
      BY DEF ShapeInv, CommandOK
    <3> QED
      BY <3>1, KindFacts
  <2>3. command.pc = "cleanup" => \A g \in 1..(command.f - 1) : temporary'[g] = Absent
    BY <1>7, <2>2 DEF ShapeInv, HandledOK
  <2>4. command.pc \in {"remove pending", "unlink pending"}
          => \A g \in File : temporary'[g] = Absent
    BY <1>7 DEF ShapeInv, HandledOK
  <2>5. /\ command'.pc = command.pc /\ command'.f = command.f
        /\ After(command.f)' = After(command.f)
        /\ Exists(After(command.f)') <=> Exists(After(command.f))
    BY <1>2 DEF After
  <2>6. CASE command.pc \in LoopPc
    <3>0. PICK g \in File : g = command.f
      BY <2>1, <2>6
    <3>1. /\ Exists(temporary[g]) => Exists(temporary'[g])
          /\ temporary[g] = Absent \/ temporary[g].nlink = 1
               => temporary'[g] = temporary[g]
      BY <1>7
    <3>2. command.pc \notin {"cleanup", "remove pending", "unlink pending"}
      BY <2>6 DEF LoopPc
    <3>3. After(g)' = After(g) /\ command'.f = g
      BY <1>2, <3>0 DEF After
    <3> QED
      BY <3>0, <3>1, <3>2, <3>3, <2>5 DEF ShapeInv, HandledOK, Prepared, Exists
  <2>7. CASE command.pc \notin LoopPc
    BY <2>3, <2>4, <2>5, <2>7 DEF HandledOK, LoopPc
  <2> QED
    BY <2>6, <2>7
<1> QED
  BY <1>1, <1>4, <1>5, <1>6, <1>8, <1>9 DEF ShapeInv

\* A step of the others that touches no file.
LEMMA OthersKeepShape ==
  ASSUME ShapeInv, UNCHANGED <<disk, pending, backup, command, memory, phase>>, HistoryOK'
  PROVE  ShapeInv'
<1>1. DiskOK(File)'
  BY DiskKept DEF ShapeInv, disk
<1>2. StoreOK'
  <2>1. pending.links # 0 => JournalOK(pending.journal)'
    BY DEF ShapeInv, StoreOK
  <2>2. command.pc # "idle" => JournalOK(memory)'
    BY DEF ShapeInv, StoreOK
  <2> QED
    BY <2>1, <2>2 DEF ShapeInv, StoreOK
<1>3. CommandOK' /\ TemporariesOfJournal' /\ HandledOK'
  BY DEF ShapeInv, CommandOK, TemporariesOfJournal, HandledOK, Prepared, disk,
         After, Exists
<1> QED
  BY <1>1, <1>2, <1>3 DEF ShapeInv

LEMMA OthersShape ==
  ASSUME ShapeInv, Others
  PROVE  ShapeInv'
<1>1. CASE Settle
  <2>1. HistoryOK'
    BY <1>1 DEF Settle, SettleTransaction, SettleBlocker, ShapeInv, HistoryOK, faults
  <2> QED
    BY <1>1, <2>1, OthersKeepShape DEF Settle
<1>2. ASSUME NEW f \in File, EditFile(f) PROVE ShapeInv'
  BY <1>2, EditFileShape
<1>3. CASE WriteRecord \/ ChangeContext
  <2>0. edits' \in Nat
    <3>1. Edit
      BY <1>3, Zenon DEF WriteRecord, ChangeContext
    <3> QED
      BY <3>1 DEF Edit, ShapeInv, HistoryOK
  <2>2. late' \in BOOLEAN
    <3>1. CASE WriteRecord
      <4>1. late' = (command.pc = "remove record")
        BY <3>1 DEF WriteRecord, At
      <4> QED
        BY <4>1
    <3>2. CASE ChangeContext
      BY <3>2 DEF ChangeContext, ShapeInv, HistoryOK
    <3> QED
      BY <1>3, <3>1, <3>2
  <2>1. HistoryOK'
    BY <1>3, <2>0, <2>2 DEF WriteRecord, ChangeContext, Edit, ShapeInv, HistoryOK, faults
  <2> QED
    BY <1>3, <2>1, OthersKeepShape DEF WriteRecord, ChangeContext, Edit
<1> QED
  BY <1>1, <1>2, <1>3 DEF Others

LEMMA InitShape == Init => ShapeInv
<1> SUFFICES ASSUME Init PROVE ShapeInv
  OBVIOUS
<1> DEFINE old == [ino |-> 1, data |-> "old", nlink |-> 1, ctime |-> 1]
<1>1. PICK absent \in SUBSET File : target = [f \in File |-> IF f \in absent THEN Absent ELSE old]
  BY DEF Init
<1>2. old \in OnDisk /\ old.ino = 1 /\ old.nlink = 1
  BY DEF OnDisk, FileState, Data
<1>3. DiskOK(File)
  <2> HIDE DEF old
  <2>1. /\ target \in [File -> OnDisk] /\ temporary = [f \in File |-> Absent]
        /\ clock = [f \in File |-> 1]
    BY <1>1, <1>2, AbsentOnDisk DEF Init
  <2>2. temporary \in [File -> OnDisk] /\ clock \in [File -> Nat]
    BY <2>1, AbsentOnDisk
  <2>3. ASSUME NEW f \in File PROVE PairOK(f)
    <3>1. /\ temporary[f] = Absent /\ clock[f] = 1 /\ target[f] \in {Absent, old}
      BY <1>1, <2>1
    <3>2. /\ Absent.ino = 0 /\ Absent.nlink = 0 /\ ~Exists(Absent)
      BY DEF Absent, Exists
    <3>3. /\ target[f].ino <= 1 /\ target[f].nlink # 2
      BY <1>2, <3>1, <3>2
    <3> QED
      BY <3>1, <3>2, <3>3 DEF PairOK, Linked
  <2> QED
    BY <2>1, <2>2, <2>3 DEF DiskOK
<1>4. command.pc = "idle" /\ memory = NoJournal /\ pending = NoPending
  BY IdleFields DEF Init
<1>5. StoreOK
  BY <1>4, NoPendingFields, JournalFacts DEF Init, StoreOK, EarlyPc, LoopPc, EndPc
<1>6. CommandOK
  BY <1>4, IdleFields DEF Init, CommandOK, LoopPc
<1>7. TemporariesOfJournal /\ HandledOK
  BY <1>4 DEF Init, TemporariesOfJournal, HandledOK
<1>8. HistoryOK
  BY DEF Init, HistoryOK
<1> QED
  BY <1>3, <1>5, <1>6, <1>7, <1>8 DEF ShapeInv

LEMMA StepShape ==
  ASSUME ShapeInv, Step
  PROVE  ShapeInv'
BY WriteBackupShape, LinkPendingShape, UnlinkPendingTemporaryShape, ReconcileShape,
   CompareFileShape, OpenTemporaryShape, WriteTemporaryShape,
   StageDeletionTombstoneShape, RecordTemporaryShape, SecondCompareShape,
   PublishFileShape, UnlinkPublishedTemporaryShape, RecordEndpointShape,
   ValidateContextShape, CheckFinalFilesShape, RetireBindingShape,
   CompareRecordShape, RemoveRecordShape, UnsetMarkerShape, CleanupTemporaryShape,
   LinkPendingTombstoneShape, UnlinkPendingShape
DEF Step

LEMMA NextShape == ShapeInv /\ [Next]_vars => ShapeInv'
<1>1. ASSUME ShapeInv, UNCHANGED vars PROVE ShapeInv'
  BY <1>1, OthersKeepShape, HistoryKept DEF vars
<1> QED
  BY <1>1, StartShape, StepShape, CrashShape, OthersShape DEF Next

\* Of every upgrade, whatever crashes, resumptions and edits there are: the
\* journals, the disk and the command fit together as ShapeInv says.
LEMMA ShapeInvariant == Spec => []ShapeInv
BY InitShape, NextShape, PTL DEF Spec

\* Every variable of the upgrade keeps its type, for any list of files, crash
\* points and bounds (retirement-runner.ts).
THEOREM TypeCorrect == Spec => []TypeOK
<1>1. ShapeInv => TypeOK
  <2> SUFFICES ASSUME ShapeInv PROVE TypeOK
    OBVIOUS
  <2>1. /\ target \in [File -> FileState] /\ temporary \in [File -> FileState]
        /\ clock \in [File -> Nat] /\ theirs \in [File -> Nat]
    BY DEF ShapeInv, DiskOK, OnDisk, HistoryOK
  <2>2. pending \in [links : 0..2, journal : Journal]
    BY NoPendingFields, JournalFacts DEF ShapeInv, StoreOK
  <2>3. {backup, memory} \subseteq Journal
    BY JournalFacts DEF ShapeInv, StoreOK
  <2>4. /\ binding \in [record : {"absent", "recorded", "linked", "changed"},
                        marker : {"none", "ours"}]
        /\ {blocker, transaction, drift, late} \subseteq BOOLEAN
        /\ {crashes, edits} \subseteq Nat
    BY DEF ShapeInv, HistoryOK
  <2>5. command \in [pc : Pc, f : 0..N] /\ phase \in {"planned", "open", "completed"}
    BY DEF ShapeInv, CommandOK, StoreOK
  <2> QED
    BY <2>1, <2>2, <2>3, <2>4, <2>5 DEF TypeOK
<1> QED
  BY <1>1, ShapeInvariant, PTL
-----------------------------------------------------------------------------
(***************************************************************************)
(* Other people's files.                                                   *)
(***************************************************************************)
LEMMA ActiveFacts ==
  ASSUME ShapeInv
  PROVE  /\ Active = NoJournal \/ JournalOK(Active)
         /\ command.pc \in LoopPc \cup EndPc \cup {"unlink pending temporary"}
              => Active = memory /\ Active = pending.journal /\ Active # NoJournal
         /\ command.pc \in EarlyPc => Active = memory /\ pending.journal = NoJournal
         /\ command.pc = "idle" => Active = pending.journal
<1>1. command.pc \in LoopPc \cup EndPc \cup {"unlink pending temporary"}
        => JournalOK(memory) /\ memory = pending.journal /\ memory # NoJournal
  BY LoopFacts, LateFacts
<1>2. command.pc \in EarlyPc
        => JournalOK(memory) /\ memory # NoJournal /\ pending.journal = NoJournal
  BY EarlyFacts
<1>3. command.pc = "idle" => memory = NoJournal
  BY DEF ShapeInv, StoreOK
<1>4. pending.journal = NoJournal \/ JournalOK(pending.journal)
  BY DEF ShapeInv, StoreOK
<1>5. command.pc \in {"idle", "unlink pending temporary"} \cup EarlyPc \cup LoopPc \cup EndPc
  BY PcNames DEF ShapeInv, CommandOK
<1> QED
  BY <1>1, <1>2, <1>3, <1>4, <1>5 DEF Active

LEMMA KnownNat ==
  ASSUME ShapeInv, NEW f \in File
  PROVE  Known(f) \subseteq Nat
<1>1. temporary[f].ino \in Nat
  BY PairAt DEF ShapeInv, OnDisk, FileState
<1>2. ASSUME Active # NoJournal PROVE Inodes(Entry(Active, f)) \subseteq Nat
  <2>1. Active \in FullJournal
    BY <1>2, ActiveFacts DEF JournalOK
  <2>2. Active.before[f].ino \in Nat /\ After(f).ino \in Nat
    BY <2>1, AfterFacts DEF FullJournal, FileState
  <2>3. Active.published[f].ino \in Nat /\ Unrecorded.ino \in Nat
    BY <2>1 DEF FullJournal, FileState, Unrecorded
  <2>4. Active.temporary[f].state.ino \in Nat
    BY <2>1 DEF FullJournal, FileState, NoTemporary, Absent
  <2>5. \A s \in Side : /\ Entry(Active, f).planned[s].ino \in Nat
                        /\ Entry(Active, f).published[s].ino \in Nat
    BY <2>2, <2>3, EntryFacts, SideFacts
  <2> QED
    BY <2>4, <2>5, EntryFacts DEF Inodes
<1> QED
  BY <1>1, <1>2 DEF Known

\* A file that is taken to be at a side is nobody else's, even where the plan
\* found somebody's own text, as in AGENTS.md: a file that was written into
\* since has another ctime than the one that was read.
LEMMA AtSideNotTheirs ==
  ASSUME ShapeInv, command.pc \in LoopPc, NEW f \in File, f = command.f, TheirsAt(f),
         \/ Disposition(f) = "before" \/ Disposition(f) = "after"
         \/ DesiredEndpointReached(Change(f), target[f], temporary[f], "after")
  PROVE  /\ theirs[f] = 0
         /\ target[f].ino \in Known(f)
<1>1. /\ target[f] \in OnDisk /\ temporary[f] \in OnDisk /\ ChangeOK(Change(f))
      /\ EntryOK(memory, f)
  BY ReadFacts
<1>2. Active = memory /\ Active # NoJournal /\ Change(f) = Entry(Active, f)
  BY ActiveFacts, EntryFacts
<1>3. \/ Disposition(f) = "before" /\ target[f].data = memory.before[f].data
      \/ target[f].data = After(f).data
  BY AtSide
<1>4. Exists(target[f]) => target[f].ino \in Inodes(Change(f))
  BY <1>1, DispositionSound, EndpointSound, SideFacts DEF Disposition
<1>5. target[f].ino \in Known(f)
  <2>1. ~Exists(target[f]) => target[f].ino = 0
    BY <1>1, AbsentOnDisk DEF Absent
  <2> QED
    BY <1>2, <1>4, <2>1 DEF Known
<1>6. ASSUME theirs[f] # 0 PROVE FALSE
  <2>1. /\ Exists(target[f]) /\ target[f].data = "foreign"
        /\ target[f].ctime > memory.before[f].ctime
    BY <1>2, <1>5, <1>6 DEF TheirsAt
  <2>2. Disposition(f) = "before" /\ memory.before[f].data = "foreign"
    BY <1>3, <2>1, AfterFacts
  <2>3. Exists(After(f))
    BY <1>1, <2>2, AfterFacts DEF EntryOK
  <2>4. ~MatchesRecordedSide(Change(f), target[f], "before")
    <3>1. target[f] # Unrecorded /\ target[f] # Absent
      BY <1>1, <2>1 DEF OnDisk, Unrecorded, Absent, Exists
    <3>2. target[f] # memory.before[f]
      <4>1. target[f].ctime \in Nat
        BY <1>1 DEF OnDisk, FileState
      <4> QED
        BY <2>1, <4>1
    <3> QED
      BY <3>1, <3>2, EntryFacts DEF MatchesRecordedSide
  <2>5. OwnedTemporaryTransition(Change(f), target[f], temporary[f]) = "before"
    BY <2>2, <2>4 DEF Disposition, MutationChangeDisposition
  <2>6. memory.temporary[f] # NoTemporary
    <3>1. OwnedTemporaryTransition(Entry(memory, f), target[f], temporary[f]) # "none"
      BY <2>5, EntryFacts, SideFacts
    <3> QED
      BY <3>1, EntryFacts DEF OwnedTemporaryTransition, NoTemporary, Absent
  <2>7. memory.temporary[f].side = "after" /\ memory.temporary[f].state.nlink = 1
    BY <1>1, <2>3, <2>6 DEF EntryOK, OwnSide
  <2> QED
    BY <2>5, <2>6, <2>7, EntryFacts
    DEF OwnedTemporaryTransition, OwnedReplacementTransition
<1> QED
  BY <1>5, <1>6

\* What a step may do to f without touching what somebody left there.
Harmless(f) ==
  /\ theirs'[f] = theirs[f]
  /\ \/ Active' = NoJournal
     \/ Active # NoJournal /\ Active'.before[f] = Active.before[f]
  /\ \/ clock'[f] = clock[f] /\ target'[f] = target[f] /\ Known(f)' \subseteq Known(f)
     \/ /\ clock'[f] = clock[f] + 1
        /\ target'[f] = target[f] \/ target'[f].ctime \in {0, clock[f] + 1}
        /\ \/ Known(f)' \subseteq Known(f) \cup {clock[f] + 1}
           \/ Known(f)' \subseteq Known(f) \cup {target[f].ino} /\ theirs[f] = 0
  /\ theirs[f] # 0 => /\ target'[f].ino = target[f].ino
                      /\ target'[f].data = target[f].data
                      /\ target'[f] = target[f] \/ target'[f].ctime = clock[f] + 1

LEMMA HarmlessTheirs ==
  ASSUME ShapeInv, NEW f \in File, TheirsAt(f), Harmless(f)
  PROVE  TheirsAt(f)'
<1>1. /\ Known(f) \subseteq Nat /\ clock[f] \in Nat
      /\ target[f].ino \in Nat /\ target[f].ino <= clock[f]
      /\ target[f].ctime \in Nat
  BY KnownNat, PairAt DEF ShapeInv, OnDisk, FileState, PairOK
<1>2. Active # NoJournal => Active.before[f].ctime \in Nat
  BY ActiveFacts DEF JournalOK, FullJournal, FileState
<1>3. clock'[f] >= clock[f] /\ clock'[f] \in Nat
  BY <1>1 DEF Harmless
<1>4. \A i \in Known(f)' : i <= clock'[f]
  BY <1>1 DEF TheirsAt, Harmless
<1>5. target'[f].ctime <= clock'[f]
  BY <1>1 DEF TheirsAt, Harmless
<1>6. Active' # NoJournal => Active'.before[f].ctime <= clock'[f]
  <2>1. Active' # NoJournal => /\ Active # NoJournal
                               /\ Active'.before[f].ctime = Active.before[f].ctime
    BY DEF Harmless
  <2>2. Active # NoJournal => Active.before[f].ctime <= clock[f]
    BY DEF TheirsAt
  <2> QED
    BY <1>1, <1>2, <1>3, <2>1, <2>2
<1>7. ASSUME theirs'[f] # 0
      PROVE  /\ Exists(target'[f]) /\ target'[f].ino = theirs'[f]
             /\ \/ target'[f].ino \notin Known(f)'
                \/ /\ target'[f].data = "foreign"
                   /\ Active' # NoJournal => target'[f].ctime > Active'.before[f].ctime
  <2>1. /\ theirs[f] # 0 /\ theirs'[f] = theirs[f]
        /\ target'[f].ino = target[f].ino /\ target'[f].data = target[f].data
        /\ Known(f)' \subseteq Known(f) \cup {clock[f] + 1}
        /\ target'[f] = target[f] \/ target'[f].ctime = clock[f] + 1
    BY <1>7 DEF Harmless
  <2>2. target[f].ino # clock[f] + 1
    BY <1>1
  <2>3. Exists(target'[f]) /\ target'[f].ino = theirs'[f]
    BY <2>1 DEF TheirsAt, Exists
  <2>4. CASE target[f].ino \notin Known(f)
    BY <2>1, <2>2, <2>3, <2>4
  <2>5. CASE /\ target[f].data = "foreign"
             /\ Active # NoJournal => target[f].ctime > Active.before[f].ctime
    <3>1. ASSUME Active' # NoJournal
          PROVE  target'[f].ctime > Active'.before[f].ctime
      <4>1. /\ Active # NoJournal /\ Active'.before[f].ctime = Active.before[f].ctime
        BY <3>1 DEF Harmless
      <4>2. target[f].ctime > Active.before[f].ctime /\ Active.before[f].ctime <= clock[f]
        BY <2>5, <4>1 DEF TheirsAt
      <4>3. target'[f].ctime = target[f].ctime \/ target'[f].ctime = clock[f] + 1
        BY <2>1
      <4>4. clock[f] + 1 > Active.before[f].ctime
        BY <1>1, <1>2, <4>1, <4>2
      <4> QED
        BY <4>1, <4>2, <4>3, <4>4
    <3> QED
      BY <2>1, <2>3, <2>5, <3>1
  <2> QED
    BY <2>1, <2>3, <2>4, <2>5 DEF TheirsAt
<1> QED
  BY <1>4, <1>5, <1>6, <1>7 DEF TheirsAt, Exists

\* A customized asset, outside of the window, is not touched.
AssetStays(f) ==
  Kind[f] = "asset" /\ target[f].data = "foreign" /\ ~InWindow(f)
    => target'[f] = target[f]

SafeStep ==
  \A f \in File : Harmless(f) /\ AssetStays(f) /\ (InWindow(f)' => theirs'[f] = 0)

\* The journal that is worked with stays as it is, or there is none any more.
EntriesKept ==
  \/ Active' = NoJournal
  \/ Active' = Active /\ Active # NoJournal

LEMMA EntriesKeptKnown ==
  ASSUME EntriesKept, NEW f
  PROVE  /\ Known(f)' \subseteq Known(f) \cup {temporary'[f].ino, 0}
         /\ \/ Active' = NoJournal
            \/ Active # NoJournal /\ Active'.before[f] = Active.before[f]
<1>1. CASE Active' = NoJournal
  BY <1>1 DEF Known
<1>2. CASE Active' = Active /\ Active # NoJournal
  <2>1. Inodes(Entry(Active, f))' = Inodes(Entry(Active, f))
    <3>1. Entry(Active, f)' = Entry(Active, f)
      BY <1>2 DEF Entry, After
    <3>2. Inodes(Entry(Active, f))' = Inodes(Entry(Active, f)')
      OBVIOUS
    <3> QED
      BY <3>1, <3>2
  <2> QED
    BY <1>2, <2>1 DEF Known
<1> QED
  BY <1>1, <1>2 DEF EntriesKept

LEMMA NoWindow ==
  ASSUME command'.pc # "commit"
  PROVE  \A f : ~InWindow(f)'
BY DEF InWindow, At

\* A step that calls nothing and saves nothing.
LEMMA QuietHarmless ==
  ASSUME EntriesKept, UNCHANGED <<disk, theirs>>
  PROVE  \A f \in File : Harmless(f) /\ AssetStays(f)
<1> SUFFICES ASSUME NEW f \in File PROVE Harmless(f) /\ AssetStays(f)
  OBVIOUS
<1>1. 0 \in Known(f) /\ temporary[f].ino \in Known(f)
  BY DEF Known
<1>2. Known(f)' \subseteq Known(f)
  BY <1>1, EntriesKeptKnown DEF disk
<1> QED
  BY <1>2, EntriesKeptKnown DEF Harmless, AssetStays, disk

LEMMA QuietSafe ==
  ASSUME EntriesKept, UNCHANGED <<disk, theirs>>, command'.pc # "commit"
  PROVE  SafeStep
BY QuietHarmless, NoWindow DEF SafeStep

\* A command that ends: what it worked with is in the pending file, or nowhere.
LEMMA EndsEntries ==
  ASSUME ShapeInv, memory' = NoJournal, UNCHANGED pending
  PROVE  EntriesKept
<1>1. Active' = pending.journal
  BY DEF Active
<1>2. command.pc \in Pc
  BY DEF ShapeInv, CommandOK
<1> QED
  BY <1>1, <1>2, ActiveFacts, PcNames DEF EntriesKept

LEMMA FailSafe ==
  ASSUME ShapeInv, NEW reason, Fail(reason), UNCHANGED others
  PROVE  SafeStep
BY EndsEntries, QuietSafe, IdleFields DEF Fail, Ended, others

LEMMA MemoryEntries ==
  ASSUME ShapeInv, command.pc \in LoopPc \cup EndPc \cup EarlyPc \cup {"unlink pending temporary"},
         memory' = memory
  PROVE  EntriesKept
<1>1. memory # NoJournal
  BY LoopFacts, LateFacts, EarlyFacts
<1> QED
  BY <1>1 DEF EntriesKept, Active

\* A snapshot that names, of f, an inode that is known.
LEMMA SnapshotSafe ==
  ASSUME ShapeInv, command.pc \in LoopPc, NEW f \in File, NEW j, JournalOK(j),
         Save(j), UNCHANGED <<disk, theirs>>, j.before = memory.before,
         \A g \in File \ {f} : Entry(j, g) = Entry(memory, g),
         NEW i \in Known(f), Inodes(Entry(j, f)) \subseteq Inodes(Entry(memory, f)) \cup {i},
         command'.pc # "commit"
  PROVE  SafeStep
<1>1. Active = memory /\ Active # NoJournal
  BY ActiveFacts
<1>2. Active' = j /\ Active' # NoJournal
  BY JournalFacts DEF Save, Active
<1>3. ASSUME NEW g \in File PROVE Harmless(g) /\ AssetStays(g)
  <2>1. Entry(Active, g)' = Entry(j, g)
    BY <1>2 DEF Entry, After
  <2>2. Inodes(Entry(Active, g))' = Inodes(Entry(Active, g)')
    OBVIOUS
  <2>3. Known(g)' = {0, temporary[g].ino} \cup Inodes(Entry(j, g))
    BY <1>2, <2>1, <2>2 DEF Known, disk
  <2>4. Known(g)' \subseteq Known(g)
    BY <1>1, <2>3 DEF Known
  <2> QED
    BY <1>1, <1>2, <2>4 DEF Harmless, AssetStays, disk
<1> QED
  BY <1>3, NoWindow DEF SafeStep

\* What a saved temporary adds to what the journal names.
TemporaryNamed(j, k, f, prepared) ==
  /\ k.before = j.before
  /\ \A g \in File \ {f} : Entry(k, g) = Entry(j, g)
  /\ Inodes(Entry(k, f)) \subseteq Inodes(Entry(j, f)) \cup {prepared.state.ino}

LEMMA TemporaryIsNamed ==
  ASSUME NEW j, JournalOK(j), NEW f \in File, NEW prepared
  PROVE  TemporaryNamed(j, [j EXCEPT !.temporary[f] = prepared], f, prepared)
<1> DEFINE k == [j EXCEPT !.temporary[f] = prepared]
<1>1. /\ k.before = j.before /\ k.published = j.published
      /\ k.temporary = [j.temporary EXCEPT ![f] = prepared]
      /\ j.temporary \in [File -> [side : Side, state : FileState] \cup {NoTemporary}]
  BY DEF JournalOK, FullJournal
<1> HIDE DEF k
<1>2. k.temporary[f] = prepared /\ \A g \in File \ {f} : k.temporary[g] = j.temporary[g]
  BY <1>1
<1>3. \A g \in File \ {f} : Entry(k, g) = Entry(j, g)
  BY <1>1, <1>2 DEF Entry
<1>4. Inodes(Entry(k, f)) \subseteq Inodes(Entry(j, f)) \cup {prepared.state.ino}
  <2>1. /\ Entry(k, f).planned = Entry(j, f).planned
        /\ Entry(k, f).published = Entry(j, f).published
        /\ Entry(k, f).temporary = prepared
    BY <1>1, <1>2 DEF Entry
  <2> QED
    BY <2>1 DEF Inodes
<1> QED
  BY <1>1, <1>3, <1>4 DEF TemporaryNamed, k

LEMMA PublishedIsNamed ==
  ASSUME NEW j, JournalOK(j), NEW f \in File, NEW state
  PROVE  TemporaryNamed(j, [j EXCEPT !.published[f] = state], f, [state |-> state])
<1> DEFINE k == [j EXCEPT !.published[f] = state]
<1>1. /\ k.before = j.before /\ k.temporary = j.temporary
      /\ k.published = [j.published EXCEPT ![f] = state]
      /\ j.published \in [File -> FileState \cup {Unrecorded}]
  BY DEF JournalOK, FullJournal
<1> HIDE DEF k
<1>2. k.published[f] = state /\ \A g \in File \ {f} : k.published[g] = j.published[g]
  BY <1>1
<1>3. \A g \in File \ {f} : Entry(k, g) = Entry(j, g)
  BY <1>1, <1>2 DEF Entry
<1>4. Inodes(Entry(k, f)) \subseteq Inodes(Entry(j, f)) \cup {state.ino}
  <2>1. /\ Entry(k, f).planned = Entry(j, f).planned
        /\ Entry(k, f).temporary = Entry(j, f).temporary
        /\ Entry(k, f).published["before"] = Entry(j, f).published["before"]
        /\ Entry(k, f).published["after"] = state
    BY <1>1, <1>2, EntryFacts DEF Entry
  <2> QED
    BY <2>1, SideFacts DEF Inodes
<1> QED
  BY <1>1, <1>3, <1>4 DEF TemporaryNamed, k

\* What a call may do to the names of f.
HarmlessCall(f) ==
  /\ \/ temporary'[f].ino \in Known(f) \cup {clock[f] + 1}
     \/ temporary'[f].ino = target[f].ino /\ theirs[f] = 0
  /\ target'[f] = target[f] \/ target'[f].ctime \in {0, clock[f] + 1}
  /\ theirs[f] # 0 => /\ target'[f].ino = target[f].ino
                      /\ target'[f].data = target[f].data
                      /\ target'[f] = target[f] \/ target'[f].ctime = clock[f] + 1
  /\ AssetStays(f)

\* A call at f: of the other files it is harmless.
LEMMA CallSafe ==
  ASSUME EntriesKept, NEW f \in File, OnlyAt(File, f), UNCHANGED theirs,
         command'.pc # "commit", HarmlessCall(f)
  PROVE  SafeStep
<1>1. ASSUME NEW g \in File \ {f} PROVE Harmless(g) /\ AssetStays(g)
  <2>1. /\ target'[g] = target[g] /\ temporary'[g] = temporary[g] /\ clock'[g] = clock[g]
        /\ theirs'[g] = theirs[g]
    BY DEF OnlyAt
  <2>2. 0 \in Known(g) /\ temporary[g].ino \in Known(g)
    BY DEF Known
  <2>3. Known(g)' \subseteq Known(g)
    BY <2>1, <2>2, EntriesKeptKnown
  <2> QED
    BY <2>1, <2>3, EntriesKeptKnown DEF Harmless, AssetStays
<1>2. Harmless(f)
  <2>1. 0 \in Known(f) /\ clock'[f] = clock[f] + 1
    BY DEF Known, OnlyAt
  <2>2. Known(f)' \subseteq Known(f) \cup {temporary'[f].ino}
    BY <2>1, EntriesKeptKnown
  <2> QED
    BY <2>1, <2>2, EntriesKeptKnown DEF Harmless, HarmlessCall
<1> QED
  BY <1>1, <1>2, NoWindow DEF SafeStep, HarmlessCall

LEMMA ReconcileSafe ==
  ASSUME ShapeInv, ReconcileUnrecordedTemporary
  PROVE  SafeStep
<1>1. command.pc = "reconcile" /\ UNCHANGED <<others, faults>>
  BY DEF ReconcileUnrecordedTemporary, At
<1>2. command.pc \in LoopPc
  BY <1>1, LoopNames
<1>3. PICK f \in File : f = command.f
  BY <1>2, CurrentFile
<1> DEFINE side == UnrecordedSide(f)
           j == [memory EXCEPT !.temporary[f] = [side |-> side, state |-> temporary[f]]]
<1>4. CASE /\ side # "none" /\ Exists(temporary[f]) /\ Save(j)
           /\ Goto("compare", f) /\ UNCHANGED <<disk, backup, binding, last, phase>>
  <2>1. /\ side \in Side /\ OwnSide(f, [side |-> side, state |-> temporary[f]])
        /\ temporary[f].data = Entry(memory, f).planned[side].data
    BY <1>4, UnrecordedSideFacts
  <2> HIDE DEF side
  <2>2. JournalOK(j)
    BY <1>2, <1>3, <1>4, <2>1, LoopFacts, ReadFacts, TemporarySaved
  <2>3. TemporaryNamed(memory, j, f, [side |-> side, state |-> temporary[f]])
    BY <1>2, LoopFacts, TemporaryIsNamed
  <2>4. temporary[f].ino \in Known(f)
    BY DEF Known
  <2>5. [side |-> side, state |-> temporary[f]].state.ino = temporary[f].ino
    OBVIOUS
  <2>6. command'.pc # "commit"
    BY <1>4, GotoFacts
  <2> HIDE DEF j
  <2> QED
    BY <1>1, <1>2, <1>4, <2>2, <2>3, <2>4, <2>5, <2>6, SnapshotSafe
    DEF TemporaryNamed, others
<1>5. CASE Fail("upgrade_temporary_conflict")
  BY <1>1, <1>5, FailSafe
<1>6. CASE Goto("compare", f) /\ KeepsJournal /\ UNCHANGED <<disk, last, phase>>
  BY <1>1, <1>2, <1>6, MemoryEntries, QuietSafe, GotoFacts DEF KeepsJournal, others
<1> QED
  <2> HIDE DEF j, side
  <2>1. \/ /\ UnrecordedSide(f) # "none" /\ Exists(temporary[f])
           /\ Save([memory EXCEPT !.temporary[f] =
                     [side |-> UnrecordedSide(f), state |-> temporary[f]]])
           /\ Goto("compare", f) /\ UNCHANGED <<disk, backup, binding, last, phase>>
        \/ Fail("upgrade_temporary_conflict")
        \/ Goto("compare", f) /\ KeepsJournal /\ UNCHANGED <<disk, last, phase>>
    BY <1>3 DEF ReconcileUnrecordedTemporary
  <2> QED
    BY <2>1, <1>4, <1>5, <1>6 DEF j, side

LEMMA CompareFileSafe ==
  ASSUME ShapeInv, CompareFile
  PROVE  SafeStep
<1>1. command.pc = "compare" /\ UNCHANGED <<others, faults>>
  BY DEF CompareFile, At
<1>2. command.pc \in LoopPc
  BY <1>1, LoopNames
<1>3. PICK f \in File : f = command.f
  BY <1>2, CurrentFile
<1>4. CASE Fail("upgrade_conflict")
  BY <1>1, <1>4, FailSafe
<1>5. CASE /\ memory' = memory /\ UNCHANGED disk
           /\ command'.pc # "commit"
  BY <1>1, <1>2, <1>5, MemoryEntries, QuietSafe DEF others
<1>6. CASE memory' = memory /\ EnterFrom(f + 1) /\ UNCHANGED disk
  <2>1. memory'.files \subseteq File /\ f + 1 \in Nat
    BY <1>2, <1>6, LoopFacts, FileFacts
  <2>2. command'.pc # "commit"
    BY <1>6, <2>1, EnterFromFacts
  <2> QED
    BY <1>5, <1>6, <2>2
<1>7. ASSUME NEW pc \in {"confirm", "publish", "stage", "tombstone"}, Goto(pc, f),
             KeepsJournal, UNCHANGED disk
      PROVE  SafeStep
  <2>1. command'.pc # "commit"
    BY <1>7, GotoFacts
  <2> QED
    BY <1>5, <1>7, <2>1 DEF KeepsJournal
<1> QED
  <2>1. \/ \E pc \in {"confirm", "publish", "stage", "tombstone"} :
             Goto(pc, f) /\ KeepsJournal /\ UNCHANGED disk
        \/ memory' = memory /\ EnterFrom(f + 1) /\ UNCHANGED disk
        \/ Fail("upgrade_conflict")
    BY <1>3 DEF CompareFile
  <2> QED
    BY <2>1, <1>4, <1>6, <1>7

LEMMA OpenTemporarySafe ==
  ASSUME ShapeInv, OpenTemporary
  PROVE  SafeStep
<1>1. /\ command.pc = "stage" /\ Continues /\ KeepsJournal
  BY DEF OpenTemporary, At
<1>2. command.pc \in LoopPc
  BY <1>1, LoopNames
<1>3. PICK f \in File : f = command.f
  BY <1>2, CurrentFile
<1>4. CreateTemporary(f, "foreign") /\ Goto("write", f)
  BY <1>3 DEF OpenTemporary
<1>5. temporary[f] = Absent
  BY <1>1, <1>3 DEF ShapeInv, HandledOK
<1>6. /\ OnlyAt(File, f) /\ temporary'[f] = Fresh(f, "foreign") /\ target'[f] = target[f]
  BY <1>4, <1>5, CreateTemporaryEffect DEF ShapeInv
<1>7. temporary'[f].ino = clock[f] + 1
  BY <1>6, FreshOnDisk DEF ShapeInv
<1>8. command'.pc # "commit" /\ HarmlessCall(f)
  BY <1>4, <1>6, <1>7, GotoFacts DEF AssetStays, HarmlessCall
<1>9. EntriesKept /\ UNCHANGED theirs
  BY <1>1, <1>2, MemoryEntries DEF KeepsJournal, Continues, others
<1> QED
  BY <1>6, <1>8, <1>9, CallSafe

LEMMA WriteTemporarySafe ==
  ASSUME ShapeInv, WriteTemporary
  PROVE  SafeStep
<1>1. /\ command.pc = "write" /\ Continues /\ KeepsJournal
  BY DEF WriteTemporary, At
<1>2. command.pc \in LoopPc
  BY <1>1, LoopNames
<1>3. PICK f \in File : f = command.f
  BY <1>2, CurrentFile
<1>4. Goto("record", f)
  BY <1>3 DEF WriteTemporary
<1>5. /\ OnlyAt(File, f) /\ target'[f] = target[f] /\ temporary'[f].ino = temporary[f].ino
  BY <1>3, WriteTemporaryEffect
<1>6. temporary[f].ino \in Known(f)
  BY DEF Known
<1>7. command'.pc # "commit" /\ HarmlessCall(f)
  BY <1>4, <1>5, <1>6, GotoFacts DEF AssetStays, HarmlessCall
<1>8. EntriesKept /\ UNCHANGED theirs
  BY <1>1, <1>2, MemoryEntries DEF KeepsJournal, Continues, others
<1> QED
  BY <1>5, <1>7, <1>8, CallSafe

LEMMA StageDeletionTombstoneSafe ==
  ASSUME ShapeInv, TheirsInv, StageDeletionTombstone
  PROVE  SafeStep
<1>1. command.pc = "tombstone" /\ UNCHANGED <<others, faults>>
  BY DEF StageDeletionTombstone, At
<1>2. command.pc \in LoopPc
  BY <1>1, LoopNames
<1>3. PICK f \in File : f = command.f
  BY <1>2, CurrentFile
<1>4. CASE /\ Disposition(f) = "before" /\ target[f].nlink = 1
           /\ LinkBoth(f, target[f])
           /\ Goto("record", f) /\ KeepsJournal /\ UNCHANGED <<last, phase>>
  <2>1. theirs[f] = 0
    BY <1>2, <1>3, <1>4, AtSideNotTheirs DEF TheirsInv
  <2>2. target[f] \in OnDisk /\ PairOK(f) /\ clock[f] \in Nat
    BY PairAt DEF ShapeInv
  <2>3. Exists(target[f]) /\ target[f].ino <= clock[f]
    BY <1>4, <2>2, AbsentOnDisk DEF Absent, PairOK
  <2>4. /\ OnlyAt(File, f) /\ target'[f] = Relinked(f, target[f], 2)
        /\ temporary'[f] = Relinked(f, target[f], 2)
    BY <1>4, <2>2, <2>3, LinkBothEffect DEF ShapeInv
  <2>5. temporary'[f].ino = target[f].ino
    BY <2>2, <2>3, <2>4, RelinkedOnDisk, FileFacts DEF ShapeInv
  <2>6. target'[f].ctime = clock[f] + 1
    BY <2>2, <2>3, <2>4 DEF Relinked, OnDisk, FileState, Absent, Exists
  <2>7. AssetStays(f)
    <3>1. target[f].data = memory.before[f].data /\ EntryOK(memory, f)
      BY <1>2, <1>3, <1>4, AtSide, ReadFacts
    <3> QED
      BY <3>1 DEF AssetStays, EntryOK
  <2>8. command'.pc # "commit" /\ HarmlessCall(f)
    BY <1>4, <2>1, <2>5, <2>6, <2>7, GotoFacts DEF HarmlessCall
  <2> QED
    BY <1>1, <1>2, <1>4, <2>4, <2>8, MemoryEntries, CallSafe DEF KeepsJournal, others
<1>5. CASE Fail("recovery_conflict")
  BY <1>1, <1>5, FailSafe
<1> QED
  BY <1>3, <1>4, <1>5 DEF StageDeletionTombstone

LEMMA RecordTemporarySafe ==
  ASSUME ShapeInv, RecordTemporary
  PROVE  SafeStep
<1>1. command.pc = "record" /\ UNCHANGED <<others, faults>>
  BY DEF RecordTemporary, At
<1>2. command.pc \in LoopPc
  BY <1>1, LoopNames
<1>3. PICK f \in File : f = command.f
  BY <1>2, CurrentFile
<1> DEFINE side == IF Exists(After(f)) THEN "after" ELSE "before"
           j == [memory EXCEPT !.temporary[f] = [side |-> side, state |-> temporary[f]]]
<1>4. CASE /\ Save(j) /\ Goto("publish", f)
           /\ UNCHANGED <<disk, backup, binding, last, phase>>
  <2> HIDE DEF side
  <2>1. JournalOK(j)
    BY <1>4, RecordTemporaryShape DEF ShapeInv, StoreOK, Goto, Save, j
  <2>3. TemporaryNamed(memory, j, f, [side |-> side, state |-> temporary[f]])
    BY <1>2, LoopFacts, TemporaryIsNamed
  <2>4. temporary[f].ino \in Known(f)
    BY DEF Known
  <2>5. [side |-> side, state |-> temporary[f]].state.ino = temporary[f].ino
    OBVIOUS
  <2>6. command'.pc # "commit"
    BY <1>4, GotoFacts
  <2> HIDE DEF j
  <2> QED
    BY <1>1, <1>2, <1>4, <2>1, <2>3, <2>4, <2>5, <2>6, SnapshotSafe
    DEF TemporaryNamed, others
<1>5. CASE Fail("deletion_tombstone_readback_mismatch")
  BY <1>1, <1>5, FailSafe
<1> QED
  BY <1>3, <1>4, <1>5 DEF RecordTemporary

\* The second compare opens the window over a file that is nobody else's.
LEMMA SecondCompareSafe ==
  ASSUME ShapeInv, TheirsInv, SecondCompare
  PROVE  SafeStep
<1>1. command.pc = "publish" /\ UNCHANGED <<others, faults>>
  BY DEF SecondCompare, At
<1>2. command.pc \in LoopPc
  BY <1>1, LoopNames
<1>3. PICK f \in File : f = command.f
  BY <1>2, CurrentFile
<1>4. CASE Goto("confirm", f) /\ KeepsJournal /\ UNCHANGED disk
  BY <1>1, <1>2, <1>4, MemoryEntries, QuietSafe, GotoFacts DEF KeepsJournal, others
<1>5. CASE /\ Disposition(f) = "before" /\ Goto("commit", f)
           /\ KeepsJournal /\ UNCHANGED disk
  <2>1. EntriesKept /\ UNCHANGED <<disk, theirs>> /\ theirs'[f] = theirs[f]
    BY <1>1, <1>2, <1>5, MemoryEntries DEF KeepsJournal, others
  <2>2. theirs[f] = 0
    BY <1>2, <1>3, <1>5, AtSideNotTheirs DEF TheirsInv
  <2>3. \A g \in File : InWindow(g)' => g = f
    BY <1>5, GotoFacts DEF InWindow
  <2> QED
    BY <2>1, <2>2, <2>3, QuietHarmless DEF SafeStep
<1>6. CASE Fail("recovery_conflict")
  BY <1>1, <1>6, FailSafe
<1> QED
  BY <1>3, <1>4, <1>5, <1>6 DEF SecondCompare

LEMMA PublishFileSafe ==
  ASSUME ShapeInv, TheirsInv, PublishFile
  PROVE  SafeStep
<1>1. command.pc = "commit" /\ UNCHANGED <<others, faults>>
  BY DEF PublishFile, At
<1>2. command.pc \in LoopPc
  BY <1>1, LoopNames
<1>3. PICK f \in File : f = command.f
  BY <1>2, CurrentFile
<1>4. CASE Fail("destination_collision")
  BY <1>1, <1>4, FailSafe
<1>5. CASE /\ DiskOK(File)' /\ OnlyAt(File, f)
           /\ target'[f].data = After(f).data
           /\ temporary'[f].ino \in {0, temporary[f].ino}
           /\ target'[f].ctime = clock[f] + 1 \/ target'[f] = Absent
           /\ InWindow(f) \/ ~Exists(target[f])
           /\ \/ Goto("confirm", f)
              \/ Exists(After(f)) /\ Goto("unlink temporary", f)
           /\ KeepsJournal /\ UNCHANGED <<last, phase>>
  <2>1. theirs[f] = 0
    BY <1>5 DEF TheirsInv, TheirsAt
  <2>2. temporary'[f].ino \in Known(f)
    BY <1>5 DEF Known
  <2>3. target'[f].ctime \in {0, clock[f] + 1}
    <3>1. target'[f].ctime = clock[f] + 1 \/ target'[f] = Absent
      BY <1>5
    <3> QED
      BY <3>1 DEF Absent
  <2>4. AssetStays(f)
    BY <1>5 DEF AssetStays, Exists
  <2>5. command'.pc # "commit"
    <3>1. \E pc \in {"confirm", "unlink temporary"} : Goto(pc, f)
      BY <1>5
    <3> QED
      BY <3>1, GotoFacts
  <2>6. EntriesKept /\ UNCHANGED theirs
    BY <1>1, <1>2, <1>5, MemoryEntries DEF KeepsJournal, others
  <2>7. OnlyAt(File, f)
    BY <1>5
  <2> QED
    BY <2>1, <2>2, <2>3, <2>4, <2>5, <2>6, <2>7, CallSafe DEF HarmlessCall
<1> QED
  BY <1>3, <1>4, <1>5, PublishFileEffect

\* unlink(temporary): the file itself keeps its inode and bytes.
LEMMA UnlinkTemporarySafe ==
  ASSUME ShapeInv, EntriesKept, UNCHANGED theirs, NEW f \in File, UnlinkTemporary(f),
         command'.pc # "commit",
         Kind[f] = "asset" /\ Linked(f) => target[f].data # "foreign"
  PROVE  SafeStep
<1>1. /\ OnlyAt(File, f) /\ temporary'[f] = Absent
      /\ target'[f].ino = target[f].ino /\ target'[f].data = target[f].data
      /\ IF Linked(f) THEN target'[f] = Relinked(f, target[f], 1)
         ELSE target'[f] = target[f]
  BY UnlinkTemporaryEffect DEF ShapeInv
<1>2. Linked(f) => target'[f].ctime = clock[f] + 1
  <2>1. target[f] \in OnDisk /\ clock[f] \in Nat
    BY PairAt DEF ShapeInv
  <2> QED
    BY <1>1, <2>1 DEF Relinked, OnDisk, FileState, Linked, Exists, Absent
<1>3. temporary'[f].ino \in Known(f)
  BY <1>1 DEF Known, Absent
<1>4. AssetStays(f)
  BY <1>1 DEF AssetStays
<1>5. HarmlessCall(f)
  BY <1>1, <1>2, <1>3, <1>4 DEF HarmlessCall
<1> QED
  BY <1>1, <1>5, CallSafe

LEMMA UnlinkPublishedTemporarySafe ==
  ASSUME ShapeInv, UnlinkPublishedTemporary
  PROVE  SafeStep
<1>1. command.pc = "unlink temporary" /\ Continues /\ KeepsJournal
  BY DEF UnlinkPublishedTemporary, At
<1>2. command.pc \in LoopPc
  BY <1>1, LoopNames
<1>3. PICK f \in File : f = command.f
  BY <1>2, CurrentFile
<1>4. UnlinkTemporary(f) /\ Goto("confirm", f)
  BY <1>3 DEF UnlinkPublishedTemporary
<1>5. memory' = memory /\ UNCHANGED theirs /\ command'.pc # "commit"
  BY <1>1, <1>4 DEF Goto, KeepsJournal, Continues, others
<1>6. Kind[f] # "asset"
  BY <1>1, <1>3, AfterFacts DEF ShapeInv, HandledOK
<1> QED
  BY <1>2, <1>4, <1>5, <1>6, MemoryEntries, UnlinkTemporarySafe

LEMMA RecordEndpointSafe ==
  ASSUME ShapeInv, RecordEndpoint, TheirsInv
  PROVE  SafeStep
<1>1. command.pc = "confirm" /\ UNCHANGED <<others, faults>>
  BY DEF RecordEndpoint, At
<1>2. command.pc \in LoopPc
  BY <1>1, LoopNames
<1>3. PICK f \in File : f = command.f
  BY <1>2, CurrentFile
<1> DEFINE j == [memory EXCEPT !.published[f] = target[f]]
<1>4. CASE /\ DesiredEndpointReached(Change(f), target[f], temporary[f], "after")
           /\ Save(j) /\ EnterFrom(f + 1)
           /\ UNCHANGED <<disk, backup, binding, last, phase>>
  <2>1. target[f].data = After(f).data /\ target[f] \in OnDisk
    BY <1>2, <1>3, <1>4, AtSide, ReadFacts
  <2>2. JournalOK(j) /\ j.files = memory.files
    BY <1>2, <1>3, <2>1, LoopFacts, PublishedSaved
  <2>3. TemporaryNamed(memory, j, f, [state |-> target[f]])
    BY <1>2, LoopFacts, PublishedIsNamed
  <2>4. target[f].ino \in Known(f)
    BY <1>2, <1>3, <1>4, AtSideNotTheirs DEF TheirsInv
  <2> HIDE DEF j
  <2>5. command'.pc # "commit"
    <3>1. memory'.files \subseteq File /\ f + 1 \in Nat
      BY <1>2, <1>4, <2>2, LoopFacts, FileFacts DEF Save
    <3> QED
      BY <1>4, <3>1, EnterFromFacts
  <2>6. [state |-> target[f]].state.ino = target[f].ino
    OBVIOUS
  <2> QED
    BY <1>1, <1>2, <1>4, <2>2, <2>3, <2>4, <2>5, <2>6, SnapshotSafe
    DEF TemporaryNamed, others
<1>5. CASE Fail("post_commit_mismatch")
  BY <1>1, <1>5, FailSafe
<1> QED
  BY <1>3, <1>4, <1>5 DEF RecordEndpoint
-----------------------------------------------------------------------------
\* Behind the loop nothing is called but the unlinking of temporaries.
LEMMA EndSafe ==
  ASSUME ShapeInv, command.pc \in EndPc \cup EarlyPc \cup {"unlink pending temporary"},
         memory' = memory, UNCHANGED <<disk, theirs>>,
         NEW pc \in EndPc \cup EarlyPc \cup {"unlink pending temporary"}, NEW f, Goto(pc, f)
  PROVE  SafeStep
<1>1. command'.pc # "commit"
  BY GotoFacts DEF EndPc, EarlyPc
<1> QED
  BY <1>1, MemoryEntries, QuietSafe

LEMMA ValidateContextSafe ==
  ASSUME ShapeInv, ValidateContext
  PROVE  SafeStep
<1>1. command.pc \in EndPc /\ UNCHANGED others
  BY EndNames DEF ValidateContext, At
<1> QED
  BY <1>1, FailSafe, EndSafe, EndNames DEF ValidateContext, KeepsJournal, others

LEMMA CheckFinalFilesSafe ==
  ASSUME ShapeInv, CheckFinalFiles
  PROVE  SafeStep
<1>1. command.pc \in EndPc /\ UNCHANGED others
  BY EndNames DEF CheckFinalFiles, At
<1> QED
  BY <1>1, FailSafe, EndSafe, EndNames DEF CheckFinalFiles, KeepsJournal, others

LEMMA RetireBindingSafe ==
  ASSUME ShapeInv, RetireBinding
  PROVE  SafeStep
<1>1. command.pc \in EndPc /\ UNCHANGED others
  BY EndNames DEF RetireBinding, At
<1>2. \/ Fail("retirement_blocked")
      \/ /\ \E pc \in {"marker", "unlink record"} : Goto(pc, 0)
         /\ memory' = memory /\ UNCHANGED disk
  BY DEF RetireBinding, KeepsJournal
<1> QED
  BY <1>1, <1>2, FailSafe, EndSafe, EndNames DEF others

LEMMA CompareRecordSafe ==
  ASSUME ShapeInv, CompareRecord
  PROVE  SafeStep
<1>1. command.pc \in EndPc /\ UNCHANGED others
  BY EndNames DEF CompareRecord, At
<1> QED
  BY <1>1, FailSafe, EndSafe, EndNames DEF CompareRecord, KeepsJournal, others

LEMMA RemoveRecordSafe ==
  ASSUME ShapeInv, RemoveRecord
  PROVE  SafeStep
<1>1. command.pc \in EndPc /\ UNCHANGED <<others, disk, pending>>
  BY EndNames DEF RemoveRecord, At
<1>2. CASE Goto("marker", 0) /\ UNCHANGED <<memory, last>>
  BY <1>1, <1>2, EndSafe, EndNames DEF others
<1>3. CASE Ended("post_commit_identity_mismatch")
  BY <1>1, <1>3, EndsEntries, QuietSafe, IdleFields DEF Ended, others
<1> QED
  BY <1>2, <1>3 DEF RemoveRecord

LEMMA UnsetMarkerSafe ==
  ASSUME ShapeInv, UnsetMarker
  PROVE  SafeStep
BY EndSafe, EndNames DEF UnsetMarker, At, Continues, others

LEMMA CleanupTemporarySafe ==
  ASSUME ShapeInv, CleanupTemporary
  PROVE  SafeStep
<1>1. command.pc \in EndPc /\ UNCHANGED others
  BY EndNames DEF CleanupTemporary, At
<1>2. CASE Fail("temporary_identity_changed")
  BY <1>1, <1>2, FailSafe
<1>3. ASSUME NEW f \in File,
             IF f = N THEN Goto("remove pending", 0) ELSE Goto("cleanup", f + 1),
             KeepsJournal,
             \/ f \in memory.files /\ UnlinkTemporary(f)
                /\ RemovableTemporary(Change(f), target[f], temporary[f])
             \/ UNCHANGED disk
      PROVE  SafeStep
  <2>1. EntriesKept /\ UNCHANGED theirs /\ command'.pc # "commit"
    <3>1. memory' = memory /\ UNCHANGED theirs
      BY <1>1, <1>3 DEF KeepsJournal, others
    <3>2. command'.pc # "commit"
      <4>1. \E pc \in {"remove pending", "cleanup"} : \E g : Goto(pc, g)
        BY <1>3
      <4> QED
        BY <4>1, GotoFacts
    <3> QED
      BY <1>1, <3>1, <3>2, MemoryEntries
  <2>2. CASE UNCHANGED disk
    BY <2>1, <2>2, QuietSafe
  <2>3. CASE /\ UnlinkTemporary(f)
             /\ RemovableTemporary(Change(f), target[f], temporary[f])
    <3>1. ASSUME Kind[f] = "asset", Linked(f) PROVE target[f].data # "foreign"
      <4>1. target[f] = temporary[f] /\ Exists(target[f])
        BY <3>1, PairAt DEF ShapeInv, PairOK, Linked
      <4>2. EntryOK(memory, f) /\ memory.before[f].data # "foreign"
        BY <1>1, <3>1, LateFacts DEF JournalOK, EntryOK
      <4>3. ~Exists(After(f))
        BY <3>1, AfterFacts
      <4>4. memory.temporary[f] # NoTemporary
        BY <2>3, EntryFacts DEF RemovableTemporary
      <4>5. memory.temporary[f].side = "before"
        BY <4>2, <4>3, <4>4 DEF EntryOK, OwnSide
      <4>6. memory.temporary[f].state.data = memory.before[f].data
        BY <4>2, <4>4, <4>5, EntryFacts DEF EntryOK, ChangeOK, SamePayload
      <4>7. temporary[f] = memory.temporary[f].state
            \/ temporary[f].data = memory.before[f].data
        BY <2>3, <4>1, <4>5, EntryFacts DEF RemovableTemporary, SamePayload
      <4> QED
        BY <4>1, <4>2, <4>6, <4>7
    <3> QED
      BY <2>1, <2>3, <3>1, UnlinkTemporarySafe
  <2> QED
    BY <1>3, <2>2, <2>3
<1> QED
  BY <1>2, <1>3, CleanupEffect

LEMMA LinkPendingTombstoneSafe ==
  ASSUME ShapeInv, LinkPendingTombstone
  PROVE  SafeStep
BY EndSafe, EndNames DEF LinkPendingTombstone, At, Continues, others

\* The pending file goes, and the journal that it was.
LEMMA UnlinkPendingSafe ==
  ASSUME ShapeInv, UnlinkPending
  PROVE  SafeStep
<1>1. /\ pending' = NoPending /\ command' = Idle /\ memory' = NoJournal
      /\ UNCHANGED <<disk, theirs>>
  BY DEF UnlinkPending, Ended, others
<1>2. Active' = NoJournal
  BY <1>1, NoPendingFields DEF Active
<1>3. command'.pc # "commit"
  BY <1>1, IdleFields
<1> QED
  BY <1>1, <1>2, <1>3, QuietSafe DEF EntriesKept

LEMMA CrashSafe ==
  ASSUME ShapeInv, Crash
  PROVE  SafeStep
<1>1. /\ command' = Idle /\ memory' = NoJournal /\ UNCHANGED pending
      /\ UNCHANGED <<disk, theirs>>
  BY DEF Crash, Ended, others
<1>2. command'.pc # "commit"
  BY <1>1, IdleFields
<1> QED
  BY <1>1, <1>2, EndsEntries, QuietSafe

LEMMA WriteBackupSafe ==
  ASSUME ShapeInv, WriteBackup
  PROVE  SafeStep
BY EndSafe DEF WriteBackup, At, Continues, others, EarlyPc

LEMMA LinkPendingSafe ==
  ASSUME ShapeInv, LinkPending
  PROVE  SafeStep
BY EndSafe DEF LinkPending, At, others, EarlyPc

LEMMA UnlinkPendingTemporarySafe ==
  ASSUME ShapeInv, UnlinkPendingTemporary
  PROVE  SafeStep
<1>1. /\ command.pc = "unlink pending temporary" /\ memory' = memory /\ EnterFrom(1)
      /\ UNCHANGED <<disk, theirs>>
  BY DEF UnlinkPendingTemporary, At, Continues, others
<1>2. memory'.files \subseteq File /\ 1 \in Nat
  BY <1>1, LateFacts
<1>3. command'.pc # "commit"
  BY <1>1, <1>2, EnterFromFacts
<1> QED
  BY <1>1, <1>3, MemoryEntries, QuietSafe

LEMMA StepSafe ==
  ASSUME ShapeInv, TheirsInv, Step
  PROVE  SafeStep
BY WriteBackupSafe, LinkPendingSafe, UnlinkPendingTemporarySafe, ReconcileSafe,
   CompareFileSafe, OpenTemporarySafe, WriteTemporarySafe,
   StageDeletionTombstoneSafe, RecordTemporarySafe, SecondCompareSafe,
   PublishFileSafe, UnlinkPublishedTemporarySafe, RecordEndpointSafe,
   ValidateContextSafe, CheckFinalFilesSafe, RetireBindingSafe,
   CompareRecordSafe, RemoveRecordSafe, UnsetMarkerSafe, CleanupTemporarySafe,
   LinkPendingTombstoneSafe, UnlinkPendingSafe
DEF Step

\* A step that neither works nor edits leaves the journals and the disk alone.
LEMMA IdleStepSafe ==
  ASSUME ShapeInv, TheirsInv, UNCHANGED <<disk, memory, pending, command, theirs>>
  PROVE  SafeStep
<1>1. Active' = Active
  BY DEF Active
<1>2. EntriesKept
  BY <1>1 DEF EntriesKept
<1>3. \A f \in File : InWindow(f)' => theirs'[f] = 0
  <2>1. ASSUME NEW f \in File, InWindow(f)' PROVE InWindow(f)
    BY <2>1 DEF InWindow, At, Exists
  <2> QED
    BY <2>1 DEF TheirsInv
<1> QED
  BY <1>2, <1>3, QuietHarmless DEF SafeStep

LEMMA SafeTheirs ==
  ASSUME ShapeInv, TheirsInv, SafeStep
  PROVE  TheirsInv'
BY HarmlessTheirs DEF SafeStep, TheirsInv

\* A resumption takes up the journal that is in the pending file; a new upgrade
\* reads everybody's files, and takes none for its own.
LEMMA StartTheirs ==
  ASSUME ShapeInv, TheirsInv, NEW stopped \in BOOLEAN, Start(stopped)
  PROVE  SafeStep \/ (TheirsInv' /\ UNCHANGED disk /\ \A f \in File : theirs'[f] = 0)
<1>1. command = Idle /\ command.pc = "idle"
  BY StartCases, IdleFields
<1>2. CASE \E reason : Refuse(reason)
  BY <1>2, IdleStepSafe DEF Refuse, others
<1>3. CASE /\ PendingExists
           /\ memory' = pending.journal /\ EnterFrom(1)
           /\ UNCHANGED <<disk, pending, backup, binding, others, phase, last, faults>>
  <2>1. JournalOK(pending.journal)
    BY <1>3, PendingFacts DEF ShapeInv, StoreOK
  <2>2. memory'.files \subseteq File /\ 1 \in Nat
    BY <1>3, <2>1 DEF JournalOK, FullJournal
  <2>3. command'.pc # "commit"
    BY <1>3, <2>2, EnterFromFacts
  <2>4. EntriesKept
    <3>1. Active = pending.journal /\ Active # NoJournal
      BY <1>1, <2>1, ActiveFacts, JournalFacts
    <3>2. Active' = pending.journal
      BY <1>3, <2>1, JournalFacts DEF Active
    <3> QED
      BY <3>1, <3>2 DEF EntriesKept
  <2> QED
    BY <1>3, <2>3, <2>4, QuietSafe DEF others
<1>4. CASE /\ ~PlanBlocked /\ memory' = CreateJournal /\ Goto("backup", 0)
           /\ theirs' = [f \in File |-> 0] /\ UNCHANGED disk
  <2>1. JournalOK(CreateJournal) /\ CreateJournal # NoJournal
    BY <1>4, CreateJournalOK, JournalFacts
  <2>2. Active' = CreateJournal /\ Active' # NoJournal
    BY <1>4, <2>1 DEF Active
  <2>3. ASSUME NEW f \in File PROVE TheirsAt(f)'
    <3>1. /\ target[f] \in OnDisk /\ temporary[f] \in OnDisk /\ clock[f] \in Nat
          /\ target[f].ino <= clock[f] /\ temporary[f].ino <= clock[f]
      BY PairAt DEF ShapeInv, PairOK
    <3>2. Inodes(Entry(CreateJournal, f)) \subseteq {0, target[f].ino}
      <4>1. /\ Entry(CreateJournal, f).planned["before"] = target[f]
            /\ Entry(CreateJournal, f).planned["after"].ino = 0
            /\ Entry(CreateJournal, f).published["before"].ino = 0
            /\ Entry(CreateJournal, f).published["after"].ino = 0
            /\ Entry(CreateJournal, f).temporary.state.ino = 0
        BY <1>4, CreateJournalOK, EntryFacts, AfterFacts DEF Unrecorded, NoTemporary, Absent
      <4> QED
        BY <4>1, SideFacts DEF Inodes
    <3>3. Known(f)' \subseteq {0, temporary[f].ino, target[f].ino}
      <4>1. Entry(Active, f)' = Entry(CreateJournal, f)
        BY <2>2 DEF Entry, After
      <4>2. Inodes(Entry(Active, f))' = Inodes(Entry(Active, f)')
        OBVIOUS
      <4> QED
        BY <1>4, <2>2, <3>2, <4>1, <4>2 DEF Known, disk
    <3>4. target[f].ctime <= clock[f]
      BY DEF TheirsInv, TheirsAt
    <3>5. theirs'[f] = 0 /\ Active'.before[f] = target[f]
      BY <1>4, <2>2, CreateJournalOK
    <3>6. \A i \in Known(f)' : i <= clock[f]
      BY <3>1, <3>3
    <3> QED
      BY <1>4, <3>4, <3>5, <3>6 DEF TheirsAt, disk
  <2>4. command'.pc # "commit"
    BY <1>4, GotoFacts
  <2>5. \A f \in File : theirs'[f] = 0
    BY <1>4
  <2> QED
    BY <1>4, <2>3, <2>4, <2>5, NoWindow DEF TheirsInv
<1> QED
  BY <1>2, <1>3, <1>4, StartCases

\* An edit leaves an inode that nobody knows, or one written into just now.
LEMMA EditFileTheirs ==
  ASSUME ShapeInv, TheirsInv, NEW f \in File, EditFile(f)
  PROVE  TheirsInv'
<1>1. /\ OnlyAt(File, f) /\ DiskOK(File)'
      /\ temporary'[f].ino = temporary[f].ino
      /\ \/ target'[f].ino = clock[f] + 1 /\ Leaves(f, clock[f] + 1)
         \/ /\ Exists(target[f]) /\ target'[f].ino = target[f].ino
            /\ target'[f].data = "foreign" /\ Leaves(f, target[f].ino)
            /\ target'[f].ctime = clock[f] + 1
         \/ target'[f] = Absent /\ Leaves(f, 0)
      /\ target'[f].ctime \in {0, clock[f] + 1}
  BY EditFileEffect
<1>2. UNCHANGED <<pending, memory, command>>
  BY DEF EditFile, Edit
<1>3. Active' = Active
  BY <1>2 DEF Active
<1>4. theirs \in [File -> Nat]
  BY DEF ShapeInv, HistoryOK
<1>5. \A g \in File \ {f} : theirs'[g] = theirs[g]
  BY <1>1, <1>4 DEF Leaves
<1>6. ASSUME NEW g \in File PROVE (Known(g))' = Known(g)
  <2>1. Entry(Active, g)' = Entry(Active, g)
    BY <1>3 DEF Entry, After
  <2>2. Inodes(Entry(Active, g))' = Inodes(Entry(Active, g)')
    OBVIOUS
  <2>3. temporary'[g].ino = temporary[g].ino
    BY <1>1 DEF OnlyAt
  <2> QED
    BY <1>3, <2>1, <2>2, <2>3 DEF Known
<1>7. ASSUME NEW g \in File \ {f} PROVE TheirsAt(g)'
  <2>1. TheirsAt(g) /\ target'[g] = target[g] /\ clock'[g] = clock[g]
    BY <1>1 DEF TheirsInv, OnlyAt
  <2> QED
    BY <1>3, <1>5, <1>6, <2>1 DEF TheirsAt
<1>8. /\ clock[f] \in Nat /\ clock'[f] = clock[f] + 1 /\ Known(f) \subseteq Nat
      /\ \A i \in Known(f) : i <= clock[f]
      /\ target'[f].ino \in Nat /\ target'[f].ctime \in Nat
      /\ Active # NoJournal => Active.before[f].ctime \in Nat
                               /\ Active.before[f].ctime <= clock[f]
  <2>1. clock[f] \in Nat /\ clock'[f] = clock[f] + 1
    BY <1>1, PairAt DEF ShapeInv, OnlyAt
  <2>2. Known(f) \subseteq Nat /\ \A i \in Known(f) : i <= clock[f]
    BY KnownNat DEF TheirsInv, TheirsAt
  <2>3. target'[f].ino \in Nat /\ target'[f].ctime \in Nat
    BY <1>1 DEF DiskOK, OnDisk, FileState
  <2>4. Active # NoJournal => Active.before[f].ctime \in Nat
    BY ActiveFacts DEF JournalOK, FullJournal, FileState
  <2>5. Active # NoJournal => Active.before[f].ctime <= clock[f]
    BY DEF TheirsInv, TheirsAt
  <2> QED
    BY <2>1, <2>2, <2>3, <2>4, <2>5
<1>9. TheirsAt(f)'
  <2>1. /\ \A i \in Known(f)' : i <= clock'[f]
        /\ target'[f].ctime <= clock'[f]
        /\ Active' # NoJournal => Active'.before[f].ctime <= clock'[f]
    BY <1>1, <1>3, <1>6, <1>8
  <2>2. ASSUME theirs'[f] # 0
        PROVE  /\ Exists(target'[f]) /\ target'[f].ino = theirs'[f]
               /\ \/ target'[f].ino \notin Known(f)'
                  \/ /\ target'[f].data = "foreign"
                     /\ Active' # NoJournal => target'[f].ctime > Active'.before[f].ctime
    <3>1. ASSUME NEW i, Leaves(f, i) PROVE theirs'[f] = i
      BY <1>4, <2>2, <3>1 DEF Leaves
    <3>2. CASE target'[f].ino = clock[f] + 1 /\ Leaves(f, clock[f] + 1)
      <4>1. target'[f].ino \notin Known(f)'
        BY <1>6, <1>8, <3>2
      <4>2. Exists(target'[f])
        <5>1. target'[f].ino # 0
          BY <1>8, <3>2
        <5> QED
          BY <1>1, <5>1 DEF DiskOK, OnDisk, Absent, Exists
      <4> QED
        BY <3>1, <3>2, <4>1, <4>2
    <3>3. CASE /\ Exists(target[f]) /\ target'[f].ino = target[f].ino
               /\ target'[f].data = "foreign" /\ Leaves(f, target[f].ino)
               /\ target'[f].ctime = clock[f] + 1
      <4>1. Active' # NoJournal => target'[f].ctime > Active'.before[f].ctime
        BY <1>3, <1>8, <3>3
      <4> QED
        BY <3>1, <3>3, <4>1 DEF Exists
    <3>4. CASE Leaves(f, 0)
      BY <2>2, <3>1, <3>4
    <3> QED
      BY <1>1, <3>2, <3>3, <3>4
  <2> QED
    BY <2>1, <2>2 DEF TheirsAt, Exists
<1>10. \A g \in File : InWindow(g)' => theirs'[g] = 0
  <2>1. ASSUME NEW g \in File, InWindow(g)' PROVE InWindow(g)
    BY <1>2, <2>1 DEF InWindow, At, Exists
  <2>2. InWindow(f) => theirs'[f] = 0
    BY <1>1, <1>4 DEF Leaves
  <2>3. \A g \in File : InWindow(g) => theirs[g] = 0
    BY DEF TheirsInv
  <2> QED
    BY <1>5, <2>1, <2>2, <2>3
<1> QED
  BY <1>7, <1>9, <1>10 DEF TheirsInv

LEMMA OthersTheirs ==
  ASSUME ShapeInv, TheirsInv, Others
  PROVE  TheirsInv'
<1>1. CASE Settle
  BY <1>1, IdleStepSafe, SafeTheirs DEF Settle, SettleTransaction, SettleBlocker
<1>2. CASE WriteRecord \/ ChangeContext
  BY <1>2, IdleStepSafe, SafeTheirs DEF WriteRecord, ChangeContext, Edit
<1> QED
  BY <1>1, <1>2, EditFileTheirs DEF Others

LEMMA InitTheirs == Init => TheirsInv
<1> SUFFICES ASSUME Init PROVE TheirsInv
  OBVIOUS
<1>1. /\ Active = NoJournal /\ command.pc = "idle"
      /\ \A f \in File : /\ theirs[f] = 0 /\ clock[f] = 1
                         /\ temporary[f].ino = 0 /\ target[f].ctime \in {0, 1}
  BY NoPendingFields, IdleFields DEF Init, Active, Absent
<1>2. \A f \in File : Known(f) = {0}
  BY <1>1 DEF Known
<1>3. \A f \in File : \A i \in Known(f) : i <= clock[f]
  BY <1>1, <1>2
<1>4. \A f \in File : target[f].ctime <= clock[f]
  BY <1>1
<1> QED
  BY <1>1, <1>3, <1>4 DEF TheirsInv, TheirsAt, InWindow, At

LEMMA NextTheirs == ShapeInv /\ TheirsInv /\ [Next]_vars => TheirsInv'
<1> SUFFICES ASSUME ShapeInv, TheirsInv, [Next]_vars PROVE TheirsInv'
  OBVIOUS
<1>1. CASE \E stopped \in BOOLEAN : Start(stopped)
  BY <1>1, StartTheirs, SafeTheirs
<1>2. CASE Step \/ Crash
  BY <1>2, StepSafe, CrashSafe, SafeTheirs
<1>3. CASE UNCHANGED vars
  BY <1>3, IdleStepSafe, SafeTheirs DEF vars, others
<1> QED
  BY <1>1, <1>2, <1>3, OthersTheirs DEF Next

LEMMA TheirsInvariant == Spec => []TheirsInv
BY ShapeInvariant, InitTheirs, NextTheirs, PTL DEF Spec

\* What a step that is not an edit does to the files.
LEMMA StepsAreSafe ==
  ASSUME ShapeInv, TheirsInv, [Next]_vars, edits' = edits
  PROVE  SafeStep \/ (UNCHANGED disk /\ \A f \in File : theirs'[f] = 0)
<1>1. CASE \E stopped \in BOOLEAN : Start(stopped)
  BY <1>1, StartTheirs
<1>2. CASE Step \/ Crash
  BY <1>2, StepSafe, CrashSafe
<1>3. CASE UNCHANGED vars
  BY <1>3, IdleStepSafe DEF vars, others
<1>4. CASE Settle
  BY <1>4, IdleStepSafe DEF Settle, SettleTransaction, SettleBlocker
<1>5. ~Edit
  BY DEF Edit, ShapeInv, HistoryOK
<1>6. Others => Settle
  BY <1>5 DEF Others, EditFile, WriteRecord, ChangeContext
<1> QED
  BY <1>1, <1>2, <1>3, <1>4, <1>6 DEF Next

\* No upgrade replaces or deletes what somebody left at a planned path after the
\* plan read it, wherever upgrades crash and however often the file is edited,
\* but in the window behind the second compare (retirement-runner.ts, the
\* compare of the loop and applyMutationChangeForward).
THEOREM TheirFilesAreKept == Spec => TheirFilesSurvive
<1>1. ShapeInv /\ TheirsInv /\ [Next]_vars
        => [\A f \in File :
              theirs[f] # 0 /\ edits' = edits /\ theirs'[f] = theirs[f]
              => /\ target'[f].ino = target[f].ino
                 /\ target'[f].data = target[f].data]_vars
  <2> SUFFICES ASSUME ShapeInv, TheirsInv, [Next]_vars, NEW f \in File,
                      theirs[f] # 0, edits' = edits, theirs'[f] = theirs[f]
               PROVE  /\ target'[f].ino = target[f].ino
                      /\ target'[f].data = target[f].data
    OBVIOUS
  <2> QED
    BY StepsAreSafe DEF SafeStep, Harmless
<1> QED
  BY <1>1, ShapeInvariant, TheirsInvariant, PTL DEF Spec, TheirFilesSurvive

\* A customized asset is neither deleted nor changed by an upgrade, but in the
\* window: it blocks the plan, or it is in conflict (retirement-assets.ts).
THEOREM CustomizedAssetsAreKept == Spec => CustomizedAssetsStay
<1>1. ShapeInv /\ TheirsInv /\ [Next]_vars
        => [\A f \in File :
              Kind[f] = "asset" /\ target[f].data = "foreign" /\ edits' = edits
              /\ ~InWindow(f)
              => target'[f] = target[f]]_vars
  <2> SUFFICES ASSUME ShapeInv, TheirsInv, [Next]_vars, NEW f \in File,
                      Kind[f] = "asset", target[f].data = "foreign", edits' = edits,
                      ~InWindow(f)
               PROVE  target'[f] = target[f]
    OBVIOUS
  <2> QED
    BY StepsAreSafe DEF SafeStep, AssetStays, disk
<1> QED
  BY <1>1, ShapeInvariant, TheirsInvariant, PTL DEF Spec, CustomizedAssetsStay
-----------------------------------------------------------------------------
(***************************************************************************)
(* The order of the files.                                                 *)
(***************************************************************************)
\* While nobody edits: the files before the one that is handled are at their
\* new side, and those from the prefix on at their old one.
LEMMA PrefixFacts ==
  ASSUME NEW k \in 0..N, PrefixOnDisk(k), NEW f \in File
  PROVE  /\ target[f].data = After(f).data => f <= k
         /\ target[f].data # After(f).data => f > k
         /\ f \in Nat /\ k \in Nat /\ N \in Nat /\ f <= N /\ f >= 1 /\ k <= N
BY KindFacts, FileFacts DEF PrefixOnDisk

DataKept == \A f \in File : target'[f].data = target[f].data

\* The journal that is worked with keeps its files, or there is none any more.
FilesKept ==
  \/ Active' = NoJournal
  \/ Active # NoJournal /\ Active'.files = Active.files

LEMMA EntriesKeepFiles == EntriesKept => FilesKept
BY DEF EntriesKept, FilesKept

LEMMA CallKeepsData ==
  ASSUME NEW f \in File, OnlyAt(File, f), target'[f].data = target[f].data
  PROVE  DataKept
BY DEF OnlyAt, DataKept

LEMMA DiskKeepsData == UNCHANGED disk => DataKept
BY DEF disk, DataKept

LEMMA PrefixKept ==
  ASSUME NEW k \in 0..N, PrefixOnDisk(k), DataKept
  PROVE  PrefixOnDisk(k)'
BY KindFacts DEF PrefixOnDisk, DataKept, After, Exists

LEMMA PositionKept ==
  ASSUME NEW k \in 0..N, Position(k), DataKept, FilesKept, CommandPosition(k)',
         UNCHANGED <<phase, binding>>
  PROVE  Position(k)' /\ DataKept
BY PrefixKept DEF Position, JournalPosition, FilesKept

\* While the pending file is there, the binding may be retired.
LEMMA OpenPositionKept ==
  ASSUME NEW k \in 0..N, Position(k), DataKept, FilesKept, CommandPosition(k)',
         phase = "open", phase' = "open"
  PROVE  Position(k)' /\ DataKept
BY PrefixKept DEF Position, JournalPosition, FilesKept

LEMMA LoopPosition ==
  ASSUME NEW k, k >= command'.f - 1,
         command'.pc \in LoopPc \ {"commit", "unlink temporary", "confirm"}
  PROVE  CommandPosition(k)'
BY DEF CommandPosition, LoopPc, EndPc, EarlyPc

LEMMA IdlePosition ==
  ASSUME NEW k, command'.pc \in {"idle", "unlink pending temporary"} \cup EarlyPc,
         command'.pc \in EarlyPc => k = 0
  PROVE  CommandPosition(k)'
BY DEF CommandPosition, LoopPc, EndPc, EarlyPc

\* Behind file g comes file g + 1, or the validation.
LEMMA EnterPosition ==
  ASSUME memory'.files = File, NEW g \in 0..N, NEW k \in 0..N, k >= g, EnterFrom(g + 1)
  PROVE  CommandPosition(k)'
<1>1. /\ memory'.files \subseteq File /\ g + 1 \in Nat /\ g \in Nat /\ k \in Nat /\ N \in Nat
      /\ k <= N /\ g <= N
  BY KindFacts
<1>2. CASE /\ command'.pc = "validate" /\ \A h \in File : h < g + 1
  <2>1. N < g + 1
    BY <1>2, FileFacts
  <2>2. k = N
    BY <1>1, <2>1
  <2> QED
    BY <1>2, <2>2 DEF CommandPosition, LoopPc, EndPc, EarlyPc
<1>3. CASE /\ command'.pc = "reconcile" /\ command'.f \in File /\ command'.f >= g + 1
           /\ \A h \in File : h >= g + 1 => command'.f <= h
  <2>1. command'.f \in Nat /\ command'.f <= N /\ g + 1 \in File
    BY <1>1, <1>3, KindFacts, FileFacts
  <2>2. command'.f = g + 1
    BY <1>1, <1>3, <2>1
  <2>3. k >= command'.f - 1
    BY <1>1, <2>2
  <2> QED
    BY <1>3, <2>3, LoopPosition, LoopNames
<1> QED
  BY <1>1, <1>2, <1>3, EnterFromFacts

LEMMA FailPosition ==
  ASSUME ShapeInv, NEW k \in 0..N, Position(k), NEW reason, Fail(reason)
  PROVE  Position(k)' /\ DataKept
<1>1. /\ command' = Idle /\ memory' = NoJournal /\ UNCHANGED <<disk, pending, phase, binding>>
  BY DEF Fail, Ended
<1>2. command'.pc = "idle"
  BY <1>1, IdleFields
<1>3. DataKept /\ FilesKept /\ CommandPosition(k)'
  BY <1>1, <1>2, EndsEntries, EntriesKeepFiles, IdlePosition, DiskKeepsData DEF EarlyPc
<1> QED
  BY <1>1, <1>3, PositionKept

\* Where the loop is, and which files are done.
LEMMA LoopAt ==
  ASSUME ShapeInv, command.pc \in LoopPc, NEW k \in 0..N, Position(k),
         NEW f \in File, f = command.f
  PROVE  /\ k >= f - 1 /\ k \in Nat /\ f \in Nat /\ f \in 0..N
         /\ Active = memory /\ Active # NoJournal /\ memory.files = File /\ phase = "open"
         /\ Disposition(f) = "after" => k >= f
         /\ Disposition(f) = "before" => k = f - 1
         /\ DesiredEndpointReached(Change(f), target[f], temporary[f], "after") => k >= f
<1>1. k >= f - 1 /\ PrefixOnDisk(k)
  BY DEF Position, CommandPosition
<1>2. Active = memory /\ Active # NoJournal /\ memory.files = File
  BY ActiveFacts DEF Position, JournalPosition
<1>3. phase = "open" /\ memory.before[f].data # After(f).data
  BY LoopFacts, ReadFacts
<1>4. f \in Nat /\ k \in Nat /\ f \in 0..N
  BY FileFacts, KindFacts
<1>5. target[f].data = After(f).data => k >= f
  BY <1>1, <1>4, PrefixFacts
<1>6. target[f].data # After(f).data => k = f - 1
  BY <1>1, <1>4, PrefixFacts
<1> QED
  BY <1>1, <1>2, <1>3, <1>4, <1>5, <1>6, AtSide

\* A step of the loop to another point for the same file.
LEMMA LoopKeepsPosition ==
  ASSUME ShapeInv, command.pc \in LoopPc, NEW k \in 0..N, Position(k),
         NEW f \in File, f = command.f, DataKept, FilesKept, UNCHANGED <<phase, binding>>,
         NEW pc \in LoopPc, Goto(pc, f),
         pc = "commit" => k = f - 1,
         pc \in {"unlink temporary", "confirm"} => k >= f
  PROVE  Position(k)' /\ DataKept
<1>1. command'.pc = pc /\ command'.f = f
  BY GotoFacts
<1>2. k >= f - 1
  BY LoopAt
<1>3. CommandPosition(k)'
  BY <1>1, <1>2 DEF CommandPosition, LoopPc, EndPc, EarlyPc
<1> QED
  BY <1>3, PositionKept

\* A step of the loop to the next file.
LEMMA LoopMovesPosition ==
  ASSUME ShapeInv, command.pc \in LoopPc, NEW k \in 0..N, Position(k),
         NEW f \in File, k >= f, DataKept, FilesKept, UNCHANGED <<phase, binding>>,
         memory'.files = memory.files, memory' # NoJournal, EnterFrom(f + 1)
  PROVE  Position(k)' /\ DataKept
<1>1. memory.files = File
  BY ActiveFacts DEF Position, JournalPosition
<1>2. f \in 0..N
  BY FileFacts
<1>3. CommandPosition(k)'
  BY <1>1, <1>2, EnterPosition
<1> QED
  BY <1>3, PositionKept

LEMMA MemoryKeepsFiles ==
  ASSUME ShapeInv, command.pc \in LoopPc \cup EndPc \cup EarlyPc \cup {"unlink pending temporary"},
         memory' = memory
  PROVE  FilesKept
BY MemoryEntries, EntriesKeepFiles

\* A save keeps the files of the journal.
LEMMA SaveKeepsFiles ==
  ASSUME ShapeInv, command.pc \in LoopPc, NEW j, JournalOK(j), j.files = memory.files, Save(j)
  PROVE  FilesKept /\ memory' = j /\ memory' # NoJournal
<1>1. memory' = j /\ j # NoJournal
  BY JournalFacts DEF Save
<1>2. Active' = j /\ Active = memory /\ Active # NoJournal
  BY <1>1, ActiveFacts DEF Active
<1> QED
  BY <1>1, <1>2 DEF FilesKept
-----------------------------------------------------------------------------
LEMMA ReconcilePosition ==
  ASSUME ShapeInv, NEW k \in 0..N, Position(k), ReconcileUnrecordedTemporary
  PROVE  Position(k)' /\ DataKept
<1>1. command.pc = "reconcile" /\ UNCHANGED <<others, faults>>
  BY DEF ReconcileUnrecordedTemporary, At
<1>2. command.pc \in LoopPc
  BY <1>1, LoopNames
<1>3. PICK f \in File : f = command.f
  BY <1>2, CurrentFile
<1> DEFINE side == UnrecordedSide(f)
           j == [memory EXCEPT !.temporary[f] = [side |-> side, state |-> temporary[f]]]
<1>4. CASE /\ side # "none" /\ Exists(temporary[f]) /\ Save(j)
           /\ Goto("compare", f) /\ UNCHANGED <<disk, backup, binding, last, phase>>
  <2>1. /\ side \in Side /\ OwnSide(f, [side |-> side, state |-> temporary[f]])
        /\ temporary[f].data = Entry(memory, f).planned[side].data
    BY <1>4, UnrecordedSideFacts
  <2>2. JournalOK(j) /\ j.files = memory.files
    <3> HIDE DEF side
    <3> QED
      BY <1>2, <1>3, <1>4, <2>1, LoopFacts, ReadFacts, TemporarySaved
  <2> HIDE DEF j, side
  <2>3. FilesKept /\ DataKept
    BY <1>2, <1>4, <2>2, SaveKeepsFiles, DiskKeepsData
  <2> QED
    BY <1>2, <1>3, <1>4, <2>3, LoopKeepsPosition, LoopNames
<1>5. CASE Fail("upgrade_temporary_conflict")
  BY <1>5, FailPosition
<1>6. CASE Goto("compare", f) /\ KeepsJournal /\ UNCHANGED <<disk, last, phase>>
  BY <1>2, <1>3, <1>6, MemoryKeepsFiles, DiskKeepsData, LoopKeepsPosition, LoopNames
  DEF KeepsJournal
<1> QED
  <2> HIDE DEF j, side
  <2>1. \/ /\ UnrecordedSide(f) # "none" /\ Exists(temporary[f])
           /\ Save([memory EXCEPT !.temporary[f] =
                     [side |-> UnrecordedSide(f), state |-> temporary[f]]])
           /\ Goto("compare", f) /\ UNCHANGED <<disk, backup, binding, last, phase>>
        \/ Fail("upgrade_temporary_conflict")
        \/ Goto("compare", f) /\ KeepsJournal /\ UNCHANGED <<disk, last, phase>>
    BY <1>3 DEF ReconcileUnrecordedTemporary
  <2> QED
    BY <2>1, <1>4, <1>5, <1>6 DEF j, side

LEMMA CompareFilePosition ==
  ASSUME ShapeInv, NEW k \in 0..N, Position(k), CompareFile
  PROVE  Position(k)' /\ DataKept
<1>1. command.pc = "compare"
  BY DEF CompareFile, At
<1>2. command.pc \in LoopPc
  BY <1>1, LoopNames
<1>3. PICK f \in File : f = command.f
  BY <1>2, CurrentFile
<1>4. CASE Fail("upgrade_conflict")
  BY <1>4, FailPosition
<1>5. CASE /\ Disposition(f) = "after" /\ memory' = memory /\ EnterFrom(f + 1)
           /\ UNCHANGED <<disk, pending, backup, binding, last, phase>>
  <2>1. k >= f /\ memory' # NoJournal /\ FilesKept /\ DataKept
    BY <1>2, <1>3, <1>5, LoopAt, LoopFacts, MemoryKeepsFiles, DiskKeepsData
  <2> QED
    BY <1>2, <1>5, <2>1, LoopMovesPosition
<1>6. ASSUME NEW pc \in {"confirm", "publish", "stage", "tombstone"}, Goto(pc, f),
             pc = "confirm" => Disposition(f) = "after",
             KeepsJournal, UNCHANGED <<disk, last, phase>>
      PROVE  Position(k)' /\ DataKept
  <2>1. pc = "confirm" => k >= f
    BY <1>2, <1>3, <1>6, LoopAt
  <2>2. FilesKept /\ DataKept /\ UNCHANGED <<phase, binding>>
    BY <1>2, <1>6, MemoryKeepsFiles, DiskKeepsData DEF KeepsJournal
  <2>3. pc \in LoopPc
    BY LoopNames
  <2> QED
    BY <1>2, <1>3, <1>6, <2>1, <2>2, <2>3, LoopKeepsPosition
<1> QED
  <2>1. \/ \E pc \in {"confirm", "publish", "stage", "tombstone"} :
             /\ Goto(pc, f) /\ KeepsJournal /\ UNCHANGED <<disk, last, phase>>
             /\ pc = "confirm" => Disposition(f) = "after"
        \/ /\ Disposition(f) = "after" /\ memory' = memory /\ EnterFrom(f + 1)
           /\ UNCHANGED <<disk, pending, backup, binding, last, phase>>
        \/ Fail("upgrade_conflict")
    BY <1>3 DEF CompareFile
  <2> QED
    BY <2>1, <1>4, <1>5, <1>6

LEMMA StagingPosition ==
  ASSUME ShapeInv, NEW k \in 0..N, Position(k), command.pc \in LoopPc,
         NEW f \in File, f = command.f, OnlyAt(File, f), target'[f].data = target[f].data,
         NEW pc \in LoopPc \ {"commit", "unlink temporary", "confirm"}, Goto(pc, f),
         KeepsJournal, phase' = phase
  PROVE  Position(k)' /\ DataKept
<1>1. FilesKept /\ DataKept /\ UNCHANGED <<phase, binding>>
  BY MemoryKeepsFiles, CallKeepsData DEF KeepsJournal
<1> QED
  BY <1>1, LoopKeepsPosition

LEMMA OpenTemporaryPosition ==
  ASSUME ShapeInv, NEW k \in 0..N, Position(k), OpenTemporary
  PROVE  Position(k)' /\ DataKept
<1>1. command.pc = "stage" /\ KeepsJournal /\ phase' = phase
  BY DEF OpenTemporary, At, Continues
<1>2. command.pc \in LoopPc
  BY <1>1, LoopNames
<1>3. PICK f \in File : f = command.f
  BY <1>2, CurrentFile
<1>4. CreateTemporary(f, "foreign") /\ Goto("write", f)
  BY <1>3 DEF OpenTemporary
<1>5. temporary[f] = Absent
  BY <1>1, <1>3 DEF ShapeInv, HandledOK
<1>6. OnlyAt(File, f) /\ target'[f].data = target[f].data
  BY <1>4, <1>5, CreateTemporaryEffect DEF ShapeInv
<1> QED
  BY <1>1, <1>2, <1>3, <1>4, <1>6, StagingPosition, LoopNames

LEMMA WriteTemporaryPosition ==
  ASSUME ShapeInv, NEW k \in 0..N, Position(k), WriteTemporary
  PROVE  Position(k)' /\ DataKept
<1>1. command.pc = "write" /\ KeepsJournal /\ phase' = phase
  BY DEF WriteTemporary, At, Continues
<1>2. command.pc \in LoopPc
  BY <1>1, LoopNames
<1>3. PICK f \in File : f = command.f
  BY <1>2, CurrentFile
<1>4. Goto("record", f)
  BY <1>3 DEF WriteTemporary
<1>5. OnlyAt(File, f) /\ target'[f].data = target[f].data
  BY <1>3, WriteTemporaryEffect
<1> QED
  BY <1>1, <1>2, <1>3, <1>4, <1>5, StagingPosition, LoopNames

LEMMA StageDeletionTombstonePosition ==
  ASSUME ShapeInv, NEW k \in 0..N, Position(k), StageDeletionTombstone
  PROVE  Position(k)' /\ DataKept
<1>1. command.pc = "tombstone"
  BY DEF StageDeletionTombstone, At
<1>2. command.pc \in LoopPc
  BY <1>1, LoopNames
<1>3. PICK f \in File : f = command.f
  BY <1>2, CurrentFile
<1>4. CASE /\ target[f].nlink = 1 /\ LinkBoth(f, target[f])
           /\ Goto("record", f) /\ KeepsJournal /\ UNCHANGED <<last, phase>>
  <2>1. target[f] \in OnDisk /\ PairOK(f)
    BY PairAt DEF ShapeInv
  <2>2. Exists(target[f]) /\ target[f].ino <= clock[f]
    BY <1>4, <2>1, AbsentOnDisk DEF Absent, PairOK
  <2>3. OnlyAt(File, f) /\ target'[f].data = target[f].data
    BY <1>4, <2>1, <2>2, LinkBothEffect DEF ShapeInv
  <2> QED
    BY <1>2, <1>3, <1>4, <2>3, StagingPosition, LoopNames
<1>5. CASE Fail("recovery_conflict")
  BY <1>5, FailPosition
<1> QED
  BY <1>3, <1>4, <1>5 DEF StageDeletionTombstone

LEMMA RecordTemporaryPosition ==
  ASSUME ShapeInv, NEW k \in 0..N, Position(k), RecordTemporary
  PROVE  Position(k)' /\ DataKept
<1>1. command.pc = "record"
  BY DEF RecordTemporary, At
<1>2. command.pc \in LoopPc
  BY <1>1, LoopNames
<1>3. PICK f \in File : f = command.f
  BY <1>2, CurrentFile
<1> DEFINE side == IF Exists(After(f)) THEN "after" ELSE "before"
           j == [memory EXCEPT !.temporary[f] = [side |-> side, state |-> temporary[f]]]
<1>4. CASE /\ Save(j) /\ Goto("publish", f)
           /\ UNCHANGED <<disk, backup, binding, last, phase>>
  <2> HIDE DEF side
  <2>1. JournalOK(j)
    BY <1>4, RecordTemporaryShape DEF ShapeInv, StoreOK, Goto, Save, j
  <2>2. j.files = memory.files
    BY <1>2, LoopFacts DEF JournalOK, FullJournal
  <2> HIDE DEF j
  <2>3. FilesKept /\ DataKept
    BY <1>2, <1>4, <2>1, <2>2, SaveKeepsFiles, DiskKeepsData
  <2> QED
    BY <1>2, <1>3, <1>4, <2>3, LoopKeepsPosition, LoopNames
<1>5. CASE Fail("deletion_tombstone_readback_mismatch")
  BY <1>5, FailPosition
<1> QED
  BY <1>3, <1>4, <1>5 DEF RecordTemporary

LEMMA SecondComparePosition ==
  ASSUME ShapeInv, NEW k \in 0..N, Position(k), SecondCompare
  PROVE  Position(k)' /\ DataKept
<1>1. command.pc = "publish"
  BY DEF SecondCompare, At
<1>2. command.pc \in LoopPc
  BY <1>1, LoopNames
<1>3. PICK f \in File : f = command.f
  BY <1>2, CurrentFile
<1>4. ASSUME NEW pc \in {"confirm", "commit"}, Goto(pc, f), KeepsJournal,
             UNCHANGED <<disk, last, phase>>,
             pc = "confirm" => k >= f, pc = "commit" => k = f - 1
      PROVE  Position(k)' /\ DataKept
  <2>1. FilesKept /\ DataKept /\ UNCHANGED <<phase, binding>>
    BY <1>2, <1>4, MemoryKeepsFiles, DiskKeepsData DEF KeepsJournal
  <2>2. pc \in LoopPc
    BY LoopNames
  <2> QED
    BY <1>2, <1>3, <1>4, <2>1, <2>2, LoopKeepsPosition
<1>5. CASE Fail("recovery_conflict")
  BY <1>5, FailPosition
<1>6. /\ Disposition(f) = "after" => k >= f
      /\ Disposition(f) = "before" => k = f - 1
  BY <1>2, <1>3, LoopAt
<1> QED
  BY <1>3, <1>4, <1>5, <1>6 DEF SecondCompare

\* The next file changes side.
Advances(k) ==
  /\ k < N /\ phase = "open" /\ phase' = "open"
  /\ k + 1 \in 0..N /\ Position(k + 1)'

LEMMA PublishFilePosition ==
  ASSUME ShapeInv, NEW k \in 0..N, Position(k), PublishFile
  PROVE  (Position(k)' /\ DataKept) \/ Advances(k)
<1>1. command.pc = "commit"
  BY DEF PublishFile, At
<1>2. command.pc \in LoopPc
  BY <1>1, LoopNames
<1>3. PICK f \in File : f = command.f
  BY <1>2, CurrentFile
<1>4. CASE Fail("destination_collision")
  BY <1>4, FailPosition
<1>5. CASE /\ OnlyAt(File, f) /\ target'[f].data = After(f).data
           /\ \E pc \in {"confirm", "unlink temporary"} : Goto(pc, f)
           /\ KeepsJournal /\ UNCHANGED <<last, phase>>
  <2>1. k = f - 1 /\ PrefixOnDisk(k)
    BY <1>1, <1>3 DEF Position, CommandPosition
  <2>2. k \in Nat /\ N \in Nat /\ f \in Nat /\ f \in 0..N /\ f <= N
    BY FileFacts, KindFacts
  <2>3. f = k + 1 /\ k < N
    BY <2>1, <2>2
  <2>4. phase = "open" /\ Active # NoJournal
    BY <1>2, <1>3, LoopAt
  <2>5. PrefixOnDisk(f)'
    <3>1. ASSUME NEW g \in File PROVE g <= f <=> target'[g].data = After(g).data
      <4>1. g \in Nat
        BY FileFacts
      <4>2. CASE g = f
        <5>1. f <= f
          BY <2>2
        <5>2. target'[f].data = After(f).data
          BY <1>5
        <5> QED
          BY <4>2, <5>1, <5>2
      <4>3. CASE g # f
        <5>1. g <= f <=> g <= k
          BY <2>2, <2>3, <4>1, <4>3
        <5>2. target'[g] = target[g]
          BY <1>5, <4>3 DEF OnlyAt
        <5> QED
          BY <2>1, <5>1, <5>2 DEF PrefixOnDisk
      <4> QED
        BY <4>2, <4>3
    <3>2. Exists(target'[ConfigFile])
      <4>1. CASE f = ConfigFile
        BY <1>5, <4>1, KindFacts, AfterFacts DEF Exists
      <4>2. CASE f # ConfigFile
        BY <1>5, <2>1, <4>2, KindFacts DEF OnlyAt, PrefixOnDisk
      <4> QED
        BY <4>1, <4>2
    <3> QED
      BY <3>1, <3>2 DEF PrefixOnDisk, After, Exists
  <2>6. FilesKept
    BY <1>2, <1>5, MemoryKeepsFiles DEF KeepsJournal
  <2>7. JournalPosition(f)'
    <3>1. phase' = "open"
      BY <1>5, <2>4
    <3> QED
      BY <2>6, <3>1 DEF Position, JournalPosition, FilesKept
  <2>8. CommandPosition(f)'
    <3>1. command'.pc \in {"confirm", "unlink temporary"} /\ command'.f = f
      BY <1>5, GotoFacts
    <3>2. f >= f - 1 /\ f >= f
      BY <2>2
    <3> QED
      BY <3>1, <3>2 DEF CommandPosition, LoopPc, EndPc, EarlyPc
  <2>9. k + 1 \in 0..N /\ Position(k + 1)'
    BY <2>2, <2>3, <2>5, <2>7, <2>8 DEF Position
  <2> QED
    BY <1>5, <2>3, <2>4, <2>9 DEF Advances
<1> QED
  <2>1. \/ /\ OnlyAt(File, f) /\ target'[f].data = After(f).data
           /\ Goto("confirm", f) \/ Goto("unlink temporary", f)
           /\ KeepsJournal /\ UNCHANGED <<last, phase>>
        \/ Fail("destination_collision")
    BY <1>3, PublishFileEffect
  <2> QED
    BY <2>1, <1>4, <1>5

LEMMA UnlinkPublishedTemporaryPosition ==
  ASSUME ShapeInv, NEW k \in 0..N, Position(k), UnlinkPublishedTemporary
  PROVE  Position(k)' /\ DataKept
<1>1. command.pc = "unlink temporary" /\ KeepsJournal /\ phase' = phase
  BY DEF UnlinkPublishedTemporary, At, Continues
<1>2. command.pc \in LoopPc
  BY <1>1, LoopNames
<1>3. PICK f \in File : f = command.f
  BY <1>2, CurrentFile
<1>4. UnlinkTemporary(f) /\ Goto("confirm", f)
  BY <1>3 DEF UnlinkPublishedTemporary
<1>5. OnlyAt(File, f) /\ target'[f].data = target[f].data
  BY <1>4, UnlinkTemporaryEffect DEF ShapeInv
<1>6. FilesKept /\ DataKept /\ UNCHANGED <<phase, binding>>
  BY <1>1, <1>2, <1>5, MemoryKeepsFiles, CallKeepsData DEF KeepsJournal
<1>7. k >= f
  BY <1>1, <1>3 DEF Position, CommandPosition
<1> QED
  BY <1>2, <1>3, <1>4, <1>6, <1>7, LoopKeepsPosition, LoopNames

LEMMA RecordEndpointPosition ==
  ASSUME ShapeInv, NEW k \in 0..N, Position(k), RecordEndpoint
  PROVE  Position(k)' /\ DataKept
<1>1. command.pc = "confirm"
  BY DEF RecordEndpoint, At
<1>2. command.pc \in LoopPc
  BY <1>1, LoopNames
<1>3. PICK f \in File : f = command.f
  BY <1>2, CurrentFile
<1> DEFINE j == [memory EXCEPT !.published[f] = target[f]]
<1>4. CASE /\ DesiredEndpointReached(Change(f), target[f], temporary[f], "after")
           /\ Save(j) /\ EnterFrom(f + 1)
           /\ UNCHANGED <<disk, backup, binding, last, phase>>
  <2>1. target[f].data = After(f).data /\ target[f] \in OnDisk
    BY <1>2, <1>3, <1>4, AtSide, ReadFacts
  <2>2. JournalOK(j) /\ j.files = memory.files
    BY <1>2, <1>3, <2>1, LoopFacts, PublishedSaved
  <2> HIDE DEF j
  <2>3. FilesKept /\ DataKept /\ memory'.files = memory.files /\ memory' # NoJournal
    BY <1>2, <1>4, <2>2, SaveKeepsFiles, DiskKeepsData
  <2>4. k >= f
    BY <1>2, <1>3, <1>4, LoopAt
  <2> QED
    BY <1>2, <1>4, <2>3, <2>4, LoopMovesPosition
<1>5. CASE Fail("post_commit_mismatch")
  BY <1>5, FailPosition
<1> QED
  BY <1>3, <1>4, <1>5 DEF RecordEndpoint
-----------------------------------------------------------------------------
\* Behind the loop: every file is at its new side, and the binding goes.
LEMMA EndPosition ==
  ASSUME ShapeInv, command.pc \in EndPc, NEW k \in 0..N, Position(k), DataKept,
         memory' = memory, phase' = phase, NEW pc \in EndPc, NEW g, Goto(pc, g),
         pc \in {"marker", "cleanup", "remove pending", "unlink pending"} =>
           binding'.record = "absent",
         pc \in {"cleanup", "remove pending", "unlink pending"} => binding'.marker = "none"
  PROVE  Position(k)' /\ DataKept
<1>1. k = N /\ phase = "open"
  BY LateFacts DEF Position, CommandPosition
<1>2. command'.pc = pc
  BY GotoFacts
<1>3. CommandPosition(k)'
  BY <1>1, <1>2 DEF CommandPosition, LoopPc, EndPc, EarlyPc
<1>4. FilesKept
  BY MemoryKeepsFiles
<1> QED
  BY <1>1, <1>3, <1>4, OpenPositionKept

LEMMA ValidateContextPosition ==
  ASSUME ShapeInv, NEW k \in 0..N, Position(k), ValidateContext
  PROVE  Position(k)' /\ DataKept
<1>1. command.pc \in EndPc
  BY EndNames DEF ValidateContext, At
<1>2. CASE Goto("final", 0) /\ KeepsJournal /\ UNCHANGED <<disk, last, phase>>
  BY <1>1, <1>2, EndPosition, EndNames, DiskKeepsData DEF KeepsJournal
<1> QED
  BY <1>2, FailPosition DEF ValidateContext

LEMMA CheckFinalFilesPosition ==
  ASSUME ShapeInv, NEW k \in 0..N, Position(k), CheckFinalFiles
  PROVE  Position(k)' /\ DataKept
<1>1. command.pc \in EndPc
  BY EndNames DEF CheckFinalFiles, At
<1>2. CASE Goto("binding", 0) /\ KeepsJournal /\ UNCHANGED <<disk, last, phase>>
  BY <1>1, <1>2, EndPosition, EndNames, DiskKeepsData DEF KeepsJournal
<1> QED
  BY <1>2, FailPosition DEF CheckFinalFiles

LEMMA RetireBindingPosition ==
  ASSUME ShapeInv, NEW k \in 0..N, Position(k), RetireBinding
  PROVE  Position(k)' /\ DataKept
<1>1. command.pc \in EndPc
  BY EndNames DEF RetireBinding, At
<1>2. CASE Fail("retirement_blocked")
  BY <1>2, FailPosition
<1>3. CASE /\ binding.record = "absent" /\ Goto("marker", 0)
           /\ KeepsJournal /\ UNCHANGED <<disk, last, phase>>
  BY <1>1, <1>3, EndPosition, EndNames, DiskKeepsData DEF KeepsJournal
<1>4. CASE /\ Goto("unlink record", 0)
           /\ UNCHANGED <<disk, memory, pending, backup, last, phase>>
  BY <1>1, <1>4, EndPosition, EndNames, DiskKeepsData
<1> QED
  BY <1>2, <1>3, <1>4 DEF RetireBinding

LEMMA CompareRecordPosition ==
  ASSUME ShapeInv, NEW k \in 0..N, Position(k), CompareRecord
  PROVE  Position(k)' /\ DataKept
<1>1. command.pc \in EndPc
  BY EndNames DEF CompareRecord, At
<1>2. CASE Goto("remove record", 0) /\ KeepsJournal /\ UNCHANGED <<disk, last, phase>>
  BY <1>1, <1>2, EndPosition, EndNames, DiskKeepsData DEF KeepsJournal
<1> QED
  BY <1>2, FailPosition DEF CompareRecord

LEMMA RemoveRecordPosition ==
  ASSUME ShapeInv, NEW k \in 0..N, Position(k), RemoveRecord
  PROVE  Position(k)' /\ DataKept
<1>1. /\ command.pc \in EndPc /\ UNCHANGED <<disk, pending, backup, phase>>
      /\ binding' = [binding EXCEPT !.record = "absent"]
  BY EndNames DEF RemoveRecord, At
<1>2. CASE Goto("marker", 0) /\ UNCHANGED <<memory, last>>
  <2>1. binding'.record = "absent"
    BY <1>1 DEF ShapeInv, HistoryOK
  <2> QED
    BY <1>1, <1>2, <2>1, EndPosition, EndNames, DiskKeepsData
<1>3. CASE Ended("post_commit_identity_mismatch")
  <2>1. command'.pc = "idle" /\ memory' = NoJournal
    BY <1>3, IdleFields DEF Ended
  <2>2. DataKept /\ FilesKept /\ CommandPosition(k)'
    BY <1>1, <2>1, EndsEntries, EntriesKeepFiles, IdlePosition, DiskKeepsData DEF EarlyPc
  <2>3. phase = "open" /\ phase' = "open"
    BY <1>1, LateFacts
  <2> QED
    BY <2>2, <2>3, OpenPositionKept
<1> QED
  BY <1>2, <1>3 DEF RemoveRecord

LEMMA UnsetMarkerPosition ==
  ASSUME ShapeInv, NEW k \in 0..N, Position(k), UnsetMarker
  PROVE  Position(k)' /\ DataKept
<1>1. /\ command.pc = "marker" /\ binding' = [binding EXCEPT !.marker = "none"]
      /\ Goto("cleanup", 1) /\ UNCHANGED <<disk, memory, phase>>
  BY DEF UnsetMarker, At, Continues
<1>2. binding.record = "absent"
  BY <1>1 DEF Position, CommandPosition
<1>3. binding'.record = "absent" /\ binding'.marker = "none"
  BY <1>1, <1>2 DEF ShapeInv, HistoryOK
<1> QED
  BY <1>1, <1>3, EndPosition, EndNames, DiskKeepsData

\* Where the binding is retired already.
LEMMA RetiredFacts ==
  ASSUME NEW k, Position(k), command.pc \in {"cleanup", "remove pending", "unlink pending"}
  PROVE  binding.record = "absent" /\ binding.marker = "none"
BY DEF Position, CommandPosition

LEMMA CleanupTemporaryPosition ==
  ASSUME ShapeInv, NEW k \in 0..N, Position(k), CleanupTemporary
  PROVE  Position(k)' /\ DataKept
<1>1. command.pc = "cleanup"
  BY DEF CleanupTemporary, At
<1>2. CASE Fail("temporary_identity_changed")
  BY <1>2, FailPosition
<1>3. ASSUME NEW f \in File,
             IF f = N THEN Goto("remove pending", 0) ELSE Goto("cleanup", f + 1),
             KeepsJournal, UNCHANGED <<last, phase>>,
             \/ OnlyAt(File, f) /\ target'[f].data = target[f].data
             \/ UNCHANGED disk
      PROVE  Position(k)' /\ DataKept
  <2>1. DataKept
    BY <1>3, CallKeepsData, DiskKeepsData
  <2>2. \E pc \in {"remove pending", "cleanup"} : \E g : Goto(pc, g)
    BY <1>3
  <2>3. memory' = memory /\ phase' = phase /\ binding' = binding /\ command.pc \in EndPc
    BY <1>1, <1>3, EndNames DEF KeepsJournal
  <2>4. binding'.record = "absent" /\ binding'.marker = "none"
    BY <1>1, <2>3, RetiredFacts
  <2> QED
    BY <2>1, <2>2, <2>3, <2>4, EndPosition, EndNames
<1> QED
  BY <1>2, <1>3, CleanupEffect

LEMMA LinkPendingTombstonePosition ==
  ASSUME ShapeInv, NEW k \in 0..N, Position(k), LinkPendingTombstone
  PROVE  Position(k)' /\ DataKept
<1>1. /\ command.pc = "remove pending" /\ Goto("unlink pending", 0)
      /\ UNCHANGED <<disk, memory, phase, binding>>
  BY DEF LinkPendingTombstone, At, Continues
<1>2. binding.record = "absent" /\ binding.marker = "none"
  BY <1>1, RetiredFacts
<1> QED
  BY <1>1, <1>2, EndPosition, EndNames, DiskKeepsData

\* The migration is over only when all of it is done.
LEMMA UnlinkPendingPosition ==
  ASSUME ShapeInv, NEW k \in 0..N, Position(k), UnlinkPending
  PROVE  /\ Position(k)' /\ DataKept
         /\ k = N /\ phase = "open" /\ phase' = "completed"
<1>1. /\ command.pc = "unlink pending" /\ pending' = NoPending /\ phase' = "completed"
      /\ command' = Idle /\ memory' = NoJournal /\ UNCHANGED <<disk, binding>>
  BY DEF UnlinkPending, At, Ended
<1>2. command.pc \in EndPc
  BY <1>1, EndNames
<1>3. k = N /\ phase = "open"
  BY <1>2, LateFacts DEF Position, CommandPosition
<1>4. binding = [record |-> "absent", marker |-> "none"]
  <2>1. binding.record = "absent" /\ binding.marker = "none"
    BY <1>1, RetiredFacts
  <2> QED
    BY <2>1 DEF ShapeInv, HistoryOK
<1>5. Active' = NoJournal
  BY <1>1, NoPendingFields DEF Active
<1>6. command'.pc = "idle"
  BY <1>1, IdleFields
<1>7. CommandPosition(k)' /\ DataKept
  BY <1>1, <1>6, IdlePosition, DiskKeepsData DEF EarlyPc
<1> QED
  BY <1>1, <1>3, <1>4, <1>5, <1>7, PrefixKept DEF Position, JournalPosition

LEMMA CrashPosition ==
  ASSUME ShapeInv, NEW k \in 0..N, Position(k), Crash
  PROVE  Position(k)' /\ DataKept
<1>1. /\ command' = Idle /\ memory' = NoJournal /\ UNCHANGED <<disk, pending, phase, binding>>
  BY DEF Crash, Ended
<1>2. command'.pc = "idle"
  BY <1>1, IdleFields
<1>3. DataKept /\ FilesKept /\ CommandPosition(k)'
  BY <1>1, <1>2, EndsEntries, EntriesKeepFiles, IdlePosition, DiskKeepsData DEF EarlyPc
<1> QED
  BY <1>1, <1>3, PositionKept
-----------------------------------------------------------------------------
(***************************************************************************)
(* The start.                                                              *)
(***************************************************************************)
LEMMA WriteBackupPosition ==
  ASSUME ShapeInv, NEW k \in 0..N, Position(k), WriteBackup
  PROVE  Position(k)' /\ DataKept
<1>1. /\ command.pc \in EarlyPc /\ Goto("pending", 0) /\ memory' = memory
      /\ UNCHANGED <<disk, phase, binding>>
  BY DEF WriteBackup, At, Continues, EarlyPc
<1>2. command'.pc = "pending"
  BY <1>1, GotoFacts
<1>3. CommandPosition(k)'
  <2>1. k = 0
    BY <1>1 DEF Position, CommandPosition
  <2> QED
    BY <1>2, <2>1, IdlePosition DEF EarlyPc
<1>4. FilesKept /\ DataKept
  BY <1>1, MemoryKeepsFiles, DiskKeepsData
<1> QED
  BY <1>1, <1>3, <1>4, PositionKept

LEMMA LinkPendingPosition ==
  ASSUME ShapeInv, NEW k \in 0..N, Position(k), LinkPending
  PROVE  Position(k)' /\ DataKept /\ phase' = "open"
<1>1. /\ command.pc \in EarlyPc /\ Goto("unlink pending temporary", 0) /\ memory' = memory
      /\ phase' = "open" /\ UNCHANGED <<disk, binding>>
  BY DEF LinkPending, At, EarlyPc
<1>2. command'.pc = "unlink pending temporary"
  BY <1>1, GotoFacts
<1>3. CommandPosition(k)'
  BY <1>2, IdlePosition DEF EarlyPc
<1>4. FilesKept /\ DataKept
  BY <1>1, MemoryKeepsFiles, DiskKeepsData
<1> QED
  BY <1>1, <1>3, <1>4, PrefixKept DEF Position, JournalPosition, FilesKept

LEMMA UnlinkPendingTemporaryPosition ==
  ASSUME ShapeInv, NEW k \in 0..N, Position(k), UnlinkPendingTemporary
  PROVE  Position(k)' /\ DataKept
<1>1. /\ command.pc = "unlink pending temporary" /\ memory' = memory /\ EnterFrom(1)
      /\ UNCHANGED <<disk, phase, binding>>
  BY DEF UnlinkPendingTemporary, At, Continues
<1>2. memory'.files = File
  BY <1>1, ActiveFacts DEF Position, JournalPosition
<1>3. 0 \in 0..N /\ k >= 0 /\ 0 + 1 = 1
  BY FileFacts
<1>4. CommandPosition(k)'
  BY <1>1, <1>2, <1>3, EnterPosition
<1>5. FilesKept /\ DataKept
  BY <1>1, MemoryKeepsFiles, DiskKeepsData
<1> QED
  BY <1>1, <1>4, <1>5, PositionKept

\* A step that neither works nor edits.
LEMMA IdleStepPosition ==
  ASSUME ShapeInv, NEW k \in 0..N, Position(k),
         UNCHANGED <<disk, memory, pending, command, phase, binding>>
  PROVE  Position(k)' /\ DataKept
<1>1. Active' = Active
  BY DEF Active
<1>2. FilesKept /\ DataKept
  BY <1>1, DiskKeepsData DEF FilesKept
<1>3. CommandPosition(k)'
  BY DEF Position, CommandPosition
<1> QED
  BY <1>2, <1>3, PositionKept

\* A new upgrade starts at a workspace of schema 4, of which nothing is migrated.
LEMMA StartPosition ==
  ASSUME ShapeInv, NEW k \in 0..N, Position(k), NEW stopped \in BOOLEAN, Start(stopped)
  PROVE  Position(k)' /\ DataKept /\ phase' = phase
<1>1. command = Idle /\ command.pc = "idle"
  BY StartCases, IdleFields
<1>2. CASE \E reason : Refuse(reason)
  BY <1>2, IdleStepPosition DEF Refuse
<1>3. CASE /\ PendingExists
           /\ memory' = pending.journal /\ EnterFrom(1)
           /\ UNCHANGED <<disk, pending, backup, binding, others, phase, last, faults>>
  <2>1. JournalOK(pending.journal) /\ pending.journal # NoJournal
    BY <1>3, PendingFacts, JournalFacts DEF ShapeInv, StoreOK
  <2>2. Active = pending.journal
    BY <1>1, ActiveFacts
  <2>3. memory'.files = File
    BY <1>3, <2>1, <2>2 DEF Position, JournalPosition
  <2>4. Active' = pending.journal
    BY <1>3, <2>1 DEF Active
  <2>5. FilesKept /\ DataKept
    BY <1>3, <2>1, <2>2, <2>4, DiskKeepsData DEF FilesKept
  <2>6. 0 \in 0..N /\ k >= 0 /\ 0 + 1 = 1
    BY FileFacts
  <2>7. CommandPosition(k)'
    BY <1>3, <2>3, <2>6, EnterPosition
  <2> QED
    BY <1>3, <2>5, <2>7, PositionKept
<1>4. CASE /\ ~PendingExists /\ RawSchemaVersion = "4" /\ ~PlanBlocked
           /\ memory' = CreateJournal /\ Goto("backup", 0)
           /\ UNCHANGED <<disk, pending, binding, phase>>
  <2>1. k # N
    <3>1. target[ConfigFile].data = "old"
      BY <1>4 DEF RawSchemaVersion
    <3>2. target[ConfigFile].data # After(ConfigFile).data /\ ConfigFile \in File
      BY <3>1, KindFacts, AfterFacts
    <3>3. ConfigFile > k /\ ConfigFile <= N /\ k \in Nat /\ ConfigFile \in Nat
      BY <3>2, PrefixFacts DEF Position
    <3> QED
      BY <3>3
  <2>2. k = 0
    <3>1. phase \in {"planned", "completed"}
      BY <1>4, PendingFacts DEF ShapeInv, StoreOK
    <3> QED
      BY <2>1, <3>1 DEF Position, JournalPosition
  <2>3. CreateJournal.files = File
    <3>1. ASSUME NEW f \in File PROVE target[f].data # After(f).data
      BY <2>2, FileFacts DEF Position, PrefixOnDisk
    <3>2. CreateJournal.files = Changed(target)
      BY <1>4, CreateJournalOK
    <3> QED
      BY <3>1, <3>2 DEF Changed
  <2>4. Active' = CreateJournal
    BY <1>4, CreateJournalOK, JournalFacts DEF Active
  <2>5. command'.pc = "backup"
    BY <1>4, GotoFacts
  <2>6. CommandPosition(k)' /\ DataKept
    BY <1>4, <2>2, <2>5, IdlePosition, DiskKeepsData DEF EarlyPc
  <2>7. JournalPosition(k)'
    BY <1>4, <2>3, <2>4 DEF Position, JournalPosition
  <2> QED
    BY <1>4, <2>6, <2>7, PrefixKept DEF Position
<1>5. phase' = phase
  BY StartCases DEF Refuse
<1> QED
  BY <1>2, <1>3, <1>4, <1>5, StartCases

\* Every step of an upgrade: no file changes side, or the next one does.
LEMMA StepPosition ==
  ASSUME ShapeInv, NEW k \in 0..N, Position(k), Step \/ Crash
  PROVE  (Position(k)' /\ DataKept) \/ Advances(k)
BY WriteBackupPosition, LinkPendingPosition, UnlinkPendingTemporaryPosition,
   ReconcilePosition, CompareFilePosition, OpenTemporaryPosition,
   WriteTemporaryPosition, StageDeletionTombstonePosition, RecordTemporaryPosition,
   SecondComparePosition, PublishFilePosition, UnlinkPublishedTemporaryPosition,
   RecordEndpointPosition, ValidateContextPosition, CheckFinalFilesPosition,
   RetireBindingPosition, CompareRecordPosition, RemoveRecordPosition, UnsetMarkerPosition,
   CleanupTemporaryPosition, LinkPendingTombstonePosition, UnlinkPendingPosition,
   CrashPosition
DEF Step

LEMMA StartKeepsEdits ==
  ASSUME NEW stopped \in BOOLEAN, Start(stopped)
  PROVE  edits' = edits
BY StartCases DEF Refuse, others

\* Edits are counted, and are not taken back.
LEMMA StaysDisturbed ==
  ASSUME ShapeInv, [Next]_vars
  PROVE  /\ Undisturbed' => Undisturbed
         /\ Others /\ Undisturbed' => Settle
<1>1. edits \in Nat
  BY DEF ShapeInv, HistoryOK
<1>2. Edit => edits' # 0
  BY <1>1 DEF Edit
<1>3. Others /\ Undisturbed' => Settle
  BY <1>2 DEF Others, EditFile, WriteRecord, ChangeContext, Undisturbed
<1>4. CASE Step \/ Crash
  <2>1. edits' = edits
    BY <1>4 DEF Step, WriteBackup, LinkPending, UnlinkPendingTemporary,
       ReconcileUnrecordedTemporary, CompareFile, OpenTemporary, WriteTemporary,
       StageDeletionTombstone, RecordTemporary, SecondCompare, PublishFile,
       UnlinkPublishedTemporary, RecordEndpoint, ValidateContext, CheckFinalFiles,
       RetireBinding, CompareRecord, RemoveRecord, UnsetMarker, CleanupTemporary,
       LinkPendingTombstone, UnlinkPending, Crash, Continues, others
  <2> QED
    BY <1>3, <2>1 DEF Undisturbed
<1>5. CASE \E stopped \in BOOLEAN : Start(stopped)
  BY <1>3, <1>5, StartKeepsEdits DEF Undisturbed
<1>6. CASE UNCHANGED vars
  BY <1>3, <1>6 DEF Undisturbed, vars, others
<1>7. CASE Others
  BY <1>3, <1>7 DEF Undisturbed, Settle, SettleTransaction, SettleBlocker
<1> QED
  BY <1>4, <1>5, <1>6, <1>7 DEF Next

LEMMA SettlePosition ==
  ASSUME ShapeInv, NEW k \in 0..N, Position(k), Settle
  PROVE  Position(k)' /\ DataKept /\ phase' = phase
BY IdleStepPosition DEF Settle

LEMMA StutterPosition ==
  ASSUME ShapeInv, NEW k \in 0..N, Position(k), UNCHANGED vars
  PROVE  Position(k)' /\ DataKept /\ phase' = phase
BY IdleStepPosition DEF vars

LEMMA InitPosition == Init => Position(0)
<1> SUFFICES ASSUME Init PROVE Position(0)
  OBVIOUS
<1>1. /\ Active = NoJournal /\ command.pc = "idle" /\ phase = "planned"
      /\ \A f \in File : target[f].data \in {"absent", "old"}
  BY NoPendingFields, IdleFields DEF Init, Active, Absent
<1>2. ASSUME NEW f \in File PROVE target[f].data # After(f).data
  <2>1. Kind[f] = "asset" => target[f].data = "old"
    BY DEF Init
  <2> QED
    BY <1>1, <2>1, AfterFacts
<1>3. PrefixOnDisk(0)
  <2>1. Exists(target[ConfigFile])
    BY KindFacts DEF Init, Exists
  <2> QED
    BY <1>2, <2>1, FileFacts DEF PrefixOnDisk
<1> QED
  BY <1>1, <1>3 DEF Position, JournalPosition, CommandPosition, LoopPc, EndPc, EarlyPc

LEMMA NextPosition == ShapeInv /\ PositionInv /\ [Next]_vars => PositionInv'
<1> SUFFICES ASSUME ShapeInv, PositionInv, [Next]_vars, Undisturbed'
             PROVE  \E k \in 0..N : Position(k)'
  BY DEF PositionInv
<1>1. PICK k \in 0..N : Position(k)
  BY StaysDisturbed DEF PositionInv
<1>2. CASE Step \/ Crash
  BY <1>1, <1>2, StepPosition DEF Advances
<1>3. CASE \E stopped \in BOOLEAN : Start(stopped)
  BY <1>1, <1>3, StartPosition
<1>4. CASE Settle
  BY <1>1, <1>4, SettlePosition
<1>5. CASE UNCHANGED vars
  BY <1>1, <1>5, StutterPosition
<1> QED
  BY <1>2, <1>3, <1>4, <1>5, StaysDisturbed DEF Next

LEMMA PositionInvariant == Spec => [](ShapeInv /\ PositionInv)
<1>1. Init => PositionInv
  <2>1. 0 \in 0..N
    BY FileFacts
  <2> QED
    BY <2>1, InitPosition DEF PositionInv
<1> QED
  BY <1>1, InitShape, NextShape, NextPosition, PTL DEF Spec

\* While nobody edits the files, an ordinary command that the guard lets in finds
\* the whole migration done, wherever upgrades crashed (schema-guard.ts; "ordinary
\* sync refuses unfinished publication", README.md:163).
THEOREM GuardSeesWholeMigration == Spec => []OrdinaryCommandsSeeWholeMigration
<1>1. ShapeInv /\ PositionInv => OrdinaryCommandsSeeWholeMigration
  <2> SUFFICES ASSUME ShapeInv, PositionInv, Undisturbed, OrdinaryCommandAllowed
               PROVE  /\ Migrated
                      /\ \A f \in File : ~Exists(temporary[f])
                      /\ binding = [record |-> "absent", marker |-> "none"]
    BY DEF OrdinaryCommandsSeeWholeMigration
  <2>1. PICK k \in 0..N : Position(k)
    BY DEF PositionInv
  <2>2. pending.links = 0 /\ RawSchemaVersion \in {"5", "undefined"}
    BY PendingFacts DEF OrdinaryCommandAllowed
  <2>3. phase \in {"planned", "completed"}
    BY <2>2 DEF ShapeInv, StoreOK
  <2>4. k # 0
    <3>1. Exists(target[ConfigFile])
      BY <2>1 DEF Position, PrefixOnDisk
    <3>2. target[ConfigFile].data = "new"
      BY <2>2, <3>1 DEF RawSchemaVersion
    <3>3. target[ConfigFile].data = After(ConfigFile).data /\ ConfigFile \in File
      BY <3>2, KindFacts DEF After, PlannedNew
    <3> QED
      BY <2>1, <3>3, PrefixFacts DEF Position
  <2>5. phase = "completed" /\ k = N
    BY <2>1, <2>3, <2>4 DEF Position, JournalPosition
  <2>6. binding = [record |-> "absent", marker |-> "none"]
    BY <2>1, <2>5 DEF Position, JournalPosition
  <2>7. Migrated
    BY <2>1, <2>5, FileFacts DEF Position, PrefixOnDisk, Migrated
  <2>8. \A f \in File : ~Exists(temporary[f])
    BY <2>2, AbsentOnDisk DEF ShapeInv, TemporariesOfJournal
  <2> QED
    BY <2>6, <2>7, <2>8
<1> QED
  BY <1>1, PositionInvariant, PTL

\* The unlink of the record is entered from its compare alone.
LEMMA RemoveRecordIsEntered ==
  ASSUME Step, command'.pc = "remove record"
  PROVE  CompareRecord
<1>1. ASSUME NEW pc, NEW f, Goto(pc, f) PROVE pc = "remove record"
  BY <1>1, GotoFacts
<1>2. ~Ended("ok") /\ \A reason : ~Fail(reason) /\ ~Ended(reason)
  BY IdleFields DEF Fail, Ended
<1>3. \A f : ~EnterFrom(f)
  BY <1>1 DEF EnterFrom
<1>4. ~(WriteBackup \/ LinkPending \/ UnlinkPendingTemporary \/ UnlinkPending)
  BY <1>1, <1>2, <1>3 DEF WriteBackup, LinkPending, UnlinkPendingTemporary, UnlinkPending
<1>5. ~ReconcileUnrecordedTemporary
  BY <1>1, <1>2 DEF ReconcileUnrecordedTemporary
<1>6. ~CompareFile
  BY <1>1, <1>2, <1>3 DEF CompareFile
<1>7. ~(OpenTemporary \/ WriteTemporary \/ StageDeletionTombstone \/ RecordTemporary)
  BY <1>1, <1>2 DEF OpenTemporary, WriteTemporary, StageDeletionTombstone, RecordTemporary
<1>8. ~(SecondCompare \/ PublishFile \/ UnlinkPublishedTemporary \/ RecordEndpoint)
  BY <1>1, <1>2, <1>3 DEF SecondCompare, PublishFile, UnlinkPublishedTemporary,
     RecordEndpoint
<1>9. ~(ValidateContext \/ CheckFinalFiles \/ RetireBinding \/ RemoveRecord
        \/ UnsetMarker \/ CleanupTemporary \/ LinkPendingTombstone)
  BY <1>1, <1>2 DEF ValidateContext, CheckFinalFiles, RetireBinding, RemoveRecord,
     UnsetMarker, CleanupTemporary, LinkPendingTombstone
<1> QED
  BY <1>4, <1>5, <1>6, <1>7, <1>8, <1>9 DEF Step

\* The record that is about to be unlinked is the one that was compared, or it
\* was written since.
LateInv ==
  At("remove record") => binding.record = "linked" \/ (binding.record = "changed" /\ late)

LEMMA NextLate == ShapeInv /\ LateInv /\ [Next]_vars => LateInv'
<1> SUFFICES ASSUME ShapeInv, LateInv, [Next]_vars, command'.pc = "remove record"
             PROVE  binding'.record = "linked" \/ (binding'.record = "changed" /\ late')
  BY DEF LateInv, At
<1>1. CASE Step
  <2>1. CompareRecord
    BY <1>1, RemoveRecordIsEntered
  <2>2. ~Fail("deletion_tombstone_identity_changed")
    BY IdleFields DEF Fail, Ended
  <2> QED
    BY <2>1, <2>2 DEF CompareRecord, KeepsJournal
<1>2. CASE Crash
  BY <1>2, IdleFields DEF Crash, Ended
<1>3. CASE \E stopped \in BOOLEAN : Start(stopped)
  <2>1. command.pc = "idle"
    <3>1. PICK stopped \in BOOLEAN : Start(stopped)
      BY <1>3
    <3> QED
      BY <3>1, StartCases, IdleFields
  <2>2. ASSUME NEW pc, NEW g, Goto(pc, g) PROVE pc = "remove record"
    BY <2>2, GotoFacts
  <2>3. \A f : ~EnterFrom(f)
    BY <2>2 DEF EnterFrom
  <2>4. ~Goto("backup", 0)
    BY <2>2
  <2>5. ASSUME NEW reason, Refuse(reason) PROVE FALSE
    BY <2>1, <2>5 DEF Refuse
  <2> QED
    <3>1. PICK stopped \in BOOLEAN : Start(stopped)
      BY <1>3
    <3> QED
      BY <3>1, <2>3, <2>4, <2>5, StartCases
<1>4. CASE Settle \/ UNCHANGED vars
  BY <1>4 DEF Settle, SettleTransaction, SettleBlocker, vars, others, LateInv, At
<1>5. CASE WriteRecord
  BY <1>5 DEF WriteRecord, Edit, At, ShapeInv, HistoryOK
<1>6. CASE ChangeContext \/ \E f \in File : EditFile(f)
  BY <1>6 DEF ChangeContext, EditFile, Edit, LateInv, At
<1> QED
  BY <1>1, <1>2, <1>3, <1>4, <1>5, <1>6 DEF Next, Others

\* A record that an old session wrote after the plan is not removed, but between the
\* last compare and the unlink, and while nobody edits the files the binding goes
\* only when every file is at its new side (retireOwnBinding, retirement-binding.ts;
\* retirement-runner.ts:157-163; mutation-cas.ts:229-241).
THEOREM BindingIsRetiredLast == Spec => BindingGoesLast
<1>1. ShapeInv /\ PositionInv /\ LateInv /\ [Next]_vars
        => [binding' # binding /\ edits' = edits =>
              /\ binding.record = "changed" /\ ~(late /\ At("remove record"))
                   => binding'.record = "changed"
              /\ Undisturbed => Migrated]_vars
  <2> SUFFICES ASSUME ShapeInv, PositionInv, LateInv, [Next]_vars, binding' # binding,
                      edits' = edits
               PROVE  /\ binding.record = "changed" /\ ~(late /\ At("remove record"))
                           => binding'.record = "changed"
                      /\ Undisturbed => Migrated
    OBVIOUS
  <2>1. RetireBinding \/ RemoveRecord \/ UnsetMarker
    <3>1. ~Edit
      BY DEF Edit, ShapeInv, HistoryOK
    <3>2. ~Others
      BY <3>1 DEF Others, Settle, EditFile, WriteRecord, ChangeContext
    <3>3. \A stopped \in BOOLEAN : ~Start(stopped)
      BY StartCases DEF Refuse
    <3>4. ~Crash /\ ~UNCHANGED vars
      BY DEF Crash, vars
    <3>5. Step
      BY <3>2, <3>3, <3>4 DEF Next
    <3> QED
      BY <3>5 DEF Step, WriteBackup, LinkPending, UnlinkPendingTemporary,
         ReconcileUnrecordedTemporary, CompareFile, OpenTemporary, WriteTemporary,
         StageDeletionTombstone, RecordTemporary, SecondCompare, PublishFile,
         UnlinkPublishedTemporary, RecordEndpoint, ValidateContext, CheckFinalFiles,
         CompareRecord, CleanupTemporary, LinkPendingTombstone, UnlinkPending,
         Continues, Fail, KeepsJournal
  <2>2. command.pc \in EndPc
    BY <2>1, EndNames DEF RetireBinding, RemoveRecord, UnsetMarker, At
  <2>3. Undisturbed => Migrated
    <3> SUFFICES ASSUME Undisturbed PROVE Migrated
      OBVIOUS
    <3>1. PICK k \in 0..N : Position(k)
      BY DEF PositionInv
    <3>2. k = N
      BY <2>2, <3>1 DEF Position, CommandPosition
    <3> QED
      BY <3>1, <3>2, FileFacts DEF Position, PrefixOnDisk, Migrated
  <2>4. binding.record = "changed" /\ ~(late /\ At("remove record"))
          => binding'.record = "changed"
    <3>1. memory.record # "changed"
      BY <2>2, LateFacts DEF JournalOK
    <3>2. CASE RetireBinding
      BY <3>1, <3>2 DEF RetireBinding, BindingAsExpected, Fail, KeepsJournal
    <3>3. CASE RemoveRecord
      BY <3>3 DEF RemoveRecord, LateInv
    <3>4. CASE UnsetMarker
      BY <3>4 DEF UnsetMarker, ShapeInv, HistoryOK
    <3> QED
      BY <2>1, <3>2, <3>3, <3>4
  <2> QED
    BY <2>3, <2>4
<1>2. Init => LateInv
  BY IdleFields DEF Init, LateInv, At
<1>3. Spec => []LateInv
  BY <1>2, NextLate, ShapeInvariant, PTL DEF Spec
<1> QED
  BY <1>1, <1>3, PositionInvariant, PTL DEF Spec, BindingGoesLast
-----------------------------------------------------------------------------
(***************************************************************************)
(* The upgrade is the abstract transaction of AtomicMutation.              *)
(***************************************************************************)
\* The files at their new side are as many as the prefix is long.
LEMMA PrefixCount == \A k \in 0..N : PrefixOnDisk(k) => FilesApplied = k
<1> SUFFICES ASSUME NEW k \in 0..N, PrefixOnDisk(k) PROVE FilesApplied = k
  OBVIOUS
<1>1. {f \in File : target[f].data = After(f).data} = 1..k
  BY KindFacts DEF PrefixOnDisk
<1>2. Cardinality(1..k) = k
  <2>1. 1 \in Int /\ k \in Int
    OBVIOUS
  <2>2. Cardinality(1..k) = IF 1 > k THEN 0 ELSE k - 1 + 1
    BY <2>1, FS_Interval
  <2> QED
    BY <2>1, <2>2
<1> QED
  BY <1>1, <1>2 DEF FilesApplied

LEMMA NextPrefixCount == \A k \in 0..N : PrefixOnDisk(k)' => FilesApplied' = k
<1>1. (\A k \in 0..N : PrefixOnDisk(k) => FilesApplied = k)'
  BY PrefixCount, PTL
<1> QED
  BY <1>1

\* The outcome changes when the pending file comes and when it goes.
LEMMA PhaseSteps ==
  ASSUME Step \/ Crash
  PROVE  phase' = phase \/ LinkPending \/ UnlinkPending
BY DEF Step, Crash, WriteBackup, UnlinkPendingTemporary,
   ReconcileUnrecordedTemporary, CompareFile, OpenTemporary, WriteTemporary,
   StageDeletionTombstone, RecordTemporary, SecondCompare, PublishFile,
   UnlinkPublishedTemporary, RecordEndpoint, ValidateContext, CheckFinalFiles,
   RetireBinding, CompareRecord, RemoveRecord, UnsetMarker, CleanupTemporary,
   LinkPendingTombstone, Continues, Fail

LEMMA AtomicStep ==
  ASSUME ShapeInv, PositionInv, [Next]_vars, Undisturbed, Undisturbed'
  PROVE  [Atomic!Open \/ Atomic!Publish \/ Atomic!Complete]_(Atomic!vars)
<1>1. PICK k \in 0..N : Position(k)
  BY DEF PositionInv
<1>2. FilesApplied = k
  BY <1>1, PrefixCount DEF Position
<1>3. ASSUME NEW j \in 0..N, Position(j)' PROVE FilesApplied' = j
  BY <1>3, NextPrefixCount DEF Position
<1>4. k \in Nat /\ N \in Nat
  BY KindFacts
<1>5. CASE (\E stopped \in BOOLEAN : Start(stopped)) \/ Settle \/ UNCHANGED vars
  <2>1. FilesApplied' = FilesApplied /\ phase' = phase
    BY <1>1, <1>2, <1>3, <1>5, StartPosition, SettlePosition, StutterPosition
  <2> QED
    BY <2>1 DEF Atomic!vars
<1>6. CASE UnlinkPending
  <2>1. FilesApplied' = FilesApplied /\ k = N /\ phase = "open" /\ phase' = "completed"
    BY <1>1, <1>2, <1>3, <1>6, UnlinkPendingPosition
  <2> QED
    BY <1>2, <2>1 DEF Atomic!Complete
<1>7. CASE LinkPending
  <2>1. FilesApplied' = FilesApplied /\ phase' = "open"
    BY <1>1, <1>2, <1>3, <1>7, LinkPendingPosition
  <2>2. phase = "planned"
    <3>1. command.pc \in EarlyPc
      BY <1>7 DEF LinkPending, At, EarlyPc
    <3>2. phase \in {"planned", "completed"} /\ N # 0
      BY <3>1, EarlyFacts, KindFacts
    <3>3. k = 0
      BY <1>1, <3>1 DEF Position, CommandPosition
    <3> QED
      BY <1>1, <3>2, <3>3 DEF Position, JournalPosition
  <2> QED
    BY <2>1, <2>2 DEF Atomic!Open
<1>8. CASE Step \/ Crash
  <2>1. CASE Position(k)' /\ DataKept
    <3>1. FilesApplied' = FilesApplied
      BY <1>2, <1>3, <2>1
    <3> QED
      BY <1>6, <1>7, <1>8, <3>1, PhaseSteps DEF Atomic!vars
  <2>2. CASE Advances(k)
    <3>1. FilesApplied' = k + 1 /\ k < N /\ phase = "open" /\ phase' = "open"
      BY <1>3, <2>2 DEF Advances
    <3> QED
      BY <1>2, <3>1 DEF Atomic!Publish
  <2> QED
    BY <1>1, <1>8, <2>1, <2>2, StepPosition
<1> QED
  BY <1>5, <1>8, StaysDisturbed DEF Next

\* While nobody edits its files, an upgrade is an AtomicMutation without a way back,
\* for any files and any number of crashes and resumptions: files reach their new
\* side one at a time while the pending file is there, none returns to its old
\* one, and it is over only when all of them have reached it
\* (runSchema5Retirement, retirement-runner.ts:107-144).
THEOREM UpgradeIsAtomic == Spec /\ []Undisturbed => ImplementsAtomicMutation
<1>1. Init => Atomic!Init
  <2>1. 0 \in 0..N
    BY FileFacts
  <2> QED
    BY <2>1, InitPosition, PrefixCount DEF Init, Position, Atomic!Init
<1>2. ShapeInv /\ PositionInv /\ [Next]_vars /\ Undisturbed /\ Undisturbed'
        => [Atomic!Open \/ Atomic!Publish \/ Atomic!Complete]_(Atomic!vars)
  BY AtomicStep
<1> QED
  BY <1>1, <1>2, PositionInvariant, PTL DEF Spec, ImplementsAtomicMutation, Atomic!ForwardSpec
-----------------------------------------------------------------------------
(***************************************************************************)
(* Upgrades that nobody disturbs.  Resumable says of each file what its    *)
(* entry in the journal says of it, at each point of an upgrade and after  *)
(* a crash there, so that no comparison of the next one is refused.        *)
(***************************************************************************)
Item(f) == Entry(Active, f)
Recorded(f) == Item(f).temporary # NoTemporary
Confirmed(f) == Item(f).published["after"] # Unrecorded

\* The file is as the plan read it, and nothing is recorded of it.
Plain(f) == ~Recorded(f) /\ StandsAt(Item(f), target[f], "before")

\* Its temporary is complete and not recorded yet.
Staged(f) ==
  /\ ~Recorded(f)
  /\ IF Exists(After(f))
     THEN Prepared(f) /\ StandsAt(Item(f), target[f], "before")
     ELSE /\ target[f] = temporary[f] /\ target[f].nlink = 2
          /\ SameFileObject(target[f], Item(f).planned["before"])

\* Its temporary is recorded.
Ready(f) ==
  IF Exists(After(f))
  THEN /\ Recorded(f) /\ temporary[f] = Item(f).temporary.state
       /\ StandsAt(Item(f), target[f], "before")
  ELSE HeldAt(Item(f), target[f], temporary[f], "before")

Waits(f) ==
  /\ ~Confirmed(f)
  /\ Staged(f) \/ Ready(f) \/ (Plain(f) /\ temporary[f] = Absent)

\* The file is at its new side, by means of its temporary or as it was confirmed.
Settled(f) ==
  /\ \/ OwnedTemporaryTransition(Item(f), target[f], temporary[f]) = "after"
     \/ target[f] = Item(f).published["after"] /\ temporary[f] = Absent
  /\ Confirmed(f) /\ ~Exists(After(f)) => target[f] = Item(f).published["after"]

Rests(f) == Waits(f) \/ Settled(f)

\* The file that the loop is at, from point to point.
Handled(f) ==
  /\ At("reconcile") => Rests(f)
  /\ At("compare") => Rests(f) /\ (Recorded(f) \/ temporary[f] = Absent)
  /\ At("stage") \/ At("tombstone") =>
       ~Confirmed(f) /\ Plain(f) /\ temporary[f] = Absent
  /\ At("write") => ~Confirmed(f) /\ Plain(f)
  /\ At("record") => ~Confirmed(f) /\ Staged(f)
  /\ At("publish") \/ At("commit") => ~Confirmed(f) /\ Ready(f)
  /\ At("unlink temporary") \/ At("confirm") => Settled(f)

FilesRest ==
  \A f \in Active.files :
    IF command.pc \in LoopPc /\ command.f = f THEN Handled(f) ELSE Rests(f)

\* The loop has confirmed the files that it has passed.
PassedAreConfirmed ==
  /\ command.pc \in LoopPc =>
       \A f \in Active.files : f < command.f => Confirmed(f)
  /\ command.pc \in EndPc => \A f \in Active.files : Confirmed(f)

\* The plan in the pending file, that no save of its progress changes, is the one
\* in the backup; the file has one name but while it is published or removed.
PlanKept ==
  /\ command.pc \in EarlyPc => ImmutablePlan(memory) = memory
  /\ command.pc = "pending" => backup = memory
  /\ pending.links # 0 =>
       /\ backup # NoJournal /\ ImmutablePlan(pending.journal) = backup
       /\ pending.links = 1
            \/ command.pc \in {"unlink pending temporary", "unlink pending"}

\* The binding is the one of the plan, or what retiring it has left.
BindingKept ==
  /\ Active # NoJournal =>
       /\ binding.marker \in {"none", Active.marker}
       /\ \/ binding.record \in {"absent", Active.record} \ {"linked"}
          \/ binding.record = "linked" /\ command.pc \in RecordPc
  /\ command.pc \in RecordPc => binding.record = "linked"

EndsWell ==
  last \in {"ok", "synced", "crashed", "sessions not stopped", "blocked",
            "unfinished Context transaction"}

Resumable ==
  /\ ~drift /\ EndsWell /\ PlanKept /\ BindingKept
  /\ FilesRest /\ PassedAreConfirmed

ResumeInv == Undisturbed /\ died = {} => Resumable

\* What an entry is like, and the file it is about.
LEMMA ItemFacts ==
  ASSUME ShapeInv, NEW f \in Active.files
  PROVE  /\ f \in File /\ Active # NoJournal /\ JournalOK(Active)
         /\ ChangeOK(Item(f)) /\ Differ(Item(f)) /\ OwnSide(f, Item(f).temporary)
         /\ Item(f).planned["after"] = After(f)
         /\ Item(f).planned["before"] \in OnDisk
         /\ Item(f).published["before"] = Unrecorded
         /\ target[f] \in OnDisk /\ temporary[f] \in OnDisk /\ PairOK(f)
<1>1. Active # NoJournal
  BY DEF NoJournal
<1>2. JournalOK(Active)
  BY <1>1, ActiveFacts
<1>3. f \in File
  BY <1>2 DEF JournalOK, FullJournal
<1>4. EntryOK(Active, f)
  BY <1>2, <1>3 DEF JournalOK
<1>5. /\ ChangeOK(Item(f)) /\ OwnSide(f, Item(f).temporary)
      /\ Item(f).planned["after"] = After(f)
      /\ Item(f).planned["before"] = Active.before[f]
      /\ Item(f).published["before"] = Unrecorded
  BY <1>4, EntryFacts DEF EntryOK, Item
<1>6. Differ(Item(f)) /\ Item(f).planned["before"] \in OnDisk
  BY <1>4, <1>5 DEF EntryOK, Differ
<1>7. target[f] \in OnDisk /\ temporary[f] \in OnDisk /\ PairOK(f)
  BY <1>3, PairAt DEF ShapeInv
<1> QED
  BY <1>1, <1>2, <1>3, <1>5, <1>6, <1>7

\* A recorded temporary, by what becomes of the file.
LEMMA RecordedFacts ==
  ASSUME ShapeInv, NEW f \in Active.files, Recorded(f)
  PROVE  /\ Exists(Item(f).temporary.state)
         /\ Exists(After(f)) =>
              /\ Item(f).temporary.side = "after" /\ Item(f).temporary.state.nlink = 1
              /\ Item(f).temporary.state.data = After(f).data
         /\ ~Exists(After(f)) =>
              Item(f).temporary.side = "before" /\ Item(f).temporary.state.nlink = 2
BY ItemFacts DEF Recorded, OwnSide, ChangeOK, SamePayload

\* What stands at the side of the plan is what the plan read.
LEMMA StandsFacts ==
  ASSUME ShapeInv, NEW f \in Active.files, StandsAt(Item(f), target[f], "before")
  PROVE  /\ target[f].nlink <= 1
         /\ target[f].data = Item(f).planned["before"].data
         /\ Exists(Item(f).planned["before"]) => target[f] = Item(f).planned["before"]
<1>1. SamePayload(target[f], Item(f).planned["before"]) /\ target[f].nlink <= 1
  BY ItemFacts, MatchSound, SideFacts DEF StandsAt
<1>2. target[f] # Unrecorded
  BY ItemFacts DEF OnDisk, Absent, Unrecorded
<1> QED
  BY <1>1, <1>2, ItemFacts DEF StandsAt, MatchesRecordedSide, SamePayload, Exists

\* A file that waits is taken for its old side, unless its temporary is not
\* recorded yet.
LEMMA WaitsBefore ==
  ASSUME ShapeInv, NEW f \in Active.files, Waits(f), Recorded(f) \/ temporary[f] = Absent
  PROVE  /\ MutationChangeDisposition(Item(f), target[f], temporary[f]) = "before"
         /\ ~Recorded(f) => Plain(f)
         /\ Recorded(f) => Ready(f)
<1>1. ~Exists(Absent)
  BY AbsentOnDisk
<1>2. ~(Staged(f) /\ temporary[f] = Absent)
  BY <1>1, AfterFacts, ItemFacts DEF Staged, SameFileObject, Prepared, Exists
<1> DEFINE disposition == MutationChangeDisposition(Item(f), target[f], temporary[f])
<1>3. StandsAt(Item(f), target[f], "before") => disposition = "before"
  BY <1>1, ItemFacts, SideFacts, MatchDisposition DEF StandsAt, Recorded
<1>4. ASSUME HeldAt(Item(f), target[f], temporary[f], "before")
      PROVE  disposition = "before"
  <2>1. OwnedTemporaryTransition(Item(f), target[f], temporary[f]) = "before"
    BY <1>4, ItemFacts, HeldFacts, SideFacts
  <2> QED
    BY <2>1, ItemFacts, TransitionDisposition, SideFacts
<1>5. Recorded(f) => Ready(f)
  BY <1>2 DEF Waits, Plain, Staged
<1>6. HeldAt(Item(f), target[f], temporary[f], "before") => Recorded(f)
  BY ItemFacts, HeldFacts, SideFacts DEF Recorded
<1>7. ~Recorded(f) => Plain(f) /\ temporary[f] = Absent
  BY <1>2, <1>6 DEF Waits, Ready
<1>8. \/ StandsAt(Item(f), target[f], "before")
      \/ HeldAt(Item(f), target[f], temporary[f], "before")
  BY <1>5, <1>7 DEF Ready, Plain
<1>9. disposition = "before"
  BY <1>3, <1>4, <1>8
<1> QED
  BY <1>5, <1>7, <1>9

\* One that is settled is taken for its new side, is confirmed, and its temporary
\* is removed.
LEMMA SettledAfter ==
  ASSUME ShapeInv, NEW f \in Active.files, Settled(f)
  PROVE  /\ MutationChangeDisposition(Item(f), target[f], temporary[f]) = "after"
         /\ DesiredEndpointReached(Item(f), target[f], temporary[f], "after")
         /\ target[f].data = After(f).data
         /\ Exists(temporary[f]) =>
              RemovableTemporary(Item(f), target[f], temporary[f])
         /\ Recorded(f) \/ temporary[f] = Absent
<1>1. CASE OwnedTemporaryTransition(Item(f), target[f], temporary[f]) = "after"
  <2>1. /\ MutationChangeDisposition(Item(f), target[f], temporary[f]) = "after"
    BY <1>1, ItemFacts, TransitionDisposition, SideFacts
  <2>2. DesiredEndpointReached(Item(f), target[f], temporary[f], "after")
    BY <1>1, ItemFacts, EndpointReached, SideFacts
  <2>3. Recorded(f) /\ SamePayload(target[f], Item(f).planned["after"])
    BY <1>1, ItemFacts, OwnedTransition, SideFacts DEF Recorded
  <2>4. Exists(temporary[f]) => RemovableTemporary(Item(f), target[f], temporary[f])
    <3>1. CASE Exists(After(f))
      <4>1. /\ Item(f).temporary.side = "after" /\ Item(f).temporary.state.nlink = 1
        BY <2>3, <3>1, RecordedFacts
      <4>2. OwnedReplacementTransition(Item(f), target[f], temporary[f], Item(f).temporary) = "after"
        BY <1>1, <2>3, <4>1 DEF OwnedTemporaryTransition, Recorded
      <4>3. /\ SameFileObject(target[f], Item(f).temporary.state)
            /\ Exists(temporary[f]) =>
                 /\ target[f].nlink = 2 /\ temporary[f].nlink = 2
                 /\ SameFileObject(target[f], temporary[f])
        BY <4>2 DEF OwnedReplacementTransition
      <4>4. Exists(temporary[f]) =>
              SamePayload(temporary[f], Item(f).planned["after"])
        BY <2>3, <4>3 DEF SameFileObject, SamePayload
      <4> QED
        BY <1>1, <2>3, <4>1, <4>3, <4>4 DEF RemovableTemporary, Recorded
    <3>2. CASE ~Exists(After(f))
      <4>1. /\ Item(f).temporary.side = "before" /\ Item(f).temporary.state.nlink = 2
        BY <2>3, <3>2, RecordedFacts
      <4>2. OwnedDeletionTombstoneTransition(target[f], temporary[f], Item(f).temporary) = "after"
        BY <1>1, <2>3, <4>1 DEF OwnedTemporaryTransition, Recorded
      <4>3. /\ ~Exists(target[f])
            /\ IsOwnedDeletionRemainder(temporary[f], Item(f).temporary.state)
        BY <4>1, <4>2 DEF OwnedDeletionTombstoneTransition
      <4> QED
        BY <2>3, <4>3 DEF RemovableTemporary, Recorded
    <3> QED
      BY <3>1, <3>2
  <2> QED
    BY <2>1, <2>2, <2>3, <2>4, ItemFacts DEF SamePayload
<1>2. CASE target[f] = Item(f).published["after"] /\ temporary[f] = Absent
  <2>1. ~Exists(temporary[f])
    BY <1>2, AbsentOnDisk
  <2>2. MatchesRecordedSide(Item(f), target[f], "after")
    BY <1>2 DEF MatchesRecordedSide
  <2>3. /\ MutationChangeDisposition(Item(f), target[f], temporary[f]) = "after"
        /\ SamePayload(target[f], Item(f).planned["after"])
    BY <2>1, <2>2, ItemFacts, MatchDisposition, MatchSound, SideFacts
  <2>4. DesiredEndpointReached(Item(f), target[f], temporary[f], "after")
    BY <2>2, ItemFacts, EndpointReached, SideFacts
  <2> QED
    BY <1>2, <2>1, <2>3, <2>4, ItemFacts DEF SamePayload
<1> QED
  BY <1>1, <1>2 DEF Settled
-----------------------------------------------------------------------------
\* An entry and its file stay as they are.
SameItem(f) ==
  Item(f)' = Item(f) /\ target'[f] = target[f] /\ temporary'[f] = temporary[f]

LEMMA FileKept ==
  ASSUME NEW f, SameItem(f)
  PROVE  /\ Recorded(f)' <=> Recorded(f)
         /\ Confirmed(f)' <=> Confirmed(f)
         /\ Plain(f)' <=> Plain(f)
         /\ Staged(f)' <=> Staged(f)
         /\ Ready(f)' <=> Ready(f)
         /\ Settled(f)' <=> Settled(f)
         /\ Rests(f)' <=> Rests(f)
<1>1. Recorded(f)' <=> Recorded(f)
  BY DEF SameItem, Recorded
<1>2. Confirmed(f)' <=> Confirmed(f)
  BY DEF SameItem, Confirmed
<1>3. Plain(f)' <=> Plain(f)
  BY <1>1 DEF SameItem, Plain
<1>4. Staged(f)' <=> Staged(f)
  BY <1>1 DEF SameItem, Staged, Prepared
<1>5. Ready(f)' <=> Ready(f)
  BY <1>1 DEF SameItem, Ready
<1>6. Settled(f)' <=> Settled(f)
  BY <1>2 DEF SameItem, Settled
<1> QED
  BY <1>1, <1>2, <1>3, <1>4, <1>5, <1>6 DEF SameItem, Rests, Waits

\* The journal that is worked with stays, or changes in the entry of one file.
LEMMA ActiveIs ==
  ASSUME memory' # NoJournal
  PROVE  Active' = memory'
BY DEF Active

LEMMA LoopActive ==
  ASSUME ShapeInv, command.pc \in LoopPc
  PROVE  /\ Active = memory /\ Active = pending.journal /\ Active # NoJournal
         /\ pending.links # 0 /\ command.pc \notin EarlyPc
         /\ command.pc \notin RecordPc /\ command.pc \notin EndPc
         /\ command.pc \notin {"idle", "unlink pending temporary", "unlink pending"}
BY ActiveFacts, LoopFacts DEF LoopPc, EarlyPc, EndPc, RecordPc

\* A step of the loop: the files beside the one at hand stay as they are.
LEMMA LoopResumes ==
  ASSUME ShapeInv, Resumable, command.pc \in LoopPc, NEW f \in File, f = command.f,
         memory' # NoJournal, memory'.files = memory.files,
         memory'.record = memory.record, memory'.marker = memory.marker,
         ImmutablePlan(memory') = ImmutablePlan(memory),
         pending'.journal = memory', pending'.links = pending.links,
         UNCHANGED <<backup, binding, drift, last>>,
         \A g \in File \ {f} : SameItem(g),
         \/ command'.pc \in LoopPc /\ command'.f = f /\ Handled(f)'
         \/ EnterFrom(f + 1) /\ Rests(f)' /\ Confirmed(f)'
  PROVE  Resumable'
<1>1. /\ Active = memory /\ Active' = memory' /\ memory = pending.journal
      /\ Active.files \subseteq File /\ Active'.files = Active.files /\ f \in Active.files
  BY LoopActive, ActiveIs, LoopFacts
<1>2. /\ \/ command'.pc \in LoopPc /\ command'.f = f /\ Handled(f)'
         \/ /\ command'.pc = "validate" /\ Rests(f)' /\ Confirmed(f)'
            /\ \A g \in memory'.files : g <= f
         \/ /\ command'.pc = "reconcile" /\ Rests(f)' /\ Confirmed(f)'
            /\ command'.f \in memory'.files /\ command'.f > f
            /\ \A g \in memory'.files : g > f => command'.f <= g
  <2>1. CASE EnterFrom(f + 1) /\ Rests(f)' /\ Confirmed(f)'
    <3>1. /\ memory'.files \subseteq File /\ f + 1 \in Nat
          /\ \A g \in File : /\ g < f + 1 <=> g <= f
                             /\ g >= f + 1 <=> g > f
      BY <1>1, FileFacts
    <3>2. \/ command'.pc = "validate" /\ \A g \in memory'.files : g < f + 1
          \/ /\ command'.pc = "reconcile"
             /\ command'.f \in memory'.files /\ command'.f >= f + 1
             /\ \A g \in memory'.files : g >= f + 1 => command'.f <= g
      BY <2>1, <3>1, EnterFromFacts
    <3> QED
      BY <2>1, <3>1, <3>2
  <2> QED
    BY <2>1
<1>3. command'.pc \in LoopPc \/ command'.pc = "validate"
  BY <1>2, LoopNames
<1>4. command'.pc \notin EarlyPc /\ command'.pc \notin RecordPc
  BY <1>3 DEF LoopPc, EarlyPc, RecordPc
<1>5. ~drift' /\ EndsWell'
  BY DEF Resumable, EndsWell
<1>6. PlanKept'
  <2>1. /\ backup # NoJournal /\ ImmutablePlan(pending.journal) = backup
        /\ pending.links = 1
    BY LoopActive DEF Resumable, PlanKept
  <2>2. command'.pc # "pending"
    BY <1>4 DEF EarlyPc
  <2>3. ImmutablePlan(pending.journal)' = backup
    BY <1>1, <2>1 DEF ImmutablePlan
  <2> QED
    BY <1>4, <2>1, <2>2, <2>3 DEF PlanKept
<1>7. BindingKept'
  BY <1>1, <1>4, LoopActive DEF Resumable, BindingKept
<1>8. /\ \A g \in Active.files \ {f} : Rests(g)'
      /\ \A g \in Active.files : g < f => Confirmed(g)'
  <2>1. ASSUME NEW g \in Active.files, g # f PROVE Rests(g)'
    BY <2>1, <1>1, FileKept DEF Resumable, FilesRest
  <2>2. ASSUME NEW g \in Active.files, g < f PROVE Confirmed(g)'
    <3>1. g # f
      BY <1>1, <2>2, FileFacts
    <3> QED
      BY <2>2, <3>1, <1>1, FileKept DEF Resumable, PassedAreConfirmed
  <2> QED
    BY <2>1, <2>2
<1>9. CASE command'.pc \in LoopPc /\ command'.f = f /\ Handled(f)'
  <2>1. command'.pc \notin EndPc
    BY <1>9 DEF LoopPc, EndPc
  <2>2. FilesRest'
    BY <1>1, <1>8, <1>9 DEF FilesRest
  <2>3. PassedAreConfirmed'
    BY <1>1, <1>8, <1>9, <2>1 DEF PassedAreConfirmed
  <2> QED
    BY <1>5, <1>6, <1>7, <2>2, <2>3 DEF Resumable
<1>10. ASSUME Rests(f)', Confirmed(f)'
       PROVE  /\ \A g \in Active.files : Rests(g)'
              /\ \A g \in Active.files : g <= f => Confirmed(g)'
  <2>1. \A g \in Active.files : g <= f => g = f \/ g < f
    BY <1>1, FileFacts
  <2> QED
    BY <1>8, <1>10, <2>1
<1>11. CASE /\ command'.pc = "validate" /\ Rests(f)' /\ Confirmed(f)'
            /\ \A g \in memory'.files : g <= f
  <2>1. command'.pc \notin LoopPc
    BY <1>11 DEF LoopPc
  <2>2. FilesRest'
    BY <1>1, <1>10, <1>11, <2>1 DEF FilesRest
  <2>3. PassedAreConfirmed'
    BY <1>1, <1>10, <1>11, <2>1 DEF PassedAreConfirmed
  <2> QED
    BY <1>5, <1>6, <1>7, <2>2, <2>3 DEF Resumable
<1>12. CASE /\ command'.pc = "reconcile" /\ Rests(f)' /\ Confirmed(f)'
            /\ command'.f \in memory'.files /\ command'.f > f
            /\ \A g \in memory'.files : g > f => command'.f <= g
  <2>1. command'.pc \notin EndPc
    BY <1>12 DEF EndPc
  <2>2. \A g \in Active.files : Rests(g)' => Handled(g)'
    BY <1>12 DEF Handled, At
  <2>3. FilesRest'
    BY <1>1, <1>10, <1>12, <2>2 DEF FilesRest
  <2>4. \A g \in memory'.files : g < command'.f => g <= f
    BY <1>1, <1>12, FileFacts
  <2>5. PassedAreConfirmed'
    BY <1>1, <1>10, <1>12, <2>1, <2>4 DEF PassedAreConfirmed
  <2> QED
    BY <1>5, <1>6, <1>7, <2>3, <2>5 DEF Resumable
<1> QED
  BY <1>2, <1>9, <1>11, <1>12

\* A call at the file at hand, or none.
LEMMA CallResumes ==
  ASSUME ShapeInv, Resumable, command.pc \in LoopPc, NEW f \in File, f = command.f,
         KeepsJournal, UNCHANGED <<drift, last>>, UNCHANGED disk \/ OnlyAt(File, f),
         NEW pc \in LoopPc, Goto(pc, f), Handled(f)'
  PROVE  Resumable'
<1>1. /\ memory' = memory /\ pending' = pending /\ memory # NoJournal
      /\ memory = pending.journal /\ UNCHANGED <<backup, binding>>
  BY LoopFacts DEF KeepsJournal
<1>2. Active' = Active
  BY <1>1 DEF Active
<1>3. \A g : Item(g)' = Item(g)
  BY <1>2 DEF Item, Entry
<1>4. \A g \in File \ {f} : SameItem(g)
  BY <1>3 DEF SameItem, OnlyAt, disk
<1>5. command'.pc \in LoopPc /\ command'.f = f
  BY GotoFacts
<1> QED
  BY <1>1, <1>4, <1>5, LoopResumes

\* Behind the loop: every file stays confirmed and at rest.
LEMMA EndResumes ==
  ASSUME ShapeInv, Resumable, command.pc \in EndPc, NEW pc \in EndPc, NEW h,
         Goto(pc, h), UNCHANGED <<memory, backup, drift, last>>,
         pending'.journal = pending.journal,
         pending'.links = 1 \/ pc = "unlink pending", BindingKept',
         \A g \in Active.files : Rests(g) => Rests(g)'
  PROVE  Resumable'
<1>1. /\ Active' = Active /\ memory = pending.journal /\ memory # NoJournal
      /\ pending.links # 0
  BY LateFacts, ActiveFacts, ActiveIs
<1>2. /\ command'.pc = pc /\ command'.pc \notin EarlyPc /\ command'.pc \notin LoopPc
      /\ command'.pc # "pending" /\ command.pc \notin LoopPc
  BY GotoFacts DEF EarlyPc, LoopPc, EndPc
<1>3. PlanKept'
  <2>1. backup # NoJournal /\ ImmutablePlan(pending.journal) = backup
    BY <1>1 DEF Resumable, PlanKept
  <2>2. ImmutablePlan(pending.journal)' = ImmutablePlan(pending.journal)
    BY DEF ImmutablePlan
  <2> QED
    BY <1>2, <2>1, <2>2 DEF PlanKept
<1>4. \A g : Confirmed(g)' <=> Confirmed(g)
  BY <1>1 DEF Confirmed, Item, Entry
<1>5. PassedAreConfirmed'
  BY <1>1, <1>2, <1>4 DEF Resumable, PassedAreConfirmed
<1>6. FilesRest'
  BY <1>1, <1>2 DEF Resumable, FilesRest
<1>7. ~drift' /\ EndsWell'
  BY DEF Resumable, EndsWell
<1> QED
  BY <1>3, <1>5, <1>6, <1>7 DEF Resumable
-----------------------------------------------------------------------------
(***************************************************************************)
(* The loop resumes, action by action.                                     *)
(***************************************************************************)
LEMMA HandledFacts ==
  ASSUME ShapeInv, Resumable, command.pc \in LoopPc, NEW f \in File, f = command.f
  PROVE  /\ f \in Active.files /\ Handled(f) /\ Change(f) = Item(f)
         /\ Disposition(f)
              = MutationChangeDisposition(Item(f), target[f], temporary[f])
         /\ Recorded(f) <=> memory.temporary[f] # NoTemporary
         /\ Confirmed(f) <=> memory.published[f] # Unrecorded
         /\ Item(f).planned["before"] = memory.before[f]
         /\ Item(f).temporary = memory.temporary[f]
<1>1. Active = memory
  BY LoopActive
<1>2. f \in Active.files
  BY <1>1, LoopFacts
<1>3. Handled(f)
  BY <1>2 DEF Resumable, FilesRest
<1>4. Change(f) = Item(f)
  BY <1>1, EntryFacts DEF Item
<1> QED
  BY <1>1, <1>2, <1>3, <1>4, EntryFacts DEF Disposition, Recorded, Confirmed, Item

\* A save of a temporary or of an endpoint changes one entry, and not the plan.
PlanOf(k, j, f) ==
  /\ k.files = j.files /\ k.record = j.record /\ k.marker = j.marker
  /\ ImmutablePlan(k) = ImmutablePlan(j)
  /\ \A g \in File \ {f} : Entry(k, g) = Entry(j, g)
  /\ Entry(k, f).planned = Entry(j, f).planned

LEMMA TemporarySavedItem ==
  ASSUME NEW j \in FullJournal, NEW f \in File, NEW prepared
  PROVE  LET k == [j EXCEPT !.temporary[f] = prepared]
         IN  /\ PlanOf(k, j, f)
             /\ Entry(k, f).published = Entry(j, f).published
             /\ Entry(k, f).temporary = prepared
<1> DEFINE k == [j EXCEPT !.temporary[f] = prepared]
<1>1. /\ k.files = j.files /\ k.record = j.record /\ k.marker = j.marker
      /\ k.before = j.before /\ k.published = j.published
      /\ k.temporary = [j.temporary EXCEPT ![f] = prepared]
  BY DEF FullJournal
<1>2. ImmutablePlan(k) = ImmutablePlan(j)
  BY DEF FullJournal, ImmutablePlan
<1>3. /\ k.temporary[f] = prepared
      /\ \A g \in File \ {f} : k.temporary[g] = j.temporary[g]
  BY <1>1 DEF FullJournal
<1> QED
  BY <1>1, <1>2, <1>3 DEF Entry, PlanOf

LEMMA PublishedSavedItem ==
  ASSUME NEW j \in FullJournal, NEW f \in File, NEW state
  PROVE  LET k == [j EXCEPT !.published[f] = state]
         IN  /\ PlanOf(k, j, f)
             /\ Entry(k, f).published["after"] = state
             /\ Entry(k, f).temporary = Entry(j, f).temporary
<1> DEFINE k == [j EXCEPT !.published[f] = state]
<1>1. /\ k.files = j.files /\ k.record = j.record /\ k.marker = j.marker
      /\ k.before = j.before /\ k.temporary = j.temporary
      /\ k.published = [j.published EXCEPT ![f] = state]
  BY DEF FullJournal
<1>2. ImmutablePlan(k) = ImmutablePlan(j)
  BY DEF FullJournal, ImmutablePlan
<1>3. /\ k.published[f] = state
      /\ \A g \in File \ {f} : k.published[g] = j.published[g]
  BY <1>1 DEF FullJournal
<1> QED
  BY <1>1, <1>2, <1>3 DEF Entry, PlanOf

\* The side of the temporary that f is published by.
TemporarySide(f) == IF Exists(After(f)) THEN "after" ELSE "before"

\* A staged file whose temporary is recorded is ready.
LEMMA StagedIsRecorded ==
  ASSUME ShapeInv, Resumable, command.pc \in LoopPc, NEW f \in File, f = command.f,
         ~Confirmed(f), Staged(f),
         Save([memory EXCEPT !.temporary[f] =
                [side |-> TemporarySide(f), state |-> temporary[f]]]),
         UNCHANGED <<disk, backup, binding, drift, last>>,
         NEW pc \in {"compare", "publish"}, Goto(pc, f)
  PROVE  Resumable'
<1> DEFINE prepared == [side |-> TemporarySide(f), state |-> temporary[f]]
<1>1. /\ f \in Active.files /\ Active = memory /\ memory = pending.journal
      /\ memory \in FullJournal /\ pending \in [links : 0..2, journal : Journal]
  BY HandledFacts, LoopActive, LoopFacts DEF JournalOK
<1>2. /\ prepared.side = TemporarySide(f) /\ prepared.state = temporary[f]
      /\ prepared # NoTemporary
  BY SideFacts DEF NoTemporary, TemporarySide
<1> HIDE DEF prepared
<1>0. PICK m \in FullJournal : m = memory
  BY <1>1
<1> DEFINE j == [m EXCEPT !.temporary[f] = prepared]
<1>3. /\ PlanOf(j, m, f)
      /\ Entry(j, f).published = Entry(m, f).published
      /\ Entry(j, f).temporary = prepared
  BY TemporarySavedItem
<1>4. j # NoJournal /\ memory' = j /\ pending'.journal = j /\ pending'.links = pending.links
  <2>1. memory' = j /\ pending' = [pending EXCEPT !.journal = j]
    BY <1>0 DEF Save, prepared
  <2>2. j.files # {}
    BY <1>0, <1>1, <1>3 DEF PlanOf
  <2> QED
    BY <1>1, <2>1, <2>2 DEF NoJournal
<1> HIDE DEF j
<1>5. Active' = j
  BY <1>4, ActiveIs
<1>6. /\ Item(f)'.planned = Item(f).planned /\ Item(f)'.published = Item(f).published
      /\ Item(f)'.temporary = prepared
      /\ \A g \in File \ {f} : Item(g)' = Item(g)
  <2>1. \A g : Item(g)' = Entry(j, g) /\ Item(g) = Entry(memory, g)
    BY <1>1, <1>5 DEF Item, Entry
  <2> QED
    BY <1>0, <1>3, <2>1 DEF PlanOf
<1>7. target'[f] = target[f] /\ temporary'[f] = temporary[f]
  BY DEF disk
<1>8. \A g \in File \ {f} : SameItem(g)
  BY <1>6 DEF SameItem, disk
<1>9. Recorded(f)' /\ ~Confirmed(f)'
  BY <1>2, <1>6 DEF Recorded, Confirmed
<1>10. Ready(f)'
  <2>1. CASE Exists(After(f))
    <3>1. StandsAt(Item(f), target[f], "before")'
      BY <2>1, <1>6, <1>7 DEF Staged, StandsAt, MatchesRecordedSide
    <3> QED
      BY <2>1, <3>1, <1>2, <1>6, <1>7, <1>9 DEF Ready
  <2>2. CASE ~Exists(After(f))
    <3>1. HeldAt(Item(f), target[f], temporary[f], "before")'
      BY <2>2, <1>2, <1>6, <1>7 DEF Staged, HeldAt, TemporarySide
    <3> QED
      BY <2>2, <3>1 DEF Ready
  <2> QED
    BY <2>1, <2>2
<1>11. command'.pc = pc /\ command'.f = f
  BY GotoFacts
<1>12. Handled(f)'
  BY <1>9, <1>10, <1>11 DEF Handled, At, Rests, Waits
<1> QED
  BY <1>0, <1>3, <1>4, <1>8, <1>11, <1>12, LoopNames, LoopResumes DEF PlanOf

LEMMA ReconcileResumes ==
  ASSUME ShapeInv, Resumable, ReconcileUnrecordedTemporary
  PROVE  Resumable'
<1>1. command.pc = "reconcile" /\ command.pc \in LoopPc /\ UNCHANGED drift
  BY LoopNames DEF ReconcileUnrecordedTemporary, At, others
<1>2. PICK f \in File : f = command.f
  BY <1>1, CurrentFile
<1>3. /\ f \in Active.files /\ Rests(f)
      /\ Recorded(f) <=> memory.temporary[f] # NoTemporary
      /\ Item(f).planned["before"] = memory.before[f]
  BY <1>1, <1>2, HandledFacts DEF Handled, At
<1>4. CASE memory.temporary[f] = NoTemporary /\ Exists(temporary[f])
  <2>1. ~Recorded(f) /\ temporary[f] # Absent
    BY <1>3, <1>4, AbsentOnDisk
  <2>2. Waits(f)
    BY <1>3, <2>1, SettledAfter DEF Rests
  <2>3. ~Ready(f)
    <3>1. ~HeldAt(Item(f), target[f], temporary[f], "before")
      BY <1>3, <2>1, ItemFacts, HeldFacts, SideFacts DEF Recorded
    <3> QED
      BY <2>1, <3>1 DEF Ready
  <2>4. Staged(f) /\ ~Confirmed(f)
    BY <2>1, <2>2, <2>3 DEF Waits
  <2>5. UnrecordedSide(f) = TemporarySide(f)
    <3>1. CASE Exists(After(f))
      <4>1. target[f].data = memory.before[f].data /\ Prepared(f)
        BY <1>3, <2>4, <3>1, StandsFacts DEF Staged
      <4> QED
        BY <3>1, <4>1 DEF UnrecordedSide, TemporarySide, Prepared
    <3>2. CASE ~Exists(After(f))
      <4>1. /\ target[f] = temporary[f] /\ target[f].nlink = 2
            /\ target[f].ino = memory.before[f].ino
            /\ target[f].data = memory.before[f].data
        BY <1>3, <2>4, <3>2 DEF Staged, SameFileObject
      <4> QED
        BY <3>2, <4>1 DEF UnrecordedSide, TemporarySide
    <3> QED
      BY <3>1, <3>2
  <2>6. TemporarySide(f) # "none"
    BY DEF TemporarySide
  <2>7. /\ Save([memory EXCEPT !.temporary[f] =
                  [side |-> UnrecordedSide(f), state |-> temporary[f]]])
        /\ Goto("compare", f) /\ UNCHANGED <<disk, backup, binding, last, phase>>
    BY <1>2, <1>4, <2>5, <2>6 DEF ReconcileUnrecordedTemporary
  <2> QED
    BY <1>1, <1>2, <2>4, <2>5, <2>7, StagedIsRecorded
<1>5. CASE ~(memory.temporary[f] = NoTemporary /\ Exists(temporary[f]))
  <2>1. Goto("compare", f) /\ KeepsJournal /\ UNCHANGED <<disk, last, phase>>
    BY <1>2, <1>5 DEF ReconcileUnrecordedTemporary
  <2>2. Recorded(f) \/ temporary[f] = Absent
    BY <1>3, <1>5, ItemFacts, AbsentOnDisk
  <2>3. command'.pc = "compare"
    BY <2>1, GotoFacts
  <2>4. Active' = Active
    BY <2>1 DEF KeepsJournal, Active
  <2>5. SameItem(f)
    BY <2>1, <2>4 DEF SameItem, Item, Entry, disk
  <2>6. Handled(f)'
    BY <1>3, <2>2, <2>3, <2>5, FileKept DEF Handled, At, SameItem
  <2> QED
    BY <1>1, <1>2, <2>1, <2>6, LoopNames, CallResumes
<1> QED
  BY <1>4, <1>5

\* A step that leaves the file at hand as it is.
LEMMA LooksOnly ==
  ASSUME KeepsJournal, UNCHANGED disk, NEW f
  PROVE  SameItem(f)
<1>1. Active' = Active
  BY DEF KeepsJournal, Active
<1> QED
  BY <1>1 DEF SameItem, Item, Entry, disk

LEMMA CompareFileResumes ==
  ASSUME ShapeInv, Resumable, CompareFile
  PROVE  Resumable'
<1>1. command.pc = "compare" /\ command.pc \in LoopPc /\ UNCHANGED drift
  BY LoopNames DEF CompareFile, At, others
<1>2. PICK f \in File : f = command.f
  BY <1>1, CurrentFile
<1>3. /\ f \in Active.files /\ Rests(f)
      /\ Recorded(f) \/ temporary[f] = Absent
      /\ Disposition(f)
           = MutationChangeDisposition(Item(f), target[f], temporary[f])
      /\ Recorded(f) <=> memory.temporary[f] # NoTemporary
      /\ Confirmed(f) <=> memory.published[f] # Unrecorded
  BY <1>1, <1>2, HandledFacts DEF Handled, At
<1>4. CASE Settled(f) /\ ~Confirmed(f)
  <2>1. Disposition(f) = "after" /\ memory.published[f] = Unrecorded
    BY <1>3, <1>4, SettledAfter
  <2>2. Goto("confirm", f) /\ KeepsJournal /\ UNCHANGED <<disk, last, phase>>
    BY <1>2, <2>1 DEF CompareFile
  <2>3. Settled(f)' /\ command'.pc = "confirm"
    BY <1>4, <2>2, LooksOnly, FileKept, GotoFacts
  <2>4. Handled(f)'
    BY <2>3 DEF Handled, At
  <2> QED
    BY <1>1, <1>2, <2>2, <2>4, LoopNames, CallResumes
<1>5. CASE Settled(f) /\ Confirmed(f)
  <2>1. Disposition(f) = "after" /\ memory.published[f] # Unrecorded
    BY <1>3, <1>5, SettledAfter
  <2>2. /\ memory' = memory /\ EnterFrom(f + 1)
        /\ UNCHANGED <<disk, pending, backup, binding, last, phase>>
    BY <1>2, <2>1 DEF CompareFile
  <2>3. KeepsJournal
    BY <2>2 DEF KeepsJournal
  <2>4. \A g : SameItem(g)
    BY <2>2, <2>3, LooksOnly
  <2>5. Rests(f)' /\ Confirmed(f)'
    BY <1>3, <1>5, <2>4, FileKept
  <2>6. memory # NoJournal /\ memory = pending.journal
    BY <1>1, LoopFacts
  <2> QED
    BY <1>1, <1>2, <2>2, <2>4, <2>5, <2>6, LoopResumes
<1>6. CASE ~Settled(f)
  <2>1. Waits(f)
    BY <1>3, <1>6 DEF Rests
  <2>2. /\ Disposition(f) = "before" /\ ~Confirmed(f)
        /\ ~Recorded(f) => Plain(f)
        /\ Recorded(f) => Ready(f)
    BY <1>3, <2>1, WaitsBefore DEF Waits
  <2>3. /\ Goto(IF memory.temporary[f] # NoTemporary THEN "publish"
                ELSE IF Exists(After(f)) THEN "stage" ELSE "tombstone", f)
        /\ KeepsJournal /\ UNCHANGED <<disk, last, phase>>
    BY <1>2, <2>2 DEF CompareFile
  <2>4. SameItem(f)
    BY <2>3, LooksOnly
  <2>5. CASE Recorded(f)
    <3>1. Goto("publish", f)
      BY <1>3, <2>3, <2>5
    <3>2. Ready(f)' /\ ~Confirmed(f)' /\ command'.pc = "publish"
      BY <2>2, <2>4, <2>5, <3>1, FileKept, GotoFacts
    <3>3. Handled(f)'
      BY <3>2 DEF Handled, At
    <3> QED
      BY <1>1, <1>2, <2>3, <3>1, <3>3, LoopNames, CallResumes
  <2>6. ASSUME ~Recorded(f), NEW pc \in {"stage", "tombstone"}, Goto(pc, f)
        PROVE  Resumable'
    <3>1. Plain(f)' /\ ~Confirmed(f)' /\ temporary'[f] = Absent
      BY <1>3, <2>2, <2>4, <2>6, FileKept DEF SameItem
    <3>2. Handled(f)'
      BY <2>6, <3>1, GotoFacts DEF Handled, At
    <3> QED
      BY <1>1, <1>2, <2>3, <2>6, <3>2, LoopNames, CallResumes
  <2>7. CASE ~Recorded(f)
    <3>1. Goto(IF Exists(After(f)) THEN "stage" ELSE "tombstone", f)
      BY <1>3, <2>3, <2>7
    <3> QED
      BY <2>6, <2>7, <3>1
  <2> QED
    BY <2>5, <2>7
<1> QED
  BY <1>4, <1>5, <1>6
LEMMA ItemKept ==
  ASSUME KeepsJournal
  PROVE  Active' = Active /\ \A g : Item(g)' = Item(g)
BY DEF KeepsJournal, Active, Item, Entry

LEMMA OpenTemporaryResumes ==
  ASSUME ShapeInv, Resumable, OpenTemporary
  PROVE  Resumable'
<1>1. /\ command.pc = "stage" /\ command.pc \in LoopPc
      /\ UNCHANGED <<drift, last>> /\ KeepsJournal
  BY LoopNames DEF OpenTemporary, At, Continues, others
<1>2. PICK f \in File : f = command.f
  BY <1>1, CurrentFile
<1>3. Plain(f) /\ ~Confirmed(f) /\ temporary[f] = Absent
  BY <1>1, <1>2, HandledFacts DEF Handled, At
<1>4. CreateTemporary(f, "foreign") /\ Goto("write", f)
  BY <1>2 DEF OpenTemporary
<1>5. OnlyAt(File, f) /\ target'[f] = target[f]
  BY <1>3, <1>4, CreateTemporaryEffect DEF ShapeInv
<1>6. Plain(f)' /\ ~Confirmed(f)' /\ command'.pc = "write"
  BY <1>1, <1>3, <1>4, <1>5, ItemKept, GotoFacts DEF Plain, Recorded, Confirmed
<1>7. Handled(f)'
  BY <1>6 DEF Handled, At
<1> QED
  BY <1>1, <1>2, <1>4, <1>5, <1>7, LoopNames, CallResumes

LEMMA WriteTemporaryResumes ==
  ASSUME ShapeInv, Resumable, WriteTemporary
  PROVE  Resumable'
<1>1. /\ command.pc = "write" /\ command.pc \in LoopPc
      /\ UNCHANGED <<drift, last>> /\ KeepsJournal
  BY LoopNames DEF WriteTemporary, At, Continues, others
<1>2. PICK f \in File : f = command.f
  BY <1>1, CurrentFile
<1>3. Plain(f) /\ ~Confirmed(f)
  BY <1>1, <1>2, HandledFacts DEF Handled, At
<1>4. /\ OnlyAt(File, f) /\ target'[f] = target[f]
      /\ temporary'[f].data = After(f).data /\ temporary'[f].nlink = 1
  BY <1>2, WriteTemporaryEffect
<1>5. Exists(After(f)) /\ Goto("record", f)
  BY <1>1, <1>2 DEF ShapeInv, HandledOK, WriteTemporary
<1>6. /\ ~Confirmed(f)' /\ ~Recorded(f)' /\ StandsAt(Item(f), target[f], "before")'
  BY <1>1, <1>3, <1>4, ItemKept DEF Plain, Recorded, Confirmed
<1>7. Staged(f)'
  BY <1>4, <1>5, <1>6 DEF Staged, Prepared
<1>8. command'.pc = "record"
  BY <1>5, GotoFacts
<1>9. Handled(f)'
  BY <1>6, <1>7, <1>8 DEF Handled, At
<1> QED
  BY <1>1, <1>2, <1>4, <1>5, <1>9, LoopNames, CallResumes

\* A file as the plan read it is taken for its old side.
LEMMA PlainBefore ==
  ASSUME ShapeInv, NEW f \in Active.files, Plain(f), ~Confirmed(f), temporary[f] = Absent
  PROVE  MutationChangeDisposition(Item(f), target[f], temporary[f]) = "before"
BY WaitsBefore DEF Waits

LEMMA StageDeletionTombstoneResumes ==
  ASSUME ShapeInv, Resumable, StageDeletionTombstone
  PROVE  Resumable'
<1>1. /\ command.pc = "tombstone" /\ command.pc \in LoopPc /\ UNCHANGED drift
  BY LoopNames DEF StageDeletionTombstone, At, others
<1>2. PICK f \in File : f = command.f
  BY <1>1, CurrentFile
<1>3. /\ Plain(f) /\ ~Confirmed(f) /\ temporary[f] = Absent /\ f \in Active.files
      /\ Disposition(f)
           = MutationChangeDisposition(Item(f), target[f], temporary[f])
  BY <1>1, <1>2, HandledFacts DEF Handled, At
<1>4. Disposition(f) = "before"
  BY <1>3, PlainBefore
<1>5. ~Exists(After(f))
  BY <1>1, <1>2 DEF ShapeInv, HandledOK
<1>6. Exists(Item(f).planned["before"])
  BY <1>3, <1>5, ItemFacts DEF Differ, Exists
<1>7. target[f] = Item(f).planned["before"] /\ target[f].nlink <= 1
  BY <1>3, <1>6, StandsFacts DEF Plain
<1>8. target[f].nlink = 1 /\ target[f] \in OnDisk
  BY <1>3, <1>6, <1>7, ItemFacts DEF OnDisk, Exists, Absent
<1>9. /\ LinkBoth(f, target[f]) /\ Goto("record", f)
      /\ KeepsJournal /\ UNCHANGED <<last, phase>>
  BY <1>2, <1>4, <1>8 DEF StageDeletionTombstone
<1>10. /\ OnlyAt(File, f) /\ target'[f] = Relinked(f, target[f], 2)
       /\ temporary'[f] = target'[f] /\ Exists(temporary'[f])
       /\ target'[f].ino = target[f].ino /\ target'[f].data = target[f].data
  BY <1>1, <1>2, <1>4, <1>9, TombstoneEffect
<1>11. target'[f].nlink = 2
  BY <1>6, <1>7, <1>8, <1>10, RelinkedOnDisk DEF ShapeInv
<1>12. /\ ~Confirmed(f)' /\ ~Recorded(f)' /\ Item(f)' = Item(f)
  BY <1>3, <1>9, ItemKept DEF Plain, Recorded, Confirmed
<1>13. Staged(f)'
  BY <1>5, <1>6, <1>7, <1>10, <1>11, <1>12 DEF Staged, SameFileObject
<1>14. command'.pc = "record"
  BY <1>9, GotoFacts
<1>15. Handled(f)'
  BY <1>12, <1>13, <1>14 DEF Handled, At
<1> QED
  BY <1>1, <1>2, <1>9, <1>10, <1>15, LoopNames, CallResumes

LEMMA RecordTemporaryResumes ==
  ASSUME ShapeInv, Resumable, RecordTemporary
  PROVE  Resumable'
<1>1. /\ command.pc = "record" /\ command.pc \in LoopPc /\ UNCHANGED drift
  BY LoopNames DEF RecordTemporary, At, others
<1>2. PICK f \in File : f = command.f
  BY <1>1, CurrentFile
<1>3. /\ Staged(f) /\ ~Confirmed(f)
      /\ Item(f).planned["before"] = memory.before[f]
  BY <1>1, <1>2, HandledFacts DEF Handled, At
<1>4. TemporarySide(f) = "before" => /\ target[f] = temporary[f]
                                     /\ SamePayload(target[f], memory.before[f])
  BY <1>3 DEF Staged, TemporarySide, SameFileObject, SamePayload
<1>5. /\ Save([memory EXCEPT !.temporary[f] =
                [side |-> TemporarySide(f), state |-> temporary[f]]])
      /\ Goto("publish", f) /\ UNCHANGED <<disk, backup, binding, last, phase>>
  BY <1>2, <1>4 DEF RecordTemporary, TemporarySide
<1> QED
  BY <1>1, <1>2, <1>3, <1>5, StagedIsRecorded

LEMMA SecondCompareResumes ==
  ASSUME ShapeInv, Resumable, SecondCompare
  PROVE  Resumable'
<1>1. /\ command.pc = "publish" /\ command.pc \in LoopPc /\ UNCHANGED drift
  BY LoopNames DEF SecondCompare, At, others
<1>2. PICK f \in File : f = command.f
  BY <1>1, CurrentFile
<1>3. /\ Ready(f) /\ ~Confirmed(f) /\ f \in Active.files /\ Change(f) = Item(f)
      /\ Disposition(f)
           = MutationChangeDisposition(Item(f), target[f], temporary[f])
  BY <1>1, <1>2, HandledFacts DEF Handled, At
<1>4. Recorded(f)
  BY <1>3, ItemFacts, HeldFacts, SideFacts DEF Ready, Recorded
<1>5. Disposition(f) = "before"
  BY <1>3, <1>4, WaitsBefore DEF Waits
<1>6. ReadyToPublish(f)
  <2>1. CASE Exists(After(f))
    <3>1. /\ Item(f).temporary.side = "after" /\ Item(f).temporary.state.nlink = 1
      BY <1>3, <1>4, <2>1, RecordedFacts
    <3>2. /\ temporary[f] = Item(f).temporary.state /\ target[f].nlink <= 1
      BY <1>3, <2>1 DEF Ready, StandsAt
    <3> QED
      BY <1>3, <2>1, <3>1, <3>2 DEF ReadyToPublish, TemporaryReady
  <2>2. CASE ~Exists(After(f))
    BY <1>3, <2>2 DEF Ready, HeldAt, ReadyToPublish, DeletionTombstoneReady
  <2> QED
    BY <2>1, <2>2
<1>7. Goto("commit", f) /\ KeepsJournal /\ UNCHANGED <<disk, last, phase>>
  BY <1>2, <1>5, <1>6 DEF SecondCompare
<1>8. Ready(f)' /\ ~Confirmed(f)' /\ command'.pc = "commit"
  BY <1>3, <1>7, LooksOnly, FileKept, GotoFacts
<1>9. Handled(f)'
  BY <1>8 DEF Handled, At
<1> QED
  BY <1>1, <1>2, <1>7, <1>9, LoopNames, CallResumes

\* A publication is settled.
LEMMA PublishFileResumes ==
  ASSUME ShapeInv, Resumable, PublishFile
  PROVE  Resumable'
<1>1. /\ command.pc = "commit" /\ command.pc \in LoopPc /\ UNCHANGED drift
  BY LoopNames DEF PublishFile, At, others
<1>2. PICK f \in File : f = command.f
  BY <1>1, CurrentFile
<1>3. /\ Ready(f) /\ ~Confirmed(f) /\ f \in Active.files
      /\ Item(f).planned["before"] = memory.before[f]
  BY <1>1, <1>2, HandledFacts DEF Handled, At
<1>4. /\ ChangeOK(Item(f)) /\ target[f] \in OnDisk /\ temporary[f] \in OnDisk
      /\ PairOK(f)
  BY <1>3, ItemFacts
<1>5. Recorded(f)
  BY <1>3, ItemFacts, HeldFacts, SideFacts DEF Ready, Recorded
<1>6. ASSUME NEW pc \in {"confirm", "unlink temporary"}, Goto(pc, f), KeepsJournal,
             UNCHANGED <<last, phase>>, OnlyAt(File, f),
             OwnedTemporaryTransition(Item(f), target'[f], temporary'[f]) = "after"
      PROVE  Resumable'
  <2>1. Item(f)' = Item(f) /\ ~Confirmed(f)'
    BY <1>3, <1>6, ItemKept DEF Confirmed
  <2>2. Settled(f)'
    BY <1>6, <2>1 DEF Settled
  <2>3. Handled(f)'
    BY <1>6, <2>2, GotoFacts DEF Handled, At
  <2> QED
    BY <1>1, <1>2, <1>6, <2>3, LoopNames, CallResumes
<1>7. CASE Exists(After(f))
  <2>1. /\ temporary[f] = Item(f).temporary.state
        /\ StandsAt(Item(f), target[f], "before")
    BY <1>3, <1>7 DEF Ready
  <2>2. /\ Item(f).temporary.side = "after" /\ Item(f).temporary.state.nlink = 1
        /\ Exists(temporary[f]) /\ temporary[f].data = After(f).data
        /\ Item(f).planned["after"] = After(f)
    BY <1>3, <1>5, <1>7, <2>1, RecordedFacts, ItemFacts
  <2>3. CASE Exists(memory.before[f])
    <3>1. /\ RenameTemporary(f) /\ Goto("confirm", f)
          /\ KeepsJournal /\ UNCHANGED <<last, phase>>
      BY <1>2, <1>7, <2>3 DEF PublishFile
    <3>2. /\ OnlyAt(File, f) /\ DiskOK(File)' /\ temporary'[f] = Absent
          /\ target'[f] = Relinked(f, temporary[f], 1)
      BY <2>2, <3>1, RenameTemporaryEffect DEF ShapeInv
    <3>3. /\ target'[f] \in OnDisk /\ target'[f].nlink = 1
          /\ SameFileObject(target'[f], Item(f).temporary.state)
      BY <1>4, <2>1, <2>2, <3>2, RelinkedOnDisk DEF ShapeInv, SameFileObject
    <3>4. PublishedAt(Item(f), target'[f], Absent, "after")
      BY <1>4, <1>5, <2>2, <3>3, PublishedFacts, SideFacts DEF Recorded
    <3> QED
      BY <1>6, <3>1, <3>2, <3>4 DEF PublishedAt
  <2>4. CASE ~Exists(memory.before[f])
    <3>1. ~Exists(target[f])
      BY <1>3, <2>1, <2>4, StandsFacts DEF Exists
    <3>2. /\ LinkBoth(f, temporary[f]) /\ Goto("unlink temporary", f)
          /\ KeepsJournal /\ UNCHANGED <<last, phase>>
      BY <1>2, <1>7, <2>4, <3>1 DEF PublishFile
    <3>3. temporary[f].ino <= clock[f]
      BY <1>4 DEF PairOK
    <3>4. /\ OnlyAt(File, f) /\ target'[f] = Relinked(f, temporary[f], 2)
          /\ temporary'[f] = Relinked(f, temporary[f], 2)
      BY <1>4, <2>2, <3>2, <3>3, LinkBothEffect DEF ShapeInv
    <3>5. /\ target'[f].nlink = 2 /\ temporary'[f] = target'[f] /\ Exists(target'[f])
          /\ target'[f].ino = temporary[f].ino /\ target'[f].data = temporary[f].data
      BY <1>4, <2>2, <3>4, RelinkedOnDisk DEF ShapeInv
    <3>6. OwnedReplacementTransition(Item(f), target'[f], temporary'[f], Item(f).temporary)
            = "after"
      BY <2>1, <2>2, <3>5 DEF OwnedReplacementTransition, SamePayload, SameFileObject
    <3>7. OwnedTemporaryTransition(Item(f), target'[f], temporary'[f]) = "after"
      BY <1>5, <2>2, <3>6 DEF OwnedTemporaryTransition, Recorded
    <3> QED
      BY <1>6, <3>2, <3>4, <3>7
  <2> QED
    BY <2>3, <2>4
<1>8. CASE ~Exists(After(f))
  <2>1. HeldAt(Item(f), target[f], temporary[f], "before")
    BY <1>3, <1>8 DEF Ready
  <2>2. /\ Exists(target[f]) /\ target[f] = temporary[f]
        /\ target[f] = Item(f).temporary.state /\ Item(f).temporary.state.nlink = 2
        /\ Item(f).temporary.side = "before"
    BY <1>4, <2>1, HeldFacts, SideFacts DEF HeldAt
  <2>3. /\ UnlinkTarget(f) /\ Goto("confirm", f)
        /\ KeepsJournal /\ UNCHANGED <<last, phase>>
    BY <1>2, <1>8, <2>2 DEF PublishFile
  <2>4. Linked(f)
    BY <2>2 DEF Linked
  <2>5. /\ OnlyAt(File, f) /\ target'[f] = Absent
        /\ temporary'[f] = Relinked(f, temporary[f], 1)
    BY <2>3, <2>4, UnlinkTargetEffect DEF ShapeInv
  <2>6. /\ temporary'[f] \in OnDisk /\ temporary'[f].nlink = 1
        /\ Exists(temporary'[f]) /\ temporary'[f].ino = temporary[f].ino
        /\ temporary'[f].data = temporary[f].data
    <3>1. Exists(temporary[f]) /\ 1 \in {1, 2} /\ DiskOK(File)
      BY <2>2 DEF ShapeInv
    <3> QED
      BY <1>4, <2>5, <3>1, RelinkedOnDisk
  <2>7. IsOwnedDeletionRemainder(temporary'[f], Item(f).temporary.state)
    BY <2>2, <2>6 DEF IsOwnedDeletionRemainder, SameFileObject
  <2>8. PublishedAt(Item(f), Absent, temporary'[f], "after")
    BY <1>4, <1>5, <2>2, <2>6, <2>7, UnlinkedFacts, SideFacts DEF Recorded
  <2> QED
    BY <1>6, <2>3, <2>5, <2>8 DEF PublishedAt
<1> QED
  BY <1>7, <1>8

\* The temporary of a settled file can be dropped.
LEMMA SettledIsUnlinked ==
  ASSUME ShapeInv, NEW f \in Active.files, Settled(f), UnlinkTemporary(f),
         Item(f)' = Item(f), Exists(After(f)) \/ Confirmed(f)
  PROVE  Settled(f)' /\ OnlyAt(File, f) /\ temporary'[f] = Absent
<1>1. /\ f \in File /\ ChangeOK(Item(f)) /\ target[f] \in OnDisk
      /\ temporary[f] \in OnDisk /\ DiskOK(File)
  BY ItemFacts DEF ShapeInv
<1>2. /\ OnlyAt(File, f) /\ temporary'[f] = Absent
      /\ IF Linked(f) THEN target'[f] = Relinked(f, target[f], 1)
         ELSE target'[f] = target[f]
  BY <1>1, UnlinkTemporaryEffect
<1>3. Confirmed(f)' <=> Confirmed(f)
  BY DEF Confirmed
<1>4. CASE temporary[f] = Absent
  <2>1. target'[f] = target[f] /\ temporary'[f] = temporary[f]
    BY <1>2, <1>4, AbsentOnDisk DEF Linked
  <2>2. Settled(f)'
    BY <2>1, <1>3 DEF Settled
  <2> QED
    BY <1>2, <2>2
<1>5. CASE temporary[f] # Absent
  <2>1. /\ OwnedTemporaryTransition(Item(f), target[f], temporary[f]) = "after"
        /\ Exists(temporary[f])
    BY <1>1, <1>5, AbsentOnDisk DEF Settled
  <2>2. Recorded(f)
    BY <1>1, <2>1, OwnedTransition, SideFacts DEF Recorded
  <2>3. CASE Exists(After(f))
    <3>1. /\ Item(f).temporary.side = "after" /\ Item(f).temporary.state.nlink = 1
      BY <2>2, <2>3, RecordedFacts
    <3>2. OwnedReplacementTransition(Item(f), target[f], temporary[f], Item(f).temporary) = "after"
      BY <2>1, <2>2, <3>1 DEF OwnedTemporaryTransition, Recorded
    <3>3. /\ SameFileObject(target[f], Item(f).temporary.state)
          /\ SameFileObject(target[f], temporary[f])
      BY <2>1, <3>2 DEF OwnedReplacementTransition
    <3>4. target'[f] = Relinked(f, target[f], 1) /\ Exists(target[f])
      BY <1>2, <3>3 DEF Linked, SameFileObject
    <3>5. /\ target'[f] \in OnDisk /\ target'[f].nlink = 1
          /\ SameFileObject(target'[f], Item(f).temporary.state)
      BY <1>1, <3>3, <3>4, RelinkedOnDisk DEF SameFileObject
    <3>6. PublishedAt(Item(f), target'[f], Absent, "after")
      BY <1>1, <2>2, <3>1, <3>5, PublishedFacts, SideFacts DEF Recorded
    <3>7. Settled(f)'
      BY <1>2, <2>3, <3>6 DEF PublishedAt, Settled
    <3> QED
      BY <1>2, <3>7
  <2>4. CASE ~Exists(After(f))
    <3>1. target[f] = Item(f).published["after"] /\ ~Exists(target[f])
      BY <2>4, SettledAfter, AfterFacts, ItemFacts DEF Settled, Exists
    <3>2. target'[f] = target[f]
      BY <1>2, <3>1 DEF Linked
    <3>3. Settled(f)'
      BY <1>2, <3>1, <3>2 DEF Settled
    <3> QED
      BY <1>2, <3>3
  <2> QED
    BY <2>3, <2>4
<1> QED
  BY <1>4, <1>5

LEMMA UnlinkPublishedTemporaryResumes ==
  ASSUME ShapeInv, Resumable, UnlinkPublishedTemporary
  PROVE  Resumable'
<1>1. /\ command.pc = "unlink temporary" /\ command.pc \in LoopPc
      /\ UNCHANGED <<drift, last>> /\ KeepsJournal
  BY LoopNames DEF UnlinkPublishedTemporary, At, Continues, others
<1>2. PICK f \in File : f = command.f
  BY <1>1, CurrentFile
<1>3. Settled(f) /\ f \in Active.files
  BY <1>1, <1>2, HandledFacts DEF Handled, At
<1>4. Exists(After(f)) /\ UnlinkTemporary(f) /\ Goto("confirm", f)
  BY <1>1, <1>2 DEF ShapeInv, HandledOK, UnlinkPublishedTemporary
<1>5. Item(f)' = Item(f)
  BY <1>1, ItemKept
<1>6. Settled(f)' /\ OnlyAt(File, f)
  BY <1>3, <1>4, <1>5, SettledIsUnlinked
<1>7. Handled(f)'
  BY <1>4, <1>6, GotoFacts DEF Handled, At
<1> QED
  BY <1>1, <1>2, <1>4, <1>6, <1>7, LoopNames, CallResumes

LEMMA RecordEndpointResumes ==
  ASSUME ShapeInv, Resumable, RecordEndpoint
  PROVE  Resumable'
<1>1. /\ command.pc = "confirm" /\ command.pc \in LoopPc /\ UNCHANGED drift
  BY LoopNames DEF RecordEndpoint, At, others
<1>2. PICK f \in File : f = command.f
  BY <1>1, CurrentFile
<1>3. Settled(f) /\ f \in Active.files /\ Change(f) = Item(f)
  BY <1>1, <1>2, HandledFacts DEF Handled, At
<1>4. /\ memory' = [memory EXCEPT !.published[f] = target[f]]
      /\ pending' = [pending EXCEPT !.journal = memory'] /\ EnterFrom(f + 1)
      /\ UNCHANGED <<disk, backup, binding, last, phase>>
  BY <1>2, <1>3, SettledAfter DEF RecordEndpoint, Save
<1>5. /\ Active = memory /\ memory = pending.journal
      /\ memory \in FullJournal /\ pending \in [links : 0..2, journal : Journal]
  BY <1>1, LoopActive, LoopFacts DEF JournalOK
<1>6. PICK m \in FullJournal : m = memory
  BY <1>5
<1> DEFINE j == [m EXCEPT !.published[f] = target[f]]
<1>7. /\ PlanOf(j, m, f)
      /\ Entry(j, f).published["after"] = target[f]
      /\ Entry(j, f).temporary = Entry(m, f).temporary
  BY PublishedSavedItem
<1>8. memory' = j
  BY <1>4, <1>6
<1> HIDE DEF j
<1>9. j # NoJournal /\ pending'.journal = j /\ pending'.links = pending.links
  <2>1. j.files # {}
    BY <1>3, <1>5, <1>6, <1>7 DEF PlanOf
  <2> QED
    BY <1>4, <1>5, <1>8, <2>1 DEF NoJournal
<1>10. Active' = j
  BY <1>8, <1>9, ActiveIs
<1>11. /\ Item(f)'.planned = Item(f).planned /\ Item(f)'.temporary = Item(f).temporary
       /\ Item(f)'.published["after"] = target[f]
       /\ \A g \in File \ {f} : Item(g)' = Item(g)
  <2>1. \A g : Item(g)' = Entry(j, g) /\ Item(g) = Entry(m, g)
    BY <1>5, <1>6, <1>10 DEF Item, Entry
  <2> QED
    BY <1>7, <2>1 DEF PlanOf
<1>12. target'[f] = target[f] /\ temporary'[f] = temporary[f]
  BY <1>4 DEF disk
<1>13. \A g \in File \ {f} : SameItem(g)
  BY <1>4, <1>11 DEF SameItem, disk
<1>14. Confirmed(f)'
  BY <1>3, <1>11, ItemFacts DEF Confirmed, OnDisk, Absent, Unrecorded
<1>15. Settled(f)'
  <2>1. OwnedTemporaryTransition(Item(f), target[f], temporary[f])'
          = OwnedTemporaryTransition(Item(f), target[f], temporary[f])
    BY <1>11, <1>12 DEF OwnedTemporaryTransition, OwnedReplacementTransition
  <2> QED
    BY <1>3, <1>11, <1>12, <2>1 DEF Settled
<1> QED
  BY <1>1, <1>2, <1>4, <1>6, <1>7, <1>8, <1>9, <1>13, <1>14, <1>15, LoopResumes
     DEF PlanOf, Rests
-----------------------------------------------------------------------------
(***************************************************************************)
(* Behind the loop.                                                        *)
(***************************************************************************)
\* Every file is confirmed, so none of them waits.
LEMMA EndFacts ==
  ASSUME ShapeInv, Resumable, command.pc \in EndPc
  PROVE  /\ Active = memory /\ memory # NoJournal /\ pending.links # 0
         /\ \A f \in Active.files : Settled(f) /\ Confirmed(f) /\ Change(f) = Item(f)
         /\ command.pc # "unlink pending" => pending.links = 1
         /\ binding \in [record : {"absent", "recorded", "linked", "changed"},
                         marker : {"none", "ours"}]
<1>1. Active = memory /\ memory # NoJournal /\ pending.links # 0
  BY ActiveFacts, LateFacts
<1>2. command.pc \notin LoopPc /\ command.pc # "unlink pending temporary"
  BY DEF LoopPc, EndPc
<1>3. \A f \in Active.files : Rests(f) /\ Confirmed(f)
  BY <1>2 DEF Resumable, FilesRest, PassedAreConfirmed
<1>4. \A f \in Active.files : Settled(f)
  BY <1>3 DEF Rests, Waits
<1>5. \A f : Change(f) = Item(f)
  BY <1>1, EntryFacts DEF Item
<1>6. command.pc # "unlink pending" => pending.links = 1
  BY <1>1, <1>2 DEF Resumable, PlanKept
<1> QED
  BY <1>1, <1>3, <1>4, <1>5, <1>6 DEF ShapeInv, HistoryOK

LEMMA BindingStays ==
  ASSUME Resumable, binding' = binding, Active' = Active,
         command.pc \notin RecordPc, NEW pc, NEW h, Goto(pc, h), pc \notin RecordPc
  PROVE  BindingKept'
<1>1. command'.pc = pc
  BY GotoFacts
<1> QED
  BY <1>1 DEF Resumable, BindingKept

\* A step that leaves the disk alone.
LEMMA EndLooks ==
  ASSUME ShapeInv, Resumable, command.pc \in EndPc, NEW pc \in EndPc, NEW h,
         Goto(pc, h), UNCHANGED <<disk, memory, pending, backup, drift, last>>,
         command.pc # "unlink pending", BindingKept'
  PROVE  Resumable'
<1>1. Active' = Active
  BY DEF Active
<1>2. \A g : SameItem(g)
  BY <1>1 DEF SameItem, Item, Entry, disk
<1>3. \A g \in Active.files : Rests(g) => Rests(g)'
  BY <1>2, FileKept
<1> QED
  BY <1>3, EndFacts, EndResumes

LEMMA ValidateContextResumes ==
  ASSUME ShapeInv, Resumable, ValidateContext
  PROVE  Resumable'
<1>1. /\ command.pc = "validate" /\ command.pc \in EndPc /\ ~drift /\ UNCHANGED drift
  BY EndNames DEF ValidateContext, At, others, Resumable
<1>2. Goto("final", 0) /\ KeepsJournal /\ UNCHANGED <<disk, last, phase>>
  BY <1>1 DEF ValidateContext
<1>3. BindingKept'
  BY <1>1, <1>2, ItemKept, BindingStays DEF KeepsJournal, RecordPc
<1> QED
  BY <1>1, <1>2, <1>3, EndLooks, EndNames DEF KeepsJournal

LEMMA CheckFinalFilesResumes ==
  ASSUME ShapeInv, Resumable, CheckFinalFiles
  PROVE  Resumable'
<1>1. /\ command.pc = "final" /\ command.pc \in EndPc /\ UNCHANGED drift
  BY EndNames DEF CheckFinalFiles, At, others
<1>2. \A f \in memory.files : Disposition(f) = "after"
  BY <1>1, EndFacts, SettledAfter DEF Disposition
<1>3. Goto("binding", 0) /\ KeepsJournal /\ UNCHANGED <<disk, last, phase>>
  BY <1>2 DEF CheckFinalFiles
<1>4. BindingKept'
  BY <1>1, <1>3, ItemKept, BindingStays DEF KeepsJournal, RecordPc
<1> QED
  BY <1>1, <1>3, <1>4, EndLooks, EndNames DEF KeepsJournal

LEMMA RetireBindingResumes ==
  ASSUME ShapeInv, Resumable, RetireBinding
  PROVE  Resumable'
<1>1. /\ command.pc = "binding" /\ command.pc \in EndPc /\ UNCHANGED drift
  BY EndNames DEF RetireBinding, At, others
<1>2. /\ Active = memory /\ memory # NoJournal
      /\ binding \in [record : {"absent", "recorded", "linked", "changed"},
                      marker : {"none", "ours"}]
  BY <1>1, EndFacts
<1>3. /\ binding.marker \in {"none", memory.marker}
      /\ binding.record \in {"absent", memory.record} \ {"linked"}
  BY <1>1, <1>2 DEF Resumable, BindingKept, RecordPc
<1>4. BindingAsExpected
  BY <1>3 DEF BindingAsExpected
<1>5. CASE binding.record = "absent"
  <2>1. Goto("marker", 0) /\ KeepsJournal /\ UNCHANGED <<disk, last, phase>>
    BY <1>4, <1>5 DEF RetireBinding
  <2>2. BindingKept'
    BY <1>1, <2>1, ItemKept, BindingStays DEF KeepsJournal, RecordPc
  <2> QED
    BY <1>1, <2>1, <2>2, EndLooks, EndNames DEF KeepsJournal
<1>6. CASE binding.record # "absent"
  <2>1. /\ binding' = [binding EXCEPT !.record = "linked"] /\ Goto("unlink record", 0)
        /\ UNCHANGED <<disk, memory, pending, backup, last, phase>>
    BY <1>4, <1>6 DEF RetireBinding
  <2>2. /\ binding'.record = "linked" /\ binding'.marker = binding.marker
        /\ command'.pc = "unlink record"
    BY <1>2, <2>1, GotoFacts
  <2>3. Active' = memory
    BY <1>2, <2>1 DEF Active
  <2>4. BindingKept'
    BY <1>3, <2>2, <2>3 DEF BindingKept, RecordPc
  <2> QED
    BY <1>1, <2>1, <2>4, EndLooks, EndNames
<1> QED
  BY <1>5, <1>6

LEMMA CompareRecordResumes ==
  ASSUME ShapeInv, Resumable, CompareRecord
  PROVE  Resumable'
<1>1. /\ command.pc = "unlink record" /\ command.pc \in EndPc /\ UNCHANGED drift
  BY EndNames DEF CompareRecord, At, others
<1>2. binding.record = "linked"
  BY <1>1 DEF Resumable, BindingKept, RecordPc
<1>3. Goto("remove record", 0) /\ KeepsJournal /\ UNCHANGED <<disk, last, phase>>
  BY <1>1, <1>2 DEF CompareRecord
<1>4. command'.pc = "remove record" /\ Active' = Active /\ UNCHANGED binding
  BY <1>3, GotoFacts, ItemKept DEF KeepsJournal
<1>5. BindingKept'
  BY <1>1, <1>4 DEF Resumable, BindingKept, RecordPc
<1> QED
  BY <1>1, <1>3, <1>5, EndLooks, EndNames DEF KeepsJournal

LEMMA RemoveRecordResumes ==
  ASSUME ShapeInv, Resumable, RemoveRecord
  PROVE  Resumable'
<1>1. /\ command.pc = "remove record" /\ command.pc \in EndPc /\ UNCHANGED drift
  BY EndNames DEF RemoveRecord, At, others
<1>2. /\ Active = memory /\ memory # NoJournal
      /\ binding \in [record : {"absent", "recorded", "linked", "changed"},
                      marker : {"none", "ours"}]
  BY <1>1, EndFacts
<1>3. binding.record = "linked" /\ binding.marker \in {"none", memory.marker}
  BY <1>1, <1>2 DEF Resumable, BindingKept, RecordPc
<1>4. /\ binding' = [binding EXCEPT !.record = "absent"] /\ Goto("marker", 0)
      /\ UNCHANGED <<disk, memory, pending, backup, last, phase>>
  BY <1>3 DEF RemoveRecord
<1>5. /\ binding'.record = "absent" /\ binding'.marker = binding.marker
      /\ command'.pc = "marker"
  BY <1>2, <1>4, GotoFacts
<1>6. Active' = memory
  BY <1>2, <1>4 DEF Active
<1>7. BindingKept'
  BY <1>3, <1>5, <1>6 DEF BindingKept, RecordPc
<1> QED
  BY <1>1, <1>4, <1>7, EndLooks, EndNames

LEMMA UnsetMarkerResumes ==
  ASSUME ShapeInv, Resumable, UnsetMarker
  PROVE  Resumable'
<1>1. /\ command.pc = "marker" /\ command.pc \in EndPc /\ UNCHANGED <<drift, last>>
      /\ UNCHANGED <<disk, memory, pending, backup>>
      /\ binding' = [binding EXCEPT !.marker = "none"] /\ Goto("cleanup", 1)
  BY EndNames DEF UnsetMarker, At, others, Continues
<1>2. /\ Active = memory /\ memory # NoJournal
      /\ binding \in [record : {"absent", "recorded", "linked", "changed"},
                      marker : {"none", "ours"}]
  BY <1>1, EndFacts
<1>3. /\ binding'.marker = "none" /\ binding'.record = binding.record
      /\ command'.pc = "cleanup" /\ Active' = memory
  BY <1>1, <1>2, GotoFacts DEF Active
<1>4. BindingKept'
  BY <1>1, <1>2, <1>3 DEF Resumable, BindingKept, RecordPc
<1> QED
  BY <1>1, <1>4, EndLooks, EndNames

LEMMA CleanupTemporaryResumes ==
  ASSUME ShapeInv, Resumable, CleanupTemporary
  PROVE  Resumable'
<1>1. /\ command.pc = "cleanup" /\ command.pc \in EndPc /\ UNCHANGED drift
  BY EndNames DEF CleanupTemporary, At, others
<1>2. PICK f \in File : f = command.f
  BY <1>1 DEF ShapeInv, CommandOK
<1>3. /\ Active = memory
      /\ \A g \in Active.files : Settled(g) /\ Confirmed(g) /\ Change(g) = Item(g)
  BY <1>1, EndFacts
<1>4. /\ IF f \in memory.files /\ Exists(temporary[f])
         THEN UnlinkTemporary(f) ELSE UNCHANGED disk
      /\ IF LastFile(f) THEN Goto("remove pending", 0) ELSE Goto("cleanup", f + 1)
      /\ KeepsJournal /\ UNCHANGED <<last, phase>>
  BY <1>2, <1>3, SettledAfter DEF CleanupTemporary
<1>5. Active' = Active /\ \A g : Item(g)' = Item(g)
  BY <1>4, ItemKept
<1>6. \A g \in Active.files : Rests(g) => Rests(g)'
  <2>1. CASE f \in memory.files /\ Exists(temporary[f])
    <3>1. Settled(f)' /\ OnlyAt(File, f)
      BY <1>3, <1>4, <1>5, <2>1, SettledIsUnlinked
    <3>2. \A g \in Active.files \ {f} : SameItem(g)
      BY <1>5, <3>1, ItemFacts DEF SameItem, OnlyAt
    <3> QED
      BY <3>1, <3>2, FileKept DEF Rests
  <2>2. CASE ~(f \in memory.files /\ Exists(temporary[f]))
    <3>1. \A g : SameItem(g)
      BY <1>4, <1>5, <2>2 DEF SameItem, disk
    <3> QED
      BY <3>1, FileKept
  <2> QED
    BY <2>1, <2>2
<1>7. pending'.links = 1 /\ UNCHANGED <<memory, pending, backup, binding>>
  BY <1>1, <1>4, EndFacts DEF KeepsJournal
<1>8. ASSUME NEW pc \in {"remove pending", "cleanup"}, NEW h, Goto(pc, h)
      PROVE  Resumable'
  <2>1. pc \in EndPc /\ pc \notin RecordPc
    BY EndNames DEF RecordPc
  <2>2. BindingKept'
    BY <1>1, <1>5, <1>7, <1>8, <2>1, BindingStays DEF RecordPc
  <2> QED
    BY <1>1, <1>4, <1>6, <1>7, <1>8, <2>1, <2>2, EndResumes
<1> QED
  BY <1>4, <1>8

LEMMA LinkPendingTombstoneResumes ==
  ASSUME ShapeInv, Resumable, LinkPendingTombstone
  PROVE  Resumable'
<1>1. /\ command.pc = "remove pending" /\ command.pc \in EndPc
      /\ UNCHANGED <<drift, last>> /\ UNCHANGED <<disk, memory, backup, binding>>
      /\ pending' = [pending EXCEPT !.links = 2] /\ Goto("unlink pending", 0)
  BY EndNames DEF LinkPendingTombstone, At, others, Continues
<1>2. pending'.journal = pending.journal
  BY <1>1, LateFacts
<1>3. Active' = Active
  BY <1>1, <1>2 DEF Active
<1>4. \A g : SameItem(g)
  BY <1>1, <1>3 DEF SameItem, Item, Entry, disk
<1>5. \A g \in Active.files : Rests(g) => Rests(g)'
  BY <1>4, FileKept
<1>6. BindingKept'
  BY <1>1, <1>3, BindingStays DEF RecordPc
<1> QED
  BY <1>1, <1>2, <1>5, <1>6, EndResumes, EndNames

\* No migration is open any more, or none was opened.
LEMMA NothingIsOpen ==
  ASSUME pending'.links = 0, pending'.journal = NoJournal,
         memory' = NoJournal, command' = Idle, ~drift', EndsWell'
  PROVE  Resumable'
<1>1. /\ Active' = NoJournal /\ command'.pc = "idle"
  BY IdleFields DEF Active
<1>2. Active'.files = {}
  BY <1>1 DEF NoJournal
<1>3. PlanKept' /\ BindingKept'
  BY <1>1 DEF PlanKept, BindingKept, EarlyPc, RecordPc
<1>4. FilesRest' /\ PassedAreConfirmed'
  BY <1>2 DEF FilesRest, PassedAreConfirmed
<1> QED
  BY <1>3, <1>4 DEF Resumable

LEMMA UnlinkPendingResumes ==
  ASSUME ShapeInv, Resumable, UnlinkPending
  PROVE  Resumable'
<1>1. /\ pending' = NoPending /\ command' = Idle /\ memory' = NoJournal /\ last' = "ok"
      /\ ~drift'
  BY DEF UnlinkPending, Ended, others, Resumable
<1> QED
  BY <1>1, NoPendingFields, NothingIsOpen DEF EndsWell
-----------------------------------------------------------------------------
(***************************************************************************)
(* Before the loop, and between upgrades.                                  *)
(***************************************************************************)
LEMMA PointerIsNat ==
  \A n \in 0..N : n \in Nat
BY KindFacts

LEMMA NotBefore ==
  \A a, b \in Nat : ~(a < b /\ b <= a) /\ ~(a < 1 /\ a >= 1)
OBVIOUS

\* The loop begins, for a new journal or for one that a crash left.
LEMMA LoopIsEntered ==
  ASSUME ShapeInv, Resumable, command.pc \in {"idle", "unlink pending temporary"},
         pending.links # 0, memory' = pending.journal,
         pending'.journal = pending.journal, pending'.links = 1, EnterFrom(1),
         UNCHANGED <<disk, backup, binding, drift, last>>
  PROVE  Resumable'
<1>1. Active = pending.journal
  BY ActiveFacts
<1>2. JournalOK(pending.journal)
  BY DEF ShapeInv, StoreOK
<1>3. Active' = Active /\ memory'.files = Active.files /\ memory'.files \subseteq File
  BY <1>1, <1>2, ActiveIs, JournalFacts DEF JournalOK, FullJournal
<1>4. \A g : SameItem(g)
  BY <1>3 DEF SameItem, Item, Entry, disk
<1>5. command.pc \notin LoopPc /\ command.pc \notin RecordPc
  BY DEF LoopPc, RecordPc
<1>6. \A g \in Active.files : Rests(g)'
  BY <1>4, <1>5, FileKept DEF Resumable, FilesRest
<1>7. \/ command'.pc = "validate" /\ \A g \in memory'.files : g < 1
      \/ /\ command'.pc = "reconcile"
         /\ \A g \in memory'.files : g >= 1 => command'.f <= g
  BY <1>3, EnterFromFacts
<1>8. \A g \in memory'.files : g >= 1 /\ g \in Nat
  BY <1>3, FileFacts
<1>9. ~drift' /\ EndsWell'
  BY DEF Resumable, EndsWell
<1>10. command'.pc \notin EarlyPc /\ command'.pc \notin RecordPc
  BY <1>7 DEF EarlyPc, RecordPc
<1>11. PlanKept'
  <2>1. backup # NoJournal /\ ImmutablePlan(pending.journal) = backup
    BY DEF Resumable, PlanKept
  <2>2. ImmutablePlan(pending.journal)' = ImmutablePlan(pending.journal)
    BY DEF ImmutablePlan
  <2>3. command'.pc # "pending"
    BY <1>7
  <2> QED
    BY <1>10, <2>1, <2>2, <2>3 DEF PlanKept
<1>12. BindingKept'
  BY <1>3, <1>5, <1>10 DEF Resumable, BindingKept
<1>13. FilesRest'
  <2>1. \A g : Rests(g)' /\ command'.pc = "reconcile" => Handled(g)'
    BY DEF Handled, At
  <2>2. command'.pc \in LoopPc => command'.pc = "reconcile"
    BY <1>7 DEF LoopPc
  <2> QED
    BY <1>3, <1>6, <2>1, <2>2 DEF FilesRest
<1>14. PassedAreConfirmed'
  <2>1. CASE command'.pc = "validate" /\ \A g \in memory'.files : g < 1
    <3>1. command'.pc \notin LoopPc
      BY <2>1 DEF LoopPc
    <3>2. ASSUME NEW g \in memory'.files PROVE FALSE
      <4>1. g < 1 /\ g >= 1 /\ g \in Nat
        BY <1>8, <2>1, <3>2
      <4> QED
        BY <4>1, NotBefore, Zenon
    <3> QED
      BY <1>3, <3>1, <3>2 DEF PassedAreConfirmed
  <2>2. CASE /\ command'.pc = "reconcile"
             /\ \A g \in memory'.files : g >= 1 => command'.f <= g
    <3>1. command'.pc \notin EndPc
      BY <2>2 DEF EndPc
    <3>2. command' \in [pc : Pc, f : 0..N]
      <4> HIDE DEF EnterFrom
      <4> QED
        BY <1>3, EnterFromFacts
    <3>3. command'.f \in Nat
      <4>1. command'.f \in 0..N
        BY <3>2
      <4>2. \A n \in 0..N : n \in Nat
        BY PointerIsNat
      <4> QED
        BY <4>1, <4>2, Zenon
    <3>4. ASSUME NEW g \in memory'.files PROVE ~(g < command'.f)
      <4>1. g >= 1 /\ g \in Nat /\ command'.f <= g
        BY <1>8, <2>2
      <4> QED
        BY <3>3, <4>1, NotBefore, Zenon
    <3> QED
      BY <1>3, <3>1, <3>4 DEF PassedAreConfirmed
  <2> QED
    BY <1>7, <2>1, <2>2
<1> QED
  BY <1>9, <1>11, <1>12, <1>13, <1>14 DEF Resumable

\* A point outside of the loop and of what follows it, with the same journal.
LEMMA EarlyGoesOn ==
  ASSUME ShapeInv, Resumable, command.pc \in EarlyPc,
         Active' = Active, UNCHANGED <<disk, binding, drift, last>>, PlanKept',
         command'.pc \in EarlyPc \cup {"unlink pending temporary"}
  PROVE  Resumable'
<1>1. /\ command.pc \notin LoopPc /\ command.pc \notin RecordPc
      /\ command'.pc \notin LoopPc \cup EndPc /\ command'.pc \notin RecordPc
  BY DEF LoopPc, EndPc, EarlyPc, RecordPc
<1>2. \A g : SameItem(g)
  BY DEF SameItem, Item, Entry, disk
<1>3. \A g \in Active.files : Rests(g)'
  BY <1>1, <1>2, FileKept DEF Resumable, FilesRest
<1>4. FilesRest' /\ PassedAreConfirmed'
  BY <1>1, <1>3 DEF FilesRest, PassedAreConfirmed
<1>5. BindingKept'
  BY <1>1 DEF Resumable, BindingKept
<1> QED
  BY <1>4, <1>5 DEF Resumable, EndsWell

LEMMA WriteBackupResumes ==
  ASSUME ShapeInv, Resumable, WriteBackup
  PROVE  Resumable'
<1>1. /\ command.pc = "backup" /\ command.pc \in EarlyPc /\ backup' = memory
      /\ Goto("pending", 0) /\ UNCHANGED <<disk, memory, pending, binding, drift, last>>
  BY DEF WriteBackup, At, EarlyPc, Continues, others
<1>2. command'.pc = "pending"
  BY <1>1, GotoFacts
<1>3. ImmutablePlan(memory)' = memory
  BY <1>1 DEF Resumable, PlanKept, ImmutablePlan
<1>4. PlanKept'
  BY <1>1, <1>2, <1>3, EarlyFacts DEF PlanKept
<1>5. Active' = Active
  BY <1>1 DEF Active
<1> QED
  BY <1>1, <1>2, <1>4, <1>5, EarlyGoesOn DEF EarlyPc

LEMMA LinkPendingResumes ==
  ASSUME ShapeInv, Resumable, LinkPending
  PROVE  Resumable'
<1>1. /\ command.pc = "pending" /\ command.pc \in EarlyPc
      /\ pending' = [links |-> 2, journal |-> memory]
      /\ Goto("unlink pending temporary", 0)
      /\ UNCHANGED <<disk, memory, backup, binding, drift, last>>
  BY DEF LinkPending, At, EarlyPc, others
<1>2. command'.pc = "unlink pending temporary" /\ command'.pc \notin EarlyPc
  BY <1>1 DEF Goto, EarlyPc
<1>3. backup = memory /\ ImmutablePlan(memory) = memory /\ memory # NoJournal
  BY <1>1, EarlyFacts DEF Resumable, PlanKept
<1>4. ImmutablePlan(pending.journal)' = memory
  BY <1>1, <1>3 DEF ImmutablePlan
<1>5. PlanKept'
  BY <1>1, <1>2, <1>3, <1>4 DEF PlanKept
<1>6. Active' = Active
  BY <1>1, <1>3 DEF Active
<1> QED
  BY <1>1, <1>2, <1>5, <1>6, EarlyGoesOn

LEMMA UnlinkPendingTemporaryResumes ==
  ASSUME ShapeInv, Resumable, UnlinkPendingTemporary
  PROVE  Resumable'
<1>1. /\ command.pc = "unlink pending temporary"
      /\ pending' = [pending EXCEPT !.links = 1] /\ memory' = memory /\ EnterFrom(1)
      /\ UNCHANGED <<disk, backup, binding, drift, last>>
  BY DEF UnlinkPendingTemporary, At, Continues, others
<1>2. /\ memory = pending.journal /\ pending.links # 0
      /\ pending'.links = 1 /\ pending'.journal = pending.journal
  BY <1>1, LateFacts
<1> QED
  BY <1>1, <1>2, LoopIsEntered

\* An unfinished file that a crash leaves at rest.
LEMMA HandledRests ==
  ASSUME ShapeInv, command.pc \in LoopPc, command.pc # "write",
         NEW f, Handled(f)
  PROVE  Rests(f)
BY DEF LoopPc, Handled, At, Rests, Waits

LEMMA CrashResumes ==
  ASSUME ShapeInv, Resumable, Crash, died' = {}
  PROVE  Resumable'
<1>1. /\ command' = Idle /\ memory' = NoJournal /\ last' = "crashed"
      /\ UNCHANGED <<disk, pending, backup, binding, drift>>
      /\ command.pc \notin Windows
  BY DEF Crash, Ended, others
<1>2. ~drift' /\ EndsWell' /\ command'.pc = "idle"
  BY <1>1, IdleFields DEF Resumable, EndsWell
<1>3. CASE command.pc \in EarlyPc
  BY <1>1, <1>2, <1>3, EarlyFacts, NothingIsOpen
<1>4. CASE command.pc \notin EarlyPc
  <2>1. /\ command.pc \in LoopPc \cup EndPc \cup {"idle"}
        /\ command.pc \notin {"write", "unlink pending temporary",
                              "unlink record", "remove record", "unlink pending"}
    BY <1>1, <1>4, PcNames DEF ShapeInv, CommandOK, Windows
  <2>2. Active = pending.journal
    BY <2>1, ActiveFacts
  <2>3. Active' = Active
    BY <1>1, <2>2 DEF Active
  <2>4. \A g : SameItem(g)
    BY <1>1, <2>3 DEF SameItem, Item, Entry, disk
  <2>5. \A g \in Active.files : Rests(g)
    BY <2>1, HandledRests DEF Resumable, FilesRest
  <2>6. \A g \in Active.files : Rests(g)'
    BY <2>4, <2>5, FileKept
  <2>7. FilesRest' /\ PassedAreConfirmed'
    BY <1>2, <2>3, <2>6 DEF FilesRest, PassedAreConfirmed, LoopPc, EndPc
  <2>8. PlanKept'
    <3>1. pending.links # 0 =>
            /\ backup # NoJournal /\ ImmutablePlan(pending.journal) = backup
            /\ pending.links = 1
      BY <2>1 DEF Resumable, PlanKept
    <3>2. ImmutablePlan(pending.journal)' = ImmutablePlan(pending.journal)
      BY <1>1 DEF ImmutablePlan
    <3> QED
      BY <1>1, <1>2, <3>1, <3>2 DEF PlanKept, EarlyPc
  <2>9. BindingKept'
    BY <1>1, <1>2, <2>1, <2>3 DEF Resumable, BindingKept, RecordPc
  <2> QED
    BY <1>2, <2>7, <2>8, <2>9 DEF Resumable
<1> QED
  BY <1>3, <1>4

\* The readable pending file is what an upgrade that ended well or crashed leaves.
LEMMA PendingIsReadable ==
  ASSUME ShapeInv, Resumable, command = Idle, PendingExists
  PROVE  JournalReadable
<1>1. command.pc = "idle" /\ pending.links # 0
  BY IdleFields, PendingFacts
<1> QED
  BY <1>1 DEF Resumable, PlanKept, JournalReadable

LEMMA CreateJournalResumes ==
  ASSUME ShapeInv, Resumable, command = Idle, ~PendingExists, ~PlanBlocked,
         memory' = CreateJournal, Goto("backup", 0),
         UNCHANGED <<disk, pending, backup, binding, drift, last>>
  PROVE  Resumable'
<1> DEFINE j == CreateJournal
<1>1. /\ JournalOK(j) /\ j # NoJournal /\ j.files = Changed(target) /\ j.before = target
      /\ \A f \in File : /\ j.temporary[f] = NoTemporary
                         /\ j.published[f] = Unrecorded
      /\ j.record = binding.record /\ j.marker = binding.marker
  BY CreateJournalOK, JournalFacts
<1>2. ImmutablePlan(j) = j
  <2>1. /\ j.temporary = [f \in File |-> NoTemporary]
        /\ j.published = [f \in File |-> Unrecorded]
    BY DEF CreateJournal
  <2>2. j \in FullJournal
    BY <1>1 DEF JournalOK
  <2> HIDE DEF j
  <2>3. ImmutablePlan(j)
          = [j EXCEPT !.temporary = j.temporary, !.published = j.published]
    BY <2>1 DEF ImmutablePlan
  <2> QED
    BY <2>2, <2>3 DEF FullJournal
<1>3. pending.links = 0 /\ command'.pc = "backup"
  BY PendingFacts, GotoFacts
<1>4. binding.record # "linked"
  BY DEF PlanBlocked, UnsupportedRecord
<1>j. memory' = j
  OBVIOUS
<1> HIDE DEF j
<1>5. Active' = j
  BY <1>1, <1>j, ActiveIs
<1>6. ASSUME NEW f \in Active'.files PROVE Rests(f)'
  <2>1. f \in File
    BY <1>1, <1>5 DEF Changed
  <2>2. temporary[f] = Absent /\ target[f] \in OnDisk /\ PairOK(f)
    BY <1>3, <2>1, PairAt DEF ShapeInv, TemporariesOfJournal
  <2>3. target[f].nlink <= 1
    <3>1. target[f].nlink # 2
      BY <2>2, AbsentOnDisk DEF PairOK, Linked
    <3>2. target[f].nlink \in {0, 1, 2}
      BY <2>2 DEF OnDisk, Absent
    <3> QED
      BY <3>1, <3>2
  <2>4. /\ Item(f)'.planned["before"] = target[f]
        /\ Item(f)'.temporary = NoTemporary
        /\ Item(f)'.published["after"] = Unrecorded
    BY <1>1, <1>5, <2>1 DEF Item, Entry
  <2>5. Exists(target[f]) \/ target[f] = Absent
    BY <2>2, AbsentOnDisk
  <2>6. MatchesRecordedSide(Item(f)', target[f], "before")
    BY <2>4, <2>5 DEF MatchesRecordedSide
  <2>7. target'[f] = target[f] /\ temporary'[f] = Absent
    BY <2>2 DEF disk
  <2>8. Plain(f)' /\ ~Confirmed(f)'
    BY <2>3, <2>4, <2>6, <2>7 DEF Plain, StandsAt, Recorded, Confirmed
  <2> QED
    BY <2>7, <2>8 DEF Rests, Waits
<1>7. FilesRest' /\ PassedAreConfirmed'
  BY <1>3, <1>6 DEF FilesRest, PassedAreConfirmed, LoopPc, EndPc
<1>8. PlanKept'
  <2>1. ImmutablePlan(memory)' = memory'
    BY <1>2 DEF ImmutablePlan, j
  <2> QED
    BY <1>3, <2>1 DEF PlanKept
<1>9. BindingKept'
  BY <1>1, <1>3, <1>4, <1>5 DEF BindingKept, RecordPc
<1> QED
  BY <1>7, <1>8, <1>9 DEF Resumable, EndsWell

\* Nothing but the way the last upgrade ended is another.
LEMMA OnlyLastChanges ==
  ASSUME ShapeInv, Resumable, EndsWell',
         UNCHANGED <<disk, pending, backup, binding, drift, command, memory>>
  PROVE  Resumable'
<1>1. Active' = Active
  BY DEF Active
<1>2. \A g : SameItem(g)
  BY <1>1 DEF SameItem, Item, Entry, disk
<1>3. \A g : Handled(g)' <=> Handled(g)
  BY <1>2, FileKept DEF Handled, At, SameItem
<1>4. FilesRest' /\ PassedAreConfirmed'
  BY <1>1, <1>2, <1>3, FileKept DEF Resumable, FilesRest, PassedAreConfirmed
<1>5. PlanKept' /\ BindingKept'
  BY <1>1 DEF Resumable, PlanKept, BindingKept, ImmutablePlan
<1> QED
  BY <1>4, <1>5 DEF Resumable

LEMMA StartResumes ==
  ASSUME ShapeInv, Resumable, NEW stopped \in BOOLEAN, Start(stopped)
  PROVE  Resumable'
<1>1. command = Idle
  BY DEF Start
<1>2. PendingExists => JournalReadable
  BY <1>1, PendingIsReadable
<1>3. CASE \E reason \in {"synced", "unfinished Context transaction", "blocked",
                          "sessions not stopped"} : Refuse(reason)
  <2>1. EndsWell' /\ UNCHANGED <<disk, pending, backup, binding, drift, command, memory>>
    BY <1>3 DEF Refuse, EndsWell, others
  <2> QED
    BY <2>1, OnlyLastChanges
<1>4. CASE /\ PendingExists /\ memory' = pending.journal /\ EnterFrom(1)
           /\ UNCHANGED <<disk, pending, backup, binding, others, phase, last, faults>>
  <2>1. pending.links # 0 /\ pending.links = 1 /\ command.pc = "idle"
    BY <1>1, <1>2, <1>4, PendingFacts, IdleFields DEF JournalReadable
  <2>2. UNCHANGED <<disk, backup, binding, drift, last>> /\ pending' = pending
    BY <1>4 DEF others
  <2> QED
    BY <1>4, <2>1, <2>2, LoopIsEntered
<1>5. CASE /\ ~PendingExists /\ ~PlanBlocked /\ memory' = CreateJournal
           /\ Goto("backup", 0)
           /\ UNCHANGED <<disk, pending, backup, binding, drift, last>>
  BY <1>1, <1>5, CreateJournalResumes
<1> QED
  BY <1>2, <1>3, <1>4, <1>5 DEF Start

LEMMA StepResumes ==
  ASSUME ShapeInv, Resumable, Step
  PROVE  Resumable'
BY WriteBackupResumes, LinkPendingResumes, UnlinkPendingTemporaryResumes,
   ReconcileResumes, CompareFileResumes, OpenTemporaryResumes,
   WriteTemporaryResumes, StageDeletionTombstoneResumes, RecordTemporaryResumes,
   SecondCompareResumes, PublishFileResumes, UnlinkPublishedTemporaryResumes,
   RecordEndpointResumes, ValidateContextResumes, CheckFinalFilesResumes,
   RetireBindingResumes, CompareRecordResumes, RemoveRecordResumes, UnsetMarkerResumes,
   CleanupTemporaryResumes, LinkPendingTombstoneResumes, UnlinkPendingResumes
   DEF Step

LEMMA SettleResumes ==
  ASSUME ShapeInv, Resumable, Settle \/ UNCHANGED vars
  PROVE  Resumable'
<1>1. UNCHANGED <<disk, pending, backup, binding, drift, command, memory, last>>
  BY DEF Settle, SettleTransaction, SettleBlocker, vars, others
<1> QED
  BY <1>1, OnlyLastChanges DEF Resumable, EndsWell

LEMMA InitResumes == Init => Resumable
<1> SUFFICES ASSUME Init PROVE Resumable
  OBVIOUS
<1>1. Active = NoJournal /\ command.pc = "idle" /\ pending.links = 0
  BY NoPendingFields, IdleFields DEF Init, Active
<1>2. Active.files = {}
  BY <1>1 DEF NoJournal
<1>3. FilesRest /\ PassedAreConfirmed
  BY <1>2 DEF FilesRest, PassedAreConfirmed
<1>4. PlanKept /\ BindingKept
  BY <1>1 DEF PlanKept, BindingKept, EarlyPc, RecordPc
<1> QED
  BY <1>3, <1>4 DEF Resumable, EndsWell, Init

\* The windows in which an upgrade died are kept.
LEMMA DeathsAreKept ==
  ASSUME [Next]_vars
  PROVE  died' = {} => died = {}
<1>1. CASE Crash
  BY <1>1 DEF Crash
<1>2. CASE Step
  BY <1>2 DEF Step, WriteBackup, LinkPending, UnlinkPendingTemporary,
     ReconcileUnrecordedTemporary, CompareFile, OpenTemporary, WriteTemporary,
     StageDeletionTombstone, RecordTemporary, SecondCompare, PublishFile,
     UnlinkPublishedTemporary, RecordEndpoint, ValidateContext, CheckFinalFiles,
     RetireBinding, CompareRecord, RemoveRecord, UnsetMarker, CleanupTemporary,
     LinkPendingTombstone, UnlinkPending, Continues, faults
<1>3. CASE \E stopped \in BOOLEAN : Start(stopped)
  BY <1>3, StartCases DEF Refuse, faults
<1>4. CASE Others \/ UNCHANGED vars
  BY <1>4 DEF Others, Settle, EditFile, WriteRecord, ChangeContext, Edit, vars, faults
<1> QED
  BY <1>1, <1>2, <1>3, <1>4 DEF Next

LEMMA NextResumes == ShapeInv /\ ResumeInv /\ [Next]_vars => ResumeInv'
<1> SUFFICES ASSUME ShapeInv, ResumeInv, [Next]_vars, Undisturbed', died' = {}
             PROVE  Resumable'
  BY DEF ResumeInv
<1>1. Resumable
  BY StaysDisturbed, DeathsAreKept DEF ResumeInv
<1>2. CASE Step
  BY <1>1, <1>2, StepResumes
<1>3. CASE Crash
  BY <1>1, <1>3, CrashResumes
<1>4. CASE \E stopped \in BOOLEAN : Start(stopped)
  BY <1>1, <1>4, StartResumes
<1>5. CASE Settle \/ UNCHANGED vars
  BY <1>1, <1>5, SettleResumes
<1> QED
  BY <1>2, <1>3, <1>4, <1>5, StaysDisturbed DEF Next

LEMMA ResumeInvariant == Spec => []ResumeInv
<1>1. Init => ResumeInv
  BY InitResumes DEF ResumeInv
<1> QED
  BY <1>1, InitShape, NextShape, NextResumes, PTL DEF Spec

\* An upgrade that nobody's edit stands in the way of is never refused, wherever
\* upgrades before it crashed outside of the windows: not at a file, not at its
\* temporary, not at the binding, and not at the pending file (retirement-runner.ts;
\* "Interrupted upgrades resume through the same explicit command", README.md:163).
THEOREM UpgradesSettle == Spec => []UpgradeSettles
<1>1. ResumeInv => UpgradeSettles
  BY DEF ResumeInv, Resumable, EndsWell, UpgradeSettles
<1> QED
  BY <1>1, ResumeInvariant, PTL
=============================================================================
